------------------------------- MODULE SignIn -------------------------------
(***************************************************************************)
(* The ways to a session (src/auth.rs, src/auth/passkeys.rs, src/oidc.rs): *)
(* passwords behind two rate limiters and a pool of verifiers, passkey     *)
(* ceremonies kept in memory, and OIDC transactions that live in a cookie  *)
(* and of which the server remembers only the states already used.         *)
(*                                                                         *)
(* Whoever arrives at "issue" is given a session: that step is             *)
(* Sessions!SignIn.  A request is one process; it takes one step between   *)
(* two awaits.  The clock does not go back here.                           *)
(***************************************************************************)
EXTENDS Integers, FiniteSets

CONSTANTS
    MaxRequests,    \* bound: requests 1 .. MaxRequests arrive in this order
    Users,          \* the configured, enabled users
    Sources,        \* client addresses, as rate_limit_source groups them
    Creds,          \* credentials that an authenticator may hold
    States,         \* OIDC states that have been handed out
    Expiry,         \* when the cookie of each state expires
    SourceLimit,    \* login_attempts_per_source_per_minute
    AccountLimit,   \* login_attempts_per_minute
    MaxKeys,        \* MAX_RATE_LIMIT_KEYS
    Window,         \* RATE_LIMIT_WINDOW_SECONDS
    Slots,          \* auth_max_concurrent: verifications at the same time
    Lifetime,       \* of a passkey ceremony
    MaxLogins,      \* MAX_PENDING_LOGINS
    MaxPending,     \* MAX_PENDING_REGISTRATIONS_PER_USER
    MaxPasskeys,    \* MAX_PASSKEYS_PER_USER
    MaxConsumed,    \* MAX_CONSUMED_STATES
    MaxTime,        \* bound: last instant of the clock
    Mixes,          \* bound: the kinds of requests that come together, how many
                    \* of them, and the credentials stored before
    None

Kinds == {"password", "passkey start", "passkey finish", "register",
          "register finish", "remove", "callback"}

ASSUME SignInAssumption ==
    /\ \A x \in Mixes : 
          x.kinds \subseteq Kinds /\ x.upto \in 0 .. MaxRequests /\ x.held \subseteq Creds
    /\ IsFiniteSet(Users) /\ IsFiniteSet(Sources) /\ IsFiniteSet(Creds) /\ IsFiniteSet(States)
    /\ None \notin States /\ States \cap (1 .. MaxRequests) = {}
    /\ MaxRequests \in Nat /\ MaxTime \in Nat /\ Slots \in Nat
    /\ Expiry \in [States -> Nat]
    /\ {SourceLimit, AccountLimit, MaxKeys, Window, Lifetime, MaxLogins,
        MaxPending, MaxPasskeys, MaxConsumed} \subseteq Nat \ {0}

VARIABLES
    clock,
    sources,        \* the windows of source_rate_limit
    accounts,       \* the windows of rate_limit, by account and source
    slots,          \* permits left in verifier_slots
    running,        \* password verifications on the blocking pool
    regs,           \* pending registrations, by the request that began each
    logins,         \* pending passkey sign-ins, likewise: when each expires
    passkeys,       \* the rows of passkeys: the user of each credential
    consumed,       \* states used, with their expiry
    req,            \* the requests
    arrived,        \* how many have arrived
    mix,            \* the kinds of requests of this behaviour, and their number
    \* History, that no action reads:
    until,          \* when the block of an exhausted source ends
    uses,           \* how often each ceremony or state was accepted
    lost,           \* how often a used state was dropped to make room
    late            \* how often it was dropped as expired, while a callback that
                    \* had come in time was still on its way to the set

limits == <<sources, accounts, until>>
pool == <<slots, running>>
ceremonies == <<regs, logins, passkeys, consumed, uses, lost, late>>
vars == <<clock, req, arrived, mix, limits, pool, ceremonies>>

Requests == 1 .. MaxRequests
Time == 0 .. MaxTime
AttemptWindow == [started : Time, seen : Time, attempts : Nat]
Labels == {"new", "source", "wait", "now", "account", "verify", "issue",
           "clear", "take", "lookup", "update", "add", "insert", "consume", "exchange", "end"}

\* What a request brings: whose it is, from where, and the ceremony (a
\* request), state or credential that it names.
Request == [pc : Labels, kind : Kinds \cup {None}, user : Users \cup {None},
            source : Sources \cup {None}, flow : Requests \cup States \cup {None},
            cred : Creds \cup {None}, now : Time]

TypeOK ==
    /\ clock \in Time /\ arrived \in 0 .. MaxRequests /\ mix \in Mixes
    /\ sources \in [DOMAIN sources -> AttemptWindow] /\ DOMAIN sources \subseteq Sources
    /\ accounts \in [DOMAIN accounts -> AttemptWindow]
    /\ DOMAIN accounts \subseteq Users \X Sources
    /\ slots \in 0 .. Slots /\ running \subseteq Requests
    /\ regs \in [DOMAIN regs -> [user : Users, expires : Nat]]
    /\ logins \in [DOMAIN logins -> Nat]
    /\ DOMAIN regs \cup DOMAIN logins \subseteq Requests
    /\ passkeys \in [DOMAIN passkeys -> Users] /\ DOMAIN passkeys \subseteq Creds
    /\ consumed \in [DOMAIN consumed -> Nat] /\ DOMAIN consumed \subseteq States
    /\ req \in [Requests -> Request]
    /\ until \in [Sources -> Nat] /\ uses \in [Requests \cup States -> Nat]
    /\ lost \in [States -> Nat] /\ late \in [States -> Nat]

Keys(u) == {c \in DOMAIN passkeys : passkeys[c] = u}
Empty == [x \in {} |-> None]
Only(f, S) == [x \in S |-> f[x]]
Put(f, x, v) == [y \in DOMAIN f \cup {x} |-> IF y = x THEN v ELSE f[y]]
Without(f, x) == Only(f, DOMAIN f \ {x})

NotYet == [pc |-> "new", kind |-> None, user |-> None, source |-> None,
           flow |-> None, cred |-> None, now |-> 0]

Init ==
    /\ clock = 0 /\ arrived = 0 /\ mix \in Mixes
    /\ sources = Empty /\ accounts = Empty
    /\ slots = Slots /\ running = {}
    /\ regs = Empty /\ logins = Empty /\ consumed = Empty
    /\ passkeys \in [mix.held -> Users]
    /\ \A u \in Users : Cardinality(Keys(u)) <= MaxPasskeys
    /\ req = [r \in Requests |-> NotYet]
    /\ until = [s \in Sources |-> 0]
    /\ uses = [f \in Requests \cup States |-> 0]
    /\ lost = [s \in States |-> 0] /\ late = [s \in States |-> 0]

Goto(r, label) == req' = [req EXCEPT ![r].pc = label]
Comes(r, q) ==
    /\ q.kind \in mix.kinds /\ r <= mix.upto
    /\ r = arrived + 1 /\ arrived' = r
    /\ req' = [req EXCEPT ![r] = q]
    /\ UNCHANGED <<clock, mix, limits, pool, ceremonies>>

-----------------------------------------------------------------------------
(* RateLimiter::allow                                                       *)

Fresh(now) == [started |-> now, seen |-> now, attempts |-> 0]

\* Windows that were seen within the last minute.
Retained(w, now) == Only(w, {k \in DOMAIN w : now - w[k].seen < Window})

\* Mutant: the window seen longest ago goes, exhausted or not.
EvictableAny(w, limit) ==
    {k \in DOMAIN w : \A j \in DOMAIN w : w[k].seen <= w[j].seen}

\* The windows that may go for a new key: an exhausted one never.
Evictable(w, limit) ==
    LET open == {k \in DOMAIN w : w[k].attempts < limit}
    IN {k \in open : \A j \in open : w[k].seen <= w[j].seen}

\* The windows with room for k: one is evicted if k is new and the map is full.
\* No element if none may go: then the attempt is refused.
Roomy(w, k, limit) ==
    IF Cardinality(DOMAIN w) >= MaxKeys /\ k \notin DOMAIN w
    THEN {Without(w, old) : old \in Evictable(w, limit)}
    ELSE {w}

\* k's window, begun again after a minute or when the clock is behind it.
WindowOf(w, k, now) ==
    IF k \in DOMAIN w /\ now - w[k].started < Window /\ now >= w[k].started
    THEN [w[k] EXCEPT !.seen = now]
    ELSE Fresh(now)

\* The outcomes of an attempt: the map after it, and whether it is allowed.
Allow(w, k, now, limit) ==
    LET kept == Retained(w, now)
        After(room) ==
            LET own == WindowOf(room, k, now)
                ok  == own.attempts < limit
            IN [map |-> Put(room, k, IF ok THEN [own EXCEPT !.attempts = @ + 1] ELSE own),
                ok  |-> ok]
    IN IF Roomy(kept, k, limit) = {} THEN {[map |-> kept, ok |-> FALSE]}
       ELSE {After(room) : room \in Roomy(kept, k, limit)}

\* allow_sign_in_source: the clock is read under the limiter's lock.  The one
\* budget of a source serves passwords and passkey starts.
AskSource(r, next) ==
    LET s == req[r].source IN
    \E o \in Allow(sources, s, clock, SourceLimit) :
        /\ sources' = o.map
        /\ until' = IF o.ok /\ o.map[s].attempts = SourceLimit
                    THEN [until EXCEPT ![s] = o.map[s].started + Window] ELSE until
        /\ Goto(r, IF o.ok THEN next ELSE "end")

-----------------------------------------------------------------------------
(* A password                                                               *)

\* An oversized password, a foreign origin or a malformed body never gets here.
PasswordArrives(r) == \E u \in Users, s \in Sources :
    Comes(r, [NotYet EXCEPT !.pc = "source", !.kind = "password", !.user = u, !.source = s])

PasswordSource(r) ==
    /\ req[r].pc = "source" /\ req[r].kind = "password"
    /\ AskSource(r, "wait")
    /\ UNCHANGED <<clock, arrived, mix, accounts, pool, ceremonies>>

\* A permit, or "busy" after VERIFIER_WAIT.
AwaitVerifier(r) ==
    /\ req[r].pc = "wait"
    /\ \/ slots > 0 /\ slots' = slots - 1 /\ Goto(r, "now")
       \/ slots = 0 /\ Goto(r, "end") /\ UNCHANGED slots
    /\ UNCHANGED <<clock, arrived, mix, limits, running, ceremonies>>

\* For this limiter the clock is read before the lock is taken.
ReadClock(r) ==
    /\ req[r].pc = "now"
    /\ req' = [req EXCEPT ![r].now = clock, ![r].pc = "account"]
    /\ UNCHANGED <<clock, arrived, mix, limits, pool, ceremonies>>

\* Refused, the permit goes back; allowed, it moves into the verification.
AskAccount(r) ==
    LET k == <<req[r].user, req[r].source>> IN
    /\ req[r].pc = "account"
    /\ \E o \in Allow(accounts, k, req[r].now, AccountLimit) :
          /\ accounts' = o.map
          /\ \/ o.ok /\ running' = running \cup {r} /\ Goto(r, "verify") /\ UNCHANGED slots
             \/ ~o.ok /\ slots' = slots + 1 /\ Goto(r, "end") /\ UNCHANGED running
    /\ UNCHANGED <<clock, arrived, mix, sources, until, ceremonies>>

\* The verification ends, of the user's hash or of the dummy one, and drops the
\* permit, whether or not its request is still there.
Verified(r) ==
    /\ r \in running
    /\ running' = running \ {r} /\ slots' = slots + 1
    /\ \/ req[r].pc = "verify" /\ \E right \in BOOLEAN : Goto(r, IF right THEN "issue" ELSE "end")
       \/ req[r].pc # "verify" /\ UNCHANGED req
    /\ UNCHANGED <<clock, arrived, mix, limits, ceremonies>>

\* The session is stored; then, for a password, the account's window is cleared.
Issue(r) ==
    /\ req[r].pc = "issue"
    /\ Goto(r, IF req[r].kind = "password" THEN "clear" ELSE "end")
    /\ UNCHANGED <<clock, arrived, mix, limits, pool, ceremonies>>

ClearWindow(r) ==
    /\ req[r].pc = "clear"
    /\ accounts' = Without(accounts, <<req[r].user, req[r].source>>)
    /\ Goto(r, "end")
    /\ UNCHANGED <<clock, arrived, mix, sources, until, pool, ceremonies>>

\* The client goes away, or a database or provider error ends the request.  A
\* verification that has begun goes on and keeps its permit.
Cut(r) ==
    /\ req[r].pc \notin {"new", "end"}
    /\ slots' = IF req[r].pc \in {"now", "account"} THEN slots + 1 ELSE slots
    /\ Goto(r, "end")
    /\ UNCHANGED <<clock, arrived, mix, limits, running, ceremonies>>

-----------------------------------------------------------------------------
(* Passkeys                                                                 *)

Alive(f, now) == Only(f, {x \in DOMAIN f : f[x] > now})
AliveRegs == Only(regs, {x \in DOMAIN regs : regs[x].expires > clock})

PasskeyArrives(r) == \E s \in Sources :
    Comes(r, [NotYet EXCEPT !.pc = "source", !.kind = "passkey start", !.source = s])

PasskeySource(r) ==
    /\ req[r].pc = "source" /\ req[r].kind = "passkey start"
    /\ AskSource(r, "add")
    /\ UNCHANGED <<clock, arrived, mix, accounts, pool, ceremonies>>

\* insert_login: a full map drops the ceremony that expires first.
InsertLogin(r) ==
    LET alive == Alive(logins, clock)
        full  == Cardinality(DOMAIN alive) >= MaxLogins
        First == {f \in DOMAIN alive : \A g \in DOMAIN alive : alive[f] <= alive[g]}
    IN
    /\ req[r].pc = "add" /\ req[r].kind = "passkey start"
    /\ \E room \in IF full THEN {Without(alive, f) : f \in First} ELSE {alive} :
          logins' = Put(room, r, clock + Lifetime)
    /\ Goto(r, "end")
    /\ UNCHANGED <<clock, arrived, mix, limits, pool, regs, passkeys, consumed, uses, lost, late>>

\* Begun ceremonies, whether or not the server still has them.
Begun(kind) == {f \in Requests : req[f].pc = "end" /\ req[f].kind = kind}

FinishArrives(r) == \E f \in Begun("passkey start"), c \in Creds :
    Comes(r, [NotYet EXCEPT !.pc = "take", !.kind = "passkey finish", !.flow = f, !.cred = c])

\* Mutant: the ceremony is only looked at, and left for its expiry to remove.
TakeLoginKeeps(r) ==
    LET f == req[r].flow
        ok == f \in DOMAIN logins /\ logins[f] > clock
    IN
    /\ req[r].pc = "take" /\ req[r].kind = "passkey finish"
    /\ uses' = IF ok THEN [uses EXCEPT ![f] = @ + 1] ELSE uses
    /\ Goto(r, IF ok THEN "lookup" ELSE "end")
    /\ UNCHANGED <<clock, arrived, mix, limits, pool, regs, logins, passkeys, consumed, lost, late>>

\* take: removed whether or not it has expired.
TakeLogin(r) ==
    LET f == req[r].flow
        ok == f \in DOMAIN logins /\ logins[f] > clock
    IN
    /\ req[r].pc = "take" /\ req[r].kind = "passkey finish"
    /\ logins' = Without(logins, f)
    /\ uses' = IF ok THEN [uses EXCEPT ![f] = @ + 1] ELSE uses
    /\ Goto(r, IF ok THEN "lookup" ELSE "end")
    /\ UNCHANGED <<clock, arrived, mix, limits, pool, regs, passkeys, consumed, lost, late>>

\* The credential and its user, as stored now; an invalid signature is Cut.
LookupPasskey(r) ==
    LET c == req[r].cred IN
    /\ req[r].pc = "lookup"
    /\ req' = [req EXCEPT ![r].pc = IF c \in DOMAIN passkeys THEN "update" ELSE "end",
                          ![r].user = IF c \in DOMAIN passkeys THEN passkeys[c] ELSE None]
    /\ UNCHANGED <<clock, arrived, mix, limits, pool, ceremonies>>

\* update_passkey_after_login: the row must still be there and still be theirs.
UpdatePasskey(r) ==
    LET c == req[r].cred IN
    /\ req[r].pc = "update"
    /\ Goto(r, IF c \in DOMAIN passkeys /\ passkeys[c] = req[r].user THEN "issue" ELSE "end")
    /\ UNCHANGED <<clock, arrived, mix, limits, pool, ceremonies>>

\* start_registration, in a session younger than ten minutes.
RegisterArrives(r) == \E u \in Users :
    Comes(r, [NotYet EXCEPT !.pc = "add", !.kind = "register", !.user = u])

\* The keys of the user are counted, in a query of its own.
CountKeys(r) ==
    /\ req[r].pc = "add" /\ req[r].kind = "register"
    /\ Goto(r, IF Cardinality(Keys(req[r].user)) >= MaxPasskeys THEN "end" ELSE "insert")
    /\ UNCHANGED <<clock, arrived, mix, limits, pool, ceremonies>>

\* insert_registration makes room among the user's own ceremonies.
InsertRegistration(r) ==
    LET u == req[r].user
        mine == {f \in DOMAIN AliveRegs : regs[f].user = u}
        First == {f \in mine : \A g \in mine : regs[f].expires <= regs[g].expires}
    IN
    /\ req[r].pc = "insert"
    /\ \E room \in IF Cardinality(mine) >= MaxPending
                   THEN {Without(AliveRegs, f) : f \in First} ELSE {AliveRegs} :
          regs' = Put(room, r, [user |-> u, expires |-> clock + Lifetime])
    /\ Goto(r, "end")
    /\ UNCHANGED <<clock, arrived, mix, limits, pool, logins, passkeys, consumed, uses, lost, late>>

RegisterFinishArrives(r) == \E f \in Begun("register"), u \in Users, c \in Creds :
    Comes(r, [NotYet EXCEPT !.pc = "take", !.kind = "register finish",
                            !.user = u, !.flow = f, !.cred = c])

\* The ceremony is gone even when another user's session presents it.
TakeRegistration(r) ==
    LET f == req[r].flow
        ok == f \in DOMAIN regs /\ regs[f].expires > clock /\ regs[f].user = req[r].user
    IN
    /\ req[r].pc = "take" /\ req[r].kind = "register finish"
    /\ regs' = Without(regs, f)
    /\ uses' = IF ok THEN [uses EXCEPT ![f] = @ + 1] ELSE uses
    /\ Goto(r, IF ok THEN "add" ELSE "end")
    /\ UNCHANGED <<clock, arrived, mix, limits, pool, logins, passkeys, consumed, lost, late>>

\* One transaction counts again and inserts, unless the credential is known.
AddPasskey(r) ==
    LET c == req[r].cred
        u == req[r].user
    IN
    /\ req[r].pc = "add" /\ req[r].kind = "register finish"
    /\ passkeys' = IF Cardinality(Keys(u)) < MaxPasskeys /\ c \notin DOMAIN passkeys
                   THEN Put(passkeys, c, u) ELSE passkeys
    /\ Goto(r, "end")
    /\ UNCHANGED <<clock, arrived, mix, limits, pool, regs, logins, consumed, uses, lost, late>>

\* A user removes a key of their own; renaming one changes nothing here.
RemovePasskey(r) == \E c \in DOMAIN passkeys :
    /\ "remove" \in mix.kinds /\ r <= mix.upto
    /\ r = arrived + 1 /\ arrived' = r
    /\ req' = [req EXCEPT ![r].pc = "end", ![r].kind = "remove"]
    /\ passkeys' = Without(passkeys, c)
    /\ UNCHANGED <<clock, mix, limits, pool, regs, logins, consumed, uses, lost, late>>

-----------------------------------------------------------------------------
(* OpenID Connect                                                           *)

\* The browser comes back from the provider with the cookie of a state.
CallbackArrives(r) == \E s \in States :
    Comes(r, [NotYet EXCEPT !.pc = "take", !.kind = "callback", !.flow = s])

\* consume: cookie and MAC are right.  The clock is read before the set is locked.
JudgeCookie(r) ==
    /\ req[r].pc = "take" /\ req[r].kind = "callback"
    /\ req' = [req EXCEPT ![r].now = clock,
                          ![r].pc = IF Expiry[req[r].flow] <= clock THEN "end" ELSE "consume"]
    /\ UNCHANGED <<clock, arrived, mix, limits, pool, ceremonies>>

\* The callbacks of s that have passed the check of the cookie.
InTime(s) == {r \in Requests : req[r].pc = "consume" /\ req[r].flow = s}

\* Under the lock what has expired by then is dropped.  The state must not have been
\* used yet as far as the set remembers; a full set forgets the one that expires first.
Consume(r) ==
    LET s == req[r].flow
        alive == Alive(consumed, req[r].now)
        dropped == {x \in DOMAIN consumed \ DOMAIN alive : InTime(x) # {}}
        First == {x \in DOMAIN alive : \A y \in DOMAIN alive : alive[x] <= alive[y]}
        gone == IF Cardinality(DOMAIN alive) >= MaxConsumed THEN First ELSE {}
    IN
    /\ req[r].pc = "consume"
    /\ late' = [x \in States |-> IF x \in dropped THEN late[x] + 1 ELSE late[x]]
    /\ \/ /\ s \in DOMAIN alive
          /\ consumed' = alive
          /\ Goto(r, "end") /\ UNCHANGED <<uses, lost>>
       \/ /\ s \notin DOMAIN alive
          /\ \E x \in IF gone = {} THEN {None} ELSE gone :
                /\ consumed' = Put(Without(alive, x), s, Expiry[s])
                /\ lost' = IF x = None THEN lost ELSE [lost EXCEPT ![x] = @ + 1]
          /\ uses' = [uses EXCEPT ![s] = @ + 1]
          /\ Goto(r, "exchange")
    /\ UNCHANGED <<clock, arrived, mix, limits, pool, regs, logins, passkeys>>

\* The provider's answers: a code exchanged, an ID token that verifies, an
\* email of an enabled user and a subject that fits.  Anything else is Cut.
Exchange(r) ==
    /\ req[r].pc = "exchange"
    /\ Goto(r, "issue")
    /\ UNCHANGED <<clock, arrived, mix, limits, pool, ceremonies>>

-----------------------------------------------------------------------------

Tick ==
    /\ clock < MaxTime /\ clock' = clock + 1
    /\ UNCHANGED <<req, arrived, mix, limits, pool, ceremonies>>

Next ==
    \/ \E r \in Requests :
          \/ PasswordArrives(r) \/ PasswordSource(r) \/ AwaitVerifier(r) \/ ReadClock(r)
          \/ AskAccount(r) \/ Verified(r) \/ Issue(r) \/ ClearWindow(r) \/ Cut(r)
          \/ PasskeyArrives(r) \/ PasskeySource(r) \/ InsertLogin(r)
          \/ FinishArrives(r) \/ TakeLogin(r) \/ LookupPasskey(r) \/ UpdatePasskey(r)
          \/ RegisterArrives(r) \/ CountKeys(r) \/ InsertRegistration(r) \/ RegisterFinishArrives(r)
          \/ TakeRegistration(r) \/ AddPasskey(r) \/ RemovePasskey(r)
          \/ CallbackArrives(r) \/ JudgeCookie(r) \/ Consume(r) \/ Exchange(r)
    \/ Tick

Spec == Init /\ [][Next]_vars

-----------------------------------------------------------------------------

\* A source that has used up its budget stays refused until its window ends:
\* no flood of other sources, through passwords or passkey starts, makes the
\* limiter forget it.
BlockedStays == \A s \in Sources : clock < until[s] =>
    s \in DOMAIN sources /\ sources[s].attempts >= SourceLimit

\* Neither limiter keeps more windows than its maps may hold, whoever asks.
LimitersBounded ==
    Cardinality(DOMAIN sources) <= MaxKeys /\ Cardinality(DOMAIN accounts) <= MaxKeys

\* At most Slots password hashes are computed at the same time and no permit is
\* lost, although clients go away before, during and after the computation.
VerifiersBounded ==
    slots + Cardinality(running) +
       Cardinality({r \in Requests : req[r].pc \in {"now", "account"}}) = Slots

\* A passkey ceremony is accepted once, however many requests present it at the
\* same time.  Until it expires an OIDC state is accepted again only if the bounded set
\* had to forget it; afterwards only a callback that had come in time may be, once for
\* each time that one with a later clock overtook it and dropped the state as expired.
SingleUse ==
    /\ \A r \in Requests : uses[r] <= 1
    /\ \A s \in States : uses[s] <= 1 + lost[s] + IF clock < Expiry[s] THEN 0 ELSE late[s]

\* A user never has more keys than allowed, although they are counted when a
\* registration begins and several may be under way; and neither map of pending
\* ceremonies outgrows its bound.
CeremoniesBounded ==
    /\ \A u \in Users : Cardinality(Keys(u)) <= MaxPasskeys
    /\ \A u \in Users : Cardinality({f \in DOMAIN regs : regs[f].user = u}) <= MaxPending
    /\ Cardinality(DOMAIN logins) <= MaxLogins
    /\ Cardinality(DOMAIN consumed) <= MaxConsumed

\* What stands between an attempt and a password holds: who is blocked stays so, in maps
\* that stay within their bound, and no more verifiers run than there are slots, with
\* clients that go away (auth.rs).
LimitsHold == TypeOK /\ BlockedStays /\ LimitersBounded /\ VerifiersBounded

\* A ceremony or a login state is good for one sign-in, and neither ceremonies nor passkeys
\* grow past their limits (auth/passkeys.rs and oidc.rs).
UsedOnce == SingleUse /\ CeremoniesBounded
=============================================================================
