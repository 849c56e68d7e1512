------------------------------ MODULE Sessions ------------------------------
(***************************************************************************)
(* Sessions (src/auth.rs): the table of one SQLite connection              *)
(* behind a mutex, shared by every request.                                *)
(*                                                                         *)
(* A request reads the clock, looks its session up, judges the row it got, *)
(* and then touches or deletes the row in a transaction of its own, so     *)
(* other requests fall between the steps.  A request may stop after any of *)
(* its transactions.  The database outlives the process; the configuration *)
(* (who is a user, who is disabled) is read at its start.                  *)
(***************************************************************************)
EXTENDS Integers, FiniteSets

CONSTANTS
    Users,         \* user names that the configuration may hold
    Tokens,        \* session identifiers, 256 random bits: never drawn twice
    Clients,       \* requests under way at the same time
    Idle,          \* session_idle_timeout_seconds
    Absolute,      \* session_absolute_timeout_seconds
    PerUser,       \* max_sessions_per_user
    Total,         \* max_sessions_total
    MaxTime,       \* bound: last instant of the clock
    MaxRestarts,   \* bound: restarts
    MaxFaults,     \* bound: backward steps of the clock
    None           \* no session

ASSUME SessionsAssumption ==
    /\ IsFiniteSet(Users) /\ IsFiniteSet(Tokens) /\ IsFiniteSet(Clients)
    /\ None \notin Tokens
    /\ Idle \in Nat \ {0} /\ Absolute \in Nat \ {0}
    /\ PerUser \in Nat \ {0} /\ Total \in Nat \ {0}
    /\ MaxTime \in Nat /\ MaxRestarts \in Nat /\ MaxFaults \in Nat

VARIABLES
    clock,         \* seconds of the system clock
    account,       \* the configuration: "enabled", "disabled" or "absent"
    table,         \* the rows of sessions, by the token they are the digest of
    req,           \* the requests
    restarts,      \* restarts so far
    faults,        \* backward steps so far
    \* History, that no action reads:
    issued,        \* tokens that have been inserted
    asked          \* the latest instant at which a request other than a
                   \* stream's check extended the session

history == <<issued, asked>>
vars == <<clock, account, table, req, restarts, faults, history>>

Time == 0 .. MaxTime
Statuses == {"enabled", "disabled", "absent"}
\* "check": a stream looks whether its session still stands; "call": any other
\* request with a session, which goes on to the handler of its route.
Kinds == {"call", "check"}
Labels == {"idle", "lookup", "delete", "touch", "rotate", "admitted"}

Row == [user : Users, created : Time, seen : Time]
Request == [pc : Labels, kind : Kinds \cup {"login"}, user : Users \cup {None},
            token : Tokens \cup {None}, old : Tokens \cup {None}, now : Time]

TypeOK ==
    /\ clock \in Time
    /\ account \in [Users -> Statuses]
    /\ DOMAIN table \subseteq Tokens /\ table \in [DOMAIN table -> Row]
    /\ req \in [Clients -> Request]
    /\ restarts \in 0 .. MaxRestarts /\ faults \in 0 .. MaxFaults
    /\ issued \subseteq Tokens
    /\ asked \in [Tokens -> Time]

NoRequest == [pc |-> "idle", kind |-> "call", user |-> None, token |-> None,
              old |-> None, now |-> 0]

Init ==
    /\ clock = 0
    /\ account = [u \in Users |-> "enabled"]
    /\ table = [t \in {} |-> None]
    /\ req = [c \in Clients |-> NoRequest]
    /\ restarts = 0 /\ faults = 0
    /\ issued = {}
    /\ asked = [t \in Tokens |-> 0]

Only(f, S) == [x \in S |-> f[x]]
Put(f, x, v) == [y \in DOMAIN f \cup {x} |-> IF y = x THEN v ELSE f[y]]

-----------------------------------------------------------------------------
(* A request with the cookie of a session                                   *)

Then(c, label) == req' = [req EXCEPT ![c].pc = label]
Answered(c) == req' = [req EXCEPT ![c] = NoRequest]

\* The cookie names a session that exists or existed.  The clock is read
\* before the lookup.
Arrive(c) ==
    /\ req[c].pc = "idle"
    /\ \E t \in issued, k \in Kinds :
          req' = [req EXCEPT ![c] =
             [@ EXCEPT !.pc = "lookup", !.kind = k, !.token = t, !.now = clock]]
    /\ UNCHANGED <<clock, account, table, restarts, faults, history>>

Expired(row, now) ==
    \/ now >= row.created + Absolute
    \/ now - row.seen >= Idle
    \/ now < row.created

Active(u) == account[u] = "enabled"

\* validate_session: the row is judged by the clock of the request's start.
\* session_is_active ends there; authenticate goes on to touch.
Lookup(c) ==
    LET t == req[c].token
        valid == ~Expired(table[t], req[c].now) /\ Active(table[t].user)
    IN
    /\ req[c].pc = "lookup"
    /\ \/ t \notin DOMAIN table /\ Answered(c)
       \/ t \in DOMAIN table /\ ~valid /\ Then(c, "delete")
       \/ /\ t \in DOMAIN table /\ valid
          /\ req' = [req EXCEPT ![c].user = table[t].user,
                                ![c].pc = IF req[c].kind = "check" THEN "admitted" ELSE "touch"]
    /\ UNCHANGED <<clock, account, table, restarts, faults, history>>

\* The row judged ended is deleted by its key, whatever it holds by now.
DeleteEnded(c) ==
    /\ req[c].pc = "delete"
    /\ table' = Only(table, DOMAIN table \ {req[c].token})
    /\ Answered(c)
    /\ UNCHANGED <<clock, account, restarts, faults, history>>

\* Mutant: an upsert, which brings back a session deleted meanwhile.
TouchUpsert(c) ==
    LET t == req[c].token IN
    /\ req[c].pc = "touch"
    /\ table' = Put(table, t, IF t \in DOMAIN table
                              THEN [table[t] EXCEPT !.seen = req[c].now]
                              ELSE [user |-> CHOOSE u \in Users : TRUE,
                                    created |-> req[c].now, seen |-> req[c].now])
    /\ Then(c, "admitted")
    /\ UNCHANGED <<clock, account, restarts, faults, history>>

\* authenticate: UPDATE by key, of no row if the session has been deleted; the
\* request is authenticated all the same.
Touch(c) ==
    LET t == req[c].token IN
    /\ req[c].pc = "touch"
    /\ table' = [s \in DOMAIN table |->
                    IF s = t THEN [table[s] EXCEPT !.seen = req[c].now] ELSE table[s]]
    /\ asked' = IF req[c].kind = "check" THEN asked
                ELSE [asked EXCEPT ![t] = IF @ > req[c].now THEN @ ELSE req[c].now]
    /\ Then(c, "admitted")
    /\ UNCHANGED <<clock, account, restarts, faults, issued>>

\* The response is over; or the handler refuses the CSRF token, the body or the
\* start folder, or changes nothing of what is modelled here.
Finish(c) ==
    /\ req[c].pc = "admitted"
    /\ Answered(c)
    /\ UNCHANGED <<clock, account, table, restarts, faults, history>>

Logout(c) ==
    /\ req[c].pc = "admitted" /\ req[c].kind = "call"
    /\ table' = Only(table, DOMAIN table \ {req[c].token})
    /\ Answered(c)
    /\ UNCHANGED <<clock, account, restarts, faults, history>>

-----------------------------------------------------------------------------
(* Sign-in: what follows a verified password, passkey or OIDC identity      *)

\* issue_session: a new token, and the cookie's session to replace if any.
SignIn(c) ==
    /\ req[c].pc = "idle"
    /\ \E u \in Users, old \in issued \cup {None},
          t \in Tokens \ (issued \cup {req[d].token : d \in Clients}) :
          /\ Active(u)
          /\ req' = [req EXCEPT ![c] =
                [@ EXCEPT !.pc = "rotate", !.kind = "login", !.user = u,
                          !.token = t, !.old = old, !.now = clock]]
    /\ UNCHANGED <<clock, account, table, restarts, faults, history>>

\* ORDER BY last_seen_at DESC, created_at DESC; equal rows by their random keys.
Later(a, b) == a.seen > b.seen \/ (a.seen = b.seen /\ a.created > b.created)

\* keep is what LIMIT -1 OFFSET n leaves of the rows S: the n latest.
Latest(rows, S, n, keep) ==
    /\ keep \subseteq S
    /\ Cardinality(keep) <= n
    /\ keep = S \/ Cardinality(keep) = n
    /\ \A k \in keep, s \in S \ keep : ~Later(rows[s], rows[k])

\* The rows that a sign-in at this time leaves: neither the replaced one nor
\* the expired ones.
Current(old, now) == {t \in DOMAIN table :
    /\ t # old
    /\ now < table[t].created + Absolute
    /\ table[t].seen > now - Idle}

\* One transaction: the replaced and the expired rows go, then the oldest rows
\* of the user, then the oldest rows of all, and the new row comes.
Rotate(c) ==
    LET r == req[c]
        current == Current(r.old, r.now)
        mine == {t \in current : table[t].user = r.user}
    IN
    /\ r.pc = "rotate"
    /\ \E own \in SUBSET mine, keep \in SUBSET current :
          /\ Latest(table, mine, PerUser - 1, own)
          /\ Latest(table, (current \ mine) \cup own, Total - 1, keep)
          /\ table' = Put(Only(table, keep), r.token,
                          [user |-> r.user, created |-> r.now, seen |-> r.now])
    /\ issued' = issued \cup {r.token}
    /\ asked' = [asked EXCEPT ![r.token] = r.now]
    /\ Then(c, "admitted")
    /\ UNCHANGED <<clock, account, restarts, faults>>

-----------------------------------------------------------------------------
(* Around the requests                                                      *)

\* The client goes away or the database fails.  A transaction runs on the
\* blocking pool to its end or has no effect, so it is between two of them that
\* a request is cut short.
Cut(c) ==
    /\ req[c].pc \in {"lookup", "delete", "touch", "rotate"}
    /\ Answered(c)
    /\ UNCHANGED <<clock, account, table, restarts, faults, history>>

Tick ==
    /\ clock < MaxTime /\ clock' = clock + 1
    /\ UNCHANGED <<account, table, req, restarts, faults, history>>

StepBack ==
    /\ faults < MaxFaults /\ faults' = faults + 1
    /\ clock > 0 /\ clock' = clock - 1
    /\ UNCHANGED <<account, table, req, restarts, history>>

Configured == {u \in Users : account[u] # "absent"}

\* Mutant: nothing is pruned, a disabled or missing user being refused anyway.
RestartUnpruned ==
    /\ restarts < MaxRestarts /\ restarts' = restarts + 1
    /\ \E u \in Users, s \in Statuses : account' = [account EXCEPT ![u] = s]
    /\ req' = [c \in Clients |-> NoRequest]
    /\ UNCHANGED <<clock, table, faults, history>>

\* The process stops and starts with a new configuration file; what is stored
\* under the names that it does not hold is deleted before requests are served.
Restart ==
    /\ restarts < MaxRestarts /\ restarts' = restarts + 1
    /\ \E u \in Users, s \in Statuses : account' = [account EXCEPT ![u] = s]
    /\ table' = Only(table, {t \in DOMAIN table : table[t].user \in Configured'})
    /\ req' = [c \in Clients |-> NoRequest]
    /\ UNCHANGED <<clock, faults, history>>

Next ==
    \/ \E c \in Clients :
          \/ Arrive(c) \/ Lookup(c) \/ DeleteEnded(c) \/ Touch(c) \/ Finish(c)
          \/ Logout(c) \/ SignIn(c) \/ Rotate(c)
          \/ Cut(c)
    \/ Tick \/ StepBack \/ Restart

Spec == Init /\ [][Next]_vars

-----------------------------------------------------------------------------

\* However many browsers keep or hide their old cookies, a user has at most
\* PerUser sessions in the database and all users at most Total.
Bounded ==
    /\ Cardinality(DOMAIN table) <= Total
    /\ \A u \in Users : Cardinality({t \in DOMAIN table : table[t].user = u}) <= PerUser

\* A session that has been signed out, replaced, trimmed, expired or pruned
\* never comes back, although requests that were let in before that go on to
\* touch it.
EndedStaysEnded == [][\A t \in issued \ DOMAIN table : t \notin DOMAIN table']_vars

\* The requests that have just been found valid.
Valid(c) == req[c].pc = "touch" \/ (req[c].pc = "admitted" /\ req[c].kind = "check")

\* A session counts as valid only while the browser asks for something: the
\* checks of an open event stream do not keep it alive, and neither does a
\* touch that comes late.
ValidInTime == \A c \in Clients : Valid(c) => req[c].now - asked[req[c].token] < Idle

\* A name that is removed from the configuration leaves no session, so that
\* whoever is given the name later inherits none.
InheritsNothing == \A t \in DOMAIN table : table[t].user \in Configured

\* The table of sessions is sound: its rows have their types, no more than their limits
\* allow, each within its time, and none from a user who has it no longer (auth.rs).
SessionsSound == TypeOK /\ Bounded /\ ValidInTime /\ InheritsNothing
=============================================================================
