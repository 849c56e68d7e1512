---------------------------- MODULE SignInProofs ----------------------------
(* Proofs about SignIn, for any number of requests and any limits, about   *)
(* Identity, for any callback, and about Preferences, for any requests of  *)
(* a user.                                                                 *)
EXTENDS SignIn, Identity, Preferences, FiniteSetTheorems, WellFoundedInduction, TLAPS

\* What a request of each kind brings along.
ShapeOf(q) == q.pc # "new" =>
    /\ q.kind = "password" => q.user \in Users /\ q.source \in Sources
    /\ q.kind = "passkey start" => q.source \in Sources
    /\ q.kind = "passkey finish" => q.flow \in Requests
    /\ q.kind = "register" => q.user \in Users
    /\ q.kind = "register finish" => q.user \in Users /\ q.cred \in Creds /\ q.flow \in Requests
    /\ q.kind = "callback" => q.flow \in States
    /\ q.pc \in {"wait", "now", "account", "verify"} => q.kind = "password"
    /\ q.pc = "lookup" => q.kind = "passkey finish"
    /\ q.pc = "insert" => q.kind = "register"
    /\ q.pc = "consume" => q.kind = "callback" /\ q.now < Expiry[q.flow]

\* The requests are well formed, what they read of the clock is past, and those that have
\* not arrived have done nothing.
RequestsInv ==
    /\ clock \in Time /\ arrived \in 0 .. MaxRequests /\ mix \in Mixes
    /\ req \in [Requests -> Request]
    /\ \A r \in Requests : ShapeOf(req[r]) /\ (r > arrived => req[r].pc = "new")
    /\ \A r \in Requests : req[r].now <= clock

\* The windows of an exhausted source are those that until speaks of.
BlockedUntil == \A s \in Sources : clock < until[s] =>
    /\ s \in DOMAIN sources
    /\ sources[s].attempts >= SourceLimit
    /\ until[s] = sources[s].started + Window

\* The limiters: a window of a source was begun before it was last seen, and both are past.
LimitsInv ==
    /\ sources \in [DOMAIN sources -> AttemptWindow] /\ DOMAIN sources \subseteq Sources
    /\ accounts \in [DOMAIN accounts -> AttemptWindow]
    /\ DOMAIN accounts \subseteq Users \X Sources
    /\ until \in [Sources -> Nat]
    /\ \A s \in DOMAIN sources : sources[s].started <= sources[s].seen /\ sources[s].seen <= clock
    /\ BlockedUntil /\ LimitersBounded

\* The requests that hold a permit and have not begun to verify.
Holders == {r \in Requests : req[r].pc \in {"now", "account"}}

\* The permits: a verification that runs has its request at it, or gone.
PoolInv ==
    /\ slots \in 0 .. Slots /\ running \subseteq Requests
    /\ VerifiersBounded
    /\ \A r \in running : req[r].pc \in {"verify", "end"}

\* A ceremony that is pending was begun by a request that is over, as one of its
\* two kinds, and was not accepted yet.
PendingUnused ==
    /\ DOMAIN regs \cap DOMAIN logins = {}
    /\ \A r \in Requests :
          /\ uses[r] <= 1
          /\ r \in DOMAIN regs \cup DOMAIN logins => req[r].pc = "end" /\ uses[r] = 0
          /\ req[r].pc # "end" => uses[r] = 0

\* A state that was accepted is remembered until it expires, or was dropped; one that has
\* expired may be forgotten once no callback of it is on its way to the set.
UsedRemembered == \A s \in States :
    /\ uses[s] <= 1 + lost[s] + late[s]
    /\ s \in DOMAIN consumed => consumed[s] = Expiry[s]
    /\ Expiry[s] > clock => late[s] = 0
    /\ s \notin DOMAIN consumed =>
          uses[s] <= lost[s] + late[s] \/ (Expiry[s] <= clock /\ InTime(s) = {})

\* The types of the ceremonies, the keys and the used states.
CeremonyTypes ==
    /\ regs \in [DOMAIN regs -> [user : Users, expires : Nat]]
    /\ logins \in [DOMAIN logins -> Nat]
    /\ DOMAIN regs \cup DOMAIN logins \subseteq Requests
    /\ passkeys \in [DOMAIN passkeys -> Users] /\ DOMAIN passkeys \subseteq Creds
    /\ consumed \in [DOMAIN consumed -> Nat] /\ DOMAIN consumed \subseteq States
    /\ uses \in [Requests \cup States -> Nat] /\ lost \in [States -> Nat]
    /\ late \in [States -> Nat]

\* The ceremonies, the keys and the used states.
CeremonyInv ==
    /\ CeremonyTypes
    /\ PendingUnused /\ UsedRemembered /\ CeremoniesBounded

\* The inductive invariant.
SignInInv == RequestsInv /\ LimitsInv /\ PoolInv /\ CeremonyInv

-----------------------------------------------------------------------------
(* The requests                                                              *)

\* The constants that proofs compare.
LEMMA Constants ==
  /\ MaxRequests \in Nat /\ MaxTime \in Nat /\ Slots \in Nat
  /\ SourceLimit \in Nat \ {0} /\ AccountLimit \in Nat \ {0} /\ MaxKeys \in Nat \ {0}
  /\ Window \in Nat \ {0} /\ Lifetime \in Nat \ {0} /\ MaxLogins \in Nat \ {0}
  /\ MaxPending \in Nat \ {0} /\ MaxPasskeys \in Nat \ {0} /\ MaxConsumed \in Nat \ {0}
  /\ Expiry \in [States -> Nat] /\ None \notin States /\ States \cap Requests = {}
  BY SignInAssumption DEF Requests

\* One request moves on to q, which is well formed.
LEMMA RequestMoves ==
  ASSUME RequestsInv, NEW r \in Requests, NEW q \in Request, ShapeOf(q), q.now <= clock,
         req' = [req EXCEPT ![r] = q], q.pc # "new",
         UNCHANGED <<clock, mix>>,
         \/ req[r].pc # "new" /\ UNCHANGED arrived
         \/ r = arrived + 1 /\ arrived' = r
  PROVE  RequestsInv'
  <1>1. req' \in [Requests -> Request] /\ req'[r] = q
        /\ \A s \in Requests \ {r} : req'[s] = req[s]
    BY DEF RequestsInv
  <1>2. arrived' \in 0 .. MaxRequests /\ arrived <= arrived' /\ r <= arrived'
    BY Constants DEF RequestsInv, Requests
  <1>3. \A s \in Requests : ShapeOf(req'[s]) /\ (s > arrived' => req'[s].pc = "new")
    BY <1>1, <1>2 DEF RequestsInv, Requests
  <1>4. clock' = clock /\ mix' = mix /\ \A s \in Requests : req'[s].now <= clock
    BY <1>1 DEF RequestsInv
  <1>5. (\A s \in Requests : req[s].now <= clock)'
    BY <1>4
  <1>6. (\A s \in Requests : ShapeOf(req[s]) /\ (s > arrived => req[s].pc = "new"))'
    BY <1>3 DEF ShapeOf
  <1>7. (clock \in Time /\ mix \in Mixes)'
    BY <1>4 DEF RequestsInv
  <1> QED BY <1>1, <1>2, <1>5, <1>6, <1>7 DEF RequestsInv

\* The labels that a request can be sent to only from certain kinds.
Entrance(q, label) ==
    /\ label \in Labels \ {"new", "consume"}
    /\ label \in {"wait", "now", "account", "verify"} => q.kind = "password"
    /\ label = "lookup" => q.kind = "passkey finish"
    /\ label = "insert" => q.kind = "register"

\* The same for a request that only changes its label.
LEMMA GotoKeeps ==
  ASSUME RequestsInv, NEW r \in Requests, NEW label, Goto(r, label), Entrance(req[r], label),
         req[r].pc # "new", UNCHANGED <<clock, mix, arrived>>
  PROVE  RequestsInv'
  <1> DEFINE q == [req[r] EXCEPT !.pc = label]
  <1>1. req \in [Requests -> Request] /\ req[r] \in Request /\ ShapeOf(req[r]) /\ req[r].now <= clock
    BY DEF RequestsInv
  <1>2. q \in Request /\ q.pc = label /\ q.now = req[r].now /\ q.kind = req[r].kind /\ q.user = req[r].user
        /\ q.source = req[r].source /\ q.flow = req[r].flow /\ q.cred = req[r].cred
    BY <1>1 DEF Request, Entrance
  <1>3. ShapeOf(q)
    BY <1>1, <1>2 DEF ShapeOf, Entrance
  <1>4. req' = [req EXCEPT ![r] = q]
    BY <1>1 DEF Goto
  <1> HIDE DEF q
  <1> QED BY <1>1, <1>2, <1>3, <1>4, RequestMoves DEF Entrance

\* A request arrives.
LEMMA ComesKeeps ==
  ASSUME RequestsInv, NEW r \in Requests, NEW q \in Request, ShapeOf(q), q.pc # "new", q.now = 0, Comes(r, q)
  PROVE  RequestsInv'
  <1>1. q.now <= clock
    BY Constants DEF RequestsInv, Time
  <1> QED BY <1>1, RequestMoves DEF Comes

\* The requests of every kind arrive well formed.
LEMMA ArrivalsKeep ==
  ASSUME RequestsInv, NEW r \in Requests,
         \/ PasswordArrives(r) \/ PasskeyArrives(r) \/ FinishArrives(r) \/ RegisterArrives(r)
         \/ RegisterFinishArrives(r) \/ CallbackArrives(r) \/ RemovePasskey(r)
  PROVE  RequestsInv'
  <1>t. 0 \in Time
    BY Constants DEF Time
  <1>1. CASE PasswordArrives(r)
    <2>1. PICK u \in Users, s \in Sources : Comes(r,
             [NotYet EXCEPT !.pc = "source", !.kind = "password", !.user = u, !.source = s])
      BY <1>1 DEF PasswordArrives
    <2> DEFINE q == [NotYet EXCEPT !.pc = "source", !.kind = "password", !.user = u, !.source = s]
    <2>2. q \in Request /\ ShapeOf(q) /\ q.pc # "new" /\ q.now = 0
      BY <1>t DEF NotYet, Request, ShapeOf, Labels, Kinds
    <2> HIDE DEF q
    <2> QED BY <2>1, <2>2, ComesKeeps DEF q
  <1>2. CASE PasskeyArrives(r)
    <2>1. PICK s \in Sources : Comes(r,
             [NotYet EXCEPT !.pc = "source", !.kind = "passkey start", !.source = s])
      BY <1>2 DEF PasskeyArrives
    <2> DEFINE q == [NotYet EXCEPT !.pc = "source", !.kind = "passkey start", !.source = s]
    <2>2. q \in Request /\ ShapeOf(q) /\ q.pc # "new" /\ q.now = 0
      BY <1>t DEF NotYet, Request, ShapeOf, Labels, Kinds
    <2> HIDE DEF q
    <2> QED BY <2>1, <2>2, ComesKeeps DEF q
  <1>3. CASE FinishArrives(r)
    <2>1. PICK f \in Requests, c \in Creds : Comes(r,
             [NotYet EXCEPT !.pc = "take", !.kind = "passkey finish", !.flow = f, !.cred = c])
      BY <1>3 DEF FinishArrives, Begun
    <2> DEFINE q == [NotYet EXCEPT !.pc = "take", !.kind = "passkey finish", !.flow = f, !.cred = c]
    <2>2. q \in Request /\ ShapeOf(q) /\ q.pc # "new" /\ q.now = 0
      BY <1>t DEF NotYet, Request, ShapeOf, Labels, Kinds
    <2> HIDE DEF q
    <2> QED BY <2>1, <2>2, ComesKeeps DEF q
  <1>4. CASE RegisterArrives(r)
    <2>1. PICK u \in Users : Comes(r, [NotYet EXCEPT !.pc = "add", !.kind = "register", !.user = u])
      BY <1>4 DEF RegisterArrives
    <2> DEFINE q == [NotYet EXCEPT !.pc = "add", !.kind = "register", !.user = u]
    <2>2. q \in Request /\ ShapeOf(q) /\ q.pc # "new" /\ q.now = 0
      BY <1>t DEF NotYet, Request, ShapeOf, Labels, Kinds
    <2> HIDE DEF q
    <2> QED BY <2>1, <2>2, ComesKeeps DEF q
  <1>5. CASE RegisterFinishArrives(r)
    <2>1. PICK f \in Requests, u \in Users, c \in Creds : Comes(r,
             [NotYet EXCEPT !.pc = "take", !.kind = "register finish",
                            !.user = u, !.flow = f, !.cred = c])
      BY <1>5 DEF RegisterFinishArrives, Begun
    <2> DEFINE q == [NotYet EXCEPT !.pc = "take", !.kind = "register finish",
                                   !.user = u, !.flow = f, !.cred = c]
    <2>2. q \in Request /\ ShapeOf(q) /\ q.pc # "new" /\ q.now = 0
      BY <1>t DEF NotYet, Request, ShapeOf, Labels, Kinds
    <2> HIDE DEF q
    <2> QED BY <2>1, <2>2, ComesKeeps DEF q
  <1>6. CASE CallbackArrives(r)
    <2>1. PICK s \in States : Comes(r, [NotYet EXCEPT !.pc = "take", !.kind = "callback", !.flow = s])
      BY <1>6 DEF CallbackArrives
    <2> DEFINE q == [NotYet EXCEPT !.pc = "take", !.kind = "callback", !.flow = s]
    <2>2. q \in Request /\ ShapeOf(q) /\ q.pc # "new" /\ q.now = 0
      BY <1>t DEF NotYet, Request, ShapeOf, Labels, Kinds
    <2> HIDE DEF q
    <2> QED BY <2>1, <2>2, ComesKeeps DEF q
  <1>7. CASE RemovePasskey(r)
    <2> DEFINE q == [req[r] EXCEPT !.pc = "end", !.kind = "remove"]
    <2>1. req \in [Requests -> Request] /\ req[r] \in Request /\ req[r].now <= clock
      BY DEF RequestsInv
    <2>2. q.pc = "end" /\ q.kind = "remove" /\ q.now = req[r].now
      BY <2>1 DEF Request
    <2>3. q \in Request
      BY <2>1 DEF Request, Labels, Kinds
    <2>4. req' = [req EXCEPT ![r] = q] /\ r = arrived + 1 /\ arrived' = r /\ UNCHANGED <<clock, mix>>
      BY <1>7, <2>1 DEF RemovePasskey
    <2> HIDE DEF q
    <2>5. ShapeOf(q) /\ q.pc # "new"
      BY <2>2 DEF ShapeOf
    <2> QED BY <2>1, <2>2, <2>3, <2>4, <2>5, RequestMoves
  <1> QED BY <1>1, <1>2, <1>3, <1>4, <1>5, <1>6, <1>7

\* Every step keeps the requests well formed.
LEMMA RequestsNext ==
  ASSUME RequestsInv, passkeys \in [DOMAIN passkeys -> Users], [Next]_vars
  PROVE  RequestsInv'
  <1>1. CASE UNCHANGED vars
    BY <1>1 DEF vars, RequestsInv, ShapeOf
  <1>2. CASE Tick
    <2>1. UNCHANGED <<req, arrived, mix>> /\ clock' \in Time /\ clock' = clock + 1 /\ clock \in Nat
      BY <1>2, Constants DEF Tick, RequestsInv, Time
    <2>2. \A r \in Requests : req'[r].now <= clock'
      BY <2>1, Constants DEF RequestsInv, Request, Time
    <2> QED BY <2>1, <2>2 DEF RequestsInv, ShapeOf
  <1>3. ASSUME NEW r \in Requests,
               \/ PasswordArrives(r) \/ PasskeyArrives(r) \/ FinishArrives(r) \/ RegisterArrives(r)
               \/ RegisterFinishArrives(r) \/ CallbackArrives(r) \/ RemovePasskey(r)
        PROVE  RequestsInv'
    BY <1>3, ArrivalsKeep
  <1>4. ASSUME NEW r \in Requests,
               \/ PasswordSource(r) \/ AwaitVerifier(r) \/ AskAccount(r) \/ Issue(r) \/ ClearWindow(r)
               \/ Cut(r) \/ PasskeySource(r) \/ InsertLogin(r) \/ TakeLogin(r) \/ UpdatePasskey(r)
               \/ CountKeys(r) \/ InsertRegistration(r) \/ TakeRegistration(r) \/ AddPasskey(r) \/ Consume(r)
               \/ Exchange(r)
        PROVE  RequestsInv'
    <2>0. UNCHANGED <<clock, mix, arrived>> /\ req[r].pc # "new"
      BY <1>4 DEF PasswordSource, AwaitVerifier, AskAccount, Issue, ClearWindow, Cut, PasskeySource,
          InsertLogin, TakeLogin, UpdatePasskey, CountKeys, InsertRegistration, TakeRegistration,
          AddPasskey, Consume, Exchange
    <2>1. ShapeOf(req[r])
      BY DEF RequestsInv
    <2>2. \E label \in Labels : Goto(r, label) /\ Entrance(req[r], label)
      <3>1. CASE PasswordSource(r)
        BY <3>1 DEF PasswordSource, AskSource, Labels, Entrance
      <3>2. CASE AwaitVerifier(r) \/ AskAccount(r)
        BY <2>1, <3>2 DEF AwaitVerifier, AskAccount, Labels, Entrance, ShapeOf
      <3>3. CASE Issue(r) \/ ClearWindow(r) \/ Cut(r) \/ UpdatePasskey(r) \/ Exchange(r)
        BY <3>3 DEF Issue, ClearWindow, Cut, UpdatePasskey, Exchange, Labels, Entrance
      <3>4. CASE PasskeySource(r)
        BY <3>4 DEF PasskeySource, AskSource, Labels, Entrance
      <3>5. CASE InsertLogin(r) \/ CountKeys(r) \/ InsertRegistration(r) \/ AddPasskey(r)
        BY <3>5 DEF InsertLogin, CountKeys, InsertRegistration, AddPasskey, Labels, Entrance
      <3>6. CASE TakeLogin(r) \/ TakeRegistration(r)
        BY <3>6 DEF TakeLogin, TakeRegistration, Labels, Entrance
      <3>7. CASE Consume(r)
        BY <3>7 DEF Consume, Labels, Entrance
      <3> QED BY <1>4, <3>1, <3>2, <3>3, <3>4, <3>5, <3>6, <3>7
    <2> QED BY <2>0, <2>2, GotoKeeps
  <1>5. ASSUME NEW r \in Requests, Verified(r) PROVE RequestsInv'
    <2>1. UNCHANGED <<clock, mix, arrived>>
      BY <1>5 DEF Verified
    <2>2. CASE UNCHANGED req
      BY <2>1, <2>2 DEF RequestsInv, ShapeOf
    <2>3. CASE req[r].pc = "verify" /\ \E right \in BOOLEAN : Goto(r, IF right THEN "issue" ELSE "end")
      BY <2>1, <2>3, GotoKeeps DEF Entrance, Labels
    <2> QED BY <1>5, <2>2, <2>3 DEF Verified
  <1>6. ASSUME NEW r \in Requests, ReadClock(r) \/ LookupPasskey(r) \/ JudgeCookie(r) PROVE RequestsInv'
    <2>0. UNCHANGED <<clock, mix, arrived>> /\ req[r].pc \in {"now", "lookup", "take"} /\ clock \in Time
      BY <1>6 DEF ReadClock, LookupPasskey, JudgeCookie, RequestsInv
    <2>1. req \in [Requests -> Request] /\ req[r] \in Request /\ ShapeOf(req[r]) /\ req[r].now <= clock
      BY DEF RequestsInv
    <2>n. clock <= clock
      BY <2>0, Constants DEF Time
    <2>2. CASE ReadClock(r)
      <3> DEFINE q == [req[r] EXCEPT !.now = clock, !.pc = "account"]
      <3>1. q \in Request /\ ShapeOf(q) /\ q.pc # "new" /\ q.now = clock
        BY <2>0, <2>1, <2>2 DEF ReadClock, Request, ShapeOf, Labels
      <3>2. req' = [req EXCEPT ![r] = q]
        BY <2>1, <2>2 DEF ReadClock
      <3> HIDE DEF q
      <3> QED BY <2>0, <2>n, <3>1, <3>2, RequestMoves
    <2>4. CASE JudgeCookie(r)
      <3> DEFINE label == IF Expiry[req[r].flow] <= clock THEN "end" ELSE "consume"
                 q == [req[r] EXCEPT !.now = clock, !.pc = label]
      <3>0. req[r].kind = "callback" /\ req[r].flow \in States
        BY <2>1, <2>4 DEF JudgeCookie, ShapeOf
      <3>1. label \in {"end", "consume"} /\ (label = "consume" => clock < Expiry[req[r].flow])
        BY <2>0, <3>0, Constants DEF Time
      <3>2. req' = [req EXCEPT ![r] = q]
        BY <2>1, <2>4 DEF JudgeCookie
      <3> HIDE DEF label
      <3>3. q \in Request /\ q.pc = label /\ q.kind = "callback" /\ q.flow = req[r].flow /\ q.now = clock
        BY <2>0, <2>1, <3>0, <3>1 DEF Request, Labels
      <3> HIDE DEF q
      <3>4. ShapeOf(q) /\ q.pc # "new"
        BY <3>0, <3>1, <3>3 DEF ShapeOf
      <3> QED BY <2>0, <2>n, <3>2, <3>3, <3>4, RequestMoves
    <2>3. CASE LookupPasskey(r)
      <3> DEFINE c == req[r].cred
                 label == IF c \in DOMAIN passkeys THEN "update" ELSE "end"
                 user == IF c \in DOMAIN passkeys THEN passkeys[c] ELSE None
                 q == [req[r] EXCEPT !.pc = label, !.user = user]
      <3>1. label \in Labels \ {"new", "lookup", "wait", "now", "account", "verify", "insert", "consume"}
            /\ user \in Users \cup {None} /\ req[r].kind = "passkey finish"
        BY <2>0, <2>1, <2>3 DEF LookupPasskey, Labels, ShapeOf
      <3>3. q \in Request /\ q.pc = label /\ q.kind = "passkey finish" /\ q.flow = req[r].flow
            /\ q.now = req[r].now
        <4> HIDE DEF label, user
        <4> QED BY <2>1, <3>1 DEF Request
      <3>4. ShapeOf(q) /\ q.pc # "new"
        <4>1. req[r].flow \in Requests
          BY <2>0, <2>1, <3>1 DEF ShapeOf
        <4> HIDE DEF label, user, q
        <4> QED BY <3>1, <3>3, <4>1 DEF ShapeOf
      <3>2. req' = [req EXCEPT ![r] = q]
        BY <2>1, <2>3 DEF LookupPasskey
      <3> HIDE DEF q
      <3> QED BY <2>0, <2>1, <3>2, <3>3, <3>4, RequestMoves
    <2> QED BY <1>6, <2>2, <2>3, <2>4
  <1> QED BY <1>1, <1>2, <1>3, <1>4, <1>5, <1>6 DEF Next

-----------------------------------------------------------------------------
(* The limiters                                                              *)

\* Room is made for k among windows that are within their bound: what stays is as
\* it was, an exhausted window stays, and k fits in.
LEMMA RoomyMakesRoom ==
  ASSUME NEW w, w \in [DOMAIN w -> AttemptWindow], IsFiniteSet(DOMAIN w),
         Cardinality(DOMAIN w) <= MaxKeys,
         NEW k, NEW limit \in Nat, NEW room \in Roomy(w, k, limit)
  PROVE  /\ DOMAIN room \subseteq DOMAIN w /\ room \in [DOMAIN room -> AttemptWindow]
         /\ \A j \in DOMAIN room : room[j] = w[j]
         /\ \A j \in DOMAIN w : w[j].attempts >= limit => j \in DOMAIN room
         /\ k \in DOMAIN w => room = w
         /\ Cardinality(DOMAIN room \cup {k}) <= MaxKeys
  <1>1. Cardinality(DOMAIN w) \in Nat /\ MaxKeys \in Nat
    BY FS_CardinalityType, Constants
  <1>2. CASE room = w /\ (k \in DOMAIN w \/ Cardinality(DOMAIN w) < MaxKeys)
    <2>1. Cardinality(DOMAIN w \cup {k}) =
             IF k \in DOMAIN w THEN Cardinality(DOMAIN w) ELSE Cardinality(DOMAIN w) + 1
      BY FS_AddElement
    <2> QED BY <1>1, <1>2, <2>1
  <1>3. CASE k \notin DOMAIN w /\ \E old \in Evictable(w, limit) : room = Without(w, old)
    <2>1. PICK old \in Evictable(w, limit) : room = Without(w, old)
      BY <1>3
    <2>2. old \in DOMAIN w /\ w[old].attempts < limit
      BY <2>1 DEF Evictable
    <2>3. DOMAIN room = DOMAIN w \ {old} /\ \A j \in DOMAIN room : room[j] = w[j]
      BY <2>1 DEF Without, Only
    <2>4. room \in [DOMAIN room -> AttemptWindow]
      BY <2>1, <2>3 DEF Without, Only
    <2>5. IsFiniteSet(DOMAIN w \ {old}) /\ Cardinality(DOMAIN w \ {old}) = Cardinality(DOMAIN w) - 1
      BY <2>2, FS_RemoveElement
    <2>6. Cardinality((DOMAIN w \ {old}) \cup {k}) = Cardinality(DOMAIN w \ {old}) + 1
      BY <1>3, <2>5, FS_AddElement
    <2>7. \A j \in DOMAIN w : w[j].attempts >= limit => j # old
      BY <2>2 DEF AttemptWindow
    <2> QED BY <1>1, <1>3, <2>3, <2>4, <2>5, <2>6, <2>7
  <1> QED BY <1>1, <1>2, <1>3 DEF Roomy

\* What an attempt by k does to the windows w of a limiter: the other windows stay
\* as they were or go, and no exhausted one that is in its time goes; a window that is
\* exhausted and in its time stays so, and the attempt is refused.
AllowSound(w, k, now, limit, o) ==
    /\ o.map \in [DOMAIN o.map -> AttemptWindow]
    /\ DOMAIN o.map \subseteq DOMAIN w \cup {k} /\ Cardinality(DOMAIN o.map) <= MaxKeys
    /\ o.ok \in BOOLEAN
    /\ \A j \in DOMAIN o.map \ {k} : o.map[j] = w[j]
    /\ k \in DOMAIN o.map => o.map[k].seen = now /\ o.map[k].started <= now
    /\ o.ok => k \in DOMAIN o.map
    /\ \A j \in DOMAIN w \ {k} :
          w[j].attempts >= limit /\ now - w[j].seen < Window => j \in DOMAIN o.map
    /\ /\ k \in DOMAIN w /\ w[k].attempts >= limit /\ now - w[k].seen < Window
       /\ now - w[k].started < Window /\ now >= w[k].started
       => /\ k \in DOMAIN o.map /\ o.map[k].attempts = w[k].attempts
          /\ o.map[k].started = w[k].started /\ ~o.ok

\* An attempt does just that.
LEMMA AllowKeeps ==
  ASSUME NEW w, w \in [DOMAIN w -> AttemptWindow], IsFiniteSet(DOMAIN w),
         Cardinality(DOMAIN w) <= MaxKeys,
         NEW k, NEW now \in Time, NEW limit \in Nat \ {0}, NEW o \in Allow(w, k, now, limit)
  PROVE  AllowSound(w, k, now, limit, o)
  <1> DEFINE S == {j \in DOMAIN w : now - w[j].seen < Window}
             kept == Retained(w, now)
  <1>1. /\ DOMAIN kept = S /\ S \subseteq DOMAIN w
        /\ \A j \in S : kept[j] = w[j]
        /\ kept \in [DOMAIN kept -> AttemptWindow]
    BY DEF Retained, Only
  <1>2. IsFiniteSet(DOMAIN kept) /\ Cardinality(DOMAIN kept) <= MaxKeys
    <2>1. IsFiniteSet(S) /\ Cardinality(S) <= Cardinality(DOMAIN w)
      BY FS_Subset
    <2>2. Cardinality(S) \in Nat /\ Cardinality(DOMAIN w) \in Nat /\ MaxKeys \in Nat
      BY <2>1, FS_CardinalityType, Constants
    <2> QED BY <1>1, <2>1, <2>2
  <1> HIDE DEF kept
  <1>3. CASE Roomy(kept, k, limit) = {}
    <2>1. o = [map |-> kept, ok |-> FALSE]
      BY <1>3 DEF Allow, kept
    <2>2. k \notin DOMAIN kept
      BY <1>3 DEF Roomy
    <2>3. \A j \in DOMAIN w : now - w[j].seen < Window => j \in DOMAIN kept
      BY <1>1
    <2> QED BY <1>1, <1>2, <2>1, <2>2, <2>3 DEF AllowSound
  <1>4. CASE Roomy(kept, k, limit) # {}
    <2>1. PICK room \in Roomy(kept, k, limit) :
             o = [map |-> Put(room, k, IF WindowOf(room, k, now).attempts < limit
                                       THEN [WindowOf(room, k, now) EXCEPT !.attempts = @ + 1]
                                       ELSE WindowOf(room, k, now)),
                  ok |-> WindowOf(room, k, now).attempts < limit]
      BY <1>4 DEF Allow, kept
    <2> DEFINE own == WindowOf(room, k, now)
               v == IF own.attempts < limit THEN [own EXCEPT !.attempts = @ + 1] ELSE own
    <2>2. /\ DOMAIN room \subseteq DOMAIN kept /\ room \in [DOMAIN room -> AttemptWindow]
          /\ \A j \in DOMAIN room : room[j] = kept[j]
          /\ \A j \in DOMAIN kept : kept[j].attempts >= limit => j \in DOMAIN room
          /\ k \in DOMAIN kept => room = kept
          /\ Cardinality(DOMAIN room \cup {k}) <= MaxKeys
      BY <1>1, <1>2, RoomyMakesRoom
    <2>3. own \in AttemptWindow /\ own.seen = now /\ own.started <= now
      <3>1. CASE k \in DOMAIN room /\ now - room[k].started < Window /\ now >= room[k].started
        <4>1. own = [room[k] EXCEPT !.seen = now] /\ room[k] \in AttemptWindow
          BY <2>2, <3>1 DEF WindowOf
        <4> HIDE DEF own
        <4> QED BY <3>1, <4>1 DEF AttemptWindow, Time
      <3>2. CASE ~(k \in DOMAIN room /\ now - room[k].started < Window /\ now >= room[k].started)
        <4>1. own = Fresh(now)
          BY <3>2 DEF WindowOf
        <4> HIDE DEF own
        <4> QED BY <4>1 DEF Fresh, AttemptWindow, Time
      <3> QED BY <3>1, <3>2
    <2>4. v \in AttemptWindow /\ v.seen = now /\ v.started <= now /\ v.started = own.started
          /\ (own.attempts >= limit => v.attempts = own.attempts)
      <3> HIDE DEF own
      <3> QED BY <2>3 DEF AttemptWindow
    <2>5. o.map = Put(room, k, v) /\ o.ok = (own.attempts < limit)
      BY <2>1
    <2>6. DOMAIN o.map = DOMAIN room \cup {k} /\ o.map[k] = v
          /\ \A j \in DOMAIN room \ {k} : o.map[j] = room[j]
      <3> HIDE DEF v
      <3> QED BY <2>5 DEF Put
    <2>7. o.map \in [DOMAIN o.map -> AttemptWindow]
      <3> HIDE DEF v
      <3>1. \A j \in DOMAIN o.map : o.map[j] \in AttemptWindow
        BY <2>2, <2>4, <2>6
      <3>2. o.map = [j \in DOMAIN o.map |-> o.map[j]]
        BY <2>5 DEF Put
      <3> QED BY <3>1, <3>2
    <2>8. ASSUME k \in DOMAIN w, w[k].attempts >= limit, now - w[k].seen < Window,
                 now - w[k].started < Window, now >= w[k].started
          PROVE  o.map[k].attempts = w[k].attempts /\ o.map[k].started = w[k].started /\ ~o.ok
      <3>1. k \in DOMAIN kept /\ room = kept /\ room[k] = w[k] /\ w[k] \in AttemptWindow
        BY <1>1, <2>2, <2>8
      <3>2. own = [w[k] EXCEPT !.seen = now]
        BY <2>8, <3>1 DEF WindowOf
      <3>3. own.attempts = w[k].attempts /\ own.started = w[k].started /\ own.attempts >= limit
            /\ own.attempts \in Nat
        <4> HIDE DEF own
        <4>1. own.attempts = w[k].attempts /\ own.started = w[k].started
          BY <3>1, <3>2 DEF AttemptWindow
        <4>2. w[k].attempts \in Nat
          BY <3>1 DEF AttemptWindow
        <4> QED BY <2>8, <4>1, <4>2
      <3> HIDE DEF own, v
      <3>4. ~(own.attempts < limit)
        BY <3>3
      <3> QED BY <2>4, <2>5, <2>6, <3>3, <3>4
    <2>9. \A j \in DOMAIN w \ {k} :
             w[j].attempts >= limit /\ now - w[j].seen < Window => j \in DOMAIN o.map
      BY <1>1, <2>2, <2>6
    <2>10. \A j \in DOMAIN o.map \ {k} : o.map[j] = w[j]
      BY <1>1, <2>2, <2>6
    <2> HIDE DEF own, v, S
    <2> QED BY <1>1, <2>2, <2>4, <2>5, <2>6, <2>7, <2>8, <2>9, <2>10 DEF AllowSound
  <1> QED BY <1>3, <1>4

\* The keys of both limiters are finitely many.
LEMMA FiniteWindows ==
  ASSUME LimitsInv
  PROVE  IsFiniteSet(DOMAIN sources) /\ IsFiniteSet(DOMAIN accounts)
  <1>1. IsFiniteSet(Users \X Sources) /\ IsFiniteSet(Sources)
    BY SignInAssumption, FS_Product
  <1> QED BY <1>1, FS_Subset DEF LimitsInv

\* An attempt of a source: who is blocked, that source or another, stays so.
LEMMA AskSourceKeeps ==
  ASSUME RequestsInv, LimitsInv, NEW r \in Requests, NEW next, AskSource(r, next),
         req[r].source \in Sources, UNCHANGED <<clock, accounts>>
  PROVE  LimitsInv'
  <1> DEFINE s == req[r].source
  <1>1. PICK o \in Allow(sources, s, clock, SourceLimit) :
          /\ sources' = o.map
          /\ until' = IF o.ok /\ o.map[s].attempts = SourceLimit
                      THEN [until EXCEPT ![s] = o.map[s].started + Window] ELSE until
    BY DEF AskSource
  <1>2. clock \in Time /\ SourceLimit \in Nat \ {0} /\ Window \in Nat /\ clock \in Nat
    BY Constants DEF RequestsInv, Time
  <1>w. sources \in [DOMAIN sources -> AttemptWindow] /\ IsFiniteSet(DOMAIN sources)
        /\ Cardinality(DOMAIN sources) <= MaxKeys
    BY FiniteWindows DEF LimitsInv, LimitersBounded
  <1>3. /\ sources' \in [DOMAIN sources' -> AttemptWindow]
        /\ DOMAIN sources' \subseteq DOMAIN sources \cup {s} /\ Cardinality(DOMAIN sources') <= MaxKeys
        /\ \A j \in DOMAIN sources' \ {s} : sources'[j] = sources[j]
        /\ s \in DOMAIN sources' => sources'[s].seen = clock /\ sources'[s].started <= clock
        /\ o.ok => s \in DOMAIN sources'
        /\ \A j \in DOMAIN sources \ {s} :
              sources[j].attempts >= SourceLimit /\ clock - sources[j].seen < Window
              => j \in DOMAIN sources'
        /\ /\ s \in DOMAIN sources /\ sources[s].attempts >= SourceLimit
           /\ clock - sources[s].seen < Window
           /\ clock - sources[s].started < Window /\ clock >= sources[s].started
           => /\ s \in DOMAIN sources' /\ sources'[s].attempts = sources[s].attempts
              /\ sources'[s].started = sources[s].started /\ ~o.ok
    <2> HIDE DEF s
    <2>1. AllowSound(sources, s, clock, SourceLimit, o)
      BY <1>2, <1>w, AllowKeeps
    <2> QED BY <1>1, <2>1 DEF AllowSound
  <1>4. DOMAIN sources' \subseteq Sources
    BY <1>3 DEF LimitsInv
  <1>5. until' \in [Sources -> Nat]
    <2>1. o.ok => sources'[s].started + Window \in Nat
      BY <1>2, <1>3 DEF AttemptWindow, Time
    <2>2. until \in [Sources -> Nat] /\ s \in Sources
      BY DEF LimitsInv
    <2> HIDE DEF s
    <2> QED BY <1>1, <2>1, <2>2
  <1>6. \A j \in DOMAIN sources' : sources'[j].started <= sources'[j].seen /\ sources'[j].seen <= clock
    BY <1>2, <1>3 DEF LimitsInv
  <1>7. BlockedUntil'
    <2> SUFFICES ASSUME NEW j \in Sources, clock < until'[j]
                 PROVE  /\ j \in DOMAIN sources'
                        /\ sources'[j].attempts >= SourceLimit
                        /\ until'[j] = sources'[j].started + Window
      BY DEF BlockedUntil
    <2>1. CASE j = s /\ o.ok /\ sources'[s].attempts = SourceLimit
      BY <1>1, <1>2, <1>3, <2>1 DEF LimitsInv
    <2>2. CASE until'[j] = until[j]
      <3>1. /\ j \in DOMAIN sources /\ sources[j].attempts >= SourceLimit
            /\ until[j] = sources[j].started + Window
            /\ sources[j].started <= sources[j].seen /\ sources[j].seen <= clock
            /\ sources[j] \in AttemptWindow
        BY <2>2 DEF LimitsInv, BlockedUntil
      <3>2. sources[j].started \in Nat /\ sources[j].seen \in Nat
        BY <3>1 DEF AttemptWindow, Time
      <3>3. clock - sources[j].started < Window /\ clock - sources[j].seen < Window
        BY <1>2, <2>2, <3>1, <3>2
      <3>4. CASE j # s
        BY <1>3, <2>2, <3>1, <3>3, <3>4
      <3>5. clock >= sources[j].started
        BY <1>2, <3>1, <3>2
      <3>6. CASE j = s
        BY <1>3, <2>2, <3>1, <3>3, <3>5, <3>6
      <3> QED BY <3>4, <3>6
    <2> QED BY <1>1, <2>1, <2>2 DEF LimitsInv
  <1> QED BY <1>3, <1>4, <1>5, <1>6, <1>7 DEF LimitsInv, LimitersBounded

\* Every step keeps the limiters' invariant.
LEMMA LimitsNext ==
  ASSUME RequestsInv, LimitsInv, [Next]_vars
  PROVE  LimitsInv'
  <1>1. CASE UNCHANGED <<clock, limits>>
    BY <1>1 DEF limits, LimitsInv, BlockedUntil, LimitersBounded
  <1>2. CASE Tick
    <2>1. UNCHANGED limits /\ clock' = clock + 1 /\ clock \in Nat
      BY <1>2 DEF Tick, RequestsInv, Time
    <2>2. \A s \in DOMAIN sources : sources[s].seen <= clock + 1
      BY <2>1 DEF LimitsInv, AttemptWindow, Time
    <2>3. BlockedUntil'
      <3> SUFFICES ASSUME NEW s \in Sources, clock + 1 < until[s]
                   PROVE  /\ s \in DOMAIN sources
                          /\ sources[s].attempts >= SourceLimit
                          /\ until[s] = sources[s].started + Window
        BY <2>1 DEF BlockedUntil, limits
      <3>1. clock < until[s]
        BY <2>1 DEF LimitsInv
      <3> QED BY <3>1 DEF LimitsInv, BlockedUntil
    <2> QED BY <2>1, <2>2, <2>3 DEF limits, LimitsInv, LimitersBounded
  <1>3. ASSUME NEW r \in Requests, PasswordSource(r) \/ PasskeySource(r)
        PROVE  LimitsInv'
    <2>1. req[r].source \in Sources
      BY <1>3 DEF RequestsInv, ShapeOf, PasswordSource, PasskeySource
    <2> QED BY <1>3, <2>1, AskSourceKeeps DEF PasswordSource, PasskeySource
  <1>4. ASSUME NEW r \in Requests, AskAccount(r)
        PROVE  LimitsInv'
    <2> DEFINE k == <<req[r].user, req[r].source>>
    <2>1. k \in Users \X Sources /\ req[r].now \in Time
      BY <1>4 DEF RequestsInv, ShapeOf, AskAccount, Request
    <2>2. PICK o \in Allow(accounts, k, req[r].now, AccountLimit) : accounts' = o.map
      BY <1>4 DEF AskAccount
    <2>3. accounts \in [DOMAIN accounts -> AttemptWindow] /\ IsFiniteSet(DOMAIN accounts)
          /\ Cardinality(DOMAIN accounts) <= MaxKeys /\ AccountLimit \in Nat \ {0}
      BY FiniteWindows, Constants DEF LimitsInv, LimitersBounded
    <2>4. /\ accounts' \in [DOMAIN accounts' -> AttemptWindow]
          /\ DOMAIN accounts' \subseteq DOMAIN accounts \cup {k} /\ Cardinality(DOMAIN accounts') <= MaxKeys
      <3>1. AllowSound(accounts, k, req[r].now, AccountLimit, o)
        <4> HIDE DEF k
        <4> QED BY <2>1, <2>3, AllowKeeps
      <3> HIDE DEF k
      <3> QED BY <2>2, <3>1 DEF AllowSound
    <2>5. DOMAIN accounts' \subseteq Users \X Sources
      <3> HIDE DEF k
      <3> QED BY <2>1, <2>4 DEF LimitsInv
    <2>6. UNCHANGED <<clock, sources, until>>
      BY <1>4 DEF AskAccount
    <2> QED BY <2>4, <2>5, <2>6 DEF LimitsInv, BlockedUntil, LimitersBounded
  <1>5. ASSUME NEW r \in Requests, ClearWindow(r)
        PROVE  LimitsInv'
    <2> DEFINE k == <<req[r].user, req[r].source>>
    <2>1. accounts' = Only(accounts, DOMAIN accounts \ {k}) /\ UNCHANGED <<clock, sources, until>>
      BY <1>5 DEF ClearWindow, Without
    <2> HIDE DEF k
    <2>2. DOMAIN accounts' = DOMAIN accounts \ {k}
          /\ accounts' \in [DOMAIN accounts' -> AttemptWindow]
      BY <2>1 DEF Only, LimitsInv
    <2>3. Cardinality(DOMAIN accounts \ {k}) <= Cardinality(DOMAIN accounts)
          /\ Cardinality(DOMAIN accounts \ {k}) \in Nat /\ Cardinality(DOMAIN accounts) \in Nat
      BY FiniteWindows, FS_Subset, FS_CardinalityType
    <2>4. Cardinality(DOMAIN accounts') <= MaxKeys
      BY <2>2, <2>3, Constants DEF LimitsInv, LimitersBounded
    <2> QED BY <2>1, <2>2, <2>4 DEF LimitsInv, BlockedUntil, LimitersBounded
  <1>6. ASSUME NEW r \in Requests,
               \/ PasswordArrives(r) \/ PasskeyArrives(r) \/ FinishArrives(r) \/ RegisterArrives(r)
               \/ RegisterFinishArrives(r) \/ CallbackArrives(r)
        PROVE  UNCHANGED <<clock, limits>>
    BY <1>6 DEF PasswordArrives, PasskeyArrives, FinishArrives, RegisterArrives,
        RegisterFinishArrives, CallbackArrives, Comes
  <1>7. ASSUME NEW r \in Requests,
               \/ AwaitVerifier(r) \/ ReadClock(r) \/ Verified(r) \/ Issue(r) \/ Cut(r)
               \/ InsertLogin(r) \/ TakeLogin(r) \/ LookupPasskey(r) \/ UpdatePasskey(r)
               \/ CountKeys(r) \/ InsertRegistration(r) \/ TakeRegistration(r) \/ AddPasskey(r)
               \/ RemovePasskey(r) \/ JudgeCookie(r) \/ Consume(r) \/ Exchange(r)
        PROVE  UNCHANGED <<clock, limits>>
    BY <1>7 DEF AwaitVerifier, ReadClock, Verified, Issue, Cut, InsertLogin, TakeLogin, LookupPasskey,
        UpdatePasskey, CountKeys, InsertRegistration, TakeRegistration, AddPasskey, RemovePasskey,
        JudgeCookie, Consume, Exchange
  <1> QED BY <1>1, <1>2, <1>3, <1>4, <1>5, <1>6, <1>7 DEF Next, vars

-----------------------------------------------------------------------------
(* The pool of verifiers                                                     *)

\* The labels of a request that holds a permit itself.
Permitted == {"now", "account"}

\* A permit moves between the semaphore, a request and a verification, and the
\* three together keep their number.
LEMMA PermitsKept ==
  ASSUME RequestsInv, PoolInv, NEW r \in Requests, NEW label,
         req' \in [Requests -> Request], req'[r].pc = label,
         \A s \in Requests \ {r} : req'[s] = req[s],
         \/ r \notin Holders /\ label \notin Permitted /\ UNCHANGED <<slots, running>>
         \/ r \notin Holders /\ label \in Permitted /\ slots > 0 /\ slots' = slots - 1 /\ UNCHANGED running
         \/ r \in Holders /\ label \in Permitted /\ UNCHANGED <<slots, running>>
         \/ /\ r \in Holders /\ label \notin Permitted /\ UNCHANGED slots
            /\ r \notin running /\ running' = running \cup {r}
         \/ r \in Holders /\ label \notin Permitted /\ slots' = slots + 1 /\ UNCHANGED running
         \/ /\ r \notin Holders /\ label \notin Permitted /\ slots' = slots + 1
            /\ r \in running /\ running' = running \ {r}
  PROVE  slots' \in 0 .. Slots /\ running' \subseteq Requests /\ VerifiersBounded'
  <1>1. IsFiniteSet(Requests) /\ running \in SUBSET Requests /\ Holders \in SUBSET Requests
    <2>1. IsFiniteSet(1 .. MaxRequests)
      BY Constants, FS_Interval
    <2> QED BY <2>1 DEF Requests, PoolInv, Holders
  <1>2. IsFiniteSet(running) /\ IsFiniteSet(Holders)
    BY <1>1, FS_Subset
  <1>3. Holders' = IF label \in Permitted THEN Holders \cup {r} ELSE Holders \ {r}
    BY DEF Holders, Permitted
  <1>4. Cardinality(Holders') =
           IF label \in Permitted
           THEN IF r \in Holders THEN Cardinality(Holders) ELSE Cardinality(Holders) + 1
           ELSE IF r \in Holders THEN Cardinality(Holders) - 1 ELSE Cardinality(Holders)
    BY <1>2, <1>3, FS_AddElement, FS_RemoveElement
  <1>5. /\ running' = running \cup {r} /\ r \notin running => Cardinality(running') = Cardinality(running) + 1
        /\ running' = running \ {r} /\ r \in running => Cardinality(running') = Cardinality(running) - 1
    BY <1>2, FS_AddElement, FS_RemoveElement
  <1>6. running' \in SUBSET Requests /\ Holders' \in SUBSET Requests
    BY <1>1 DEF Holders
  <1>7. Cardinality(running') \in Nat /\ Cardinality(Holders') \in Nat
        /\ Cardinality(running) \in Nat /\ Cardinality(Holders) \in Nat
    <2>1. IsFiniteSet(running') /\ IsFiniteSet(Holders')
      BY <1>1, <1>6, FS_Subset
    <2> QED BY <1>2, <2>1, FS_CardinalityType
  <1>8. slots + Cardinality(running) + Cardinality(Holders) = Slots /\ slots \in Nat /\ Slots \in Nat
    BY Constants DEF PoolInv, VerifiersBounded, Holders
  <1>9. slots' + Cardinality(running') + Cardinality(Holders') = Slots /\ slots' \in Nat
    BY <1>4, <1>5, <1>7, <1>8
  <1>10. slots' \in 0 .. Slots
    BY <1>7, <1>8, <1>9
  <1>11. VerifiersBounded'
    BY <1>9 DEF VerifiersBounded, Holders
  <1> QED BY <1>6, <1>10, <1>11

\* Every step keeps the permits.
LEMMA PoolNext ==
  ASSUME RequestsInv, RequestsInv', PoolInv, [Next]_vars
  PROVE  PoolInv'
  <1>0. req \in [Requests -> Request] /\ req' \in [Requests -> Request]
    BY DEF RequestsInv
  <1>h. \A r \in Requests : r \in Holders <=> req[r].pc \in Permitted
    BY DEF Holders, Permitted
  <1>g. ASSUME NEW r \in Requests, NEW label, Goto(r, label)
        PROVE  req'[r].pc = label /\ \A s \in Requests \ {r} : req'[s] = req[s]
    BY <1>0, <1>g DEF Goto, Request
  <1>1. CASE UNCHANGED <<req, pool>>
    BY <1>1 DEF pool, PoolInv, VerifiersBounded
  <1>2. ASSUME NEW r \in Requests,
               \/ PasswordArrives(r) \/ PasskeyArrives(r) \/ FinishArrives(r) \/ RegisterArrives(r)
               \/ RegisterFinishArrives(r) \/ CallbackArrives(r) \/ RemovePasskey(r)
        PROVE  PoolInv'
    <2>1. r = arrived + 1 /\ UNCHANGED <<slots, running>> /\ \E q : req' = [req EXCEPT ![r] = q]
      <3>1. CASE RemovePasskey(r)
        <4>1. req' = [req EXCEPT ![r] = [req[r] EXCEPT !.pc = "end", !.kind = "remove"]]
          BY <3>1, <1>0 DEF RemovePasskey
        <4> QED BY <3>1, <4>1 DEF RemovePasskey, pool
      <3>2. CASE ~RemovePasskey(r)
        BY <1>2, <3>2 DEF PasswordArrives, PasskeyArrives, FinishArrives, RegisterArrives,
          RegisterFinishArrives, CallbackArrives, Comes, pool
      <3> QED BY <3>1, <3>2
    <2>2. req[r].pc = "new" /\ r \notin running /\ r \notin Holders
      <3>1. r > arrived
        BY <2>1 DEF RequestsInv
      <3>2. req[r].pc = "new"
        BY <3>1 DEF RequestsInv
      <3> QED BY <1>h, <3>2 DEF PoolInv, Permitted
    <2>3. \A s \in Requests \ {r} : req'[s] = req[s]
      BY <1>0, <2>1
    <2>4. req'[r].pc \notin Permitted
      <3>1. CASE RemovePasskey(r)
        BY <3>1, <1>0 DEF RemovePasskey, Permitted, Request
      <3>c. ASSUME NEW q, Comes(r, q), q.pc \in {"source", "take", "add"}
            PROVE  req'[r].pc \notin Permitted
        BY <1>0, <3>c DEF Comes, Permitted
      <3>2. CASE PasswordArrives(r) \/ PasskeyArrives(r)
        BY <3>2, <3>c DEF PasswordArrives, PasskeyArrives, NotYet
      <3>3. CASE FinishArrives(r) \/ RegisterArrives(r)
        BY <3>3, <3>c DEF FinishArrives, RegisterArrives, NotYet
      <3>4. CASE RegisterFinishArrives(r) \/ CallbackArrives(r)
        BY <3>4, <3>c DEF RegisterFinishArrives, CallbackArrives, NotYet
      <3> QED BY <1>2, <3>1, <3>2, <3>3, <3>4
    <2>5. slots' \in 0 .. Slots /\ running' \subseteq Requests /\ VerifiersBounded'
      BY <1>0, <2>1, <2>2, <2>3, <2>4, PermitsKept
    <2>6. \A s \in running' : req'[s].pc \in {"verify", "end"}
      BY <2>1, <2>2, <2>3, <2>5 DEF PoolInv
    <2> QED BY <2>5, <2>6 DEF PoolInv
  <1>3. ASSUME NEW r \in Requests,
               \/ PasswordSource(r) \/ Issue(r) \/ ClearWindow(r)
               \/ PasskeySource(r) \/ InsertLogin(r) \/ TakeLogin(r) \/ UpdatePasskey(r)
               \/ CountKeys(r) \/ InsertRegistration(r) \/ TakeRegistration(r) \/ AddPasskey(r)
               \/ JudgeCookie(r) \/ Consume(r) \/ Exchange(r) \/ LookupPasskey(r)
        PROVE  PoolInv'
    <2>1. req[r].pc \notin {"new", "now", "account", "verify", "end"} /\ UNCHANGED <<slots, running>>
      BY <1>3 DEF PasswordSource, Issue, ClearWindow, PasskeySource,
          InsertLogin, TakeLogin, UpdatePasskey, CountKeys, InsertRegistration, TakeRegistration,
          AddPasskey, JudgeCookie, Consume, Exchange, LookupPasskey, pool
    <2>2. req'[r].pc \notin Permitted /\ \A s \in Requests \ {r} : req'[s] = req[s]
      <3>1. CASE LookupPasskey(r) \/ JudgeCookie(r)
        BY <3>1, <1>0 DEF LookupPasskey, JudgeCookie, Permitted, Request
      <3>2. CASE ~LookupPasskey(r) /\ ~JudgeCookie(r)
        <4>1. PICK label \in Labels : Goto(r, label) /\ label \notin Permitted
          <5>1. CASE PasswordSource(r) \/ PasskeySource(r)
            BY <5>1 DEF PasswordSource, PasskeySource, AskSource, Permitted, Labels
          <5>2. CASE Issue(r) \/ ClearWindow(r) \/ UpdatePasskey(r) \/ Exchange(r)
            BY <5>2 DEF Issue, ClearWindow, UpdatePasskey, Exchange, Permitted, Labels
          <5>3. CASE InsertLogin(r) \/ CountKeys(r) \/ InsertRegistration(r) \/ AddPasskey(r)
            BY <5>3 DEF InsertLogin, CountKeys, InsertRegistration, AddPasskey, Permitted, Labels
          <5>4. CASE TakeLogin(r) \/ TakeRegistration(r)
            BY <5>4 DEF TakeLogin, TakeRegistration, Permitted, Labels
          <5>5. CASE Consume(r)
            BY <5>5 DEF Consume, Permitted, Labels
          <5> QED BY <1>3, <3>2, <5>1, <5>2, <5>3, <5>4, <5>5
        <4> QED BY <1>g, <4>1
      <3> QED BY <3>1, <3>2
    <2>3. r \notin running /\ r \notin Holders
      BY <1>h, <2>1 DEF PoolInv, Permitted
    <2>4. slots' \in 0 .. Slots /\ running' \subseteq Requests /\ VerifiersBounded'
      BY <1>0, <2>1, <2>2, <2>3, PermitsKept
    <2>5. \A s \in running' : req'[s].pc \in {"verify", "end"}
      BY <2>1, <2>2, <2>3, <2>4 DEF PoolInv
    <2> QED BY <2>4, <2>5 DEF PoolInv
  <1>4. ASSUME NEW r \in Requests, AwaitVerifier(r) \/ ReadClock(r) \/ AskAccount(r) \/ Verified(r) \/ Cut(r)
        PROVE  PoolInv'
    <2>1. r \in running => req[r].pc \in {"verify", "end"}
      BY DEF PoolInv
    <2>2. \A s \in Requests \ {r} : req'[s] = req[s]
      BY <1>0, <1>4 DEF AwaitVerifier, ReadClock, AskAccount, Verified, Cut, Goto
    <2>3. /\ slots' \in 0 .. Slots /\ running' \subseteq Requests /\ VerifiersBounded'
          /\ r \in running' => req'[r].pc \in {"verify", "end"}
      <3>1. CASE AwaitVerifier(r)
        <4>1. \/ slots > 0 /\ slots' = slots - 1 /\ req'[r].pc = "now" /\ UNCHANGED running
              \/ req'[r].pc = "end" /\ UNCHANGED <<slots, running>>
          BY <1>g, <3>1 DEF AwaitVerifier
        <4>2. r \notin Holders /\ r \notin running
          BY <1>h, <2>1, <3>1 DEF AwaitVerifier, Permitted
        <4> QED BY <1>0, <2>2, <4>1, <4>2, PermitsKept DEF Permitted
      <3>2. CASE ReadClock(r)
        <4>1. req'[r].pc = "account" /\ UNCHANGED <<slots, running>>
          BY <1>0, <3>2 DEF ReadClock, pool, Request
        <4>2. r \in Holders /\ r \notin running
          BY <1>h, <2>1, <3>2 DEF ReadClock, Permitted
        <4> QED BY <1>0, <2>2, <4>1, <4>2, PermitsKept DEF Permitted
      <3>3. CASE AskAccount(r)
        <4>1. \/ running' = running \cup {r} /\ req'[r].pc = "verify" /\ UNCHANGED slots
              \/ slots' = slots + 1 /\ req'[r].pc = "end" /\ UNCHANGED running
          BY <1>g, <3>3 DEF AskAccount
        <4>2. r \in Holders /\ r \notin running
          BY <1>h, <2>1, <3>3 DEF AskAccount, Permitted
        <4> QED BY <1>0, <2>2, <4>1, <4>2, PermitsKept DEF Permitted
      <3>4. CASE Verified(r)
        <4>1. slots' = slots + 1 /\ r \in running /\ running' = running \ {r}
          BY <3>4 DEF Verified
        <4>2. req'[r].pc \notin Permitted
          <5>1. CASE UNCHANGED req
            BY <2>1, <4>1, <5>1 DEF Permitted
          <5>2. CASE \E right \in BOOLEAN : Goto(r, IF right THEN "issue" ELSE "end")
            BY <1>g, <5>2 DEF Permitted
          <5> QED BY <3>4, <5>1, <5>2 DEF Verified
        <4>3. r \notin Holders
          BY <1>h, <2>1, <4>1 DEF Permitted
        <4> QED BY <1>0, <2>2, <4>1, <4>2, <4>3, PermitsKept
      <3>5. CASE Cut(r)
        <4>1. req'[r].pc = "end" /\ UNCHANGED running
              /\ slots' = IF r \in Holders THEN slots + 1 ELSE slots
          BY <1>g, <1>h, <3>5 DEF Cut, Permitted
        <4> QED BY <1>0, <2>2, <4>1, PermitsKept DEF Permitted
      <3> QED BY <1>4, <3>1, <3>2, <3>3, <3>4, <3>5
    <2>4. \A s \in running' \ {r} : req'[s].pc \in {"verify", "end"}
      <3>1. running' \subseteq running \cup {r}
        BY <1>4 DEF AwaitVerifier, ReadClock, AskAccount, Verified, Cut, pool
      <3> QED BY <2>2, <2>3, <3>1 DEF PoolInv
    <2> QED BY <2>3, <2>4 DEF PoolInv
  <1>5. CASE Tick
    BY <1>1, <1>5 DEF Tick
  <1> QED BY <1>1, <1>2, <1>3, <1>4, <1>5 DEF Next, vars

-----------------------------------------------------------------------------
(* The ceremonies                                                            *)

\* Naturals that index a set have a least one.
LEMMA LeastExists ==
  ASSUME NEW S, S # {}, NEW f \in [S -> Nat]
  PROVE  \E x \in S : \A y \in S : f[x] <= f[y]
  <1> DEFINE R == OpToRel(<, Nat)
             T == {f[x] : x \in S}
  <1>1. IsWellFoundedOn(R, Nat)
    BY NatLessThanWellFounded
  <1>2. \A a, b \in Nat : a < b => <<a, b>> \in R
    BY DEF OpToRel
  <1> HIDE DEF R
  <1>3. T \subseteq Nat /\ T # {}
    OBVIOUS
  <1>4. PICK m \in T : \A n \in T : <<n, m>> \notin R
    <2> HIDE DEF T
    <2> QED BY <1>1, <1>3, WFMin
  <1>5. \A n \in T : m <= n
    <2>1. \A n \in T : ~(n < m)
      BY <1>2, <1>3, <1>4
    <2> QED BY <1>3, <2>1
  <1> QED BY <1>5

\* Room made in a set that is within its bound: one more element fits in.
LEMMA RoomForOne ==
  ASSUME NEW S, IsFiniteSet(S), NEW N \in Nat \ {0}, Cardinality(S) <= N,
         NEW T \in SUBSET S, NEW U, NEW r,
         \/ U = T /\ Cardinality(T) < N
         \/ \E x \in T : U = T \ {x}
  PROVE  Cardinality(U \cup {r}) <= N /\ IsFiniteSet(U \cup {r}) /\ U \subseteq S
  <1>1. IsFiniteSet(T) /\ Cardinality(T) <= Cardinality(S)
    BY FS_Subset
  <1>2. Cardinality(S) \in Nat /\ Cardinality(T) \in Nat
    BY <1>1, FS_CardinalityType
  <1>3. U \in SUBSET S /\ Cardinality(U) + 1 <= N /\ IsFiniteSet(U) /\ Cardinality(U) \in Nat
    <2>1. CASE U = T /\ Cardinality(T) < N
      BY <1>1, <1>2, <2>1
    <2>2. CASE \E x \in T : U = T \ {x}
      <3>1. PICK x \in T : U = T \ {x}
        BY <2>2
      <3>2. IsFiniteSet(T \ {x}) /\ Cardinality(T \ {x}) = Cardinality(T) - 1
        BY <1>1, FS_RemoveElement
      <3>3. Cardinality(T \ {x}) \in Nat
        BY <3>2, FS_CardinalityType
      <3> QED BY <1>1, <1>2, <3>1, <3>2, <3>3
    <2> QED BY <2>1, <2>2
  <1>4. /\ IsFiniteSet(U \cup {r})
        /\ Cardinality(U \cup {r}) = IF r \in U THEN Cardinality(U) ELSE Cardinality(U) + 1
    BY <1>3, FS_AddElement
  <1> QED BY <1>3, <1>4

\* A subset of a set that is within its bound is so too.
LEMMA StillBounded ==
  ASSUME NEW S, IsFiniteSet(S), NEW N \in Nat, Cardinality(S) <= N, NEW T \in SUBSET S
  PROVE  Cardinality(T) <= N
  <1>1. Cardinality(T) <= Cardinality(S) /\ IsFiniteSet(T)
    BY FS_Subset
  <1>2. Cardinality(S) \in Nat /\ Cardinality(T) \in Nat
    BY <1>1, FS_CardinalityType
  <1> QED BY <1>1, <1>2

\* Of an action of r, only r moves, and only before its end.
LEMMA OnlyOneMoves ==
  ASSUME RequestsInv, NEW r \in Requests,
         \/ PasswordArrives(r) \/ PasswordSource(r) \/ AwaitVerifier(r) \/ ReadClock(r)
         \/ AskAccount(r) \/ Verified(r) \/ Issue(r) \/ ClearWindow(r) \/ Cut(r)
         \/ PasskeyArrives(r) \/ PasskeySource(r) \/ InsertLogin(r)
         \/ FinishArrives(r) \/ TakeLogin(r) \/ LookupPasskey(r) \/ UpdatePasskey(r)
         \/ RegisterArrives(r) \/ CountKeys(r) \/ InsertRegistration(r) \/ RegisterFinishArrives(r)
         \/ TakeRegistration(r) \/ AddPasskey(r) \/ RemovePasskey(r)
         \/ CallbackArrives(r) \/ JudgeCookie(r) \/ Consume(r) \/ Exchange(r)
  PROVE  \/ UNCHANGED req
         \/ /\ req[r].pc # "end" /\ \A s \in Requests \ {r} : req'[s] = req[s]
            /\ req'[r].pc = "consume" => ~(Expiry[req'[r].flow] <= clock)
  <1>0. req \in [Requests -> Request] /\ (r > arrived => req[r].pc = "new") /\ arrived \in Nat
    BY Constants DEF RequestsInv
  <1>g. ASSUME NEW label, Goto(r, label) PROVE req'[r].pc = label
    BY <1>0, <1>g DEF Goto, Request
  <1>1. CASE \/ PasswordArrives(r) \/ PasskeyArrives(r) \/ FinishArrives(r) \/ RegisterArrives(r)
             \/ RegisterFinishArrives(r) \/ CallbackArrives(r)
    <2>1. r = arrived + 1 /\ \E q : req' = [req EXCEPT ![r] = q]
      BY <1>1 DEF PasswordArrives, PasskeyArrives, FinishArrives, RegisterArrives,
          RegisterFinishArrives, CallbackArrives, Comes
    <2>2. req'[r].pc \in {"source", "take", "add"}
      <3>1. ASSUME NEW q, Comes(r, q) PROVE req'[r] = q
        BY <1>0, <3>1 DEF Comes
      <3>2. CASE PasswordArrives(r) BY <3>1, <3>2 DEF PasswordArrives, NotYet
      <3>3. CASE PasskeyArrives(r) BY <3>1, <3>3 DEF PasskeyArrives, NotYet
      <3>4. CASE FinishArrives(r) BY <3>1, <3>4 DEF FinishArrives, NotYet
      <3>5. CASE RegisterArrives(r) BY <3>1, <3>5 DEF RegisterArrives, NotYet
      <3>6. CASE RegisterFinishArrives(r) BY <3>1, <3>6 DEF RegisterFinishArrives, NotYet
      <3>7. CASE CallbackArrives(r) BY <3>1, <3>7 DEF CallbackArrives, NotYet
      <3> QED BY <1>1, <3>2, <3>3, <3>4, <3>5, <3>6, <3>7
    <2> QED BY <1>0, <2>1, <2>2
  <1>2. CASE RemovePasskey(r)
    BY <1>0, <1>2 DEF RemovePasskey, Request
  <1>3. CASE PasswordSource(r) \/ PasskeySource(r)
    <2>1. PICK label : Goto(r, label) /\ label # "consume" /\ req[r].pc # "end"
      BY <1>3 DEF PasswordSource, PasskeySource, AskSource
    <2> QED BY <1>0, <1>g, <2>1 DEF Goto
  <1>4. CASE Verified(r) \/ Issue(r) \/ ClearWindow(r) \/ Cut(r) \/ UpdatePasskey(r) \/ Exchange(r)
             \/ AwaitVerifier(r) \/ AskAccount(r)
    <2>1. CASE UNCHANGED req BY <2>1
    <2>2. CASE ~UNCHANGED req
      <3>1. PICK label : Goto(r, label) /\ label # "consume" /\ req[r].pc # "end"
        BY <1>4, <2>2 DEF Verified, Issue, ClearWindow, Cut, UpdatePasskey, Exchange, AwaitVerifier, AskAccount
      <3> QED BY <1>0, <1>g, <3>1 DEF Goto
    <2> QED BY <2>1, <2>2
  <1>5. CASE InsertLogin(r) \/ CountKeys(r) \/ InsertRegistration(r) \/ AddPasskey(r)
             \/ TakeLogin(r) \/ TakeRegistration(r) \/ Consume(r)
    <2>1. PICK label : Goto(r, label) /\ label # "consume" /\ req[r].pc # "end"
      BY <1>5 DEF InsertLogin, CountKeys, InsertRegistration, AddPasskey, TakeLogin, TakeRegistration, Consume
    <2> QED BY <1>0, <1>g, <2>1 DEF Goto
  <1>6. CASE ReadClock(r) \/ LookupPasskey(r) \/ JudgeCookie(r)
    BY <1>0, <1>6 DEF ReadClock, LookupPasskey, JudgeCookie, Request
  <1> QED BY <1>1, <1>2, <1>3, <1>4, <1>5, <1>6

\* The used states stay accounted for while no callback comes to the set too late.
LEMMA StatesStay ==
  ASSUME RequestsInv, CeremonyInv, UNCHANGED <<consumed, lost, late>>, \A s \in States : uses'[s] = uses[s],
         clock' = clock \/ clock' = clock + 1,
         \/ UNCHANGED req
         \/ \E r \in Requests : /\ \A x \in Requests \ {r} : req'[x] = req[x]
                                /\ req'[r].pc = "consume" => ~(Expiry[req'[r].flow] <= clock)
  PROVE  UsedRemembered'
  <1>1. clock \in Nat /\ Expiry \in [States -> Nat]
    BY Constants DEF RequestsInv, Time
  <1>2. ASSUME NEW s \in States, Expiry[s] <= clock, InTime(s) = {} PROVE InTime(s)' = {}
    <2>1. CASE UNCHANGED req BY <1>2, <2>1 DEF InTime
    <2>2. CASE ~UNCHANGED req
      <3>1. PICK r \in Requests : /\ \A x \in Requests \ {r} : req'[x] = req[x]
                                  /\ req'[r].pc = "consume" => ~(Expiry[req'[r].flow] <= clock)
        BY <2>2
      <3>0. \A x \in Requests : ~(req[x].pc = "consume" /\ req[x].flow = s)
        BY <1>2 DEF InTime
      <3>2. ASSUME NEW x \in Requests, req'[x].pc = "consume", req'[x].flow = s PROVE FALSE
        <4>1. CASE x = r BY <1>2, <3>1, <3>2, <4>1
        <4>2. CASE x # r BY <3>0, <3>1, <3>2, <4>2
        <4> QED BY <4>1, <4>2
      <3> QED BY <3>2 DEF InTime
    <2> QED BY <2>1, <2>2
  <1>3. ASSUME NEW s \in States
        PROVE  /\ uses'[s] <= 1 + lost'[s] + late'[s]
               /\ s \in DOMAIN consumed' => consumed'[s] = Expiry[s]
               /\ Expiry[s] > clock' => late'[s] = 0
               /\ s \notin DOMAIN consumed' =>
                     uses'[s] <= lost'[s] + late'[s] \/ (Expiry[s] <= clock' /\ InTime(s)' = {})
    <2>1. Expiry[s] \in Nat BY <1>1
    <2> QED BY <1>1, <1>2, <2>1 DEF CeremonyInv, UsedRemembered
  <1> QED BY <1>3 DEF UsedRemembered

\* The pending ceremonies stay unused while one request moves that was not over.
LEMMA PendingStays ==
  ASSUME CeremonyInv, UNCHANGED <<regs, logins, uses>>,
         \/ UNCHANGED req
         \/ \E r \in Requests : req[r].pc # "end" /\ \A s \in Requests \ {r} : req'[s] = req[s]
  PROVE  PendingUnused'
  BY DEF CeremonyInv, PendingUnused

\* The sets that are bounded are finite.
LEMMA FiniteCeremonies ==
  ASSUME CeremonyTypes
  PROVE  /\ IsFiniteSet(DOMAIN regs) /\ IsFiniteSet(DOMAIN logins)
         /\ IsFiniteSet(DOMAIN passkeys) /\ IsFiniteSet(DOMAIN consumed)
         /\ \A u \in Users : IsFiniteSet(Keys(u)) /\ IsFiniteSet({f \in DOMAIN regs : regs[f].user = u})
  <1>1. IsFiniteSet(Requests)
    <2>1. IsFiniteSet(1 .. MaxRequests)
      BY Constants, FS_Interval
    <2> QED BY <2>1 DEF Requests
  <1>2. /\ IsFiniteSet(DOMAIN regs) /\ IsFiniteSet(DOMAIN logins)
        /\ IsFiniteSet(DOMAIN passkeys) /\ IsFiniteSet(DOMAIN consumed)
    BY <1>1, SignInAssumption, FS_Subset DEF CeremonyTypes
  <1>3. ASSUME NEW u \in Users
        PROVE  IsFiniteSet(Keys(u)) /\ IsFiniteSet({f \in DOMAIN regs : regs[f].user = u})
    <2>1. Keys(u) \in SUBSET DOMAIN passkeys /\ {f \in DOMAIN regs : regs[f].user = u} \in SUBSET DOMAIN regs
      BY DEF Keys
    <2> QED BY <1>2, <2>1, FS_Subset
  <1> QED BY <1>2, <1>3

\* Putting a value into a function, and leaving values out of one.
LEMMA PutAndOnly ==
  ASSUME NEW f, NEW V, f \in [DOMAIN f -> V], NEW S \in SUBSET DOMAIN f, NEW x, NEW v \in V
  PROVE  /\ Only(f, S) \in [S -> V] /\ DOMAIN Only(f, S) = S
         /\ \A y \in S : Only(f, S)[y] = f[y]
         /\ Put(f, x, v) \in [DOMAIN f \cup {x} -> V] /\ DOMAIN Put(f, x, v) = DOMAIN f \cup {x}
         /\ Put(f, x, v)[x] = v
         /\ \A y \in DOMAIN f \ {x} : Put(f, x, v)[y] = f[y]
  BY DEF Only, Put

\* insert_login: the new ceremony fits in, and nobody has used it.
LEMMA InsertLoginKeeps ==
  ASSUME RequestsInv, CeremonyInv, NEW r \in Requests, InsertLogin(r)
  PROVE  CeremonyInv'
  <1> DEFINE alive == Alive(logins, clock)
             A == {x \in DOMAIN logins : logins[x] > clock}
             full == Cardinality(DOMAIN alive) >= MaxLogins
             First == {f \in DOMAIN alive : \A g \in DOMAIN alive : alive[f] <= alive[g]}
  <1>0. CeremonyTypes /\ clock + Lifetime \in Nat /\ req[r].pc = "add"
        /\ UNCHANGED <<clock, regs, passkeys, consumed, uses, lost, late>> /\ Goto(r, "end")
        /\ req \in [Requests -> Request]
    <2>1. clock \in Nat /\ Lifetime \in Nat
      BY Constants DEF RequestsInv, Time
    <2>2. clock + Lifetime \in Nat
      BY <2>1
    <2> QED BY <2>2 DEF CeremonyInv, RequestsInv, InsertLogin
  <1>1. alive = Only(logins, A) /\ DOMAIN alive = A /\ alive \in [A -> Nat] /\ A \in SUBSET DOMAIN logins
    BY <1>0 DEF Alive, Only, CeremonyTypes
  <1> HIDE DEF alive, A
  <1>2. PICK room \in (IF full THEN {Without(alive, f) : f \in First} ELSE {alive}) :
             logins' = Put(room, r, clock + Lifetime)
    BY DEF InsertLogin, alive
  <1>3. /\ room \in [DOMAIN room -> Nat]
        /\ \/ DOMAIN room = A /\ ~full
           \/ \E x \in A : DOMAIN room = A \ {x}
    <2>1. CASE full
      <3>1. PICK f \in First : room = Without(alive, f)
        BY <1>2, <2>1
      <3> QED BY <1>1, <3>1 DEF Without, Only
    <2>2. CASE ~full
      BY <1>1, <1>2, <2>2
    <2> QED BY <2>1, <2>2
  <1>4. DOMAIN logins' = DOMAIN room \cup {r} /\ logins' \in [DOMAIN logins' -> Nat]
    <2>1. logins' \in [DOMAIN room \cup {r} -> Nat]
      BY <1>0, <1>2, <1>3 DEF Put
    <2> QED BY <2>1
  <1>5. Cardinality(DOMAIN room \cup {r}) <= MaxLogins /\ DOMAIN room \subseteq DOMAIN logins
    <2>1. IsFiniteSet(DOMAIN logins) /\ Cardinality(DOMAIN logins) <= MaxLogins
          /\ MaxLogins \in Nat \ {0}
      BY <1>0, FiniteCeremonies, Constants DEF CeremonyInv, CeremoniesBounded
    <2>2. IsFiniteSet(A) /\ Cardinality(A) \in Nat
      BY <1>1, <2>1, FS_Subset, FS_CardinalityType
    <2>3. ~full => Cardinality(A) < MaxLogins
      BY <1>1, <2>1, <2>2
    <2> QED BY <1>1, <1>3, <2>1, <2>3, RoomForOne
  <1>6. CeremonyTypes'
    BY <1>0, <1>4, <1>5 DEF CeremonyTypes
  <1>7. req'[r].pc = "end" /\ \A s \in Requests \ {r} : req'[s] = req[s]
    BY <1>0 DEF Goto, Request
  <1>8. PendingUnused'
    BY <1>0, <1>4, <1>5, <1>7 DEF CeremonyInv, PendingUnused
  <1>9. UsedRemembered'
    BY <1>0, <1>7, StatesStay
  <1>10. CeremoniesBounded'
    BY <1>0, <1>4, <1>5 DEF CeremonyInv, CeremoniesBounded, Keys
  <1> QED BY <1>6, <1>8, <1>9, <1>10 DEF CeremonyInv

\* insert_registration: likewise, among the ceremonies of its user.
LEMMA InsertRegistrationKeeps ==
  ASSUME RequestsInv, CeremonyInv, NEW r \in Requests, InsertRegistration(r)
  PROVE  CeremonyInv'
  <1> DEFINE u == req[r].user
             A == {x \in DOMAIN regs : regs[x].expires > clock}
             mine == {f \in DOMAIN AliveRegs : regs[f].user = u}
             First == {f \in mine : \A g \in mine : regs[f].expires <= regs[g].expires}
             row == [user |-> u, expires |-> clock + Lifetime]
  <1>0. CeremonyTypes /\ clock + Lifetime \in Nat /\ req[r].pc = "insert" /\ u \in Users
        /\ UNCHANGED <<clock, logins, passkeys, consumed, uses, lost, late>> /\ Goto(r, "end")
        /\ req \in [Requests -> Request]
    <2>1. clock \in Nat /\ Lifetime \in Nat
      BY Constants DEF RequestsInv, Time
    <2>2. clock + Lifetime \in Nat
      BY <2>1
    <2>3. req[r].pc = "insert" /\ ShapeOf(req[r])
      BY DEF RequestsInv, InsertRegistration
    <2>4. u \in Users
      BY <2>3 DEF ShapeOf
    <2> QED BY <2>2, <2>3, <2>4 DEF CeremonyInv, RequestsInv, InsertRegistration
  <1>r. row \in [user : Users, expires : Nat]
    BY <1>0
  <1>7. req'[r].pc = "end" /\ \A s \in Requests \ {r} : req'[s] = req[s]
    BY <1>0 DEF Goto, Request
  <1>8. UsedRemembered'
    BY <1>0, <1>7, StatesStay
  <1>d. CeremonyInv'
    <2>1. /\ AliveRegs = Only(regs, A) /\ DOMAIN AliveRegs = A /\ A \in SUBSET DOMAIN regs
          /\ \A x \in A : AliveRegs[x] = regs[x]
          /\ AliveRegs \in [A -> [user : Users, expires : Nat]]
      BY <1>0 DEF AliveRegs, Only, CeremonyTypes
    <2> HIDE DEF A
    <2>2. PICK room \in (IF Cardinality(mine) >= MaxPending
                         THEN {Without(AliveRegs, f) : f \in First} ELSE {AliveRegs}) :
               regs' = Put(room, r, row)
      BY DEF InsertRegistration
    <2>m. mine \in SUBSET A /\ mine = {f \in A : regs[f].user = u}
      BY <2>1
    <2>3. /\ room \in [DOMAIN room -> [user : Users, expires : Nat]]
          /\ \A f \in DOMAIN room : f \in A /\ room[f] = regs[f]
          /\ \/ DOMAIN room = A /\ ~(Cardinality(mine) >= MaxPending)
             \/ \E x \in mine : DOMAIN room = A \ {x}
      <3>1. CASE Cardinality(mine) >= MaxPending
        <4>1. PICK f \in First : room = Without(AliveRegs, f)
          BY <2>2, <3>1
        <4>2. f \in mine /\ f \in A /\ DOMAIN room = A \ {f} /\ room = [x \in A \ {f} |-> AliveRegs[x]]
          BY <2>1, <2>m, <4>1 DEF Without, Only
        <4> HIDE DEF mine, First
        <4> QED BY <2>1, <4>2
      <3>2. CASE ~(Cardinality(mine) >= MaxPending)
        <4>1. room = AliveRegs
          BY <2>2, <3>2
        <4> HIDE DEF mine, First
        <4> QED BY <2>1, <3>2, <4>1
      <3> QED BY <3>1, <3>2
    <2>4. /\ DOMAIN regs' = DOMAIN room \cup {r}
          /\ regs' \in [DOMAIN regs' -> [user : Users, expires : Nat]]
          /\ regs'[r] = row /\ \A f \in DOMAIN room \ {r} : regs'[f] = room[f]
      <3> HIDE DEF row
      <3>1. regs' \in [DOMAIN room \cup {r} -> [user : Users, expires : Nat]]
        BY <1>r, <2>2, <2>3 DEF Put
      <3> QED BY <2>2, <3>1 DEF Put
    <2>5. r \notin DOMAIN regs /\ r \notin DOMAIN logins
      BY <1>0 DEF CeremonyInv, PendingUnused
    <2>6. CeremonyTypes'
      BY <1>0, <2>1, <2>3, <2>4 DEF CeremonyTypes
    <2>7. PendingUnused'
      BY <1>0, <1>7, <2>1, <2>3, <2>4, <2>5 DEF CeremonyInv, PendingUnused
    <2>8. ASSUME NEW v \in Users
          PROVE  Cardinality({f \in DOMAIN regs' : regs'[f].user = v}) <= MaxPending
      <3> DEFINE S == {f \in DOMAIN regs : regs[f].user = v}
                 B == {f \in DOMAIN regs' : regs'[f].user = v}
                 U == {f \in DOMAIN room : regs[f].user = v}
      <3>1. IsFiniteSet(S) /\ Cardinality(S) <= MaxPending /\ MaxPending \in Nat \ {0}
        BY <1>0, FiniteCeremonies, Constants DEF CeremonyInv, CeremoniesBounded
      <3>2. CASE v = u
        <4>1. B = U \cup {r}
          <5>1. row.user = u
            OBVIOUS
          <5> HIDE DEF u, row, mine
          <5> QED BY <2>1, <2>3, <2>4, <2>5, <3>2, <5>1
        <4>2. \/ U = mine /\ ~(Cardinality(mine) >= MaxPending)
              \/ \E x \in mine : U = mine \ {x}
          BY <2>3, <2>m, <3>2
        <4>3. mine \in SUBSET S
          BY <2>1, <2>m, <3>2
        <4>4. Cardinality(mine) \in Nat
          <5> HIDE DEF mine, S
          <5> QED BY <3>1, <4>3, FS_Subset, FS_CardinalityType
        <4>5. \/ U = mine /\ Cardinality(mine) < MaxPending
              \/ \E x \in mine : U = mine \ {x}
          BY <3>1, <4>2, <4>4
        <4>6. Cardinality(U \cup {r}) <= MaxPending
          <5> HIDE DEF mine, S, U
          <5> QED BY <3>1, <4>3, <4>5, RoomForOne
        <4> QED BY <4>1, <4>6
      <3>3. CASE v # u
        <4>1. B \in SUBSET S
          <5>1. row.user = u
            OBVIOUS
          <5> HIDE DEF u, row, mine
          <5> QED BY <2>1, <2>3, <2>4, <2>5, <3>3, <5>1
        <4>2. Cardinality(B) <= MaxPending
          <5> HIDE DEF S, B
          <5> QED BY <3>1, <4>1, StillBounded
        <4> QED BY <4>2
      <3> QED BY <3>2, <3>3
    <2>9. CeremoniesBounded'
      BY <1>0, <2>8 DEF CeremonyInv, CeremoniesBounded, Keys
    <2> QED BY <1>8, <2>6, <2>7, <2>9 DEF CeremonyInv
  <1> QED BY <1>d

\* take, of a sign-in or of a registration: the ceremony is accepted for the
\* first time, and gone.
LEMMA TakeKeeps ==
  ASSUME RequestsInv, CeremonyInv, NEW r \in Requests, TakeLogin(r) \/ TakeRegistration(r)
  PROVE  CeremonyInv'
  <1> DEFINE f == req[r].flow
  <1>0. CeremonyTypes /\ UNCHANGED <<clock, passkeys, consumed, lost, late>> /\ req[r].pc = "take"
        /\ req \in [Requests -> Request]
    BY DEF CeremonyInv, RequestsInv, TakeLogin, TakeRegistration
  <1>1. f \in Requests /\ f \notin States
    <2>1. ShapeOf(req[r]) /\ req[r].pc = "take" /\ req[r].kind \in {"passkey finish", "register finish"}
      BY DEF RequestsInv, TakeLogin, TakeRegistration
    <2> QED BY <2>1, Constants DEF ShapeOf
  <1>2. req[r].pc # "end" /\ \A s \in Requests \ {r} : req'[s] = req[s]
    BY <1>0 DEF TakeLogin, TakeRegistration, Goto
  <1>3. \/ /\ uses' = [uses EXCEPT ![f] = @ + 1]
           /\ f \in DOMAIN logins \cup DOMAIN regs /\ f \notin DOMAIN logins' \cup DOMAIN regs'
        \/ uses' = uses
    <2>1. CASE TakeLogin(r)
      <3>1. DOMAIN logins' = DOMAIN logins \ {f} /\ regs' = regs
        BY <2>1 DEF TakeLogin, Without, Only
      <3>2. uses' = (IF f \in DOMAIN logins /\ logins[f] > clock THEN [uses EXCEPT ![f] = @ + 1] ELSE uses)
        BY <2>1 DEF TakeLogin
      <3> QED BY <3>1, <3>2 DEF CeremonyInv, PendingUnused
    <2>2. CASE TakeRegistration(r)
      <3>1. DOMAIN regs' = DOMAIN regs \ {f} /\ logins' = logins
        BY <2>2 DEF TakeRegistration, Without, Only
      <3>2. uses' = (IF f \in DOMAIN regs /\ regs[f].expires > clock /\ regs[f].user = req[r].user
                     THEN [uses EXCEPT ![f] = @ + 1] ELSE uses)
        BY <2>2 DEF TakeRegistration
      <3> QED BY <3>1, <3>2 DEF CeremonyInv, PendingUnused
    <2> QED BY <2>1, <2>2
  <1>4. /\ DOMAIN logins' \subseteq DOMAIN logins /\ DOMAIN regs' \subseteq DOMAIN regs
        /\ logins' \in [DOMAIN logins' -> Nat]
        /\ regs' \in [DOMAIN regs' -> [user : Users, expires : Nat]]
        /\ \A x \in DOMAIN regs' : regs'[x] = regs[x]
    <2>1. CASE TakeLogin(r)
      BY <1>0, <2>1 DEF TakeLogin, Without, Only, CeremonyTypes
    <2>2. CASE TakeRegistration(r)
      BY <1>0, <2>2 DEF TakeRegistration, Without, Only, CeremonyTypes
    <2> QED BY <2>1, <2>2
  <1>5. uses' \in [Requests \cup States -> Nat]
    <2>1. uses \in [Requests \cup States -> Nat]
      BY <1>0 DEF CeremonyTypes
    <2> HIDE DEF f
    <2> QED BY <1>1, <1>3, <2>1
  <1>6. CeremonyTypes'
    BY <1>0, <1>4, <1>5 DEF CeremonyTypes
  <1>7. PendingUnused'
    <2>1. DOMAIN regs' \cap DOMAIN logins' = {}
      BY <1>4 DEF CeremonyInv, PendingUnused
    <2> SUFFICES ASSUME NEW s \in Requests
                 PROVE  /\ uses'[s] <= 1
                        /\ s \in DOMAIN regs' \cup DOMAIN logins' => req'[s].pc = "end" /\ uses'[s] = 0
                        /\ req'[s].pc # "end" => uses'[s] = 0
      BY <2>1 DEF PendingUnused
    <2>2. /\ uses[s] <= 1 /\ uses[s] \in Nat
          /\ s \in DOMAIN regs \cup DOMAIN logins => req[s].pc = "end" /\ uses[s] = 0
          /\ req[s].pc # "end" => uses[s] = 0
      BY <1>0 DEF CeremonyInv, PendingUnused, CeremonyTypes
    <2>3. CASE uses'[s] = uses[s]
      BY <1>2, <1>4, <2>2, <2>3
    <2>4. CASE uses'[s] # uses[s]
      <3>1. s = f /\ uses'[s] = uses[s] + 1 /\ f \in DOMAIN logins \cup DOMAIN regs
            /\ f \notin DOMAIN logins' \cup DOMAIN regs'
        <4> HIDE DEF f
        <4> QED BY <1>0, <1>3, <2>4 DEF CeremonyTypes
      <3>2. uses'[s] = 1 /\ s # r /\ req'[s].pc = "end"
        BY <1>2, <2>2, <3>1
      <3> QED BY <3>1, <3>2
    <2> QED BY <2>3, <2>4
  <1>8. UsedRemembered'
    <2>1. \A s \in States : uses'[s] = uses[s]
      <3> HIDE DEF f
      <3> QED BY <1>0, <1>1, <1>3 DEF CeremonyTypes
    <2> QED BY <1>0, <2>1, OnlyOneMoves, StatesStay
  <1>9. CeremoniesBounded'
    <2>1. ASSUME NEW u \in Users
          PROVE  Cardinality({x \in DOMAIN regs' : regs'[x].user = u}) <= MaxPending
      <3> DEFINE S == {x \in DOMAIN regs : regs[x].user = u}
                 T == {x \in DOMAIN regs' : regs'[x].user = u}
      <3>1. IsFiniteSet(S) /\ Cardinality(S) <= MaxPending /\ T \in SUBSET S
        BY <1>0, <1>4, FiniteCeremonies DEF CeremonyInv, CeremoniesBounded
      <3> HIDE DEF S, T
      <3>2. Cardinality(T) <= MaxPending
        BY <3>1, Constants, StillBounded
      <3> QED BY <3>2 DEF T
    <2>2. Cardinality(DOMAIN logins') <= MaxLogins
      <3>1. IsFiniteSet(DOMAIN logins) /\ Cardinality(DOMAIN logins) <= MaxLogins
            /\ DOMAIN logins' \in SUBSET DOMAIN logins
        BY <1>0, <1>4, FiniteCeremonies DEF CeremonyInv, CeremoniesBounded
      <3> QED BY <3>1, Constants, StillBounded
    <2> QED BY <1>0, <2>1, <2>2 DEF CeremonyInv, CeremoniesBounded, Keys
  <1> QED BY <1>6, <1>7, <1>8, <1>9 DEF CeremonyInv

\* add_passkey counts the keys in the transaction that inserts one; a removal
\* takes one away.
LEMMA KeysKeep ==
  ASSUME RequestsInv, CeremonyInv, NEW r \in Requests, AddPasskey(r) \/ RemovePasskey(r)
  PROVE  CeremonyInv'
  <1>0. CeremonyTypes /\ UNCHANGED <<clock, regs, logins, consumed, uses, lost, late>>
    BY DEF CeremonyInv, AddPasskey, RemovePasskey
  <1>1. PendingUnused'
    BY <1>0, OnlyOneMoves, PendingStays
  <1>2. UsedRemembered'
    BY <1>0, OnlyOneMoves, StatesStay
  <1>3. /\ passkeys' \in [DOMAIN passkeys' -> Users] /\ DOMAIN passkeys' \subseteq Creds
        /\ \A u \in Users : Cardinality(Keys(u)') <= MaxPasskeys
    <2>1. CASE UNCHANGED passkeys
      BY <1>0, <2>1 DEF CeremonyInv, CeremonyTypes, CeremoniesBounded, Keys
    <2>2. CASE RemovePasskey(r)
      <3>1. PICK c \in DOMAIN passkeys : passkeys' = Without(passkeys, c)
        BY <2>2 DEF RemovePasskey
      <3>2. DOMAIN passkeys' = DOMAIN passkeys \ {c} /\ passkeys' \in [DOMAIN passkeys' -> Users]
            /\ \A x \in DOMAIN passkeys' : passkeys'[x] = passkeys[x]
        BY <1>0, <3>1 DEF Without, Only, CeremonyTypes
      <3>3. ASSUME NEW u \in Users PROVE Cardinality(Keys(u)') <= MaxPasskeys
        <4>1. Keys(u)' \in SUBSET Keys(u)
          BY <3>2 DEF Keys
        <4>2. IsFiniteSet(Keys(u)) /\ Cardinality(Keys(u)) <= MaxPasskeys
          BY <1>0, FiniteCeremonies DEF CeremonyInv, CeremoniesBounded
        <4> QED BY <4>1, <4>2, Constants, StillBounded
      <3> QED BY <1>0, <3>2, <3>3 DEF CeremonyTypes
    <2>3. CASE AddPasskey(r) /\ ~UNCHANGED passkeys
      <3> DEFINE c == req[r].cred
                 v == req[r].user
      <3>1. Cardinality(Keys(v)) < MaxPasskeys /\ c \notin DOMAIN passkeys /\ passkeys' = Put(passkeys, c, v)
        BY <2>3 DEF AddPasskey
      <3>2. c \in Creds /\ v \in Users
        <4>1. ShapeOf(req[r]) /\ req[r].pc = "add" /\ req[r].kind = "register finish"
          BY <2>3 DEF RequestsInv, AddPasskey
        <4> QED BY <4>1 DEF ShapeOf
      <3> HIDE DEF c, v
      <3>3. /\ DOMAIN passkeys' = DOMAIN passkeys \cup {c} /\ passkeys' \in [DOMAIN passkeys' -> Users]
            /\ passkeys'[c] = v /\ \A x \in DOMAIN passkeys : passkeys'[x] = passkeys[x]
        BY <1>0, <3>1, <3>2 DEF Put, CeremonyTypes
      <3>4. ASSUME NEW u \in Users PROVE Cardinality(Keys(u)') <= MaxPasskeys
        <4>1. IsFiniteSet(Keys(u)) /\ Cardinality(Keys(u)) <= MaxPasskeys /\ Cardinality(Keys(u)) \in Nat
          BY <1>0, FiniteCeremonies, FS_CardinalityType DEF CeremonyInv, CeremoniesBounded
        <4>2. CASE u = v
          <5>1. Keys(u)' = Keys(u) \cup {c} /\ c \notin Keys(u)
            BY <3>1, <3>3, <4>2 DEF Keys
          <5>2. Cardinality(Keys(u) \cup {c}) = Cardinality(Keys(u)) + 1
            BY <4>1, <5>1, FS_AddElement
          <5> QED BY <3>1, <4>1, <4>2, <5>1, <5>2, Constants
        <4>3. CASE u # v
          <5>1. Keys(u)' = Keys(u)
            BY <3>1, <3>3, <4>3 DEF Keys
          <5> QED BY <4>1, <5>1
        <4> QED BY <4>2, <4>3
      <3> QED BY <1>0, <3>2, <3>3, <3>4 DEF CeremonyTypes
    <2> QED BY <2>1, <2>2, <2>3
  <1>4. CeremonyTypes' /\ CeremoniesBounded'
    BY <1>0, <1>3 DEF CeremonyInv, CeremonyTypes, CeremoniesBounded
  <1> QED BY <1>1, <1>2, <1>4 DEF CeremonyInv

\* consume: a state is accepted when it is not remembered, so never before, or it
\* was dropped; it takes the place of the one that expires first.
LEMMA ConsumeKeeps ==
  ASSUME RequestsInv, CeremonyInv, NEW r \in Requests, Consume(r)
  PROVE  CeremonyInv'
  <1> DEFINE s == req[r].flow
             alive == Alive(consumed, req[r].now)
             A == {x \in DOMAIN consumed : consumed[x] > req[r].now}
             D == {x \in DOMAIN consumed \ DOMAIN alive : InTime(x) # {}}
             First == {x \in DOMAIN alive : \A y \in DOMAIN alive : alive[x] <= alive[y]}
             gone == IF Cardinality(DOMAIN alive) >= MaxConsumed THEN First ELSE {}
  <1>0. CeremonyTypes /\ UNCHANGED <<clock, regs, logins, passkeys>>
        /\ req \in [Requests -> Request] /\ clock \in Nat
        /\ req[r].pc = "consume" /\ req[r].now <= clock /\ req[r].now \in Nat
        /\ late' = [x \in States |-> IF x \in D THEN late[x] + 1 ELSE late[x]]
    <2>1. req[r] \in Request /\ MaxTime \in Nat
      BY Constants DEF RequestsInv
    <2> QED BY <2>1 DEF CeremonyInv, RequestsInv, Consume, Time, Request
  <1>1. s \in States /\ s \notin Requests /\ req[r].now < Expiry[s]
    <2>1. ShapeOf(req[r])
      BY DEF RequestsInv
    <2> QED BY <1>0, <2>1, Constants DEF ShapeOf
  <1>2. alive = Only(consumed, A) /\ DOMAIN alive = A /\ alive \in [A -> Nat] /\ A \in SUBSET DOMAIN consumed
        /\ \A x \in A : alive[x] = consumed[x]
    BY <1>0 DEF Alive, Only, CeremonyTypes
  <1>3. \A x \in DOMAIN consumed : x \in States /\ consumed[x] = Expiry[x] /\ (x \in A <=> Expiry[x] > req[r].now)
    BY <1>0 DEF CeremonyTypes, CeremonyInv, UsedRemembered
  <1>b. IsFiniteSet(DOMAIN consumed) /\ Cardinality(DOMAIN consumed) <= MaxConsumed
        /\ MaxConsumed \in Nat \ {0}
    BY <1>0, FiniteCeremonies, Constants DEF CeremonyInv, CeremoniesBounded
  <1>c. IsFiniteSet(A) /\ Cardinality(A) \in Nat
    <2> HIDE DEF A
    <2> QED BY <1>2, <1>b, FS_Subset, FS_CardinalityType
  <1>t. uses \in [Requests \cup States -> Nat] /\ lost \in [States -> Nat] /\ Expiry \in [States -> Nat]
        /\ late \in [States -> Nat]
    BY <1>0, Constants DEF CeremonyTypes
  <1>m. \A y \in States : InTime(y) = {} => InTime(y)' = {}
    <2>1. (\A q \in Requests \ {r} : req'[q] = req[q]) /\ req'[r].pc # "consume"
      BY <1>0 DEF Consume, Goto, Request
    <2> QED BY <2>1 DEF InTime
  <1>l. late' \in [States -> Nat] /\ \A y \in States : late'[y] = late[y] \/ late'[y] = late[y] + 1
    BY <1>0, <1>t
  <1>u. ASSUME NEW y \in States
        PROVE  /\ Expiry[y] > clock => late'[y] = 0
               /\ uses[y] <= 1 + lost[y] + late'[y]
               /\ y \notin A => uses[y] <= lost[y] + late'[y] \/ (Expiry[y] <= clock /\ InTime(y)' = {})
               /\ y = s /\ y \notin A => uses[y] <= lost[y] + late'[y]
    <2>0. /\ uses[y] \in Nat /\ lost[y] \in Nat /\ late[y] \in Nat /\ Expiry[y] \in Nat
      BY <1>t
    <2>1. /\ uses[y] <= 1 + lost[y] + late[y] /\ (Expiry[y] > clock => late[y] = 0)
          /\ y \notin DOMAIN consumed => uses[y] <= lost[y] + late[y] \/ (Expiry[y] <= clock /\ InTime(y) = {})
      BY DEF CeremonyInv, UsedRemembered
    <2>2. CASE y \in DOMAIN consumed /\ y \notin A
      <3>1. Expiry[y] <= req[r].now /\ y # s
        BY <1>0, <1>1, <1>3, <2>0, <2>2
      <3>2. Expiry[y] <= clock
        BY <1>0, <2>0, <3>1
      <3>5. (late'[y] = late[y] \/ late'[y] = late[y] + 1) /\ ~(Expiry[y] > clock) /\ y # s
        BY <1>0, <1>l, <2>0, <3>1, <3>2
      <3>3. CASE InTime(y) = {}
        <4>1. InTime(y)' = {} BY <1>m, <3>3
        <4> HIDE DEF A, D, s
        <4> QED BY <2>0, <2>1, <3>2, <3>5, <4>1
      <3>4. CASE InTime(y) # {}
        <4>1. y \in D BY <1>2, <2>2, <3>4
        <4> HIDE DEF A, D, s
        <4>2. late'[y] = late[y] + 1 BY <1>0, <4>1
        <4> QED BY <2>0, <2>1, <3>5, <4>2
      <3> QED BY <3>3, <3>4
    <2>3. CASE ~(y \in DOMAIN consumed /\ y \notin A)
      <3>1. y \notin D BY <1>2, <2>3
      <3> HIDE DEF D
      <3>2. late'[y] = late[y] BY <1>0, <3>1
      <3>3. y \notin A => y \notin DOMAIN consumed BY <2>3
      <3>4. y = s => InTime(y) # {} BY <1>0 DEF InTime
      <3> HIDE DEF A, s
      <3> QED BY <1>m, <2>0, <2>1, <3>2, <3>3, <3>4
    <2> QED BY <2>2, <2>3
  <1> HIDE DEF D
  <1>5. CASE /\ s \in DOMAIN alive
             /\ consumed' = alive /\ UNCHANGED <<uses, lost>>
    <2> HIDE DEF A, alive
    <2>1. PendingUnused'
      BY <1>0, <1>5, OnlyOneMoves, PendingStays
    <2>2. CeremonyTypes'
      BY <1>0, <1>2, <1>3, <1>5, <1>l DEF CeremonyTypes
    <2>3. UsedRemembered'
      <3> SUFFICES ASSUME NEW x \in States
                   PROVE  /\ uses[x] <= 1 + lost[x] + late'[x]
                          /\ x \in A => alive[x] = Expiry[x]
                          /\ Expiry[x] > clock => late'[x] = 0
                          /\ x \notin A => uses[x] <= lost[x] + late'[x]
                                         \/ (Expiry[x] <= clock /\ InTime(x)' = {})
        BY <1>0, <1>2, <1>5 DEF UsedRemembered
      <3>1. x \in A => alive[x] = Expiry[x]
        BY <1>2, <1>3
      <3> QED BY <1>u, <3>1
    <2>4. CeremoniesBounded'
      <3>1. Cardinality(A) <= MaxConsumed
        BY <1>2, <1>b, StillBounded
      <3> QED BY <1>0, <1>2, <1>5, <3>1 DEF CeremonyInv, CeremoniesBounded, Keys
    <2> QED BY <2>1, <2>2, <2>3, <2>4 DEF CeremonyInv
  <1>6. CASE /\ s \notin DOMAIN alive
             /\ \E x \in IF gone = {} THEN {None} ELSE gone :
                   /\ consumed' = Put(Without(alive, x), s, Expiry[s])
                   /\ lost' = IF x = None THEN lost ELSE [lost EXCEPT ![x] = @ + 1]
             /\ uses' = [uses EXCEPT ![s] = @ + 1]
    <2>1. PICK x \in (IF gone = {} THEN {None} ELSE gone) :
                   /\ consumed' = Put(Without(alive, x), s, Expiry[s])
                   /\ lost' = IF x = None THEN lost ELSE [lost EXCEPT ![x] = @ + 1]
      BY <1>6
    <2>f. A # {} => First # {}
      <3> HIDE DEF A, alive
      <3>1. A # {} => \E a \in A : \A y \in A : alive[a] <= alive[y]
        BY <1>2, LeastExists
      <3> QED BY <1>2, <3>1
    <2>2. \/ x \in A /\ x # None
          \/ x = None /\ x \notin A /\ Cardinality(A) < MaxConsumed
      <3>1. None \notin A
        BY <1>3, Constants
      <3>2. CASE Cardinality(A) >= MaxConsumed
        <4>1. A # {}
          BY <1>b, <1>c, <3>2, FS_EmptySet
        <4>2. gone = First /\ First # {} /\ First \subseteq A
          BY <1>2, <2>f, <3>2, <4>1
        <4> HIDE DEF gone, First, A
        <4> QED BY <2>1, <3>1, <4>2
      <3>3. CASE Cardinality(A) < MaxConsumed
        <4>1. gone = {}
          BY <1>2, <1>b, <1>c, <3>3
        <4> HIDE DEF gone, A
        <4> QED BY <2>1, <3>1, <3>3, <4>1
      <3> QED BY <1>b, <1>c, <3>2, <3>3
    <2> HIDE DEF A, alive, gone
    <2>3. /\ DOMAIN consumed' = (A \ {x}) \cup {s} /\ consumed'[s] = Expiry[s]
          /\ \A y \in A \ {x} : y # s => consumed'[y] = consumed[y]
          /\ consumed' \in [DOMAIN consumed' -> Nat]
      <3>0. Expiry[s] \in Nat
        BY <1>1, <1>t
      <3>1. Without(alive, x) \in [A \ {x} -> Nat] /\ \A y \in A \ {x} : Without(alive, x)[y] = consumed[y]
        BY <1>2 DEF Without, Only
      <3>2. consumed' \in [(A \ {x}) \cup {s} -> Nat]
        BY <2>1, <3>0, <3>1 DEF Put
      <3> HIDE DEF s
      <3> QED BY <2>1, <3>1, <3>2 DEF Put
    <2>4. s \notin A /\ uses[s] <= lost[s] + late'[s]
      BY <1>1, <1>2, <1>6, <1>u
    <2>5. uses' \in [Requests \cup States -> Nat] /\ uses'[s] = uses[s] + 1
          /\ \A y \in (Requests \cup States) \ {s} : uses'[y] = uses[y]
      BY <1>1, <1>6, <1>t
    <2>6. /\ lost' \in [States -> Nat]
          /\ x # None => lost'[x] = lost[x] + 1
          /\ \A y \in States : y # x => lost'[y] = lost[y]
      BY <1>3, <1>t, <1>2, <2>1, <2>2
    <2>7. CeremonyTypes'
      BY <1>0, <1>1, <1>2, <1>l, <2>3, <2>5, <2>6 DEF CeremonyTypes
    <2>8. PendingUnused'
      <3>1. \A y \in Requests : uses'[y] = uses[y]
        BY <1>1, <2>5
      <3>2. \/ UNCHANGED req
            \/ req[r].pc # "end" /\ \A y \in Requests \ {r} : req'[y] = req[y]
        BY OnlyOneMoves
      <3> QED BY <1>0, <3>1, <3>2 DEF CeremonyInv, PendingUnused
    <2>9. UsedRemembered'
      <3> SUFFICES ASSUME NEW y \in States
                   PROVE  /\ uses'[y] <= 1 + lost'[y] + late'[y]
                          /\ y \in DOMAIN consumed' => consumed'[y] = Expiry[y]
                          /\ Expiry[y] > clock => late'[y] = 0
                          /\ y \notin DOMAIN consumed' => uses'[y] <= lost'[y] + late'[y]
                                                         \/ (Expiry[y] <= clock /\ InTime(y)' = {})
        BY <1>0 DEF UsedRemembered
      <3>0. y # None
        BY Constants
      <3>1. /\ uses[y] \in Nat /\ lost[y] \in Nat /\ late'[y] \in Nat /\ lost'[y] \in Nat
            /\ lost'[y] = lost[y] \/ lost'[y] = lost[y] + 1
        BY <1>t, <1>l, <2>6, <3>0
      <3>u. /\ Expiry[y] > clock => late'[y] = 0
            /\ uses[y] <= 1 + lost[y] + late'[y]
            /\ y \notin A => uses[y] <= lost[y] + late'[y] \/ (Expiry[y] <= clock /\ InTime(y)' = {})
        BY <1>u
      <3>2. CASE y = s
        BY <1>1, <2>3, <2>4, <2>5, <3>1, <3>u, <3>2
      <3>3. CASE y # s
        <4>1. uses'[y] = uses[y]
          BY <2>5, <3>3
        <4>2. y \in DOMAIN consumed' => consumed'[y] = Expiry[y]
          BY <1>2, <1>3, <2>3, <3>3
        <4>3. ASSUME y \notin DOMAIN consumed'
              PROVE  uses'[y] <= lost'[y] + late'[y] \/ (Expiry[y] <= clock /\ InTime(y)' = {})
          <5>1. CASE y = x
            <6>1. lost'[y] = lost[y] + 1
              BY <2>6, <3>0, <5>1
            <6> QED BY <3>1, <3>u, <4>1, <6>1
          <5>2. CASE y # x
            <6>1. y \notin A
              BY <2>3, <4>3, <5>2
            <6> QED BY <3>1, <3>u, <4>1, <6>1
          <5> QED BY <5>1, <5>2
        <4> QED BY <3>1, <3>u, <4>1, <4>2, <4>3
      <3> QED BY <3>2, <3>3
    <2>10. Cardinality(DOMAIN consumed') <= MaxConsumed
      <3>1. \/ A \ {x} = A /\ Cardinality(A) < MaxConsumed
            \/ \E z \in A : A \ {x} = A \ {z}
        BY <2>2
      <3>2. Cardinality((A \ {x}) \cup {s}) <= MaxConsumed
        <4> DEFINE U == A \ {x}
        <4>1. (U = A /\ Cardinality(A) < MaxConsumed) \/ \E z \in A : U = A \ {z}
          BY <3>1
        <4> HIDE DEF s, U
        <4>2. Cardinality(U \cup {s}) <= MaxConsumed
          BY <1>2, <1>b, <4>1, RoomForOne
        <4> QED BY <4>2 DEF U
      <3> QED BY <2>3, <3>2
    <2>11. CeremoniesBounded'
      BY <1>0, <2>10 DEF CeremonyInv, CeremoniesBounded, Keys
    <2> QED BY <2>7, <2>8, <2>9, <2>11 DEF CeremonyInv
  <1> QED BY <1>5, <1>6 DEF Consume

\* Every step keeps the ceremonies, the keys and the used states.
LEMMA CeremonyNext ==
  ASSUME RequestsInv, CeremonyInv, [Next]_vars
  PROVE  CeremonyInv'
  <1>1. ASSUME NEW r \in Requests,
               \/ InsertLogin(r) \/ TakeLogin(r) \/ InsertRegistration(r) \/ TakeRegistration(r)
               \/ AddPasskey(r) \/ RemovePasskey(r) \/ Consume(r)
        PROVE  CeremonyInv'
    BY <1>1, InsertLoginKeeps, TakeKeeps, InsertRegistrationKeeps, KeysKeep, ConsumeKeeps
  <1>u. ASSUME UNCHANGED <<clock, ceremonies>>,
               \/ UNCHANGED req
               \/ \E r \in Requests : /\ req[r].pc # "end" /\ \A s \in Requests \ {r} : req'[s] = req[s]
                                      /\ req'[r].pc = "consume" => ~(Expiry[req'[r].flow] <= clock)
        PROVE  CeremonyInv'
    <2>0. UNCHANGED <<clock, regs, logins, uses, consumed, lost, late>>
      BY <1>u DEF ceremonies
    <2>1. UNCHANGED req => PendingUnused' /\ UsedRemembered'
      BY <2>0, PendingStays, StatesStay
    <2>2. ASSUME ~UNCHANGED req PROVE PendingUnused' /\ UsedRemembered'
      <3>1. PICK r \in Requests : /\ req[r].pc # "end" /\ \A s \in Requests \ {r} : req'[s] = req[s]
                                  /\ req'[r].pc = "consume" => ~(Expiry[req'[r].flow] <= clock)
        BY <1>u, <2>2
      <3>2. PendingUnused'
        BY <2>0, <3>1, PendingStays
      <3>3. UsedRemembered'
        BY <2>0, <3>1, StatesStay
      <3> QED BY <3>2, <3>3
    <2>3. PendingUnused' /\ UsedRemembered'
      BY <2>1, <2>2
    <2> QED BY <1>u, <2>3 DEF ceremonies, CeremonyInv, CeremonyTypes, CeremoniesBounded, Keys
  <1>2. ASSUME NEW r \in Requests,
               \/ PasswordArrives(r) \/ PasskeyArrives(r) \/ FinishArrives(r) \/ RegisterArrives(r)
               \/ RegisterFinishArrives(r) \/ CallbackArrives(r)
        PROVE  CeremonyInv'
    <2>1. UNCHANGED <<clock, ceremonies>>
      BY <1>2 DEF PasswordArrives, PasskeyArrives, FinishArrives, RegisterArrives,
          RegisterFinishArrives, CallbackArrives, Comes
    <2> QED BY <1>2, <1>u, <2>1, OnlyOneMoves
  <1>3. ASSUME NEW r \in Requests,
               \/ PasswordSource(r) \/ AwaitVerifier(r) \/ ReadClock(r) \/ AskAccount(r)
               \/ Verified(r) \/ Issue(r) \/ ClearWindow(r) \/ Cut(r)
               \/ PasskeySource(r) \/ LookupPasskey(r) \/ UpdatePasskey(r) \/ Exchange(r)
               \/ CountKeys(r) \/ JudgeCookie(r)
        PROVE  CeremonyInv'
    <2>1. UNCHANGED <<clock, ceremonies>>
      BY <1>3 DEF PasswordSource, AwaitVerifier, ReadClock, AskAccount, Verified, Issue, ClearWindow, Cut,
          PasskeySource, LookupPasskey, UpdatePasskey, Exchange, CountKeys, JudgeCookie
    <2> QED BY <1>3, <1>u, <2>1, OnlyOneMoves
  <1>4. CASE Tick
    <2>1. UNCHANGED <<req, ceremonies>> /\ clock' = clock + 1 /\ clock \in Nat
      BY <1>4 DEF Tick, RequestsInv, Time
    <2>2. UsedRemembered'
      BY <2>1, StatesStay DEF ceremonies
    <2>3. PendingUnused'
      BY <2>1, PendingStays DEF ceremonies
    <2> QED BY <2>1, <2>2, <2>3 DEF ceremonies, CeremonyInv, CeremonyTypes, CeremoniesBounded, Keys
  <1>5. CASE UNCHANGED vars
    BY <1>5, <1>u DEF vars
  <1> QED BY <1>1, <1>2, <1>3, <1>4, <1>5 DEF Next

-----------------------------------------------------------------------------
(* The theorems                                                              *)

\* No request has arrived, and nothing is pending.
LEMMA SignInInit == Init => SignInInv
  <1> SUFFICES ASSUME Init PROVE SignInInv
    OBVIOUS
  <1>1. NotYet \in Request /\ 0 \in Time
    BY Constants DEF NotYet, Request, Labels, Time
  <1>2. \A r \in Requests : req[r].pc = "new" /\ req[r].now <= clock
    BY DEF Init, NotYet
  <1>3. RequestsInv
    <2>1. clock \in Time /\ arrived \in 0 .. MaxRequests /\ mix \in Mixes /\ req \in [Requests -> Request]
      BY <1>1, Constants DEF Init
    <2> QED BY <1>2, <2>1 DEF RequestsInv, ShapeOf
  <1>4. LimitsInv
    <2>1. DOMAIN sources = {} /\ DOMAIN accounts = {} /\ clock = 0 /\ \A s \in Sources : until[s] = 0
      BY DEF Init, Empty
    <2>2. BlockedUntil
      BY <2>1 DEF BlockedUntil
    <2>3. LimitersBounded
      BY <2>1, FS_EmptySet, Constants DEF LimitersBounded
    <2> QED BY <2>1, <2>2, <2>3 DEF Init, Empty, LimitsInv
  <1>5. PoolInv
    <2>1. {r \in Requests : req[r].pc \in {"now", "account"}} = {} /\ running = {} /\ slots = Slots
      BY <1>2 DEF Init
    <2>2. VerifiersBounded
      BY <2>1, FS_EmptySet, Constants DEF VerifiersBounded
    <2> QED BY <2>1, <2>2, Constants DEF PoolInv
  <1>6. CeremonyInv
    <2>1. DOMAIN regs = {} /\ DOMAIN logins = {} /\ DOMAIN consumed = {}
      BY DEF Init, Empty
    <2>2. passkeys \in [mix.held -> Users] /\ mix.held \subseteq Creds
      BY SignInAssumption DEF Init
    <2>3. CeremonyTypes
      BY <2>1, <2>2 DEF Init, Empty, CeremonyTypes
    <2>4. PendingUnused /\ UsedRemembered
      BY <2>1 DEF Init, PendingUnused, UsedRemembered
    <2>5. \A u \in Users : {f \in DOMAIN regs : regs[f].user = u} = {}
      BY <2>1
    <2>6. CeremoniesBounded
      BY <2>1, <2>5, FS_EmptySet, Constants DEF Init, CeremoniesBounded
    <2> QED BY <2>3, <2>4, <2>6 DEF CeremonyInv
  <1> QED BY <1>3, <1>4, <1>5, <1>6 DEF SignInInv

\* Every step keeps the invariant.
LEMMA SignInNext == SignInInv /\ [Next]_vars => SignInInv'
  <1> SUFFICES ASSUME SignInInv, [Next]_vars PROVE SignInInv'
    OBVIOUS
  <1>1. RequestsInv'
    BY RequestsNext DEF SignInInv, CeremonyInv, CeremonyTypes
  <1>2. LimitsInv' /\ CeremonyInv'
    BY LimitsNext, CeremonyNext DEF SignInInv
  <1>3. PoolInv'
    BY <1>1, PoolNext DEF SignInInv
  <1> QED BY <1>1, <1>2, <1>3 DEF SignInInv

\* A source that has used up its budget stays refused to the end of its window
\* whoever else asks, the limiters stay within their bound, and no permit of the
\* verifiers is lost or lent twice (RateLimiter::allow and the login handler in
\* auth.rs), for any number of requests and any limits.
THEOREM LimitsAlwaysHold == Spec => []LimitsHold
  <1>1. SignInInv => LimitsHold
    <2> SUFFICES ASSUME SignInInv PROVE LimitsHold
      OBVIOUS
    <2>1. TypeOK
      BY DEF SignInInv, RequestsInv, LimitsInv, PoolInv, CeremonyInv, CeremonyTypes, TypeOK
    <2>2. BlockedStays
      BY DEF SignInInv, LimitsInv, BlockedUntil, BlockedStays
    <2> QED BY <2>1, <2>2 DEF SignInInv, LimitsInv, PoolInv, LimitsHold
  <1> QED BY <1>1, SignInInit, SignInNext, PTL DEF Spec

\* A passkey ceremony is accepted once and an OIDC state once more for each time it
\* had to be forgotten, and keys, ceremonies and used states stay within their
\* limits (passkeys.rs take, oidc.rs consume), however the requests interleave.
THEOREM CeremoniesAlwaysUsedOnce == Spec => []UsedOnce
  <1>1. SignInInv => UsedOnce
    <2> SUFFICES ASSUME SignInInv PROVE UsedOnce
      OBVIOUS
    <2>1. SingleUse
      BY Constants DEF SignInInv, CeremonyInv, PendingUnused, UsedRemembered, SingleUse
    <2> QED BY <2>1 DEF SignInInv, CeremonyInv, UsedOnce
  <1> QED BY <1>1, SignInInit, SignInNext, PTL DEF Spec

-----------------------------------------------------------------------------
(* The account of a callback, and the path that it returns to.              *)

\* A set of numbers that holds one has a least.
LEMMA SomeLeast ==
  ASSUME NEW S, S \subseteq Nat, S # {} PROVE \E m \in S : \A n \in S : m <= n
  <1> DEFINE f == [x \in S |-> x]
  <1>1. f \in [S -> Nat] OBVIOUS
  <1>2. PICK m \in S : \A n \in S : f[m] <= f[n] BY <1>1, LeastExists
  <1> QED BY <1>2

\* The browser's path is the one that was checked: the text has no fragment.
LEMMA SameCut ==
  ASSUME NEW text \in Seq(STRING), "#" \notin ToSet(text)
  PROVE  SelectInSeq(text, LAMBDA c : c \in {"?", "#"}) = SelectInSeq(text, LAMBDA c : c = "?")
  <1>1. {i \in 1 .. Len(text) : text[i] \in {"?", "#"}} = {i \in 1 .. Len(text) : text[i] = "?"}
    BY DEF ToSet
  <1> QED BY <1>1 DEF SelectInSeq

\* What is before the first "?", all of a text that has none.
PathOf(text) ==
    LET cut == SelectInSeq(text, LAMBDA c : c = "?") IN IF cut = 0 THEN text ELSE SubSeq(text, 1, cut - 1)

\* It is a beginning of the text.
LEMMA PathOfIs ==
  ASSUME NEW text \in Seq(STRING)
  PROVE  /\ PathOf(text) \in Seq(STRING) /\ Len(PathOf(text)) <= Len(text)
         /\ \A i \in 1 .. Len(PathOf(text)) : PathOf(text)[i] = text[i]
  <1> DEFINE S == {i \in 1 .. Len(text) : text[i] = "?"}
             cut == IF S # {} THEN Min(S) ELSE 0
  <1>1. PathOf(text) = IF cut = 0 THEN text ELSE SubSeq(text, 1, cut - 1)
    BY DEF PathOf, SelectInSeq
  <1>2. cut \in 0 .. Len(text)
    <2>1. CASE S # {}
      <3>1. S \subseteq Nat OBVIOUS
      <3>2. \E m \in S : \A n \in S : m <= n BY <2>1, <3>1, SomeLeast
      <3>3. Min(S) \in S BY <3>2 DEF Min
      <3> QED BY <2>1, <3>3
    <2> QED BY <2>1
  <1> HIDE DEF cut
  <1>3. CASE cut = 0 BY <1>1, <1>3
  <1>4. CASE cut # 0
    <2>1. cut - 1 \in 0 .. Len(text) BY <1>2, <1>4
    <2> QED BY <1>1, <1>4, <2>1
  <1> QED BY <1>3, <1>4

\* Two readings of one path: dots of the first are dots of the second.
LEMMA DotsAgree ==
  ASSUME NEW A, NEW B, NEW a \in Seq(A), NEW b \in Seq(B), Len(a) = Len(b),
         \A i \in 1 .. Len(a) : (a[i] = "/" => b[i] = "/") /\ (a[i] = "." => b[i] = "."),
         HasDots(a)
  PROVE  HasDots(b)
  <1>0. DOMAIN a = 1 .. Len(a) /\ DOMAIN b = 1 .. Len(b) /\ Len(a) \in Nat OBVIOUS
  <1>1. PICK i \in 1 .. Len(a) :
          /\ a[i] = "/"
          /\ \/ i < Len(a) /\ a[i + 1] = "." /\ Segment0(a, i + 2)
             \/ i + 1 < Len(a) /\ a[i + 1] = "." /\ a[i + 2] = "." /\ Segment0(a, i + 3)
    BY <1>0 DEF HasDots
  <1>2. \A j \in Nat \ {0} : Segment0(a, j) => Segment0(b, j) BY <1>0 DEF Segment0
  <1>3. CASE i < Len(a) /\ a[i + 1] = "." /\ Segment0(a, i + 2)
    <2>1. i + 1 \in 1 .. Len(a) /\ i + 2 \in Nat \ {0} BY <1>3, <1>0
    <2> QED BY <1>0, <1>1, <1>2, <1>3, <2>1 DEF HasDots
  <1>4. CASE i + 1 < Len(a) /\ a[i + 1] = "." /\ a[i + 2] = "." /\ Segment0(a, i + 3)
    <2>1. i + 1 \in 1 .. Len(a) /\ i + 2 \in 1 .. Len(a) /\ i + 3 \in Nat \ {0} BY <1>4, <1>0
    <2> QED BY <1>0, <1>1, <1>2, <1>4, <2>1 DEF HasDots
  <1> QED BY <1>1, <1>3, <1>4

\* A return path that the service finds safe is one that a browser reads inside the app.
LEMMA SafePathStays ==
  ASSUME NEW text \in Seq(STRING), SafeReturnPath(text)
  PROVE  StaysInApp(text)
  <1> DEFINE path == PathOf(text)
             decoded == Decode(path)
             read == Slashed(path)
             Read == STRING \cup {"."}
             Chars == STRING \cup {"/", "\\", ".", "nl"}
  <1>1. /\ {"\\", "#", "nl", "%"} \cap ToSet(text) = {}
        /\ Rooted(path) /\ Rooted(decoded) /\ ~HasDots(decoded) /\ ~OutsideApp(decoded)
    BY DEF SafeReturnPath, PathOf
  <1>2. read = Slashed(PathPart(text))
    <2>1. "#" \notin ToSet(text) BY <1>1
    <2> QED BY <2>1, SameCut DEF PathPart, PathOf
  <1>3. path \in Seq(STRING) /\ \A i \in 1 .. Len(path) : path[i] \notin {"\\", "nl"}
    <2>1. \A i \in 1 .. Len(text) : text[i] \notin {"\\", "nl"} BY <1>1 DEF ToSet
    <2> QED BY <2>1, PathOfIs
  <1> HIDE DEF path
  <1>4. DOMAIN path = 1 .. Len(path) /\ Len(path) \in Nat BY <1>3
  <1>5. /\ DOMAIN read = 1 .. Len(path)
        /\ \A i \in 1 .. Len(path) : read[i] = IF path[i] = "%2e" THEN "." ELSE path[i]
    BY <1>3, <1>4 DEF Slashed
  <1>6. /\ DOMAIN decoded = 1 .. Len(path)
        /\ \A i \in 1 .. Len(path) : decoded[i] = Decoded(path[i])
    BY <1>4 DEF Decode
  <1>7. read \in Seq(Read) /\ Len(read) = Len(path) /\ read = [i \in 1 .. Len(path) |-> read[i]]
    <2>0. \A i \in 1 .. Len(path) : path[i] \in STRING BY <1>3
    <2>1. \A i \in 1 .. Len(path) : read[i] \in Read BY <2>0, <1>5
    <2> QED BY <1>4, <1>5, <2>1 DEF Slashed
  <1>8. decoded \in Seq(Chars) /\ Len(decoded) = Len(path)
    <2>1. \A i \in 1 .. Len(path) : path[i] \in STRING BY <1>3
    <2>2. \A c \in STRING : Decoded(c) \in Chars BY DEF Decoded
    <2>3. \A i \in 1 .. Len(path) : decoded[i] \in Chars BY <2>1, <2>2, <1>6
    <2> QED BY <1>4, <1>6, <2>3 DEF Decode
  <1> HIDE DEF read, decoded, Read, Chars
  <1>9. \A i \in 1 .. Len(path) : (read[i] = "/" => decoded[i] = "/") /\ (read[i] = "." => decoded[i] = ".")
    BY <1>5, <1>6 DEF Decoded
  <1>10. ~HasDots(read) BY <1>1, <1>7, <1>8, <1>9, DotsAgree
  <1>11. /\ path # <<>> /\ path[1] = "/" /\ Len(path) >= 1 /\ (Len(path) > 1 => path[2] # "/")
    BY <1>1, <1>3, <1>4 DEF Rooted
  <1>12. read[1] = "/" /\ (Len(read) > 1 => read[2] # "/") BY <1>5, <1>7, <1>11
  <1>13. ~(Len(read) > 1 /\ read[2] \in {"api", "health"} /\ Segment0(read, 3))
    <2> SUFFICES ASSUME Len(read) > 1, read[2] \in {"api", "health"}, Segment0(read, 3) PROVE FALSE OBVIOUS
    <2>1. 2 \in 1 .. Len(path) BY <1>7, <1>4
    <2>2. decoded[2] \in {"api", "health"} BY <1>5, <1>6, <2>1 DEF Decoded
    <2>3. Segment0(decoded, 3) BY <1>4, <1>7, <1>8, <1>9 DEF Segment0
    <2> QED BY <1>1, <1>7, <1>8, <2>2, <2>3 DEF OutsideApp
  <1>14. "nl" \notin ToSet(read)
    <2>1. \A i \in 1 .. Len(path) : read[i] # "nl" BY <1>3, <1>5
    <2> QED BY <1>5, <2>1 DEF ToSet
  <1> QED BY <1>2, <1>10, <1>12, <1>13, <1>14 DEF StaysInApp

\* The root of the app is inside it.
LEMMA HomeStays == StaysInApp(<<"/">>)
  <1> DEFINE home == <<"/">>
  <1>1. Len(home) = 1 /\ home[1] = "/" OBVIOUS
  <1>2. PathPart(home) = home
    <2>1. {i \in 1 .. Len(home) : home[i] \in {"?", "#"}} = {} BY <1>1
    <2> QED BY <2>1 DEF PathPart, SelectInSeq
  <1>3. Slashed(home) = home BY DEF Slashed
  <1>4. ~HasDots(home) BY DEF HasDots
  <1>5. "nl" \notin ToSet(home) BY DEF ToSet
  <1> QED BY <1>1, <1>2, <1>3, <1>4, <1>5 DEF StaysInApp

\* What AccountIsTheirs says of the account that a callback signs in.
TheirAccount(q, name) ==
    LET t == q.token
        of(u, email) == u.email # NoEmail /\ u.email.folded = email.folded
        vouched == {e \in {t.email, q.info.email} :
            \/ e = t.email /\ t.email_verified = "true"
            \/ e = q.info.email /\ q.info.email_verified = "true" /\ q.info.sub = t.sub} IN
    /\ t.signedWith = "provider" /\ t.iss = Issuer /\ Client \in ToSet(t.aud) /\ t.nonce = q.nonce
    /\ t.exp + Leeway >= q.now /\ t.email_verified # "false"
    /\ \E e \in vouched : \E i \in DOMAIN q.config.users : LET u == q.config.users[i] IN
         /\ u.name = name /\ of(u, e) /\ ~u.disabled /\ u.subject \in {NoSubject, t.sub}
         /\ \A j \in DOMAIN q.config.users : j # i => ~of(q.config.users[j], e)

\* The email that is vouched for is one of the two that may be, and not of a refused token.
LEMMA VouchedIs ==
  ASSUME NEW q, VouchedEmail(q) # NoEmail
  PROVE  /\ q.token.email_verified # "false"
         /\ \/ VouchedEmail(q) = q.token.email /\ q.token.email_verified = "true"
            \/ VouchedEmail(q) = q.info.email /\ q.info.email_verified = "true" /\ q.info.sub = q.token.sub
  BY DEF VouchedEmail

\* The account that is signed in has the email, is enabled and is bound to no one else.
LEMMA LoginIs ==
  ASSUME NEW users, NEW email, NEW sub, NEW name \in LoginOidc(users, email, sub), name # NoOne
  PROVE  /\ email # NoEmail
         /\ \E i \in DOMAIN users :
              /\ users[i].email # NoEmail /\ Lowercase(users[i].email) = Lowercase(email)
              /\ users[i].name = name /\ ~users[i].disabled /\ users[i].subject \in {NoSubject, sub}
  <1> DEFINE own == {i \in DOMAIN users : users[i].email # NoEmail /\ Lowercase(users[i].email) = Lowercase(email)}
             who(i) == LET u == users[i] IN
                       IF u.disabled \/ (u.subject # NoSubject /\ u.subject # sub) THEN NoOne ELSE u.name
  <1>1. ~(email = NoEmail \/ own = {}) BY DEF LoginOidc
  <1>2. name \in {who(i) : i \in own} BY <1>1 DEF LoginOidc
  <1>3. PICK i \in own : name = who(i) BY <1>2
  <1>4. i \in DOMAIN users /\ users[i].email # NoEmail /\ Lowercase(users[i].email) = Lowercase(email) BY <1>3
  <1> HIDE DEF own
  <1>5. ~(users[i].disabled \/ (users[i].subject # NoSubject /\ users[i].subject # sub)) BY <1>3
  <1>6. users[i].name = name BY <1>3, <1>5
  <1> QED BY <1>1, <1>4, <1>5, <1>6

\* A verified token was signed by a key of the provider, for this client and transaction.
LEMMA VerifyIs ==
  ASSUME NEW q, CallbackQuestion(q), Verify(q)
  PROVE  LET t == q.token IN
         /\ t.signedWith = "provider" /\ t.iss = Issuer /\ Client \in ToSet(t.aud) /\ t.nonce = q.nonce
         /\ t.exp + Leeway >= q.now
  <1>1. PICK key \in KeyOf(q) : key.key = q.token.signedWith BY DEF Verify
  <1>2. key.key = "provider" BY DEF KeyOf, CallbackQuestion
  <1> QED BY <1>1, <1>2 DEF Verify

\* The token, the email and the account of a callback that signs someone in.
LEMMA CallbackSignsIn ==
  ASSUME NEW q, CallbackQuestion(q), ValidateUsers(q.config), Verify(q),
         NEW name \in LoginOidc(q.config.users, VouchedEmail(q), q.token.sub), name # NoOne
  PROVE  TheirAccount(q, name)
  <1> DEFINE users == q.config.users
             e == VouchedEmail(q)
             t == q.token
  <1>1. PICK i \in DOMAIN users :
          /\ users[i].email # NoEmail /\ Lowercase(users[i].email) = Lowercase(e)
          /\ users[i].name = name /\ ~users[i].disabled /\ users[i].subject \in {NoSubject, t.sub}
    BY LoginIs
  <1>2. e # NoEmail BY LoginIs
  <1>3. /\ t.email_verified # "false"
        /\ \/ e = t.email /\ t.email_verified = "true"
           \/ e = q.info.email /\ q.info.email_verified = "true" /\ q.info.sub = t.sub
    BY <1>2, VouchedIs
  <1> HIDE DEF e
  <1>4. \A a, b : Lowercase(a) = Lowercase(b) <=> a.folded = b.folded
    <2> SUFFICES ASSUME NEW a, NEW b PROVE Lowercase(a) = Lowercase(b) <=> a.folded = b.folded OBVIOUS
    <2>1. Lowercase(a).folded = a.folded /\ Lowercase(b).folded = b.folded BY DEF Lowercase
    <2>2. a.folded = b.folded => Lowercase(a) = Lowercase(b) BY DEF Lowercase
    <2> QED BY <2>1, <2>2
  <1>5. users[i].email.folded = e.folded BY <1>1, <1>4
  <1>6. \A j \in DOMAIN users : j # i => ~(users[j].email # NoEmail /\ users[j].email.folded = e.folded)
    <2> SUFFICES ASSUME NEW j \in DOMAIN users, j # i, users[j].email # NoEmail, users[j].email.folded = e.folded
                 PROVE FALSE
      OBVIOUS
    <2>1. Lowercase(users[i].email) = Lowercase(users[j].email) BY <1>4, <1>5
    <2>2. EmailsDistinct(users) BY DEF ValidateUsers
    <2> QED BY <1>1, <2>1, <2>2 DEF EmailsDistinct
  <1>7. e \in {t.email, q.info.email} BY <1>3
  <1> QED BY <1>1, <1>3, <1>5, <1>6, <1>7, VerifyIs DEF TheirAccount

\* The question never changes, and what is answered is theirs.
AccountInv == CallbackQuestion(question) /\ AccountIsTheirs

\* The whole handler: who is signed in, and where to.
LEMMA CallbackKeepsIt ==
  ASSUME AccountInv, Callback PROVE AccountInv'
  <1> DEFINE q == question
             ok == (ValidateUsers(q.config) /\ Discovered(q.provider)) /\ q.exchanged /\ Verify(q)
  <1>1. PICK user \in (IF ok THEN LoginOidc(q.config.users, VouchedEmail(q), q.token.sub) ELSE {NoOne}) :
          Reply([pc |-> "done", user |-> user,
                 location |-> IF user # NoOne /\ SafeReturnPath(q.returnTo) THEN q.returnTo ELSE <<"/">>])
    BY DEF Callback
  <1>2. CallbackQuestion(question) BY DEF AccountInv
  <1>3. question' = question BY <1>1 DEF Reply
  <1>4. /\ Now'.user = user
        /\ Now'.location = IF user # NoOne /\ SafeReturnPath(q.returnTo) THEN q.returnTo ELSE <<"/">>
    BY <1>1 DEF Reply, Now
  <1>5. user # NoOne => TheirAccount(question, user)
    <2> SUFFICES ASSUME user # NoOne PROVE TheirAccount(question, user) OBVIOUS
    <2>1. ok BY <1>1
    <2> QED BY <1>1, <1>2, <2>1, CallbackSignsIn
  <1>6. StaysInApp(Now'.location)
    <2>1. CASE user # NoOne /\ SafeReturnPath(question.returnTo)
      <3>1. question.returnTo \in Seq(STRING) BY <1>2 DEF CallbackQuestion
      <3>2. StaysInApp(question.returnTo) BY <2>1, <3>1, SafePathStays
      <3> QED BY <1>4, <2>1, <3>2
    <2>2. CASE ~(user # NoOne /\ SafeReturnPath(question.returnTo))
      <3>1. Now'.location = <<"/">> BY <1>4, <2>2
      <3> QED BY <3>1, HomeStays
    <2> QED BY <2>1, <2>2
  <1>7. AccountIsTheirs'
    <2>1. /\ Now'.user # NoOne => TheirAccount(question, Now'.user)
          /\ StaysInApp(Now'.location)
      BY <1>4, <1>5, <1>6
    <2> QED BY <1>3, <2>1 DEF AccountIsTheirs, TheirAccount
  <1> QED BY <1>2, <1>3, <1>7 DEF AccountInv

\* A callback signs in only the account whose email the provider vouches for, and
\* sends the browser nowhere but into the app (OidcService::complete and verify in
\* oidc.rs, login_oidc in auth.rs), for any token, keys, configuration and return path.
THEOREM AccountAlwaysTheirs == CallbackSpec => []AccountIsTheirs
  <1>1. AnyCallback => AccountInv BY DEF AnyCallback, AccountInv, AccountIsTheirs, Done
  <1>2. AccountInv /\ [IdentityStep]_<<question, answer>> => AccountInv'
    <2> SUFFICES ASSUME AccountInv, [IdentityStep]_<<question, answer>> PROVE AccountInv' OBVIOUS
    <2>1. CASE Callback BY <2>1, CallbackKeepsIt
    <2>2. CASE LoadConfig BY <2>2 DEF LoadConfig, Asked, AccountInv, CallbackQuestion
    <2>3. CASE UNCHANGED <<question, answer>>
      <3>1. Now' = Now /\ question' = question /\ (Done("callback"))' = Done("callback") BY <2>3 DEF Now, Done
      <3> QED BY SMTT(30), <3>1 DEF AccountInv, AccountIsTheirs
    <2> QED BY <2>1, <2>2, <2>3 DEF IdentityStep
  <1>3. AccountInv => AccountIsTheirs BY DEF AccountInv
  <1> QED BY <1>1, <1>2, <1>3, PTL DEF CallbackSpec

-----------------------------------------------------------------------------
(* The settings of an account, and the requests that change and read them.   *)

\* The greatest number of a set up to n is one of them.
LEMMA GreatestIs ==
  ASSUME NEW n \in Nat, NEW S, S \subseteq 1 .. n, S # {}
  PROVE  Max(S) \in S /\ \A x \in S : x <= Max(S)
  <1> DEFINE f == [x \in S |-> n - x]
  <1>1. f \in [S -> Nat] OBVIOUS
  <1>2. PICK m \in S : \A x \in S : f[m] <= f[x] BY <1>1, LeastExists
  <1>3. \A x \in S : x <= m BY <1>2
  <1>4. \E x \in S : \A y \in S : x >= y BY <1>3
  <1>5. Max(S) \in S /\ \A y \in S : Max(S) >= y BY <1>4 DEF Max
  <1> QED BY <1>5

\* The settings by name.
Settings == DOMAIN DisplayDefaults

\* The display settings have their names, of which none is the start folder's.
LEMMA DefaultsAre ==
  /\ DisplayDefaults = [f \in Settings |-> DisplayDefaults[f]]
  /\ "folder" \notin Settings
  BY DEF DisplayDefaults, Settings

\* What was set by the first changes stays what it was, and the last change comes on top.
LEMMA SetByAppend ==
  ASSUME NEW row, NEW A, NEW log \in Seq(A), NEW c, NEW f
  PROVE  LET new == Append(log, c) IN
         /\ \A n \in 0 .. Len(log) : SetBy(row, new, n, f) = SetBy(row, log, n, f)
         /\ SetBy(row, new, Len(new), f) = IF f \in DOMAIN c THEN c[f] ELSE SetBy(row, log, Len(log), f)
  <1> DEFINE new == Append(log, c)
             L == Len(log)
             named(s, n) == {k \in 1 .. n : f \in DOMAIN s[k]}
  <1>1. L \in Nat /\ Len(new) = L + 1 /\ new[L + 1] = c /\ \A k \in 1 .. L : new[k] = log[k] OBVIOUS
  <1>2. \A s, n : SetBy(row, s, n, f) = IF named(s, n) = {} THEN AtFirst(row, f) ELSE s[Max(named(s, n))][f] BY DEF SetBy
  <1> HIDE DEF new, L
  <1>3. ASSUME NEW n \in 0 .. L PROVE SetBy(row, new, n, f) = SetBy(row, log, n, f)
    <2>0. \A k \in 1 .. n : new[k] = log[k] BY <1>1
    <2>1. named(new, n) = named(log, n) BY <2>0
    <2>2. CASE named(log, n) = {} BY <1>2, <2>1, <2>2
    <2>3. CASE named(log, n) # {}
      <3> DEFINE S == named(log, n)
      <3>0. n \in Nat /\ S \subseteq 1 .. n BY <1>1
      <3> HIDE DEF S
      <3>1. Max(S) \in S BY <2>3, <3>0, GreatestIs DEF S
      <3>2. new[Max(S)] = log[Max(S)] BY <2>0, <3>0, <3>1
      <3> QED BY <1>2, <2>1, <2>3, <3>2 DEF S
    <2> QED BY <2>2, <2>3
  <1>4. SetBy(row, new, L + 1, f) = IF f \in DOMAIN c THEN c[f] ELSE SetBy(row, log, L, f)
    <2>1. CASE f \in DOMAIN c
      <3> DEFINE S == named(new, L + 1)
      <3>1. L + 1 \in S /\ S \subseteq 1 .. L + 1 BY <1>1, <2>1
      <3> HIDE DEF S
      <3> DEFINE m == L + 1
      <3>5. m \in Nat /\ m \in S /\ S \subseteq 1 .. m BY <1>1, <3>1
      <3> HIDE DEF m
      <3>2. Max(S) \in S /\ m <= Max(S) BY <3>5, GreatestIs
      <3>6. Max(S) \in 1 .. m BY <3>2, <3>5
      <3>3. Max(S) = L + 1 BY <3>5, <3>2, <3>6 DEF m
      <3>4. S # {} BY <3>1
      <3> QED BY <1>1, <1>2, <2>1, <3>3, <3>4 DEF S
    <2>2. CASE f \notin DOMAIN c
      <3>1. named(new, L + 1) = named(new, L) BY <1>1, <2>2
      <3>2. SetBy(row, new, L + 1, f) = SetBy(row, new, L, f) BY <1>2, <3>1
      <3> QED BY <1>1, <1>3, <2>2, <3>2
    <2> QED BY <2>1, <2>2
  <1> QED BY <1>1, <1>3, <1>4 DEF new, L

\* A row that is dropped reads as one that is not there.
LEMMA DeleteIs ==
  ASSUME NEW folder, NEW display, display = [f \in Settings |-> display[f]],
         folder.share = "" => folder = NoFolder
  PROVE  /\ IsRow(DeleteDefaultPreferences(Row(folder, display)))
         /\ DefaultFolder(DeleteDefaultPreferences(Row(folder, display))) = IF folder.share = "" THEN <<>> ELSE <<folder>>
         /\ ReadDisplayPreferences(DeleteDefaultPreferences(Row(folder, display))) = display
         /\ ReadDisplayPreferences(Row(folder, display)) = display
  <1> DEFINE row == Row(folder, display)
             new == DeleteDefaultPreferences(row)
  <1>1. row # <<>> /\ row[1].folder = folder /\ row[1].display = display BY DEF Row
  <1> HIDE DEF row
  <1>2. /\ DefaultFolder(row) = (IF folder.share = "" THEN <<>> ELSE <<folder>>)
        /\ ReadDisplayPreferences(row) = display
    BY <1>1 DEF DefaultFolder, ReadDisplayPreferences
  <1>3. CASE folder.share = "" /\ display = DisplayDefaults
    <2>1. new = <<>> BY <1>1, <1>3 DEF DeleteDefaultPreferences
    <2>2. DefaultFolder(<<>>) = <<>> /\ ReadDisplayPreferences(<<>>) = DisplayDefaults /\ IsRow(<<>>)
      BY DEF DefaultFolder, ReadDisplayPreferences, IsRow
    <2> HIDE DEF new
    <2> QED BY <1>2, <1>3, <2>1, <2>2 DEF row, new
  <1>4. CASE ~(folder.share = "" /\ display = DisplayDefaults)
    <2>1. new = row BY <1>1, <1>4 DEF DeleteDefaultPreferences
    <2>2. row = Row(row[1].folder, row[1].display) BY <1>1 DEF row
    <2>3. IsRow(row) BY <1>1, <1>4, <2>2 DEF IsRow, Settings
    <2> HIDE DEF new
    <2> QED BY <1>2, <2>1, <2>3 DEF row, new
  <1> QED BY <1>3, <1>4

\* The display settings of a row are one for each name.
LEMMA RowReads ==
  ASSUME NEW row, IsRow(row)
  PROVE  ReadDisplayPreferences(row) = [f \in Settings |-> ReadDisplayPreferences(row)[f]]
  <1>1. CASE row = <<>> BY <1>1, DefaultsAre DEF ReadDisplayPreferences
  <1>2. CASE row # <<>> BY <1>2 DEF ReadDisplayPreferences, IsRow, Settings
  <1> QED BY <1>1, <1>2

\* The start folder is set, and the display settings are left alone.
LEMMA SetDefaultFolderIs ==
  ASSUME NEW row, IsRow(row), NEW folder, IsFolder(folder), folder # <<>> => folder[1].share # ""
  PROVE  LET new == SetDefaultFolder(row, folder) IN
         /\ IsRow(new) /\ DefaultFolder(new) = folder
         /\ ReadDisplayPreferences(new) = ReadDisplayPreferences(row)
  <1> DEFINE new == SetDefaultFolder(row, folder)
             display == IF row = <<>> THEN DisplayDefaults ELSE row[1].display
  <1>1. ReadDisplayPreferences(row) = display /\ display = [f \in Settings |-> display[f]]
    BY RowReads DEF ReadDisplayPreferences
  <1> HIDE DEF display
  <1>2. CASE folder # <<>>
    <2>1. new = Row(folder[1], display) BY <1>2 DEF SetDefaultFolder, display
    <2>2. Row(folder[1], display)[1].folder = folder[1] /\ Row(folder[1], display)[1].display = display
          /\ Row(folder[1], display) # <<>>
      BY DEF Row
    <2> DEFINE there == Row(folder[1], display)
    <2>5. there = Row(there[1].folder, there[1].display) BY <2>2
    <2> HIDE DEF there
    <2>3. IsRow(there) BY <1>1, <1>2, <2>2, <2>5 DEF IsRow, Settings, there
    <2>4. DefaultFolder(there) = folder /\ ReadDisplayPreferences(there) = display
      BY <1>2, <2>2 DEF IsFolder, DefaultFolder, ReadDisplayPreferences, there
    <2> QED BY <1>1, <2>1, <2>3, <2>4 DEF there
  <1>3. CASE folder = <<>> /\ row = <<>>
    <2>1. new = <<>> BY <1>3 DEF SetDefaultFolder, DeleteDefaultPreferences
    <2>2. DefaultFolder(<<>>) = <<>> BY DEF DefaultFolder
    <2> QED BY <1>3, <2>1, <2>2
  <1>4. CASE folder = <<>> /\ row # <<>>
    <2>1. new = DeleteDefaultPreferences(Row(NoFolder, display)) BY <1>4 DEF SetDefaultFolder, display
    <2>2. NoFolder.share = "" BY DEF NoFolder
    <2> QED BY <1>1, <1>4, <2>1, <2>2, DeleteIs
  <1> QED BY <1>2, <1>3, <1>4

\* The display settings that are named are set, and the start folder is left alone.
LEMMA UpdateDisplayIs ==
  ASSUME NEW row, IsRow(row), NEW update
  PROVE  LET u == UpdateDisplay(row, update) IN
         /\ IsRow(u.row) /\ DefaultFolder(u.row) = DefaultFolder(row)
         /\ ReadDisplayPreferences(u.row) = Over(update, ReadDisplayPreferences(row))
         /\ u.saved = ReadDisplayPreferences(u.row)
  <1> DEFINE u == UpdateDisplay(row, update)
             old == ReadDisplayPreferences(row)
             display == Over(update, old)
             folder == IF row = <<>> THEN NoFolder ELSE row[1].folder
             updated == Row(folder, display)
  <1>1. old = [f \in Settings |-> old[f]] BY RowReads
  <1>2. display = [f \in Settings |-> display[f]] BY <1>1 DEF Over
  <1>3. updated = IF row = <<>> THEN Row(NoFolder, Over(update, DisplayDefaults))
                  ELSE Row(row[1].folder, Over(update, row[1].display))
    BY DEF ReadDisplayPreferences
  <1>4. folder.share = "" => folder = NoFolder BY DEF IsRow
  <1>5. DefaultFolder(row) = IF folder.share = "" THEN <<>> ELSE <<folder>>
    BY DEF DefaultFolder, NoFolder
  <1>6. u.saved = ReadDisplayPreferences(updated) /\ u.row = DeleteDefaultPreferences(updated)
    BY <1>3 DEF UpdateDisplay
  <1> HIDE DEF display, folder, u, old, updated
  <1>8. /\ IsRow(DeleteDefaultPreferences(updated))
        /\ DefaultFolder(DeleteDefaultPreferences(updated)) = IF folder.share = "" THEN <<>> ELSE <<folder>>
        /\ ReadDisplayPreferences(DeleteDefaultPreferences(updated)) = display
        /\ ReadDisplayPreferences(updated) = display
    BY <1>2, <1>4, DeleteIs DEF updated
  <1>7. /\ IsRow(u.row) /\ DefaultFolder(u.row) = DefaultFolder(row)
        /\ ReadDisplayPreferences(u.row) = display /\ u.saved = display
    BY <1>5, <1>6, <1>8
  <1> QED BY <1>7 DEF u, display, old

\* A sequence with one change more.
LEMMA AppendIs ==
  ASSUME NEW A, NEW log \in Seq(A), NEW c
  PROVE  Len(Append(log, c)) \in Nat /\ Append(log, c) \in Seq(ToSet(Append(log, c)))
  <1> DEFINE new == Append(log, c)
             S == ToSet(new)
  <1>1. log \in Seq(A \cup {c}) OBVIOUS
  <1>2. new \in Seq(A \cup {c}) BY <1>1
  <1> HIDE DEF new
  <1>3. \A k \in 1 .. Len(new) : new[k] \in S BY <1>2 DEF ToSet
  <1> HIDE DEF S
  <1>4. new \in Seq(S) BY <1>2, <1>3
  <1>5. Len(new) \in Nat BY <1>2
  <1> QED BY <1>4, <1>5 DEF new, S

\* A moment and a later one: changes are only added, and folders only go.
Later(q, s, t) ==
    /\ Len(s.log) \in Nat /\ Len(t.log) \in Nat /\ Len(s.log) <= Len(t.log) /\ t.dirs \subseteq s.dirs
    /\ \A f : \A n \in 0 .. Len(s.log) : SetBy(q.row, t.log, n, f) = SetBy(q.row, s.log, n, f)

\* A change is added at most.
LEMMA LaterIs ==
  ASSUME NEW q, NEW A, NEW s, s.log \in Seq(A), NEW t, t.dirs \subseteq s.dirs,
         t.log = s.log \/ \E c : t.log = Append(s.log, c)
  PROVE  Later(q, s, t)
  <1>1. CASE t.log = s.log BY <1>1 DEF Later
  <1>2. ASSUME NEW c, t.log = Append(s.log, c) PROVE Later(q, s, t)
    <2>1. Len(s.log) \in Nat /\ Len(t.log) = Len(s.log) + 1 BY <1>2
    <2>2. \A f : \A n \in 0 .. Len(s.log) : SetBy(q.row, Append(s.log, c), n, f) = SetBy(q.row, s.log, n, f)
      BY SetByAppend
    <2> QED BY <1>2, <2>1, <2>2 DEF Later
  <1> QED BY <1>1, <1>2

\* A folder that was set while a request ran was so later, and when it has run on.
LEMMA WasSetOn ==
  ASSUME NEW q, NEW s, NEW t, NEW i, Later(q, s, t), t.began[i] = s.began[i], s.began[i].log \in 0 .. Len(s.log),
         NEW folder, NEW to \in 0 .. Len(s.log), NEW end \in to .. Len(t.log), WasSet(q, s, i, folder, to)
  PROVE  WasSet(q, t, i, folder, end)
  <1>1. PICK n \in s.began[i].log .. to : SetBy(q.row, s.log, n, "folder") = folder BY DEF WasSet
  <1>2. n \in 0 .. Len(s.log) /\ n \in t.began[i].log .. end BY <1>1 DEF Later
  <1>3. SetBy(q.row, t.log, n, "folder") = folder BY <1>1, <1>2 DEF Later
  <1> QED BY <1>2, <1>3 DEF WasSet

\* A moment without a folder to answer stays one, and when fewer folders are left.
LEMMA NoneFitsOn ==
  ASSUME NEW q, NEW s, NEW t, NEW i, Later(q, s, t), t.began[i] = s.began[i], s.began[i].log \in 0 .. Len(s.log),
         NEW to \in 0 .. Len(s.log), NEW end \in to .. Len(t.log), NEW dirs, NEW left, left \subseteq dirs,
         NoneFits(q, s, i, to, dirs)
  PROVE  NoneFits(q, t, i, end, left)
  <1>1. PICK n \in s.began[i].log .. to :
          SetBy(q.row, s.log, n, "folder") # <<>> => ~ValidDefaultFolder(q.granted, SetBy(q.row, s.log, n, "folder")[1], dirs)
    BY DEF NoneFits
  <1>2. n \in 0 .. Len(s.log) /\ n \in t.began[i].log .. end BY <1>1 DEF Later
  <1>3. SetBy(q.row, t.log, n, "folder") = SetBy(q.row, s.log, n, "folder") BY <1>2 DEF Later
  <1>4. \A folder : ValidDefaultFolder(q.granted, folder, left) => ValidDefaultFolder(q.granted, folder, dirs) BY DEF ValidDefaultFolder
  <1> QED BY <1>1, <1>2, <1>3, <1>4 DEF NoneFits

\* What a request knows stays true while others change the settings and folders go.
LEMMA FollowsOn ==
  ASSUME NEW q, NEW s, NEW t, NEW i, Follows(q, s, i), Later(q, s, t), t.at[i] = s.at[i], t.seen[i] = s.seen[i],
         t.began[i] = s.began[i], t.result[i] = s.result[i]
  PROVE  Follows(q, t, i)
  <1> DEFINE a == s.result[i]
             b == s.began[i]
             L == Len(s.log)
  <1>1. /\ b.log \in 0 .. L /\ a.log \in 0 .. L /\ L \in Nat /\ Len(t.log) \in Nat /\ L <= Len(t.log)
        /\ s.dirs \subseteq b.dirs /\ t.dirs \subseteq s.dirs
    BY DEF Follows, Later
  <1>2. L \in 0 .. L /\ Len(t.log) \in L .. Len(t.log) /\ a.log \in a.log .. Len(t.log) BY <1>1
  <1>3. \A folder : WasSet(q, s, i, folder, L) => WasSet(q, t, i, folder, Len(t.log)) BY <1>1, <1>2, WasSetOn
  <1>4. \A folder : WasSet(q, s, i, folder, a.log) => WasSet(q, t, i, folder, a.log)
    <2> DEFINE to == a.log
    <2>1. to \in 0 .. L /\ to \in to .. Len(t.log) /\ b.log \in 0 .. L BY <1>1, <1>2
    <2> HIDE DEF to
    <2>2. ASSUME NEW folder, WasSet(q, s, i, folder, to) PROVE WasSet(q, t, i, folder, to)
      BY <2>1, <2>2, WasSetOn
    <2> QED BY <2>2 DEF to
  <1>5. NoneFits(q, s, i, L, s.dirs) => NoneFits(q, t, i, Len(t.log), t.dirs) BY <1>1, <1>2, NoneFitsOn
  <1>6. \A dirs : NoneFits(q, s, i, a.log, dirs) => NoneFits(q, t, i, a.log, dirs)
    <2> DEFINE to == a.log
    <2>1. to \in 0 .. L /\ to \in to .. Len(t.log) BY <1>1, <1>2
    <2> HIDE DEF to
    <2>2. \A dirs : NoneFits(q, s, i, to, dirs) => NoneFits(q, t, i, to, dirs)
      <3> TAKE dirs
      <3> QED BY <1>1, <2>1, NoneFitsOn
    <2> QED BY <2>2 DEF to
  <1>7. \A folder : CouldBe(q, s, i, folder) => CouldBe(q, t, i, folder) BY DEF CouldBe
  <1>8. Display(q.row, t.log, a.log) = Display(q.row, s.log, a.log) BY <1>1 DEF Display, Later
  <1>9. b.log \in 0 .. Len(t.log) /\ a.log \in 0 .. Len(t.log) /\ t.dirs \subseteq b.dirs BY <1>1
  <1>10. /\ t.at[i] \in {"start", "store", "judge", "display", "end"}
         /\ t.at[i] # "end" => a.kind = "none"
         /\ t.at[i] = "store" => q.requests[i].kind = "folder"
              /\ (q.requests[i].folder # <<>> => q.requests[i].folder[1].share # "")
    BY DEF Follows
  <1>11. t.at[i] = "judge" => t.seen[i] # <<>> /\ WasSet(q, t, i, t.seen[i], Len(t.log)) BY <1>3 DEF Follows
  <1>12. t.at[i] = "display" =>
           IF t.seen[i] = <<>> THEN NoneFits(q, t, i, Len(t.log), t.dirs)
           ELSE WasSet(q, t, i, t.seen[i], Len(t.log)) /\ CouldBe(q, t, i, t.seen[i])
    BY <1>3, <1>5, <1>7 DEF Follows
  <1>13. a.kind \in {"display", "session"} => a.display = Display(q.row, t.log, a.log) BY <1>8 DEF Follows
  <1>14. a.kind = "session" =>
           IF a.folder = <<>> THEN NoneFits(q, t, i, a.log, a.dirs)
           ELSE WasSet(q, t, i, a.folder, a.log) /\ CouldBe(q, t, i, a.folder)
    BY <1>4, <1>6, <1>7 DEF Follows
  <1> QED BY <1>9, <1>10, <1>11, <1>12, <1>13, <1>14 DEF Follows

Asks == DOMAIN question.requests
IsState(t) == t = [f \in SettingsState |-> t[f]]
PerAsk(h) == h = [i \in Asks |-> h[i]]

\* What the invariant says of a run that has begun.
LEMMA NowIs ==
  ASSUME SettingsInv, answer # <<>>
  PROVE  /\ SettingsQuestion(question) /\ answer = <<Now>> /\ SettingsSound(question, Now)
         /\ IsState(Now)
         /\ PerAsk(Now.at) /\ PerAsk(Now.seen)
         /\ PerAsk(Now.began) /\ PerAsk(Now.result)
         /\ Stored(question, Now) /\ Now.log \in Seq(ToSet(Now.log)) /\ Len(Now.log) \in Nat
         /\ \A i \in Asks : Follows(question, Now, i)
  BY DEF SettingsInv, SettingsSound, Asks, PerAsk, IsState

\* A step of one request, or of none, that leaves a sound store.
LEMMA SettingsMove ==
  ASSUME SettingsInv, answer # <<>>, NEW t, Reply(t), IsState(t),
         t.pc \in {"run", "done"}, t.dirs \subseteq Now.dirs,
         t.log = Now.log \/ (\E c : t.log = Append(Now.log, c)), Stored(question, t),
         PerAsk(t.at), PerAsk(t.seen),
         PerAsk(t.began), PerAsk(t.result),
         \A i \in Asks :
            \/ Follows(question, t, i)
            \/ t.at[i] = Now.at[i] /\ t.seen[i] = Now.seen[i] /\ t.began[i] = Now.began[i] /\ t.result[i] = Now.result[i]
  PROVE  SettingsInv'
  <1>1. question' = question /\ answer' = <<t>> /\ Now' = t BY DEF Reply, Now
  <1>2. Later(question, Now, t) BY NowIs, LaterIs
  <1>3. \A i \in Asks : Follows(question, t, i) BY <1>2, NowIs, FollowsOn
  <1>4. Len(t.log) \in Nat /\ t.log \in Seq(ToSet(t.log))
    <2>1. CASE t.log = Now.log BY <2>1, NowIs
    <2>2. ASSUME NEW c, t.log = Append(Now.log, c) PROVE Len(t.log) \in Nat /\ t.log \in Seq(ToSet(t.log))
      <3>1. Now.log \in Seq(ToSet(Now.log)) BY NowIs
      <3>2. Len(Append(Now.log, c)) \in Nat /\ Append(Now.log, c) \in Seq(ToSet(Append(Now.log, c)))
        BY <3>1, AppendIs
      <3> QED BY <2>2, <3>2
    <2> QED BY <2>1, <2>2
  <1> HIDE DEF Asks
  <1>5. \A h \in {t.at, t.seen, t.began, t.result} : PerAsk(h) OBVIOUS
  <1>6. SettingsSound(question, t) BY <1>3, <1>4, <1>5 DEF SettingsSound, Asks, PerAsk, IsState
  <1>7. (SettingsSound(question, Now))' BY <1>1, <1>6
  <1> QED BY <1>1, <1>7, NowIs DEF SettingsInv

\* At first the settings are as the row has them.
LEMMA BeginKeeps == ASSUME SettingsInv, BeginPreferences PROVE SettingsInv'
  <1> DEFINE none == Answer("none", <<>>, DisplayDefaults, <<>>, question.dirs)
             began == [log |-> 0, dirs |-> question.dirs]
             t == [pc |-> "run", row |-> question.row, dirs |-> question.dirs, log |-> <<>>,
                   at |-> [i \in Asks |-> "start"], seen |-> [i \in Asks |-> <<>>],
                   began |-> [i \in Asks |-> began], result |-> [i \in Asks |-> none]]
  <1>1. Reply(t) /\ SettingsQuestion(question) BY DEF BeginPreferences, Asks, SettingsInv
  <1>2. /\ IsState(t) /\ t.pc = "run" /\ t.row = question.row /\ t.dirs = question.dirs
        /\ t.log = <<>> /\ t.at = [i \in Asks |-> "start"] /\ t.seen = [i \in Asks |-> <<>>]
        /\ t.began = [i \in Asks |-> began] /\ t.result = [i \in Asks |-> none]
    BY DEF IsState, SettingsState
  <1> HIDE DEF t
  <1>3. none.kind = "none" /\ none.log = 0 BY DEF Answer
  <1>4. began.log = 0 /\ began.dirs = question.dirs OBVIOUS
  <1> HIDE DEF none, began
  <1>5. ASSUME NEW i \in Asks PROVE Follows(question, t, i)
    <2>1. t.at[i] = "start" /\ t.began[i] = began /\ t.result[i] = none /\ Len(t.log) = 0 BY <1>2
    <2> QED BY <1>2, <1>3, <1>4, <2>1 DEF Follows
  <1>6. Stored(question, t)
    <2>1. \A f : SetBy(question.row, <<>>, 0, f) = AtFirst(question.row, f) BY DEF SetBy
    <2>2. Display(question.row, <<>>, 0) = ReadDisplayPreferences(question.row)
      <3>1. ReadDisplayPreferences(question.row) = [f \in Settings |-> ReadDisplayPreferences(question.row)[f]]
        BY <1>1, RowReads DEF SettingsQuestion
      <3>2. \A f \in Settings : SetBy(question.row, <<>>, 0, f) = ReadDisplayPreferences(question.row)[f]
        <4>1. \A f \in Settings : f # "folder" BY DefaultsAre
        <4> QED BY <2>1, <4>1 DEF AtFirst
      <3>3. Display(question.row, <<>>, 0) = [f \in Settings |-> SetBy(question.row, <<>>, 0, f)]
        BY DEF Display, Settings
      <3> QED BY <3>1, <3>2, <3>3
    <2>3. SetBy(question.row, <<>>, 0, "folder") = DefaultFolder(question.row) BY <2>1 DEF AtFirst
    <2>4. IsRow(question.row) BY <1>1 DEF SettingsQuestion
    <2> QED BY <1>2, <2>2, <2>3, <2>4 DEF Stored
  <1>7. \A h \in {t.at, t.seen, t.began, t.result} : PerAsk(h) BY <1>2 DEF PerAsk
  <1>8. t.log \in Seq(ToSet(t.log))
    <2>1. \A S : <<>> \in Seq(S) OBVIOUS
    <2> QED BY <1>2, <2>1
  <1>9. SettingsSound(question, t) BY <1>2, <1>5, <1>6, <1>7, <1>8 DEF SettingsSound, Asks, PerAsk, IsState
  <1>10. question' = question /\ answer' = <<t>> /\ Now' = t BY <1>1 DEF Reply, Now
  <1>11. (SettingsSound(question, Now))' BY <1>9, <1>10
  <1> QED BY <1>1, <1>10, <1>11 DEF SettingsInv

\* A folder that goes changes no setting.
LEMMA FolderGoesKeeps == ASSUME SettingsInv, FolderGoes PROVE SettingsInv'
  <1>1. answer # <<>> BY DEF FolderGoes, Under
  <1>2. PICK d \in Now.dirs : Reply([Now EXCEPT !.dirs = @ \ {d}]) BY DEF FolderGoes
  <1> DEFINE t == [Now EXCEPT !.dirs = @ \ {d}]
  <1>3. /\ IsState(t) /\ t.pc = Now.pc /\ t.row = Now.row /\ t.dirs = Now.dirs \ {d}
        /\ t.log = Now.log /\ t.at = Now.at /\ t.seen = Now.seen /\ t.began = Now.began /\ t.result = Now.result
    BY <1>1, NowIs DEF IsState, SettingsState
  <1>4. Reply(t) BY <1>2
  <1> HIDE DEF t
  <1>5. Stored(question, t) BY <1>1, <1>3, NowIs DEF Stored
  <1>6. Now.pc \in {"run", "done"} BY <1>1, NowIs DEF SettingsSound
  <1> QED BY <1>1, <1>3, <1>4, <1>5, <1>6, NowIs, SettingsMove

\* What a request that has its answer leaves.
LEMMA EndIs ==
  ASSUME SettingsInv, answer # <<>>, NEW i \in Asks, NEW s, IsState(s),
         PerAsk(s.at), PerAsk(s.result), NEW a, End(s, i, a)
  PROVE  \E t : /\ Reply(t) /\ IsState(t) /\ t.pc \in {"run", "done"}
                /\ t.row = s.row /\ t.dirs = s.dirs /\ t.log = s.log /\ t.seen = s.seen /\ t.began = s.began
                /\ PerAsk(t.at) /\ PerAsk(t.result) /\ t.at[i] = "end" /\ t.result[i] = a
                /\ \A j \in Asks : j # i => t.at[j] = s.at[j] /\ t.result[j] = s.result[j]
  <1> DEFINE at == [s.at EXCEPT ![i] = "end"]
             p == IF \A j \in DOMAIN at : at[j] = "end" THEN "done" ELSE "run"
             t == [s EXCEPT !.at = at, !.result[i] = a, !.pc = p]
  <1>1. Reply(t) BY DEF End
  <1>2. p \in {"run", "done"} OBVIOUS
  <1> HIDE DEF at, p
  <1>3. /\ IsState(t) /\ t.pc = p
        /\ t.row = s.row /\ t.dirs = s.dirs /\ t.log = s.log /\ t.seen = s.seen /\ t.began = s.began
        /\ t.at = at /\ t.result = [s.result EXCEPT ![i] = a]
    BY DEF IsState, SettingsState
  <1> HIDE DEF t
  <1> DEFINE result == [s.result EXCEPT ![i] = a]
  <1>4. /\ PerAsk(at) /\ PerAsk(result) /\ at[i] = "end" /\ result[i] = a
        /\ \A j \in Asks : j # i => at[j] = s.at[j] /\ result[j] = s.result[j]
    BY DEF PerAsk, at
  <1> HIDE DEF result
  <1>5. t.at = at /\ t.result = result BY <1>3 DEF result
  <1> QED BY <1>1, <1>2, <1>3, <1>4, <1>5

\* The step with which a request ends, be it refused or answered.
LEMMA EndKeeps ==
  ASSUME SettingsInv, answer # <<>>, NEW i \in Asks, NEW s, IsState(s),
         s.at = Now.at, s.result = Now.result, s.seen = Now.seen, s.dirs = Now.dirs,
         PerAsk(s.began), \A j \in Asks : j # i => s.began[j] = Now.began[j],
         s.log = Now.log \/ (\E c : s.log = Append(Now.log, c)), Stored(question, s),
         NEW a, End(s, i, a),
         s.began[i].log \in 0 .. Len(s.log), s.dirs \subseteq s.began[i].dirs, a.log \in 0 .. Len(s.log),
         a.kind \in {"display", "session"} => a.display = Display(question.row, s.log, a.log),
         a.kind = "session" =>
            IF a.folder = <<>> THEN NoneFits(question, s, i, a.log, a.dirs)
            ELSE WasSet(question, s, i, a.folder, a.log) /\ CouldBe(question, s, i, a.folder)
  PROVE  SettingsInv'
  <1>1. PerAsk(s.at) /\ PerAsk(s.result) BY NowIs
  <1>2. PICK t : /\ Reply(t) /\ IsState(t) /\ t.pc \in {"run", "done"}
                 /\ t.row = s.row /\ t.dirs = s.dirs /\ t.log = s.log /\ t.seen = s.seen /\ t.began = s.began
                 /\ PerAsk(t.at) /\ PerAsk(t.result) /\ t.at[i] = "end" /\ t.result[i] = a
                 /\ \A j \in Asks : j # i => t.at[j] = s.at[j] /\ t.result[j] = s.result[j]
    BY <1>1, EndIs
  <1>4. \A j \in Asks : j # i => /\ t.at[j] = Now.at[j] /\ t.seen[j] = Now.seen[j]
                                 /\ t.began[j] = Now.began[j] /\ t.result[j] = Now.result[j]
    BY <1>2
  <1>6. Stored(question, t) BY <1>2 DEF Stored
  <1>7. WasSet(question, s, i, a.folder, a.log) => WasSet(question, t, i, a.folder, a.log) BY <1>2 DEF WasSet
  <1>8. NoneFits(question, s, i, a.log, a.dirs) => NoneFits(question, t, i, a.log, a.dirs) BY <1>2 DEF NoneFits
  <1>9. CouldBe(question, s, i, a.folder) => CouldBe(question, t, i, a.folder) BY <1>2 DEF CouldBe
  <1>10. Follows(question, t, i) BY <1>2, <1>7, <1>8, <1>9 DEF Follows
  <1>11. PerAsk(t.seen) /\ PerAsk(t.began) BY <1>2, NowIs
  <1>12. t.dirs \subseteq Now.dirs /\ (t.log = Now.log \/ \E c : t.log = Append(Now.log, c)) BY <1>2
  <1>13. \A j \in Asks :
           \/ Follows(question, t, j)
           \/ t.at[j] = Now.at[j] /\ t.seen[j] = Now.seen[j] /\ t.began[j] = Now.began[j] /\ t.result[j] = Now.result[j]
    BY <1>4, <1>10
  <1> QED BY <1>2, <1>6, <1>11, <1>12, <1>13, SettingsMove

\* The changes and the folders of the moment.
LEMMA StartedIs ==
  ASSUME SettingsInv, answer # <<>>
  PROVE  /\ Started.log = Len(Now.log) /\ Started.dirs = Now.dirs
         /\ Started.log \in 0 .. Len(Now.log) /\ Len(Now.log) \in Started.log .. Len(Now.log)
  BY NowIs DEF Started

\* A request that is at work ends with an answer that promises nothing.
LEMMA FailKeeps ==
  ASSUME SettingsInv, answer # <<>>, NEW i \in Asks, NEW kind, kind \notin {"display", "session"},
         End(Now, i, Error(kind, Now))
  PROVE  SettingsInv'
  <1> DEFINE a == Error(kind, Now)
  <1>1. a.kind = kind /\ a.log = Len(Now.log) BY DEF Error, Answer
  <1> HIDE DEF a
  <1>2. Now.began[i].log \in 0 .. Len(Now.log) /\ Now.dirs \subseteq Now.began[i].dirs BY NowIs DEF Follows
  <1>3. End(Now, i, a) BY DEF a
  <1>4. a.log \in 0 .. Len(Now.log) BY <1>1, NowIs
  <1> QED BY <1>1, <1>2, <1>3, <1>4, NowIs, EndKeeps

\* A refusal is judged when the request begins.
LEMMA RefuseKeeps ==
  ASSUME SettingsInv, answer # <<>>, NEW i \in Asks, NEW kind, kind \notin {"display", "session"}, Refuse(i, kind)
  PROVE  SettingsInv'
  <1> DEFINE a == Error(kind, Now)
             began == [Now.began EXCEPT ![i] = Started]
             s == [Now EXCEPT !.began[i] = Started]
  <1>1. a.kind = kind /\ a.log = Len(Now.log) BY DEF Error, Answer
  <1>2. End(s, i, a) BY DEF Refuse
  <1>8. PerAsk(Now.began) BY NowIs
  <1>3. PerAsk(began) /\ began[i] = Started /\ \A j \in Asks : j # i => began[j] = Now.began[j] BY <1>8 DEF PerAsk
  <1>4. s.began = began /\ IsState(s) /\ s.row = Now.row /\ s.dirs = Now.dirs /\ s.log = Now.log /\ s.at = Now.at
        /\ s.seen = Now.seen /\ s.result = Now.result
    BY NowIs DEF IsState, SettingsState
  <1> HIDE DEF a, s, began
  <1>5. Stored(question, s) BY <1>4, NowIs DEF Stored
  <1>6. s.began[i].log \in 0 .. Len(s.log) /\ s.dirs \subseteq s.began[i].dirs BY <1>3, <1>4, StartedIs
  <1>7. a.log \in 0 .. Len(s.log) BY <1>1, <1>4, NowIs
  <1> QED BY <1>1, <1>2, <1>3, <1>4, <1>5, <1>6, <1>7, EndKeeps

\* A folder that is to be stored is of a share with a name.
LEMMA JudgeUpdateKeeps == ASSUME SettingsInv, NEW i \in Asks, JudgeUpdate(i) PROVE SettingsInv'
  <1> DEFINE r == question.requests[i]
  <1>1. answer # <<>> /\ Now.at[i] = "start" /\ r.kind = "folder" BY DEF JudgeUpdate, Turn, Under
  <1>2. r.refused \notin {"display", "session"} BY <1>1, NowIs DEF SettingsQuestion, Asks
  <1>3. CASE r.refused # "" BY <1>1, <1>2, <1>3, RefuseKeeps DEF JudgeUpdate
  <1>4. CASE r.refused = "" /\ r.folder # <<>> /\ ~ValidDefaultFolder(question.granted, r.folder[1], Now.dirs)
    BY <1>1, <1>4, RefuseKeeps DEF JudgeUpdate
  <1>5. CASE r.refused = "" /\ ~(r.folder # <<>> /\ ~ValidDefaultFolder(question.granted, r.folder[1], Now.dirs))
    <2> DEFINE at == [Now.at EXCEPT ![i] = "store"]
               began == [Now.began EXCEPT ![i] = Started]
               t == [Now EXCEPT !.at[i] = "store", !.began[i] = Started]
    <2>1. Reply(t) BY <1>5 DEF JudgeUpdate
    <2>10. PerAsk(Now.at) /\ PerAsk(Now.began) BY <1>1, NowIs
    <2>11. PerAsk(at) /\ at[i] = "store" /\ (\A j \in Asks : j # i => at[j] = Now.at[j]) BY <2>10 DEF PerAsk
    <2>2. PerAsk(began) /\ began[i] = Started /\ (\A j \in Asks : j # i => began[j] = Now.began[j])
      BY <2>10 DEF PerAsk
    <2>3. t.at = at /\ t.began = began /\ IsState(t) /\ t.pc = Now.pc /\ t.row = Now.row /\ t.dirs = Now.dirs
          /\ t.log = Now.log /\ t.seen = Now.seen /\ t.result = Now.result
      BY <1>1, NowIs DEF IsState, SettingsState
    <2> HIDE DEF t, at, began
    <2>4. Stored(question, t) BY <1>1, <2>3, NowIs DEF Stored
    <2>5. r.folder # <<>> => r.folder[1].share # "" BY <1>1, <1>5, NowIs DEF ValidDefaultFolder, SettingsQuestion
    <2>6. Follows(question, Now, i) BY <1>1, NowIs
    <2>7. Now.result[i].kind = "none" /\ Now.result[i].log \in 0 .. Len(Now.log) BY <1>1, <2>6 DEF Follows
    <2>8. Follows(question, t, i) BY <1>1, <2>2, <2>3, <2>5, <2>7, <2>11, StartedIs DEF Follows
    <2>9. t.pc \in {"run", "done"} BY <1>1, <2>3, NowIs DEF SettingsSound
    <2> QED BY <1>1, <2>1, <2>2, <2>3, <2>4, <2>8, <2>9, <2>11, NowIs, SettingsMove
  <1> QED BY <1>3, <1>4, <1>5

\* The start folder is the one last stored.
LEMMA StoreFolderKeeps == ASSUME SettingsInv, NEW i \in Asks, StoreFolder(i) PROVE SettingsInv'
  <1> DEFINE folder == question.requests[i].folder
             change == [folder |-> folder]
             log == Append(Now.log, change)
             a == Answer("folder", folder, DisplayDefaults, log, Now.dirs)
             s == [Now EXCEPT !.row = SetDefaultFolder(@, folder), !.log = log]
  <1>1. answer # <<>> /\ Now.at[i] = "store" /\ question.requests[i].kind = "folder" /\ End(s, i, a)
    BY DEF StoreFolder, Turn, Under
  <1>2. IsFolder(folder) /\ (folder # <<>> => folder[1].share # "")
    BY <1>1, NowIs DEF Follows, SettingsQuestion, Asks
  <1>3. a.kind = "folder" /\ a.log = Len(log) BY DEF Answer
  <1>4. DOMAIN change = {"folder"} /\ change["folder"] = folder OBVIOUS
  <1> HIDE DEF a, folder, change
  <1> DEFINE row == SetDefaultFolder(Now.row, folder)
  <1>5. s.row = row /\ s.log = log /\ IsState(s) /\ s.dirs = Now.dirs /\ s.at = Now.at
        /\ s.seen = Now.seen /\ s.began = Now.began /\ s.result = Now.result
    BY <1>1, NowIs DEF IsState, SettingsState
  <1>6. IsRow(row) /\ DefaultFolder(row) = folder /\ ReadDisplayPreferences(row) = ReadDisplayPreferences(Now.row)
    BY <1>1, <1>2, NowIs, SetDefaultFolderIs DEF Stored
  <1> HIDE DEF s, row
  <1>7. Len(log) = Len(Now.log) + 1 /\ log[Len(log)] = change /\ (\A k \in 1 .. Len(Now.log) : log[k] = Now.log[k])
    BY <1>1, NowIs
  <1>8. \A f : SetBy(question.row, log, Len(log), f) =
               IF f \in DOMAIN change THEN change[f] ELSE SetBy(question.row, Now.log, Len(Now.log), f)
    BY <1>1, NowIs, SetByAppend
  <1> HIDE DEF log
  <1>9. Stored(question, s)
    <2>1. SetBy(question.row, log, Len(log), "folder") = folder BY <1>4, <1>8
    <2>2. Display(question.row, log, Len(log)) = Display(question.row, Now.log, Len(Now.log))
      BY <1>4, <1>8, DefaultsAre DEF Display, Settings
    <2>3. \A k \in 1 .. Len(log) : DOMAIN log[k] \subseteq DOMAIN DisplayDefaults \cup {"folder"}
      <3> TAKE k \in 1 .. Len(log)
      <3>1. k \in 1 .. Len(Now.log) \/ k = Len(log) BY <1>1, <1>7, NowIs
      <3> QED BY <1>1, <1>4, <1>7, <3>1, NowIs DEF Stored
    <2> QED BY <1>1, <1>5, <1>6, <2>1, <2>2, <2>3, NowIs DEF Stored
  <1>10. /\ s.began[i].log \in 0 .. Len(s.log) /\ s.dirs \subseteq s.began[i].dirs /\ a.log \in 0 .. Len(s.log)
    <2>1. Follows(question, Now, i) /\ Len(Now.log) \in Nat BY <1>1, NowIs
    <2>2. Now.began[i].log \in 0 .. Len(Now.log) /\ Now.dirs \subseteq Now.began[i].dirs BY <2>1 DEF Follows
    <2> QED BY <1>3, <1>5, <1>7, <2>1, <2>2
  <1>11. \E c : s.log = Append(Now.log, c) BY <1>5 DEF log
  <1> QED BY <1>1, <1>3, <1>5, <1>9, <1>10, <1>11, NowIs, EndKeeps

\* The display settings are the ones last stored, each by itself.
LEMMA UpdateDisplayKeeps == ASSUME SettingsInv, NEW i \in Asks, UpdateDisplayPreferences(i) PROVE SettingsInv'
  <1> DEFINE r == question.requests[i]
             u == UpdateDisplay(Now.row, r.update)
             log == Append(Now.log, r.update)
             a == Answer("display", <<>>, u.saved, log, Now.dirs)
             began == [Now.began EXCEPT ![i] = Started]
             s == [Now EXCEPT !.began[i] = Started, !.row = u.row, !.log = log]
  <1>1. answer # <<>> /\ Now.at[i] = "start" /\ r.kind = "display" BY DEF UpdateDisplayPreferences, Turn, Under
  <1>2. r.refused \notin {"display", "session"} /\ DOMAIN r.update \subseteq DOMAIN DisplayDefaults
    BY <1>1, NowIs DEF SettingsQuestion, Asks
  <1>3. CASE r.refused # "" BY <1>1, <1>2, <1>3, RefuseKeeps DEF UpdateDisplayPreferences
  <1>4. CASE r.refused = ""
    <2>1. End(s, i, a) BY <1>4 DEF UpdateDisplayPreferences
    <2>2. a.kind = "display" /\ a.log = Len(log) /\ a.display = u.saved BY DEF Answer
    <2>3. PerAsk(Now.began) BY <1>1, NowIs
    <2>4. PerAsk(began) /\ began[i] = Started /\ \A j \in Asks : j # i => began[j] = Now.began[j]
      BY <2>3 DEF PerAsk
    <2> DEFINE row == u.row
               display == ReadDisplayPreferences(Now.row)
    <2>5. IsRow(Now.row) BY <1>1, NowIs DEF Stored
    <2>6. /\ IsRow(row) /\ DefaultFolder(row) = DefaultFolder(Now.row)
          /\ ReadDisplayPreferences(row) = Over(r.update, display) /\ u.saved = ReadDisplayPreferences(row)
      BY <2>5, UpdateDisplayIs
    <2>7. display = [f \in Settings |-> display[f]] BY <2>5, RowReads
    <2> HIDE DEF a, began, u
    <2>8. s.row = row /\ s.log = log /\ s.began = began /\ IsState(s) /\ s.dirs = Now.dirs /\ s.at = Now.at
          /\ s.seen = Now.seen /\ s.result = Now.result
      BY <1>1, NowIs DEF IsState, SettingsState, began
    <2> HIDE DEF s, row, display
    <2>9. Len(log) = Len(Now.log) + 1 /\ log[Len(log)] = r.update /\ (\A k \in 1 .. Len(Now.log) : log[k] = Now.log[k])
      BY <1>1, NowIs
    <2>10. \A f : SetBy(question.row, log, Len(log), f) =
                IF f \in DOMAIN r.update THEN r.update[f] ELSE SetBy(question.row, Now.log, Len(Now.log), f)
      BY <1>1, NowIs, SetByAppend
    <2> HIDE DEF log
    <2>11. Display(question.row, log, Len(log)) = Over(r.update, display)
      <3>1. display = Display(question.row, Now.log, Len(Now.log)) BY <1>1, NowIs DEF Stored, display
      <3>2. \A f \in Settings : display[f] = SetBy(question.row, Now.log, Len(Now.log), f)
        BY <3>1 DEF Display, Settings
      <3>3. DOMAIN display = Settings BY <2>7
      <3> QED BY <2>10, <3>2, <3>3 DEF Display, Over, Settings
    <2>12. SetBy(question.row, log, Len(log), "folder") = DefaultFolder(row)
      BY <1>1, <1>2, <2>6, <2>10, NowIs, DefaultsAre DEF Stored, Settings
    <2>13. \A k \in 1 .. Len(log) : DOMAIN log[k] \subseteq DOMAIN DisplayDefaults \cup {"folder"}
      <3> TAKE k \in 1 .. Len(log)
      <3>1. k \in 1 .. Len(Now.log) \/ k = Len(log) BY <1>1, <2>9, NowIs
      <3> QED BY <1>1, <1>2, <2>9, <3>1, NowIs DEF Stored
    <2>14. Stored(question, s) BY <2>6, <2>8, <2>11, <2>12, <2>13 DEF Stored
    <2>15. a.log \in 0 .. Len(s.log) /\ s.began[i].log \in 0 .. Len(s.log) /\ s.dirs \subseteq s.began[i].dirs
      <3>1. Len(Now.log) \in Nat BY <1>1, NowIs
      <3> QED BY <1>1, <2>2, <2>4, <2>8, <2>9, <3>1, StartedIs
    <2>16. a.display = Display(question.row, s.log, a.log) BY <2>2, <2>6, <2>8, <2>11
    <2>17. \E c : s.log = Append(Now.log, c) BY <2>8 DEF log
    <2> QED BY <1>1, <2>1, <2>2, <2>4, <2>8, <2>14, <2>15, <2>16, <2>17, EndKeeps
  <1> QED BY <1>3, <1>4

\* The folder that a session reads is the one set at that moment.
LEMMA ReadFolderKeeps == ASSUME SettingsInv, NEW i \in Asks, ReadFolder(i) PROVE SettingsInv'
  <1> DEFINE r == question.requests[i]
             folder == DefaultFolder(Now.row)
             next == IF folder = <<>> THEN "display" ELSE "judge"
             t == [Now EXCEPT !.began[i] = Started, !.seen[i] = folder, !.at[i] = next]
             at == [Now.at EXCEPT ![i] = next]
             seen == [Now.seen EXCEPT ![i] = folder]
             began == [Now.began EXCEPT ![i] = Started]
  <1>1. answer # <<>> /\ Now.at[i] = "start" /\ r.kind = "session" BY DEF ReadFolder, Turn, Under
  <1>2. r.refused \notin {"display", "session"} BY <1>1, NowIs DEF SettingsQuestion, Asks
  <1>3. CASE r.refused # "" BY <1>1, <1>2, <1>3, RefuseKeeps DEF ReadFolder
  <1>4. CASE r.refused = ""
    <2>1. Reply(t) BY <1>4 DEF ReadFolder
    <2>2. PerAsk(Now.at) /\ PerAsk(Now.seen) /\ PerAsk(Now.began) BY <1>1, NowIs
    <2>3. SetBy(question.row, Now.log, Len(Now.log), "folder") = folder BY <1>1, NowIs DEF Stored
    <2>4. next = IF folder = <<>> THEN "display" ELSE "judge" OBVIOUS
    <2> HIDE DEF folder, next
    <2>5. PerAsk(at) /\ at[i] = next /\ \A j \in Asks : j # i => at[j] = Now.at[j] BY <2>2 DEF PerAsk
    <2>6. PerAsk(seen) /\ seen[i] = folder /\ \A j \in Asks : j # i => seen[j] = Now.seen[j] BY <2>2 DEF PerAsk
    <2>7. PerAsk(began) /\ began[i] = Started /\ \A j \in Asks : j # i => began[j] = Now.began[j] BY <2>2 DEF PerAsk
    <2>8. t.at = at /\ t.seen = seen /\ t.began = began /\ IsState(t) /\ t.pc = Now.pc /\ t.row = Now.row
          /\ t.dirs = Now.dirs /\ t.log = Now.log /\ t.result = Now.result
      BY <1>1, NowIs DEF IsState, SettingsState
    <2> HIDE DEF t, at, seen, began
    <2>9. Stored(question, t) BY <1>1, <2>8, NowIs DEF Stored
    <2>10. Follows(question, Now, i) BY <1>1, NowIs
    <2>11. Now.result[i].kind = "none" /\ Now.result[i].log \in 0 .. Len(Now.log) BY <1>1, <2>10 DEF Follows
    <2>12. WasSet(question, t, i, folder, Len(t.log)) BY <1>1, <2>3, <2>7, <2>8, StartedIs DEF WasSet
    <2>13. folder = <<>> => NoneFits(question, t, i, Len(t.log), t.dirs)
      BY <1>1, <2>3, <2>7, <2>8, StartedIs DEF NoneFits
    <2>14. Follows(question, t, i)
      BY <1>1, <2>4, <2>5, <2>6, <2>7, <2>8, <2>11, <2>12, <2>13, StartedIs DEF Follows
    <2>15. t.pc \in {"run", "done"} BY <1>1, <2>8, NowIs DEF SettingsSound
    <2> QED BY <1>1, <2>1, <2>5, <2>6, <2>7, <2>8, <2>9, <2>14, <2>15, NowIs, SettingsMove
  <1> QED BY <1>3, <1>4

\* A folder that is judged good was so when the request began; one that is not was set
\* and was not good.
LEMMA JudgeFolderKeeps == ASSUME SettingsInv, NEW i \in Asks, JudgeFolder(i) PROVE SettingsInv'
  <1> DEFINE old == Now.seen[i]
             folder == IF ValidDefaultFolder(question.granted, old[1], Now.dirs) THEN old ELSE <<>>
             t == [Now EXCEPT !.at[i] = "display",
                              !.seen[i] = IF ValidDefaultFolder(question.granted, @[1], Now.dirs) THEN @ ELSE <<>>]
             at == [Now.at EXCEPT ![i] = "display"]
             seen == [Now.seen EXCEPT ![i] = folder]
  <1>1. answer # <<>> /\ Now.at[i] = "judge" BY DEF JudgeFolder, Turn, Under
  <1>2. Reply(t) BY DEF JudgeFolder
  <1>3. PerAsk(Now.at) /\ PerAsk(Now.seen) /\ Follows(question, Now, i) BY <1>1, NowIs
  <1>4. /\ Now.result[i].kind = "none" /\ Now.result[i].log \in 0 .. Len(Now.log) /\ Now.dirs \subseteq Now.began[i].dirs
        /\ Now.began[i].log \in 0 .. Len(Now.log) /\ old # <<>> /\ WasSet(question, Now, i, old, Len(Now.log))
    BY <1>1, <1>3 DEF Follows
  <1>5. t.at = at /\ t.seen = seen /\ IsState(t) /\ t.pc = Now.pc /\ t.row = Now.row /\ t.began = Now.began
        /\ t.dirs = Now.dirs /\ t.log = Now.log /\ t.result = Now.result
    BY <1>1, NowIs DEF IsState, SettingsState
  <1> HIDE DEF t
  <1>6. folder = (IF ValidDefaultFolder(question.granted, old[1], Now.dirs) THEN old ELSE <<>>) OBVIOUS
  <1> HIDE DEF folder
  <1>7. PerAsk(at) /\ at[i] = "display" /\ \A j \in Asks : j # i => at[j] = Now.at[j] BY <1>3 DEF PerAsk
  <1>8. PerAsk(seen) /\ seen[i] = folder /\ \A j \in Asks : j # i => seen[j] = Now.seen[j] BY <1>3 DEF PerAsk
  <1> HIDE DEF at, seen
  <1>9. ASSUME ValidDefaultFolder(question.granted, old[1], Now.dirs) PROVE Follows(question, t, i)
    <2>1. folder = old BY <1>6, <1>9
    <2>2. WasSet(question, t, i, old, Len(t.log)) BY <1>4, <1>5 DEF WasSet
    <2>3. CouldBe(question, t, i, old) BY <1>4, <1>5, <1>9 DEF CouldBe, ValidDefaultFolder
    <2> QED BY <1>4, <1>5, <1>7, <1>8, <2>1, <2>2, <2>3 DEF Follows
  <1>10. ASSUME ~ValidDefaultFolder(question.granted, old[1], Now.dirs) PROVE Follows(question, t, i)
    <2>1. folder = <<>> BY <1>6, <1>10
    <2>2. PICK n \in Now.began[i].log .. Len(Now.log) : SetBy(question.row, Now.log, n, "folder") = old
      BY <1>4 DEF WasSet
    <2> HIDE DEF old
    <2>3. NoneFits(question, t, i, Len(t.log), t.dirs) BY <1>5, <1>10, <2>2 DEF NoneFits
    <2> QED BY <1>4, <1>5, <1>7, <1>8, <2>1, <2>3 DEF Follows
  <1>11. Stored(question, t) BY <1>1, <1>5, NowIs DEF Stored
  <1>12. t.pc \in {"run", "done"} BY <1>1, <1>5, NowIs DEF SettingsSound
  <1>13. Follows(question, t, i) BY <1>9, <1>10
  <1> QED BY <1>1, <1>2, <1>5, <1>7, <1>8, <1>11, <1>12, <1>13, NowIs, SettingsMove

\* The answer of a session: its folder of one moment, the display of a later one.
LEMMA ReadDisplayKeeps == ASSUME SettingsInv, NEW i \in Asks, ReadDisplay(i) PROVE SettingsInv'
  <1> DEFINE a == Answer("session", Now.seen[i], ReadDisplayPreferences(Now.row), Now.log, Now.dirs)
  <1>1. answer # <<>> /\ Now.at[i] = "display" /\ End(Now, i, a) BY DEF ReadDisplay, Turn, Under
  <1>2. a.kind = "session" /\ a.folder = Now.seen[i] /\ a.display = ReadDisplayPreferences(Now.row)
        /\ a.log = Len(Now.log) /\ a.dirs = Now.dirs
    BY DEF Answer
  <1> HIDE DEF a
  <1>3. Follows(question, Now, i) /\ Stored(question, Now) /\ Len(Now.log) \in Nat BY <1>1, NowIs
  <1>4. a.display = Display(question.row, Now.log, a.log) BY <1>2, <1>3 DEF Stored
  <1>5. IF a.folder = <<>> THEN NoneFits(question, Now, i, a.log, a.dirs)
        ELSE WasSet(question, Now, i, a.folder, a.log) /\ CouldBe(question, Now, i, a.folder)
    BY <1>1, <1>2, <1>3 DEF Follows
  <1>6. Now.began[i].log \in 0 .. Len(Now.log) /\ Now.dirs \subseteq Now.began[i].dirs BY <1>3 DEF Follows
  <1>7. a.log \in 0 .. Len(Now.log) BY <1>2, <1>3
  <1> QED BY <1>1, <1>3, <1>4, <1>5, <1>6, <1>7, NowIs, EndKeeps

\* Every step.
LEMMA SettingsNext == SettingsInv /\ [PreferencesStep]_<<question, answer>> => SettingsInv'
  <1> SUFFICES ASSUME SettingsInv, [PreferencesStep]_<<question, answer>> PROVE SettingsInv' OBVIOUS
  <1>1. CASE BeginPreferences BY <1>1, BeginKeeps
  <1>2. CASE FolderGoes BY <1>2, FolderGoesKeeps
  <1>3. ASSUME NEW i \in Asks, Under("preferences"),
               \/ JudgeUpdate(i) \/ StoreFolder(i) \/ UpdateDisplayPreferences(i)
               \/ ReadFolder(i) \/ JudgeFolder(i) \/ ReadDisplay(i) \/ StoreFails(i)
        PROVE  SettingsInv'
    <2>1. CASE StoreFails(i)
      <3>1. answer # <<>> BY <1>3 DEF Under
      <3>2. End(Now, i, Error("internal", Now)) BY <2>1 DEF StoreFails
      <3> QED BY <3>1, <3>2, FailKeeps
    <2> QED BY <1>3, <2>1, JudgeUpdateKeeps, StoreFolderKeeps, UpdateDisplayKeeps, ReadFolderKeeps,
               JudgeFolderKeeps, ReadDisplayKeeps
  <1>4. CASE UNCHANGED <<question, answer>>
    <2>1. question' = question /\ answer' = answer /\ Now' = Now BY <1>4 DEF Now
    <2>2. answer # <<>> => (SettingsSound(question, Now))' BY <2>1 DEF SettingsInv
    <2> QED BY <2>1, <2>2 DEF SettingsInv
  <1> QED BY <1>1, <1>2, <1>3, <1>4 DEF PreferencesStep, Asks

\* What the property says is part of the invariant.
LEMMA SettingsKept == SettingsInv => SettingsAreKept
  <1> SUFFICES ASSUME SettingsInv, answer # <<>> PROVE SettingsAreKept BY DEF SettingsAreKept
  <1>1. Stored(question, Now) /\ \A i \in Asks : Follows(question, Now, i) BY NowIs
  <1>2. Now.row # <<>> => DefaultFolder(Now.row) # <<>> \/ Now.row[1].display # DisplayDefaults
    BY <1>1 DEF Stored, IsRow, DefaultFolder
  <1>3. ASSUME NEW i \in Asks
        PROVE  LET a == Now.result[i]
                   b == Now.began[i]
                   Folder(n) == SetBy(question.row, Now.log, n, "folder")
               IN /\ a.kind \in {"display", "session"} => a.display = Display(question.row, Now.log, a.log)
                  /\ a.kind = "session" /\ a.folder # <<>> =>
                       /\ \E n \in b.log .. a.log : Folder(n) = a.folder
                       /\ ValidDefaultFolder(question.granted, a.folder[1], b.dirs)
                  /\ a.kind = "session" /\ a.folder = <<>> =>
                       \E n \in b.log .. a.log :
                          Folder(n) # <<>> => ~ValidDefaultFolder(question.granted, Folder(n)[1], a.dirs)
    BY <1>1 DEF Follows, WasSet, CouldBe, NoneFits
  <1> QED BY <1>1, <1>2, <1>3 DEF SettingsAreKept, Stored, Asks

\* However the requests of a user's devices fall, every setting is the one last stored
\* for it, and what is answered was true while the request ran (auth.rs,
\* delete_default_preferences, update_display_preferences and session_response), for any
\* requests, any row that the table may hold and any folders that go meanwhile.
THEOREM SettingsAlwaysKept == SettingsSpec => []SettingsAreKept
  <1>1. SettingsInit => SettingsInv BY DEF SettingsInit, SettingsInv
  <1> QED BY <1>1, SettingsNext, SettingsKept, PTL DEF SettingsSpec
=============================================================================
