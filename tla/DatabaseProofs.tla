--------------------------- MODULE DatabaseProofs ---------------------------
(***************************************************************************)
(* Proofs about the two components that keep rows in a database: sessions, *)
(* for any users, requests, limits and timeouts, and the search index of a *)
(* share, for any share, limits, and changes to the share.                 *)
(***************************************************************************)
EXTENDS Sessions, SearchIndex, FiniteSetTheorems, SequenceTheorems, WellFoundedInduction, TLAPS

-----------------------------------------------------------------------------
(* Sessions                                                                 *)

\* A session's row was inserted, and its last use is no later than the last
\* request that extended it.
RowsIssued ==
    /\ DOMAIN table \subseteq issued
    /\ \A t \in DOMAIN table : table[t].seen <= asked[t]

\* A request that presents a session has one that was issued; only a call, which
\* may extend it, gets to the touch.
Presented == \A c \in Clients :
    /\ req[c].pc \in {"lookup", "delete", "touch", "admitted"} => req[c].token \in issued
    /\ req[c].pc = "lookup" => req[c].kind \in Kinds
    /\ req[c].pc = "touch" => req[c].kind = "call"

\* A sign-in about to insert its row has a token that is neither issued nor in
\* another request's hands, for a user of the configuration.
Drawn == \A c \in Clients : req[c].pc = "rotate" =>
    /\ req[c].kind = "login"
    /\ req[c].user \in Configured
    /\ req[c].token \in Tokens \ issued
    /\ \A d \in Clients \ {c} : req[d].token # req[c].token

\* The inductive invariant.
SessionsInv == SessionsSound /\ RowsIssued /\ Presented /\ Drawn

-----------------------------------------------------------------------------

\* The rows of the table, and those of one user, are finitely many.
LEMMA FiniteRows ==
  ASSUME TypeOK
  PROVE  /\ \A S \in SUBSET DOMAIN table : IsFiniteSet(S) /\ Cardinality(S) \in Nat
  BY SessionsAssumption, FS_Subset, FS_CardinalityType DEF TypeOK

\* Rows are deleted: what was true of every row stays so, and no set of rows grows.
LEMMA RowsDeleted ==
  ASSUME SessionsInv, NEW S \in SUBSET DOMAIN table, table' = Only(table, S),
         UNCHANGED history
  PROVE  /\ DOMAIN table' \subseteq Tokens /\ table' \in [DOMAIN table' -> Row]
         /\ Bounded' /\ RowsIssued'
         /\ DOMAIN table' = S /\ \A t \in S : table'[t] = table[t]
  <1>1. DOMAIN table' = S /\ \A t \in S : table'[t] = table[t]
    BY DEF Only
  <1>2. DOMAIN table \subseteq Tokens /\ table \in [DOMAIN table -> Row] /\ TypeOK
    BY DEF SessionsInv, SessionsSound, TypeOK
  <1>3. table' \in [DOMAIN table' -> Row]
    BY <1>1, <1>2 DEF Only
  <1>4. Cardinality(S) <= Total
    <2>1. Cardinality(S) <= Cardinality(DOMAIN table)
      BY <1>2, FiniteRows, FS_Subset
    <2> QED BY <1>2, <2>1, FiniteRows, SessionsAssumption DEF SessionsInv, SessionsSound, Bounded
  <1>5. ASSUME NEW u \in Users
        PROVE  Cardinality({t \in DOMAIN table' : table'[t].user = u}) <= PerUser
    <2> DEFINE A == {t \in DOMAIN table : table[t].user = u}
               B == {t \in DOMAIN table' : table'[t].user = u}
    <2>1. B \subseteq A /\ A \subseteq DOMAIN table /\ B \subseteq DOMAIN table
      BY <1>1
    <2>2. IsFiniteSet(A) /\ Cardinality(A) \in Nat /\ Cardinality(B) \in Nat
      BY <1>2, <2>1, FiniteRows
    <2>3. Cardinality(B) <= Cardinality(A)
      BY <2>1, <2>2, FS_Subset
    <2>4. Cardinality(A) <= PerUser
      BY DEF SessionsInv, SessionsSound, Bounded
    <2> QED BY <2>2, <2>3, <2>4, SessionsAssumption
  <1>6. Bounded'
    BY <1>1, <1>4, <1>5 DEF Bounded
  <1>7. RowsIssued'
    BY <1>1 DEF SessionsInv, RowsIssued, history
  <1> QED BY <1>1, <1>2, <1>3, <1>6, <1>7

\* A request is over: nothing is left to be said of it.
LEMMA RequestOver ==
  ASSUME SessionsInv, NEW c \in Clients, Answered(c), UNCHANGED <<account, history>>
  PROVE  req' \in [Clients -> Request] /\ ValidInTime' /\ Presented' /\ Drawn'
  <1>1. req \in [Clients -> Request] /\ NoRequest \in Request
    BY SessionsAssumption DEF SessionsInv, SessionsSound, TypeOK, NoRequest, Request, Labels, Kinds, Time
  <1>2. req' \in [Clients -> Request] /\ req'[c] = NoRequest
        /\ \A d \in Clients \ {c} : req'[d] = req[d]
    BY <1>1 DEF Answered
  <1>3. req'[c].pc = "idle" /\ req'[c].token = None
    BY <1>2 DEF NoRequest
  <1>4. ValidInTime'
    BY <1>2, <1>3 DEF SessionsInv, SessionsSound, ValidInTime, Valid, history
  <1>5. Presented'
    BY <1>2, <1>3 DEF SessionsInv, Presented, history
  <1>6. Drawn'
    <2> SUFFICES ASSUME NEW e \in Clients, req'[e].pc = "rotate"
                 PROVE  /\ req'[e].kind = "login" /\ req'[e].user \in Configured'
                        /\ req'[e].token \in Tokens \ issued'
                        /\ \A d \in Clients \ {e} : req'[d].token # req'[e].token
      BY DEF Drawn
    <2>1. e # c /\ req'[e] = req[e]
      BY <1>2, <1>3
    <2>2. /\ req[e].kind = "login" /\ req[e].user \in Configured
          /\ req[e].token \in Tokens \ issued
          /\ \A d \in Clients \ {e} : req[d].token # req[e].token
      BY <2>1 DEF SessionsInv, Drawn
    <2>3. Configured' = Configured /\ issued' = issued
      BY DEF Configured, history
    <2> QED BY <1>2, <1>3, <2>1, <2>2, <2>3, SessionsAssumption
  <1> QED BY <1>2, <1>4, <1>5, <1>6

\* A step that leaves the stored rows alone leaves what is said of them alone.
LEMMA RowsKept ==
  ASSUME SessionsInv, UNCHANGED <<account, table, history>>
  PROVE  Bounded' /\ InheritsNothing' /\ RowsIssued'
  BY DEF SessionsInv, SessionsSound, Bounded, InheritsNothing, RowsIssued, Configured, history

\* What the invariant says of the request of one client.
RequestSound(r, d) ==
    /\ (r.pc = "touch" \/ (r.pc = "admitted" /\ r.kind = "check")) => r.now - asked[r.token] < Idle
    /\ r.pc \in {"lookup", "delete", "touch", "admitted"} => r.token \in issued
    /\ r.pc = "lookup" => r.kind \in Kinds
    /\ r.pc = "touch" => r.kind = "call"
    /\ r.pc = "rotate" => /\ r.kind = "login" /\ r.user \in Configured
                          /\ r.token \in Tokens \ issued
                          /\ \A e \in Clients \ {d} : req[e].token # r.token

\* A request moves on: if what it is now is sound and its token is no other
\* sign-in's, all requests are sound.
LEMMA RequestMoves ==
  ASSUME SessionsInv, UNCHANGED <<account, history>>,
         NEW c \in Clients, NEW r \in Request, req' = [req EXCEPT ![c] = r],
         RequestSound(r, c),
         r.token = req[c].token \/ r.token \in issued
            \/ r.token \notin {req[d].token : d \in Clients}
  PROVE  req' \in [Clients -> Request] /\ ValidInTime' /\ Presented' /\ Drawn'
  <1>1. req \in [Clients -> Request]
    BY DEF SessionsInv, SessionsSound, TypeOK
  <1>2. req' \in [Clients -> Request] /\ req'[c] = r
        /\ \A d \in Clients \ {c} : req'[d] = req[d]
    BY <1>1
  <1>3. issued' = issued /\ asked' = asked /\ Configured' = Configured
    BY DEF history, Configured
  <1>4. ValidInTime'
    BY <1>2, <1>3 DEF SessionsInv, SessionsSound, ValidInTime, Valid, RequestSound
  <1>5. Presented'
    BY <1>2, <1>3 DEF SessionsInv, Presented, RequestSound
  <1>6. Drawn'
    <2> SUFFICES ASSUME NEW e \in Clients, req'[e].pc = "rotate"
                 PROVE  /\ req'[e].kind = "login" /\ req'[e].user \in Configured
                        /\ req'[e].token \in Tokens \ issued
                        /\ \A d \in Clients \ {e} : req'[d].token # req'[e].token
      BY <1>3 DEF Drawn
    <2>1. CASE e = c
      BY <1>2, <2>1 DEF RequestSound
    <2>2. CASE e # c
      <3>1. /\ req[e].kind = "login" /\ req[e].user \in Configured
            /\ req[e].token \in Tokens \ issued
            /\ \A d \in Clients \ {e} : req[d].token # req[e].token
        BY <1>2, <2>2 DEF SessionsInv, Drawn
      <3>2. r.token # req[e].token
        BY <2>2, <3>1
      <3> QED BY <1>2, <2>2, <3>1, <3>2
    <2> QED BY <2>1, <2>2
  <1> QED BY <1>2, <1>4, <1>5, <1>6

\* The parts of the invariant put together again.
LEMMA Together ==
  ASSUME TypeOK, UNCHANGED <<clock, account, restarts, faults>>,
         req' \in [Clients -> Request], DOMAIN table' \subseteq Tokens,
         table' \in [DOMAIN table' -> Row], issued' \subseteq Tokens, asked' \in [Tokens -> Time],
         Bounded', ValidInTime', InheritsNothing', RowsIssued', Presented', Drawn'
  PROVE  SessionsInv'
  BY DEF SessionsInv, SessionsSound, TypeOK

\* A request of a client that presents a session: the lookup admits only what
\* was extended in time, because a row's last use is never later than that.
LEMMA LookupKeeps ==
  ASSUME SessionsInv, NEW c \in Clients, Lookup(c)
  PROVE  SessionsInv'
  <1> DEFINE t == req[c].token
             valid == ~Expired(table[t], req[c].now) /\ Active(table[t].user)
  <1>0. TypeOK /\ req \in [Clients -> Request] /\ req[c] \in Request /\ req[c].pc = "lookup"
        /\ t \in issued /\ req[c].kind \in Kinds
    BY DEF SessionsInv, SessionsSound, TypeOK, Lookup, Presented
  <1>1. UNCHANGED <<clock, account, table, restarts, faults, history>>
    BY DEF Lookup
  <1>2. Bounded' /\ InheritsNothing' /\ RowsIssued'
    BY <1>1, RowsKept
  <1>3. req' \in [Clients -> Request] /\ ValidInTime' /\ Presented' /\ Drawn'
    <2>1. CASE Answered(c)
      BY <1>1, <2>1, RequestOver
    <2>2. CASE Then(c, "delete")
      <3> DEFINE r == [req[c] EXCEPT !.pc = "delete"]
      <3>1. r \in Request /\ r.pc = "delete" /\ r.token = req[c].token
        BY <1>0 DEF Request, Labels
      <3>2. req' = [req EXCEPT ![c] = r]
        BY <1>0, <2>2 DEF Then
      <3>3. RequestSound(r, c)
        BY <1>0, <3>1 DEF RequestSound
      <3> HIDE DEF r
      <3> QED BY <1>1, <3>1, <3>2, <3>3, RequestMoves
    <2>3. CASE /\ t \in DOMAIN table /\ valid
               /\ req' = [req EXCEPT ![c].user = table[t].user,
                                     ![c].pc = IF req[c].kind = "check" THEN "admitted" ELSE "touch"]
      <3> DEFINE r == [req[c] EXCEPT !.user = table[t].user,
                                     !.pc = IF req[c].kind = "check" THEN "admitted" ELSE "touch"]
      <3>1. table[t] \in Row
        BY <1>0, <2>3 DEF TypeOK
      <3>2. r \in Request /\ r.token = t /\ r.now = req[c].now /\ r.kind = req[c].kind
            /\ r.pc = (IF req[c].kind = "check" THEN "admitted" ELSE "touch")
        BY <1>0, <3>1 DEF Request, Labels, Row
      <3>3. req' = [req EXCEPT ![c] = r]
        BY <1>0, <2>3
      <3>4. req[c].now - table[t].seen < Idle
        BY <1>0, <2>3, <3>1, SessionsAssumption DEF Expired, Row, Request, Time
      <3>5. table[t].seen <= asked[t] /\ table[t].seen \in Int /\ asked[t] \in Int /\ req[c].now \in Int
        BY <1>0, <2>3, <3>1 DEF SessionsInv, RowsIssued, TypeOK, Row, Time, Request
      <3>6. req[c].now - asked[t] < Idle
        BY <3>4, <3>5, SessionsAssumption
      <3>7. RequestSound(r, c)
        BY <1>0, <3>2, <3>6 DEF RequestSound, Kinds
      <3> HIDE DEF r
      <3> QED BY <1>1, <3>2, <3>3, <3>7, RequestMoves
    <2> QED BY <2>1, <2>2, <2>3 DEF Lookup
  <1> QED BY <1>0, <1>1, <1>2, <1>3, Together DEF TypeOK, history

\* A request arrives with the cookie of a session that was issued.
LEMMA ArriveKeeps ==
  ASSUME SessionsInv, NEW c \in Clients, Arrive(c)
  PROVE  SessionsInv'
  <1>0. TypeOK /\ req \in [Clients -> Request] /\ req[c] \in Request
    BY DEF SessionsInv, SessionsSound, TypeOK
  <1>1. UNCHANGED <<clock, account, table, restarts, faults, history>>
    BY DEF Arrive
  <1>2. Bounded' /\ InheritsNothing' /\ RowsIssued'
    BY <1>1, RowsKept
  <1>3. PICK t \in issued, k \in Kinds : req' = [req EXCEPT ![c] =
             [@ EXCEPT !.pc = "lookup", !.kind = k, !.token = t, !.now = clock]]
    BY DEF Arrive
  <1> DEFINE r == [req[c] EXCEPT !.pc = "lookup", !.kind = k, !.token = t, !.now = clock]
  <1>4. r \in Request /\ r.pc = "lookup" /\ r.kind = k /\ r.token = t
    BY <1>0 DEF Request, Labels, TypeOK, Kinds
  <1>5. req' = [req EXCEPT ![c] = r]
    BY <1>0, <1>3
  <1>6. RequestSound(r, c)
    BY <1>4 DEF RequestSound
  <1>7. req' \in [Clients -> Request] /\ ValidInTime' /\ Presented' /\ Drawn'
    <2> HIDE DEF r
    <2> QED BY <1>1, <1>4, <1>5, <1>6, RequestMoves
  <1> QED BY <1>0, <1>1, <1>2, <1>7, Together DEF TypeOK, history

\* A sign-in draws a token that nobody has.
LEMMA SignInKeeps ==
  ASSUME SessionsInv, NEW c \in Clients, SignIn(c)
  PROVE  SessionsInv'
  <1>0. TypeOK /\ req \in [Clients -> Request] /\ req[c] \in Request
    BY DEF SessionsInv, SessionsSound, TypeOK
  <1>1. UNCHANGED <<clock, account, table, restarts, faults, history>>
    BY DEF SignIn
  <1>2. Bounded' /\ InheritsNothing' /\ RowsIssued'
    BY <1>1, RowsKept
  <1>3. PICK u \in Users, old \in issued \cup {None},
             t \in Tokens \ (issued \cup {req[d].token : d \in Clients}) :
          /\ Active(u)
          /\ req' = [req EXCEPT ![c] =
                [@ EXCEPT !.pc = "rotate", !.kind = "login", !.user = u,
                          !.token = t, !.old = old, !.now = clock]]
    BY DEF SignIn
  <1> DEFINE r == [req[c] EXCEPT !.pc = "rotate", !.kind = "login", !.user = u,
                                 !.token = t, !.old = old, !.now = clock]
  <1>4. r \in Request /\ r.pc = "rotate" /\ r.kind = "login" /\ r.user = u /\ r.token = t
    BY <1>0 DEF Request, Labels, TypeOK
  <1>5. req' = [req EXCEPT ![c] = r]
    BY <1>0, <1>3
  <1>6. u \in Configured
    BY <1>3 DEF Configured, Active
  <1>7. RequestSound(r, c)
    BY <1>4, <1>6 DEF RequestSound
  <1>8. req' \in [Clients -> Request] /\ ValidInTime' /\ Presented' /\ Drawn'
    <2> HIDE DEF r
    <2> QED BY <1>1, <1>4, <1>5, <1>7, RequestMoves
  <1> QED BY <1>0, <1>1, <1>2, <1>8, Together DEF TypeOK, history

\* A request ends, and its row with it or not.
LEMMA OverKeeps ==
  ASSUME SessionsInv, NEW c \in Clients, DeleteEnded(c) \/ Logout(c) \/ Finish(c) \/ Cut(c)
  PROVE  SessionsInv'
  <1>0. TypeOK
    BY DEF SessionsInv, SessionsSound
  <1>1. Answered(c) /\ UNCHANGED <<clock, account, restarts, faults, history>>
    BY DEF DeleteEnded, Logout, Finish, Cut
  <1>2. req' \in [Clients -> Request] /\ ValidInTime' /\ Presented' /\ Drawn'
    BY <1>1, RequestOver
  <1>3. /\ DOMAIN table' \subseteq Tokens /\ table' \in [DOMAIN table' -> Row]
        /\ Bounded' /\ RowsIssued' /\ InheritsNothing'
    <2>1. CASE UNCHANGED table
      BY <1>0, <1>1, <2>1, RowsKept DEF TypeOK
    <2>2. CASE table' = Only(table, DOMAIN table \ {req[c].token})
      <3>1. /\ DOMAIN table' \subseteq Tokens /\ table' \in [DOMAIN table' -> Row]
            /\ Bounded' /\ RowsIssued'
            /\ DOMAIN table' = DOMAIN table \ {req[c].token}
            /\ \A t \in DOMAIN table \ {req[c].token} : table'[t] = table[t]
        BY <1>1, <2>2, RowsDeleted
      <3>2. InheritsNothing'
        BY <1>1, <3>1 DEF SessionsInv, SessionsSound, InheritsNothing, Configured
      <3> QED BY <3>1, <3>2
    <2> QED BY <2>1, <2>2 DEF DeleteEnded, Logout, Finish, Cut
  <1> QED BY <1>0, <1>1, <1>2, <1>3, Together DEF TypeOK, history

\* A touch moves a row's last use and the last request that extended it together,
\* and may bring the former back but never the latter.
LEMMA TouchKeeps ==
  ASSUME SessionsInv, NEW c \in Clients, Touch(c)
  PROVE  SessionsInv'
  <1> DEFINE t == req[c].token
  <1>0. TypeOK /\ req \in [Clients -> Request] /\ req[c] \in Request /\ req[c].pc = "touch"
        /\ t \in issued /\ req[c].kind = "call" /\ t \in Tokens /\ req[c].now \in Time
    BY DEF SessionsInv, SessionsSound, TypeOK, Touch, Presented, Request
  <1>1. UNCHANGED <<clock, account, restarts, faults, issued>> /\ Configured' = Configured
    BY DEF Touch, Configured
  <1>2. /\ DOMAIN table' = DOMAIN table
        /\ \A s \in DOMAIN table : /\ s # t => table'[s] = table[s]
                                   /\ s = t => table'[s] = [table[s] EXCEPT !.seen = req[c].now]
    BY DEF Touch
  <1>3. \A s \in DOMAIN table : table'[s] \in Row /\ table'[s].user = table[s].user
    BY <1>0, <1>2 DEF TypeOK, Row
  <1>4. table' \in [DOMAIN table' -> Row] /\ DOMAIN table' \subseteq Tokens
    BY <1>0, <1>2, <1>3 DEF TypeOK, Touch
  <1>5. /\ asked' \in [Tokens -> Time]
        /\ asked'[t] >= req[c].now
        /\ \A s \in Tokens : asked'[s] >= asked[s] /\ asked[s] \in Nat /\ asked'[s] \in Nat
    BY <1>0, SessionsAssumption DEF Touch, TypeOK, Time, Kinds
  <1>6. Bounded'
    <2>1. \A u \in Users : {s \in DOMAIN table' : table'[s].user = u} = {s \in DOMAIN table : table[s].user = u}
      BY <1>2, <1>3
    <2> QED BY <1>2, <2>1 DEF SessionsInv, SessionsSound, Bounded
  <1>7. InheritsNothing'
    BY <1>1, <1>2, <1>3 DEF SessionsInv, SessionsSound, InheritsNothing
  <1>8. RowsIssued'
    <2> SUFFICES ASSUME NEW s \in DOMAIN table PROVE table'[s].seen <= asked'[s]
      BY <1>1, <1>2 DEF SessionsInv, RowsIssued
    <2>1. s \in Tokens /\ table[s] \in Row /\ table[s].seen <= asked[s] /\ table[s].seen \in Nat
      BY <1>0 DEF TypeOK, SessionsInv, RowsIssued, Row, Time
    <2>2. CASE s = t
      BY <1>0, <1>2, <1>5, <2>1, <2>2 DEF Row
    <2>3. CASE s # t
      BY <1>2, <1>5, <2>1, <2>3
    <2> QED BY <2>2, <2>3
  <1>9. /\ req' \in [Clients -> Request]
        /\ req'[c].pc = "admitted" /\ req'[c].kind = "call" /\ req'[c].token = t
        /\ \A d \in Clients \ {c} : req'[d] = req[d]
    BY <1>0 DEF Touch, Then, Request, Labels
  <1>10. ValidInTime'
    <2> SUFFICES ASSUME NEW d \in Clients, Valid(d)'
                 PROVE  req'[d].now - asked'[req'[d].token] < Idle
      BY DEF ValidInTime
    <2>1. d # c /\ req'[d] = req[d] /\ Valid(d)
      BY <1>9 DEF Valid
    <2>2. req[d].now - asked[req[d].token] < Idle /\ req[d].token \in Tokens /\ req[d].now \in Nat
      BY <1>0, <2>1 DEF SessionsInv, SessionsSound, ValidInTime, Presented, Valid, TypeOK, Request, Time
    <2> QED BY <1>5, <2>1, <2>2, SessionsAssumption
  <1>11. Presented'
    BY <1>0, <1>1, <1>9 DEF SessionsInv, Presented
  <1>12. Drawn'
    <2> SUFFICES ASSUME NEW e \in Clients, req'[e].pc = "rotate"
                 PROVE  /\ req'[e].kind = "login" /\ req'[e].user \in Configured
                        /\ req'[e].token \in Tokens \ issued
                        /\ \A d \in Clients \ {e} : req'[d].token # req'[e].token
      BY <1>1 DEF Drawn
    <2>1. e # c /\ req'[e] = req[e]
      BY <1>9
    <2>2. \A d \in Clients : req'[d].token = req[d].token
      BY <1>9
    <2> QED BY <2>1, <2>2 DEF SessionsInv, Drawn
  <1> QED BY <1>0, <1>1, <1>4, <1>5, <1>6, <1>7, <1>8, <1>9, <1>10, <1>11, <1>12, Together DEF TypeOK

\* The rows that Latest keeps are rows, and no more than it is told to.
LEMMA LatestKeeps ==
  ASSUME NEW stored, NEW S, NEW n, NEW keep, Latest(stored, S, n, keep)
  PROVE  keep \subseteq S /\ Cardinality(keep) <= n
  BY DEF Latest

\* A sign-in makes room before it inserts its row, which is one that never was.
LEMMA RotateKeeps ==
  ASSUME SessionsInv, NEW c \in Clients, Rotate(c)
  PROVE  SessionsInv'
  <1> DEFINE r == req[c]
             current == Current(r.old, r.now)
             mine == {t \in current : table[t].user = r.user}
             row == [user |-> r.user, created |-> r.now, seen |-> r.now]
  <1>0. TypeOK /\ req \in [Clients -> Request] /\ r \in Request /\ r.pc = "rotate" /\ r.kind = "login"
        /\ r.user \in Configured /\ r.token \in Tokens \ issued
        /\ \A d \in Clients \ {c} : req[d].token # r.token
    BY DEF SessionsInv, SessionsSound, TypeOK, Rotate, Drawn
  <1>r. r.now \in Time /\ r.user \in Users /\ row \in Row
    BY <1>0 DEF Request, Row, Configured
  <1>1. UNCHANGED <<clock, account, restarts, faults>> /\ Configured' = Configured
    BY DEF Rotate, Configured
  <1>2. PICK own \in SUBSET mine, keep \in SUBSET current :
          /\ Latest(table, mine, PerUser - 1, own)
          /\ Latest(table, (current \ mine) \cup own, Total - 1, keep)
          /\ table' = Put(Only(table, keep), r.token, row)
    BY DEF Rotate
  <1>3. current \subseteq DOMAIN table
    BY DEF Current
  <1>4. keep \subseteq DOMAIN table /\ own \subseteq DOMAIN table
        /\ Cardinality(keep) <= Total - 1 /\ Cardinality(own) <= PerUser - 1
        /\ keep \subseteq (current \ mine) \cup own
    <2> HIDE DEF current, mine
    <2>1. own \subseteq mine /\ Cardinality(own) <= PerUser - 1
      BY <1>2, LatestKeeps
    <2>2. keep \subseteq (current \ mine) \cup own /\ Cardinality(keep) <= Total - 1
      BY <1>2, LatestKeeps
    <2>3. mine \subseteq current
      BY DEF mine
    <2> QED BY <1>3, <2>1, <2>2, <2>3
  <1>5. /\ r.token \notin DOMAIN table
        /\ DOMAIN table' = keep \cup {r.token}
        /\ table'[r.token] = row
        /\ \A t \in keep : t # r.token /\ table'[t] = table[t]
    <2>1. r.token \notin DOMAIN table
      BY <1>0 DEF SessionsInv, RowsIssued
    <2> QED BY <1>2, <1>4, <2>1 DEF Put, Only
  <1>6. table' \in [DOMAIN table' -> Row] /\ DOMAIN table' \subseteq Tokens
    <2>1. \A t \in DOMAIN table' : table'[t] \in Row
      BY <1>0, <1>r, <1>4, <1>5 DEF TypeOK
    <2>2. table' = [t \in DOMAIN table' |-> table'[t]]
      BY <1>2 DEF Put
    <2> QED BY <1>0, <1>4, <1>5, <2>1, <2>2 DEF TypeOK
  <1>7. Bounded'
    <2>1. IsFiniteSet(keep) /\ IsFiniteSet(own) /\ Cardinality(keep) \in Nat /\ Cardinality(own) \in Nat
      BY <1>0, <1>4, FiniteRows
    <2>2. Cardinality(DOMAIN table') <= Total
      <3>1. Cardinality(keep \cup {r.token}) = Cardinality(keep) + 1
        BY <1>4, <1>5, <2>1, FS_AddElement
      <3> QED BY <1>4, <1>5, <2>1, <3>1, SessionsAssumption
    <2>3. ASSUME NEW u \in Users
          PROVE  Cardinality({t \in DOMAIN table' : table'[t].user = u}) <= PerUser
      <3> DEFINE B == {t \in DOMAIN table' : table'[t].user = u}
                 A == {t \in DOMAIN table : table[t].user = u}
      <3>1. CASE u = r.user
        <4>1. B \subseteq own \cup {r.token}
          BY <1>4, <1>5, <3>1
        <4>2. IsFiniteSet(own \cup {r.token}) /\ Cardinality(own \cup {r.token}) <= Cardinality(own) + 1
              /\ Cardinality(own \cup {r.token}) \in Nat
          <5>1. /\ IsFiniteSet(own \cup {r.token})
                /\ Cardinality(own \cup {r.token}) =
                     IF r.token \in own THEN Cardinality(own) ELSE Cardinality(own) + 1
            <6> HIDE DEF r
            <6> QED BY <2>1, FS_AddElement
          <5> QED BY <2>1, <5>1
        <4>3. Cardinality(B) <= Cardinality(own \cup {r.token}) /\ Cardinality(B) \in Nat
          <5> HIDE DEF B
          <5> QED BY <4>1, <4>2, FS_Subset, FS_CardinalityType
        <4> HIDE DEF B
        <4>4. Cardinality(B) <= PerUser
          BY <1>4, <2>1, <4>2, <4>3, SessionsAssumption
        <4> QED BY <4>4 DEF B
      <3>2. CASE u # r.user
        <4>1. B \subseteq A /\ A \subseteq DOMAIN table
          BY <1>4, <1>5, <3>2
        <4>2. IsFiniteSet(A) /\ Cardinality(A) \in Nat /\ Cardinality(A) <= PerUser
          BY <1>0, <4>1, FiniteRows DEF SessionsInv, SessionsSound, Bounded
        <4>3. Cardinality(B) <= Cardinality(A) /\ Cardinality(B) \in Nat
          <5> HIDE DEF A, B
          <5> QED BY <4>1, <4>2, FS_Subset, FS_CardinalityType
        <4> HIDE DEF A, B
        <4>4. Cardinality(B) <= PerUser
          BY <4>2, <4>3, SessionsAssumption
        <4> QED BY <4>4 DEF B
      <3> QED BY <3>1, <3>2
    <2> QED BY <2>2, <2>3 DEF Bounded
  <1>8. InheritsNothing'
    BY <1>0, <1>1, <1>4, <1>5 DEF SessionsInv, SessionsSound, InheritsNothing
  <1>9. /\ issued' = issued \cup {r.token} /\ issued' \subseteq Tokens
        /\ asked' \in [Tokens -> Time] /\ asked'[r.token] = r.now
        /\ \A t \in Tokens \ {r.token} : asked'[t] = asked[t]
    BY <1>0, <1>r DEF Rotate, TypeOK
  <1>10. RowsIssued'
    <2>1. DOMAIN table' \subseteq issued'
      BY <1>4, <1>5, <1>9 DEF SessionsInv, RowsIssued
    <2>2. row.seen <= r.now
      BY <1>r DEF Time
    <2>3. \A t \in keep : table'[t].seen <= asked'[t]
      BY <1>0, <1>4, <1>5, <1>9 DEF SessionsInv, RowsIssued, TypeOK
    <2> QED BY <1>5, <1>9, <2>1, <2>2, <2>3 DEF RowsIssued
  <1>11. /\ req' \in [Clients -> Request]
         /\ req'[c].pc = "admitted" /\ req'[c].kind = r.kind /\ req'[c].token = r.token
         /\ \A d \in Clients \ {c} : req'[d] = req[d]
    BY <1>0 DEF Rotate, Then, Request, Labels
  <1>12. ValidInTime'
    <2> SUFFICES ASSUME NEW d \in Clients, Valid(d)'
                 PROVE  req'[d].now - asked'[req'[d].token] < Idle
      BY DEF ValidInTime
    <2>1. d # c /\ req'[d] = req[d] /\ Valid(d)
      BY <1>0, <1>11 DEF Valid
    <2>2. req[d].now - asked[req[d].token] < Idle /\ req[d].token \in issued /\ req[d].token \in Tokens
      BY <1>0, <2>1 DEF SessionsInv, SessionsSound, ValidInTime, Presented, Valid, TypeOK
    <2> QED BY <1>0, <1>9, <2>1, <2>2
  <1>13. Presented'
    BY <1>0, <1>9, <1>11 DEF SessionsInv, Presented
  <1>14. Drawn'
    <2> SUFFICES ASSUME NEW e \in Clients, req'[e].pc = "rotate"
                 PROVE  /\ req'[e].kind = "login" /\ req'[e].user \in Configured
                        /\ req'[e].token \in Tokens \ issued'
                        /\ \A d \in Clients \ {e} : req'[d].token # req'[e].token
      BY <1>1 DEF Drawn
    <2>1. e # c /\ req'[e] = req[e]
      BY <1>11
    <2>2. \A d \in Clients : req'[d].token = req[d].token
      BY <1>11
    <2>3. req[e].token # r.token
      BY <1>0, <2>1
    <2> QED BY <1>9, <2>1, <2>2, <2>3 DEF SessionsInv, Drawn
  <1> QED BY <1>0, <1>1, <1>6, <1>7, <1>8, <1>9, <1>10, <1>11, <1>12, <1>13, <1>14, Together

\* The clock moves, and nobody looks at it.
LEMMA ClockKeeps ==
  ASSUME SessionsInv, Tick \/ StepBack
  PROVE  SessionsInv'
  <1>1. UNCHANGED <<account, table, req, restarts, history>>
    BY DEF Tick, StepBack
  <1>2. TypeOK'
    BY <1>1, SessionsAssumption DEF SessionsInv, SessionsSound, TypeOK, Time, Tick, StepBack, history
  <1>3. Bounded' /\ InheritsNothing' /\ RowsIssued'
    BY <1>1, RowsKept
  <1>4. ValidInTime' /\ Presented' /\ Drawn'
    BY <1>1 DEF SessionsInv, SessionsSound, ValidInTime, Valid, Presented, Drawn, Configured, history
  <1> QED BY <1>2, <1>3, <1>4 DEF SessionsInv, SessionsSound

\* A start with a new configuration prunes the rows of the names it lacks.
LEMMA RestartKeeps ==
  ASSUME SessionsInv, Restart
  PROVE  SessionsInv'
  <1> DEFINE S == {t \in DOMAIN table : table[t].user \in Configured'}
  <1>1. TypeOK /\ UNCHANGED <<clock, faults, history>> /\ restarts' = restarts + 1
        /\ table' = Only(table, S) /\ restarts < MaxRestarts
    BY DEF Restart, SessionsInv, SessionsSound
  <1>2. S \in SUBSET DOMAIN table
    OBVIOUS
  <1>3. /\ DOMAIN table' \subseteq Tokens /\ table' \in [DOMAIN table' -> Row]
        /\ Bounded' /\ RowsIssued'
        /\ DOMAIN table' = S /\ \A t \in S : table'[t] = table[t]
    <2> HIDE DEF S
    <2> QED BY <1>1, <1>2, RowsDeleted
  <1>4. InheritsNothing'
    BY <1>3 DEF InheritsNothing
  <1>5. req' = [c \in Clients |-> NoRequest] /\ NoRequest \in Request
    BY SessionsAssumption DEF Restart, NoRequest, Request, Labels, Kinds, Time
  <1>6. \A c \in Clients : req'[c].pc = "idle"
    BY <1>5 DEF NoRequest
  <1>7. ValidInTime' /\ Presented' /\ Drawn'
    BY <1>6 DEF ValidInTime, Valid, Presented, Drawn
  <1>8. account' \in [Users -> Statuses]
    BY <1>1 DEF Restart, TypeOK
  <1>9. TypeOK'
    BY <1>1, <1>3, <1>5, <1>8, SessionsAssumption DEF TypeOK, history
  <1> QED BY <1>3, <1>4, <1>7, <1>9 DEF SessionsInv, SessionsSound

\* No session, no request.
LEMMA SessionsInit == Init => SessionsInv
  <1> SUFFICES ASSUME Init PROVE SessionsInv
    OBVIOUS
  <1>1. DOMAIN table = {} /\ NoRequest \in Request
    BY SessionsAssumption DEF Init, NoRequest, Request, Labels, Kinds, Time
  <1>2. \A c \in Clients : req[c].pc = "idle"
    BY DEF Init, NoRequest
  <1>3. TypeOK
    BY <1>1, SessionsAssumption DEF Init, TypeOK, Time, Statuses
  <1>4. Bounded
    <2>1. \A u \in Users : {t \in DOMAIN table : table[t].user = u} = {}
      BY <1>1
    <2> QED BY <1>1, <2>1, FS_EmptySet, SessionsAssumption DEF Bounded
  <1> QED BY <1>1, <1>2, <1>3, <1>4 DEF SessionsInv, SessionsSound, ValidInTime, Valid, InheritsNothing,
        RowsIssued, Presented, Drawn

\* Every step keeps the invariant.
LEMMA SessionsNext == SessionsInv /\ [Next]_vars => SessionsInv'
  <1> SUFFICES ASSUME SessionsInv, [Next]_vars PROVE SessionsInv'
    OBVIOUS
  <1>1. CASE UNCHANGED vars
    BY <1>1 DEF vars, history, SessionsInv, SessionsSound, TypeOK, Bounded, ValidInTime, Valid,
        InheritsNothing, RowsIssued, Presented, Drawn, Configured
  <1>2. CASE Next
    BY <1>2, ArriveKeeps, LookupKeeps, OverKeeps, TouchKeeps, SignInKeeps, RotateKeeps,
        ClockKeeps, RestartKeeps DEF Next
  <1> QED BY <1>1, <1>2

\* The rows of the sessions table have their types and stay within both limits, a
\* session counts as valid only within its idle time of a request that extended
\* it, and a name removed from the configuration leaves none: for any users,
\* requests, limits and timeouts (Sessions::rotate, authenticate, prune in auth.rs).
THEOREM SessionsAlwaysSound == Spec => []SessionsSound
  <1>1. SessionsInv => SessionsSound
    BY DEF SessionsInv
  <1> QED BY <1>1, SessionsInit, SessionsNext, PTL DEF Spec

\* A session that has ended stays ended, whichever requests were let in before:
\* only a sign-in inserts a row, under a token that was never issued
\* (auth.rs: touch is an UPDATE, rotate an INSERT).
THEOREM EndedAlwaysStaysEnded == Spec => EndedStaysEnded
  <1>1. SessionsInv /\ [Next]_vars => [\A t \in issued \ DOMAIN table : t \notin DOMAIN table']_vars
    <2> SUFFICES ASSUME SessionsInv, Next, NEW t \in issued \ DOMAIN table
                 PROVE  t \notin DOMAIN table'
      BY DEF vars, history
    <2>1. CASE UNCHANGED table
      BY <2>1
    <2>2. ASSUME NEW S, table' = Only(table, S), S \subseteq DOMAIN table PROVE t \notin DOMAIN table'
      BY <2>2 DEF Only
    <2>3. ASSUME NEW c \in Clients, Touch(c) PROVE t \notin DOMAIN table'
      BY <2>3 DEF Touch
    <2>4. ASSUME NEW c \in Clients, Rotate(c) PROVE t \notin DOMAIN table'
      <3>1. PICK keep \in SUBSET Current(req[c].old, req[c].now) :
                table' = Put(Only(table, keep), req[c].token,
                             [user |-> req[c].user, created |-> req[c].now, seen |-> req[c].now])
        BY <2>4 DEF Rotate
      <3>2. DOMAIN table' = keep \cup {req[c].token} /\ keep \subseteq DOMAIN table
        BY <3>1 DEF Put, Only, Current
      <3>3. req[c].token \notin issued
        BY <2>4 DEF SessionsInv, Drawn, Rotate
      <3> QED BY <3>2, <3>3
    <2>5. CASE Restart
      <3>1. \E S \in SUBSET DOMAIN table : table' = Only(table, S)
        BY <2>5 DEF Restart
      <3> QED BY <2>2, <3>1
    <2>6. ASSUME NEW c \in Clients, DeleteEnded(c) \/ Logout(c) PROVE t \notin DOMAIN table'
      BY <2>2, <2>6 DEF DeleteEnded, Logout
    <2>7. ASSUME NEW c \in Clients, Arrive(c) \/ Lookup(c) \/ Finish(c) \/ SignIn(c) \/ Cut(c)
          PROVE  UNCHANGED table
      BY <2>7 DEF Arrive, Lookup, Finish, SignIn, Cut
    <2>8. Tick \/ StepBack => UNCHANGED table
      BY DEF Tick, StepBack
    <2> QED BY <2>1, <2>3, <2>4, <2>5, <2>6, <2>7, <2>8 DEF Next
  <1> QED BY <1>1, SessionsInit, SessionsNext, PTL DEF Spec, EndedStaysEnded

-----------------------------------------------------------------------------
(* The search index: paths                                                  *)


LEMMA Bounds == /\ MaxDepth \in Nat /\ MaxEntries \in Nat /\ MaxPending \in Nat
                /\ MaxQueue \in Nat /\ MaxQueue > 0 /\ Allowances \subseteq Nat
  BY SearchAssumption

\* What a sequence holds it still holds, in its place, when something is appended.
LEMMA AppendKeeps ==
  ASSUME NEW S, NEW s \in Seq(S), NEW x \in S
  PROVE  /\ Append(s, x) \in Seq(S) /\ Len(Append(s, x)) = Len(s) + 1 /\ Len(s) \in Nat
         /\ \A k \in DOMAIN s : k \in DOMAIN Append(s, x) /\ Append(s, x)[k] = s[k]
         /\ \E k \in DOMAIN Append(s, x) : Append(s, x)[k] = x
         /\ \A k \in DOMAIN Append(s, x) : k \in DOMAIN s \/ Append(s, x)[k] = x
  <1> DEFINE t == Append(s, x)
  <1>1. /\ t \in Seq(S) /\ Len(s) \in Nat /\ Len(t) = Len(s) + 1
        /\ \A i \in 1 .. Len(s) : t[i] = s[i]
        /\ t[Len(s) + 1] = x
    BY AppendProperties, LenProperties
  <1>2. DOMAIN s = 1 .. Len(s) /\ DOMAIN t = 1 .. Len(s) + 1
    BY <1>1, LenProperties
  <1> HIDE DEF t
  <1>3. \A k \in 1 .. Len(s) : k \in 1 .. Len(s) + 1
    BY <1>1
  <1>4. Len(s) + 1 \in 1 .. Len(s) + 1
    BY <1>1
  <1>5. \A k \in 1 .. Len(s) + 1 : k \in 1 .. Len(s) \/ k = Len(s) + 1
    BY <1>1
  <1>6. \A k \in DOMAIN t : k \in DOMAIN s \/ t[k] = x
    BY <1>1, <1>2, <1>5
  <1>7. \A k \in DOMAIN s : k \in DOMAIN t /\ t[k] = s[k]
    BY <1>1, <1>2, <1>3
  <1>8. \E k \in DOMAIN t : t[k] = x
    BY <1>1, <1>2, <1>4
  <1> QED BY <1>1, <1>6, <1>7, <1>8 DEF t

\* A name is appended to a path.
LEMMA AppendFacts ==
  ASSUME NEW p \in Seq(Names), NEW n \in Names
  PROVE  /\ Append(p, n) \in Seq(Names) /\ Len(Append(p, n)) = Len(p) + 1 /\ Len(p) \in Nat
         /\ Append(p, n)[Len(p) + 1] = n
         /\ \A i \in 1 .. Len(p) : Append(p, n)[i] = p[i]
  BY AppendProperties, LenProperties

\* What an entry is called, and where it is, can be read from its path.
LEMMA ChildrenDiffer ==
  ASSUME NEW p \in Seq(Names), NEW q \in Seq(Names), NEW m \in Names, NEW n \in Names,
         Append(p, m) = Append(q, n)
  PROVE  p = q /\ m = n
  <1>1. Len(p) = Len(q) /\ Len(p) \in Nat
    BY AppendFacts
  <1>2. m = n
    BY <1>1, AppendFacts
  <1>3. \A i \in 1 .. Len(p) : p[i] = q[i]
    BY <1>1, AppendFacts
  <1> QED BY <1>1, <1>2, <1>3, SeqEqual

\* Being below a path, name by name; everything but the root is below the root.
LEMMA BelowFacts ==
  ASSUME NEW p \in Seq(Names), NEW q \in Seq(Names)
  PROVE  /\ Len(p) \in Nat /\ Len(q) \in Nat
         /\ Below(p, q) <=> Len(p) > Len(q) /\ \A i \in 1 .. Len(q) : p[i] = q[i]
         /\ Below(p, Root) <=> p # Root
  <1>1. Len(p) \in Nat /\ Len(q) \in Nat /\ (Len(p) = 0 <=> p = <<>>)
    BY LenProperties, EmptySeq
  <1>2. ASSUME NEW r \in Seq(Names), Len(p) > Len(r)
        PROVE  SubSeq(p, 1, Len(r)) = r <=> \A i \in 1 .. Len(r) : p[i] = r[i]
    <2>1. Len(r) \in Nat /\ 1 \in 1 .. Len(p) + 1 /\ Len(r) \in 0 .. Len(p)
      BY <1>1, <1>2, LenProperties
    <2>2. /\ SubSeq(p, 1, Len(r)) \in Seq(Names)
          /\ Len(SubSeq(p, 1, Len(r))) = Len(r)
          /\ \A i \in 1 .. Len(r) : SubSeq(p, 1, Len(r))[i] = p[i]
      BY <1>1, <2>1
    <2> QED BY <2>1, <2>2, SeqEqual
  <1>3. Root \in Seq(Names) /\ Len(Root) = 0
    BY EmptySeq DEF Root
  <1>4. Below(p, q) <=> Len(p) > Len(q) /\ \A i \in 1 .. Len(q) : p[i] = q[i]
    BY <1>2 DEF Below
  <1>5. Below(p, Root) <=> p # Root
    BY <1>1, <1>2, <1>3 DEF Below, Root
  <1> QED BY <1>1, <1>4, <1>5

\* Below an entry of p is what is below p and goes through it.
LEMMA BelowChild ==
  ASSUME NEW p \in Seq(Names), NEW g \in Seq(Names), NEW n \in Names
  PROVE  Below(Append(p, n), g) <=> p = g \/ Below(p, g)
  <1> DEFINE c == Append(p, n)
  <1>1. /\ c \in Seq(Names) /\ Len(c) = Len(p) + 1 /\ Len(p) \in Nat /\ Len(g) \in Nat
        /\ \A i \in 1 .. Len(p) : c[i] = p[i]
    BY AppendFacts, LenProperties
  <1> HIDE DEF c
  <1>2. Below(c, g) <=> Len(p) + 1 > Len(g) /\ \A i \in 1 .. Len(g) : p[i] = g[i]
    <2>1. Below(c, g) <=> Len(c) > Len(g) /\ \A i \in 1 .. Len(g) : c[i] = g[i]
      BY <1>1, BelowFacts
    <2>2. Len(p) + 1 > Len(g) => \A i \in 1 .. Len(g) : c[i] = p[i]
      BY <1>1
    <2> QED BY <1>1, <2>1, <2>2
  <1>3. Below(p, g) <=> Len(p) > Len(g) /\ \A i \in 1 .. Len(g) : p[i] = g[i]
    BY BelowFacts
  <1>4. p = g <=> Len(p) = Len(g) /\ \A i \in 1 .. Len(g) : p[i] = g[i]
    BY SeqEqual
  <1> QED BY <1>1, <1>2, <1>3, <1>4 DEF c

\* What is below q is an entry of q, or below one: the one that its next name is of.
LEMMA ChildTowards ==
  ASSUME NEW p \in Seq(Names), NEW q \in Seq(Names), Below(p, q)
  PROVE  LET n == p[Len(q) + 1] IN n \in Names /\ (p = Append(q, n) \/ Below(p, Append(q, n)))
  <1> DEFINE n == p[Len(q) + 1]
             c == Append(q, n)
  <1>1. /\ Len(p) \in Nat /\ Len(q) \in Nat /\ Len(p) > Len(q)
        /\ \A i \in 1 .. Len(q) : p[i] = q[i]
    BY BelowFacts
  <1>2. n \in Names
    BY <1>1, ElementOfSeq
  <1>3. /\ c \in Seq(Names) /\ Len(c) = Len(q) + 1 /\ c[Len(q) + 1] = n
        /\ \A i \in 1 .. Len(q) : c[i] = q[i]
    BY <1>2, AppendFacts
  <1> HIDE DEF c
  <1>4. \A i \in 1 .. Len(c) : p[i] = c[i]
    <2> TAKE i \in 1 .. Len(c)
    <2>1. CASE i = Len(q) + 1
      BY <1>3, <2>1
    <2>2. CASE i # Len(q) + 1
      <3>1. i \in 1 .. Len(q)
        BY <1>1, <1>3, <2>2
      <3> QED BY <1>1, <1>3, <3>1
    <2> QED BY <2>1, <2>2
  <1>5. Len(p) = Len(c) => p = c
    BY <1>3, <1>4, SeqEqual
  <1>6. Len(p) # Len(c) => Below(p, c)
    BY <1>1, <1>3, <1>4, BelowFacts
  <1> QED BY <1>2, <1>5, <1>6 DEF c

\* No entry of a directory is below another one.
LEMMA ChildrenApart ==
  ASSUME NEW p \in Seq(Names), NEW m \in Names, NEW n \in Names
  PROVE  ~Below(Append(p, m), Append(p, n))
  <1> DEFINE b == Append(p, m)
             c == Append(p, n)
  <1>1. b \in Seq(Names) /\ c \in Seq(Names) /\ Len(b) = Len(c)
    BY AppendFacts
  <1> HIDE DEF b, c
  <1>2. ~Below(b, c)
    BY <1>1, BelowFacts
  <1> QED BY <1>2 DEF b, c

\* Every path but the root has a parent.
LEMMA ParentIsPath ==
  ASSUME NEW p \in Seq(Names), p # Root
  PROVE  Parent(p) \in Seq(Names)
  <1>1. Len(p) \in Nat /\ Len(p) # 0
    BY LenProperties, EmptySeq DEF Root
  <1>2. 1 \in 1 .. Len(p) + 1 /\ Len(p) - 1 \in 0 .. Len(p)
    BY <1>1
  <1> QED BY <1>2, SubSeqProperties DEF Parent

-----------------------------------------------------------------------------
(* Finite sets, and the order in which a set is gone through                *)

LEMMA LeastIndexed ==
  ASSUME NEW S, S # {}, NEW f \in [S -> Nat]
  PROVE  \E x \in S : \A y \in S : f[x] <= f[y]
  <1> DEFINE R == OpToRel(<, Nat)
             T == {f[x] : x \in S}
  <1>1. IsWellFoundedOn(R, Nat)
    BY NatLessThanWellFounded
  <1>2. \A a, b \in Nat : a < b => <<a, b>> \in R
    BY DEF OpToRel
  <1> HIDE DEF R
  <1>3. T \subseteq Nat /\ T # {}
    OBVIOUS
  <1>4. PICK m \in T : \A n \in T : <<n, m>> \notin R
    <2> HIDE DEF T
    <2> QED BY <1>1, <1>3, WFMin
  <1>5. \A n \in T : m <= n
    <2>1. \A n \in T : ~(n < m)
      BY <1>2, <1>3, <1>4
    <2> QED BY <1>3, <2>1
  <1> QED BY <1>5

\* What fails for some number fails for a least one.
LEMMA LeastNumber ==
  ASSUME NEW S \in SUBSET Nat, S # {}
  PROVE  \E n \in S : \A m \in S : n <= m
  <1> DEFINE id == [n \in S |-> n]
  <1>1. id \in [S -> Nat]
    OBVIOUS
  <1>2. \E n \in S : \A m \in S : id[n] <= id[m]
    <2> HIDE DEF id
    <2> QED BY <1>1, LeastIndexed
  <1> QED BY <1>2

\* Numbers up to n are finitely many.
LEMMA CountTo ==
  ASSUME NEW n \in Nat
  PROVE  IsFiniteSet(1 .. n) /\ Cardinality(1 .. n) = n
  <1>1. 1 \in Int /\ n \in Int
    OBVIOUS
  <1>2. IsFiniteSet(1 .. n) /\ Cardinality(1 .. n) = IF 1 > n THEN 0 ELSE n - 1 + 1
    BY <1>1, FS_Interval
  <1> QED BY <1>2

\* A sequence without repetitions, as long as the set, goes through all of it.
LEMMA GoesThrough ==
  ASSUME NEW S, IsFiniteSet(S), NEW s \in [1 .. Cardinality(S) -> S],
         \A i, j \in 1 .. Cardinality(S) : s[i] = s[j] => i = j
  PROVE  /\ s \in Seq(S) /\ Len(s) = Cardinality(S) /\ Cardinality(S) \in Nat
         /\ \A x \in S : \E i \in 1 .. Len(s) : s[i] = x
  <1> DEFINE m == Cardinality(S)
  <1>1. m \in Nat
    BY FS_CardinalityType
  <1>2. s \in Injection(1 .. m, S)
    BY DEF Injection, IsInjective
  <1> HIDE DEF m
  <1>3. s \in Seq(S) /\ Len(s) = m
    <2>1. s \in [1 .. m -> S]
      BY DEF m
    <2> QED BY <1>1, <2>1
  <1>4. Cardinality(1 .. m) = m
    BY <1>1, CountTo
  <1>5. s \in Surjection(1 .. m, S)
    BY <1>2, <1>4, FS_Injection DEF m
  <1>6. \A x \in S : \E i \in 1 .. m : s[i] = x
    BY <1>5 DEF Surjection
  <1> QED BY <1>1, <1>3, <1>6 DEF m

\* Listing a finite set, as Draft does, leaves none of it out.
LEMMA SetToSeqGoesThrough ==
  ASSUME NEW S, IsFiniteSet(S)
  PROVE  /\ SetToSeq(S) \in Seq(S) /\ Len(SetToSeq(S)) \in Nat
         /\ \A x \in S : \E i \in 1 .. Len(SetToSeq(S)) : SetToSeq(S)[i] = x
         /\ \A i, j \in 1 .. Len(SetToSeq(S)) : SetToSeq(S)[i] = SetToSeq(S)[j] => i = j
  <1> DEFINE m == Cardinality(S)
  <1>1. ExistsBijection(1 .. m, S)
    BY FS_CardinalityType
  <1>2. PICK f \in [1 .. m -> S] : \A i, j \in 1 .. m : f[i] = f[j] => i = j
    BY <1>1 DEF ExistsBijection, Bijection, Injection, IsInjective
  <1>3. IsInjective(f)
    BY <1>2 DEF IsInjective
  <1>4. SetToSeq(S) \in [1 .. m -> S] /\ IsInjective(SetToSeq(S))
    BY <1>2, <1>3 DEF SetToSeq
  <1>5. \A i, j \in 1 .. m : SetToSeq(S)[i] = SetToSeq(S)[j] => i = j
    BY <1>4 DEF IsInjective
  <1> HIDE DEF m
  <1>6. /\ SetToSeq(S) \in Seq(S) /\ Len(SetToSeq(S)) = m /\ m \in Nat
        /\ \A x \in S : \E i \in 1 .. Len(SetToSeq(S)) : SetToSeq(S)[i] = x
    BY <1>4, <1>5, GoesThrough DEF m
  <1> QED BY <1>5, <1>6

\* Nor does any of the orders in which Refresh takes the dirty directories.
LEMMA SetToSeqsGoThrough ==
  ASSUME NEW S, IsFiniteSet(S), NEW s \in SetToSeqs(S)
  PROVE  s \in Seq(S) /\ \A x \in S : \E i \in DOMAIN s : s[i] = x
  <1>1. s \in [1 .. Cardinality(S) -> S]
        /\ \A i, j \in 1 .. Cardinality(S) : s[i] = s[j] => i = j
    BY DEF SetToSeqs
  <1>2. /\ s \in Seq(S) /\ Len(s) = Cardinality(S)
        /\ \A x \in S : \E i \in 1 .. Len(s) : s[i] = x
    BY <1>1, GoesThrough
  <1> QED BY <1>2

\* Without some of its elements a set has so many fewer.
LEMMA Fewer ==
  ASSUME NEW S, IsFiniteSet(S), NEW T \in SUBSET S
  PROVE  /\ IsFiniteSet(T) /\ IsFiniteSet(S \ T)
         /\ Cardinality(S) \in Nat /\ Cardinality(T) \in Nat /\ Cardinality(S \ T) \in Nat
         /\ Cardinality(S \ T) = Cardinality(S) - Cardinality(T)
         /\ Cardinality(S \ T) <= Cardinality(S)
  <1>1. IsFiniteSet(T) /\ IsFiniteSet(S \ T)
    BY FS_Subset
  <1>2. S \cap T = T
    OBVIOUS
  <1>3. Cardinality(S \ T) = Cardinality(S) - Cardinality(T)
    BY <1>2, FS_Difference
  <1>4. Cardinality(S) \in Nat /\ Cardinality(T) \in Nat /\ Cardinality(S \ T) \in Nat
    BY <1>1, FS_CardinalityType
  <1> QED BY <1>1, <1>3, <1>4

-----------------------------------------------------------------------------
(* One listing is made the rows                                             *)

\* Rows, their number and the bounds on them.
RowsSound(r, n) ==
    /\ DOMAIN r \subseteq Seq(Names) /\ r \in [DOMAIN r -> Entry]
    /\ \A p \in DOMAIN r : Len(p) <= MaxDepth
    /\ IsFiniteSet(DOMAIN r)
    /\ n = Cardinality(DOMAIN r) /\ n <= MaxEntries

\* The child of the listed directory.
Child(n) == Append(todo.path, n)
IsDirectory(r, q) == q \in DOMAIN r /\ r[q].kind = "directory"

\* The worker has the listing of a directory in its hands.
Reading ==
    /\ w \in Work /\ todo \in Task
    /\ DOMAIN todo.listing \subseteq Names /\ IsFiniteSet(DOMAIN todo.listing)
    /\ todo.listing \in [DOMAIN todo.listing -> Entry]
    /\ RowsSound(rows, total)

LEMMA ReadingTypes ==
  ASSUME Reading
  PROVE  /\ todo.path \in Seq(Names) /\ todo.recursive \in BOOLEAN /\ todo.hit \in BOOLEAN
         /\ w.pending \in Seq(Seq(Names) \X BOOLEAN)
  BY DEF Reading, Work, Task

\* What is true of a draft in which the names of D have been gone through: these are
\* in it as listed, directories to descend into are pending, or a bound was met;
\* rows have left it only below a directory that turned into a file.
Grown(s) ==
    /\ s = [rows |-> s.rows, count |-> s.count, pending |-> s.pending, hit |-> s.hit]
    /\ RowsSound(s.rows, s.count)
    /\ s.hit \in BOOLEAN /\ (todo.hit => s.hit)
Queued(s, D) ==
    /\ s.pending \in Seq(Seq(Names) \X BOOLEAN)
    /\ \A k \in DOMAIN w.pending : k \in DOMAIN s.pending /\ s.pending[k] = w.pending[k]
    /\ ~s.hit => \A n \in D :
          todo.listing[n].kind = "directory" /\ (todo.recursive \/ ~IsDirectory(rows, Child(n)))
          => \E k \in DOMAIN s.pending : s.pending[k] = <<Child(n), TRUE>>
Entered(s, D) ==
    /\ ~s.hit => \A n \in D : Child(n) \in DOMAIN s.rows /\ s.rows[Child(n)] = todo.listing[n]
    /\ \A q \in DOMAIN s.rows : (\A n \in D : q # Child(n)) =>
          q \in DOMAIN rows /\ s.rows[q] = rows[q]
Left(s, D) == \A q \in DOMAIN rows \ DOMAIN s.rows : \E n \in D :
    /\ Below(q, Child(n)) /\ ~IsDirectory(s.rows, Child(n))
    /\ \A x \in DOMAIN s.rows : ~Below(x, Child(n))
Drafted(s, D) == Grown(s) /\ Queued(s, D) /\ Entered(s, D) /\ Left(s, D)

\* The path of a child, and what a row there can be to another child.
LEMMA ChildFacts ==
  ASSUME Reading, NEW n \in DOMAIN todo.listing
  PROVE  /\ n \in Names /\ Child(n) \in Seq(Names) /\ todo.listing[n] \in Entry
         /\ \A m \in Names : Child(m) = Child(n) => m = n
         /\ \A m \in Names : ~Below(Child(n), Child(m)) /\ ~Below(Child(m), Child(n))
  <1>1. n \in Names /\ todo.path \in Seq(Names)
    BY ReadingTypes DEF Reading
  <1>2. Child(n) \in Seq(Names)
    BY <1>1, AppendFacts DEF Child
  <1>3. todo.listing[n] \in Entry
    BY DEF Reading
  <1>4. \A m \in Names : Child(m) = Child(n) => m = n
    BY <1>1, ChildrenDiffer DEF Child
  <1>5. \A m \in Names : ~Below(Child(n), Child(m)) /\ ~Below(Child(m), Child(n))
    BY <1>1, ChildrenApart DEF Child
  <1> QED BY <1>1, <1>2, <1>3, <1>4, <1>5

\* A name not gone through yet has the row that it had.
LEMMA NotYet ==
  ASSUME Reading, NEW D \in SUBSET DOMAIN todo.listing, NEW s, Drafted(s, D),
         NEW n \in DOMAIN todo.listing \ D
  PROVE  /\ Child(n) \in DOMAIN s.rows <=> Child(n) \in DOMAIN rows
         /\ Child(n) \in DOMAIN s.rows => s.rows[Child(n)] = rows[Child(n)]
  <1>1. \A m \in D : m \in Names /\ Child(n) # Child(m) /\ ~Below(Child(n), Child(m))
    <2> TAKE m \in D
    <2>1. m \in Names /\ m # n
      BY DEF Reading
    <2> QED BY <2>1, ChildFacts
  <1>2. Child(n) \in DOMAIN s.rows => Child(n) \in DOMAIN rows /\ s.rows[Child(n)] = rows[Child(n)]
    BY <1>1 DEF Drafted, Entered
  <1>3. Child(n) \in DOMAIN rows => Child(n) \in DOMAIN s.rows
    BY <1>1 DEF Drafted, Left
  <1> QED BY <1>2, <1>3

\* There is no room for the entry, and that is noted.
LEMMA NoRoom ==
  ASSUME Reading, NEW D \in SUBSET DOMAIN todo.listing, NEW s, Drafted(s, D),
         NEW n \in DOMAIN todo.listing, NEW r, r = [s EXCEPT !.hit = TRUE]
  PROVE  Drafted(r, D \cup {n})
  <1>1. r = [rows |-> s.rows, count |-> s.count, pending |-> s.pending, hit |-> TRUE]
    BY DEF Drafted, Grown
  <1>2. r.rows = s.rows /\ r.count = s.count /\ r.pending = s.pending /\ r.hit = TRUE
    BY <1>1
  <1>3. Grown(r)
    BY <1>1, <1>2 DEF Drafted, Grown
  <1>4. Queued(r, D \cup {n})
    BY <1>2 DEF Drafted, Queued
  <1>5. Entered(r, D \cup {n})
    BY <1>2 DEF Drafted, Entered
  <1>6. Left(r, D \cup {n})
    BY <1>2 DEF Drafted, Left
  <1> QED BY <1>3, <1>4, <1>5, <1>6 DEF Drafted

\* The entry is made a row, and a directory is queued.
LEMMA Room ==
  ASSUME Reading, NEW D \in SUBSET DOMAIN todo.listing, NEW s, Drafted(s, D),
         NEW n \in DOMAIN todo.listing \ D, NEW r, r = Reconciled(s, n),
         ~(Len(Child(n)) > MaxDepth \/ (Child(n) \notin DOMAIN s.rows /\ s.count >= MaxEntries))
  PROVE  Drafted(r, D \cup {n})
  <1> DEFINE q == Child(n)
             e == todo.listing[n]
             known == q \in DOMAIN s.rows
             IsNew == ~known \/ s.rows[q].kind # e.kind
             lost == {x \in DOMAIN s.rows :
                         known /\ IsNew /\ s.rows[q].kind = "directory" /\ Below(x, q)}
             descend == e.kind = "directory" /\ (todo.recursive \/ IsNew)
             room == Len(s.pending) < MaxPending
  <1>1. r = [rows |-> [x \in (DOMAIN s.rows \ lost) \cup {q} |-> IF x = q THEN e ELSE s.rows[x]],
             count |-> s.count - Cardinality(lost) + (IF known THEN 0 ELSE 1),
             pending |-> IF descend /\ room THEN Append(s.pending, <<q, TRUE>>) ELSE s.pending,
             hit |-> s.hit \/ (descend /\ ~room)]
    BY DEF Reconciled, Child
  <1>2. /\ n \in Names /\ q \in Seq(Names) /\ e \in Entry /\ Len(q) \in Nat
        /\ \A m \in Names : Child(m) = q => m = n
        /\ \A m \in Names : ~Below(q, Child(m)) /\ ~Below(Child(m), q)
    BY ChildFacts, LenProperties
  <1>3. /\ r.hit = (s.hit \/ (descend /\ ~room))
        /\ r.pending = IF descend /\ room THEN Append(s.pending, <<q, TRUE>>) ELSE s.pending
        /\ r.count = s.count - Cardinality(lost) + (IF known THEN 0 ELSE 1)
        /\ r.rows = [x \in (DOMAIN s.rows \ lost) \cup {q} |-> IF x = q THEN e ELSE s.rows[x]]
        /\ r = [rows |-> r.rows, count |-> r.count, pending |-> r.pending, hit |-> r.hit]
    BY <1>1
  <1>4. /\ known <=> q \in DOMAIN rows
        /\ known => s.rows[q] = rows[q]
    BY NotYet
  <1>5. D \subseteq Names
    BY DEF Reading
  <1>6. q \notin lost /\ lost \subseteq DOMAIN s.rows
    BY <1>2
  <1>7. Len(q) <= MaxDepth /\ ~(~known /\ s.count >= MaxEntries)
    BY <1>2, Bounds
  <1>8. /\ DOMAIN r.rows = (DOMAIN s.rows \ lost) \cup {q}
        /\ r.rows[q] = e
        /\ \A x \in DOMAIN r.rows \ {q} : r.rows[x] = s.rows[x]
    BY <1>3
  <1>9. \A x \in lost : known /\ s.rows[q].kind = "directory" /\ e.kind # "directory" /\ Below(x, q)
    OBVIOUS
  <1>10. ASSUME NEW x \in DOMAIN s.rows, NEW y \in lost, Below(x, q) PROVE x \in lost
    <2>1. known /\ IsNew /\ s.rows[q].kind = "directory"
      OBVIOUS
    <2> QED BY <1>10, <2>1
  <1>11. e.kind = "directory" /\ ~IsDirectory(rows, q) => IsNew
    BY <1>4 DEF IsDirectory
  <1>16. descend <=> e.kind = "directory" /\ (todo.recursive \/ IsNew)
    OBVIOUS
  <1> HIDE DEF q, e, known, lost, IsNew, room, descend
  <1>12. Grown(r)
    <2>1. RowsSound(s.rows, s.count) /\ s.hit \in BOOLEAN /\ (todo.hit => s.hit)
      BY DEF Drafted, Grown
    <2>2. r.rows \in [DOMAIN r.rows -> Entry] /\ DOMAIN r.rows \subseteq Seq(Names)
      BY <1>2, <1>3, <1>8, <2>1 DEF RowsSound
    <2>3. \A p \in DOMAIN r.rows : Len(p) <= MaxDepth
      BY <1>7, <1>8, <2>1 DEF RowsSound
    <2>4. /\ IsFiniteSet(DOMAIN r.rows) /\ r.count = Cardinality(DOMAIN r.rows)
          /\ r.count <= MaxEntries
      <3> DEFINE kept == DOMAIN s.rows \ lost
      <3>1. /\ IsFiniteSet(kept) /\ Cardinality(lost) \in Nat /\ Cardinality(kept) \in Nat
            /\ Cardinality(kept) = s.count - Cardinality(lost)
            /\ s.count \in Nat /\ s.count <= MaxEntries /\ MaxEntries \in Nat
        BY <1>6, <2>1, Fewer, SearchAssumption DEF RowsSound
      <3>2. q \in kept <=> known
        BY <1>6 DEF known
      <3> HIDE DEF kept
      <3>3. IsFiniteSet(kept \cup {q})
            /\ Cardinality(kept \cup {q}) = IF q \in kept THEN Cardinality(kept) ELSE Cardinality(kept) + 1
        BY <3>1, FS_AddElement
      <3>4. DOMAIN r.rows = kept \cup {q}
        BY <1>8 DEF kept
      <3>5. r.count = Cardinality(kept) + (IF known THEN 0 ELSE 1)
        BY <1>3, <3>1
      <3>6. CASE known
        BY <3>1, <3>2, <3>3, <3>4, <3>5, <3>6
      <3>7. CASE ~known
        BY <1>7, <3>1, <3>2, <3>3, <3>4, <3>5, <3>7
      <3> QED BY <3>6, <3>7
    <2>5. r.hit \in BOOLEAN /\ (todo.hit => r.hit)
      BY <1>3, <2>1
    <2> QED BY <1>3, <2>2, <2>3, <2>4, <2>5 DEF Grown, RowsSound
  <1>13. Queued(r, D \cup {n})
    <2>1. /\ s.pending \in Seq(Seq(Names) \X BOOLEAN)
          /\ \A k \in DOMAIN w.pending : k \in DOMAIN s.pending /\ s.pending[k] = w.pending[k]
          /\ ~s.hit => \A m \in D :
                todo.listing[m].kind = "directory"
                   /\ (todo.recursive \/ ~IsDirectory(rows, Child(m)))
                => \E k \in DOMAIN s.pending : s.pending[k] = <<Child(m), TRUE>>
      BY DEF Drafted, Queued
    <2>2. <<q, TRUE>> \in Seq(Names) \X BOOLEAN
      BY <1>2
    <2>3. CASE descend /\ room
      <3> DEFINE new == Append(s.pending, <<q, TRUE>>)
      <3>1. r.pending = new
        BY <1>3, <2>3
      <3>2. /\ new \in Seq(Seq(Names) \X BOOLEAN)
            /\ \A k \in DOMAIN s.pending : k \in DOMAIN new /\ new[k] = s.pending[k]
            /\ \E k \in DOMAIN new : new[k] = <<q, TRUE>>
        <4> DEFINE Item == Seq(Names) \X BOOLEAN
                   item == <<q, TRUE>>
                   old == s.pending
        <4>1. old \in Seq(Item) /\ item \in Item
          BY <2>1, <2>2
        <4> HIDE DEF Item, item, old
        <4>2. /\ Append(old, item) \in Seq(Item)
              /\ \A k \in DOMAIN old : k \in DOMAIN Append(old, item) /\ Append(old, item)[k] = old[k]
              /\ \E k \in DOMAIN Append(old, item) : Append(old, item)[k] = item
          BY <4>1, AppendKeeps
        <4> QED BY <4>2 DEF Item, item, old
      <3> HIDE DEF new
      <3>3. r.hit = s.hit
        <4>1. s.hit \in BOOLEAN
          BY DEF Drafted, Grown
        <4> QED BY <1>3, <2>3, <4>1
      <3> QED BY <2>1, <3>1, <3>2, <3>3 DEF Queued, q
    <2>4. CASE ~(descend /\ room)
      <3>1. r.pending = s.pending
        BY <1>3, <2>4
      <3>2. ~r.hit => ~s.hit /\ ~descend
        BY <1>3, <2>4
      <3>3. ~r.hit => ~(e.kind = "directory" /\ (todo.recursive \/ ~IsDirectory(rows, q)))
        BY <1>11, <1>16, <3>2
      <3> QED BY <2>1, <3>1, <3>2, <3>3 DEF Queued, q, e
    <2> QED BY <2>3, <2>4
  <1>14. Entered(r, D \cup {n})
    <2>1. /\ ~s.hit => \A m \in D : Child(m) \in DOMAIN s.rows /\ s.rows[Child(m)] = todo.listing[m]
          /\ \A x \in DOMAIN s.rows : (\A m \in D : x # Child(m)) =>
                x \in DOMAIN rows /\ s.rows[x] = rows[x]
      BY DEF Drafted, Entered
    <2>2. ASSUME NEW m \in D PROVE Child(m) \notin lost /\ Child(m) # q
      BY <1>2, <1>5, <1>9
    <2>3. ~r.hit => \A m \in D \cup {n} : Child(m) \in DOMAIN r.rows /\ r.rows[Child(m)] = todo.listing[m]
      <3> HAVE ~r.hit
      <3> TAKE m \in D \cup {n}
      <3>1. ~s.hit
        BY <1>3
      <3>2. CASE m = n
        BY <1>8, <3>2 DEF q, e
      <3>3. CASE m \in D
        BY <1>8, <2>1, <2>2, <3>1, <3>3
      <3> QED BY <3>2, <3>3
    <2>4. \A x \in DOMAIN r.rows : (\A m \in D \cup {n} : x # Child(m)) =>
                x \in DOMAIN rows /\ r.rows[x] = rows[x]
      BY <1>8, <2>1 DEF q
    <2> QED BY <2>3, <2>4 DEF Entered
  <1>15. Left(r, D \cup {n})
    <2> SUFFICES ASSUME NEW x \in DOMAIN rows \ DOMAIN r.rows
                 PROVE  \E m \in D \cup {n} :
                           /\ Below(x, Child(m)) /\ ~IsDirectory(r.rows, Child(m))
                           /\ \A y \in DOMAIN r.rows : ~Below(y, Child(m))
      BY DEF Left
    <2>1. CASE x \in DOMAIN s.rows
      <3>1. x \in lost
        BY <1>8, <2>1
      <3>2. Below(x, q) /\ ~IsDirectory(r.rows, q)
        BY <1>8, <1>9, <3>1 DEF IsDirectory
      <3>3. \A y \in DOMAIN r.rows : ~Below(y, q)
        <4> SUFFICES ASSUME NEW y \in DOMAIN r.rows, Below(y, q) PROVE FALSE
          OBVIOUS
        <4>1. y # q
          BY <1>2 DEF q
        <4>2. y \in DOMAIN s.rows /\ y \notin lost
          BY <1>8, <4>1
        <4> QED BY <1>10, <3>1, <4>2
      <3> QED BY <3>2, <3>3 DEF q
    <2>2. CASE x \notin DOMAIN s.rows
      <3>1. PICK m \in D : /\ Below(x, Child(m)) /\ ~IsDirectory(s.rows, Child(m))
                           /\ \A y \in DOMAIN s.rows : ~Below(y, Child(m))
        BY <2>2 DEF Drafted, Left
      <3>2. Child(m) # q /\ ~Below(q, Child(m))
        BY <1>2, <1>5
      <3>3. ~IsDirectory(r.rows, Child(m))
        BY <1>8, <3>1, <3>2 DEF IsDirectory
      <3>4. \A y \in DOMAIN r.rows : ~Below(y, Child(m))
        BY <1>8, <3>1, <3>2
      <3> QED BY <3>1, <3>3, <3>4
    <2> QED BY <2>1, <2>2
  <1> QED BY <1>12, <1>13, <1>14, <1>15 DEF Drafted

\* One more name: there is room for it in every bound, or a bound is met.
LEMMA OneMore ==
  ASSUME Reading, NEW D \in SUBSET DOMAIN todo.listing, NEW s, Drafted(s, D),
         NEW n \in DOMAIN todo.listing \ D
  PROVE  Drafted(Reconciled(s, n), D \cup {n})
  <1> DEFINE full == Len(Child(n)) > MaxDepth \/ (Child(n) \notin DOMAIN s.rows /\ s.count >= MaxEntries)
  <1>1. CASE full
    <2>1. Reconciled(s, n) = [s EXCEPT !.hit = TRUE]
      BY <1>1 DEF Reconciled, Child
    <2> QED BY <2>1, NoRoom
  <1>2. CASE ~full
    BY <1>2, Room
  <1> QED BY <1>1, <1>2

\* The names in the order in which they are gone through, and the drafts on the way.
Order == SetToSeq(DOMAIN todo.listing)
Before == [rows |-> rows, count |-> total, pending |-> w.pending, hit |-> todo.hit]
Drafts(d) == d = [k \in 0 .. Len(Order) |-> IF k = 0 THEN Before ELSE Reconciled(d[k - 1], Order[k])]

\* There is a draft after each of the names.
LEMMA DraftsExist ==
  ASSUME Len(Order) \in Nat
  PROVE  \E d : Drafts(d)
  <1> DEFINE Solves(d, n) == d = [k \in 0 .. n |-> IF k = 0 THEN Before ELSE Reconciled(d[k - 1], Order[k])]
             Bad == {n \in Nat : ~\E d : Solves(d, n)}
  <1>1. ASSUME Bad # {} PROVE FALSE
    <2>1. PICK n \in Bad : \A m \in Bad : n <= m
      <3> HIDE DEF Solves
      <3>1. Bad \in SUBSET Nat
        OBVIOUS
      <3> HIDE DEF Bad
      <3> QED BY <1>1, <3>1, LeastNumber
    <2>2. CASE n = 0
      <3>1. Solves([k \in 0 .. 0 |-> Before], 0)
        OBVIOUS
      <3> HIDE DEF Solves
      <3> QED BY <2>1, <2>2, <3>1
    <2>3. CASE n # 0
      <3>1. n \in Nat
        OBVIOUS
      <3>2. n - 1 \in Nat /\ ~(n <= n - 1)
        BY <2>3, <3>1
      <3>3. PICK d : Solves(d, n - 1)
        <4> HIDE DEF Solves
        <4> QED BY <2>1, <3>2
      <3> DEFINE e == [k \in 0 .. n |-> IF k = 0 THEN Before ELSE Reconciled(d[k - 1], Order[k])]
      <3>4. \A k \in 0 .. n - 1 : e[k] = d[k]
        BY <3>1, <3>2, <3>3
      <3>5. \A k \in 0 .. n : k # 0 => k - 1 \in 0 .. n - 1
        BY <3>1
      <3>6. Solves(e, n)
        <4>1. \A k \in 0 .. n : k # 0 => d[k - 1] = e[k - 1]
          <5> HIDE DEF e, Solves
          <5> QED BY <3>4, <3>5
        <4> QED BY <4>1
      <3> HIDE DEF Solves, e
      <3> QED BY <2>1, <3>6
    <2> QED BY <2>2, <2>3
  <1>2. \E d : Solves(d, Len(Order))
    <2> HIDE DEF Solves
    <2> QED BY <1>1
  <1> QED BY <1>2 DEF Drafts

\* All names are gone through, whatever their order.
LEMMA DraftIs ==
  ASSUME Reading
  PROVE  Drafted(Draft, DOMAIN todo.listing)
  <1> DEFINE S == DOMAIN todo.listing
             d == CHOOSE d : Drafts(d)
             Done(k) == {Order[i] : i \in 1 .. k}
             Bad == {k \in 0 .. Len(Order) : ~Drafted(d[k], Done(k))}
  <1>1. /\ Order \in Seq(S) /\ Len(Order) \in Nat
        /\ \A x \in S : \E i \in 1 .. Len(Order) : Order[i] = x
        /\ \A i, j \in 1 .. Len(Order) : Order[i] = Order[j] => i = j
    BY SetToSeqGoesThrough DEF Reading, Order
  <1>2. Draft = d[Len(Order)]
    BY DEF Draft, Drafts, Order, Before
  <1>3. Drafts(d)
    BY <1>1, DraftsExist
  <1> HIDE DEF S, d
  <1>4. \A k \in 0 .. Len(Order) : d[k] = IF k = 0 THEN Before ELSE Reconciled(d[k - 1], Order[k])
    BY <1>3 DEF Drafts
  <1>5. \A i \in 1 .. Len(Order) : Order[i] \in S
    BY <1>1, ElementOfSeq
  <1>6. ASSUME Bad # {} PROVE FALSE
    <2>1. Bad \in SUBSET Nat
      BY <1>1
    <2>2. PICK k \in Bad : \A m \in Bad : k <= m
      <3> HIDE DEF Bad
      <3> QED BY <1>6, <2>1, LeastNumber
    <2>3. k \in 0 .. Len(Order) /\ ~Drafted(d[k], Done(k))
      OBVIOUS
    <2>4. CASE k = 0
      <3>1. d[k] = Before /\ Done(k) = {}
        BY <1>1, <1>4, <2>4
      <3>2. Drafted(Before, {})
        <4>1. /\ Before.rows = rows /\ Before.count = total /\ Before.pending = w.pending
              /\ Before.hit = todo.hit
              /\ Before = [rows |-> Before.rows, count |-> Before.count,
                            pending |-> Before.pending, hit |-> Before.hit]
          BY DEF Before
        <4>2. Grown(Before)
          BY <4>1, ReadingTypes DEF Grown, Reading
        <4>3. Queued(Before, {})
          BY <4>1, ReadingTypes DEF Queued
        <4>4. Entered(Before, {})
          BY <4>1 DEF Entered
        <4>5. Left(Before, {})
          BY <4>1 DEF Left
        <4> QED BY <4>2, <4>3, <4>4, <4>5 DEF Drafted
      <3> QED BY <2>3, <3>1, <3>2
    <2>5. CASE k # 0
      <3>1. k \in Nat /\ k - 1 \in 0 .. Len(Order) /\ ~(k <= k - 1) /\ k \in 1 .. Len(Order)
        BY <1>1, <2>3, <2>5
      <3>2. Drafted(d[k - 1], Done(k - 1))
        <4>1. k - 1 \notin Bad
          <5> HIDE DEF Bad
          <5> QED BY <2>2, <3>1
        <4> QED BY <3>1, <4>1
      <3>3. Done(k - 1) \subseteq S /\ Order[k] \in S
        BY SMTT(30), <1>1, <1>5, <3>1
      <3>4. Order[k] \notin Done(k - 1)
        <4> SUFFICES ASSUME NEW i \in 1 .. k - 1, Order[i] = Order[k] PROVE FALSE
          OBVIOUS
        <4>1. i \in 1 .. Len(Order) /\ i # k
          <5>1. Len(Order) \in Nat /\ k \in Nat /\ k <= Len(Order) /\ i \in 1 .. k - 1
            BY <1>1, <3>1
          <5> QED BY <5>1
        <4> QED BY <1>1, <3>1, <4>1
      <3>5. d[k] = Reconciled(d[k - 1], Order[k])
        BY <1>4, <2>3, <2>5
      <3>6. Done(k) = Done(k - 1) \cup {Order[k]}
        <4>1. 1 .. k = (1 .. k - 1) \cup {k}
          BY <3>1
        <4> QED BY <4>1
      <3> HIDE DEF Done
      <3>7. Drafted(Reconciled(d[k - 1], Order[k]), Done(k - 1) \cup {Order[k]})
        BY <3>2, <3>3, <3>4, OneMore DEF S
      <3> QED BY <2>3, <3>5, <3>6, <3>7
    <2> QED BY <2>4, <2>5
  <1>7. Len(Order) \in 0 .. Len(Order)
    BY <1>1
  <1>8. Drafted(d[Len(Order)], Done(Len(Order)))
    BY <1>6, <1>7
  <1>9. Done(Len(Order)) = S
    BY SMTT(30), <1>1, <1>5
  <1> QED BY <1>2, <1>8, <1>9 DEF S

\* The transaction: what it makes of the rows and of what is pending.
LEMMA Reconciles ==
  ASSUME Reading, Reconcile
  PROVE  /\ RowsSound(rows', total')
         /\ w' = [w EXCEPT !.pending = w'.pending]
         /\ Queued([pending |-> w'.pending, hit |-> todo'.hit], DOMAIN todo.listing)
         /\ todo' = [todo EXCEPT !.hit = todo'.hit, !.listing = Nothing]
         /\ todo'.hit \in BOOLEAN /\ (todo.hit => todo'.hit)
         /\ ~todo'.hit => \A n \in DOMAIN todo.listing :
               Child(n) \in DOMAIN rows' /\ rows'[Child(n)] = todo.listing[n]
         /\ \A n \in Names \ DOMAIN todo.listing : Child(n) \notin DOMAIN rows'
         /\ \A q \in DOMAIN rows' : (\A n \in DOMAIN todo.listing : q # Child(n)) =>
               q \in DOMAIN rows /\ rows'[q] = rows[q]
         /\ \A q \in DOMAIN rows \ DOMAIN rows' : \E n \in Names :
               \/ q = Child(n)
               \/ /\ Below(q, Child(n)) /\ ~IsDirectory(rows', Child(n))
                  /\ \A x \in DOMAIN rows' : ~Below(x, Child(n))
  <1> DEFINE s == Draft
             D == DOMAIN todo.listing
  <1>1. /\ rows' = Restrict(s.rows, Remaining(s))
        /\ total' = s.count - Cardinality(DOMAIN s.rows \ Remaining(s))
        /\ w' = [w EXCEPT !.pending = s.pending]
        /\ todo' = [todo EXCEPT !.hit = s.hit, !.listing = Nothing]
    BY DEF Reconcile
  <1>2. Drafted(s, D)
    BY DraftIs
  <1> HIDE DEF s
  <1>3. RowsSound(s.rows, s.count) /\ s.hit \in BOOLEAN /\ (todo.hit => s.hit)
    BY <1>2 DEF Drafted, Grown
  <1>4. Remaining(s) \subseteq DOMAIN s.rows
    BY DEF Remaining
  <1>5. DOMAIN rows' = Remaining(s) /\ \A q \in Remaining(s) : rows'[q] = s.rows[q]
    BY <1>1, <1>4 DEF Restrict
  <1>6. RowsSound(rows', total')
    <2>1. rows' \in [DOMAIN rows' -> Entry]
      BY <1>1, <1>3, <1>4, <1>5 DEF Restrict, RowsSound
    <2>2. /\ IsFiniteSet(Remaining(s)) /\ Cardinality(Remaining(s)) <= s.count
          /\ total' = Cardinality(Remaining(s)) /\ s.count \in Nat /\ total' \in Nat
      <3> DEFINE A == DOMAIN s.rows
                 R == Remaining(s)
      <3>1. IsFiniteSet(A) /\ s.count = Cardinality(A) /\ R \in SUBSET A
        BY <1>3, <1>4 DEF RowsSound
      <3>2. total' = Cardinality(A) - Cardinality(A \ R)
        BY <1>1, <3>1
      <3> HIDE DEF A, R
      <3>3. /\ IsFiniteSet(R) /\ Cardinality(A) \in Nat /\ Cardinality(R) \in Nat
            /\ Cardinality(A \ R) = Cardinality(A) - Cardinality(R) /\ Cardinality(A \ R) \in Nat
        BY <3>1, Fewer
      <3> QED BY <3>1, <3>2, <3>3 DEF R
    <2>3. s.count <= MaxEntries
      BY <1>3 DEF RowsSound
    <2> QED BY <1>3, <1>4, <1>5, <2>1, <2>2, <2>3, Bounds DEF RowsSound
  <1>7. /\ w' = [w EXCEPT !.pending = w'.pending] /\ w'.pending = s.pending
        /\ todo' = [todo EXCEPT !.hit = todo'.hit, !.listing = Nothing] /\ todo'.hit = s.hit
    BY <1>1 DEF Reading, Work, Task
  <1>8. Queued([pending |-> w'.pending, hit |-> todo'.hit], D)
    BY <1>2, <1>7 DEF Drafted, Queued
  <1>9. ASSUME NEW n \in Names, NEW m \in Names, n # m, n \in D \/ m \in D
        PROVE  Child(n) # Child(m) /\ ~Below(Child(n), Child(m))
    BY <1>9, ChildFacts
  <1>10. D \subseteq Names
    BY DEF Reading
  <1>11. ASSUME NEW n \in D, Child(n) \in DOMAIN s.rows
         PROVE  Child(n) \in Remaining(s)
    <2>1. \A m \in Names \ D : Child(n) # Child(m) /\ ~Below(Child(n), Child(m))
      BY <1>9, <1>10
    <2> QED BY <1>11, <2>1 DEF Remaining, Vanished, Child
  <1>12. /\ ~s.hit => \A n \in D : Child(n) \in DOMAIN s.rows /\ s.rows[Child(n)] = todo.listing[n]
         /\ \A q \in DOMAIN s.rows : (\A n \in D : q # Child(n)) =>
              q \in DOMAIN rows /\ s.rows[q] = rows[q]
    BY <1>2 DEF Drafted, Entered
  <1>13. ASSUME NEW n \in Names \ D PROVE Child(n) \notin Remaining(s)
    <2> SUFFICES ASSUME Child(n) \in DOMAIN s.rows PROVE Child(n) \notin Remaining(s)
      BY <1>4
    <2>1. \A m \in D : Child(n) # Child(m)
      BY <1>9, <1>10
    <2>2. Child(n) \in DOMAIN rows
      BY <1>12, <2>1
    <2>3. Child(n) \in Vanished
      BY <2>2 DEF Vanished, Child
    <2> QED BY <2>3 DEF Remaining
  <1>14. ASSUME NEW q \in DOMAIN rows \ DOMAIN rows'
         PROVE  \E n \in Names : \/ q = Child(n)
                                  \/ /\ Below(q, Child(n)) /\ ~IsDirectory(rows', Child(n))
                                     /\ \A x \in DOMAIN rows' : ~Below(x, Child(n))
    <2>1. CASE q \in DOMAIN s.rows
      <3>1. PICK g \in Vanished : q = g \/ (rows[g].kind = "directory" /\ Below(q, g))
        BY <1>5, <2>1 DEF Remaining
      <3>2. PICK n \in Names \ D : g = Child(n)
        BY DEF Vanished, Child
      <3>3. CASE q = g
        BY <3>2, <3>3
      <3>4. CASE q # g
        <4>1. rows[g].kind = "directory" /\ Below(q, g)
          BY <3>1, <3>4
        <4>2. \A x \in DOMAIN rows' : ~Below(x, g)
          BY <1>5, <4>1 DEF Remaining
        <4>3. ~IsDirectory(rows', g)
          BY <1>5, <1>13, <3>2 DEF IsDirectory
        <4> QED BY <3>2, <4>1, <4>2, <4>3
      <3> QED BY <3>3, <3>4
    <2>2. CASE q \notin DOMAIN s.rows
      <3>1. PICK n \in D : /\ Below(q, Child(n)) /\ ~IsDirectory(s.rows, Child(n))
                           /\ \A x \in DOMAIN s.rows : ~Below(x, Child(n))
        BY <1>2, <2>2 DEF Drafted, Left
      <3>2. ~IsDirectory(rows', Child(n))
        BY <1>4, <1>5, <3>1 DEF IsDirectory
      <3> QED BY <1>4, <1>5, <1>10, <3>1, <3>2
    <2> QED BY <2>1, <2>2
  <1>15. ~todo'.hit => \A n \in D : Child(n) \in DOMAIN rows' /\ rows'[Child(n)] = todo.listing[n]
    BY <1>5, <1>7, <1>11, <1>12
  <1>16. \A q \in DOMAIN rows' : (\A n \in D : q # Child(n)) => q \in DOMAIN rows /\ rows'[q] = rows[q]
    BY <1>4, <1>5, <1>12
  <1>17. \A n \in Names \ D : Child(n) \notin DOMAIN rows'
    BY <1>5, <1>13
  <1>18. todo'.hit \in BOOLEAN /\ (todo.hit => todo'.hit)
    BY <1>3, <1>7
  <1> QED BY <1>6, <1>7, <1>8, <1>14, <1>15, <1>16, <1>17, <1>18

-----------------------------------------------------------------------------
(* Notifications                                                            *)

Event == [wd : Nat, what : {"change", "self", "ignored", "overflow"}]

\* The kernel's queue: when it is full, its last event says that others are lost.
QueueSound(q) ==
    /\ q \in Seq(Event) /\ Len(q) <= MaxQueue
    /\ Len(q) = MaxQueue => q[MaxQueue].what = "overflow"
Tells(q, i) == \E k \in DOMAIN q : q[k].what = "overflow" \/ (q[k].what = "change" /\ q[k].wd = i)

\* A queue tells of a change to a directory that is watched, or that it has lost events.
LEMMA HeardFacts ==
  ASSUME NEW q, QueueSound(q), NEW i, kernel \subseteq Nat,
         NEW what \in {"change", "self", "ignored"}
  PROVE  /\ QueueSound(Heard(q, i, what))
         /\ \A j : Tells(q, j) => Tells(Heard(q, i, what), j)
         /\ i \in kernel /\ what = "change" => Tells(Heard(q, i, what), i)
  <1>1. q \in Seq(Event) /\ Len(q) \in Nat /\ Len(q) <= MaxQueue
        /\ MaxQueue \in Nat /\ MaxQueue > 0
    BY Bounds, LenProperties DEF QueueSound
  <1>2. CASE i \notin kernel
    BY <1>2 DEF Heard
  <1>3. CASE i \in kernel /\ Len(q) >= MaxQueue
    <2>1. Heard(q, i, what) = q
      BY <1>3 DEF Heard
    <2>2. MaxQueue \in DOMAIN q /\ q[MaxQueue].what = "overflow"
      BY <1>1, <1>3 DEF QueueSound
    <2>3. Tells(q, i)
      BY <2>2 DEF Tells
    <2> QED BY <2>1, <2>3
  <1>4. CASE i \in kernel /\ ~(Len(q) >= MaxQueue)
    <2> DEFINE e == IF Len(q) = MaxQueue - 1 THEN [wd |-> 0, what |-> "overflow"]
                    ELSE [wd |-> i, what |-> what]
    <2>1. Heard(q, i, what) = Append(q, e)
      BY <1>4 DEF Heard
    <2>2. e \in Event
      BY <1>4 DEF Event
    <2>3. e.what = "overflow" \/ (e.wd = i /\ e.what = what)
      OBVIOUS
    <2>4. Len(q) = MaxQueue - 1 => e.what = "overflow"
      OBVIOUS
    <2> HIDE DEF e
    <2> DEFINE r == Append(q, e)
    <2>5. /\ r \in Seq(Event) /\ Len(r) = Len(q) + 1
          /\ \A k \in DOMAIN q : k \in DOMAIN r /\ r[k] = q[k]
          /\ \E k \in DOMAIN r : r[k] = e
      BY <1>1, <2>2, AppendKeeps
    <2>6. r[Len(q) + 1] = e
      BY <1>1, <2>2, AppendProperties
    <2> HIDE DEF r
    <2>7. QueueSound(r)
      BY <1>1, <1>4, <2>4, <2>5, <2>6 DEF QueueSound
    <2>8. \A j : Tells(q, j) => Tells(r, j)
      BY <2>5 DEF Tells
    <2>9. what = "change" => Tells(r, i)
      BY <2>3, <2>5 DEF Tells
    <2> QED BY <2>1, <2>7, <2>8, <2>9 DEF r
  <1> QED BY <1>2, <1>3, <1>4

\* A directory that is told of its own move.
LEMMA HeardSelfFacts ==
  ASSUME NEW q, QueueSound(q), NEW i, kernel \subseteq Nat
  PROVE  QueueSound(HeardSelf(q, i)) /\ \A j : Tells(q, j) => Tells(HeardSelf(q, i), j)
  BY HeardFacts DEF HeardSelf

-----------------------------------------------------------------------------
(* The share                                                                *)

InodeType == [parent : Nat \cup {Gone}, name : Names, kind : EntryKinds, stamp : Nat, told : Nat]
Inode == {x \in InodeType : x.told <= x.stamp}

\* Listings, for any disk.
ChildrenOn(d, i) == {c \in DOMAIN d : d[c].parent = i}
NamedOn(d, i, n) == {c \in ChildrenOn(d, i) : d[c].name = n}
OneOf(i, C) == IF i = Gone \/ C = {} THEN Gone ELSE CHOOSE c \in C : TRUE
FoundOn(d, i, n) == OneOf(i, NamedOn(d, i, n))
ListingOn(d, i) ==
    [n \in {d[c].name : c \in ChildrenOn(d, i)} |->
        [kind |-> d[FoundOn(d, i, n)].kind, stamp |-> d[FoundOn(d, i, n)].stamp]]

SinceOn(d, i) ==
    [n \in {d[c].name : c \in ChildrenOn(d, i)} |->
        [kind : {d[FoundOn(d, i, n)].kind},
         stamp : d[FoundOn(d, i, n)].told .. d[FoundOn(d, i, n)].stamp]]
\* What may be said of each name, and only more.
Grows(s, t) == DOMAIN s = DOMAIN t /\ \A n \in DOMAIN s : s[n] \subseteq t[n]

\* Listings of the share, before and after a step.
LEMMA ListingIsOn == \A i : /\ Listing(i) = ListingOn(disk, i)
                            /\ Since(i) = SinceOn(disk, i) /\ Since(i)' = SinceOn(disk', i)
  BY DEF Listing, Since, Inside, Resolved, Named, ListingOn, SinceOn, ChildrenOn, NamedOn, FoundOn, OneOf

\* What may be said is as it was when the same entries are in the directory, unchanged.
LEMMA SameSince ==
  ASSUME NEW d, NEW e, NEW i \in Nat,
         ChildrenOn(d, i) = ChildrenOn(e, i),
         \A c \in ChildrenOn(d, i) : d[c] = e[c]
  PROVE  SinceOn(d, i) = SinceOn(e, i)
  <1>1. \A n : NamedOn(d, i, n) = NamedOn(e, i, n)
    BY DEF NamedOn
  <1>2. \A n : FoundOn(d, i, n) = FoundOn(e, i, n)
    BY <1>1 DEF FoundOn
  <1>3. {d[c].name : c \in ChildrenOn(d, i)} = {e[c].name : c \in ChildrenOn(e, i)}
    OBVIOUS
  <1>4. \A n \in {d[c].name : c \in ChildrenOn(d, i)} : d[FoundOn(d, i, n)] = e[FoundOn(e, i, n)]
    <2> TAKE n \in {d[c].name : c \in ChildrenOn(d, i)}
    <2>1. NamedOn(d, i, n) # {} /\ i # Gone
      BY DEF NamedOn, Gone
    <2>2. FoundOn(d, i, n) \in ChildrenOn(d, i)
      BY <2>1 DEF FoundOn, NamedOn, OneOf
    <2> QED BY <1>2, <2>2
  <1> QED BY <1>3, <1>4 DEF SinceOn

\* More may be said when the same entries are there and one has been written to silently.
LEMMA MoreSince ==
  ASSUME NEW d \in Seq(Inode), NEW e \in Seq(Inode), NEW i \in Nat,
         ChildrenOn(d, i) = ChildrenOn(e, i),
         \A c \in ChildrenOn(d, i) : /\ d[c].name = e[c].name /\ d[c].kind = e[c].kind
                                    /\ d[c].told = e[c].told /\ d[c].stamp <= e[c].stamp
  PROVE  Grows(SinceOn(d, i), SinceOn(e, i))
  <1>1. \A n : NamedOn(d, i, n) = NamedOn(e, i, n)
    BY DEF NamedOn
  <1>2. \A n : FoundOn(d, i, n) = FoundOn(e, i, n)
    BY <1>1 DEF FoundOn
  <1>3. {d[c].name : c \in ChildrenOn(d, i)} = {e[c].name : c \in ChildrenOn(e, i)}
    OBVIOUS
  <1>4. ASSUME NEW n \in {d[c].name : c \in ChildrenOn(d, i)}
        PROVE  SinceOn(d, i)[n] \subseteq SinceOn(e, i)[n]
    <2>1. NamedOn(d, i, n) # {} /\ i # Gone
      BY DEF NamedOn, Gone
    <2>2. PICK c : c = FoundOn(d, i, n)
      OBVIOUS
    <2>3. c \in ChildrenOn(d, i) /\ c = FoundOn(e, i, n)
      BY <1>2, <2>1, <2>2 DEF FoundOn, NamedOn, OneOf
    <2>4. d[c] \in InodeType /\ e[c] \in InodeType
      BY <2>3, ElementOfSeq DEF ChildrenOn, Inode
    <2>5. d[c].told .. d[c].stamp \subseteq e[c].told .. e[c].stamp
      BY <2>3, <2>4 DEF InodeType
    <2>6. /\ SinceOn(d, i)[n] = [kind : {d[c].kind}, stamp : d[c].told .. d[c].stamp]
          /\ SinceOn(e, i)[n] = [kind : {e[c].kind}, stamp : e[c].told .. e[c].stamp]
      BY <1>3, <2>2, <2>3 DEF SinceOn
    <2>7. d[c].kind = e[c].kind
      BY <2>3
    <2> QED BY <2>5, <2>6, <2>7
  <1>5. DOMAIN SinceOn(d, i) = {d[c].name : c \in ChildrenOn(d, i)}
        /\ DOMAIN SinceOn(e, i) = {e[c].name : c \in ChildrenOn(e, i)}
    BY DEF SinceOn
  <1> QED BY <1>3, <1>4, <1>5 DEF Grows

\* A listing has finitely many names, each with its kind and stamp.
LEMMA ListingFacts ==
  ASSUME NEW d \in Seq(Inode), NEW i \in Nat
  PROVE  /\ DOMAIN ListingOn(d, i) \subseteq Names /\ IsFiniteSet(DOMAIN ListingOn(d, i))
         /\ ListingOn(d, i) \in [DOMAIN ListingOn(d, i) -> Entry]
         /\ Fits(ListingOn(d, i), SinceOn(d, i))
  <1> DEFINE C == ChildrenOn(d, i)
             N == {d[c].name : c \in C}
             f == [c \in C |-> d[c].name]
  <1>1. \A c \in C : d[c] \in Inode
    BY ElementOfSeq DEF ChildrenOn
  <1>2. N \subseteq Names
    BY <1>1 DEF Inode, InodeType
  <1>3. IsFiniteSet(C)
    <2>1. Len(d) \in Nat /\ DOMAIN d = 1 .. Len(d)
      BY LenProperties
    <2>2. IsFiniteSet(1 .. Len(d))
      BY <2>1, CountTo
    <2>3. C \in SUBSET (1 .. Len(d))
      BY <2>1 DEF ChildrenOn
    <2> QED BY <2>2, <2>3, FS_Subset
  <1>4. IsFiniteSet(N)
    <2>1. f \in Surjection(C, N)
      BY DEF Surjection
    <2> HIDE DEF f, C, N
    <2> QED BY <1>3, <2>1, FS_Surjection
  <1>5. ASSUME NEW n \in N PROVE d[FoundOn(d, i, n)] \in Inode
    <2>1. NamedOn(d, i, n) # {} /\ i # Gone
      BY DEF NamedOn, Gone
    <2>2. FoundOn(d, i, n) \in C
      BY <2>1 DEF FoundOn, NamedOn, OneOf
    <2> QED BY <1>1, <2>2
  <1>6. DOMAIN ListingOn(d, i) = N
    BY DEF ListingOn
  <1>7. ASSUME NEW n \in N PROVE ListingOn(d, i)[n] \in Entry
    BY <1>5 DEF ListingOn, Inode, InodeType, Entry
  <1>8. ASSUME NEW n \in N PROVE ListingOn(d, i)[n] \in SinceOn(d, i)[n]
    <2>1. PICK x : x = d[FoundOn(d, i, n)]
      OBVIOUS
    <2>2. x.told \in Nat /\ x.stamp \in Nat /\ x.told <= x.stamp
      BY <1>5, <2>1 DEF Inode, InodeType
    <2>3. x.stamp \in x.told .. x.stamp
      BY <2>2
    <2>4. ListingOn(d, i)[n] = [kind |-> x.kind, stamp |-> x.stamp]
          /\ SinceOn(d, i)[n] = [kind : {x.kind}, stamp : x.told .. x.stamp]
      BY <2>1 DEF ListingOn, SinceOn
    <2> QED BY <2>3, <2>4
  <1>9. DOMAIN SinceOn(d, i) = N
    BY DEF SinceOn
  <1> QED BY <1>2, <1>4, <1>6, <1>7, <1>8, <1>9 DEF ListingOn, Fits

-----------------------------------------------------------------------------
(* The invariant                                                            *)

DiskSound == disk \in Seq(Inode) /\ kernel \subseteq Nat /\ QueueSound(queue)

WorkType(v) == v \in
    [pending : Seq(Seq(Names) \X BOOLEAN), full : BOOLEAN, requested : BOOLEAN,
     passed : BOOLEAN, incomplete : BOOLEAN, passIncomplete : BOOLEAN, once : BOOLEAN,
     reconciling : BOOLEAN, unwatched : BOOLEAN, dirty : SUBSET Seq(Names),
     allowance : Nat, watcher : BOOLEAN, watches : {v.watches}, watched : {v.watched}]
\* The watcher's two maps, inverse to each other and within the allowance.
MapsSound(v) ==
    /\ DOMAIN v.watches \subseteq Nat /\ v.watches \in [DOMAIN v.watches -> Seq(Names)]
    /\ DOMAIN v.watched \subseteq Seq(Names) /\ v.watched \in [DOMAIN v.watched -> Nat]
    /\ \A p \in DOMAIN v.watched : v.watched[p] \in DOMAIN v.watches /\ v.watches[v.watched[p]] = p
    /\ \A i \in DOMAIN v.watches : v.watches[i] \in DOMAIN v.watched /\ v.watched[v.watches[i]] = i
    /\ IsFiniteSet(DOMAIN v.watched) /\ Cardinality(DOMAIN v.watched) <= v.allowance
WorkSound == WorkType(w) /\ MapsSound(w) /\ IsFiniteSet(w.dirty)

TaskType(t) == t \in [path : Seq(Names), recursive : BOOLEAN, listing : {t.listing},
                      hit : BOOLEAN, invalidated : BOOLEAN]
\* The directory that the worker is at; no bound is met between slices.
TaskSound ==
    /\ pc \in Phases /\ TaskType(todo)
    /\ DOMAIN todo.listing \subseteq Names /\ IsFiniteSet(DOMAIN todo.listing)
    /\ todo.listing \in [DOMAIN todo.listing -> Entry]
    /\ pc \in {"idle", "plan", "store"} => ~todo.hit

\* Mutations under way, and the histories; nothing is owed while watches cover the share.
MutationSound ==
    /\ mutating # <<>> =>
          mutating \in [{1} -> [changed : SUBSET Seq(Names), forget : SUBSET Seq(Names)]]
    /\ owed \subseteq Seq(Names) /\ dropped \subseteq Seq(Names) /\ tracked \subseteq Seq(Names)
    /\ ~flags.polling => owed = {}

\* The listing in the worker's hands is still true, or an event says that it is not.
Arrives == pc = "reconcile" => \A i \in DOMAIN w.watches :
    w.watches[i] = todo.path /\ i \in kernel /\ todo.path \in tracked
       => Fits(todo.listing, Since(i)) \/ Announced(i)

IndexInv ==
    /\ DiskSound /\ RowsSound(rows, total) /\ WorkSound /\ TaskSound /\ flags \in Flagged
    /\ MutationSound /\ Arrives /\ ChangesAreSeen /\ MutationsAreSeen

\* The records of the type invariant, as the proofs write them.
LEMMA TypesAgree == (w \in Work <=> WorkType(w)) /\ (todo \in Task <=> TaskType(todo))
  BY DEF Work, Task, WorkType, TaskType

\* What Reconcile starts from.
LEMMA InvReads ==
  ASSUME IndexInv
  PROVE  Reading
  BY TypesAgree DEF IndexInv, WorkSound, TaskSound, Reading

\* What the invariant says of the worker's fields.
LEMMA Fields ==
  ASSUME IndexInv
  PROVE  /\ w.pending \in Seq(Seq(Names) \X BOOLEAN) /\ w.full \in BOOLEAN
         /\ w.requested \in BOOLEAN /\ w.passed \in BOOLEAN /\ w.incomplete \in BOOLEAN
         /\ w.passIncomplete \in BOOLEAN /\ w.once \in BOOLEAN /\ w.watcher \in BOOLEAN
         /\ w.unwatched \in BOOLEAN /\ w.dirty \subseteq Seq(Names) /\ w.allowance \in Nat
         /\ todo.path \in Seq(Names) /\ todo.recursive \in BOOLEAN /\ todo.hit \in BOOLEAN
         /\ flags.polling \in BOOLEAN /\ flags.invalidated \in BOOLEAN
  BY DEF IndexInv, WorkSound, WorkType, TaskSound, TaskType, Flagged

\* A change to the share keeps the invariant if every directory whose listing changes is
\* no longer watched or is told of.
LEMMA ShareChanges ==
  ASSUME IndexInv, UNCHANGED <<rows, total, w, pc, todo, flags, owed, dropped, tracked>>,
         DiskSound', kernel' \subseteq kernel, MutationSound',
         \A i \in Nat : Announced(i) => Announced(i)',
         \A i \in Nat : Grows(Since(i), Since(i)') \/ i \notin kernel' \/ Announced(i)'
  PROVE  IndexInv'
  <1>1. RowsSound(rows, total)' /\ WorkSound' /\ TaskSound' /\ flags' \in Flagged
    BY DEF IndexInv, WorkSound, TaskSound, RowsSound, MapsSound, WorkType, TaskType
  <1>2. DOMAIN w.watches \subseteq Nat
    BY DEF IndexInv, WorkSound, MapsSound
  <1>3. MutationsAreSeen'
    BY DEF IndexInv, MutationsAreSeen, Awaited, BoundMet, Leads
  <1>4. Arrives'
    <2> SUFFICES ASSUME pc = "reconcile", NEW i \in DOMAIN w.watches, w.watches[i] = todo.path,
                        i \in kernel', todo.path \in tracked
                 PROVE  Fits(todo.listing, Since(i)') \/ Announced(i)'
      BY DEF Arrives
    <2>1. Fits(todo.listing, Since(i)) \/ Announced(i)
      BY DEF IndexInv, Arrives
    <2> QED BY <1>2, <2>1 DEF Fits, Grows
  <1>5. ChangesAreSeen'
    <2> SUFFICES ASSUME NEW i \in DOMAIN w.watches, Behind(w.watches[i], i)', ~Announced(i)'
                 PROVE  \/ Awaited(w.watches[i])' \/ Arriving(w.watches[i], i)' \/ BoundMet'
      BY DEF ChangesAreSeen
    <2> DEFINE p == w.watches[i]
    <2>1. i \in kernel' /\ Grows(Since(i), Since(i)') /\ ~Announced(i)
      BY <1>2 DEF Behind
    <2>2. Differs(p, i)
      <3>1. PICK n \in Names :
               LET q == Append(p, n)
                   there == n \in DOMAIN Since(i)'
               IN q \notin dropped /\ IF there /\ q \in DOMAIN rows THEN rows[q] \notin Since(i)'[n]
                                     ELSE there \/ q \in DOMAIN rows
        BY DEF Behind, Differs, Unlike
      <3> QED BY <2>1, <3>1 DEF Grows, Differs, Unlike
    <2>3. Behind(p, i)
      BY <2>1, <2>2 DEF Behind, Known
    <2>4. Awaited(p) \/ Arriving(p, i) \/ BoundMet
      BY <2>1, <2>3 DEF IndexInv, ChangesAreSeen
    <2>5. Arriving(p, i) => Arriving(p, i)'
      BY <2>1 DEF Arriving, Fits, Grows
    <2> QED BY <2>1, <2>4, <2>5 DEF Awaited, BoundMet, Leads
  <1> QED BY <1>1, <1>3, <1>4, <1>5 DEF IndexInv

-----------------------------------------------------------------------------
(* Changes of the share                                                     *)

LEMMA PathFacts ==
  ASSUME NEW p \in Touched \cup Targets
  PROVE  /\ p \in Seq(Names) /\ p # Root /\ Parent(p) \in Seq(Names)
         /\ p[Len(p)] \in Names
  <1>1. p \in Paths /\ p # Root
    BY SearchAssumption
  <1>2. PICK n \in 0 .. MaxDepth + 1 : p \in [1 .. n -> Names]
    BY <1>1 DEF Paths
  <1>3. p \in Seq(Names) /\ Len(p) = n /\ n \in Nat
    BY <1>2, Bounds
  <1>4. n # 0
    BY <1>1, <1>3, EmptySeq DEF Root
  <1>5. p[Len(p)] \in Names
    BY <1>2, <1>3, <1>4
  <1> QED BY <1>1, <1>3, <1>5, ParentIsPath

\* Only of the directories that an entry leaves and enters is there anything else to say.
LEMMA InodeChanges ==
  ASSUME disk \in Seq(Inode), NEW i \in DOMAIN disk, NEW x \in Inode, disk' = [disk EXCEPT ![i] = x]
  PROVE  /\ disk' \in Seq(Inode)
         /\ \A j \in Nat : j # disk[i].parent /\ j # x.parent => Since(j)' = Since(j)
  <1>1. Len(disk) \in Nat /\ DOMAIN disk = 1 .. Len(disk) /\ disk \in [1 .. Len(disk) -> Inode]
    BY LenProperties, SeqDef
  <1>2. disk' \in [1 .. Len(disk) -> Inode] /\ DOMAIN disk' = DOMAIN disk
        /\ disk'[i] = x /\ \A c \in DOMAIN disk \ {i} : disk'[c] = disk[c]
    BY <1>1
  <1>3. disk' \in Seq(Inode)
    BY <1>1, <1>2
  <1>4. ASSUME NEW j \in Nat, j # disk[i].parent, j # x.parent
        PROVE  Since(j)' = Since(j)
    <2>1. ChildrenOn(disk', j) = ChildrenOn(disk, j)
      BY <1>2, <1>4 DEF ChildrenOn
    <2>2. \A c \in ChildrenOn(disk, j) : disk[c] = disk'[c]
      BY <1>2, <1>4 DEF ChildrenOn
    <2>3. SinceOn(disk', j) = SinceOn(disk, j)
      BY <2>1, <2>2, SameSince
    <2> QED BY <2>3, ListingIsOn
  <1> QED BY <1>3, <1>4

\* A new entry changes the listing of its own directory only.
LEMMA InodeAdded ==
  ASSUME disk \in Seq(Inode), NEW x \in Inode, disk' = Append(disk, x)
  PROVE  /\ disk' \in Seq(Inode)
         /\ \A j \in Nat : j # x.parent => Since(j)' = Since(j)
  <1>1. /\ disk' \in Seq(Inode) /\ Len(disk) \in Nat
        /\ \A c \in DOMAIN disk : c \in DOMAIN disk' /\ disk'[c] = disk[c]
        /\ \A c \in DOMAIN disk' : c \in DOMAIN disk \/ disk'[c] = x
    BY AppendKeeps
  <1>2. ASSUME NEW j \in Nat, j # x.parent
        PROVE  Since(j)' = Since(j)
    <2>1. ChildrenOn(disk', j) = ChildrenOn(disk, j)
      BY <1>1, <1>2 DEF ChildrenOn
    <2>2. \A c \in ChildrenOn(disk, j) : disk[c] = disk'[c]
      BY <1>1 DEF ChildrenOn
    <2>3. SinceOn(disk', j) = SinceOn(disk, j)
      BY <2>1, <2>2, SameSince
    <2> QED BY <2>3, ListingIsOn
  <1> QED BY <1>1, <1>2

\* What Crabinet remembers of its own change.
LEMMA ByKeeps ==
  ASSUME IndexInv, NEW ours, NEW changed \in SUBSET Seq(Names), NEW forgotten \in SUBSET Seq(Names),
         By(ours, changed, forgotten)
  PROVE  MutationSound' /\ UNCHANGED <<rows, total, w, pc, todo, flags, owed, dropped, tracked>>
  <1>1. mutating' = mutating
        \/ mutating' = [i \in {1} |-> [changed |-> changed, forget |-> forgotten]]
    BY DEF By
  <1>2. UNCHANGED <<rows, total, w, pc, todo, flags, owed, dropped, tracked>>
    BY DEF By, remembered
  <1> QED BY <1>1, <1>2 DEF IndexInv, MutationSound

\* What is announced is what the queue tells.
LEMMA AnnouncedIs == \A i : Announced(i) <=> Tells(queue, i)
  BY DEF Announced, Tells

\* An entry is created: its directory, when watched, is told of.
LEMMA CreateKeeps ==
  ASSUME IndexInv, NEW p \in Touched, NEW kind \in EntryKinds, NEW ours \in BOOLEAN,
         Create(p, kind, ours)
  PROVE  IndexInv'
  <1> DEFINE d == At(Parent(p))
             x == [parent |-> d, name |-> p[Len(p)], kind |-> kind, stamp |-> Len(disk) + 1,
                   told |-> Len(disk) + 1]
  <1>1. /\ disk' = Append(disk, x) /\ queue' = Heard(queue, d, "change") /\ kernel' = kernel
        /\ By(ours, {Parent(p)}, {}) /\ IsFolder(d)
    BY DEF Create
  <1>2. /\ disk \in Seq(Inode) /\ kernel \subseteq Nat /\ QueueSound(queue)
        /\ Len(disk) \in Nat /\ DOMAIN disk = 1 .. Len(disk)
    BY LenProperties DEF IndexInv, DiskSound
  <1>3. d \in Nat
    BY <1>1, <1>2 DEF IsFolder
  <1> HIDE DEF d
  <1>4. x \in Inode /\ x.parent = d
    BY <1>2, <1>3, PathFacts DEF Inode, InodeType
  <1> HIDE DEF x
  <1>5. disk' \in Seq(Inode) /\ \A j \in Nat : j # d => Since(j)' = Since(j)
    BY <1>1, <1>2, <1>4, InodeAdded
  <1>6. QueueSound(queue') /\ (\A j : Tells(queue, j) => Tells(queue', j))
        /\ (d \in kernel => Tells(queue', d))
    BY <1>1, <1>2, HeardFacts
  <1>7. MutationSound' /\ UNCHANGED <<rows, total, w, pc, todo, flags, owed, dropped, tracked>>
    BY <1>1, PathFacts, ByKeeps
  <1>8. DiskSound'
    BY <1>1, <1>2, <1>5, <1>6 DEF DiskSound
  <1>9. \A j : (Announced(j) => Announced(j)') /\ (Tells(queue', j) => Announced(j)')
    BY <1>6, AnnouncedIs DEF Announced, Tells
  <1>10. \A j : Grows(Since(j), Since(j))
    BY DEF Grows
  <1>11. \A j \in Nat : Grows(Since(j), Since(j)') \/ j \notin kernel' \/ Announced(j)'
    BY <1>1, <1>5, <1>6, <1>9, <1>10
  <1> QED BY <1>1, <1>7, <1>8, <1>9, <1>11, ShareChanges

\* An entry leaves its directory, enters another, or is written to: who is watched of the
\* directories that this is about is told.
LEMMA EntryChanges ==
  ASSUME IndexInv, NEW i \in DOMAIN disk, NEW x \in Inode, disk' = [disk EXCEPT ![i] = x],
         QueueSound(queue'), \A j : Tells(queue, j) => Tells(queue', j),
         kernel' \subseteq kernel,
         disk[i].parent \in kernel => Tells(queue', disk[i].parent),
         x.parent \in kernel \ {disk[i].parent} => Tells(queue', x.parent),
         NEW ours \in BOOLEAN, NEW changed \in SUBSET Seq(Names), NEW forgotten \in SUBSET Seq(Names),
         By(ours, changed, forgotten)
  PROVE  IndexInv'
  <1>1. disk \in Seq(Inode) /\ kernel \subseteq Nat
    BY DEF IndexInv, DiskSound
  <1>2. /\ disk' \in Seq(Inode)
        /\ \A j \in Nat : j # disk[i].parent /\ j # x.parent => Since(j)' = Since(j)
    BY <1>1, InodeChanges
  <1>3. MutationSound' /\ UNCHANGED <<rows, total, w, pc, todo, flags, owed, dropped, tracked>>
    BY ByKeeps
  <1>4. DiskSound'
    BY <1>1, <1>2 DEF DiskSound
  <1>5. \A j : (Announced(j) => Announced(j)') /\ (Tells(queue', j) => Announced(j)')
    BY AnnouncedIs DEF Announced, Tells
  <1>6. \A j \in Nat : Since(j)' = Since(j) \/ j \notin kernel' \/ Announced(j)'
    BY <1>2, <1>5
  <1>7. \A j : Grows(Since(j), Since(j))
    BY DEF Grows
  <1>8. \A j \in Nat : Grows(Since(j), Since(j)') \/ j \notin kernel' \/ Announced(j)'
    BY <1>6, <1>7
  <1> QED BY <1>3, <1>4, <1>5, <1>8, ShareChanges

\* The entry of an inode.
LEMMA InodeFacts ==
  ASSUME IndexInv, NEW i \in DOMAIN disk
  PROVE  /\ disk[i] \in Inode /\ disk[i] \in InodeType /\ disk[i].stamp \in Nat /\ kernel \subseteq Nat /\ QueueSound(queue)
         /\ i \in Nat
  <1>1. disk \in Seq(Inode) /\ kernel \subseteq Nat /\ QueueSound(queue)
    BY DEF IndexInv, DiskSound
  <1>2. disk[i] \in Inode /\ i \in Nat
    BY <1>1, LenProperties, ElementOfSeq
  <1> QED BY <1>1, <1>2 DEF Inode, InodeType

\* A file is written: only its stamps change.
LEMMA WriteFileKeeps ==
  ASSUME IndexInv, NEW p \in Touched, NEW ours \in BOOLEAN, WriteFile(p, ours)
  PROVE  IndexInv'
  <1> DEFINE i == At(p)
             x == [disk[i] EXCEPT !.stamp = @ + 1, !.told = disk[i].stamp + 1]
  <1>1. /\ i \in DOMAIN disk /\ disk' = [disk EXCEPT ![i] = x]
        /\ queue' = Heard(queue, disk[i].parent, "change") /\ kernel' = kernel
        /\ By(ours, {Parent(p)}, {})
    BY DEF WriteFile
  <1> HIDE DEF i
  <1>2. disk[i] \in Inode /\ disk[i].stamp \in Nat /\ kernel \subseteq Nat /\ QueueSound(queue)
    BY <1>1, InodeFacts
  <1>3. x \in Inode /\ x.parent = disk[i].parent
    <2>1. PICK s : s = disk[i]
      OBVIOUS
    <2>2. s \in InodeType /\ s.stamp \in Nat
      BY <1>2, <2>1 DEF Inode
    <2>3. PICK y : y = [s EXCEPT !.stamp = s.stamp + 1]
      OBVIOUS
    <2>4. y \in InodeType /\ y.stamp = s.stamp + 1 /\ y.parent = s.parent
      BY <2>2, <2>3 DEF InodeType
    <2>5. x = [y EXCEPT !.told = s.stamp + 1]
      BY <2>1, <2>3
    <2>6. x \in InodeType /\ x.stamp = s.stamp + 1 /\ x.told = s.stamp + 1 /\ x.parent = s.parent
      BY <2>2, <2>4, <2>5 DEF InodeType
    <2> HIDE DEF x
    <2> QED BY <2>1, <2>2, <2>6 DEF Inode
  <1> HIDE DEF x
  <1>4. QueueSound(queue') /\ (\A j : Tells(queue, j) => Tells(queue', j))
        /\ (disk[i].parent \in kernel => Tells(queue', disk[i].parent))
    BY <1>1, <1>2, HeardFacts
  <1>5. {Parent(p)} \in SUBSET Seq(Names) /\ {} \in SUBSET Seq(Names)
    BY PathFacts
  <1> QED BY <1>1, <1>3, <1>4, <1>5, EntryChanges

\* A file is written to silently: its row may be what it was before.
LEMMA WriteSilentlyKeeps ==
  ASSUME IndexInv, NEW p \in Touched, WriteSilently(p)
  PROVE  IndexInv'
  <1> DEFINE i == At(p)
             x == [disk[i] EXCEPT !.stamp = @ + 1]
  <1>1. /\ i \in DOMAIN disk /\ disk' = [disk EXCEPT ![i] = x]
        /\ queue' = queue /\ kernel' = kernel /\ By(FALSE, {}, {})
    BY DEF WriteSilently
  <1> HIDE DEF i
  <1>2. /\ disk[i] \in InodeType /\ disk[i].told <= disk[i].stamp /\ disk[i].stamp \in Nat
        /\ disk \in Seq(Inode)
    BY <1>1, InodeFacts DEF Inode, IndexInv, DiskSound
  <1>3. /\ x \in Inode /\ x.parent = disk[i].parent /\ x.name = disk[i].name
        /\ x.kind = disk[i].kind /\ x.told = disk[i].told /\ disk[i].stamp <= x.stamp
    <2>1. PICK s : s = disk[i]
      OBVIOUS
    <2>2. s \in InodeType /\ s.stamp \in Nat /\ s.told \in Nat /\ s.told <= s.stamp
      BY <1>2, <2>1 DEF InodeType
    <2>3. PICK y : y = [s EXCEPT !.stamp = s.stamp + 1]
      OBVIOUS
    <2>4. /\ y \in InodeType /\ y.parent = s.parent /\ y.name = s.name /\ y.kind = s.kind
          /\ y.told = s.told /\ y.stamp = s.stamp + 1
      BY <2>2, <2>3 DEF InodeType
    <2>5. y \in Inode /\ s.stamp <= y.stamp
      BY <2>2, <2>4 DEF Inode
    <2>6. x = y
      BY <2>1, <2>3
    <2> HIDE DEF x
    <2> QED BY <2>1, <2>4, <2>5, <2>6
  <1> HIDE DEF x
  <1>4. disk' \in Seq(Inode) /\ DOMAIN disk' = DOMAIN disk
        /\ disk'[i] = x /\ \A c \in DOMAIN disk \ {i} : disk'[c] = disk[c]
    <2>1. Len(disk) \in Nat /\ DOMAIN disk = 1 .. Len(disk) /\ disk \in [1 .. Len(disk) -> Inode]
      BY <1>2, LenProperties, SeqDef
    <2>2. disk' \in [1 .. Len(disk) -> Inode] /\ DOMAIN disk' = DOMAIN disk
          /\ disk'[i] = x /\ \A c \in DOMAIN disk \ {i} : disk'[c] = disk[c]
      BY <1>1, <1>3, <2>1
    <2> QED BY <2>1, <2>2
  <1>5. \A j \in Nat : Grows(Since(j), Since(j)')
    <2> TAKE j \in Nat
    <2>1. ChildrenOn(disk, j) = ChildrenOn(disk', j)
      BY <1>3, <1>4 DEF ChildrenOn
    <2>2. \A c \in DOMAIN disk : disk[c].stamp \in Nat
      BY InodeFacts
    <2>3. \A c \in ChildrenOn(disk, j) :
             /\ disk[c].name = disk'[c].name /\ disk[c].kind = disk'[c].kind
             /\ disk[c].told = disk'[c].told /\ disk[c].stamp <= disk'[c].stamp
      BY <1>3, <1>4, <2>2 DEF ChildrenOn
    <2>4. Grows(SinceOn(disk, j), SinceOn(disk', j))
      BY <1>2, <1>4, <2>1, <2>3, MoreSince
    <2> QED BY <2>4, ListingIsOn
  <1>6. MutationSound' /\ UNCHANGED <<rows, total, w, pc, todo, flags, owed, dropped, tracked>>
    BY <1>1, ByKeeps
  <1>7. DiskSound'
    BY <1>1, <1>4 DEF IndexInv, DiskSound, QueueSound
  <1>8. \A j : Announced(j) => Announced(j)'
    BY <1>1 DEF Announced
  <1> QED BY <1>1, <1>5, <1>6, <1>7, <1>8, ShareChanges

\* An entry leaves the share; its own listing stays what it was.
LEMMA TakeAwayKeeps ==
  ASSUME IndexInv, NEW p \in Touched, NEW ours \in BOOLEAN, NEW forget \in BOOLEAN,
         TakeAway(p, ours, forget)
  PROVE  IndexInv'
  <1> DEFINE i == At(p)
             x == [disk[i] EXCEPT !.parent = Gone]
             q == Heard(queue, disk[i].parent, "change")
             forgotten == IF forget THEN {p} ELSE {}
  <1>1. /\ i \in DOMAIN disk /\ disk' = [disk EXCEPT ![i] = x]
        /\ queue' = HeardSelf(q, i) /\ kernel' = kernel
        /\ By(ours, {Parent(p)}, forgotten)
    BY DEF TakeAway
  <1>5. {Parent(p)} \in SUBSET Seq(Names) /\ forgotten \in SUBSET Seq(Names)
    BY PathFacts
  <1> HIDE DEF i, forgotten
  <1>2. disk[i] \in Inode /\ disk[i].stamp \in Nat /\ kernel \subseteq Nat /\ QueueSound(queue)
    BY <1>1, InodeFacts
  <1>3. x \in Inode /\ x.parent \notin kernel
    BY <1>2 DEF Inode, InodeType, Gone
  <1> HIDE DEF x
  <1>4. QueueSound(q) /\ (\A j : Tells(queue, j) => Tells(q, j))
        /\ (disk[i].parent \in kernel => Tells(q, disk[i].parent))
    BY <1>2, HeardFacts
  <1> HIDE DEF q
  <1>6. QueueSound(queue') /\ (\A j : Tells(q, j) => Tells(queue', j))
    BY <1>1, <1>2, <1>4, HeardSelfFacts
  <1> QED BY <1>1, <1>3, <1>4, <1>5, <1>6, EntryChanges

\* An empty directory is removed, and its watch with it.
LEMMA RemoveDirectoryKeeps ==
  ASSUME IndexInv, NEW p \in Touched, RemoveDirectory(p)
  PROVE  IndexInv'
  <1> DEFINE i == At(p)
             x == [disk[i] EXCEPT !.parent = Gone]
             q == Heard(queue, i, "self")
             r == Heard(q, i, "ignored")
  <1>1. /\ i \in DOMAIN disk /\ disk' = [disk EXCEPT ![i] = x]
        /\ queue' = Heard(r, disk[i].parent, "change") /\ kernel' = kernel \ {i}
        /\ By(FALSE, {}, {})
    BY DEF RemoveDirectory
  <1> HIDE DEF i
  <1>2. disk[i] \in Inode /\ disk[i].stamp \in Nat /\ kernel \subseteq Nat /\ QueueSound(queue)
    BY <1>1, InodeFacts
  <1>3. x \in Inode /\ x.parent \notin kernel
    BY <1>2 DEF Inode, InodeType, Gone
  <1> HIDE DEF x
  <1>4. QueueSound(q) /\ (\A j : Tells(queue, j) => Tells(q, j))
    BY <1>2, HeardFacts
  <1> HIDE DEF q
  <1>5. QueueSound(r) /\ (\A j : Tells(q, j) => Tells(r, j))
    BY <1>2, <1>4, HeardFacts
  <1> HIDE DEF r
  <1>6. QueueSound(queue') /\ (\A j : Tells(r, j) => Tells(queue', j))
        /\ (disk[i].parent \in kernel => Tells(queue', disk[i].parent))
    BY <1>1, <1>2, <1>5, HeardFacts
  <1>7. (\A j : Tells(queue, j) => Tells(queue', j)) /\ kernel' \subseteq kernel
    BY <1>1, <1>4, <1>5, <1>6
  <1> QED BY <1>1, <1>3, <1>6, <1>7, EntryChanges

\* An entry is renamed: the directories it leaves and enters are both told of.
LEMMA MoveKeeps ==
  ASSUME IndexInv, NEW p \in Touched, NEW t \in Targets, NEW ours \in BOOLEAN, Move(p, t, ours)
  PROVE  IndexInv'
  <1> DEFINE i == At(p)
             d == At(Parent(t))
             x == [disk[i] EXCEPT !.parent = d, !.name = t[Len(t)]]
             q == Heard(queue, disk[i].parent, "change")
             r == Heard(q, d, "change")
  <1>1. /\ i \in DOMAIN disk /\ disk' = [disk EXCEPT ![i] = x] /\ IsFolder(d)
        /\ queue' = HeardSelf(r, i) /\ kernel' = kernel
        /\ By(ours, {Parent(p), Parent(t)}, {})
    BY DEF Move
  <1> HIDE DEF i, d
  <1>2. disk[i] \in Inode /\ disk[i].stamp \in Nat /\ kernel \subseteq Nat /\ QueueSound(queue)
    BY <1>1, InodeFacts
  <1>3. d \in Nat
    <2>1. \A c \in DOMAIN disk : c \in Nat
      BY InodeFacts
    <2> QED BY <1>1, <2>1 DEF IsFolder
  <1>4. x \in Inode /\ x.parent = d
    BY <1>2, <1>3, PathFacts DEF Inode, InodeType
  <1> HIDE DEF x
  <1>5. QueueSound(q) /\ (\A j : Tells(queue, j) => Tells(q, j))
        /\ (disk[i].parent \in kernel => Tells(q, disk[i].parent))
    BY <1>2, HeardFacts
  <1> HIDE DEF q
  <1>6. QueueSound(r) /\ (\A j : Tells(q, j) => Tells(r, j)) /\ (d \in kernel => Tells(r, d))
    BY <1>2, <1>5, HeardFacts
  <1> HIDE DEF r
  <1>7. QueueSound(queue') /\ (\A j : Tells(r, j) => Tells(queue', j))
    BY <1>1, <1>2, <1>6, HeardSelfFacts
  <1>8. (\A j : Tells(queue, j) => Tells(queue', j)) /\ kernel' \subseteq kernel
    BY <1>1, <1>5, <1>6, <1>7
  <1>9. {Parent(p), Parent(t)} \in SUBSET Seq(Names) /\ {} \in SUBSET Seq(Names)
    BY PathFacts
  <1> QED BY <1>1, <1>4, <1>5, <1>6, <1>7, <1>8, <1>9, EntryChanges

\* So every change of the share keeps the invariant.
LEMMA ChangeKeeps ==
  ASSUME IndexInv, Change
  PROVE  IndexInv'
  BY CreateKeeps, WriteFileKeeps, WriteSilentlyKeeps, TakeAwayKeeps, MoveKeeps, RemoveDirectoryKeeps DEF Change

-----------------------------------------------------------------------------
(* Mutations end, and the server starts                                     *)

LEMMA ListingsStay ==
  ASSUME UNCHANGED disk
  PROVE  \A i : Since(i)' = Since(i)
  BY ListingIsOn

\* The paths of rows are among those that forget goes through.
LEMMA ShortPaths ==
  ASSUME NEW q \in Seq(Names), Len(q) <= MaxDepth
  PROVE  q \in Paths
  <1>1. Len(q) \in 0 .. MaxDepth + 1 /\ q \in [1 .. Len(q) -> Names]
    BY Bounds, LenProperties, SeqDef
  <1> QED BY <1>1 DEF Paths

\* Rows that forget removes are dropped, and a row that stays has its directory.
LEMMA ForgetKeeps ==
  ASSUME IndexInv, mutating # <<>>, Forget
  PROVE  IndexInv'
  <1>1. PICK p \in mutating[1].forget :
          /\ rows' = Restrict(rows, {q \in DOMAIN rows : q # p /\ ~Below(q, p)})
          /\ total' = total - Cardinality(DOMAIN rows \ {q \in DOMAIN rows : q # p /\ ~Below(q, p)})
          /\ dropped' = dropped \cup {q \in Paths : q = p \/ Below(q, p)}
          /\ mutating' = [mutating EXCEPT ![1].forget = {}]
          /\ UNCHANGED <<disk, kernel, queue, w, pc, todo, flags, budget, owed, tracked>>
    BY DEF Forget, shares
  <1> DEFINE kept == {q \in DOMAIN rows : q # p /\ ~Below(q, p)}
  <1>2. RowsSound(rows, total)
    BY DEF IndexInv
  <1>3. DOMAIN rows' = kept /\ \A q \in kept : rows'[q] = rows[q]
    BY <1>1 DEF Restrict
  <1>4. rows' \in [kept -> Entry] /\ kept \in SUBSET DOMAIN rows
    BY <1>1, <1>2, <1>3 DEF Restrict, RowsSound
  <1>5. \A q \in DOMAIN rows \ kept : q \in dropped'
    <2> TAKE q \in DOMAIN rows \ kept
    <2>1. q = p \/ Below(q, p)
      OBVIOUS
    <2>2. q \in Paths
      BY <1>2, ShortPaths DEF RowsSound
    <2> QED BY <1>1, <2>1, <2>2
  <1>6. total' = total - Cardinality(DOMAIN rows \ kept)
    BY <1>1
  <1> HIDE DEF kept
  <1>7. RowsSound(rows', total')
    <2>1. IsFiniteSet(DOMAIN rows) /\ total = Cardinality(DOMAIN rows) /\ total <= MaxEntries
      BY <1>2 DEF RowsSound
    <2>2. /\ IsFiniteSet(kept) /\ Cardinality(kept) \in Nat /\ total \in Nat
          /\ Cardinality(DOMAIN rows \ kept) = total - Cardinality(kept) /\ Cardinality(kept) <= total
      BY <1>4, <2>1, Fewer, FS_Subset
    <2> QED BY <1>2, <1>3, <1>4, <1>6, <2>1, <2>2, Bounds DEF RowsSound
  <1>8. MutationSound'
    <2>1. mutating \in [{1} -> [changed : SUBSET Seq(Names), forget : SUBSET Seq(Names)]]
      BY DEF IndexInv, MutationSound
    <2>2. mutating' \in [{1} -> [changed : SUBSET Seq(Names), forget : SUBSET Seq(Names)]]
      BY <1>1, <2>1
    <2>3. Paths \subseteq Seq(Names)
      BY Bounds DEF Paths
    <2> QED BY <1>1, <2>2, <2>3 DEF IndexInv, MutationSound
  <1>9. DiskSound' /\ WorkSound' /\ TaskSound' /\ flags' \in Flagged
    BY <1>1 DEF IndexInv, DiskSound, WorkSound, TaskSound, WorkType, TaskType, MapsSound, QueueSound
  <1>10. Arrives'
    BY <1>1, ListingsStay DEF IndexInv, Arrives, Announced
  <1>11. MutationsAreSeen'
    BY <1>1 DEF IndexInv, MutationsAreSeen, Awaited, BoundMet, Leads
  <1>12. ChangesAreSeen'
    <2> SUFFICES ASSUME NEW i \in DOMAIN w.watches, Behind(w.watches[i], i)'
                 PROVE  (Announced(i) \/ Awaited(w.watches[i]) \/ Arriving(w.watches[i], i) \/ BoundMet)'
      BY <1>1 DEF ChangesAreSeen
    <2> DEFINE d == w.watches[i]
    <2>1. Known(d)
      BY <1>1, <1>3, <1>4 DEF Behind, Known
    <2>2. Differs(d, i)
      <3>1. PICK n \in Names : LET q == Append(d, n)
                                  there == n \in DOMAIN Since(i)'
                              IN q \notin dropped' /\ IF there /\ q \in DOMAIN rows' THEN rows'[q] \notin Since(i)'[n]
                                                      ELSE there \/ q \in DOMAIN rows'
        BY <1>1 DEF Behind, Differs, Unlike
      <3>2. Append(d, n) \in DOMAIN rows => Append(d, n) \in kept
        BY <1>5, <3>1
      <3>3. Append(d, n) \notin dropped
        BY <1>1, <3>1
      <3>4. Since(i)' = Since(i)
        BY <1>1, ListingsStay
      <3> QED BY <1>3, <1>4, <3>1, <3>2, <3>3, <3>4 DEF Differs, Unlike
    <2>3. Behind(d, i)
      BY <1>1, <2>1, <2>2 DEF Behind
    <2>4. Announced(i) \/ Awaited(d) \/ Arriving(d, i) \/ BoundMet
      BY <2>3 DEF IndexInv, ChangesAreSeen
    <2> QED BY <1>1, <2>4, ListingsStay DEF Announced, Awaited, Arriving, BoundMet, Leads
  <1> QED BY <1>7, <1>8, <1>9, <1>10, <1>11, <1>12 DEF IndexInv

\* A mutation ends: what it changed is owed while invalidated is set.
LEMMA InvalidateKeeps ==
  ASSUME IndexInv, mutating # <<>>, Invalidate
  PROVE  IndexInv'
  <1>1. /\ flags' = [flags EXCEPT !.invalidated = TRUE, !.indexing = TRUE]
        /\ owed' = IF flags.polling THEN owed \cup mutating[1].changed ELSE owed
        /\ mutating' = <<>>
        /\ UNCHANGED <<disk, kernel, queue, rows, total, w, pc, todo, budget, dropped, tracked>>
    BY DEF Invalidate, shares
  <1>2. flags \in Flagged
    BY DEF IndexInv
  <1>3. flags' \in Flagged /\ flags'.invalidated = TRUE /\ flags'.polling = flags.polling
    BY <1>1, <1>2 DEF Flagged
  <1>4. mutating[1].changed \subseteq Seq(Names)
    BY DEF IndexInv, MutationSound
  <1>5. MutationSound'
    BY <1>1, <1>3, <1>4 DEF IndexInv, MutationSound
  <1>6. DiskSound' /\ RowsSound(rows, total)' /\ WorkSound' /\ TaskSound'
    BY <1>1 DEF IndexInv, DiskSound, RowsSound, WorkSound, TaskSound, WorkType, TaskType, MapsSound, QueueSound
  <1>7. Arrives'
    BY <1>1, ListingsStay DEF IndexInv, Arrives, Announced
  <1>8. MutationsAreSeen'
    BY <1>3 DEF MutationsAreSeen
  <1>9. ChangesAreSeen'
    BY <1>1, ListingsStay DEF IndexInv, ChangesAreSeen, Behind, Known, Differs, Unlike, Announced, Awaited,
       Arriving, BoundMet, Leads
  <1> QED BY <1>3, <1>5, <1>6, <1>7, <1>8, <1>9 DEF IndexInv

\* With the worker's state new, nothing is known, and a pass is to come.
LEMMA NewWork ==
  ASSUME NEW n \in Nat, w' = NoWork(n), pc' = "idle", todo' = NoTask, flags' = NewFlags,
         kernel' = {}, queue' = <<>>, disk' \in Seq(Inode), RowsSound(rows', total'), MutationSound'
  PROVE  IndexInv'
  <1>1. DOMAIN Nothing = {} /\ Root \in Seq(Names)
    BY EmptySeq DEF Nothing, Root
  <1>2. /\ w'.watches = Nothing /\ w'.watched = Nothing /\ w'.allowance = n /\ w'.dirty = {}
        /\ w'.passed = FALSE /\ todo'.listing = Nothing /\ todo'.hit = FALSE /\ todo'.path = Root
    BY DEF NoWork, NoTask
  <1>3. WorkType(w')
    <2>1. <<>> \in Seq(Seq(Names) \X BOOLEAN)
      BY EmptySeq
    <2> QED BY <2>1 DEF NoWork, WorkType
  <1>4. MapsSound(w') /\ IsFiniteSet(w'.dirty)
    <2>1. IsFiniteSet({}) /\ Cardinality({}) = 0
      BY FS_EmptySet
    <2>2. Nothing \in [{} -> Seq(Names)] /\ Nothing \in [{} -> Nat]
      BY DEF Nothing
    <2> QED BY <1>1, <1>2, <2>1, <2>2 DEF MapsSound
  <1>5. TaskSound'
    <2>1. TaskType(todo')
      BY <1>1 DEF NoTask, TaskType
    <2>2. IsFiniteSet({}) /\ Nothing \in [{} -> Entry]
      BY FS_EmptySet DEF Nothing
    <2> QED BY <1>1, <1>2, <2>1, <2>2 DEF TaskSound, Phases, TaskType
  <1>6. DiskSound'
    <2>1. queue' \in Seq(Event) /\ Len(queue') = 0
      BY EmptySeq
    <2> QED BY <2>1, Bounds DEF DiskSound, QueueSound
  <1>7. flags' \in Flagged
    BY DEF NewFlags, Flagged
  <1>8. Arrives'
    BY DEF Arrives
  <1>9. ChangesAreSeen'
    BY <1>1, <1>2 DEF ChangesAreSeen
  <1>10. MutationsAreSeen'
    BY <1>2 DEF MutationsAreSeen, Awaited
  <1> QED BY <1>3, <1>4, <1>5, <1>6, <1>7, <1>8, <1>9, <1>10 DEF IndexInv, WorkSound

\* The server starts: no watch, no promise, and the rows that were stored.
LEMMA ReopenKeeps ==
  ASSUME IndexInv, Reopen
  PROVE  IndexInv'
  <1>1. /\ rows' \in {rows, Nothing} /\ total' = Cardinality(DOMAIN rows')
        /\ w' = NoWork(w.allowance) /\ pc' = "idle" /\ todo' = NoTask /\ flags' = NewFlags
        /\ kernel' = {} /\ queue' = <<>> /\ mutating' = <<>>
        /\ UNCHANGED <<disk, owed, dropped, tracked>>
    BY DEF Reopen, remembered
  <1>2. w.allowance \in Nat /\ disk' \in Seq(Inode)
    BY <1>1, Fields DEF IndexInv, DiskSound
  <1>3. RowsSound(rows', total')
    <2>1. CASE rows' = rows
      BY <1>1, <2>1 DEF IndexInv, RowsSound
    <2>2. CASE rows' = Nothing
      <3>1. DOMAIN Nothing = {} /\ Nothing \in [{} -> Entry] /\ IsFiniteSet({}) /\ Cardinality({}) = 0
        BY FS_EmptySet DEF Nothing
      <3> QED BY <1>1, <2>2, <3>1, Bounds DEF RowsSound
    <2> QED BY <1>1, <2>1, <2>2
  <1>4. MutationSound'
    <2>1. flags'.polling = TRUE
      BY <1>1 DEF NewFlags
    <2> QED BY <1>1, <2>1 DEF IndexInv, MutationSound
  <1> QED BY <1>1, <1>2, <1>3, <1>4, NewWork

\* At the start nothing is known.
LEMMA InitInv ==
  ASSUME IndexInit
  PROVE  IndexInv
  <1>1. PICK n \in Allowances : w = NoWork(n)
    BY DEF IndexInit
  <1>2. /\ kernel = {} /\ queue = <<>> /\ rows = Nothing /\ total = 0
        /\ pc = "idle" /\ todo = NoTask /\ flags = NewFlags /\ mutating = <<>>
        /\ owed = {} /\ dropped = {} /\ tracked = {}
    BY DEF IndexInit
  <1>3. n \in Nat
    BY Bounds
  <1>4. DOMAIN Nothing = {} /\ Root \in Seq(Names) /\ IsFiniteSet({}) /\ Cardinality({}) = 0
        /\ Nothing \in [{} -> Seq(Names)] /\ Nothing \in [{} -> Nat] /\ Nothing \in [{} -> Entry]
    BY EmptySeq, FS_EmptySet DEF Nothing, Root
  <1>5. disk \in Seq(Inode)
    <2>1. /\ disk = [i \in DOMAIN Start |-> [parent |-> Start[i].parent, name |-> Start[i].name,
                                             kind |-> Start[i].kind, stamp |-> 0, told |-> 0]]
          /\ Start \in Seq([parent : Nat, name : Names, kind : EntryKinds])
      BY SearchAssumption DEF IndexInit
    <2>2. \A i \in DOMAIN Start : disk[i] \in Inode
      <3> TAKE i \in DOMAIN Start
      <3> DEFINE Given == [parent : Nat, name : Names, kind : EntryKinds]
      <3>1. Start \in Seq(Given)
        BY <2>1
      <3> HIDE DEF Given
      <3>2. Start[i] \in Given
        BY <3>1, ElementOfSeq, LenProperties
      <3> QED BY <2>1, <3>2 DEF Inode, InodeType, Given
    <2>3. Len(Start) \in Nat /\ DOMAIN Start = 1 .. Len(Start)
      BY <2>1, LenProperties
    <2>4. disk \in [1 .. Len(Start) -> Inode]
      BY <2>1, <2>2, <2>3
    <2> QED BY <2>3, <2>4
  <1>6. /\ w.watches = Nothing /\ w.watched = Nothing /\ w.allowance = n /\ w.dirty = {}
        /\ w.passed = FALSE /\ todo.listing = Nothing /\ todo.hit = FALSE /\ todo.path = Root
    BY <1>1, <1>2 DEF NoWork, NoTask
  <1>7. WorkSound
    <2>1. <<>> \in Seq(Seq(Names) \X BOOLEAN)
      BY EmptySeq
    <2>2. WorkType(w)
      BY <1>1, <1>3, <2>1 DEF NoWork, WorkType
    <2>3. MapsSound(w) /\ IsFiniteSet(w.dirty)
      BY <1>3, <1>4, <1>6 DEF MapsSound
    <2> QED BY <2>2, <2>3 DEF WorkSound
  <1>8. TaskSound
    <2>1. TaskType(todo)
      BY <1>2, <1>4 DEF NoTask, TaskType
    <2> QED BY <1>2, <1>4, <1>6, <2>1 DEF TaskSound, Phases
  <1>9. DiskSound
    <2>1. queue \in Seq(Event) /\ Len(queue) = 0
      BY <1>2, EmptySeq
    <2> QED BY <1>2, <1>5, <2>1, Bounds DEF DiskSound, QueueSound
  <1>10. RowsSound(rows, total)
    BY <1>2, <1>4, Bounds DEF RowsSound
  <1>11. flags \in Flagged /\ MutationSound /\ MutationsAreSeen
    BY <1>2 DEF NewFlags, Flagged, MutationSound, MutationsAreSeen
  <1>12. Arrives /\ ChangesAreSeen
    BY <1>2, <1>4, <1>6 DEF Arrives, ChangesAreSeen
  <1> QED BY <1>7, <1>8, <1>9, <1>10, <1>11, <1>12 DEF IndexInv

-----------------------------------------------------------------------------
(* The worker                                                               *)

\* ChangesAreSeen, with the path named.
Excused(p, i) == Announced(i) \/ Awaited(p) \/ Arriving(p, i) \/ BoundMet
LEMMA Seen ==
  /\ ChangesAreSeen <=> \A i \in DOMAIN w.watches : \A p :
        p = w.watches[i] /\ Behind(p, i) => Excused(p, i)
  /\ ChangesAreSeen' <=> \A i \in DOMAIN w'.watches : \A p :
        p = w'.watches[i] /\ Behind(p, i)' => Excused(p, i)'
  BY DEF ChangesAreSeen, Behind, Known, Differs, Unlike, Excused, Announced, Awaited, Leads, Arriving, BoundMet

\* Outside of a listing, what is known stays known if no promise to look is dropped.
LEMMA PromisesStay ==
  ASSUME IndexInv, UNCHANGED <<disk, kernel, rows, dropped, tracked>>,
         pc # "reconcile", pc' # "reconcile",
         DOMAIN w'.watches \subseteq DOMAIN w.watches,
         \A i \in DOMAIN w'.watches : w'.watches[i] = w.watches[i],
         \A i \in DOMAIN w'.watches : \A p \in Seq(Names) :
            p = w.watches[i] /\ Announced(i) => Announced(i)' \/ Awaited(p)',
         \A p \in Seq(Names) : Awaited(p) \/ BoundMet => Awaited(p)' \/ BoundMet'
  PROVE  ChangesAreSeen' /\ Arrives'
  <1>1. Arrives'
    BY DEF Arrives
  <1>2. ASSUME NEW i \in DOMAIN w'.watches, NEW p, p = w'.watches[i], Behind(p, i)'
        PROVE  Excused(p, i)'
    <2>1. i \in DOMAIN w.watches /\ w.watches[i] = p /\ p \in Seq(Names)
      BY <1>2 DEF IndexInv, WorkSound, MapsSound
    <2>2. Behind(p, i)
      BY <1>2, ListingsStay DEF Behind, Known, Differs, Unlike
    <2>3. Announced(i) \/ Awaited(p) \/ BoundMet
      BY <2>1, <2>2, Seen DEF IndexInv, Excused, Arriving
    <2> QED BY <1>2, <2>1, <2>3 DEF Excused
  <1> QED BY <1>1, <1>2, Seen

\* What mutations are owed stays promised if no promise to look is dropped.
LEMMA OwedStay ==
  ASSUME IndexInv, owed' \subseteq owed,
         \A p \in Seq(Names) : Awaited(p) \/ BoundMet => Awaited(p)' \/ BoundMet',
         flags.invalidated /\ flags.polling => flags'.invalidated \/ \A p \in Seq(Names) : Awaited(p)'
  PROVE  MutationsAreSeen'
  <1> SUFFICES ASSUME NEW p \in owed' PROVE Awaited(p)' \/ BoundMet' \/ flags'.invalidated
    BY DEF MutationsAreSeen
  <1>1. p \in owed /\ p \in Seq(Names) /\ flags.polling
    <2>1. p \in owed /\ owed \subseteq Seq(Names) /\ (~flags.polling => owed = {})
      BY DEF IndexInv, MutationSound
    <2> QED BY <2>1
  <1>2. Awaited(p) \/ BoundMet \/ flags.invalidated
    BY <1>1 DEF IndexInv, MutationsAreSeen
  <1> QED BY <1>1, <1>2

\* A notification that is read: what it is about is dirty, or all is to be looked at again.
LEMMA NotedFacts ==
  ASSUME IndexInv, NEW e \in Event, NEW v, v = Noted(e)
  PROVE  /\ WorkType(v) /\ MapsSound(v) /\ IsFiniteSet(v.dirty)
         /\ v.pending = w.pending /\ v.full = w.full /\ v.passed = w.passed
         /\ v.incomplete = w.incomplete /\ v.passIncomplete = w.passIncomplete
         /\ w.dirty \subseteq v.dirty /\ (w.requested => v.requested)
         /\ DOMAIN v.watches \subseteq DOMAIN w.watches
         /\ \A i \in DOMAIN v.watches : v.watches[i] = w.watches[i]
         /\ e.what = "overflow" => v.requested
         /\ e.what = "change" /\ e.wd \in DOMAIN w.watches => w.watches[e.wd] \in v.dirty
  <1>1. WorkType(w) /\ MapsSound(w) /\ IsFiniteSet(w.dirty)
    BY DEF IndexInv, WorkSound
  <1>2. CASE e.what = "overflow"
    <2>1. v = [w EXCEPT !.requested = TRUE]
      BY <1>2 DEF Noted
    <2>2. v.requested = TRUE /\ v.watches = w.watches /\ v.watched = w.watched /\ v.dirty = w.dirty
          /\ v.pending = w.pending /\ v.full = w.full /\ v.passed = w.passed
          /\ v.incomplete = w.incomplete /\ v.passIncomplete = w.passIncomplete
          /\ v.allowance = w.allowance
      BY <1>1, <2>1 DEF WorkType
    <2>3. WorkType(v)
      BY <1>1, <2>1 DEF WorkType
    <2>4. MapsSound(v)
      BY <1>1, <2>2 DEF MapsSound
    <2> QED BY <1>1, <1>2, <2>2, <2>3, <2>4
  <1>3. CASE e.what # "overflow" /\ e.wd \notin DOMAIN w.watches
    <2>1. v = w
      BY <1>3 DEF Noted
    <2> QED BY <1>1, <1>3, <2>1
  <1>4. CASE e.what = "ignored" /\ e.wd \in DOMAIN w.watches
    <2> DEFINE p == w.watches[e.wd]
               ws == Restrict(w.watches, DOMAIN w.watches \ {e.wd})
               wd == Restrict(w.watched, DOMAIN w.watched \ {p})
    <2>1. p \in DOMAIN w.watched /\ w.watched[p] = e.wd
      BY <1>1, <1>4 DEF MapsSound
    <2>2. v = [w EXCEPT !.watches = ws, !.watched = wd]
      BY <1>4, <2>1 DEF Noted
    <2>3. /\ DOMAIN ws = DOMAIN w.watches \ {e.wd} /\ \A i \in DOMAIN ws : ws[i] = w.watches[i]
          /\ DOMAIN wd = DOMAIN w.watched \ {p} /\ \A q \in DOMAIN wd : wd[q] = w.watched[q]
          /\ ws = [i \in DOMAIN ws |-> w.watches[i]] /\ wd = [q \in DOMAIN wd |-> w.watched[q]]
      BY DEF Restrict
    <2> HIDE DEF ws, wd, p
    <2>4. v.watches = ws /\ v.watched = wd /\ v.dirty = w.dirty /\ v.requested = w.requested
          /\ v.pending = w.pending /\ v.full = w.full /\ v.passed = w.passed
          /\ v.incomplete = w.incomplete /\ v.passIncomplete = w.passIncomplete
          /\ v.allowance = w.allowance
      BY <1>1, <2>2 DEF WorkType
    <2>5. WorkType(v)
      BY <1>1, <2>2 DEF WorkType
    <2>6. IsFiniteSet(DOMAIN wd) /\ Cardinality(DOMAIN wd) <= w.allowance
      <3>1. IsFiniteSet(DOMAIN w.watched) /\ Cardinality(DOMAIN w.watched) <= w.allowance /\ w.allowance \in Nat
        BY <1>1 DEF MapsSound, WorkType
      <3>2. /\ IsFiniteSet(DOMAIN wd) /\ Cardinality(DOMAIN wd) <= Cardinality(DOMAIN w.watched)
            /\ Cardinality(DOMAIN wd) \in Nat /\ Cardinality(DOMAIN w.watched) \in Nat
        BY <2>3, <3>1, FS_Subset, FS_CardinalityType
      <3> QED BY <3>1, <3>2
    <2>7. MapsSound(v)
      <3>1. /\ DOMAIN ws \subseteq Nat /\ ws \in [DOMAIN ws -> Seq(Names)]
            /\ DOMAIN wd \subseteq Seq(Names) /\ wd \in [DOMAIN wd -> Nat]
        BY <1>1, <2>3 DEF MapsSound
      <3>2. \A q \in DOMAIN wd : wd[q] \in DOMAIN ws /\ ws[wd[q]] = q
        BY <1>1, <2>1, <2>3 DEF MapsSound, p
      <3>3. \A i \in DOMAIN ws : ws[i] \in DOMAIN wd /\ wd[ws[i]] = i
        BY <1>1, <2>1, <2>3 DEF MapsSound, p
      <3> QED BY <2>4, <2>6, <3>1, <3>2, <3>3 DEF MapsSound
    <2> QED BY <1>1, <1>4, <2>3, <2>4, <2>5, <2>7
  <1>5. CASE e.what \in {"change", "self"} /\ e.wd \in DOMAIN w.watches
    <2> DEFINE p == w.watches[e.wd]
    <2>1. p \in Seq(Names)
      BY <1>1, <1>5 DEF MapsSound
    <2>2. PICK d \in SUBSET Seq(Names) :
             v = [w EXCEPT !.dirty = d] /\ w.dirty \subseteq d /\ IsFiniteSet(d) /\ (e.what = "change" => p \in d)
      <3>0. w = [w EXCEPT !.dirty = w.dirty] /\ w.dirty \subseteq Seq(Names)
        BY <1>1 DEF WorkType
      <3>1. CASE e.what = "change"
        <4>1. v = [w EXCEPT !.dirty = w.dirty \cup {p}]
          BY <1>5, <3>1 DEF Noted
        <4>2. IsFiniteSet(w.dirty \cup {p})
          BY <1>1, FS_AddElement
        <4> DEFINE new == w.dirty \cup {p}
        <4>3. new \in SUBSET Seq(Names) /\ w.dirty \subseteq new /\ p \in new
          BY <2>1, <3>0
        <4>4. v = [w EXCEPT !.dirty = new] /\ IsFiniteSet(new)
          BY <4>1, <4>2
        <4> HIDE DEF new
        <4> QED BY <4>3, <4>4
      <3>2. CASE e.what # "change" /\ p = Root
        <4>1. v = w
          BY <1>5, <3>2 DEF Noted
        <4>2. v = [w EXCEPT !.dirty = w.dirty]
          BY <3>0, <4>1
        <4>3. w.dirty \in SUBSET Seq(Names) /\ IsFiniteSet(w.dirty) /\ e.what # "change"
          BY <1>1, <3>0, <3>2
        <4> QED BY <4>2, <4>3
      <3>3. CASE e.what # "change" /\ p # Root
        <4>1. v = [w EXCEPT !.dirty = w.dirty \cup {Parent(p)}]
          BY <1>5, <3>3 DEF Noted
        <4>2. IsFiniteSet(w.dirty \cup {Parent(p)}) /\ Parent(p) \in Seq(Names)
          BY <1>1, <2>1, <3>3, FS_AddElement, ParentIsPath
        <4> QED BY <3>0, <3>3, <4>1, <4>2
      <3> QED BY <3>1, <3>2, <3>3
    <2> HIDE DEF p
    <2>3. v.requested = w.requested /\ v.watches = w.watches /\ v.watched = w.watched /\ v.dirty = d
          /\ v.pending = w.pending /\ v.full = w.full /\ v.passed = w.passed
          /\ v.incomplete = w.incomplete /\ v.passIncomplete = w.passIncomplete
          /\ v.allowance = w.allowance
      BY <1>1, <2>2 DEF WorkType
    <2>4. WorkType(v)
      BY <1>1, <2>2 DEF WorkType
    <2>5. MapsSound(v)
      BY <1>1, <2>3 DEF MapsSound
    <2> QED BY <1>5, <2>2, <2>3, <2>4, <2>5 DEF p
  <1>6. e.what \in {"change", "self", "ignored", "overflow"}
    BY DEF Event
  <1> QED BY <1>2, <1>3, <1>4, <1>5, <1>6

\* A notification is read, or there are no more.
LEMMA DrainKeeps ==
  ASSUME IndexInv, Drain
  PROVE  IndexInv'
  <1>1. /\ pc = "idle" /\ UNCHANGED <<disk, kernel, rows, total, todo, flags, mutating, budget>>
        /\ UNCHANGED <<owed, dropped, tracked>>
    BY DEF Drain, remembered
  <1>2. RowsSound(rows, total)' /\ flags' \in Flagged /\ MutationSound'
    BY <1>1 DEF IndexInv, RowsSound, MutationSound
  <1>3. QueueSound(queue) /\ queue \in Seq(Event)
    BY DEF IndexInv, DiskSound, QueueSound
  <1>4. CASE w.watcher /\ queue # <<>>
    <2> DEFINE e == Head(queue)
               v == Noted(e)
    <2>1. w' = v /\ queue' = Tail(queue) /\ pc' = pc
      BY <1>4 DEF Drain
    <2>2. /\ Len(queue) \in Nat /\ Len(queue) # 0 /\ DOMAIN queue = 1 .. Len(queue)
          /\ e \in Event /\ e = queue[1]
          /\ queue' \in Seq(Event) /\ Len(queue') = Len(queue) - 1 /\ DOMAIN queue' = 1 .. Len(queue) - 1
          /\ \A k \in 1 .. Len(queue) - 1 : queue'[k] = queue[k + 1]
      BY <1>3, <1>4, <2>1, HeadTailProperties, LenProperties, EmptySeq
    <2> HIDE DEF e, v
    <2>3. /\ WorkType(v) /\ MapsSound(v) /\ IsFiniteSet(v.dirty)
          /\ v.pending = w.pending /\ v.full = w.full /\ v.passed = w.passed
          /\ v.incomplete = w.incomplete /\ v.passIncomplete = w.passIncomplete
          /\ w.dirty \subseteq v.dirty /\ (w.requested => v.requested)
          /\ DOMAIN v.watches \subseteq DOMAIN w.watches
          /\ \A i \in DOMAIN v.watches : v.watches[i] = w.watches[i]
          /\ e.what = "overflow" => v.requested
          /\ e.what = "change" /\ e.wd \in DOMAIN w.watches => w.watches[e.wd] \in v.dirty
      BY <2>2, NotedFacts DEF v
    <2>4. QueueSound(queue')
      BY <1>3, <2>2, Bounds DEF QueueSound
    <2>5. DiskSound' /\ WorkSound' /\ TaskSound'
      BY <1>1, <2>1, <2>3, <2>4 DEF IndexInv, DiskSound, WorkSound, TaskSound, TaskType
    <2>6. ASSUME NEW i \in DOMAIN w'.watches, NEW p \in Seq(Names), p = w.watches[i], Announced(i)
          PROVE  Announced(i)' \/ Awaited(p)'
      <3>1. PICK k \in DOMAIN queue : queue[k].what = "overflow" \/ (queue[k].what = "change" /\ queue[k].wd = i)
        BY <2>6 DEF Announced
      <3>2. CASE k = 1
        <4>1. w'.requested \/ p \in w'.dirty
          BY <2>1, <2>2, <2>3, <2>6, <3>1, <3>2
        <4> QED BY <4>1 DEF Awaited
      <3>3. CASE k # 1
        <4>1. k - 1 \in DOMAIN queue' /\ queue'[k - 1] = queue[k]
          BY <2>2, <3>3
        <4> QED BY <3>1, <4>1 DEF Announced
      <3> QED BY <3>2, <3>3
    <2>7. \A p \in Seq(Names) : Awaited(p) => Awaited(p)'
      BY <1>1, <2>1, <2>3 DEF Awaited, Leads
    <2>8. BoundMet => BoundMet'
      BY <1>1, <2>1, <2>3 DEF BoundMet
    <2>9. pc # "reconcile" /\ pc' # "reconcile" /\ UNCHANGED <<disk, kernel, rows, dropped, tracked>>
      BY <1>1, <2>1
    <2>10. ChangesAreSeen' /\ Arrives'
      BY <2>1, <2>3, <2>6, <2>7, <2>8, <2>9, PromisesStay
    <2>11. MutationsAreSeen'
      BY <1>1, <2>7, <2>8, OwedStay
    <2> QED BY <1>2, <2>5, <2>10, <2>11 DEF IndexInv
  <1>5. CASE ~(w.watcher /\ queue # <<>>)
    <2>1. pc' = "plan" /\ UNCHANGED <<w, queue>>
      BY <1>5 DEF Drain
    <2>2. DiskSound' /\ WorkSound' /\ TaskSound'
      BY <1>1, <2>1 DEF IndexInv, DiskSound, QueueSound, WorkSound, WorkType, MapsSound, TaskSound, TaskType, Phases
    <2>3. \A p \in Seq(Names) : Awaited(p) => Awaited(p)'
      BY <1>1, <2>1 DEF Awaited, Leads
    <2>4. BoundMet => BoundMet'
      BY <1>1, <2>1 DEF BoundMet
    <2>5. \A i : Announced(i) => Announced(i)'
      BY <2>1 DEF Announced
    <2>6. ChangesAreSeen' /\ Arrives'
      BY <1>1, <2>1, <2>3, <2>4, <2>5, PromisesStay
    <2>7. MutationsAreSeen'
      BY <1>1, <2>3, <2>4, OwedStay
    <2> QED BY <1>2, <2>2, <2>6, <2>7 DEF IndexInv
  <1> QED BY <1>4, <1>5

\* A step that leaves the watches alone.
LEMMA WatchesStay ==
  ASSUME IndexInv, WorkType(w'), IsFiniteSet(w'.dirty),
         w'.watches = w.watches, w'.watched = w.watched, w'.allowance = w.allowance
  PROVE  WorkSound'
  BY DEF IndexInv, WorkSound, WorkType, MapsSound

\* Between slices the worker is at no directory.
LEMMA NoTaskSound ==
  ASSUME todo' = NoTask, pc' \in Phases
  PROVE  TaskSound' /\ todo'.hit = FALSE
  <1>1. Root \in Seq(Names) /\ IsFiniteSet({}) /\ DOMAIN Nothing = {} /\ Nothing \in [{} -> Entry]
    BY EmptySeq, FS_EmptySet DEF Root, Nothing
  <1>2. TaskType(todo') /\ todo'.listing = Nothing /\ todo'.hit = FALSE
    BY <1>1 DEF NoTask, TaskType
  <1> QED BY <1>1, <1>2 DEF TaskSound, TaskType

\* A slice is planned: what is to be shown of the worker's new state.
LEMMA PlannedKeeps ==
  ASSUME IndexInv, Planned, WorkType(w'), IsFiniteSet(w'.dirty),
         w'.watches = w.watches, w'.watched = w.watched, w'.allowance = w.allowance,
         \A p \in Seq(Names) : Awaited(p) \/ BoundMet => Awaited(p)' \/ BoundMet',
         Requested => \A p \in Seq(Names) : Awaited(p)'
  PROVE  IndexInv'
  <1>1. /\ pc = "plan" /\ pc' = "next" /\ flags' = [flags EXCEPT !.invalidated = FALSE] /\ todo' = NoTask
        /\ UNCHANGED <<disk, kernel, queue, rows, total, mutating, owed, dropped, tracked>>
    BY DEF Planned, shares, remembered
  <1>2. flags' \in Flagged /\ flags'.polling = flags.polling
    BY <1>1 DEF IndexInv, Flagged
  <1>3. DiskSound' /\ RowsSound(rows, total)' /\ MutationSound'
    BY <1>1, <1>2 DEF IndexInv, DiskSound, QueueSound, RowsSound, MutationSound
  <1>4. TaskSound' /\ WorkSound'
    BY <1>1, NoTaskSound, WatchesStay DEF Phases
  <1>5. \A i : Announced(i) => Announced(i)'
    BY <1>1 DEF Announced
  <1>6. ChangesAreSeen' /\ Arrives'
    BY <1>1, <1>5, PromisesStay
  <1>7. MutationsAreSeen'
    BY <1>1, OwedStay DEF Requested
  <1> QED BY <1>2, <1>3, <1>4, <1>6, <1>7 DEF IndexInv

\* No bound is met yet in a slice that is being planned.
LEMMA AtPlan ==
  ASSUME IndexInv, Planned
  PROVE  /\ ~todo.hit /\ todo'.hit = FALSE /\ pc = "plan" /\ pc' = "next"
         /\ todo' = NoTask
  BY DEF IndexInv, TaskSound, Planned, NoTask

\* A pass awaits every path, whatever was pending or dirty.
LEMMA BeginPassKeeps ==
  ASSUME IndexInv, NEW due \in BOOLEAN, BeginPass(due)
  PROVE  IndexInv'
  <1>1. PICK watcher \in BOOLEAN :
          w' = [w EXCEPT !.full = TRUE, !.requested = FALSE, !.passed = TRUE,
                         !.passIncomplete = FALSE, !.watcher = watcher, !.unwatched = ~watcher,
                         !.reconciling = due /\ ~Requested /\ w.once,
                         !.pending = << <<Root, TRUE>> >>, !.dirty = {}]
    BY DEF BeginPass
  <1>2. Planned
    BY DEF BeginPass
  <1>3. WorkType(w)
    BY DEF IndexInv, WorkSound
  <1>4. (due /\ ~Requested /\ w.once) \in BOOLEAN
    BY <1>3 DEF WorkType
  <1> DEFINE whole == << <<Root, TRUE>> >>
  <1>8. whole \in Seq(Seq(Names) \X BOOLEAN) /\ 1 \in DOMAIN whole
        /\ whole[1][1] = Root /\ whole[1][2] = TRUE
    <2> DEFINE Item == Seq(Names) \X BOOLEAN
               item == <<Root, TRUE>>
    <2>1. item \in Item /\ item[1] = Root /\ item[2] = TRUE
      BY EmptySeq DEF Root
    <2> HIDE DEF Item, item
    <2>2. <<item>> \in Seq(Item) /\ 1 \in DOMAIN <<item>> /\ <<item>>[1] = item
      BY <2>1
    <2> QED BY <2>1, <2>2 DEF Item, item
  <1> DEFINE quiet == due /\ ~Requested /\ w.once
             bare == ~watcher
  <1>9. w' = [w EXCEPT !.full = TRUE, !.requested = FALSE, !.passed = TRUE,
                       !.passIncomplete = FALSE, !.watcher = watcher, !.unwatched = bare,
                       !.reconciling = quiet, !.pending = whole, !.dirty = {}]
    BY <1>1
  <1>10. quiet \in BOOLEAN /\ bare \in BOOLEAN
    BY <1>4
  <1> HIDE DEF whole, quiet, bare
  <1>5. /\ WorkType(w') /\ w'.dirty = {} /\ w'.pending = whole
        /\ w'.watches = w.watches /\ w'.watched = w.watched /\ w'.allowance = w.allowance
    <2> DEFINE v == [w EXCEPT !.full = TRUE, !.requested = FALSE, !.passed = TRUE,
                              !.passIncomplete = FALSE]
    <2>1. /\ WorkType(v) /\ v.watches = w.watches /\ v.watched = w.watched /\ v.allowance = w.allowance
      BY <1>3 DEF WorkType
    <2>2. w' = [v EXCEPT !.watcher = watcher, !.unwatched = bare, !.reconciling = quiet,
                         !.pending = whole, !.dirty = {}]
      BY <1>9
    <2> HIDE DEF v
    <2> DEFINE u == [v EXCEPT !.watcher = watcher, !.unwatched = bare, !.reconciling = quiet]
    <2>3. /\ WorkType(u) /\ u.watches = w.watches /\ u.watched = w.watched /\ u.allowance = w.allowance
      BY ZenonT(60), <1>10, <2>1 DEF WorkType
    <2>4. w' = [u EXCEPT !.pending = whole, !.dirty = {}]
      BY <2>2
    <2> HIDE DEF u
    <2>5. whole \in Seq(Seq(Names) \X BOOLEAN)
      BY <1>8
    <2>6. WorkType(w')
      BY <2>3, <2>4, <2>5 DEF WorkType
    <2> QED BY <2>3, <2>4, <2>6 DEF WorkType
  <1>6. ASSUME NEW p \in Seq(Names) PROVE Awaited(p)'
    <2>1. 1 \in DOMAIN w'.pending
      BY <1>5, <1>8
    <2>2. p = Root \/ Below(p, Root)
      BY BelowFacts, EmptySeq DEF Root
    <2>3. w'.pending[1][1] = Root /\ w'.pending[1][2] = TRUE
      BY <1>5, <1>8
    <2> QED BY <2>1, <2>2, <2>3 DEF Awaited
  <1>7. IsFiniteSet(w'.dirty)
    BY <1>5, FS_EmptySet
  <1> QED BY <1>2, <1>5, <1>6, <1>7, PlannedKeeps

\* Dirty directories become pending ones.
LEMMA RefreshKeeps ==
  ASSUME IndexInv, Refresh
  PROVE  IndexInv'
  <1>1. PICK s \in SetToSeqs(w.dirty) :
          w' = [w EXCEPT !.requested = Requested, !.dirty = {},
                         !.pending = [i \in DOMAIN s |-> <<s[i], FALSE>>]]
    BY DEF Refresh
  <1>2. Planned /\ w.passed /\ w.pending = <<>>
    BY DEF Refresh
  <1>3. WorkType(w) /\ IsFiniteSet(w.dirty) /\ flags \in Flagged
    BY DEF IndexInv, WorkSound
  <1>4. s \in Seq(w.dirty) /\ \A p \in w.dirty : \E i \in DOMAIN s : s[i] = p
    BY <1>3, SetToSeqsGoThrough
  <1> DEFINE new == [i \in DOMAIN s |-> <<s[i], FALSE>>]
  <1>5. new \in Seq(Seq(Names) \X BOOLEAN)
    <2>1. Len(s) \in Nat /\ DOMAIN s = 1 .. Len(s) /\ \A i \in 1 .. Len(s) : s[i] \in w.dirty
      BY <1>4, LenProperties, ElementOfSeq
    <2>2. w.dirty \subseteq Seq(Names)
      BY <1>3 DEF WorkType
    <2> DEFINE Item == Seq(Names) \X BOOLEAN
    <2>3. new \in [1 .. Len(s) -> Item]
      BY <2>1, <2>2
    <2> HIDE DEF Item, new
    <2>4. new \in Seq(Item)
      BY <2>1, <2>3
    <2> QED BY <2>4 DEF Item
  <1>6. Requested \in BOOLEAN /\ (w.requested => Requested)
    BY <1>3 DEF Requested, WorkType, Flagged
  <1>7. /\ w' = [w EXCEPT !.requested = Requested, !.dirty = {}, !.pending = new]
    BY <1>1
  <1>8. \A i \in DOMAIN s : i \in DOMAIN new /\ new[i][1] = s[i]
    OBVIOUS
  <1> HIDE DEF new
  <1>9. /\ WorkType(w') /\ w'.dirty = {} /\ w'.pending = new /\ w'.requested = Requested
        /\ w'.watches = w.watches /\ w'.watched = w.watched /\ w'.allowance = w.allowance
        /\ w'.passed = w.passed /\ w'.full = w.full /\ w'.incomplete = w.incomplete
        /\ w'.passIncomplete = w.passIncomplete
    BY <1>3, <1>5, <1>6, <1>7 DEF WorkType
  <1>10. ~todo.hit /\ todo'.hit = FALSE /\ pc = "plan" /\ pc' = "next"
    BY <1>2, AtPlan
  <1>11. ASSUME NEW p \in Seq(Names), Awaited(p) PROVE Awaited(p)'
    <2>1. p \in w.dirty \/ w.requested
      BY <1>2, <1>10, <1>11 DEF Awaited
    <2>2. CASE p \in w.dirty
      <3>1. PICK i \in DOMAIN s : s[i] = p
        BY <1>4, <2>2
      <3>2. i \in DOMAIN w'.pending /\ w'.pending[i][1] = p
        BY <1>8, <1>9, <3>1
      <3> QED BY <3>2 DEF Awaited
    <2>3. CASE w.requested
      BY <1>6, <1>9, <2>3 DEF Awaited
    <2> QED BY <2>1, <2>2, <2>3
  <1>12. BoundMet => BoundMet'
    BY <1>9, <1>10 DEF BoundMet
  <1>13. Requested => \A p : Awaited(p)'
    BY <1>9 DEF Awaited
  <1>14. IsFiniteSet(w'.dirty)
    BY <1>9, FS_EmptySet
  <1> QED BY <1>2, <1>9, <1>11, <1>12, <1>13, <1>14, PlannedKeeps

\* A request that comes while a pass runs is kept for the next.
LEMMA ResumeKeeps ==
  ASSUME IndexInv, Resume
  PROVE  IndexInv'
  <1>1. w' = [w EXCEPT !.requested = Requested] /\ Planned
    BY DEF Resume
  <1>2. WorkType(w) /\ IsFiniteSet(w.dirty) /\ flags \in Flagged
    BY DEF IndexInv, WorkSound
  <1>3. Requested \in BOOLEAN /\ (w.requested => Requested)
    BY <1>2 DEF Requested, WorkType, Flagged
  <1>4. /\ WorkType(w') /\ w'.dirty = w.dirty /\ w'.pending = w.pending /\ w'.requested = Requested
        /\ w'.watches = w.watches /\ w'.watched = w.watched /\ w'.allowance = w.allowance
        /\ w'.passed = w.passed /\ w'.full = w.full /\ w'.incomplete = w.incomplete
        /\ w'.passIncomplete = w.passIncomplete
    BY <1>1, <1>2, <1>3 DEF WorkType
  <1>5. ~todo.hit /\ todo'.hit = FALSE /\ pc = "plan" /\ pc' = "next"
    BY <1>1, AtPlan
  <1>6. \A p \in Seq(Names) : Awaited(p) => Awaited(p)'
    BY <1>3, <1>4, <1>5 DEF Awaited
  <1>7. BoundMet => BoundMet'
    BY <1>4, <1>5 DEF BoundMet
  <1>8. Requested => \A p : Awaited(p)'
    BY <1>4 DEF Awaited
  <1> QED BY <1>1, <1>2, <1>4, <1>6, <1>7, <1>8, PlannedKeeps

\* The pass is given up: whatever is behind, a bound was met.
LEMMA Abandoned ==
  ASSUME IndexInv, Abandon, UNCHANGED rows
  PROVE  /\ WorkSound' /\ RowsSound(rows, total)' /\ BoundMet'
         /\ ChangesAreSeen' /\ MutationsAreSeen'
  <1>1. w' = [w EXCEPT !.pending = <<>>, !.full = FALSE, !.reconciling = FALSE,
                       !.once = TRUE, !.incomplete = TRUE]
        /\ total' = Cardinality(DOMAIN rows)
    BY DEF Abandon
  <1>2. WorkType(w) /\ IsFiniteSet(w.dirty) /\ RowsSound(rows, total)
    BY DEF IndexInv, WorkSound
  <1>3. /\ WorkType(w') /\ w'.watches = w.watches /\ w'.watched = w.watched
        /\ w'.allowance = w.allowance /\ w'.dirty = w.dirty
        /\ w'.full = FALSE /\ w'.incomplete = TRUE
    <2>1. <<>> \in Seq(Seq(Names) \X BOOLEAN)
      BY EmptySeq
    <2> QED BY <1>1, <1>2, <2>1 DEF WorkType
  <1>4. WorkSound'
    BY <1>2, <1>3, WatchesStay
  <1>5. RowsSound(rows, total)'
    BY <1>1, <1>2 DEF RowsSound
  <1>6. BoundMet'
    BY <1>3 DEF BoundMet
  <1>7. ChangesAreSeen' /\ MutationsAreSeen'
    BY <1>6, Seen DEF Excused, MutationsAreSeen
  <1> QED BY <1>4, <1>5, <1>6, <1>7

\* The task of a slice that is over.
LEMMA SliceOver ==
  ASSUME IndexInv, todo' = [NoTask EXCEPT !.invalidated = flags.invalidated], pc' = "store"
  PROVE  TaskSound' /\ todo'.hit = FALSE
  <1>1. Root \in Seq(Names) /\ IsFiniteSet({}) /\ DOMAIN Nothing = {} /\ Nothing \in [{} -> Entry]
    BY EmptySeq, FS_EmptySet DEF Root, Nothing
  <1>2. TaskType(todo') /\ todo'.listing = Nothing /\ todo'.hit = FALSE
    BY <1>1, Fields DEF NoTask, TaskType
  <1> QED BY <1>1, <1>2 DEF TaskSound, TaskType, Phases

\* The transaction fails: the rows stay, and the index says that it is incomplete.
LEMMA ReconcileFailsKeeps ==
  ASSUME IndexInv, ReconcileFails
  PROVE  IndexInv'
  <1>1. /\ Abandon /\ flags' = [flags EXCEPT !.complete = FALSE] /\ pc' = "store"
        /\ todo' = [NoTask EXCEPT !.invalidated = flags.invalidated]
        /\ UNCHANGED <<disk, kernel, queue, rows, mutating, owed, dropped, tracked>>
    BY DEF ReconcileFails, shares, remembered
  <1>2. flags' \in Flagged /\ flags'.polling = flags.polling
    BY <1>1 DEF IndexInv, Flagged
  <1>3. DiskSound' /\ MutationSound'
    BY <1>1, <1>2 DEF IndexInv, DiskSound, QueueSound, MutationSound
  <1>4. TaskSound' /\ Arrives'
    BY <1>1, SliceOver DEF Arrives
  <1> QED BY <1>1, <1>2, <1>3, <1>4, Abandoned DEF IndexInv

\* A slice ends: what it met goes into the flag that the pass or the refresh leaves.
LEMMA EndSliceKeeps ==
  ASSUME IndexInv, EndSlice
  PROVE  IndexInv'
  <1> DEFINE ends == w.full /\ w.pending = <<>>
             done == IF ~w.full THEN [w EXCEPT !.incomplete = w.incomplete \/ todo.hit]
                     ELSE IF ends THEN PassEnds
                     ELSE [w EXCEPT !.passIncomplete = w.passIncomplete \/ todo.hit]
             polling == IF ends THEN w.unwatched ELSE flags.polling
  <1>1. /\ pc = "finish" \/ pc = "next"
        /\ \/ /\ w' = done
              /\ flags' = [flags EXCEPT !.polling = polling, !.complete = done.once /\ ~done.incomplete]
              /\ UNCHANGED total
           \/ /\ Abandon
              /\ flags' = [flags EXCEPT !.polling = polling, !.complete = FALSE]
        /\ owed' = IF polling THEN owed ELSE {}
        /\ todo' = [NoTask EXCEPT !.invalidated = flags.invalidated] /\ pc' = "store"
        /\ UNCHANGED <<disk, kernel, queue, rows, mutating, dropped, tracked>>
    BY DEF EndSlice, shares
  <1>2. WorkType(w) /\ IsFiniteSet(w.dirty) /\ flags \in Flagged
    BY DEF IndexInv, WorkSound
  <1>3. polling \in BOOLEAN
    BY <1>2 DEF WorkType, Flagged
  <1> DEFINE worse == w.incomplete \/ todo.hit
             bad == w.passIncomplete \/ todo.hit
  <1>4. worse \in BOOLEAN /\ bad \in BOOLEAN
    BY Fields
  <1>5. /\ WorkType(done) /\ done.watches = w.watches /\ done.watched = w.watched
        /\ done.allowance = w.allowance /\ done.dirty = w.dirty /\ done.pending = w.pending
        /\ done.requested = w.requested /\ done.passed = w.passed
        /\ BoundMet => IF done.full THEN done.passIncomplete ELSE done.incomplete
    <2>1. CASE ~w.full
      <3>1. done = [w EXCEPT !.incomplete = worse]
        BY <2>1
      <3>2. BoundMet => worse
        BY <2>1 DEF BoundMet
      <3> HIDE DEF done, worse
      <3> QED BY <1>2, <1>4, <2>1, <3>1, <3>2 DEF WorkType
    <2>2. CASE ends
      <3>1. done = [w EXCEPT !.full = FALSE, !.reconciling = FALSE, !.once = TRUE, !.incomplete = bad]
        BY <2>2 DEF PassEnds
      <3>2. BoundMet => bad
        BY <2>2 DEF BoundMet
      <3> HIDE DEF done, bad
      <3> QED BY <1>2, <1>4, <2>2, <3>1, <3>2 DEF WorkType
    <2>3. CASE w.full /\ ~ends
      <3>1. done = [w EXCEPT !.passIncomplete = bad]
        BY <2>3
      <3>2. BoundMet => bad
        BY <2>3 DEF BoundMet
      <3> HIDE DEF done, bad
      <3> QED BY <1>2, <1>4, <2>3, <3>1, <3>2 DEF WorkType
    <2> QED BY <2>1, <2>2, <2>3
  <1>6. (done.once /\ ~done.incomplete) \in BOOLEAN
    OBVIOUS
  <1> HIDE DEF done, polling
  <1>7. flags' \in Flagged /\ flags'.polling = polling
    <2> DEFINE whole == done.once /\ ~done.incomplete
    <2>1. whole \in BOOLEAN
      BY <1>6
    <2>2. flags' = [flags EXCEPT !.polling = polling, !.complete = whole]
          \/ flags' = [flags EXCEPT !.polling = polling, !.complete = FALSE]
      BY <1>1
    <2> HIDE DEF whole
    <2> QED BY <1>2, <1>3, <2>1, <2>2 DEF Flagged
  <1>8. DiskSound' /\ MutationSound'
    BY <1>1, <1>7 DEF IndexInv, DiskSound, QueueSound, MutationSound
  <1>9. TaskSound' /\ Arrives' /\ todo'.hit = FALSE
    BY <1>1, SliceOver DEF Arrives
  <1>10. CASE Abandon
    BY <1>1, <1>7, <1>8, <1>9, <1>10, Abandoned DEF IndexInv
  <1>11. CASE w' = done /\ UNCHANGED total
    <2>1. WorkSound' /\ RowsSound(rows, total)'
      BY <1>1, <1>2, <1>5, <1>11, WatchesStay DEF IndexInv, RowsSound
    <2>2. \A p \in Seq(Names) : Awaited(p) => Awaited(p)'
      BY <1>1, <1>5, <1>11 DEF Awaited
    <2>3. BoundMet => BoundMet'
      BY <1>5, <1>9, <1>11 DEF BoundMet
    <2>4. \A i : Announced(i) => Announced(i)'
      BY <1>1 DEF Announced
    <2>5. ChangesAreSeen'
      BY <1>1, <1>5, <1>11, <2>2, <2>3, <2>4, PromisesStay
    <2>6. MutationsAreSeen'
      <3> SUFFICES ASSUME NEW p \in owed' PROVE Awaited(p)' \/ BoundMet' \/ flags'.invalidated
        BY DEF MutationsAreSeen
      <3>1. p \in owed /\ p \in Seq(Names)
        BY <1>1 DEF IndexInv, MutationSound
      <3>2. Awaited(p) \/ BoundMet \/ flags.invalidated
        BY <3>1 DEF IndexInv, MutationsAreSeen
      <3>3. flags'.invalidated = flags.invalidated
        BY <1>1, <1>2 DEF Flagged
      <3> QED BY <2>2, <2>3, <3>1, <3>2, <3>3
    <2> QED BY <1>7, <1>8, <1>9, <2>1, <2>5, <2>6 DEF IndexInv
  <1> QED BY <1>1, <1>10, <1>11

\* Storing the report changes nothing that is known.
LEMMA StoreKeeps ==
  ASSUME IndexInv, Store
  PROVE  IndexInv'
  <1>1. /\ pc = "store" /\ pc' = "idle" /\ flags' = [flags EXCEPT !.indexing = Reports] /\ todo' = NoTask
        /\ UNCHANGED <<disk, kernel, queue, rows, total, w, mutating, owed, dropped, tracked>>
    BY DEF Store, shares, remembered
  <1>2. Reports \in BOOLEAN
    BY DEF Reports
  <1>3. flags' \in Flagged /\ flags'.polling = flags.polling /\ flags'.invalidated = flags.invalidated
    BY <1>1, <1>2 DEF IndexInv, Flagged
  <1>4. DiskSound' /\ RowsSound(rows, total)' /\ MutationSound' /\ WorkSound'
    BY <1>1, <1>3 DEF IndexInv, DiskSound, QueueSound, RowsSound, MutationSound, WorkSound, WorkType, MapsSound
  <1>5. TaskSound' /\ todo'.hit = FALSE /\ ~todo.hit
    BY <1>1, NoTaskSound DEF IndexInv, TaskSound, Phases
  <1>6. \A p \in Seq(Names) : Awaited(p) => Awaited(p)'
    BY <1>1 DEF Awaited
  <1>7. BoundMet => BoundMet'
    BY <1>1, <1>5 DEF BoundMet
  <1>8. \A i : Announced(i) => Announced(i)'
    BY <1>1 DEF Announced
  <1>9. ChangesAreSeen' /\ Arrives'
    BY <1>1, <1>6, <1>7, <1>8, PromisesStay
  <1>10. MutationsAreSeen'
    BY <1>1, <1>3, <1>6, <1>7, OwedStay
  <1> QED BY <1>3, <1>4, <1>5, <1>9, <1>10 DEF IndexInv
-----------------------------------------------------------------------------
(* A directory is taken from the queue                                      *)

\* The two maps stay inverse, whatever the path and the descriptor were known for.
LEMMA MappedFacts ==
  ASSUME NEW v, WorkType(v), MapsSound(v), NEW p \in Seq(Names), NEW wd \in Nat,
         p \in DOMAIN v.watched \/ Cardinality(DOMAIN v.watched) < v.allowance,
         NEW u, u = Mapped(v, p, wd)
  PROVE  /\ WorkType(u) /\ MapsSound(u)
         /\ u.pending = v.pending /\ u.full = v.full /\ u.requested = v.requested
         /\ u.passed = v.passed /\ u.incomplete = v.incomplete
         /\ u.passIncomplete = v.passIncomplete /\ u.dirty = v.dirty
         /\ \A j \in DOMAIN u.watches : u.watches[j] # p =>
               j # wd /\ j \in DOMAIN v.watches /\ v.watches[j] = u.watches[j]
  <1> DEFINE old == IF wd \in DOMAIN v.watches /\ v.watches[wd] # p THEN {v.watches[wd]} ELSE {}
             gone == IF p \in DOMAIN v.watched /\ v.watched[p] # wd THEN {v.watched[p]} ELSE {}
             byWd == (DOMAIN v.watches \cup {wd}) \ gone
             byPath == (DOMAIN v.watched \ old) \cup {p}
             ws == [x \in byWd |-> IF x = wd THEN p ELSE v.watches[x]]
             wp == [x \in byPath |-> IF x = p THEN wd ELSE v.watched[x]]
  <1>1. u = [v EXCEPT !.watches = ws, !.watched = wp]
    BY DEF Mapped
  <1>2. wd \in byWd /\ p \in byPath
    OBVIOUS
  <1>3. /\ DOMAIN ws = byWd /\ DOMAIN wp = byPath /\ ws[wd] = p /\ wp[p] = wd
        /\ \A j \in byWd \ {wd} : ws[j] = v.watches[j] /\ j \in DOMAIN v.watches
        /\ \A q \in byPath \ {p} : wp[q] = v.watched[q] /\ q \in DOMAIN v.watched
    BY <1>2
  <1>4. \A q \in byPath \ {p} : wp[q] \in byWd \ {wd} /\ ws[wp[q]] = q
    BY <1>3 DEF MapsSound
  <1>5. \A j \in byWd \ {wd} : ws[j] \in byPath \ {p} /\ wp[ws[j]] = j
    BY <1>3 DEF MapsSound
  <1>6. IsFiniteSet(byPath) /\ Cardinality(byPath) <= v.allowance
    <2>1. /\ IsFiniteSet(DOMAIN v.watched) /\ Cardinality(DOMAIN v.watched) <= v.allowance
          /\ Cardinality(DOMAIN v.watched) \in Nat /\ v.allowance \in Nat
      BY FS_CardinalityType DEF MapsSound, WorkType
    <2> DEFINE some == DOMAIN v.watched \ old
    <2>2. some \subseteq DOMAIN v.watched
      OBVIOUS
    <2>3. /\ IsFiniteSet(some) /\ Cardinality(some) <= Cardinality(DOMAIN v.watched)
          /\ Cardinality(some) \in Nat
      BY <2>1, <2>2, FS_Subset, FS_CardinalityType
    <2>4. CASE p \in DOMAIN v.watched
      <3>1. byPath \subseteq DOMAIN v.watched
        BY <2>2, <2>4
      <3>2. /\ IsFiniteSet(byPath) /\ Cardinality(byPath) <= Cardinality(DOMAIN v.watched)
            /\ Cardinality(byPath) \in Nat
        BY <2>1, <3>1, FS_Subset, FS_CardinalityType
      <3> QED BY <2>1, <3>2
    <2>5. CASE p \notin DOMAIN v.watched
      <3>1. Cardinality(DOMAIN v.watched) < v.allowance
        BY <2>5
      <3>2. p \notin some
        BY <2>2, <2>5
      <3> HIDE DEF some
      <3>3. IsFiniteSet(some \cup {p}) /\ Cardinality(some \cup {p}) = Cardinality(some) + 1
        BY <2>3, <3>2, FS_AddElement
      <3>4. byPath = some \cup {p}
        BY DEF some
      <3> HIDE DEF byPath
      <3>5. Cardinality(some) + 1 <= v.allowance
        BY <2>1, <2>3, <3>1
      <3> QED BY <3>3, <3>4, <3>5
    <2> QED BY <2>4, <2>5
  <1>7. /\ byWd \subseteq Nat /\ byPath \subseteq Seq(Names)
        /\ ws \in [byWd -> Seq(Names)] /\ wp \in [byPath -> Nat]
    <2>1. /\ \A j \in DOMAIN v.watches : j \in Nat /\ v.watches[j] \in Seq(Names)
          /\ \A q \in DOMAIN v.watched : q \in Seq(Names) /\ v.watched[q] \in Nat
      BY DEF MapsSound
    <2>2. byWd \subseteq Nat /\ byPath \subseteq Seq(Names)
      BY <2>1
    <2>3. \A j \in byWd : (IF j = wd THEN p ELSE v.watches[j]) \in Seq(Names)
      BY <2>1
    <2>4. \A q \in byPath : (IF q = p THEN wd ELSE v.watched[q]) \in Nat
      BY <2>1
    <2> QED BY <2>2, <2>3, <2>4
  <1> HIDE DEF ws, wp, byWd, byPath
  <1>8. /\ WorkType(u) /\ u.watches = ws /\ u.watched = wp /\ u.allowance = v.allowance
        /\ u.pending = v.pending /\ u.full = v.full /\ u.requested = v.requested
        /\ u.passed = v.passed /\ u.incomplete = v.incomplete
        /\ u.passIncomplete = v.passIncomplete /\ u.dirty = v.dirty
    BY <1>1 DEF WorkType
  <1>9. MapsSound(u)
    <2>1. \A q \in DOMAIN wp : wp[q] \in DOMAIN ws /\ ws[wp[q]] = q
      BY <1>2, <1>3, <1>4
    <2>2. \A j \in DOMAIN ws : ws[j] \in DOMAIN wp /\ wp[ws[j]] = j
      BY <1>2, <1>3, <1>5
    <2> QED BY <1>3, <1>6, <1>7, <1>8, <2>1, <2>2 DEF MapsSound
  <1>10. \A j \in DOMAIN ws : ws[j] # p => j # wd /\ j \in DOMAIN v.watches /\ v.watches[j] = ws[j]
    BY <1>3
  <1> QED BY <1>8, <1>9, <1>10

\* The next directory: it is watched before it is listed, so that it is the one awaited
\* while its watch may be a new one.
LEMMA WatchNextKeeps ==
  ASSUME IndexInv, WatchNext
  PROVE  IndexInv'
  <1> DEFINE p == w.pending[1][1]
             rec == w.pending[1][2]
             i0 == At(p)
             rest == [w EXCEPT !.pending = Tail(w.pending)]
             free == p \in DOMAIN w.watched \/ Cardinality(DOMAIN w.watched) < w.allowance
  <1>1. /\ pc = "next" /\ w.pending # <<>> /\ pc' = "list"
        /\ todo' = [todo EXCEPT !.path = p, !.recursive = rec]
        /\ UNCHANGED <<disk, queue, rows, total, flags, mutating, owed, dropped, tracked>>
        /\ \/ free /\ IsFolder(i0) /\ kernel' = kernel \cup {i0} /\ w' = Mapped(rest, p, i0)
           \/ w' = [rest EXCEPT !.unwatched = TRUE] /\ kernel' = kernel
    BY DEF WatchNext, remembered
  <1>2. WorkType(w) /\ MapsSound(w) /\ IsFiniteSet(w.dirty) /\ w.pending \in Seq(Seq(Names) \X BOOLEAN)
    BY Fields DEF IndexInv, WorkSound
  <1>3. /\ p \in Seq(Names) /\ rec \in BOOLEAN
        /\ Tail(w.pending) \in Seq(Seq(Names) \X BOOLEAN)
        /\ \A k \in DOMAIN w.pending : k # 1 =>
              k - 1 \in DOMAIN Tail(w.pending) /\ Tail(w.pending)[k - 1] = w.pending[k]
    <2> DEFINE Item == Seq(Names) \X BOOLEAN
    <2>1. \A x \in Item : x[1] \in Seq(Names) /\ x[2] \in BOOLEAN
      OBVIOUS
    <2>2. w.pending \in Seq(Item)
      BY <1>2
    <2> HIDE DEF Item
    <2>3. /\ Len(w.pending) \in Nat /\ Len(w.pending) # 0 /\ DOMAIN w.pending = 1 .. Len(w.pending)
      BY <1>1, <2>2, LenProperties, EmptySeq
    <2>4. w.pending[1] \in Item
      BY <2>2, <2>3, ElementOfSeq
    <2>5. /\ Tail(w.pending) \in Seq(Item) /\ Len(Tail(w.pending)) = Len(w.pending) - 1
          /\ \A k \in 1 .. Len(Tail(w.pending)) : Tail(w.pending)[k] = w.pending[k + 1]
      BY <1>1, <2>2, HeadTailProperties
    <2>6. DOMAIN Tail(w.pending) = 1 .. Len(w.pending) - 1
      BY <2>5, LenProperties
    <2>7. ASSUME NEW k \in DOMAIN w.pending, k # 1
          PROVE  k - 1 \in DOMAIN Tail(w.pending) /\ Tail(w.pending)[k - 1] = w.pending[k]
      <3>1. k - 1 \in 1 .. Len(w.pending) - 1
        BY <2>3, <2>7
      <3> QED BY <2>3, <2>5, <2>6, <3>1
    <2> QED BY <2>1, <2>4, <2>5, <2>7 DEF Item
  <1> HIDE DEF p, rec, i0
  <1>4. /\ WorkType(rest) /\ MapsSound(rest) /\ rest.pending = Tail(w.pending)
        /\ rest.full = w.full /\ rest.requested = w.requested /\ rest.passed = w.passed
        /\ rest.incomplete = w.incomplete /\ rest.passIncomplete = w.passIncomplete
        /\ rest.dirty = w.dirty /\ rest.watches = w.watches /\ rest.watched = w.watched
        /\ rest.allowance = w.allowance
    <2>1. /\ WorkType(rest) /\ rest.pending = Tail(w.pending)
          /\ rest.full = w.full /\ rest.requested = w.requested /\ rest.passed = w.passed
          /\ rest.incomplete = w.incomplete /\ rest.passIncomplete = w.passIncomplete
          /\ rest.dirty = w.dirty /\ rest.watches = w.watches /\ rest.watched = w.watched
          /\ rest.allowance = w.allowance
      BY <1>2, <1>3 DEF WorkType
    <2> HIDE DEF rest
    <2>2. MapsSound(rest)
      BY <1>2, <2>1 DEF MapsSound
    <2> QED BY <2>1, <2>2
  <1> HIDE DEF rest
  <1>5. /\ WorkType(w') /\ MapsSound(w') /\ w'.pending = Tail(w.pending)
        /\ w'.full = w.full /\ w'.requested = w.requested /\ w'.passed = w.passed
        /\ w'.incomplete = w.incomplete /\ w'.passIncomplete = w.passIncomplete
        /\ w'.dirty = w.dirty
        /\ kernel' \subseteq Nat
        /\ \A j \in DOMAIN w'.watches : w'.watches[j] # p =>
              j \in DOMAIN w.watches /\ w.watches[j] = w'.watches[j] /\ (j \in kernel' => j \in kernel)
    <2>0. kernel \subseteq Nat /\ DOMAIN disk \subseteq Nat
      BY LenProperties DEF IndexInv, DiskSound
    <2>1. CASE free /\ IsFolder(i0) /\ kernel' = kernel \cup {i0} /\ w' = Mapped(rest, p, i0)
      <3>1. i0 \in Nat
        BY <2>0, <2>1 DEF IsFolder
      <3>2. p \in DOMAIN rest.watched \/ Cardinality(DOMAIN rest.watched) < rest.allowance
        BY <1>4, <2>1
      <3> HIDE DEF free
      <3>3. /\ WorkType(w') /\ MapsSound(w')
            /\ w'.pending = rest.pending /\ w'.full = rest.full /\ w'.requested = rest.requested
            /\ w'.passed = rest.passed /\ w'.incomplete = rest.incomplete
            /\ w'.passIncomplete = rest.passIncomplete /\ w'.dirty = rest.dirty
            /\ \A j \in DOMAIN w'.watches : w'.watches[j] # p =>
                  j # i0 /\ j \in DOMAIN rest.watches /\ rest.watches[j] = w'.watches[j]
        BY <1>3, <1>4, <2>1, <3>1, <3>2, MappedFacts
      <3> QED BY <1>4, <2>0, <2>1, <3>1, <3>3
    <2>2. CASE w' = [rest EXCEPT !.unwatched = TRUE] /\ kernel' = kernel
      <3>1. /\ WorkType(w') /\ w'.watches = rest.watches /\ w'.watched = rest.watched
            /\ w'.allowance = rest.allowance
            /\ w'.pending = rest.pending /\ w'.full = rest.full /\ w'.requested = rest.requested
            /\ w'.passed = rest.passed /\ w'.incomplete = rest.incomplete
            /\ w'.passIncomplete = rest.passIncomplete /\ w'.dirty = rest.dirty
        BY <1>4, <2>2 DEF WorkType
      <3>2. MapsSound(w')
        BY <1>4, <3>1 DEF MapsSound
      <3> QED BY <1>4, <2>0, <2>2, <3>1, <3>2
    <2> QED BY <1>1, <2>1, <2>2
  <1> HIDE DEF free
  <1>6. /\ TaskSound' /\ todo'.path = p /\ todo'.recursive = rec /\ todo'.hit = todo.hit
    <2>1. /\ TaskType(todo') /\ todo'.path = p /\ todo'.recursive = rec /\ todo'.hit = todo.hit
          /\ todo'.listing = todo.listing
      BY <1>1, <1>3 DEF IndexInv, TaskSound, TaskType
    <2> QED BY <1>1, <2>1 DEF IndexInv, TaskSound, Phases
  <1>7. WorkSound'
    BY <1>2, <1>5 DEF WorkSound
  <1>8. DiskSound' /\ RowsSound(rows, total)' /\ MutationSound' /\ flags' \in Flagged /\ Arrives'
    BY <1>1, <1>5 DEF IndexInv, DiskSound, QueueSound, RowsSound, MutationSound, Arrives
  <1>9. ASSUME NEW q \in Seq(Names), Awaited(q) PROVE Awaited(q)'
    <2>1. CASE \E k \in DOMAIN w.pending :
                  w.pending[k][1] = q \/ (w.pending[k][2] /\ Below(q, w.pending[k][1]))
      <3>1. PICK k \in DOMAIN w.pending :
                  w.pending[k][1] = q \/ (w.pending[k][2] /\ Below(q, w.pending[k][1]))
        BY <2>1
      <3>2. CASE k = 1
        <4>1. q = p \/ (rec /\ Below(q, p))
          BY <3>1, <3>2 DEF p, rec
        <4> QED BY <1>1, <1>6, <4>1 DEF Awaited
      <3>3. CASE k # 1
        <4>1. k - 1 \in DOMAIN w'.pending /\ w'.pending[k - 1] = w.pending[k]
          BY <1>3, <1>5, <3>3
        <4> QED BY <3>1, <4>1 DEF Awaited
      <3> QED BY <3>2, <3>3
    <2>2. CASE q \in w.dirty \/ w.requested \/ ~w.passed
      BY <1>5, <2>2 DEF Awaited
    <2> QED BY <1>1, <1>9, <2>1, <2>2 DEF Awaited
  <1>10. BoundMet <=> BoundMet'
    BY <1>5, <1>6 DEF BoundMet
  <1>11. ASSUME NEW j \in DOMAIN w'.watches, NEW q, q = w'.watches[j], Behind(q, j)'
         PROVE  Excused(q, j)'
    <2>1. CASE q = p
      BY <1>1, <1>6, <2>1 DEF Excused, Awaited
    <2>2. CASE q # p
      <3>1. /\ j \in DOMAIN w.watches /\ w.watches[j] = q /\ q \in Seq(Names)
            /\ (j \in kernel' => j \in kernel)
        BY <1>2, <1>5, <1>11, <2>2 DEF MapsSound
      <3>2. Behind(q, j)
        BY <1>1, <1>11, <3>1, ListingsStay DEF Behind, Known, Differs, Unlike
      <3>3. Announced(j) \/ Awaited(q) \/ BoundMet
        BY <1>1, <3>1, <3>2, Seen DEF IndexInv, Excused, Arriving
      <3> QED BY <1>1, <1>9, <1>10, <3>1, <3>3 DEF Excused, Announced
    <2> QED BY <2>1, <2>2
  <1>12. ChangesAreSeen'
    BY <1>11, Seen
  <1>13. MutationsAreSeen'
    BY <1>1, <1>9, <1>10, OwedStay
  <1> QED BY <1>6, <1>7, <1>8, <1>12, <1>13 DEF IndexInv

\* A directory is looked for: the listing found, or nothing.
LEMMA LookedKeeps ==
  ASSUME IndexInv, pc = "list", NEW L, NEW T, NEW found,
         DOMAIN T \subseteq Names /\ IsFiniteSet(DOMAIN T) /\ T \in [DOMAIN T -> Entry],
         todo' = [todo EXCEPT !.listing = T], Looked(L, found),
         UNCHANGED <<disk, kernel, queue, rows, total, w, flags, mutating, dropped>>,
         \/ pc' = "reconcile" /\ T = L
         \/ pc' \in {"next", "finish"} /\ \A q : ~Leads(L, q),
         found \subseteq {todo.path},
         found # {} => pc' = "reconcile" /\ \A j \in DOMAIN w.watches :
                          w.watches[j] = todo.path => Fits(L, Since(j))
  PROVE  IndexInv'
  <1>1. /\ TaskType(todo') /\ todo'.path = todo.path /\ todo'.recursive = todo.recursive
        /\ todo'.hit = todo.hit /\ todo'.listing = T
    BY DEF IndexInv, TaskSound, TaskType
  <1>2. /\ TaskSound' /\ flags' \in Flagged /\ RowsSound(rows, total)' /\ WorkSound' /\ DiskSound'
    BY <1>1 DEF IndexInv, TaskSound, Phases, RowsSound, WorkSound, WorkType, MapsSound,
                DiskSound, QueueSound
  <1>3. /\ owed' = owed \ Unreached(owed, L)
        /\ tracked' = (tracked \ Unreached(tracked, L)) \cup found
    BY DEF Looked
  <1>4. MutationSound'
    BY <1>3, Fields DEF IndexInv, MutationSound
  <1>5. ASSUME NEW q \in Seq(Names), Awaited(q), q # todo.path,
               todo.recursive /\ Below(q, todo.path) => Leads(L, q)
        PROVE  Awaited(q)'
    <2>1. CASE todo.recursive /\ Below(q, todo.path)
      <3>1. Leads(L, q)
        BY <1>5, <2>1
      <3>2. pc' = "reconcile" /\ T = L
        BY <3>1
      <3>3. Leads(todo.listing, q)'
        BY <1>1, <3>1, <3>2 DEF Leads
      <3> QED BY <1>1, <2>1, <3>2, <3>3 DEF Awaited
    <2>2. CASE ~(todo.recursive /\ Below(q, todo.path))
      BY <1>5, <2>2 DEF Awaited
    <2> QED BY <2>1, <2>2
  <1>6. BoundMet <=> BoundMet'
    BY <1>1 DEF BoundMet
  <1>7. MutationsAreSeen'
    <2> SUFFICES ASSUME NEW q \in owed' PROVE Awaited(q)' \/ BoundMet' \/ flags'.invalidated
      BY DEF MutationsAreSeen
    <2>1. /\ q \in owed /\ q \in Seq(Names) /\ q # todo.path
          /\ todo.recursive /\ Below(q, todo.path) => Leads(L, q)
      BY <1>3 DEF Unreached, IndexInv, MutationSound
    <2>2. Awaited(q) \/ BoundMet \/ flags.invalidated
      BY <2>1 DEF IndexInv, MutationsAreSeen
    <2> QED BY <1>5, <1>6, <2>1, <2>2
  <1>8. todo.path \in tracked' => found # {}
    BY <1>3 DEF Unreached
  <1>9. Arrives'
    <2> SUFFICES ASSUME NEW j \in DOMAIN w.watches, w.watches[j] = todo.path, todo.path \in tracked',
                        pc' = "reconcile"
                 PROVE  Fits(T, Since(j)')
      BY <1>1 DEF Arrives
    <2> QED BY <1>8, ListingsStay
  <1>10. ASSUME NEW j \in DOMAIN w.watches, NEW q, q = w.watches[j], Behind(q, j)'
         PROVE  Excused(q, j)'
    <2>1. q \in Seq(Names) /\ q \in tracked'
      BY <1>10 DEF IndexInv, WorkSound, MapsSound, Behind
    <2>2. CASE q = todo.path
      <3>1. pc' = "reconcile" /\ Fits(T, Since(j)')
        BY <1>8, <1>10, <2>1, <2>2, ListingsStay
      <3> QED BY <1>1, <2>2, <3>1 DEF Excused, Arriving
    <2>3. CASE q # todo.path
      <3>1. /\ q \in tracked
            /\ todo.recursive /\ Below(q, todo.path) => Leads(L, q)
        BY <1>3, <2>1, <2>3 DEF Unreached
      <3>2. Behind(q, j)
        BY <1>10, <3>1, ListingsStay DEF Behind, Known, Differs, Unlike
      <3>3. Announced(j) \/ Awaited(q) \/ BoundMet
        BY <1>10, <3>2, Seen DEF IndexInv, Excused, Arriving
      <3> QED BY <1>5, <1>6, <2>1, <2>3, <3>1, <3>3 DEF Excused, Announced
    <2> QED BY <2>2, <2>3
  <1>11. ChangesAreSeen'
    BY <1>10, Seen
  <1> QED BY <1>2, <1>4, <1>7, <1>9, <1>11 DEF IndexInv

\* The three outcomes of a listing: read, gone, unreadable.
LEMMA ListKeeps ==
  ASSUME IndexInv, List
  PROVE  IndexInv'
  <1> DEFINE p == todo.path
             i == At(p)
             found == IF i \in DOMAIN w.watches /\ w.watches[i] = p THEN {p} ELSE {}
  <1>1. /\ pc = "list"
        /\ UNCHANGED <<disk, kernel, queue, rows, total, w, flags, mutating, dropped>>
        /\ \/ /\ IsFolder(i) /\ todo' = [todo EXCEPT !.listing = Listing(i)] /\ pc' = "reconcile"
              /\ Looked(Listing(i), found)
           \/ ~IsFolder(i) /\ Onwards /\ Looked(Nothing, {}) /\ UNCHANGED todo
           \/ todo' = [todo EXCEPT !.hit = TRUE] /\ Onwards /\ UNCHANGED <<owed, tracked>>
    BY DEF List, shares
  <1>2. CASE /\ IsFolder(i) /\ todo' = [todo EXCEPT !.listing = Listing(i)] /\ pc' = "reconcile"
             /\ Looked(Listing(i), found)
    <2>1. i \in Nat
      BY <1>2, LenProperties DEF IsFolder, IndexInv, DiskSound
    <2>2. \A j \in DOMAIN w.watches : j \in Nat /\ (w.watches[j] = p => w.watched[p] = j)
      BY DEF IndexInv, WorkSound, MapsSound
    <2>3. found # {} => \A j \in DOMAIN w.watches : w.watches[j] = p => j = i
      BY <2>2
    <2>4. found \subseteq {p}
      OBVIOUS
    <2>5. disk \in Seq(Inode)
      BY DEF IndexInv, DiskSound
    <2> DEFINE L == Listing(i)
    <2> HIDE DEF i
    <2>6. /\ DOMAIN L \subseteq Names /\ IsFiniteSet(DOMAIN L) /\ L \in [DOMAIN L -> Entry]
          /\ Fits(L, Since(i))
      BY <2>1, <2>5, ListingIsOn, ListingFacts
    <2> HIDE DEF found, L
    <2>7. /\ todo' = [todo EXCEPT !.listing = L] /\ Looked(L, found)
          /\ found # {} => \A j \in DOMAIN w.watches : w.watches[j] = p => Fits(L, Since(j))
      BY <1>2, <2>3, <2>6 DEF L
    <2>8. pc' = "reconcile"
      BY <1>2
    <2> QED BY <1>1, <2>4, <2>6, <2>7, <2>8, LookedKeeps
  <1>3. CASE ~IsFolder(i) /\ Onwards /\ Looked(Nothing, {}) /\ UNCHANGED todo
    <2> DEFINE T == todo.listing
    <2>1. /\ DOMAIN T \subseteq Names /\ IsFiniteSet(DOMAIN T) /\ T \in [DOMAIN T -> Entry]
          /\ todo' = [todo EXCEPT !.listing = T]
      BY <1>3 DEF IndexInv, TaskSound, TaskType
    <2>2. \A q : ~Leads(Nothing, q)
      BY DEF Leads, Nothing
    <2> HIDE DEF T
    <2>3. pc' \in {"next", "finish"}
      BY <1>3 DEF Onwards
    <2>4. {} \subseteq {todo.path} /\ {} = {}
      OBVIOUS
    <2> QED BY <1>1, <1>3, <2>1, <2>2, <2>3, <2>4, LookedKeeps
  <1>4. CASE todo' = [todo EXCEPT !.hit = TRUE] /\ Onwards /\ UNCHANGED <<owed, tracked>>
    <2>1. /\ TaskType(todo') /\ todo'.hit = TRUE /\ todo'.listing = todo.listing
          /\ pc' \in {"next", "finish"}
      BY <1>4 DEF IndexInv, TaskSound, TaskType, Onwards
    <2>2. TaskSound' /\ Arrives' /\ BoundMet'
      BY <2>1 DEF IndexInv, TaskSound, Phases, Arrives, BoundMet
    <2>3. /\ flags' \in Flagged /\ RowsSound(rows, total)' /\ WorkSound' /\ DiskSound' /\ MutationSound'
      BY <1>1, <1>4 DEF IndexInv, RowsSound, WorkSound, WorkType, MapsSound, DiskSound, QueueSound, MutationSound
    <2>4. ChangesAreSeen' /\ MutationsAreSeen'
      BY <2>2, Seen DEF Excused, MutationsAreSeen
    <2> QED BY <2>2, <2>3, <2>4 DEF IndexInv
  <1> QED BY <1>1, <1>2, <1>3, <1>4

\* The listing is made the rows.  Its own directory then agrees with it, and a directory
\* that becomes known by it is pending.
LEMMA ReconcileKeeps ==
  ASSUME IndexInv, Reconcile
  PROVE  IndexInv'
  <1> DEFINE D == DOMAIN todo.listing
             more == w'.pending
             hit == todo'.hit
  <1>1. Reading /\ todo.path \in Seq(Names)
    BY InvReads, ReadingTypes
  <1>2. /\ RowsSound(rows', total')
        /\ w' = [w EXCEPT !.pending = more]
        /\ Queued([pending |-> more, hit |-> hit], D)
        /\ todo' = [todo EXCEPT !.hit = hit, !.listing = Nothing]
        /\ hit \in BOOLEAN /\ (todo.hit => hit)
        /\ ~hit => \A n \in D : Child(n) \in DOMAIN rows' /\ rows'[Child(n)] = todo.listing[n]
        /\ \A n \in Names \ D : Child(n) \notin DOMAIN rows'
        /\ \A q \in DOMAIN rows' : (\A n \in D : q # Child(n)) =>
              q \in DOMAIN rows /\ rows'[q] = rows[q]
        /\ \A q \in DOMAIN rows \ DOMAIN rows' : \E n \in Names :
              \/ q = Child(n)
              \/ /\ Below(q, Child(n)) /\ ~IsDirectory(rows', Child(n))
                 /\ \A x \in DOMAIN rows' : ~Below(x, Child(n))
    BY <1>1, Reconciles
  <1>3. /\ pc = "reconcile" /\ pc' \in {"next", "finish"}
        /\ dropped' = dropped \ {Child(n) : n \in Names}
        /\ UNCHANGED <<disk, kernel, queue, flags, mutating, owed, tracked>>
    BY DEF Reconcile, Onwards, shares, Child
  <1> HIDE DEF more, hit
  <1>4. /\ more \in Seq(Seq(Names) \X BOOLEAN)
        /\ \A k \in DOMAIN w.pending : k \in DOMAIN more /\ more[k] = w.pending[k]
        /\ ~hit => \A n \in D :
              todo.listing[n].kind = "directory" /\ (todo.recursive \/ ~IsDirectory(rows, Child(n)))
              => \E k \in DOMAIN more : more[k] = <<Child(n), TRUE>>
    BY <1>2 DEF Queued
  <1>5. /\ WorkType(w') /\ w'.pending = more /\ w'.watches = w.watches /\ w'.watched = w.watched
        /\ w'.allowance = w.allowance /\ w'.dirty = w.dirty /\ w'.requested = w.requested
        /\ w'.passed = w.passed /\ w'.full = w.full /\ w'.incomplete = w.incomplete
        /\ w'.passIncomplete = w.passIncomplete
    BY <1>2, <1>4 DEF IndexInv, WorkSound, WorkType
  <1>6. WorkSound'
    BY <1>5, WatchesStay DEF IndexInv, WorkSound
  <1>7. TaskSound' /\ todo'.hit = hit /\ Arrives'
    <2>1. IsFiniteSet({}) /\ DOMAIN Nothing = {} /\ Nothing \in [{} -> Entry]
      BY FS_EmptySet DEF Nothing
    <2>2. TaskType(todo') /\ todo'.hit = hit /\ todo'.listing = Nothing
      BY <1>2 DEF IndexInv, TaskSound, TaskType
    <2> QED BY <1>3, <2>1, <2>2 DEF TaskSound, Phases, Arrives
  <1>8. RowsSound(rows, total)'
    BY <1>2 DEF RowsSound
  <1>9. DiskSound' /\ MutationSound' /\ flags' \in Flagged
    BY <1>3 DEF IndexInv, DiskSound, QueueSound, MutationSound
  <1>10. BoundMet => BoundMet'
    BY <1>2, <1>5, <1>7 DEF BoundMet
  <1>11. ASSUME NEW q \in Seq(Names), Awaited(q), ~hit PROVE Awaited(q)'
    <2>1. CASE todo.recursive /\ Below(q, todo.path) /\ Leads(todo.listing, q)
      <3> DEFINE n == q[Len(todo.path) + 1]
      <3>1. n \in D /\ todo.listing[n].kind = "directory"
        BY <2>1 DEF Leads
      <3>2. q = Child(n) \/ Below(q, Child(n))
        BY <1>1, <2>1, ChildTowards DEF Child
      <3> HIDE DEF n
      <3>3. PICK k \in DOMAIN more : more[k] = <<Child(n), TRUE>>
        BY <1>4, <1>11, <2>1, <3>1
      <3>4. more[k][1] = Child(n) /\ more[k][2] = TRUE
        BY <3>3
      <3> QED BY <1>5, <3>2, <3>4 DEF Awaited
    <2>2. CASE \E k \in DOMAIN w.pending :
                  w.pending[k][1] = q \/ (w.pending[k][2] /\ Below(q, w.pending[k][1]))
      BY <1>4, <1>5, <2>2 DEF Awaited
    <2>3. CASE q \in w.dirty \/ w.requested \/ ~w.passed
      BY <1>5, <2>3 DEF Awaited
    <2> QED BY <1>3, <1>11, <2>1, <2>2, <2>3 DEF Awaited
  <1>12. hit => BoundMet'
    BY <1>7 DEF BoundMet
  <1>13. MutationsAreSeen'
    <2>1. \A p \in Seq(Names) : Awaited(p) \/ BoundMet => Awaited(p)' \/ BoundMet'
      BY <1>10, <1>11, <1>12
    <2> QED BY <1>3, <2>1, OwedStay
  <1>14. ASSUME NEW j \in DOMAIN w.watches, NEW p \in Seq(Names), p = w.watches[j],
                Behind(p, j)', ~hit, ~Announced(j)
         PROVE  Awaited(p)' \/ BoundMet'
    <2>1. /\ j \in kernel /\ p \in tracked /\ (p = Root \/ IsDirectory(rows', p))
      BY <1>3, <1>14 DEF Behind, Known, IsDirectory
    <2>2. PICK n \in Names :
             LET c == Append(p, n)
                 there == n \in DOMAIN Since(j)
             IN c \notin dropped' /\ IF there /\ c \in DOMAIN rows' THEN rows'[c] \notin Since(j)[n]
                                     ELSE there \/ c \in DOMAIN rows'
      BY <1>3, <1>14, ListingsStay DEF Behind, Differs, Unlike
    <2> DEFINE c == Append(p, n)
    <2>3. CASE p = todo.path
      <3>1. Fits(todo.listing, Since(j))
        BY <1>3, <1>14, <2>1, <2>3 DEF IndexInv, Arrives
      <3>2. c = Child(n)
        BY <2>3 DEF Child
      <3> QED BY <1>2, <1>14, <2>2, <3>1, <3>2 DEF Fits
    <2>4. CASE p # todo.path
      <3>1. c \in Seq(Names) /\ \A m \in Names : c # Child(m)
        BY <1>1, <2>4, AppendFacts, ChildrenDiffer DEF Child
      <3>2. D \subseteq Names
        BY <1>1 DEF Reading
      <3> HIDE DEF c
      <3>3. c \notin dropped
        BY <1>3, <2>2, <3>1 DEF c
      <3>4. c \in DOMAIN rows' => c \in DOMAIN rows /\ rows'[c] = rows[c]
        BY <1>2, <3>1, <3>2
      <3>5. c \in DOMAIN rows => c \in DOMAIN rows'
        <4> SUFFICES ASSUME c \in DOMAIN rows, c \notin DOMAIN rows' PROVE FALSE
          OBVIOUS
        <4>1. PICK m \in Names : /\ Below(c, Child(m)) /\ ~IsDirectory(rows', Child(m))
                                 /\ \A x \in DOMAIN rows' : ~Below(x, Child(m))
          BY <1>2, <3>1
        <4>2. Child(m) \in Seq(Names) /\ Child(m) # Root
          BY <1>1, AppendFacts, EmptySeq DEF Child, Root
        <4>3. p = Child(m) \/ Below(p, Child(m))
          BY <4>1, <4>2, BelowChild DEF c
        <4>4. p # Root
          <5>1. Root \in Seq(Names) /\ Len(Root) = 0 /\ Len(Child(m)) \in Nat
            BY <4>2, EmptySeq, LenProperties DEF Root
          <5>2. ~(Len(Root) > Len(Child(m)))
            BY <5>1
          <5>3. ~Below(Root, Child(m))
            BY <5>2 DEF Below
          <5> QED BY <4>2, <4>3, <5>3
        <4> QED BY <2>1, <4>1, <4>3, <4>4 DEF IsDirectory
      <3>6. Differs(p, j)
        BY <2>2, <3>3, <3>4, <3>5 DEF Differs, Unlike, c
      <3>7. CASE Known(p)
        <4>1. Behind(p, j)
          BY <2>1, <3>6, <3>7 DEF Behind
        <4>2. Awaited(p) \/ BoundMet
          BY <1>14, <2>4, <4>1, Seen DEF IndexInv, Excused, Arriving
        <4> QED BY <1>10, <1>11, <1>14, <4>2
      <3>8. CASE ~Known(p)
        <4>1. p # Root /\ ~IsDirectory(rows, p) /\ IsDirectory(rows', p)
          BY <2>1, <3>8 DEF Known, IsDirectory
        <4>2. PICK m \in D : p = Child(m)
          BY <1>2, <4>1 DEF IsDirectory
        <4>3. todo.listing[m].kind = "directory"
          BY <1>2, <1>14, <4>1, <4>2 DEF IsDirectory
        <4>4. PICK k \in DOMAIN more : more[k] = <<Child(m), TRUE>>
          BY <1>4, <1>14, <4>1, <4>2, <4>3
        <4>5. more[k][1] = p
          BY <4>2, <4>4
        <4> QED BY <1>5, <4>5 DEF Awaited
      <3> QED BY <3>7, <3>8
    <2> QED BY <2>3, <2>4
  <1>15. ChangesAreSeen'
    <2> SUFFICES ASSUME NEW j \in DOMAIN w'.watches, NEW p, p = w'.watches[j], Behind(p, j)'
                 PROVE  Excused(p, j)'
      BY Seen
    <2>1. j \in DOMAIN w.watches /\ p = w.watches[j] /\ p \in Seq(Names)
      BY <1>5 DEF IndexInv, WorkSound, MapsSound
    <2>2. Announced(j) => Announced(j)'
      BY <1>3 DEF Announced
    <2> QED BY <1>12, <1>14, <2>1, <2>2 DEF Excused
  <1> QED BY <1>6, <1>7, <1>8, <1>9, <1>13, <1>15 DEF IndexInv

-----------------------------------------------------------------------------
(* The theorem                                                              *)

LEMMA NextKeeps ==
  ASSUME IndexInv, IndexNext
  PROVE  IndexInv'
  <1>1. CASE Worker
    BY <1>1, DrainKeeps, BeginPassKeeps, RefreshKeeps, ResumeKeeps, WatchNextKeeps, ListKeeps,
       ReconcileKeeps, ReconcileFailsKeeps, EndSliceKeeps, StoreKeeps DEF Worker
  <1>2. CASE EndMutation
    BY <1>2, ForgetKeeps, InvalidateKeeps DEF EndMutation
  <1>3. CASE Change
    BY <1>3, ChangeKeeps
  <1>4. CASE Reopen
    BY <1>4, ReopenKeeps
  <1> QED BY <1>1, <1>2, <1>3, <1>4 DEF IndexNext

\* A step of something else.
LEMMA StutterKeeps ==
  ASSUME IndexInv, UNCHANGED index
  PROVE  IndexInv'
  <1>1. UNCHANGED <<disk, kernel, queue, rows, total, w, pc, todo, flags, mutating, owed, dropped, tracked>>
    BY DEF index
  <1>2. DiskSound' /\ RowsSound(rows, total)' /\ WorkSound' /\ TaskSound' /\ flags' \in Flagged /\ MutationSound'
    BY <1>1 DEF IndexInv, DiskSound, QueueSound, RowsSound, WorkSound, WorkType, MapsSound, TaskSound,
                TaskType, MutationSound
  <1>3. \A i : (Announced(i) <=> Announced(i)') /\ Since(i)' = Since(i)
    BY <1>1, ListingsStay DEF Announced
  <1>4. Arrives'
    BY <1>1, <1>3 DEF IndexInv, Arrives
  <1>5. \A p : Awaited(p) <=> Awaited(p)'
    BY <1>1 DEF Awaited, Leads
  <1>6. BoundMet <=> BoundMet'
    BY <1>1 DEF BoundMet
  <1>7. MutationsAreSeen'
    BY <1>1, <1>5, <1>6 DEF IndexInv, MutationsAreSeen
  <1>8. ASSUME NEW i \in DOMAIN w'.watches, NEW p, p = w'.watches[i], Behind(p, i)'
        PROVE  Excused(p, i)'
    <2>1. Behind(p, i) /\ i \in DOMAIN w.watches /\ p = w.watches[i]
      BY <1>1, <1>3, <1>8 DEF Behind, Known, Differs, Unlike
    <2>2. Excused(p, i)
      BY <2>1, Seen DEF IndexInv
    <2> QED BY <1>1, <1>3, <1>5, <1>6, <2>2 DEF Excused, Arriving
  <1>9. ChangesAreSeen'
    BY <1>8, Seen
  <1> QED BY <1>2, <1>4, <1>7, <1>9 DEF IndexInv

\* The invariant says all that the property does.
LEMMA InvIsSound ==
  ASSUME IndexInv
  PROVE  IndexSound
  <1>1. TotalIsExact
    BY DEF IndexInv, RowsSound, TotalIsExact
  <1>2. MapsAgree
    BY DEF IndexInv, WorkSound, MapsSound, MapsAgree
  <1>3. IndexTypeOK
    <2>1. w \in Work /\ todo \in Task
      BY TypesAgree DEF IndexInv, WorkSound, TaskSound
    <2>2. /\ disk \in Seq([parent : Nat \cup {Gone}, name : Names, kind : EntryKinds, stamp : Nat,
                            told : Nat])
          /\ kernel \subseteq Nat
          /\ queue \in Seq([wd : Nat, what : {"change", "self", "ignored", "overflow"}])
          /\ Len(queue) <= MaxQueue
      <3>1. Seq(Inode) \subseteq Seq(InodeType)
        <4>1. \A s \in Seq(Inode) : s \in Seq(InodeType)
          BY SeqDef DEF Inode
        <4> QED BY <4>1
      <3> QED BY <3>1 DEF IndexInv, DiskSound, QueueSound, InodeType, Event
    <2>3. /\ DOMAIN rows \subseteq Seq(Names) /\ rows \in [DOMAIN rows -> Entry]
          /\ \A p \in DOMAIN rows : Len(p) <= MaxDepth
          /\ total \in Nat
      BY FS_CardinalityType DEF IndexInv, RowsSound
    <2>4. /\ DOMAIN w.watches \subseteq Nat /\ w.watches \in [DOMAIN w.watches -> Seq(Names)]
          /\ DOMAIN w.watched \subseteq Seq(Names) /\ w.watched \in [DOMAIN w.watched -> Nat]
      BY DEF IndexInv, WorkSound, MapsSound
    <2>5. /\ pc \in Phases
          /\ DOMAIN todo.listing \subseteq Names /\ todo.listing \in [DOMAIN todo.listing -> Entry]
      BY DEF IndexInv, TaskSound
    <2>6. /\ flags \in Flagged
          /\ mutating # <<>> =>
                mutating \in [{1} -> [changed : SUBSET Seq(Names), forget : SUBSET Seq(Names)]]
          /\ owed \cup dropped \cup tracked \subseteq Seq(Names)
      BY DEF IndexInv, MutationSound
    <2> QED BY <2>1, <2>2, <2>3, <2>4, <2>5, <2>6 DEF IndexTypeOK
  <1> QED BY <1>1, <1>2, <1>3 DEF IndexInv, IndexSound

\* The index is sound in every reachable state (search.rs, run_share): its total and its maps
\* agree with its rows and with each other, and every difference between the rows of a
\* tracked directory and the share is announced, awaited, or a bound that was met.
THEOREM IndexAlwaysSound == IndexSpec => []IndexSound
  <1>1. IndexInit => IndexInv
    BY InitInv
  <1>2. IndexInv /\ [IndexNext]_index => IndexInv'
    BY NextKeeps, StutterKeeps
  <1>3. IndexInv => IndexSound
    BY InvIsSound
  <1> QED BY <1>1, <1>2, <1>3, PTL DEF IndexSpec
=============================================================================
