---------------------------- MODULE FilesystemProofs -------------------------
(* Proofs about PendingWrite, for any requests, outside versions and number  *)
(* of disturbances, about TrashSweep, for any directory, items, budget and   *)
(* clients, about Paths, for any disk, path and changes by others, and about *)
(* TrashListing, for any trash, any order of its reading, any page and any   *)
(* changes by others while it is read.                                       *)
EXTENDS PendingWrite, TrashSweep, Paths, TrashListing, Integers, FiniteSetTheorems, TLAPS

\* Every call, crash and recovery step keeps the state well typed.
LEMMA WriteTypeNext == TypeOK /\ [Next]_vars => TypeOK'
  <1> SUFFICES ASSUME TypeOK, [Next]_vars PROVE TypeOK'
    OBVIOUS
  <1> USE DEF TypeOK, Entries, Versions
  <1>1. ASSUME NEW w \in Writers, NEW old \in Entries, Begin(w, old) PROVE TypeOK'
    BY <1>1 DEF Begin, At, Goto, Labels
  <1>2. ASSUME NEW w \in Writers, Write(w) PROVE TypeOK'
    BY <1>2 DEF Write, At, Goto, Continue, Synced, Labels
  <1>3. ASSUME NEW w \in Writers, Lock(w) PROVE TypeOK'
    BY <1>3 DEF Lock, At, Goto, Labels
  <1>4. ASSUME NEW w \in Writers, Refused(w) PROVE TypeOK'
    BY <1>4 DEF Refused, At, Goto, Continue, Labels
  <1>5. ASSUME NEW w \in Writers, PublishNew(w) PROVE TypeOK'
    BY <1>5 DEF PublishNew, At, Goto, Continue, Synced, Labels
  <1>6. ASSUME NEW w \in Writers, ValidateNew(w) PROVE TypeOK'
    BY <1>6 DEF ValidateNew, Matches, At, Goto, Continue, Answer, Fault, Labels
  <1>7. ASSUME NEW w \in Writers, RemoveNew(w) PROVE TypeOK'
    BY <1>7 DEF RemoveNew, At, Goto, Continue, Fault, Labels
  <1>8. ASSUME NEW w \in Writers, Check(w) PROVE TypeOK'
    BY <1>8 DEF Check, Matches, At, Goto, Continue, Synced, Labels
  <1>9. ASSUME NEW w \in Writers, Keep(w) PROVE TypeOK'
    BY <1>9 DEF Keep, At, Goto, Continue, Fault, Labels
  <1>10. ASSUME NEW w \in Writers, Exchange(w) PROVE TypeOK'
    BY <1>10 DEF Exchange, At, Goto, Continue, Swap, Fault, Labels
  <1>11. ASSUME NEW w \in Writers, Validate(w) PROVE TypeOK'
    BY <1>11 DEF Validate, Matches, At, Goto, Continue, Fault, Labels
  <1>12. ASSUME NEW w \in Writers, RemoveOld(w) PROVE TypeOK'
    BY <1>12 DEF RemoveOld, At, Goto, Continue, Answer, Fault, Labels
  <1>13. ASSUME NEW w \in Writers, Rollback(w) PROVE TypeOK'
    BY <1>13 DEF Rollback, At, Goto, Continue, Swap, Answer, Fault, Labels
  <1>14. ASSUME NEW w \in Writers, Drop(w) PROVE TypeOK'
    BY <1>14 DEF Drop, At, Goto, Answer, Fault, Labels
  <1>15. ASSUME NEW w \in Writers, Cancel(w) PROVE TypeOK'
    BY <1>15 DEF Cancel, At, Goto, Continue, Labels
  <1>16. CASE Crash
    BY <1>16 DEF Crash, Fault, file, Labels
  <1>17. CASE Boot
    BY <1>17 DEF Boot, file
  <1>18. ASSUME NEW w \in Writers, RecoverFile(w) PROVE TypeOK'
    BY <1>18 DEF RecoverFile
  <1>19. CASE Recovered
    BY <1>19 DEF Recovered, file
  <1>20. CASE MoveAway
    BY <1>20 DEF MoveAway
  <1>21. ASSUME NEW v \in Outsiders \cup {None}, Outside(v) PROVE TypeOK'
    BY <1>21 DEF Outside, Fault
  <1>22. CASE UNCHANGED vars
    BY <1>22 DEF vars
  <1> QED BY <1>1, <1>2, <1>3, <1>4, <1>5, <1>6, <1>7, <1>8, <1>9, <1>10, <1>11, <1>12, <1>13, <1>14, <1>15, <1>16, <1>17, <1>18, <1>19, <1>20, <1>21, <1>22
    DEF Next, Step

\* Every call, crash and recovery step keeps the inductive invariant: what a
\* request knows at each call (RequestInv), with the commit lock it holds and the
\* versions having one name each, is what makes its next change safe.
LEMMA PublishNext == TypeOK /\ PublishInv /\ [Next]_vars => PublishInv'
  <1> SUFFICES ASSUME TypeOK, PublishInv, [Next]_vars PROVE PublishInv'
    OBVIOUS
  <1> USE VersionsAssumption DEF TypeOK, Entries, Versions, PublishInv
  <1>1. ASSUME NEW w \in Writers, NEW old \in Entries, Begin(w, old) PROVE PublishInv'
    <2>1. LockInv'
      BY <1>1 DEF Begin, At, Goto, LockInv, Publishing
    <2>2. OneName'
      BY <1>1 DEF Begin, At, Goto, OneName, Used, RequestInv, Disposable
    <2>3. RequestInv'
      BY <1>1 DEF Begin, At, Goto, RequestInv, Disposable, Exchanged, Publishing, LockInv
    <2>4. ReplacedGone'
      BY <1>1 DEF Begin, At, Goto, ReplacedGone, OneName, Used, RequestInv, Exchanged
    <2>5. SavedVersionKept'
      BY <1>1 DEF Begin, At, Goto, SavedVersionKept, Saved, Reachable, RequestInv, Disposable, Exchanged
    <2>6. OneWinner'
      BY <1>1 DEF Begin, At, Goto, OneWinner, ReplacedGone, RequestInv
    <2>7. NothingTorn'
      BY <1>1 DEF Begin, At, Goto, NothingTorn, RequestInv, Exchanged
    <2> QED BY <2>1, <2>2, <2>3, <2>4, <2>5, <2>6, <2>7
  <1>2. ASSUME NEW w \in Writers, Write(w) PROVE PublishInv'
    <2>1. LockInv'
      BY <1>2 DEF Write, At, Goto, Continue, Synced, LockInv, Publishing
    <2>2. OneName'
      BY <1>2 DEF Write, At, Goto, Continue, Synced, OneName, Used, RequestInv, Disposable
    <2>3. RequestInv'
      BY <1>2 DEF Write, At, Goto, Continue, Synced, RequestInv, Disposable, Exchanged, Publishing, LockInv
    <2>4. ReplacedGone'
      BY <1>2 DEF Write, At, Goto, Continue, Synced, ReplacedGone, OneName, Used, RequestInv, Exchanged
    <2>5. SavedVersionKept'
      BY <1>2 DEF Write, At, Goto, Continue, Synced, SavedVersionKept, Saved, Reachable, RequestInv, Disposable, Exchanged
    <2>6. OneWinner'
      BY <1>2 DEF Write, At, Goto, Continue, Synced, OneWinner, ReplacedGone, RequestInv
    <2>7. NothingTorn'
      BY <1>2 DEF Write, At, Goto, Continue, Synced, NothingTorn, RequestInv, Exchanged
    <2> QED BY <2>1, <2>2, <2>3, <2>4, <2>5, <2>6, <2>7
  <1>3. ASSUME NEW w \in Writers, Lock(w) PROVE PublishInv'
    <2>1. LockInv'
      BY <1>3 DEF Lock, At, Goto, LockInv, Publishing
    <2>2. OneName'
      BY <1>3 DEF Lock, At, Goto, OneName, Used, RequestInv, Disposable
    <2>3. RequestInv'
      BY <1>3 DEF Lock, At, Goto, RequestInv, Disposable, Exchanged, Publishing, LockInv
    <2>4. ReplacedGone'
      BY <1>3 DEF Lock, At, Goto, ReplacedGone, OneName, Used, RequestInv, Exchanged
    <2>5. SavedVersionKept'
      BY <1>3 DEF Lock, At, Goto, SavedVersionKept, Saved, Reachable, RequestInv, Disposable, Exchanged
    <2>6. OneWinner'
      BY <1>3 DEF Lock, At, Goto, OneWinner, ReplacedGone, RequestInv
    <2>7. NothingTorn'
      BY <1>3 DEF Lock, At, Goto, NothingTorn, RequestInv, Exchanged
    <2> QED BY <2>1, <2>2, <2>3, <2>4, <2>5, <2>6, <2>7
  <1>4. ASSUME NEW w \in Writers, Refused(w) PROVE PublishInv'
    <2>1. LockInv'
      BY <1>4 DEF Refused, At, Goto, Continue, LockInv, Publishing
    <2>2. OneName'
      BY <1>4 DEF Refused, At, Goto, Continue, OneName, Used, RequestInv, Disposable
    <2>3. RequestInv'
      BY <1>4 DEF Refused, At, Goto, Continue, RequestInv, Disposable, Exchanged, Publishing, LockInv
    <2>4. ReplacedGone'
      BY <1>4 DEF Refused, At, Goto, Continue, ReplacedGone, OneName, Used, RequestInv, Exchanged
    <2>5. SavedVersionKept'
      BY <1>4 DEF Refused, At, Goto, Continue, SavedVersionKept, Saved, Reachable, RequestInv, Disposable, Exchanged
    <2>6. OneWinner'
      BY <1>4 DEF Refused, At, Goto, Continue, OneWinner, ReplacedGone, RequestInv
    <2>7. NothingTorn'
      BY <1>4 DEF Refused, At, Goto, Continue, NothingTorn, RequestInv, Exchanged
    <2> QED BY <2>1, <2>2, <2>3, <2>4, <2>5, <2>6, <2>7
  <1>5. ASSUME NEW w \in Writers, PublishNew(w) PROVE PublishInv'
    <2>1. LockInv'
      BY <1>5 DEF PublishNew, At, Goto, Continue, Synced, LockInv, Publishing
    <2>2. OneName'
      BY <1>5 DEF PublishNew, At, Goto, Continue, Synced, OneName, Used, RequestInv, Disposable
    <2>3. RequestInv'
      BY <1>5 DEF PublishNew, At, Goto, Continue, Synced, RequestInv, Disposable, Exchanged, Publishing, LockInv
    <2>4. ReplacedGone'
      BY <1>5 DEF PublishNew, At, Goto, Continue, Synced, ReplacedGone, OneName, Used, RequestInv, Exchanged
    <2>5. SavedVersionKept'
      BY <1>5 DEF PublishNew, At, Goto, Continue, Synced, SavedVersionKept, Saved, Reachable, RequestInv, Disposable, Exchanged
    <2>6. OneWinner'
      BY <1>5 DEF PublishNew, At, Goto, Continue, Synced, OneWinner, ReplacedGone, RequestInv
    <2>7. NothingTorn'
      BY <1>5 DEF PublishNew, At, Goto, Continue, Synced, NothingTorn, RequestInv, Exchanged
    <2> QED BY <2>1, <2>2, <2>3, <2>4, <2>5, <2>6, <2>7
  <1>6. ASSUME NEW w \in Writers, ValidateNew(w) PROVE PublishInv'
    <2>1. LockInv'
      BY <1>6 DEF ValidateNew, Matches, At, Goto, Continue, Answer, LockInv, Publishing
    <2>2. OneName'
      BY <1>6 DEF ValidateNew, Matches, At, Goto, Continue, Answer, OneName, Used, RequestInv, Disposable
    <2>3. RequestInv'
      BY <1>6 DEF ValidateNew, Matches, At, Goto, Continue, Answer, RequestInv, Disposable, Exchanged, Publishing, LockInv
    <2>4. ReplacedGone'
      BY <1>6 DEF ValidateNew, Matches, At, Goto, Continue, Answer, ReplacedGone, OneName, Used, RequestInv, Exchanged
    <2>5. SavedVersionKept'
      BY <1>6 DEF ValidateNew, Matches, At, Goto, Continue, Answer, SavedVersionKept, Saved, Reachable, RequestInv, Disposable, Exchanged
    <2>6. OneWinner'
      BY <1>6 DEF ValidateNew, Matches, At, Goto, Continue, Answer, OneWinner, ReplacedGone, RequestInv
    <2>7. NothingTorn'
      BY <1>6 DEF ValidateNew, Matches, At, Goto, Continue, Answer, NothingTorn, RequestInv, Exchanged
    <2> QED BY <2>1, <2>2, <2>3, <2>4, <2>5, <2>6, <2>7
  <1>7. ASSUME NEW w \in Writers, RemoveNew(w) PROVE PublishInv'
    <2>1. LockInv'
      BY <1>7 DEF RemoveNew, At, Goto, Continue, LockInv, Publishing
    <2>2. OneName'
      BY <1>7 DEF RemoveNew, At, Goto, Continue, OneName, Used, RequestInv, Disposable
    <2>3. RequestInv'
      BY <1>7 DEF RemoveNew, At, Goto, Continue, RequestInv, Disposable, Exchanged, Publishing, LockInv
    <2>4. ReplacedGone'
      BY <1>7 DEF RemoveNew, At, Goto, Continue, ReplacedGone, OneName, Used, RequestInv, Exchanged
    <2>5. SavedVersionKept'
      BY <1>7 DEF RemoveNew, At, Goto, Continue, SavedVersionKept, Saved, Reachable, RequestInv, Disposable, Exchanged
    <2>6. OneWinner'
      BY <1>7 DEF RemoveNew, At, Goto, Continue, OneWinner, ReplacedGone, RequestInv
    <2>7. NothingTorn'
      BY <1>7 DEF RemoveNew, At, Goto, Continue, NothingTorn, RequestInv, Exchanged
    <2> QED BY <2>1, <2>2, <2>3, <2>4, <2>5, <2>6, <2>7
  <1>8. ASSUME NEW w \in Writers, Check(w) PROVE PublishInv'
    <2>1. LockInv'
      BY <1>8 DEF Check, Matches, At, Goto, Continue, Synced, LockInv, Publishing
    <2>2. OneName'
      BY <1>8 DEF Check, Matches, At, Goto, Continue, Synced, OneName, Used, RequestInv, Disposable
    <2>3. RequestInv'
      BY <1>8 DEF Check, Matches, At, Goto, Continue, Synced, RequestInv, Disposable, Exchanged, Publishing, LockInv
    <2>4. ReplacedGone'
      BY <1>8 DEF Check, Matches, At, Goto, Continue, Synced, ReplacedGone, OneName, Used, RequestInv, Exchanged
    <2>5. SavedVersionKept'
      BY <1>8 DEF Check, Matches, At, Goto, Continue, Synced, SavedVersionKept, Saved, Reachable, RequestInv, Disposable, Exchanged
    <2>6. OneWinner'
      BY <1>8 DEF Check, Matches, At, Goto, Continue, Synced, OneWinner, ReplacedGone, RequestInv
    <2>7. NothingTorn'
      BY <1>8 DEF Check, Matches, At, Goto, Continue, Synced, NothingTorn, RequestInv, Exchanged
    <2> QED BY <2>1, <2>2, <2>3, <2>4, <2>5, <2>6, <2>7
  <1>9. ASSUME NEW w \in Writers, Keep(w) PROVE PublishInv'
    <2>1. LockInv'
      BY <1>9 DEF Keep, At, Goto, Continue, LockInv, Publishing
    <2>2. OneName'
      BY <1>9 DEF Keep, At, Goto, Continue, OneName, Used, RequestInv, Disposable
    <2>3. RequestInv'
      BY <1>9 DEF Keep, At, Goto, Continue, RequestInv, Disposable, Exchanged, Publishing, LockInv
    <2>4. ReplacedGone'
      BY <1>9 DEF Keep, At, Goto, Continue, ReplacedGone, OneName, Used, RequestInv, Exchanged
    <2>5. SavedVersionKept'
      BY <1>9 DEF Keep, At, Goto, Continue, SavedVersionKept, Saved, Reachable, RequestInv, Disposable, Exchanged
    <2>6. OneWinner'
      BY <1>9 DEF Keep, At, Goto, Continue, OneWinner, ReplacedGone, RequestInv
    <2>7. NothingTorn'
      BY <1>9 DEF Keep, At, Goto, Continue, NothingTorn, RequestInv, Exchanged
    <2> QED BY <2>1, <2>2, <2>3, <2>4, <2>5, <2>6, <2>7
  <1>10. ASSUME NEW w \in Writers, Exchange(w) PROVE PublishInv'
    <2>1. LockInv'
      BY <1>10 DEF Exchange, At, Goto, Continue, Swap, LockInv, Publishing
    <2>2. OneName'
      BY <1>10 DEF Exchange, At, Goto, Continue, Swap, OneName, Used, RequestInv, Disposable
    <2>3. RequestInv'
      BY <1>10 DEF Exchange, At, Goto, Continue, Swap, RequestInv, Disposable, Exchanged, Publishing, LockInv
    <2>4. ReplacedGone'
      BY <1>10 DEF Exchange, At, Goto, Continue, Swap, ReplacedGone, OneName, Used, RequestInv, Exchanged
    <2>5. SavedVersionKept'
      BY <1>10 DEF Exchange, At, Goto, Continue, Swap, SavedVersionKept, Saved, Reachable, RequestInv, Disposable, Exchanged
    <2>6. OneWinner'
      BY <1>10 DEF Exchange, At, Goto, Continue, Swap, OneWinner, ReplacedGone, RequestInv
    <2>7. NothingTorn'
      BY <1>10 DEF Exchange, At, Goto, Continue, Swap, NothingTorn, RequestInv, Exchanged
    <2> QED BY <2>1, <2>2, <2>3, <2>4, <2>5, <2>6, <2>7
  <1>11. ASSUME NEW w \in Writers, Validate(w) PROVE PublishInv'
    <2>1. LockInv'
      BY <1>11 DEF Validate, Matches, At, Goto, Continue, LockInv, Publishing
    <2>2. OneName'
      BY <1>11 DEF Validate, Matches, At, Goto, Continue, OneName, Used, RequestInv, Disposable
    <2>3. RequestInv'
      BY <1>11 DEF Validate, Matches, At, Goto, Continue, RequestInv, Disposable, Exchanged, Publishing, LockInv
    <2>4. ReplacedGone'
      BY <1>11 DEF Validate, Matches, At, Goto, Continue, ReplacedGone, OneName, Used, RequestInv, Exchanged
    <2>5. SavedVersionKept'
      BY <1>11 DEF Validate, Matches, At, Goto, Continue, SavedVersionKept, Saved, Reachable, RequestInv, Disposable, Exchanged
    <2>6. OneWinner'
      BY <1>11 DEF Validate, Matches, At, Goto, Continue, OneWinner, ReplacedGone, RequestInv
    <2>7. NothingTorn'
      BY <1>11 DEF Validate, Matches, At, Goto, Continue, NothingTorn, RequestInv, Exchanged
    <2> QED BY <2>1, <2>2, <2>3, <2>4, <2>5, <2>6, <2>7
  <1>12. ASSUME NEW w \in Writers, RemoveOld(w) PROVE PublishInv'
    <2>1. LockInv'
      BY <1>12 DEF RemoveOld, At, Goto, Continue, Answer, LockInv, Publishing
    <2>2. OneName'
      BY <1>12 DEF RemoveOld, At, Goto, Continue, Answer, OneName, Used, RequestInv, Disposable
    <2>3. RequestInv'
      BY <1>12 DEF RemoveOld, At, Goto, Continue, Answer, RequestInv, Disposable, Exchanged, Publishing, LockInv
    <2>4. ReplacedGone'
      BY <1>12 DEF RemoveOld, At, Goto, Continue, Answer, ReplacedGone, OneName, Used, RequestInv, Exchanged
    <2>5. SavedVersionKept'
      BY <1>12 DEF RemoveOld, At, Goto, Continue, Answer, SavedVersionKept, Saved, Reachable, RequestInv, Disposable, Exchanged
    <2>6. OneWinner'
      BY <1>12 DEF RemoveOld, At, Goto, Continue, Answer, OneWinner, ReplacedGone, RequestInv
    <2>7. NothingTorn'
      BY <1>12 DEF RemoveOld, At, Goto, Continue, Answer, NothingTorn, RequestInv, Exchanged
    <2> QED BY <2>1, <2>2, <2>3, <2>4, <2>5, <2>6, <2>7
  <1>13. ASSUME NEW w \in Writers, Rollback(w) PROVE PublishInv'
    <2>1. LockInv'
      BY <1>13 DEF Rollback, At, Goto, Continue, Swap, Answer, LockInv, Publishing
    <2>2. OneName'
      BY <1>13 DEF Rollback, At, Goto, Continue, Swap, Answer, OneName, Used, RequestInv, Disposable
    <2>3. RequestInv'
      BY <1>13 DEF Rollback, At, Goto, Continue, Swap, Answer, RequestInv, Disposable, Exchanged, Publishing, LockInv
    <2>4. ReplacedGone'
      BY <1>13 DEF Rollback, At, Goto, Continue, Swap, Answer, ReplacedGone, OneName, Used, RequestInv, Exchanged
    <2>5. SavedVersionKept'
      BY <1>13 DEF Rollback, At, Goto, Continue, Swap, Answer, SavedVersionKept, Saved, Reachable, RequestInv, Disposable, Exchanged
    <2>6. OneWinner'
      BY <1>13 DEF Rollback, At, Goto, Continue, Swap, Answer, OneWinner, ReplacedGone, RequestInv
    <2>7. NothingTorn'
      BY <1>13 DEF Rollback, At, Goto, Continue, Swap, Answer, NothingTorn, RequestInv, Exchanged
    <2> QED BY <2>1, <2>2, <2>3, <2>4, <2>5, <2>6, <2>7
  <1>14. ASSUME NEW w \in Writers, Drop(w) PROVE PublishInv'
    <2>1. LockInv'
      BY <1>14 DEF Drop, At, Goto, Answer, LockInv, Publishing
    <2>2. OneName'
      BY <1>14 DEF Drop, At, Goto, Answer, OneName, Used, RequestInv, Disposable
    <2>3. RequestInv'
      BY <1>14 DEF Drop, At, Goto, Answer, RequestInv, Disposable, Exchanged, Publishing, LockInv
    <2>4. ReplacedGone'
      BY <1>14 DEF Drop, At, Goto, Answer, ReplacedGone, OneName, Used, RequestInv, Exchanged
    <2>5. SavedVersionKept'
      BY <1>14 DEF Drop, At, Goto, Answer, SavedVersionKept, Saved, Reachable, RequestInv, Disposable, Exchanged
    <2>6. OneWinner'
      BY <1>14 DEF Drop, At, Goto, Answer, OneWinner, ReplacedGone, RequestInv
    <2>7. NothingTorn'
      BY <1>14 DEF Drop, At, Goto, Answer, NothingTorn, RequestInv, Exchanged
    <2> QED BY <2>1, <2>2, <2>3, <2>4, <2>5, <2>6, <2>7
  <1>15. ASSUME NEW w \in Writers, Cancel(w) PROVE PublishInv'
    <2>1. LockInv'
      BY <1>15 DEF Cancel, At, Goto, Continue, LockInv, Publishing
    <2>2. OneName'
      BY <1>15 DEF Cancel, At, Goto, Continue, OneName, Used, RequestInv, Disposable
    <2>3. RequestInv'
      BY <1>15 DEF Cancel, At, Goto, Continue, RequestInv, Disposable, Exchanged, Publishing, LockInv
    <2>4. ReplacedGone'
      BY <1>15 DEF Cancel, At, Goto, Continue, ReplacedGone, OneName, Used, RequestInv, Exchanged
    <2>5. SavedVersionKept'
      BY <1>15 DEF Cancel, At, Goto, Continue, SavedVersionKept, Saved, Reachable, RequestInv, Disposable, Exchanged
    <2>6. OneWinner'
      BY <1>15 DEF Cancel, At, Goto, Continue, OneWinner, ReplacedGone, RequestInv
    <2>7. NothingTorn'
      BY <1>15 DEF Cancel, At, Goto, Continue, NothingTorn, RequestInv, Exchanged
    <2> QED BY <2>1, <2>2, <2>3, <2>4, <2>5, <2>6, <2>7
  <1>16. CASE Crash
    <2>1. LockInv'
      BY <1>16 DEF Crash, file, LockInv, Publishing
    <2>2. OneName'
      BY <1>16 DEF Crash, file, OneName, Used, RequestInv, Disposable
    <2>3. RequestInv'
      BY <1>16 DEF Crash, file, RequestInv, Disposable, Exchanged, Publishing, LockInv
    <2>4. ReplacedGone'
      BY <1>16 DEF Crash, file, ReplacedGone, OneName, Used, RequestInv, Exchanged
    <2>5. SavedVersionKept'
      BY <1>16 DEF Crash, file, SavedVersionKept, Saved, Reachable, RequestInv, Disposable, Exchanged
    <2>6. OneWinner'
      BY <1>16 DEF Crash, file, OneWinner, ReplacedGone, RequestInv
    <2>7. NothingTorn'
      BY <1>16 DEF Crash, file, NothingTorn, RequestInv, Exchanged
    <2> QED BY <2>1, <2>2, <2>3, <2>4, <2>5, <2>6, <2>7
  <1>17. CASE Boot
    <2>1. LockInv'
      BY <1>17 DEF Boot, file, LockInv, Publishing
    <2>2. OneName'
      BY <1>17 DEF Boot, file, OneName, Used, RequestInv, Disposable
    <2>3. RequestInv'
      BY <1>17 DEF Boot, file, RequestInv, Disposable, Exchanged, Publishing, LockInv
    <2>4. ReplacedGone'
      BY <1>17 DEF Boot, file, ReplacedGone, OneName, Used, RequestInv, Exchanged
    <2>5. SavedVersionKept'
      BY <1>17 DEF Boot, file, SavedVersionKept, Saved, Reachable, RequestInv, Disposable, Exchanged
    <2>6. OneWinner'
      BY <1>17 DEF Boot, file, OneWinner, ReplacedGone, RequestInv
    <2>7. NothingTorn'
      BY <1>17 DEF Boot, file, NothingTorn, RequestInv, Exchanged
    <2> QED BY <2>1, <2>2, <2>3, <2>4, <2>5, <2>6, <2>7
  <1>18. ASSUME NEW w \in Writers, RecoverFile(w) PROVE PublishInv'
    <2>1. LockInv'
      BY <1>18 DEF RecoverFile, LockInv, Publishing
    <2>2. OneName'
      BY <1>18 DEF RecoverFile, OneName, Used, RequestInv, Disposable
    <2>3. RequestInv'
      BY <1>18 DEF RecoverFile, RequestInv, Disposable, Exchanged, Publishing, LockInv
    <2>4. ReplacedGone'
      BY <1>18 DEF RecoverFile, ReplacedGone, OneName, Used, RequestInv, Exchanged
    <2>5. SavedVersionKept'
      BY <1>18 DEF RecoverFile, SavedVersionKept, Saved, Reachable, RequestInv, Disposable, Exchanged
    <2>6. OneWinner'
      BY <1>18 DEF RecoverFile, OneWinner, ReplacedGone, RequestInv
    <2>7. NothingTorn'
      BY <1>18 DEF RecoverFile, NothingTorn, RequestInv, Exchanged
    <2> QED BY <2>1, <2>2, <2>3, <2>4, <2>5, <2>6, <2>7
  <1>19. CASE Recovered
    <2>1. LockInv'
      BY <1>19 DEF Recovered, file, LockInv, Publishing
    <2>2. OneName'
      BY <1>19 DEF Recovered, file, OneName, Used, RequestInv, Disposable
    <2>3. RequestInv'
      BY <1>19 DEF Recovered, file, RequestInv, Disposable, Exchanged, Publishing, LockInv
    <2>4. ReplacedGone'
      BY <1>19 DEF Recovered, file, ReplacedGone, OneName, Used, RequestInv, Exchanged
    <2>5. SavedVersionKept'
      BY <1>19 DEF Recovered, file, SavedVersionKept, Saved, Reachable, RequestInv, Disposable, Exchanged
    <2>6. OneWinner'
      BY <1>19 DEF Recovered, file, OneWinner, ReplacedGone, RequestInv
    <2>7. NothingTorn'
      BY <1>19 DEF Recovered, file, NothingTorn, RequestInv, Exchanged
    <2> QED BY <2>1, <2>2, <2>3, <2>4, <2>5, <2>6, <2>7
  <1>20. CASE MoveAway
    <2>1. LockInv'
      BY <1>20 DEF MoveAway, LockInv, Publishing
    <2>2. OneName'
      BY <1>20 DEF MoveAway, OneName, Used, RequestInv, Disposable
    <2>3. RequestInv'
      BY <1>20 DEF MoveAway, RequestInv, Disposable, Exchanged, Publishing, LockInv
    <2>4. ReplacedGone'
      BY <1>20 DEF MoveAway, ReplacedGone, OneName, Used, RequestInv, Exchanged
    <2>5. SavedVersionKept'
      BY <1>20 DEF MoveAway, SavedVersionKept, Saved, Reachable, RequestInv, Disposable, Exchanged
    <2>6. OneWinner'
      BY <1>20 DEF MoveAway, OneWinner, ReplacedGone, RequestInv
    <2>7. NothingTorn'
      BY <1>20 DEF MoveAway, NothingTorn, RequestInv, Exchanged
    <2> QED BY <2>1, <2>2, <2>3, <2>4, <2>5, <2>6, <2>7
  <1>21. ASSUME NEW v \in Outsiders \cup {None}, Outside(v) PROVE PublishInv'
    <2>1. LockInv'
      BY <1>21 DEF Outside, LockInv, Publishing
    <2>2. OneName'
      BY <1>21 DEF Outside, OneName, Used, RequestInv, Disposable
    <2>3. RequestInv'
      BY <1>21 DEF Outside, RequestInv, Disposable, Exchanged, Publishing, LockInv
    <2>4. ReplacedGone'
      BY <1>21 DEF Outside, ReplacedGone, OneName, Used, RequestInv, Exchanged
    <2>5. SavedVersionKept'
      BY <1>21 DEF Outside, SavedVersionKept, Saved, Reachable, RequestInv, Disposable, Exchanged
    <2>6. OneWinner'
      BY <1>21 DEF Outside, OneWinner, ReplacedGone, RequestInv
    <2>7. NothingTorn'
      BY <1>21 DEF Outside, NothingTorn, RequestInv, Exchanged
    <2> QED BY <2>1, <2>2, <2>3, <2>4, <2>5, <2>6, <2>7
  <1>22. CASE UNCHANGED vars
    BY <1>22 DEF vars, LockInv, OneName, Used, RequestInv, Disposable, ReplacedGone,
       SavedVersionKept, Saved, Reachable, OneWinner, NothingTorn
  <1> QED BY <1>1, <1>2, <1>3, <1>4, <1>5, <1>6, <1>7, <1>8, <1>9, <1>10, <1>11, <1>12, <1>13, <1>14, <1>15, <1>16, <1>17, <1>18, <1>19, <1>20, <1>21, <1>22
    DEF Next, Step

\* At first there is one version and no request.
LEMMA PublishInit == Init => TypeOK /\ PublishInv
  BY VersionsAssumption, FaultsAssumption
  DEF Init, TypeOK, Entries, Versions, Labels, PublishInv, LockInv, Publishing, OneName, Used,
      RequestInv, Exchanged, Disposable, ReplacedGone, SavedVersionKept, Saved, Reachable,
      OneWinner, NothingTorn

\* The types and the inductive invariant hold in every reachable state.
LEMMA PublishAlways == Spec => [](TypeOK /\ PublishInv)
  <1>1. TypeOK /\ PublishInv /\ [Next]_vars => (TypeOK /\ PublishInv)'
    BY WriteTypeNext, PublishNext
  <1> QED BY <1>1, PublishInit, PTL DEF Spec

\* A saved version is never lost: it is under the file's name or kept in staging
\* until a request that named it succeeds or someone takes it away.
THEOREM SavedNeverLost == Spec => []SavedVersionKept
  <1>1. PublishInv => SavedVersionKept
    BY DEF PublishInv
  <1> QED BY <1>1, PublishAlways, PTL

\* Of any number of saves from one version, one at most succeeds.
THEOREM NoLostUpdate == Spec => []OneWinner
  <1>1. PublishInv => OneWinner
    BY DEF PublishInv
  <1> QED BY <1>1, PublishAlways, PTL

\* Readers, and operators who look into staging, only ever find complete content.
THEOREM NeverTorn == Spec => []NothingTorn
  <1>1. PublishInv => NothingTorn
    BY DEF PublishInv
  <1> QED BY <1>1, PublishAlways, PTL

-----------------------------------------------------------------------------
(* PendingWrite implements FileRegister.                                    *)

Outcomes == [w \in Writers |-> Outcome(w)]
Same == UNCHANGED <<Value, expected, Outcomes>>

\* What a request is seen to be at each of its calls.
LEMMA OutcomeIs ==
  ASSUME TypeOK, RequestInv, NEW w \in Writers
  PROVE  /\ pc[w] = "idle" => Outcome(w) = "idle"
         /\ pc[w] \in {"write", "wait"} \cup Publishing => Outcome(w) = "open"
         /\ pc[w] = "drop" => Outcome(w) = "failed"
         /\ pc[w] = "done" => Outcome(w) = IF result[w] = "none" THEN "failed" ELSE result[w]
  <1>1. pc[w] # "done" => result[w] = "none" BY DEF RequestInv
  <1>2. pc[w] \in Labels /\ result[w] \in {"none", "ok", "refused", "retained"} BY DEF TypeOK
  <1> QED BY <1>1, <1>2 DEF Outcome, Publishing, Labels

\* The same after a step.
LEMMA OutcomeIsNext ==
  ASSUME TypeOK', RequestInv', NEW w \in Writers
  PROVE  /\ pc'[w] = "idle" => Outcome(w)' = "idle"
         /\ pc'[w] \in {"write", "wait"} \cup Publishing => Outcome(w)' = "open"
         /\ pc'[w] = "drop" => Outcome(w)' = "failed"
         /\ pc'[w] = "done" => Outcome(w)' = IF result'[w] = "none" THEN "failed" ELSE result'[w]
  <1>1. pc'[w] # "done" => result'[w] = "none" BY DEF RequestInv
  <1>2. pc'[w] \in Labels /\ result'[w] \in {"none", "ok", "refused", "retained"} BY DEF TypeOK
  <1> QED BY <1>1, <1>2 DEF Outcome, Publishing, Labels

\* One request moves: what the register sees of it.
LEMMA OneMoves ==
  ASSUME NEW w \in Writers, \A x \in Writers : x # w => pc'[x] = pc[x] /\ result'[x] = result[x]
  PROVE  \A what : Outcome(w)' = what => Outcomes' = [Outcomes EXCEPT ![w] = what]
  <1>1. \A x \in Writers : x # w => Outcome(x)' = Outcome(x) BY DEF Outcome
  <1> QED BY <1>1 DEF Outcomes

\* The steps of the register that one request can be.
LEMMA KindsOfMoves ==
  ASSUME NEW w \in Writers, \A x \in Writers : x # w => pc'[x] = pc[x] /\ result'[x] = result[x], expected' = expected
  PROVE  /\ Value' = Value /\ Outcome(w)' = Outcome(w) => Same
         /\ Value' = Value /\ Outcome(w) = "open" /\ Outcome(w)' = "failed" => Register!Next
         /\ Value' = Value /\ Outcome(w) = "failed" /\ Outcome(w)' = "refused" => Register!Next
         /\ /\ Outcome(w) = "open" /\ Outcome(w)' \in {"failed", "retained"}
            /\ Disposable(w, Value')
            => Register!Next
         /\ /\ Outcome(w) = "open" /\ Outcome(w)' = "ok" /\ Value = expected[w]
            /\ Disposable(w, Value')
            => Register!Next
  <1>1. \A what : Outcome(w)' = what => Outcomes' = [Outcomes EXCEPT ![w] = what] BY OneMoves
  <1>2. Outcomes[w] = Outcome(w) BY DEF Outcomes
  <1>3. Outcomes = [Outcomes EXCEPT ![w] = Outcomes[w]] BY DEF Outcomes
  <1>4. Value' = Value /\ Outcome(w)' = Outcome(w) => Same BY <1>1, <1>2, <1>3 DEF Same
  <1>5. Value' = Value /\ Outcome(w) = "open" /\ Outcome(w)' = "failed" => Register!Fail(w)
    BY <1>1, <1>2 DEF Register!Fail, Register!Becomes, Outcomes
  <1>6. Value' = Value /\ Outcome(w) = "failed" /\ Outcome(w)' = "refused" => Register!Refuse(w)
    BY <1>1, <1>2 DEF Register!Refuse, Register!Becomes, Outcomes
  <1>7. /\ Outcome(w) = "open" /\ Outcome(w)' \in {"failed", "retained"}
        /\ Disposable(w, Value')
        => Register!Leave(w)
    BY <1>1, <1>2 DEF Register!Leave, Register!Becomes, Register!Strange, Outcomes, Disposable
  <1>8. /\ Outcome(w) = "open" /\ Outcome(w)' = "ok" /\ Value = expected[w]
        /\ Disposable(w, Value')
        => Register!Save(w)
    BY <1>1, <1>2 DEF Register!Save, Register!Becomes, Register!Strange, Outcomes, Disposable
  <1> QED BY <1>4, <1>5, <1>6, <1>7, <1>8 DEF Register!Next

\* Each call of a request is a step of the register, or none.
LEMMA CallMoves ==
  ASSUME TypeOK, TypeOK', PublishInv, PublishInv', NEW w \in Writers, Step(w) \/ Cancel(w)
  PROVE  Register!Next \/ Same
  <1> USE VersionsAssumption
  <1>1. LockInv /\ LockInv' /\ RequestInv /\ RequestInv' BY DEF PublishInv
  <1>2. /\ pc \in [Writers -> Labels] /\ staged \in [Writers -> Entries] /\ lock \in Writers \cup {None}
        /\ result \in [Writers -> {"none", "ok", "refused", "retained"}] /\ None \notin Writers
    BY DEF TypeOK, Versions
  <1>3. /\ pc[w] \in {"write", "wait"} \cup Publishing => Outcome(w) = "open"
        /\ pc[w] = "drop" => Outcome(w) = "failed"
    BY <1>1, OutcomeIs
  <1>4. /\ pc'[w] \in {"write", "wait"} \cup Publishing => Outcome(w)' = "open"
        /\ pc'[w] = "drop" => Outcome(w)' = "failed"
        /\ pc'[w] = "done" => Outcome(w)' = IF result'[w] = "none" THEN "failed" ELSE result'[w]
    BY <1>1, OutcomeIsNext
  <1>5. expected' = expected /\ \A x \in Writers : x # w => pc'[x] = pc[x] /\ result'[x] = result[x]
    BY <1>2 DEF Step, Cancel, Write, Lock, Refused, PublishNew, ValidateNew, RemoveNew, Check, Keep, Exchange, Validate,
       RemoveOld, Rollback, Drop, Goto, Continue, Answer
  <1>6. /\ Value' = Value /\ Outcome(w)' = Outcome(w) => Same
        /\ Value' = Value /\ Outcome(w) = "open" /\ Outcome(w)' = "failed" => Register!Next
        /\ Value' = Value /\ Outcome(w) = "failed" /\ Outcome(w)' = "refused" => Register!Next
        /\ /\ Outcome(w) = "open" /\ Outcome(w)' \in {"failed", "retained"}
           /\ Disposable(w, Value')
           => Register!Next
        /\ /\ Outcome(w) = "open" /\ Outcome(w)' = "ok" /\ Value = expected[w]
           /\ Disposable(w, Value')
           => Register!Next
    BY <1>5, KindsOfMoves
  <1>8. CASE Write(w) \/ Cancel(w) \/ Lock(w) \/ Refused(w) \/ Keep(w) \/ Check(w)
    <2>1. /\ dest' = dest /\ pc' = [pc EXCEPT ![w] = pc'[w]] /\ staged' = staged
          /\ pc[w] \in {"write", "wait", "new", "check", "keep"}
          /\ pc'[w] \in {"wait", "drop", "new", "check", "keep", "exchange"}
          /\ lock' = lock \/ (lock = None /\ lock' = w)
      BY <1>2, <1>8 DEF Write, Cancel, Lock, Refused, Keep, Check, At, Goto, Continue
    <2>2. Value' = Value BY <1>2, <2>1 DEF Value, Tentative, Exchanged
    <2>3. Outcome(w) = "open" /\ Outcome(w)' \in {"open", "failed"} BY <1>3, <1>4, <2>1 DEF Publishing
    <2> QED BY <1>6, <2>2, <2>3
  <1>9. CASE PublishNew(w)
    <2>1. /\ pc[w] = "new" /\ lock = w /\ lock' = w /\ pc' = [pc EXCEPT ![w] = pc'[w]]
          /\ \/ dest = None /\ pc'[w] = "new_validate" /\ staged' = [staged EXCEPT ![w] = None]
             \/ pc'[w] = "drop" /\ dest' = dest
      BY <1>1, <1>2, <1>9 DEF PublishNew, At, Goto, Continue, LockInv, Publishing
    <2>2. Value' = Value BY <1>2, <2>1 DEF Value, Tentative, Exchanged
    <2>3. Outcome(w) = "open" /\ Outcome(w)' \in {"open", "failed"} BY <1>3, <1>4, <2>1 DEF Publishing
    <2> QED BY <1>6, <2>2, <2>3
  <1>10. CASE ValidateNew(w)
    <2>1. /\ pc[w] = "new_validate" /\ lock = w /\ pc' = [pc EXCEPT ![w] = pc'[w]] /\ staged' = staged /\ dest' = dest
          /\ \/ pc'[w] = "done" /\ result'[w] = "ok" /\ dest = w /\ lock' = None
             \/ pc'[w] = "new_remove" /\ lock' = w
      BY <1>1, <1>2, <1>10 DEF ValidateNew, Matches, At, Goto, Continue, Answer, LockInv, Publishing
    <2>2. staged[w] = None /\ expected[w] = None BY <1>1, <2>1 DEF RequestInv
    <2>3. Value = None /\ Outcome(w) = "open" BY <1>2, <1>3, <2>1, <2>2 DEF Value, Tentative, Publishing
    <2>4. CASE pc'[w] = "done"
      <3>1. Value' = w BY <1>2, <2>1, <2>4 DEF Value
      <3>2. Outcome(w)' = "ok" BY <1>4, <2>1, <2>4
      <3> QED BY <1>6, <2>2, <2>3, <3>1, <3>2 DEF Disposable
    <2>5. CASE pc'[w] = "new_remove"
      <3>1. Value' = None BY <1>2, <2>1, <2>2, <2>5 DEF Value, Tentative
      <3>2. Outcome(w)' = "open" BY <1>4, <2>5 DEF Publishing
      <3> QED BY <1>6, <2>3, <3>1, <3>2
    <2> QED BY <2>1, <2>4, <2>5
  <1>11. CASE RemoveNew(w)
    <2>1. /\ pc[w] = "new_remove" /\ lock = w /\ pc'[w] = "drop" /\ lock' = w
          /\ dest' = None \/ dest' = dest
      BY <1>1, <1>2, <1>11 DEF RemoveNew, At, Goto, Continue, LockInv, Publishing
    <2>2. Disposable(w, dest) BY <1>1, <2>1 DEF RequestInv
    <2>3. Value' = dest' BY <1>2, <2>1 DEF Value, Tentative, Exchanged
    <2>4. Disposable(w, Value') BY <2>1, <2>2, <2>3 DEF Disposable
    <2> QED BY <1>3, <1>4, <1>6, <2>1, <2>4 DEF Publishing
  <1>12. CASE Exchange(w)
    <2>1. /\ pc[w] = "exchange" /\ lock = w /\ lock' = w
          /\ \/ pc'[w] = "validate" /\ staged'[w] = dest
             \/ pc'[w] = "drop" /\ dest' = dest
      BY <1>1, <1>2, <1>12 DEF Exchange, Swap, At, Goto, Continue, LockInv, Publishing
    <2>2. Value' = Value BY <1>2, <2>1 DEF Value, Tentative, Exchanged
    <2> QED BY <1>3, <1>4, <1>6, <2>1, <2>2 DEF Publishing
  <1>13. CASE Validate(w)
    <2>1. /\ pc[w] = "validate" /\ lock = w /\ lock' = w /\ staged' = staged /\ pc'[w] \in {"remove_old", "rollback"}
      BY <1>1, <1>2, <1>13 DEF Validate, At, Goto, Continue, LockInv, Publishing
    <2>2. Value' = Value BY <1>2, <2>1 DEF Value, Tentative, Exchanged
    <2> QED BY <1>3, <1>4, <1>6, <2>1, <2>2 DEF Publishing
  <1>14. CASE RemoveOld(w)
    <2>1. /\ pc[w] = "remove_old" /\ lock = w /\ dest' = dest
          /\ \/ pc'[w] = "done" /\ result'[w] = "ok" /\ lock' = None
             \/ pc'[w] = "rollback" /\ lock' = w /\ staged' = staged
      BY <1>1, <1>2, <1>14 DEF RemoveOld, At, Goto, Continue, Answer, LockInv, Publishing
    <2>2. Value = expected[w] /\ Disposable(w, dest)
      BY <1>1, <1>2, <2>1 DEF Value, Tentative, Exchanged, RequestInv
    <2>3. CASE pc'[w] = "done"
      <3>1. Value' = dest BY <1>2, <2>1, <2>3 DEF Value
      <3>2. Outcome(w)' = "ok" BY <1>4, <2>1, <2>3
      <3> QED BY <1>3, <1>6, <2>1, <2>2, <3>1, <3>2 DEF Publishing
    <2>4. CASE pc'[w] = "rollback"
      <3>1. Value' = Value BY <1>2, <2>1, <2>4 DEF Value, Tentative, Exchanged
      <3> QED BY <1>3, <1>4, <1>6, <2>1, <2>4, <3>1 DEF Publishing
    <2> QED BY <2>1, <2>3, <2>4
  <1>15. CASE Rollback(w)
    <2>1. /\ pc[w] = "rollback" /\ lock = w
          /\ \/ pc'[w] = "drop" /\ lock' = w /\ dest' = staged[w]
             \/ pc'[w] = "done" /\ result'[w] = "retained" /\ lock' = None /\ dest' = dest
      BY <1>1, <1>2, <1>15 DEF Rollback, Swap, At, Goto, Continue, Answer, LockInv, Publishing
    <2>2. Value = staged[w] /\ Disposable(w, dest)
      BY <1>1, <1>2, <2>1 DEF Value, Tentative, Exchanged, RequestInv
    <2>3. CASE pc'[w] = "drop"
      <3>1. Value' = Value BY <1>2, <2>1, <2>2, <2>3 DEF Value, Tentative, Exchanged
      <3> QED BY <1>3, <1>4, <1>6, <2>1, <2>3, <3>1 DEF Publishing
    <2>4. CASE pc'[w] = "done"
      <3>1. Value' = dest BY <1>2, <2>1, <2>4 DEF Value
      <3>2. Outcome(w)' = "retained" BY <1>4, <2>1, <2>4
      <3> QED BY <1>3, <1>6, <2>1, <2>2, <3>1, <3>2 DEF Publishing
    <2> QED BY <2>1, <2>3, <2>4
  <1>16. CASE Drop(w)
    <2>1. /\ pc[w] = "drop" /\ pc'[w] = "done" /\ result'[w] = "refused" /\ dest' = dest
          /\ \A x \in Writers : x # w => pc'[x] = pc[x] /\ staged'[x] = staged[x]
          /\ IF lock = w THEN lock' = None ELSE lock' = lock
      BY <1>2, <1>16 DEF Drop, At, Goto, Answer
    <2>2. Value' = Value BY <1>2, <2>1 DEF Value, Tentative, Exchanged
    <2> QED BY <1>3, <1>4, <1>6, <2>1, <2>2
  <1> QED BY <1>8, <1>9, <1>10, <1>11, <1>12, <1>13, <1>14, <1>15, <1>16 DEF Step

\* A client that asks, and what the others and the server itself do.
LEMMA OthersMoveFile ==
  ASSUME TypeOK, TypeOK', PublishInv, PublishInv',
         \/ \E w \in Writers, old \in Entries : Begin(w, old)
         \/ Crash \/ Boot \/ (\E w \in Writers : RecoverFile(w)) \/ Recovered
         \/ MoveAway \/ \E v \in Outsiders \cup {None} : Outside(v)
  PROVE  Register!Next \/ Same
  <1> USE VersionsAssumption
  <1>1. LockInv /\ LockInv' /\ RequestInv /\ RequestInv' BY DEF PublishInv
  <1>2. /\ pc \in [Writers -> Labels] /\ staged \in [Writers -> Entries] /\ lock \in Writers \cup {None}
        /\ result \in [Writers -> {"none", "ok", "refused", "retained"}] /\ None \notin Writers
        /\ dest \in Entries
    BY DEF TypeOK, Versions
  <1>3. pc' = pc /\ result' = result => Outcomes' = Outcomes BY DEF Outcomes, Outcome
  <1>4. ASSUME NEW w \in Writers, NEW old \in Entries, Begin(w, old) PROVE Register!Next
    <2>1. /\ pc[w] = "idle" /\ pc' = [pc EXCEPT ![w] = "write"] /\ lock' = lock /\ dest' = dest
          /\ \A x \in Writers : x # w => pc'[x] = pc[x] /\ staged'[x] = staged[x] /\ result'[x] = result[x]
          /\ expected' = [expected EXCEPT ![w] = old]
      BY <1>2, <1>4 DEF Begin, At, Goto
    <2>2. pc'[w] = "write" BY <1>2, <2>1
    <2>3. Value' = Value BY <1>2, <2>1, <2>2 DEF Value, Tentative, Exchanged
    <2>4. Outcome(w) = "idle" /\ Outcome(w)' = "open" BY <1>1, <2>1, <2>2, OutcomeIs, OutcomeIsNext
    <2>5. Outcomes[w] = "idle" /\ Outcomes' = [Outcomes EXCEPT ![w] = "open"] BY <2>1, <2>4, OneMoves DEF Outcomes
    <2>6. old \in Register!Versions \cup {None} BY DEF Entries, Versions, Register!Versions
    <2>7. Register!Ask(w) BY <2>1, <2>3, <2>5, <2>6 DEF Register!Ask, Register!Becomes, Outcomes
    <2> QED BY <2>7 DEF Register!Next
  <1>5. ASSUME Crash PROVE Register!Next
    <2>1. /\ pc' = [w \in Writers |-> IF pc[w] = "idle" THEN "idle" ELSE "done"]
          /\ lock' = None /\ dest' = dest /\ expected' = expected /\ result' = result
      BY <1>5 DEF Crash, file
    <2>2. ASSUME NEW w \in Writers
          PROVE  Outcome(w)' = IF Outcome(w) = "open" THEN "failed" ELSE Outcome(w)
      <3>1. pc'[w] = (IF pc[w] = "idle" THEN "idle" ELSE "done") /\ result'[w] = result[w] BY <2>1
      <3>2. CASE pc[w] \in {"write", "wait"} \cup Publishing
        <4>1. pc[w] # "done" /\ pc[w] # "idle" BY <3>2 DEF Publishing
        <4>2. result[w] = "none" BY <1>1, <4>1 DEF RequestInv
        <4> QED BY <1>1, <3>1, <3>2, <4>1, <4>2, OutcomeIs, OutcomeIsNext
      <3>3. CASE pc[w] = "idle" BY <1>1, <3>1, <3>3, OutcomeIs, OutcomeIsNext
      <3>4. CASE pc[w] = "drop"
        <4>1. result[w] = "none" BY <1>1, <3>4 DEF RequestInv
        <4> QED BY <1>1, <3>1, <3>4, <4>1, OutcomeIs, OutcomeIsNext
      <3>5. CASE pc[w] = "done"
        <4>1. result[w] # "open" BY <1>2
        <4> QED BY <1>1, <3>1, <3>5, <4>1, OutcomeIs, OutcomeIsNext
      <3> QED BY <1>2, <3>2, <3>3, <3>4, <3>5 DEF Labels, Publishing
    <2>3. Outcomes' = [w \in Writers |-> IF Outcomes[w] = "open" THEN "failed" ELSE Outcomes[w]] BY <2>2 DEF Outcomes
    <2>4. Value' = dest BY <2>1 DEF Value
    <2>5. Value' \in {Value} \cup {w \in Writers : Outcomes[w] = "open"} \cup Register!Strange
      <3>1. CASE lock # None /\ Tentative(lock)
        <4>1. lock \in Writers /\ Disposable(lock, dest) /\ pc[lock] \in Publishing
          BY <1>1, <1>2, <3>1 DEF Tentative, RequestInv, Exchanged, Publishing
        <4>2. Outcomes[lock] = "open" BY <1>1, <4>1, OutcomeIs DEF Outcomes
        <4> QED BY <2>4, <4>1, <4>2 DEF Disposable, Register!Strange
      <3>2. CASE ~(lock # None /\ Tentative(lock)) BY <2>4, <3>2 DEF Value
      <3> QED BY <3>1, <3>2
    <2>6. Register!Crash BY <2>1, <2>3, <2>5 DEF Register!Crash, Outcomes
    <2> QED BY <2>6 DEF Register!Next
  <1>6. ASSUME Boot \/ Recovered PROVE Same
    BY <1>3, <1>6 DEF Boot, Recovered, file, Same, Value, Tentative
  <1>7. ASSUME NEW w \in Writers, RecoverFile(w) PROVE Same
    <2>1. lock = None BY <1>1, <1>7 DEF RecoverFile, LockInv
    <2> QED BY <1>3, <1>7, <2>1 DEF RecoverFile, Same, Value
  <1>8. ASSUME MoveAway PROVE Register!Next
    <2>1. Value' = None /\ Outcomes' = Outcomes /\ expected' = expected BY <1>3, <1>8 DEF MoveAway, Value
    <2>2. Register!Change BY <2>1 DEF Register!Change, Register!Strange, Outcomes
    <2> QED BY <2>2 DEF Register!Next
  <1>9. ASSUME NEW v \in Outsiders \cup {None}, Outside(v) PROVE Register!Next \/ Same
    <2>1. dest' = v /\ lock' = lock /\ staged' = staged /\ pc' = pc /\ expected' = expected /\ Outcomes' = Outcomes
      BY <1>3, <1>9 DEF Outside
    <2>2. CASE lock # None /\ Tentative(lock) BY <2>1, <2>2 DEF Same, Value, Tentative
    <2>3. CASE ~(lock # None /\ Tentative(lock))
      <3>1. Value' = v BY <2>1, <2>3 DEF Value, Tentative
      <3>2. Register!Change BY <2>1, <3>1 DEF Register!Change, Register!Strange, Outcomes
      <3> QED BY <3>2 DEF Register!Next
    <2> QED BY <2>2, <2>3
  <1> QED BY <1>4, <1>5, <1>6, <1>7, <1>8, <1>9

\* PendingWrite implements FileRegister: to the clients, whatever is interrupted and whoever
\* else changes the file, a save is one step of comparing and swapping, and no two succeed
\* from one version.
THEOREM FileIsRegister == Spec => RegisterSpec
  <1>1. Init => Register!Init
    <2> SUFFICES ASSUME Init PROVE Register!Init OBVIOUS
    <2>1. Value = First BY DEF Init, Value
    <2>2. \A w \in Writers : Outcome(w) = "idle" BY DEF Init, Outcome
    <2> QED BY <2>1, <2>2 DEF Init, Register!Init
  <1>2. TypeOK /\ TypeOK' /\ PublishInv /\ PublishInv' /\ [Next]_vars
          => [Register!Next]_<<Value, expected, [w \in Writers |-> Outcome(w)]>>
    <2> SUFFICES ASSUME TypeOK, TypeOK', PublishInv, PublishInv', [Next]_vars
                 PROVE  Register!Next \/ Same
      BY DEF Same, Outcomes
    <2>1. CASE \E w \in Writers : Step(w) \/ Cancel(w) BY <2>1, CallMoves
    <2>2. CASE UNCHANGED vars BY <2>2 DEF vars, Same, Value, Tentative, Outcomes, Outcome
    <2>3. CASE ~\E w \in Writers : Step(w) \/ Cancel(w) BY <2>2, <2>3, OthersMoveFile DEF Next
    <2> QED BY <2>1, <2>3
  <1> QED BY <1>1, <1>2, PublishAlways, NoLostUpdate, PTL DEF Spec, RegisterSpec, Register!Spec

-----------------------------------------------------------------------------
(* TrashSweep                                                                *)

\* The inductive invariant.  Listed is what the recovery of Trash leaves and every
\* operation keeps; TodoKnown that a batch's item is in Trash or wholly gone, should its
\* name have been read twice; LeftToDo that a batch that read everything left nothing out.
Listed == \A i \in Items :
    IF i \in InTrash THEN \E p \in 1 .. Positions : dir[p] = <<"sidecar", i>> ELSE Places(i) = {}
TodoKnown == \A n \in DOMAIN todo :
    todo[n] \in InTrash \/ (state[todo[n]] = "gone" /\ left[todo[n]] = 0)
StuckStay == \A i \in Stuck : state[i] # "gone"
LeftToDo == walk = "empty" /\ whole /\ handled =>
    \A i \in InTrash : i \in passed \/ \E n \in DOMAIN todo : todo[n] = i
SweepInv == SweepTypeOK /\ Listed /\ TodoKnown /\ StuckStay /\ (walk = "none" => todo = <<>>) /\ LeftToDo

-----------------------------------------------------------------------------
(* Positions in order                                                        *)

\* The positions of a directory are finite in number, and so are those of a part of it.
LEMMA PositionsFinite ==
  ASSUME NEW S \in SUBSET (1 .. Positions)
  PROVE  IsFiniteSet(S) /\ Cardinality(S) \in Nat
  <1>1. IsFiniteSet(1 .. Positions)
    BY SweepAssumption, FS_Interval
  <1> QED BY <1>1, FS_Subset, FS_CardinalityType

\* Each position of a set has a rank of its own, and each rank a position.
LEMMA RankIs ==
  ASSUME NEW S \in SUBSET (1 .. Positions)
  PROVE  /\ \A p \in S : Rank(S, p) \in 1 .. Cardinality(S)
         /\ \A p, q \in S : Rank(S, p) = Rank(S, q) => p = q
         /\ \A n \in 1 .. Cardinality(S) : \E p \in S : Rank(S, p) = n
  <1> DEFINE n == Cardinality(S)
             UpTo(p) == {q \in S : q <= p}
             rank == [p \in S |-> Cardinality(UpTo(p))]
  <1>1. n \in Nat /\ IsFiniteSet(S) /\ IsFiniteSet(1 .. n) /\ Cardinality(1 .. n) = n
    BY PositionsFinite, FS_Interval
  <1>2. \A p \in S : UpTo(p) \in SUBSET S /\ p \in UpTo(p) /\ IsFiniteSet(UpTo(p))
                     /\ Cardinality(UpTo(p)) \in Nat /\ Cardinality(UpTo(p)) <= n /\ Cardinality(UpTo(p)) # 0
    <2> TAKE p \in S
    <2> DEFINE U == UpTo(p)
    <2>1. U \in SUBSET S /\ p \in U
      BY SweepAssumption
    <2> HIDE DEF U
    <2>2. IsFiniteSet(U) /\ Cardinality(U) <= Cardinality(S)
      BY <1>1, <2>1, FS_Subset
    <2>3. Cardinality(U) \in Nat /\ Cardinality(U) # 0
      BY <2>1, <2>2, FS_CardinalityType, FS_EmptySet
    <2> QED BY <2>1, <2>2, <2>3 DEF U
  <1>3. \A p, q \in S : p < q => Cardinality(UpTo(p)) < Cardinality(UpTo(q))
    <2> SUFFICES ASSUME NEW p \in S, NEW q \in S, p < q
                 PROVE  Cardinality(UpTo(p)) < Cardinality(UpTo(q))
      OBVIOUS
    <2>0. p \in Int /\ q \in Int /\ \A x \in S : x \in Int
      OBVIOUS
    <2>a. \A x \in S : x <= p => x <= q
      BY <2>0
    <2>b. q <= q /\ ~(q <= p)
      BY <2>0
    <2>1. UpTo(p) \in SUBSET UpTo(q) /\ q \in UpTo(q) /\ q \notin UpTo(p)
      BY <2>a, <2>b
    <2> HIDE DEF UpTo, n
    <2>2. IsFiniteSet(UpTo(q)) /\ Cardinality(UpTo(p)) \in Nat /\ Cardinality(UpTo(q)) \in Nat
      BY <1>2
    <2>3. Cardinality(UpTo(p)) <= Cardinality(UpTo(q))
          /\ (Cardinality(UpTo(q)) = Cardinality(UpTo(p)) => UpTo(q) = UpTo(p))
      BY <2>1, <2>2, FS_Subset
    <2> QED BY <2>1, <2>2, <2>3
  <1>4. \A p \in S : rank[p] = Cardinality(UpTo(p)) /\ rank[p] = Rank(S, p)
    BY DEF Rank
  <1> HIDE DEF UpTo
  <1>5. rank \in [S -> 1 .. n] /\ \A p, q \in S : p # q => rank[p] # rank[q]
    <2>1. \A p \in S : Cardinality(UpTo(p)) \in 1 .. n
      BY <1>1, <1>2
    <2>2. ASSUME NEW p \in S, NEW q \in S, p # q PROVE rank[p] # rank[q]
      <3>1. Cardinality(UpTo(p)) \in Nat /\ Cardinality(UpTo(q)) \in Nat
        BY <1>2
      <3>2. p < q \/ q < p
        BY <2>2, SweepAssumption
      <3>3. Cardinality(UpTo(p)) # Cardinality(UpTo(q))
        BY <1>3, <3>1, <3>2
      <3> QED BY <1>4, <3>3
    <2>3. rank \in [S -> 1 .. n]
      BY <1>4, <2>1
    <2> QED BY <2>2, <2>3
  <1> HIDE DEF rank, n
  <1>6. \A i \in 1 .. n : \E p \in S : rank[p] = i
    <2>1. rank \in Injection(S, 1 .. n)
      BY <1>5 DEF Injection, IsInjective
    <2>2. rank \in Surjection(S, 1 .. n)
      BY <1>1, <2>1, FS_Injection DEF n
    <2> QED BY <2>2 DEF Surjection
  <1> QED BY <1>4, <1>5, <1>6 DEF n

\* The items that are read at some positions are the items of their names, all of them.
LEMMA ItemsRead ==
  ASSUME SweepTypeOK, NEW S \in SUBSET (1 .. Positions), \A p \in S : dir[p] # Free
  PROVE  /\ ItemsAt(S) \in Seq(Items)
         /\ \A n \in DOMAIN ItemsAt(S) : \E p \in S : ItemsAt(S)[n] = dir[p][2]
         /\ \A p \in S : \E n \in DOMAIN ItemsAt(S) : ItemsAt(S)[n] = dir[p][2]
  <1>1. Cardinality(S) \in Nat
    BY PositionsFinite
  <1>2. \A p \in S : dir[p][2] \in Items
    BY DEF SweepTypeOK, Names
  <1>3. \A n \in 1 .. Cardinality(S) : \E p \in S : Rank(S, p) = n
    BY RankIs
  <1>4. \A n \in 1 .. Cardinality(S) : (CHOOSE p \in S : Rank(S, p) = n) \in S
    BY <1>3
  <1>5. \A p \in S : Rank(S, p) \in 1 .. Cardinality(S) /\ p = CHOOSE q \in S : Rank(S, q) = Rank(S, p)
    BY RankIs
  <1>6. ItemsAt(S) \in [1 .. Cardinality(S) -> Items]
    BY <1>2, <1>4 DEF ItemsAt
  <1>7. DOMAIN ItemsAt(S) = 1 .. Cardinality(S)
    BY DEF ItemsAt
  <1>8. \A n \in 1 .. Cardinality(S) : \E p \in S : ItemsAt(S)[n] = dir[p][2]
    BY <1>4 DEF ItemsAt
  <1>9. \A p \in S : \E n \in 1 .. Cardinality(S) : ItemsAt(S)[n] = dir[p][2]
    <2> TAKE p \in S
    <2>1. Rank(S, p) \in 1 .. Cardinality(S) /\ p = CHOOSE q \in S : Rank(S, q) = Rank(S, p)
      BY <1>5
    <2>2. ItemsAt(S)[Rank(S, p)] = dir[CHOOSE q \in S : Rank(S, q) = Rank(S, p)][2]
      BY <2>1 DEF ItemsAt
    <2> QED BY <2>1, <2>2
  <1>10. ItemsAt(S) \in Seq(Items)
    BY <1>1, <1>6
  <1> QED BY <1>7, <1>8, <1>9, <1>10

\* A batch that takes its next item.
LEMMA TakesOne ==
  ASSUME NEW t \in Seq(Items), t # <<>>
  PROVE  /\ Head(t) \in Items /\ Tail(t) \in Seq(Items)
         /\ 1 \in DOMAIN t /\ Head(t) = t[1]
         /\ \A n \in DOMAIN Tail(t) : n + 1 \in DOMAIN t /\ Tail(t)[n] = t[n + 1]
         /\ \A n \in DOMAIN t : t[n] = Head(t) \/ (n - 1 \in DOMAIN Tail(t) /\ Tail(t)[n - 1] = t[n])
  <1>1. Len(t) \in Nat /\ Len(t) > 0 /\ DOMAIN t = 1 .. Len(t)
    OBVIOUS
  <1>2. Len(Tail(t)) = Len(t) - 1 /\ Tail(t) \in Seq(Items) /\ DOMAIN Tail(t) = 1 .. Len(t) - 1
    OBVIOUS
  <1>3. \A n \in 1 .. Len(t) - 1 : Tail(t)[n] = t[n + 1]
    OBVIOUS
  <1> QED BY <1>1, <1>2, <1>3

-----------------------------------------------------------------------------
(* The steps of the walks                                                    *)

\* A purge empties an item that is in Trash, or marks it.
LEMMA PurgeKeeps ==
  ASSUME SweepInv, todo # <<>>, removed < Batch, NEW i \in Items, i = todo[1], i \notin Stuck, Purge(i)
  PROVE  /\ dir' \in [1 .. Positions -> Names \cup {Free}]
         /\ state' \in [Items -> {"new", "pending", "live", "purging", "gone"}]
         /\ left' \in [Items -> Nat] /\ removed' \in 0 .. Batch
         /\ \A j \in Items \ {i} : state'[j] = state[j] /\ left'[j] = left[j]
         /\ (state'[i] = "gone" /\ left'[i] = 0) \/ state'[i] = "purging"
         /\ Listed' /\ StuckStay'
  <1>1. /\ dir \in [1 .. Positions -> Names \cup {Free}]
        /\ state \in [Items -> {"new", "pending", "live", "purging", "gone"}]
        /\ left \in [Items -> Nat] /\ removed \in 0 .. Batch /\ Batch \in Nat /\ left[i] \in Nat
    BY SweepAssumption DEF SweepInv, SweepTypeOK
  <1>2. i \in InTrash \/ left[i] = 0
    <2>1. 1 \in DOMAIN todo
      BY TakesOne DEF SweepInv, SweepTypeOK
    <2> QED BY <2>1 DEF SweepInv, TodoKnown
  <1>3. Free \notin Names
    BY SweepAssumption DEF Names
  <1>4. CASE left[i] < Batch - removed
    <2>1. /\ dir' = Without(i) /\ state' = [state EXCEPT ![i] = "gone"]
          /\ left' = [left EXCEPT ![i] = 0] /\ removed' = removed + left[i] + 1
      BY <1>4 DEF Purge
    <2>2. \A p \in 1 .. Positions : dir'[p] = IF dir[p] # Free /\ dir[p][2] = i THEN Free ELSE dir[p]
      BY <2>1 DEF Without, Places
    <2>3. dir' \in [1 .. Positions -> Names \cup {Free}]
      BY <1>1, <2>1 DEF Without
    <2>4. ASSUME NEW j \in Items
          PROVE  IF j \in InTrash' THEN \E p \in 1 .. Positions : dir'[p] = <<"sidecar", j>> ELSE Places(j)' = {}
      <3>1. CASE j = i
        BY <1>1, <2>1, <2>2, <3>1 DEF InTrash, Places
      <3>2. CASE j # i
        <4>1. state'[j] = state[j]
          BY <1>1, <2>1, <3>2
        <4>2. CASE j \in InTrash
          <5>1. PICK p \in 1 .. Positions : dir[p] = <<"sidecar", j>>
            BY <4>2 DEF SweepInv, Listed
          <5>2. dir'[p] = <<"sidecar", j>>
            BY <2>2, <3>2, <5>1
          <5> QED BY <4>1, <4>2, <5>2 DEF InTrash
        <4>3. CASE j \notin InTrash
          <5>1. Places(j) = {}
            BY <4>3 DEF SweepInv, Listed
          <5>2. Places(j)' = {}
            BY <2>2, <5>1 DEF Places
          <5> QED BY <4>1, <4>3, <5>2 DEF InTrash
        <4> QED BY <4>2, <4>3
      <3> QED BY <3>1, <3>2
    <2>5. Listed'
      BY <2>4 DEF Listed
    <2>6. StuckStay'
      BY <1>1, <2>1, SweepAssumption DEF SweepInv, StuckStay
    <2> QED BY <1>1, <1>4, <2>1, <2>3, <2>5, <2>6
  <1>5. CASE ~(left[i] < Batch - removed)
    <2>1. /\ dir' = dir /\ state' = [state EXCEPT ![i] = "purging"]
          /\ left' = [left EXCEPT ![i] = @ - (Batch - removed)] /\ removed' = Batch
      BY <1>5 DEF Purge
    <2>2. i \in InTrash
      BY <1>1, <1>2, <1>5
    <2>3. Listed' /\ StuckStay'
      BY ZenonT(60), <1>1, <2>1, <2>2, SweepAssumption DEF SweepInv, Listed, StuckStay, InTrash, Places
    <2> QED BY <1>1, <1>5, <2>1, <2>3
  <1> QED BY <1>4, <1>5

\* A purge that fails leaves its item in Trash, marked.
LEMMA PurgeFailsKeeps ==
  ASSUME SweepInv, todo # <<>>, NEW i \in Items, i = todo[1], i \in Stuck, PurgeFails(i)
  PROVE  /\ i \in InTrash
         /\ dir' = dir /\ left' = left /\ removed' = removed
         /\ state' \in [Items -> {"new", "pending", "live", "purging", "gone"}]
         /\ \A j \in Items \ {i} : state'[j] = state[j]
         /\ state'[i] = "purging"
         /\ Listed' /\ StuckStay'
  <1>1. /\ state \in [Items -> {"new", "pending", "live", "purging", "gone"}]
        /\ dir' = dir /\ left' = left /\ removed' = removed /\ state' = [state EXCEPT ![i] = "purging"]
    BY DEF SweepInv, SweepTypeOK, PurgeFails
  <1>2. i \in InTrash
    <2>1. 1 \in DOMAIN todo
      BY TakesOne DEF SweepInv, SweepTypeOK
    <2> QED BY <2>1 DEF SweepInv, TodoKnown, StuckStay
  <1>3. InTrash' = InTrash
    BY <1>1, <1>2 DEF InTrash
  <1>4. Listed'
    BY <1>1, <1>3 DEF SweepInv, Listed, Places
  <1>5. StuckStay'
    BY <1>1, SweepAssumption DEF SweepInv, StuckStay
  <1> QED BY <1>1, <1>2, <1>4, <1>5

\* Whatever becomes of a batch's first item, the others are as they were known to be.
LEMMA OthersKnown ==
  ASSUME SweepInv, todo # <<>>, NEW i \in Items, i = todo[1], todo' = Tail(todo) \/ todo' = <<>>,
         \A j \in Items \ {i} : state'[j] = state[j] /\ left'[j] = left[j],
         \/ (state'[i] = "gone" /\ left'[i] = 0) \/ state'[i] = "purging"
         \/ state'[i] = state[i] /\ left'[i] = left[i]
  PROVE  TodoKnown' /\ todo' \in Seq(Items)
  <1>1. todo \in Seq(Items)
    BY DEF SweepInv, SweepTypeOK
  <1>2. todo' \in Seq(Items) /\ \A n \in DOMAIN todo' : n + 1 \in DOMAIN todo /\ todo'[n] = todo[n + 1]
    <2>1. CASE todo' = Tail(todo)
      BY <1>1, <2>1, TakesOne
    <2>2. CASE todo' = <<>>
      BY <2>2
    <2> QED BY <2>1, <2>2
  <1>3. \A n \in DOMAIN todo' : todo'[n] \in Items
    BY <1>2
  <1>4. \A n \in DOMAIN todo' : todo'[n] \in InTrash \/ (state[todo'[n]] = "gone" /\ left[todo'[n]] = 0)
    BY <1>2 DEF SweepInv, TodoKnown
  <1>5. \A j \in Items : j \in InTrash \/ (state[j] = "gone" /\ left[j] = 0)
           => j \in InTrash' \/ (state'[j] = "gone" /\ left'[j] = 0)
    BY DEF InTrash
  <1> QED BY <1>2, <1>3, <1>4, <1>5 DEF TodoKnown

\* A batch that reads a part of the directory knows of the items that it read.
LEMMA ReadKnown ==
  ASSUME SweepInv, NEW S \in SUBSET (1 .. Positions), \A p \in S : dir[p] # Free,
         todo' = ItemsAt(S), state' = state, left' = left
  PROVE  TodoKnown' /\ todo' \in Seq(Items)
  <1>1. /\ todo' \in Seq(Items)
        /\ \A n \in DOMAIN todo' : \E p \in S : todo'[n] = dir[p][2]
    BY ItemsRead DEF SweepInv
  <1>2. \A p \in S : dir[p][2] \in Items /\ p \in Places(dir[p][2])
    BY DEF SweepInv, SweepTypeOK, Names, Places
  <1>3. \A p \in S : dir[p][2] \in InTrash
    BY <1>2 DEF SweepInv, Listed
  <1>4. InTrash' = InTrash
    BY DEF InTrash
  <1> QED BY <1>1, <1>3, <1>4 DEF TodoKnown

\* The collection reads its next names.
LEMMA GcReadKeeps == ASSUME SweepInv, GcRead PROVE SweepInv'
  <1>1. PICK names : /\ names = Earliest(After(cookie), Batch)
                     /\ todo' = ItemsAt(Sidecars(names, {}))
                     /\ cookie' = IF Cardinality(names) < Batch THEN 0
                                  ELSE CHOOSE p \in names : Rank(names, p) = Batch
    BY DEF GcRead
  <1>2. walk' = "gc" /\ removed' = 0 /\ UNCHANGED <<dir, state, left, expired, asked, passed, whole, handled>>
    BY DEF GcRead, client, empty
  <1>3. names \in SUBSET (1 .. Positions) /\ \A p \in names : dir[p] # Free
    BY <1>1 DEF Earliest, After
  <1>4. TodoKnown' /\ todo' \in Seq(Items)
    <2> DEFINE S == Sidecars(names, {})
    <2>1. S \in SUBSET (1 .. Positions) /\ \A p \in S : dir[p] # Free
      BY <1>3 DEF Sidecars
    <2>2. todo' = ItemsAt(S) /\ state' = state /\ left' = left
      BY <1>1, <1>2
    <2> HIDE DEF S
    <2> QED BY <2>1, <2>2, ReadKnown
  <1>5. cookie' \in 0 .. Positions
    <2>1. CASE Cardinality(names) < Batch
      BY <1>1, <2>1, SweepAssumption
    <2>2. CASE ~(Cardinality(names) < Batch)
      <3>1. Batch \in 1 .. Cardinality(names)
        BY <1>3, <2>2, PositionsFinite, SweepAssumption
      <3>2. \E p \in names : Rank(names, p) = Batch
        BY <1>3, <3>1, RankIs
      <3>3. cookie' \in names
        BY <1>1, <2>2, <3>2
      <3> QED BY <1>3, <3>3, SweepAssumption
    <2> QED BY <2>1, <2>2
  <1>6. removed' \in 0 .. Batch
    BY <1>2, SweepAssumption
  <1>7. SweepTypeOK'
    BY <1>2, <1>4, <1>5, <1>6 DEF SweepInv, SweepTypeOK
  <1>8. Listed' /\ StuckStay'
    BY <1>2 DEF SweepInv, Listed, StuckStay, InTrash, Places
  <1> QED BY <1>2, <1>4, <1>7, <1>8 DEF SweepInv, LeftToDo

\* An item of the collection is purged, marked or left for another time.
LEMMA GcItemKeeps == ASSUME SweepInv, GcItem PROVE SweepInv'
  <1> DEFINE i == todo[1]
  <1>1. /\ walk = "gc" /\ todo # <<>> /\ removed < Batch /\ todo' = Tail(todo)
        /\ UNCHANGED <<walk, cookie, expired, asked, passed, whole, handled>>
    BY DEF GcItem, client, empty
  <1>2. todo \in Seq(Items) /\ i \in Items /\ i = Head(todo)
    BY <1>1, TakesOne DEF SweepInv, SweepTypeOK
  <1>3. \/ i \in Stuck /\ PurgeFails(i)
        \/ i \notin Stuck /\ Purge(i)
        \/ UNCHANGED <<dir, state, left, removed>>
    BY <1>2 DEF GcItem, Skip
  <1> HIDE DEF i
  <1>4. /\ dir' \in [1 .. Positions -> Names \cup {Free}]
        /\ state' \in [Items -> {"new", "pending", "live", "purging", "gone"}]
        /\ left' \in [Items -> Nat] /\ removed' \in 0 .. Batch
        /\ \A j \in Items \ {i} : state'[j] = state[j] /\ left'[j] = left[j]
        /\ \/ state'[i] = "gone" /\ left'[i] = 0
           \/ state'[i] = "purging"
           \/ state'[i] = state[i] /\ left'[i] = left[i]
        /\ Listed' /\ StuckStay'
    <2>1. CASE i \in Stuck /\ PurgeFails(i)
      BY <1>1, <1>2, <2>1, PurgeFailsKeeps DEF SweepInv, SweepTypeOK, i
    <2>2. CASE i \notin Stuck /\ Purge(i)
      BY <1>1, <1>2, <2>2, PurgeKeeps DEF i
    <2>3. CASE UNCHANGED <<dir, state, left, removed>>
      BY <2>3 DEF SweepInv, SweepTypeOK, Listed, StuckStay, InTrash, Places
    <2> QED BY <1>3, <2>1, <2>2, <2>3
  <1>5. TodoKnown' /\ todo' \in Seq(Items)
    BY <1>1, <1>2, <1>4, OthersKnown DEF i
  <1>6. SweepTypeOK'
    BY <1>1, <1>4, <1>5 DEF SweepInv, SweepTypeOK
  <1> QED BY <1>1, <1>4, <1>5, <1>6 DEF SweepInv, LeftToDo

\* A batch of Empty Trash that read to the end has every item before it that was not passed over.
LEMMA EmptyReadKeeps == ASSUME SweepInv, EmptyRead PROVE SweepInv'
  <1>1. PICK names : /\ names = Scanned(passed)
                     /\ IF Cardinality(names) > MaxScan
                        THEN asked' = FALSE /\ UNCHANGED <<walk, todo, removed, whole, handled>>
                        ELSE /\ todo' = ItemsAt(Sidecars(names, passed))
                             /\ whole' = (names = After(0)) /\ handled' = TRUE
                             /\ walk' = "empty" /\ removed' = 0 /\ UNCHANGED asked
    BY DEF EmptyRead, EmptyReadExcept
  <1>2. walk = "none" /\ UNCHANGED <<dir, state, expired, left, cookie, passed>>
    BY DEF EmptyRead, EmptyReadExcept
  <1>3. Listed' /\ StuckStay' /\ InTrash' = InTrash
    BY <1>2 DEF SweepInv, Listed, StuckStay, InTrash, Places
  <1>4. CASE Cardinality(names) > MaxScan
    <2>1. asked' = FALSE /\ UNCHANGED <<walk, todo, removed, whole, handled>>
      BY <1>1, <1>4
    <2>2. SweepTypeOK'
      BY <1>2, <2>1 DEF SweepInv, SweepTypeOK
    <2> QED BY <1>2, <1>3, <2>1, <2>2 DEF SweepInv, TodoKnown, LeftToDo
  <1>5. CASE ~(Cardinality(names) > MaxScan)
    <2> DEFINE S == Sidecars(names, passed)
    <2>1. /\ todo' = ItemsAt(S) /\ whole' = (names = After(0)) /\ handled' = TRUE
          /\ walk' = "empty" /\ removed' = 0 /\ UNCHANGED asked
      BY <1>1, <1>5
    <2>2. names \in SUBSET (1 .. Positions) /\ \A p \in names : dir[p] # Free
      BY <1>1 DEF Scanned, After
    <2>3. S \in SUBSET (1 .. Positions) /\ \A p \in S : dir[p] # Free
      BY <2>2 DEF Sidecars
    <2>4. whole' => \A j \in InTrash : j \in passed \/ \E p \in S : dir[p][2] = j
      <3> SUFFICES ASSUME names = After(0), NEW j \in InTrash, j \notin passed
                   PROVE  \E p \in S : dir[p][2] = j
        BY <2>1
      <3>1. PICK p \in 1 .. Positions : dir[p] = <<"sidecar", j>>
        BY DEF SweepInv, Listed, InTrash
      <3>2. dir[p] # Free
        <4>1. dir[p] \in Names
          BY <3>1 DEF Names, InTrash
        <4> QED BY <4>1, SweepAssumption DEF Names
      <3>3. p \in names
        BY <3>2, SweepAssumption DEF After
      <3>4. p \in S
        BY <3>1, <3>3 DEF Sidecars
      <3> QED BY <3>1, <3>4
    <2> HIDE DEF S
    <2>5. TodoKnown' /\ todo' \in Seq(Items)
      BY <1>2, <2>1, <2>3, ReadKnown
    <2>6. \A p \in S : \E n \in DOMAIN todo' : todo'[n] = dir[p][2]
      BY <2>1, <2>3, ItemsRead DEF SweepInv
    <2>7. LeftToDo'
      BY <1>2, <1>3, <2>4, <2>6 DEF LeftToDo
    <2>8. whole' \in BOOLEAN
      BY <2>1
    <2>9. SweepTypeOK'
      BY <1>2, <2>1, <2>5, <2>8, SweepAssumption DEF SweepInv, SweepTypeOK
    <2> QED BY <1>3, <2>1, <2>5, <2>7, <2>9 DEF SweepInv
  <1> QED BY <1>4, <1>5

\* Each of them goes, is passed over, or is the reason for another batch.
LEMMA EmptyItemKeeps == ASSUME SweepInv, EmptyItem PROVE SweepInv'
  <1> DEFINE i == todo[1]
  <1>1. /\ walk = "empty" /\ todo # <<>> /\ removed < Batch
        /\ UNCHANGED <<walk, cookie, expired, asked, whole>>
    BY DEF EmptyItem, client
  <1>2. todo \in Seq(Items) /\ i \in Items /\ i = Head(todo)
    BY <1>1, TakesOne DEF SweepInv, SweepTypeOK
  <1>3. \/ Skip /\ PassOver(i)
        \/ i \in Stuck /\ PurgeFails(i) /\ PassOver(i)
        \/ /\ i \notin Stuck /\ Purge(i) /\ passed' = passed
           /\ IF state'[i] = "gone" THEN todo' = Tail(todo) /\ handled' = handled
              ELSE todo' = <<>> /\ handled' = FALSE
    BY <1>2 DEF EmptyItem
  <1> HIDE DEF i
  <1>4. /\ dir' \in [1 .. Positions -> Names \cup {Free}]
        /\ state' \in [Items -> {"new", "pending", "live", "purging", "gone"}]
        /\ left' \in [Items -> Nat] /\ removed' \in 0 .. Batch
        /\ \A j \in Items \ {i} : state'[j] = state[j] /\ left'[j] = left[j]
        /\ \/ state'[i] = "gone" /\ left'[i] = 0
           \/ state'[i] = "purging"
           \/ state'[i] = state[i] /\ left'[i] = left[i]
        /\ Listed' /\ StuckStay'
    <2>1. CASE i \in Stuck /\ PurgeFails(i)
      BY <1>1, <1>2, <2>1, PurgeFailsKeeps DEF SweepInv, SweepTypeOK, i
    <2>2. CASE i \notin Stuck /\ Purge(i)
      BY <1>1, <1>2, <2>2, PurgeKeeps DEF i
    <2>3. CASE Skip
      BY <2>3 DEF Skip, SweepInv, SweepTypeOK, Listed, StuckStay, InTrash, Places
    <2> QED BY <1>3, <2>1, <2>2, <2>3
  <1>5. /\ passed' \subseteq Items /\ handled' \in BOOLEAN
        /\ todo' = Tail(todo) \/ (todo' = <<>> /\ handled' = FALSE)
        /\ handled' => handled
        /\ handled' => passed' = passed \cup {i} \/ (passed' = passed /\ state'[i] = "gone")
    BY <1>2, <1>3 DEF PassOver, SweepInv, SweepTypeOK
  <1>6. TodoKnown' /\ todo' \in Seq(Items)
    BY <1>1, <1>2, <1>4, <1>5, OthersKnown DEF i
  <1>7. SweepTypeOK'
    BY <1>1, <1>4, <1>5, <1>6 DEF SweepInv, SweepTypeOK
  <1>8. LeftToDo'
    <2> SUFFICES ASSUME whole, handled', NEW j \in InTrash', j \notin passed'
                 PROVE  \E n \in DOMAIN todo' : todo'[n] = j
      BY <1>1 DEF LeftToDo
    <2>1. handled /\ todo' = Tail(todo) /\ j \in Items /\ j # i
      BY <1>5 DEF InTrash
    <2>2. j \in InTrash /\ j \notin passed
      BY <1>4, <1>5, <2>1 DEF InTrash
    <2>3. PICK n \in DOMAIN todo : todo[n] = j
      BY <1>1, <2>1, <2>2 DEF SweepInv, LeftToDo
    <2>4. n - 1 \in DOMAIN Tail(todo) /\ Tail(todo)[n - 1] = j
      BY <1>1, <1>2, <2>1, <2>3, TakesOne
    <2> QED BY <2>1, <2>4
  <1> QED BY <1>1, <1>4, <1>6, <1>7, <1>8 DEF SweepInv

\* What ends a batch, asks or answers leaves Trash as it is.
LEMMA EndsKeep ==
  ASSUME SweepInv, GcEnd \/ EmptyStops \/ EmptyEnd \/ EmptyAnswer \/ EmptyTimeout \/ AskEmpty \/ UNCHANGED sweep
  PROVE  SweepInv'
  <1>1. UNCHANGED <<dir, state, left, expired, removed, cookie>> /\ (todo' = todo \/ todo' = <<>>)
    BY DEF GcEnd, EmptyStops, EmptyEnd, EmptyAnswer, EmptyTimeout, AskEmpty, sweep, client, empty
  <1>2. Listed' /\ StuckStay' /\ InTrash' = InTrash
    BY <1>1 DEF SweepInv, Listed, StuckStay, InTrash, Places
  <1>3. TodoKnown' /\ todo' \in Seq(Items)
    <2>1. CASE todo' = todo
      BY <1>1, <1>2, <2>1 DEF SweepInv, SweepTypeOK, TodoKnown
    <2>2. CASE todo' = <<>>
      <3>1. todo' \in Seq(Items) /\ DOMAIN todo' = {}
        BY <2>2
      <3> QED BY <3>1 DEF TodoKnown
    <2> QED BY <1>1, <2>1, <2>2
  <1>4. /\ walk' \in {"none", "gc", "empty"} /\ passed' \subseteq Items
        /\ {asked', whole', handled'} \subseteq BOOLEAN
        /\ walk' = "none" => todo' = <<>>
    BY DEF SweepInv, SweepTypeOK, GcEnd, EmptyStops, EmptyEnd, EmptyAnswer, EmptyTimeout, AskEmpty, sweep, client, empty
  <1>5. LeftToDo'
    <2>1. CASE walk' = "none" \/ ~whole' \/ ~handled' \/ walk' = "gc"
      BY <2>1 DEF LeftToDo
    <2>2. CASE ~(walk' = "none" \/ ~whole' \/ ~handled' \/ walk' = "gc")
      <3>1. UNCHANGED <<walk, todo, whole, handled, passed>>
        BY <2>2 DEF SweepInv, SweepTypeOK, GcEnd, EmptyStops, EmptyEnd, EmptyAnswer, EmptyTimeout, AskEmpty, sweep, client, empty
      <3> QED BY <1>2, <3>1 DEF SweepInv, LeftToDo
    <2> QED BY <2>1, <2>2
  <1>6. SweepTypeOK'
    BY <1>1, <1>3, <1>4 DEF SweepInv, SweepTypeOK
  <1> QED BY <1>2, <1>3, <1>4, <1>5, <1>6 DEF SweepInv

-----------------------------------------------------------------------------
(* Clients                                                                   *)

\* An item that a client moves in has a sidecar.
LEMMA MoveKeeps ==
  ASSUME SweepInv, NEW i \in Items, NEW p \in 1 .. Positions, NEW q \in 1 .. Positions, MoveToTrash(i, p, q)
  PROVE  SweepInv'
  <1>1. /\ walk = "none" /\ todo = <<>> /\ state[i] = "new" /\ i \notin Stuck
        /\ p # q /\ dir[p] = Free /\ dir[q] = Free
        /\ dir' = [dir EXCEPT ![p] = <<"payload", i>>, ![q] = <<"sidecar", i>>]
        /\ state' = [state EXCEPT ![i] = "live"]
        /\ UNCHANGED <<expired, left, walk, todo, removed, cookie, asked, passed, whole, handled>>
    BY DEF MoveToTrash, SweepInv, empty
  <1>2. dir \in [1 .. Positions -> Names \cup {Free}]
        /\ state \in [Items -> {"new", "pending", "live", "purging", "gone"}]
    BY DEF SweepInv, SweepTypeOK
  <1>3. /\ dir' \in [1 .. Positions -> Names \cup {Free}]
        /\ \A x \in 1 .. Positions :
              dir'[x] = IF x = q THEN <<"sidecar", i>> ELSE IF x = p THEN <<"payload", i>> ELSE dir[x]
    BY <1>1, <1>2 DEF Names
  <1>4. /\ state' \in [Items -> {"new", "pending", "live", "purging", "gone"}]
        /\ state'[i] = "live" /\ \A j \in Items \ {i} : state'[j] = state[j]
    BY <1>1, <1>2
  <1>5. ASSUME NEW j \in Items
        PROVE  IF j \in InTrash' THEN \E x \in 1 .. Positions : dir'[x] = <<"sidecar", j>> ELSE Places(j)' = {}
    <2>1. CASE j = i
      BY <1>3, <1>4, <2>1 DEF InTrash
    <2>2. CASE j # i /\ j \in InTrash
      <3>1. PICK x \in 1 .. Positions : dir[x] = <<"sidecar", j>>
        BY <2>2 DEF SweepInv, Listed
      <3>2. dir[x] # Free
        BY <3>1, SweepAssumption
      <3>3. dir'[x] = <<"sidecar", j>>
        BY <1>1, <1>3, <3>1, <3>2
      <3> QED BY <1>4, <2>2, <3>3 DEF InTrash
    <2>3. CASE j # i /\ j \notin InTrash
      <3>1. Places(j) = {}
        BY <2>3 DEF SweepInv, Listed
      <3>2. Places(j)' = {}
        BY <1>3, <2>3, <3>1 DEF Places
      <3> QED BY <1>4, <2>3, <3>2 DEF InTrash
    <2> QED BY <2>1, <2>2, <2>3
  <1>6. Listed'
    BY <1>5 DEF Listed
  <1>7. StuckStay'
    BY <1>1, <1>4, SweepAssumption DEF SweepInv, StuckStay
  <1>8. SweepTypeOK'
    BY <1>1, <1>3, <1>4 DEF SweepInv, SweepTypeOK
  <1> QED BY <1>1, <1>6, <1>7, <1>8 DEF SweepInv, TodoKnown, LeftToDo

\* One that is restored has nothing left in the directory.
LEMMA RestoreKeeps ==
  ASSUME SweepInv, NEW i \in Items, Restore(i)
  PROVE  SweepInv'
  <1>1. /\ walk = "none" /\ todo = <<>> /\ state[i] = "live" /\ i \notin Stuck
        /\ dir' = Without(i) /\ state' = [state EXCEPT ![i] = "gone"]
        /\ UNCHANGED <<expired, left, walk, todo, removed, cookie, asked, passed, whole, handled>>
    BY DEF Restore, SweepInv, empty
  <1>2. dir \in [1 .. Positions -> Names \cup {Free}]
        /\ state \in [Items -> {"new", "pending", "live", "purging", "gone"}]
    BY DEF SweepInv, SweepTypeOK
  <1>3. /\ dir' \in [1 .. Positions -> Names \cup {Free}]
        /\ \A x \in 1 .. Positions : dir'[x] = IF dir[x] # Free /\ dir[x][2] = i THEN Free ELSE dir[x]
    BY <1>1, <1>2 DEF Without, Places
  <1>4. /\ state' \in [Items -> {"new", "pending", "live", "purging", "gone"}]
        /\ state'[i] = "gone" /\ \A j \in Items \ {i} : state'[j] = state[j]
    BY <1>1, <1>2
  <1>5. ASSUME NEW j \in Items
        PROVE  IF j \in InTrash' THEN \E x \in 1 .. Positions : dir'[x] = <<"sidecar", j>> ELSE Places(j)' = {}
    <2>1. CASE j = i
      BY <1>3, <1>4, <2>1 DEF InTrash, Places
    <2>2. CASE j # i /\ j \in InTrash
      <3>1. PICK x \in 1 .. Positions : dir[x] = <<"sidecar", j>>
        BY <2>2 DEF SweepInv, Listed
      <3>2. dir'[x] = <<"sidecar", j>>
        BY <1>3, <2>2, <3>1
      <3> QED BY <1>4, <2>2, <3>2 DEF InTrash
    <2>3. CASE j # i /\ j \notin InTrash
      <3>1. Places(j) = {}
        BY <2>3 DEF SweepInv, Listed
      <3>2. Places(j)' = {}
        BY <1>3, <3>1 DEF Places
      <3> QED BY <1>4, <2>3, <3>2 DEF InTrash
    <2> QED BY <2>1, <2>2, <2>3
  <1>6. Listed'
    BY <1>5 DEF Listed
  <1>7. StuckStay'
    BY <1>1, <1>4, SweepAssumption DEF SweepInv, StuckStay
  <1>8. SweepTypeOK'
    BY <1>1, <1>3, <1>4 DEF SweepInv, SweepTypeOK
  <1> QED BY <1>1, <1>6, <1>7, <1>8 DEF SweepInv, TodoKnown, LeftToDo

\* Time only makes items due.
LEMMA ExpireKeeps ==
  ASSUME SweepInv, NEW i \in Items, Expire(i)
  PROVE  SweepInv'
  <1>1. expired' \subseteq Items
        /\ UNCHANGED <<dir, state, left, walk, todo, removed, cookie, asked, passed, whole, handled>>
    BY DEF Expire, empty, SweepInv, SweepTypeOK
  <1>2. Listed' /\ StuckStay' /\ TodoKnown' /\ LeftToDo'
    BY <1>1 DEF SweepInv, Listed, StuckStay, TodoKnown, LeftToDo, InTrash, Places
  <1>3. SweepTypeOK'
    BY <1>1 DEF SweepInv, SweepTypeOK
  <1> QED BY <1>1, <1>2, <1>3 DEF SweepInv

\* Every step keeps the invariant.
LEMMA SweepNextKeeps == ASSUME SweepInv, [SweepNext]_sweep PROVE SweepInv'
  <1>1. CASE Walk
    BY <1>1, GcReadKeeps, GcItemKeeps, EmptyReadKeeps, EmptyItemKeeps, EndsKeep DEF Walk
  <1>2. CASE AskEmpty \/ EmptyTimeout \/ UNCHANGED sweep
    BY <1>2, EndsKeep
  <1>3. CASE \E i \in Items, p, q \in 1 .. Positions : MoveToTrash(i, p, q)
    BY <1>3, MoveKeeps
  <1>4. CASE \E i \in Items : Restore(i) \/ Expire(i)
    BY <1>4, RestoreKeeps, ExpireKeeps
  <1> QED BY <1>1, <1>2, <1>3, <1>4 DEF SweepNext

\* A Trash that was recovered holds a sidecar for each item that is in it.
LEMMA SweepStarts == ASSUME SweepInit PROVE SweepInv
  <1>1. /\ dir \in InitDirs /\ dir \in [1 .. Positions -> Names \cup {Free}]
        /\ state = [i \in Items |-> IF Places(i) = {} THEN "new"
                                    ELSE IF i \in Unfinished THEN "pending" ELSE "live"]
        /\ walk = "none" /\ todo = <<>>
    BY SweepAssumption DEF SweepInit, Names
  <1>2. SweepTypeOK
    <2>1. /\ state \in [Items -> {"new", "pending", "live", "purging", "gone"}]
          /\ left \in [Items -> Nat] /\ todo \in Seq(Items)
      BY <1>1, SweepAssumption DEF SweepInit
    <2>2. {asked, whole, handled} \subseteq BOOLEAN /\ expired \subseteq Items /\ passed \subseteq Items
      BY DEF SweepInit
    <2>3. removed \in 0 .. Batch /\ cookie \in 0 .. Positions
      BY SweepAssumption DEF SweepInit
    <2> QED BY <1>1, <2>1, <2>2, <2>3 DEF SweepTypeOK
  <1>3. ASSUME NEW i \in Items
        PROVE  IF i \in InTrash THEN \E p \in 1 .. Positions : dir[p] = <<"sidecar", i>> ELSE Places(i) = {}
    <2>1. CASE Places(i) = {}
      BY <1>1, <2>1 DEF InTrash
    <2>2. CASE Places(i) # {}
      <3>1. PICK p \in 1 .. Positions : dir[p] # Free /\ dir[p][2] = i
        BY <2>2 DEF Places
      <3>2. \E q \in 1 .. Positions : dir[q] = <<"sidecar", i>>
        BY <1>1, <3>1, SweepAssumption
      <3>3. i \in InTrash
        BY <1>1, <2>2 DEF InTrash
      <3> QED BY <3>2, <3>3
    <2> QED BY <2>1, <2>2
  <1>4. Listed
    BY <1>3 DEF Listed
  <1>5. StuckStay
    BY <1>1, SweepAssumption DEF StuckStay
  <1> QED BY <1>1, <1>2, <1>4, <1>5 DEF SweepInv, TodoKnown, LeftToDo

\* When Empty Trash finds that it is done, whatever clients did between its batches and
\* however often its budget ran out, Trash holds nothing but what it passed over
\* (empty_trash_batch).
THEOREM NothingOverlooked == SweepSpec => []SweepSound
  <1>1. SweepInit => SweepInv
    BY SweepStarts
  <1>2. SweepInv /\ [SweepNext]_sweep => SweepInv'
    BY SweepNextKeeps
  <1>3. SweepInv => SweepSound
    BY DEF SweepInv, SweepSound, EmptyIsComplete, LeftToDo
  <1> QED BY <1>1, <1>2, <1>3, PTL DEF SweepSpec

-----------------------------------------------------------------------------
(* Paths: a walk through the directories of a share.                        *)

\* A file that has two names is linked at least twice.
LEMMA TwoLinks ==
  ASSUME NEW disk, IsFiniteSet(DOMAIN disk), NEW node, NEW j \in DOMAIN disk, NEW k \in DOMAIN disk, j # k,
         disk[j] = Entry("file", node), disk[k] = Entry("file", node)
  PROVE  Links(disk, node) > 1
  <1> DEFINE S == {i \in DOMAIN disk : disk[i] = Entry("file", node)}
  <1>1. IsFiniteSet(S) BY FS_Subset
  <1>2. {j, k} \subseteq S OBVIOUS
  <1>3. IsFiniteSet({j, k}) /\ Cardinality({j, k}) <= Cardinality(S)
    BY <1>1, <1>2, FS_Subset
  <1>4. Cardinality({j, k}) = 2
    <2>1. IsFiniteSet({j}) /\ Cardinality({j}) = 1 BY FS_Singleton
    <2>2. Cardinality({j} \cup {k}) = Cardinality({j}) + 1 BY <2>1, FS_AddElement
    <2>3. {j, k} = {j} \cup {k} OBVIOUS
    <2> QED BY <2>1, <2>2, <2>3
  <1>5. Cardinality(S) \in Nat BY <1>1, FS_CardinalityType
  <1> QED BY <1>3, <1>4, <1>5 DEF Links

\* The number of links is one.
LEMMA LinksType ==
  ASSUME NEW disk, IsFiniteSet(DOMAIN disk), NEW node PROVE Links(disk, node) \in Nat
  <1>1. IsFiniteSet({i \in DOMAIN disk : disk[i] = Entry("file", node)}) BY FS_Subset
  <1> QED BY <1>1, FS_CardinalityType DEF Links

\* What a walk finds under a name of its path is the entry of that name.
LEMMA HereIs ==
  ASSUME NEW n, OnTheWay(n), NEW folds
  PROVE  LET k == <<n.dir, n.path[n.at]>> IN
         Lookup(n.disk, folds, n.dir, n.path[n.at]) = IF k \in DOMAIN n.disk THEN {n.disk[k]} ELSE {}
  <1>1. ValidName(n.path[n.at]) BY DEF OnTheWay
  <1> QED BY <1>1 DEF Lookup, ValidName, ReservedName

\* A directory that a walk finds is one it may be in, a file is no secret unless another
\* name of it is elsewhere.
LEMMA FoundInside ==
  ASSUME NEW n, OnTheWay(n), NEW e \in Lookup(n.disk, question.folds, n.dir, n.path[n.at])
  PROVE  /\ e.kind \in {"dir", "file", "link"}
         /\ e.kind = "dir" => e.node \in Walkable
         /\ e.kind = "file" => e.node \notin Secret \/ (e.node = "foreign" /\ Links(n.disk, e.node) > 1)
  <1> DEFINE k == <<n.dir, n.path[n.at]>>
  <1>1. k \in DOMAIN n.disk /\ e = n.disk[k] BY HereIs
  <1>2. k[1] = n.dir /\ k[2] = n.path[n.at] OBVIOUS
  <1>3. k[1] \in Walkable /\ ~ReservedName(k[2]) BY <1>2 DEF OnTheWay, ValidName
  <1> HIDE DEF k
  <1>4. DiskSound(n.disk) BY DEF OnTheWay
  <1>5. ASSUME e.kind = "file", e.node = "foreign" PROVE Links(n.disk, e.node) > 1
    <2>1. PICK j \in DOMAIN n.disk : j[1] \notin Walkable /\ n.disk[j] = Entry("file", "foreign")
      BY <1>4 DEF DiskSound
    <2>2. n.disk[k] = Entry("file", "foreign") BY <1>1, <1>4, <1>5 DEF DiskSound
    <2>3. j # k BY <2>1, <1>3
    <2> QED BY <2>1, <2>2, <2>3, <1>1, <1>4, <1>5, TwoLinks DEF DiskSound
  <1> QED BY <1>1, <1>3, <1>4, <1>5 DEF DiskSound, Secret

\* What PathInv says where a walk goes on, or ends with a code.
LEMMA WalkGoesOn ==
  ASSUME PathInv, question.what = "walk", NEW n, OnTheWay(n), Reply(n) PROVE PathInv'
  <1>1. answer' = <<n>> /\ question' = question /\ Now' = n BY DEF Reply, Now
  <1>2. OnTheWay(n)' BY <1>1 DEF OnTheWay
  <1>3. OnTheWay(Now)' BY <1>1, <1>2
  <1>4. n.pc # "done" /\ n.dir \notin Secret
    BY PathsAssumption DEF OnTheWay, Walkable, Shared, Secret
  <1> QED BY <1>1, <1>2, <1>3, <1>4 DEF PathInv, WalkStaysInside, Under, Done, OnTheWay

LEMMA WalkEnds ==
  ASSUME PathInv, question.what = "walk", NEW n, Reply(n), n.pc = "done",
         n.code = "ok" => n.node \notin Secret \/ (n.node = "foreign" /\ n.node \in n.lost)
  PROVE  PathInv'
  <1>1. answer' = <<n>> /\ question' = question /\ Now' = n BY DEF Reply, Now
  <1> QED BY <1>1 DEF PathInv, WalkStaysInside, Under, Done

LEMMA WalkFailsKeeps ==
  ASSUME PathInv, question.what = "walk", NEW code, code # "ok", Fails(code) PROVE PathInv'
  <1> DEFINE n == [pc |-> "done", code |-> code, status |-> Status(code)]
  <1>1. Reply(n) BY DEF Fails
  <1>2. n.pc = "done" /\ n.code # "ok" OBVIOUS
  <1> QED BY <1>1, <1>2, WalkEnds

LEMMA WalkGetsKeeps ==
  ASSUME PathInv, question.what = "walk", NEW node, Gets(node),
         node \notin Secret \/ (node = "foreign" /\ node \in Now.lost)
  PROVE  PathInv'
  <1> DEFINE n == [pc |-> "done", code |-> "ok", status |-> Status("ok"), node |-> node, lost |-> Now.lost]
  <1>1. Reply(n) BY DEF Gets
  <1>2. n.pc = "done" /\ n.node = node /\ n.lost = Now.lost OBVIOUS
  <1> QED BY <1>1, <1>2, WalkEnds

\* A walk is the function of its fields.
LEMMA WalkFields ==
  ASSUME NEW p, NEW o, NEW names, NEW i, NEW d, NEW e, NEW c, NEW f0, NEW l
  PROVE  LET n == [pc |-> p, op |-> o, path |-> names, at |-> i, dir |-> d, disk |-> e,
                   changes |-> c, node |-> f0, lost |-> l]
         IN n = [f \in WalkState |-> n[f]]
  BY DEF WalkState

LEMMA BeginWalkKeeps == ASSUME PathInv, BeginWalk PROVE PathInv'
  <1> DEFINE access == Access(question.grant, question.share)
             path == ParsePath(question.path)
             n == [pc |-> "walk", op |-> question.op, path |-> path[1], at |-> 1, dir |-> "root",
                   disk |-> question.disk, changes |-> 0, node |-> "", lost |-> {}]
  <1>1. question.what = "walk" BY DEF BeginWalk, Asked
  <1>2. /\ question.op \in {"list", "open", "metadata", "create"}
        /\ question.path \in Seq(STRING) \ {<<>>} /\ DiskSound(question.disk)
    BY <1>1 DEF PathInv, PathQuestion
  <1>3. ASSUME access # "none", path # <<>>, ~(question.op = "create" /\ access # "write"), Reply(n)
        PROVE  PathInv'
    <2>1. path = <<question.path>> /\ \A i \in DOMAIN question.path : ValidName(question.path[i])
      BY <1>3 DEF ParsePath
    <2>2. n.path = question.path BY <2>1
    <2>3. Len(question.path) \in Nat \ {0} /\ DOMAIN question.path = 1 .. Len(question.path) BY <1>2
    <2>4. n.op = "create" => question.grant.access = "write" /\ ~question.share.readOnly
      BY <1>3 DEF Access
    <2>5. "root" \in Walkable BY DEF Walkable, Shared
    <2> HIDE DEF path
    <2>7. n = [f \in WalkState |-> n[f]] BY WalkFields
    <2>8. n.pc = "walk" /\ n.at = 1 /\ n.dir = "root" /\ n.disk = question.disk /\ n.changes = 0 OBVIOUS
    <2>9. Reply(n) BY <1>3
    <2> HIDE DEF n
    <2>6. OnTheWay(n) BY <1>2, <2>1, <2>2, <2>3, <2>4, <2>5, <2>7, <2>8 DEF OnTheWay
    <2> QED BY <2>6, <2>9, <1>1, WalkGoesOn
  <1>4. \/ Fails("denied") \/ Fails("invalid")
        \/ access # "none" /\ path # <<>> /\ ~(question.op = "create" /\ access # "write") /\ Reply(n)
    BY DEF BeginWalk
  <1> QED BY <1>1, <1>3, <1>4, WalkFailsKeeps

\* A walk under way.
LEMMA UnderWay ==
  ASSUME PathInv, Under("walk")
  PROVE  question.what = "walk" /\ OnTheWay(Now)
  BY DEF PathInv, Under

LEMMA StepIntoKeeps == ASSUME PathInv, StepInto PROVE PathInv'
  <1>1. question.what = "walk" /\ OnTheWay(Now) BY UnderWay DEF StepInto
  <1>2. CASE \E e \in Here : e.kind # "file" /\ e.kind # "link" /\ Now.at = Len(Now.path) /\ Gets(e.node)
    <2>1. PICK e \in Here : e.kind # "file" /\ e.kind # "link" /\ Gets(e.node) BY <1>2
    <2>2. e.node \in Walkable BY <2>1, <1>1, FoundInside DEF Here
    <2>3. e.node \notin Secret BY <2>2, PathsAssumption DEF Walkable, Shared, Secret
    <2> QED BY <1>1, <2>1, <2>3, WalkGetsKeeps
  <1>3. CASE \E e \in Here : /\ e.kind # "file" /\ e.kind # "link" /\ Now.at # Len(Now.path)
                             /\ Reply([Now EXCEPT !.at = @ + 1, !.dir = e.node])
    <2>1. PICK e \in Here : /\ e.kind # "file" /\ e.kind # "link"
                            /\ Reply([Now EXCEPT !.at = @ + 1, !.dir = e.node])
      BY <1>3
    <2>2. e.node \in Walkable BY <2>1, <1>1, FoundInside DEF Here
    <2>3. Now.at \in 1 .. Len(Now.path) /\ Len(Now.path) \in Nat BY <1>1 DEF OnTheWay
    <2>4. Now.at + 1 \in 1 .. Len(Now.path) BY <2>3, <1>3
    <2> DEFINE m == [Now EXCEPT !.at = @ + 1, !.dir = e.node]
    <2>6. /\ m = [f \in WalkState |-> m[f]] /\ m.at = Now.at + 1 /\ m.dir = e.node /\ m.pc = Now.pc /\ m.op = Now.op
          /\ m.path = Now.path /\ m.disk = Now.disk /\ m.changes = Now.changes /\ m.node = Now.node /\ m.lost = Now.lost
      BY <1>1 DEF OnTheWay, WalkState
    <2>7. Reply(m) BY <2>1
    <2> HIDE DEF m
    <2>5. OnTheWay(m) BY <1>1, <2>2, <2>4, <2>6 DEF OnTheWay
    <2> QED BY <1>1, <2>7, <2>5, WalkGoesOn
  <1>4. Fails("missing") \/ Fails("unsupported") => PathInv' BY <1>1, WalkFailsKeeps
  <1> QED BY <1>2, <1>3, <1>4 DEF StepInto

LEMMA OpenEntryKeeps == ASSUME PathInv, OpenEntry PROVE PathInv'
  <1>1. question.what = "walk" /\ OnTheWay(Now) BY UnderWay DEF OpenEntry
  <1>2. ASSUME NEW e \in Here, e.kind = "file", Reply([Now EXCEPT !.pc = "opened", !.node = e.node]) PROVE PathInv'
    <2> DEFINE m == [Now EXCEPT !.pc = "opened", !.node = e.node]
    <2>1. /\ m = [f \in WalkState |-> m[f]] /\ m.at = Now.at /\ m.dir = Now.dir /\ m.pc = "opened" /\ m.op = Now.op
          /\ m.path = Now.path /\ m.disk = Now.disk /\ m.changes = Now.changes /\ m.node = e.node /\ m.lost = Now.lost
      BY <1>1 DEF OnTheWay, WalkState
    <2>2. e.node \notin Secret \/ (e.node = "foreign" /\ Links(Now.disk, e.node) > 1)
      BY <1>1, <1>2, FoundInside DEF Here
    <2>3. Reply(m) BY <1>2
    <2> HIDE DEF m
    <2>4. OnTheWay(m) BY <1>1, <2>1, <2>2 DEF OnTheWay
    <2> QED BY <1>1, <2>3, <2>4, WalkGoesOn
  <1>3. ASSUME Reply([Now EXCEPT !.op = "list", !.at = 1, !.dir = "root"]), OpenEntry PROVE PathInv'
    <2> DEFINE m == [Now EXCEPT !.op = "list", !.at = 1, !.dir = "root"]
    <2>1. /\ m = [f \in WalkState |-> m[f]] /\ m.at = 1 /\ m.dir = "root" /\ m.pc = Now.pc /\ m.op = "list"
          /\ m.path = Now.path /\ m.disk = Now.disk /\ m.changes = Now.changes /\ m.node = Now.node /\ m.lost = Now.lost
      BY <1>1 DEF OnTheWay, WalkState
    <2>2. "root" \in Walkable /\ 1 \in 1 .. Len(Now.path) BY <1>1 DEF Walkable, Shared, OnTheWay
    <2>5. Now.pc = "walk" BY <1>3 DEF OpenEntry
    <2>3. Reply(m) BY <1>3
    <2> HIDE DEF m
    <2>4. OnTheWay(m) BY <1>1, <2>1, <2>2, <2>5 DEF OnTheWay
    <2> QED BY <1>1, <2>3, <2>4, WalkGoesOn
  <1>4. Fails("missing") \/ Fails("unsupported") => PathInv' BY <1>1, WalkFailsKeeps
  <1> QED BY <1>2, <1>3, <1>4 DEF OpenEntry

LEMMA ValidateHandleKeeps == ASSUME PathInv, ValidateHandle PROVE PathInv'
  <1>1. question.what = "walk" /\ OnTheWay(Now) /\ Now.pc = "opened" BY UnderWay DEF ValidateHandle
  <1>2. CASE Links(Now.disk, Now.node) = 1 /\ Gets(Now.node)
    <2>1. Now.node \notin Secret \/ (Now.node = "foreign" /\ Now.node \in Now.lost) BY <1>1, <1>2 DEF OnTheWay
    <2> QED BY <1>1, <1>2, <2>1, WalkGetsKeeps
  <1>3. ASSUME Reply([Now EXCEPT !.pc = "walk", !.op = "list", !.at = 1, !.dir = "root"]) PROVE PathInv'
    <2> DEFINE m == [Now EXCEPT !.pc = "walk", !.op = "list", !.at = 1, !.dir = "root"]
    <2>1. /\ m = [f \in WalkState |-> m[f]] /\ m.at = 1 /\ m.dir = "root" /\ m.pc = "walk" /\ m.op = "list"
          /\ m.path = Now.path /\ m.disk = Now.disk /\ m.changes = Now.changes /\ m.node = Now.node /\ m.lost = Now.lost
      BY <1>1 DEF OnTheWay, WalkState
    <2>2. "root" \in Walkable /\ 1 \in 1 .. Len(Now.path) BY <1>1 DEF Walkable, Shared, OnTheWay
    <2>3. Reply(m) BY <1>3
    <2> HIDE DEF m
    <2>4. OnTheWay(m) BY <1>1, <2>1, <2>2 DEF OnTheWay
    <2> QED BY <1>1, <2>3, <2>4, WalkGoesOn
  <1>4. Fails("unsupported") => PathInv' BY <1>1, WalkFailsKeeps
  <1> QED BY <1>2, <1>3, <1>4 DEF ValidateHandle

\* A directory that is made is one of the share.
LEMMA DiskPut ==
  ASSUME NEW disk, DiskSound(disk), NEW k, NEW e, k \notin DOMAIN disk, k[1] \in Walkable,
         \/ e = Entry("dir", "new") \/ e = Entry("file", "foreign") \/ e = Entry("link", "outside")
         \/ e.kind = "dir" /\ e = Entry("dir", e.node) /\ e.node \in Walkable
  PROVE  DiskSound(Put(disk, k, e))
  <1> DEFINE d == Put(disk, k, e)
  <1>1. DOMAIN d = DOMAIN disk \cup {k} /\ d[k] = e /\ \A j \in DOMAIN disk : d[j] = disk[j] BY DEF Put
  <1>2. IsFiniteSet(DOMAIN d) BY <1>1, FS_AddElement DEF DiskSound
  <1>3. e = Entry(e.kind, e.node) /\ e.kind \in {"dir", "file", "link"} BY DEF Entry
  <1>4. (e.kind = "dir" => e.node \in Walkable) /\ (e.kind = "file" => e.node \notin Secret \ {"foreign"})
    BY DEF Entry, Walkable, Shared
  <1> HIDE DEF d
  <1>5. \A j \in DOMAIN d :
         /\ d[j] = Entry(d[j].kind, d[j].node) /\ d[j].kind \in {"dir", "file", "link"}
         /\ j[1] \in Walkable /\ ~ReservedName(j[2]) =>
              /\ d[j].kind = "dir" => d[j].node \in Walkable
              /\ d[j].kind = "file" => d[j].node \notin Secret \ {"foreign"}
    BY <1>1, <1>3, <1>4 DEF DiskSound
  <1>6. \E j \in DOMAIN d : j[1] \notin Walkable /\ d[j] = Entry("file", "foreign")
    BY <1>1 DEF DiskSound
  <1>7. DiskSound(d) BY <1>2, <1>5, <1>6 DEF DiskSound
  <1> QED BY <1>7 DEF d

LEMMA DiskUnlinked ==
  ASSUME NEW disk, DiskSound(disk), NEW k, k[1] \in Walkable
  PROVE  DiskSound(Unlinked(disk, k))
  <1> DEFINE d == Unlinked(disk, k)
  <1>1. DOMAIN d = DOMAIN disk \ {k} /\ \A j \in DOMAIN d : d[j] = disk[j] BY DEF Unlinked
  <1>2. IsFiniteSet(DOMAIN d) BY <1>1, FS_Subset DEF DiskSound
  <1> HIDE DEF d
  <1>3. \E j \in DOMAIN d : j[1] \notin Walkable /\ d[j] = Entry("file", "foreign")
    BY <1>1 DEF DiskSound
  <1>7. DiskSound(d) BY <1>1, <1>2, <1>3 DEF DiskSound
  <1> QED BY <1>7 DEF d

LEMMA CreateDirectoryKeeps == ASSUME PathInv, CreateDirectory PROVE PathInv'
  <1>1. question.what = "walk" /\ OnTheWay(Now) /\ Now.op = "create" BY UnderWay DEF CreateDirectory
  <1> DEFINE k == <<Now.dir, Now.path[Now.at]>>
             disk == [j \in DOMAIN Now.disk \cup {k} |-> IF j \in DOMAIN Now.disk THEN Now.disk[j] ELSE Entry("dir", "new")]
             m == [Now EXCEPT !.pc = "created", !.disk = disk]
  <1>2. ASSUME Here = {}, Reply(m) PROVE PathInv'
    <2>1. k \notin DOMAIN Now.disk BY <1>1, <1>2, HereIs DEF Here
    <2>2. disk = Put(Now.disk, k, Entry("dir", "new")) BY <2>1 DEF Put
    <2>3. k[1] \in Walkable BY <1>1 DEF OnTheWay
    <2>4. DiskSound(disk) BY <1>1, <2>1, <2>2, <2>3, DiskPut DEF OnTheWay
    <2> HIDE DEF disk
    <2>5. /\ m = [f \in WalkState |-> m[f]] /\ m.at = Now.at /\ m.dir = Now.dir /\ m.pc = "created" /\ m.op = Now.op
          /\ m.path = Now.path /\ m.disk = disk /\ m.changes = Now.changes /\ m.node = Now.node /\ m.lost = Now.lost
      BY <1>1 DEF OnTheWay, WalkState
    <2>6. Reply(m) BY <1>2
    <2> HIDE DEF m
    <2>7. OnTheWay(m) BY <1>1, <2>4, <2>5 DEF OnTheWay
    <2> QED BY <1>1, <2>6, <2>7, WalkGoesOn
  <1>3. CASE Here # {}
    <2>1. Fails("conflict") BY <1>3 DEF CreateDirectory
    <2> QED BY <2>1, <1>1, WalkFailsKeeps
  <1>4. Here = {} => Reply(m) BY DEF CreateDirectory
  <1> QED BY <1>2, <1>3, <1>4

LEMMA ReopenKeeps == ASSUME PathInv, Reopen PROVE PathInv'
  <1>1. question.what = "walk" /\ OnTheWay(Now) BY UnderWay DEF Reopen
  <1>2. CASE \A e \in Here : e.kind # "dir"
    <2>1. Fails("unsupported") BY <1>2 DEF Reopen
    <2> QED BY <2>1, <1>1, WalkFailsKeeps
  <1>3. CASE ~ \A e \in Here : e.kind # "dir"
    <2>1. PICK e \in Here : Gets(e.node) BY <1>3 DEF Reopen
    <2> DEFINE k == <<Now.dir, Now.path[Now.at]>>
    <2>6. Here = IF k \in DOMAIN Now.disk THEN {Now.disk[k]} ELSE {} BY <1>1, HereIs DEF Here
    <2> HIDE DEF k
    <2>5. \A e1, e2 \in Here : e1 = e2 BY <2>6
    <2>2. e.kind = "dir" BY <2>5, <1>3
    <2>3. e.node \in Walkable BY <2>2, <1>1, FoundInside DEF Here
    <2>4. e.node \notin Secret BY <2>3, PathsAssumption DEF Walkable, Shared, Secret
    <2> QED BY <1>1, <2>1, <2>4, WalkGetsKeeps
  <1> QED BY <1>2, <1>3

\* While a walk goes on, others change the disk.
LEMMA ChangedKeeps ==
  ASSUME PathInv, Under("walk"), NEW disk, DiskSound(disk), Changed(disk) PROVE PathInv'
  <1>1. question.what = "walk" /\ OnTheWay(Now) BY UnderWay
  <1> DEFINE lost == Now.lost \cup {n \in {Now.node} : Now.pc = "opened" /\ Links(disk, n) < Links(Now.disk, n)}
             m == [Now EXCEPT !.disk = disk, !.changes = @ + 1, !.lost = lost]
  <1>2. Reply(m) BY DEF Changed
  <1>3. Now.pc = "opened" => \/ Now.node \notin Secret
                             \/ Now.node = "foreign" /\ (Now.node \in lost \/ Links(disk, Now.node) > 1)
    <2>1. Links(disk, Now.node) \in Nat /\ Links(Now.disk, Now.node) \in Nat
      BY <1>1, LinksType DEF OnTheWay, DiskSound
    <2>2. Now.pc = "opened" /\ Now.node \notin lost => Links(disk, Now.node) >= Links(Now.disk, Now.node)
      BY <2>1
    <2> HIDE DEF lost
    <2>3. Now.node \in Now.lost => Now.node \in lost BY DEF lost
    <2> QED BY <1>1, <2>1, <2>2, <2>3 DEF OnTheWay
  <1> HIDE DEF lost
  <1>4. /\ m = [f \in WalkState |-> m[f]] /\ m.at = Now.at /\ m.dir = Now.dir /\ m.pc = Now.pc /\ m.op = Now.op
        /\ m.path = Now.path /\ m.disk = disk /\ m.changes = Now.changes + 1 /\ m.node = Now.node /\ m.lost = lost
    BY <1>1 DEF OnTheWay, WalkState
  <1> HIDE DEF m
  <1>6. m.pc = "opened" => \/ m.node \notin Secret
                           \/ m.node = "foreign" /\ (m.node \in m.lost \/ Links(m.disk, m.node) > 1)
    BY <1>3, <1>4
  <1>7. m.changes \in Nat /\ DiskSound(m.disk) BY <1>1, <1>4 DEF OnTheWay
  <1>8. m.op = "create" => question.grant.access = "write" /\ ~question.share.readOnly BY <1>1, <1>4 DEF OnTheWay
  <1>5. OnTheWay(m) BY <1>1, <1>4, <1>6, <1>7, <1>8 DEF OnTheWay
  <1> QED BY <1>1, <1>2, <1>5, WalkGoesOn

LEMMA DisturbKeeps == ASSUME PathInv, NEW at \in Shared, NEW name \in Given, Disturb(at, name) PROVE PathInv'
  <1> DEFINE k == <<at, name>>
             d == Now.disk
  <1>1. Under("walk") /\ DiskSound(d) BY UnderWay DEF Disturb, OnTheWay
  <1>2. k[1] \in Walkable /\ k[1] = at /\ k[2] = name /\ ~ReservedName(name) BY PathsAssumption DEF Walkable
  <1> HIDE DEF k, d
  <1>3. k \notin DOMAIN d /\ Changed(Put(d, k, Entry("file", "foreign"))) => PathInv'
    BY <1>1, <1>2, DiskPut, ChangedKeeps
  <1>4. k \notin DOMAIN d /\ Changed(Put(d, k, Entry("link", "outside"))) => PathInv'
    BY <1>1, <1>2, DiskPut, ChangedKeeps
  <1>5. Changed(Unlinked(d, k)) => PathInv' BY <1>1, <1>2, DiskUnlinked, ChangedKeeps
  <1>6. ASSUME NEW to \in Shared, NEW new \in Given, k \in DOMAIN d, d[k].kind = "dir", <<to, new>> \notin DOMAIN d,
               Changed(Put(Unlinked(d, k), <<to, new>>, d[k]))
        PROVE  PathInv'
    <2>1. d[k] = Entry("dir", d[k].node) /\ d[k].node \in Walkable BY <1>1, <1>2, <1>6 DEF DiskSound
    <2>2. DiskSound(Unlinked(d, k)) BY <1>1, <1>2, DiskUnlinked
    <2>3. <<to, new>> \notin DOMAIN Unlinked(d, k) BY <1>6 DEF Unlinked
    <2>4. <<to, new>>[1] \in Walkable BY DEF Walkable
    <2>5. DiskSound(Put(Unlinked(d, k), <<to, new>>, d[k])) BY <1>6, <2>1, <2>2, <2>3, <2>4, DiskPut
    <2> QED BY <1>1, <1>6, <2>5, ChangedKeeps
  <1> QED BY <1>3, <1>4, <1>5, <1>6 DEF Disturb, k, d

\* Of the paths that an archive query names, all are in one folder, and no name twice.
LEMMA SelectionKeeps == ASSUME PathInv, ParseArchiveQuery PROVE PathInv'
  <1> DEFINE values == question.values
             paths == [i \in DOMAIN values |-> ParsePath(values[i])]
             names == [i \in DOMAIN values |-> Last(paths[i][1])]
  <1>1. question.what = "selection" /\ values \in Seq(Seq(STRING) \ {<<>>})
    BY DEF ParseArchiveQuery, Asked, PathInv, PathQuestion
  <1> DEFINE is == IF Len(values) > MaxPaths THEN "too large"
                   ELSE IF values = <<>> \/ values = <<<<"">>>> THEN "root"
                   ELSE IF \E i \in DOMAIN paths : paths[i] = <<>> THEN "invalid"
                   ELSE IF Len(values) = 1 THEN "single"
                   ELSE IF \/ \E i \in DOMAIN paths : Front(paths[i][1]) # Front(paths[1][1])
                           \/ ~IsInjective(names)
                        THEN "invalid" ELSE "selection"
  <1>5. Reply([pc |-> "done", is |-> is]) BY DEF ParseArchiveQuery
  <1>6. DOMAIN paths = DOMAIN values /\ \A i \in DOMAIN values : paths[i] = ParsePath(values[i]) OBVIOUS
  <1>7. DOMAIN names = DOMAIN values /\ \A i \in DOMAIN values : names[i] = Last(paths[i][1]) OBVIOUS
  <1> HIDE DEF paths, names
  <1>2. /\ is = "single" => Len(values) = 1
        /\ is = "selection" =>
             /\ \A i \in DOMAIN values : paths[i] # <<>> /\ Front(paths[i][1]) = Front(paths[1][1])
             /\ IsInjective(names)
    BY <1>6
  <1> HIDE DEF is
  <1>3. ASSUME is \in {"single", "selection"}, NEW i \in DOMAIN values, NEW j \in DOMAIN values
        PROVE  Len(values[i]) = Len(values[j]) /\ (i # j => values[i] # values[j])
    <2>1. CASE is = "single"
      <3>1. i = 1 /\ j = 1 BY <1>1, <1>2, <2>1
      <3> QED BY <3>1
    <2>2. CASE is = "selection"
      <3>1. values[i] \in Seq(STRING) \ {<<>>} /\ values[j] \in Seq(STRING) \ {<<>>} BY <1>1
      <3>2. paths[i] = <<values[i]>> /\ paths[j] = <<values[j]>> BY <1>2, <1>6, <2>2 DEF ParsePath
      <3>3. Front(values[i]) = Front(values[j]) BY <1>2, <2>2, <3>2
      <3>4. Len(Front(values[i])) = Len(values[i]) - 1 /\ Len(Front(values[j])) = Len(values[j]) - 1
        BY <3>1 DEF Front
      <3>5. names[i] = Last(values[i]) /\ names[j] = Last(values[j]) BY <3>2, <1>7
      <3>6. i # j => names[i] # names[j] BY <1>2, <1>7, <2>2 DEF IsInjective
      <3> QED BY <3>1, <3>3, <3>4, <3>5, <3>6
    <2> QED BY <1>3, <2>1, <2>2
  <1> DEFINE n == [pc |-> "done", is |-> is]
  <1>4. answer' = <<n>> /\ question' = question /\ Now' = n BY <1>5 DEF Reply, Now
  <1> QED BY <1>1, <1>3, <1>4 DEF PathInv, WalkStaysInside, Under, Done

\* Every step of a walk and every change by others keeps the invariant.
LEMMA PathNext == PathInv /\ [PathStep]_<<question, answer>> => PathInv'
  <1> SUFFICES ASSUME PathInv, [PathStep]_<<question, answer>> PROVE PathInv'
    OBVIOUS
  <1>1. CASE UNCHANGED <<question, answer>>
    BY <1>1 DEF PathInv, Now, Under, Done, OnTheWay, WalkStaysInside
  <1> QED BY <1>1, BeginWalkKeeps, StepIntoKeeps, OpenEntryKeeps, ValidateHandleKeeps, CreateDirectoryKeeps,
             ReopenKeeps, SelectionKeeps, DisturbKeeps DEF PathStep

\* No walk hands out what is no part of the share.
THEOREM WalksStayInside == PathSpec => []WalkStaysInside
  <1>1. PathInit => PathInv BY DEF PathInit, PathInv, Under, Done, WalkStaysInside
  <1>2. PathInv => WalkStaysInside BY DEF PathInv
  <1> QED BY <1>1, <1>2, PathNext, PTL DEF PathSpec

\* The order of the listing is one of all the entries there can be.
LEMMA OneOrder ==
  ASSUME NEW a, NEW b, NEW c, {a, b, c} \subseteq [id : Nat, at : Nat]
  PROVE  /\ Before(a, b) \/ Before(b, a) \/ a = b
         /\ ~(Before(a, b) /\ Before(b, a))
         /\ ~Before(b, a) /\ Before(b, c) => Before(a, c)
         /\ Before(a, b) /\ ~Before(c, b) => Before(a, c)
         /\ Before(a, b) /\ Before(b, c) => Before(a, c)
  BY DEF Before

\* One sequence after another.
LEMMA JoinIs ==
  ASSUME NEW S, NEW u \in Seq(S), NEW v \in Seq(S)
  PROVE  /\ u \o v \in Seq(S) /\ Len(u \o v) = Len(u) + Len(v)
         /\ \A j \in 1 .. Len(u) : (u \o v)[j] = u[j]
         /\ \A j \in Len(u) + 1 .. Len(u) + Len(v) : (u \o v)[j] = v[j - Len(u)]
  OBVIOUS

\* One entry more, in its place.
LEMMA InsertIs ==
  ASSUME NEW S, NEW u \in Seq(S), NEW e \in S, NEW k \in 1 .. Len(u) + 1
  PROVE  LET v == InsertAt(u, k, e) IN
         /\ v \in Seq(S) /\ Len(v) = Len(u) + 1
         /\ \A j \in 1 .. Len(v) : v[j] = IF j < k THEN u[j] ELSE IF j = k THEN e ELSE u[j - 1]
  <1> DEFINE x == SubSeq(u, 1, k - 1)
             y == SubSeq(u, k, Len(u))
             xe == x \o <<e>>
  <1>1. Len(u) \in Nat /\ k \in Nat OBVIOUS
  <1>2. x \in Seq(S) /\ Len(x) = k - 1 /\ \A j \in 1 .. k - 1 : x[j] = u[j] BY <1>1
  <1>3. y \in Seq(S) /\ Len(y) = Len(u) - k + 1 /\ \A j \in 1 .. Len(u) - k + 1 : y[j] = u[j + k - 1] BY <1>1
  <1> HIDE DEF x, y
  <1>4. xe \in Seq(S) /\ Len(xe) = k /\ xe[k] = e /\ \A j \in 1 .. k - 1 : xe[j] = u[j] BY <1>1, <1>2
  <1>5. InsertAt(u, k, e) = xe \o y BY DEF InsertAt, x, y
  <1> HIDE DEF xe
  <1>6. xe \o y \in Seq(S) /\ Len(xe \o y) = Len(u) + 1 BY <1>1, <1>3, <1>4, JoinIs
  <1>7. ASSUME NEW j \in 1 .. Len(u) + 1
        PROVE  (xe \o y)[j] = IF j < k THEN u[j] ELSE IF j = k THEN e ELSE u[j - 1]
    <2>1. CASE j <= k BY <1>1, <1>3, <1>4, <2>1, JoinIs
    <2>2. CASE j > k
      <3>1. (xe \o y)[j] = y[j - k] BY <1>1, <1>3, <1>4, <2>2, JoinIs
      <3>2. j - k \in 1 .. Len(u) - k + 1 /\ (j - k) + k - 1 = j - 1 BY <1>1, <2>2
      <3>3. y[j - k] = u[(j - k) + k - 1] BY <1>3, <3>2
      <3> QED BY <1>1, <2>2, <3>1, <3>2, <3>3
    <2>3. j <= k \/ j > k BY <1>1
    <2> QED BY <2>1, <2>2, <2>3
  <1> QED BY <1>5, <1>6, <1>7

\* A compaction leaves the first of them, and fewer than may be kept.
LEMMA CompactedIs ==
  ASSUME NEW S, NEW u \in Seq(S), NEW limit \in Nat \ {0}, Len(u) <= CompactAt(limit)
  PROVE  LET v == Compacted(u, limit) IN
         /\ v \in Seq(S) /\ Len(v) < CompactAt(limit) /\ Len(v) <= Len(u)
         /\ \A j \in 1 .. Len(v) : v[j] = u[j]
         /\ Len(v) = Len(u) \/ Len(v) = KeepOf(limit)
  <1>1. Len(u) \in Nat /\ KeepOf(limit) \in Nat /\ CompactAt(limit) \in Nat
        /\ KeepOf(limit) > 0 /\ KeepOf(limit) < CompactAt(limit)
    <2>1. Len(u) \in Nat /\ CompactMin \in Nat /\ KeepOf(limit) \in Nat /\ KeepOf(limit) > 1
      BY ListingAssumption DEF KeepOf
    <2> QED BY <2>1 DEF CompactAt
  <1> DEFINE w == SubSeq(u, 1, KeepOf(limit))
  <1>2. CASE Len(u) < CompactAt(limit) BY <1>1, <1>2 DEF Compacted
  <1>3. CASE Len(u) = CompactAt(limit)
    <2>1. w \in Seq(S) /\ Len(w) = KeepOf(limit) /\ \A j \in 1 .. KeepOf(limit) : w[j] = u[j] BY <1>1, <1>3
    <2> HIDE DEF w
    <2>2. Compacted(u, limit) = w BY <1>1, <1>3 DEF Compacted, w
    <2> QED BY <1>1, <1>3, <2>1, <2>2
  <1> QED BY <1>1, <1>2, <1>3

IsListing(s) == s = [f \in ListingState |-> s[f]]

\* Nothing of this is about how many names were read, or are left.
LEMMA ReadsCount ==
  ASSUME NEW q, NEW s, NEW t, ListingSound(q, s), IsListing(t),
         \A f \in ListingState \ {"others", "scanned", "moves"} : t[f] = s[f]
  PROVE  ListingSound(q, t)
  <1>1. /\ t.pc = s.pc /\ t.scan = s.scan /\ t.kept = s.kept /\ t.after = s.after /\ t.items = s.items
        /\ t.id = s.id /\ t.listed = s.listed /\ t.steady = s.steady
    BY DEF ListingState
  <1>2. ItemsSound(q, t) BY <1>1 DEF ListingSound, ItemsSound
  <1>3. KeptSound(q, t) BY <1>1 DEF ListingSound, KeptSound
  <1>4. ListedSound(q, t) BY <1>1 DEF ListingSound, ListedSound
  <1>5. OnceOrTwice(q, t)
    <2>1. \A i : /\ (Twice(t, i) <=> Twice(s, i)) /\ (In(t, i) <=> In(s, i))
                 /\ (Due(t, i) <=> Due(s, i)) /\ (ToCome(t, i) <=> ToCome(s, i))
      BY <1>1 DEF Twice, In, Due, ToCome
    <2> QED BY <1>1, <2>1 DEF ListingSound, OnceOrTwice
  <1>6. NoneLost(q, t) BY <1>1 DEF ListingSound, NoneLost, Ahead, Reached, In
  <1> QED BY <1>1, <1>2, <1>3, <1>4, <1>5, <1>6 DEF ListingSound, IsListing

\* A name was read, or what it names turned out to be live, or not to be listed.
LEMMA ReadsName ==
  ASSUME NEW q, NEW s, NEW t, ListingSound(q, s), IsListing(t), s.pc # "between",
         t.kept = s.kept, t.after = s.after, t.items = s.items, t.listed = s.listed, t.steady = s.steady,
         \/ /\ s.pc = "scan" /\ t.pc = "sidecar" /\ t.id \in s.scan /\ t.scan = s.scan \ {t.id}
         \/ /\ s.pc = "sidecar" /\ t.pc = "payload" /\ t.id = s.id /\ t.scan = s.scan /\ s.items[s.id].sidecar = "live"
         \/ /\ s.pc \in {"sidecar", "payload"} /\ t.pc = "scan" /\ t.scan = s.scan
            /\ s.id \in s.steady => \E p \in s.after : ~IsAfter(EntryOf(s.items, s.id), p)
  PROVE  ListingSound(q, t)
  <1>1. ItemsSound(q, t) BY DEF ListingSound, ItemsSound
  <1>2. KeptSound(q, t) BY DEF ListingSound, KeptSound
  <1>3. ListedSound(q, t) BY DEF ListingSound, ListedSound
  <1>4. \A i : (Twice(t, i) <=> Twice(s, i)) /\ (In(t, i) <=> In(s, i)) BY DEF Twice, In
  <1>5. ASSUME NEW i \in DOMAIN s.items
        PROVE  /\ ToCome(t, i) => ToCome(s, i)
               /\ Due(t, i) => Due(s, i) \/ (ToCome(s, i) /\ ~ToCome(t, i))
               /\ s.items[i].sidecar = "pending" \/ s.items[i].at = 0 => (Due(t, i) => Due(s, i))
    <2>1. ItemsSound(q, s) /\ IsItem(s.items[i]) BY DEF ListingSound, ItemsSound
    <2>2. CASE s.pc = "scan" /\ t.pc = "sidecar" /\ t.id \in s.scan /\ t.scan = s.scan \ {t.id}
      BY <2>1, <2>2 DEF ToCome, Due, IsItem
    <2>3. CASE /\ s.pc = "sidecar" /\ t.pc = "payload" /\ t.id = s.id /\ t.scan = s.scan
               /\ s.items[s.id].sidecar = "live"
      BY <2>1, <2>3 DEF ToCome, Due, IsItem
    <2>4. CASE s.pc \in {"sidecar", "payload"} /\ t.pc = "scan" /\ t.scan = s.scan
      BY <2>1, <2>4 DEF ToCome, Due, IsItem
    <2> QED BY <2>2, <2>3, <2>4
  <1>6. OnceOrTwice(q, t) BY <1>4, <1>5 DEF ListingSound, OnceOrTwice
  <1>7. NoneLost(q, t)
    <2> SUFFICES ASSUME NEW i \in s.steady, \A k \in DOMAIN s.listed : s.listed[k].id # i PROVE Ahead(t, i, q.limit)
      BY DEF NoneLost
    <2>1. (\A p \in s.after : IsAfter(EntryOf(s.items, i), p)) /\ Reached(s, i, q.limit)
      BY DEF ListingSound, NoneLost, Ahead
    <2>2. Reached(t, i, q.limit) BY <1>4, <2>1 DEF Reached
    <2>3. t.pc # "between" OBVIOUS
    <2> QED BY <2>1, <2>2, <2>3 DEF Ahead
  <1>8. q.limit \in Nat \ {0} /\ t.pc \in {"scan", "sidecar", "payload", "between"} BY DEF ListingSound
  <1> QED BY <1>1, <1>2, <1>3, <1>6, <1>7, <1>8 DEF ListingSound, IsListing

EntriesOf(items) == [id : DOMAIN items, at : Nat \ {0}]

\* What is known of the items of a page.
LEMMA KeptAre ==
  ASSUME NEW q, ListingQuestion(q), NEW s, ListingSound(q, s)
  PROVE  /\ s.kept \in Seq(EntriesOf(s.items)) /\ s.listed \in Seq(EntriesOf(s.items))
         /\ EntriesOf(s.items) \subseteq [id : Nat, at : Nat]
         /\ DOMAIN s.items = DOMAIN q.items /\ DOMAIN s.items \subseteq Nat
         /\ \A i \in s.steady : EntryOf(s.items, i) \in EntriesOf(s.items)
         /\ Len(s.kept) \in Nat /\ Len(s.listed) \in Nat
  <1>1. s.kept \in Seq(EntriesOf(s.items)) /\ s.listed \in Seq(EntriesOf(s.items))
    BY DEF ListingSound, KeptSound, ListedSound, AreEntries, EntriesOf
  <1>2. DOMAIN s.items = DOMAIN q.items /\ DOMAIN s.items \subseteq Nat
    BY DEF ListingSound, ItemsSound, ListingQuestion
  <1>3. EntriesOf(s.items) \subseteq [id : Nat, at : Nat] BY <1>2 DEF EntriesOf
  <1>4. ASSUME NEW i \in s.steady PROVE EntryOf(s.items, i) \in EntriesOf(s.items)
    <2>1. i \in DOMAIN s.items /\ s.items[i].sidecar = "live" /\ IsItem(s.items[i])
      BY DEF ListingSound, ItemsSound, Published
    <2>2. s.items[i].at \in Nat \ {0} BY <2>1 DEF IsItem
    <2> QED BY <2>1, <2>2 DEF EntryOf, EntriesOf
  <1> QED BY <1>1, <1>2, <1>3, <1>4

\* An item that is found whole is kept with the others of its page.
LEMMA KeepsItem ==
  ASSUME NEW q, ListingQuestion(q), NEW s, NEW t, ListingSound(q, s), IsListing(t), s.pc = "payload", t.pc = "scan",
         t.scan = s.scan, t.after = s.after, t.items = s.items, t.listed = s.listed, t.steady = s.steady,
         \A p \in s.after : IsAfter(EntryOf(s.items, s.id), p),
         NEW k \in 1 .. Len(s.kept) + 1, InPlace(s.kept, k, EntryOf(s.items, s.id)),
         t.kept = Compacted(InsertAt(s.kept, k, EntryOf(s.items, s.id)), q.limit)
  PROVE  ListingSound(q, t)
  <1> DEFINE e == EntryOf(s.items, s.id)
             E == EntriesOf(s.items)
             n == s.kept
             u == InsertAt(n, k, e)
             v == t.kept
             K == KeepOf(q.limit)
  <1>1. n \in Seq(E) /\ E \subseteq [id : Nat, at : Nat] /\ Len(n) \in Nat BY KeptAre
  <1>2. s.id \in DOMAIN s.items /\ Due(s, s.id) BY DEF ListingSound, ItemsSound, Due
  <1>3. s.items[s.id].at \in Nat \ {0} BY <1>2 DEF ListingSound, ItemsSound, OnceOrTwice, IsItem
  <1>4. e \in E /\ e.id = s.id BY <1>2, <1>3 DEF EntryOf, EntriesOf
  <1>5. q.limit \in Nat \ {0} /\ K \in Nat /\ K > 0 /\ CompactAt(q.limit) \in Nat
    BY ListingAssumption DEF ListingSound, KeepOf, CompactAt
  <1>6. Len(n) < CompactAt(q.limit) BY DEF ListingSound, KeptSound
  <1>7. \A j \in 1 .. Len(n) : IF j < k THEN ~Before(e, n[j]) ELSE Before(e, n[j])
    <2>1. DOMAIN n = 1 .. Len(n) BY <1>1
    <2> QED BY <2>1 DEF InPlace
  <1>8. \A a, b \in 1 .. Len(n) : a < b => ~Before(n[b], n[a])
    <2>1. DOMAIN n = 1 .. Len(n) BY <1>1
    <2> QED BY <2>1 DEF ListingSound, KeptSound
  <1>9. t.kept = Compacted(u, q.limit) OBVIOUS
  <1> HIDE DEF e, E, n, v, K
  <1>10. /\ u \in Seq(E) /\ Len(u) = Len(n) + 1
         /\ \A j \in 1 .. Len(u) : u[j] = IF j < k THEN n[j] ELSE IF j = k THEN e ELSE n[j - 1]
    <2>1. k \in 1 .. Len(n) + 1 BY DEF n
    <2>2. u = InsertAt(n, k, e) OBVIOUS
    <2> HIDE DEF u
    <2>3. LET w == InsertAt(n, k, e) IN
          /\ w \in Seq(E) /\ Len(w) = Len(n) + 1
          /\ \A j \in 1 .. Len(w) : w[j] = IF j < k THEN n[j] ELSE IF j = k THEN e ELSE n[j - 1]
      <3>1. n \in Seq(E) /\ e \in E BY <1>1, <1>4
      <3> QED BY ONLY <3>1, <2>1, InsertIs
    <2> QED BY <2>2, <2>3
  <1> HIDE DEF u
  <1>11. /\ v \in Seq(E) /\ Len(v) < CompactAt(q.limit) /\ Len(v) <= Len(u) /\ Len(v) \in Nat
         /\ \A j \in 1 .. Len(v) : v[j] = u[j] /\ j \in 1 .. Len(u)
         /\ Len(v) = Len(u) \/ Len(v) = K
    <2>1. Len(u) <= CompactAt(q.limit) BY <1>1, <1>5, <1>6, <1>10
    <2>2. v = Compacted(u, q.limit) BY <1>9 DEF v
    <2>3. /\ v \in Seq(E) /\ Len(v) < CompactAt(q.limit) /\ Len(v) <= Len(u)
          /\ \A j \in 1 .. Len(v) : v[j] = u[j]
          /\ Len(v) = Len(u) \/ Len(v) = K
      BY <1>5, <1>10, <2>1, <2>2, CompactedIs DEF K
    <2> QED BY <1>1, <1>10, <2>3
  <1>12. k \in Nat /\ k >= 1 /\ k <= Len(n) + 1 BY <1>1 DEF n
  <1>13. \A j \in 1 .. Len(u) : /\ j < k => j \in 1 .. Len(n) /\ u[j] = n[j]
                                /\ j = k => u[j] = e
                                /\ j > k => j - 1 \in 1 .. Len(n) /\ u[j] = n[j - 1]
    <2> SUFFICES ASSUME NEW j \in 1 .. Len(u)
                 PROVE  /\ j < k => j \in 1 .. Len(n) /\ u[j] = n[j]
                        /\ j = k => u[j] = e
                        /\ j > k => j - 1 \in 1 .. Len(n) /\ u[j] = n[j - 1]
      OBVIOUS
    <2>1. j \in Nat /\ j >= 1 /\ j <= Len(n) + 1 BY <1>1, <1>10
    <2>2. u[j] = IF j < k THEN n[j] ELSE IF j = k THEN e ELSE n[j - 1] BY <1>10
    <2> QED BY <1>1, <1>12, <2>1, <2>2
  <1>14. \A j \in 1 .. Len(n) : n[j] \in E BY <1>1
  <1>15. \A a, b \in 1 .. Len(u) : a < b => ~Before(u[b], u[a])
    <2> SUFFICES ASSUME NEW a \in 1 .. Len(u), NEW b \in 1 .. Len(u), a < b PROVE ~Before(u[b], u[a])
      OBVIOUS
    <2>0. a \in Nat /\ b \in Nat BY <1>1, <1>10
    <2>1. CASE b < k
      <3>1. a \in 1 .. Len(n) /\ b \in 1 .. Len(n) /\ u[a] = n[a] /\ u[b] = n[b] BY <1>12, <1>13, <2>0, <2>1
      <3> QED BY <1>8, <3>1
    <2>2. CASE b = k
      <3>1. a < k /\ a \in 1 .. Len(n) /\ u[a] = n[a] /\ u[b] = e BY <1>13, <2>2
      <3> QED BY <1>7, <3>1
    <2>3. CASE b > k /\ a = k
      <3>1. u[a] = e /\ b - 1 \in 1 .. Len(n) /\ u[b] = n[b - 1] /\ ~(b - 1 < k) BY <1>12, <1>13, <2>0, <2>3
      <3>2. Before(e, n[b - 1]) /\ n[b - 1] \in E BY <1>7, <1>14, <3>1
      <3> QED BY <1>1, <1>4, <3>1, <3>2, OneOrder
    <2>4. CASE b > k /\ a < k
      <3>1. /\ a \in 1 .. Len(n) /\ u[a] = n[a] /\ b - 1 \in 1 .. Len(n) /\ u[b] = n[b - 1] /\ a < b - 1
        BY <1>12, <1>13, <2>0, <2>4
      <3> QED BY <1>8, <3>1
    <2>5. CASE b > k /\ a > k
      <3>1. /\ a - 1 \in 1 .. Len(n) /\ u[a] = n[a - 1] /\ b - 1 \in 1 .. Len(n) /\ u[b] = n[b - 1] /\ a - 1 < b - 1
        BY <1>12, <1>13, <2>0, <2>5
      <3> QED BY <1>8, <3>1
    <2> QED BY <1>12, <2>0, <2>1, <2>2, <2>3, <2>4, <2>5
  <1>16. \A j \in 1 .. Len(n) : n[j] = EntryOf(s.items, n[j].id)
    <2>1. DOMAIN n = 1 .. Len(n) BY <1>1
    <2> QED BY <2>1 DEF ListingSound, KeptSound, AreEntries, n
  <1>17. \A j \in 1 .. Len(u) : u[j] \in E /\ u[j] = EntryOf(s.items, u[j].id)
    <2> SUFFICES ASSUME NEW j \in 1 .. Len(u) PROVE u[j] \in E /\ u[j] = EntryOf(s.items, u[j].id) OBVIOUS
    <2>1. e = EntryOf(s.items, e.id) BY <1>4 DEF e
    <2>2. j < k \/ j = k \/ j > k BY <1>1, <1>10, <1>12
    <2> QED BY <1>4, <1>13, <1>14, <1>16, <2>1, <2>2
  <1>18. DOMAIN v = 1 .. Len(v) /\ DOMAIN u = 1 .. Len(u) /\ DOMAIN n = 1 .. Len(n) BY <1>1, <1>10, <1>11
  <1>27. (\A j \in 1 .. Len(u) : j \in Nat) /\ (\A j \in 1 .. Len(v) : j \in Nat) BY <1>1, <1>10, <1>11
  <1>28. \A j \in 1 .. Len(u) : j = k => u[j].id = s.id BY <1>4, <1>13
  <1>19. \A i : In(t, i) => In(s, i) \/ i = s.id
    <2> SUFFICES ASSUME NEW i, NEW j \in 1 .. Len(v), v[j].id = i, i # s.id PROVE In(s, i) BY <1>18 DEF In, v
    <2>1. j \in 1 .. Len(u) /\ u[j].id = i BY <1>11
    <2>2. j < k \/ j > k BY <1>1, <1>4, <1>10, <1>12, <1>13, <2>1
    <2>3. \E m \in 1 .. Len(n) : n[m].id = i BY <1>13, <2>1, <2>2
    <2> QED BY <1>18, <2>3 DEF In, n
  \* Where an entry of the page was before.
  <1> DEFINE Old(j) == IF j < k THEN j ELSE j - 1
  <1>20. \A a, b \in 1 .. Len(u) : a < b /\ a # k /\ b # k =>
            Old(a) \in 1 .. Len(n) /\ Old(b) \in 1 .. Len(n) /\ Old(a) < Old(b) /\ u[a] = n[Old(a)] /\ u[b] = n[Old(b)]
    <2> SUFFICES ASSUME NEW a \in 1 .. Len(u), NEW b \in 1 .. Len(u), a < b, a # k, b # k
                 PROVE  Old(a) \in 1 .. Len(n) /\ Old(b) \in 1 .. Len(n) /\ Old(a) < Old(b) /\ u[a] = n[Old(a)] /\ u[b] = n[Old(b)]
      OBVIOUS
    <2>0. a \in Nat /\ b \in Nat BY <1>27
    <2>1. CASE b < k BY <1>12, <1>13, <2>0, <2>1
    <2>2. CASE a > k BY <1>12, <1>13, <2>0, <2>2
    <2>3. CASE a < k /\ b > k BY <1>12, <1>13, <2>0, <2>3
    <2> QED BY <1>12, <2>0, <2>1, <2>2, <2>3
  <1>21. \A j \in 1 .. Len(u) : j # k => Old(j) \in 1 .. Len(n) /\ u[j] = n[Old(j)]
    <2> SUFFICES ASSUME NEW j \in 1 .. Len(u), j # k PROVE Old(j) \in 1 .. Len(n) /\ u[j] = n[Old(j)] OBVIOUS
    <2>0. j \in Nat BY <1>27
    <2> QED BY <1>12, <1>13, <2>0
  <1> HIDE DEF Old
  <1>22. \A i : Twice(t, i) => Twice(s, i) \/ (i = s.id /\ In(s, i))
    <2> SUFFICES ASSUME NEW i, NEW a \in 1 .. Len(v), NEW b \in 1 .. Len(v), a < b, v[a].id = i, v[b].id = i
                 PROVE  Twice(s, i) \/ (i = s.id /\ In(s, i))
      BY <1>18 DEF Twice, v
    <2>1. a \in 1 .. Len(u) /\ b \in 1 .. Len(u) /\ u[a].id = i /\ u[b].id = i BY <1>11
    <2>2. CASE a # k /\ b # k
      <3>1. Old(a) \in 1 .. Len(n) /\ Old(b) \in 1 .. Len(n) /\ Old(a) < Old(b) /\ n[Old(a)].id = i /\ n[Old(b)].id = i
        BY <1>20, <2>1, <2>2
      <3> QED BY <1>18, <3>1 DEF Twice, n
    <2>3. CASE a = k
      <3>1. b # k /\ i = s.id BY <1>27, <1>28, <2>1, <2>3
      <3>2. Old(b) \in 1 .. Len(n) /\ n[Old(b)].id = i BY <1>21, <2>1, <3>1
      <3> QED BY <1>18, <3>1, <3>2 DEF In, n
    <2>4. CASE b = k
      <3>1. a # k /\ i = s.id BY <1>27, <1>28, <2>1, <2>4
      <3>2. Old(a) \in 1 .. Len(n) /\ n[Old(a)].id = i BY <1>21, <2>1, <3>1
      <3> QED BY <1>18, <3>1, <3>2 DEF In, n
    <2> QED BY <2>2, <2>3, <2>4
  <1>23. \A i \in DOMAIN s.items : ~Due(t, i) /\ (ToCome(t, i) <=> ToCome(s, i)) BY DEF Due, ToCome
  <1>24. ~Twice(s, s.id) BY <1>2 DEF ListingSound, OnceOrTwice
  <1>25. \A a, b, c \in DOMAIN t.kept : a < b /\ b < c => t.kept[a].id # t.kept[b].id \/ t.kept[b].id # t.kept[c].id
    <2> SUFFICES ASSUME NEW a \in 1 .. Len(v), NEW b \in 1 .. Len(v), NEW c \in 1 .. Len(v), a < b, b < c,
                        v[a].id = v[b].id, v[b].id = v[c].id
                 PROVE  FALSE
      BY <1>18 DEF v
    <2>1. /\ a \in 1 .. Len(u) /\ b \in 1 .. Len(u) /\ c \in 1 .. Len(u) /\ u[a].id = u[b].id /\ u[b].id = u[c].id
          /\ a \in Nat /\ b \in Nat /\ c \in Nat
      BY <1>11, <1>27
    <2>2. ASSUME NEW x \in {a, b, c}, NEW y \in {a, b, c}, x < y, x # k, y # k, k \in {a, b, c} PROVE FALSE
      <3>1. Old(x) \in 1 .. Len(n) /\ Old(y) \in 1 .. Len(n) /\ Old(x) < Old(y) /\ n[Old(x)] = u[x] /\ n[Old(y)] = u[y]
        BY <1>20, <2>1, <2>2
      <3>2. u[a].id = u[k].id /\ u[b].id = u[k].id /\ u[c].id = u[k].id BY <2>1, <2>2
      <3>3. k \in 1 .. Len(u) /\ u[k].id = s.id BY <1>28, <2>1, <2>2
      <3>4. u[x].id = s.id /\ u[y].id = s.id BY <3>2, <3>3
      <3>5. Twice(s, s.id) BY <1>18, <3>1, <3>4 DEF Twice, n
      <3> QED BY <1>24, <3>5
    <2>3. CASE k \notin {a, b, c}
      <3>1. /\ Old(a) \in 1 .. Len(n) /\ Old(b) \in 1 .. Len(n) /\ Old(c) \in 1 .. Len(n) /\ Old(a) < Old(b) /\ Old(b) < Old(c)
            /\ n[Old(a)] = u[a] /\ n[Old(b)] = u[b] /\ n[Old(c)] = u[c]
        BY <1>20, <2>1, <2>3
      <3>2. \A j, m, o \in 1 .. Len(n) : j < m /\ m < o => n[j].id # n[m].id \/ n[m].id # n[o].id
        BY <1>18 DEF ListingSound, OnceOrTwice, n
      <3> QED BY <2>1, <3>1, <3>2, SMTT(30)
    <2>4. CASE k = a BY <2>1, <2>2, <2>4
    <2>5. CASE k = b
      <3>1. a < c /\ a # k /\ c # k BY <2>1, <2>5
      <3> QED BY <2>2, <2>5, <3>1
    <2>6. CASE k = c BY <2>1, <2>2, <2>6
    <2> QED BY <2>3, <2>4, <2>5, <2>6
  <1>26. OnceOrTwice(q, t)
    <2> SUFFICES ASSUME NEW i \in DOMAIN s.items
                 PROVE  /\ Twice(t, i) => ~Due(t, i) /\ ~ToCome(t, i)
                        /\ In(t, i) => ~(Due(t, i) /\ ToCome(t, i))
                        /\ q.items[i].sidecar = "live" =>
                             ~Twice(t, i) /\ (In(t, i) => ~Due(t, i) /\ ~ToCome(t, i)) /\ ~(Due(t, i) /\ ToCome(t, i))
                        /\ t.items[i].sidecar = "pending" \/ t.items[i].at = 0 => ~In(t, i) /\ ~Due(t, i)
      BY <1>25 DEF OnceOrTwice
    <2>1. CASE i = s.id
      BY <1>2, <1>19, <1>22, <1>23, <1>24, <2>1 DEF ListingSound, OnceOrTwice
    <2>2. CASE i # s.id
      BY <1>19, <1>22, <1>23, <2>2 DEF ListingSound, OnceOrTwice
    <2> QED BY <2>1, <2>2
  <1>29. KeptSound(q, t)
    <2>1. AreEntries(v, s.items)
      <3>1. \A j \in 1 .. Len(v) : v[j] = EntryOf(s.items, v[j].id) BY <1>11, <1>17
      <3> QED BY <1>11, <1>18, <3>1 DEF AreEntries, EntriesOf, E
    <2>2. \A a, b \in 1 .. Len(v) : a < b => ~Before(v[b], v[a]) BY <1>11, <1>15
    <2>3. ASSUME NEW j \in 1 .. Len(v), NEW p \in s.after PROVE IsAfter(v[j], p)
      <3>1. j \in 1 .. Len(u) /\ v[j] = u[j] BY <1>11
      <3>2. \A m \in 1 .. Len(n) : IsAfter(n[m], p) BY <1>18 DEF ListingSound, KeptSound, n
      <3>3. IsAfter(e, p) BY DEF e
      <3> QED BY <1>13, <1>21, <3>1, <3>2, <3>3
    <2>4. t.pc # "between" /\ t.after = IF t.listed = <<>> THEN {} ELSE {Last(t.listed)} BY DEF ListingSound, KeptSound
    <2> QED BY <1>11, <1>18, <2>1, <2>2, <2>3, <2>4 DEF KeptSound, v
  <1>30. NoneLost(q, t)
    <2> SUFFICES ASSUME NEW i \in s.steady, \A j \in DOMAIN s.listed : s.listed[j].id # i PROVE Ahead(t, i, q.limit)
      BY DEF NoneLost
    <2> DEFINE x == EntryOf(s.items, i)
    <2>1. (\A p \in s.after : IsAfter(x, p)) /\ Reached(s, i, q.limit)
      BY DEF ListingSound, NoneLost, Ahead
    <2>2. SUFFICES Reached(t, i, q.limit) BY <2>1 DEF Ahead
    <2>3. x \in E BY KeptAre DEF E
    <2> HIDE DEF x
    <2>4. ASSUME NEW j \in 1 .. Len(u), u[j].id = i PROVE Reached(t, i, q.limit)
      <3>1. CASE j <= Len(v)
        <4>0. j \in 1 .. Len(v)
          <5>1. Len(v) \in Nat /\ Len(u) \in Nat BY <1>1, <1>10, <1>11
          <5> QED BY <3>1, <5>1
        <4>1. j \in 1 .. Len(v) /\ v[j].id = i BY <1>11, <2>4, <4>0
        <4>2. In(t, i) BY <1>18, <4>1 DEF In, v
        <4> QED BY <4>2 DEF Reached
      <3>2. CASE j > Len(v)
        <4>1. Len(v) = K /\ K \in 1 .. Len(u) /\ K < j /\ K \in 1 .. Len(v) BY <1>5, <1>10, <1>11, <1>27, <3>2
        <4>2. u[j] = x BY <1>17, <2>4 DEF x
        <4>3. ~Before(x, u[K]) BY <1>15, <4>1, <4>2
        <4>4. u[K] \in E /\ v[K] = u[K] BY <1>11, <1>17, <4>1
        <4>5. Before(u[K], x) \/ u[K] = x BY <1>1, <2>3, <4>3, <4>4, OneOrder
        <4>6. CASE Before(u[K], x) BY <4>1, <4>4, <4>6 DEF Reached, K, v, x
        <4>7. CASE u[K] = x
          <5>1. In(t, i) BY <1>18, <2>4, <4>1, <4>2, <4>4, <4>7 DEF In, v
          <5> QED BY <5>1 DEF Reached
        <4> QED BY <4>5, <4>6, <4>7
      <3> QED BY <1>11, <1>27, <3>1, <3>2
    <2>5. CASE i \in s.scan BY <2>5 DEF Reached
    <2>6. CASE i = s.id
      <3>1. k \in 1 .. Len(u) /\ u[k].id = i BY <1>1, <1>10, <1>12, <1>28, <2>6
      <3> QED BY <2>4, <3>1
    <2>7. CASE In(s, i)
      <3>1. PICK m \in 1 .. Len(n) : n[m].id = i BY <1>18, <2>7 DEF In, n
      <3>2. m \in Nat BY <1>1
      <3>3. CASE m < k
        <4>0. m \in 1 .. Len(u) BY <1>1, <1>10, <3>1, <3>2
        <4>1. m \in 1 .. Len(u) /\ u[m] = n[m] BY <1>13, <3>3, <4>0
        <4> QED BY <2>4, <3>1, <4>1
      <3>4. CASE m >= k
        <4>1. m + 1 \in 1 .. Len(u) /\ m + 1 > k /\ (m + 1) - 1 = m BY <1>1, <1>10, <1>12, <3>1, <3>2, <3>4
        <4>2. u[m + 1] = n[m] BY <1>13, <4>1
        <4> QED BY <2>4, <3>1, <4>1, <4>2
      <3> QED BY <1>12, <3>2, <3>3, <3>4
    <2>8. CASE Len(n) >= K /\ Before(n[K], x)
      <3>1. K \in 1 .. Len(n) /\ K \in 1 .. Len(u) BY <1>1, <1>5, <1>10, <2>8
      <3>2. n[K] \in E /\ u[K] \in E BY <1>14, <1>17, <3>1
      <3>3. Before(u[K], x)
        <4>1. CASE K < k BY <1>13, <2>8, <3>1, <4>1
        <4>2. CASE K = k
          <5>1. u[K] = e /\ Before(e, n[K]) BY <1>5, <1>7, <1>13, <3>1, <4>2
          <5> QED BY <1>1, <1>4, <2>3, <2>8, <3>2, <5>1, OneOrder
        <4>3. CASE K > k
          <5>1. u[K] = n[K - 1] /\ K - 1 \in 1 .. Len(n) /\ K - 1 < K BY <1>5, <1>13, <3>1, <4>3
          <5>2. ~Before(n[K], n[K - 1]) BY <1>8, <3>1, <5>1
          <5> QED BY <1>1, <2>3, <2>8, <3>2, <5>1, <5>2, OneOrder
        <4> QED BY <1>5, <1>12, <4>1, <4>2, <4>3
      <3>4. Len(v) >= K /\ K \in 1 .. Len(v) BY <1>1, <1>5, <1>10, <1>11, <2>8
      <3>5. v[K] = u[K] BY <1>11, <3>4
      <3> QED BY <3>3, <3>4, <3>5 DEF Reached, K, v, x
    <2> QED BY <2>1, <2>5, <2>6, <2>7, <2>8 DEF Reached, K, n, x
  <1>31. ItemsSound(q, t) BY DEF ListingSound, ItemsSound
  <1>32. ListedSound(q, t) BY DEF ListingSound, ListedSound
  <1> QED BY <1>5, <1>26, <1>29, <1>30, <1>31, <1>32 DEF ListingSound, IsListing

\* The page of the items that are kept.
LEMMA PageIs ==
  ASSUME NEW S, NEW u \in Seq(S), NEW limit \in Nat
  PROVE  /\ Page(u, limit) \in Seq(S) /\ Len(Page(u, limit)) = IF limit < Len(u) THEN limit ELSE Len(u)
         /\ \A j \in 1 .. Len(Page(u, limit)) : Page(u, limit)[j] = u[j] /\ j \in 1 .. Len(u)
  <1> DEFINE m == IF limit < Len(u) THEN limit ELSE Len(u)
  <1>1. m \in 0 .. Len(u) /\ Len(u) \in Nat OBVIOUS
  <1>2. Page(u, limit) = SubSeq(u, 1, m) BY DEF Page, Least
  <1> HIDE DEF m
  <1>3. SubSeq(u, 1, m) \in Seq(S) /\ Len(SubSeq(u, 1, m)) = m /\ \A j \in 1 .. m : SubSeq(u, 1, m)[j] = u[j]
    BY <1>1
  <1>4. \A j \in 1 .. m : j \in 1 .. Len(u) BY <1>1
  <1> QED BY <1>2, <1>3, <1>4 DEF m

\* What is listed with the page that is at its end: it is in order, and what stayed and
\* is not among it comes after it, on a page that follows.
LEMMA PageEnds ==
  ASSUME NEW q, ListingQuestion(q), NEW s, ListingSound(q, s), s.pc = "scan", s.scan = {}
  PROVE  LET l == s.listed \o Page(s.kept, q.limit) IN
         /\ AreEntries(l, s.items) /\ InOrder(l, q.items)
         /\ \A i \in s.steady : \/ \E j \in DOMAIN l : l[j].id = i
                               \/ /\ Len(s.kept) > q.limit
                                  /\ Before(Last(l), EntryOf(s.items, i))
         /\ Len(s.kept) > q.limit => l # <<>>
  <1> DEFINE E == EntriesOf(s.items)
             n == s.kept
             p == Page(n, q.limit)
             old == s.listed
             L == Len(old)
             l == old \o p
  <1>1. /\ n \in Seq(E) /\ old \in Seq(E) /\ E \subseteq [id : Nat, at : Nat] /\ Len(n) \in Nat /\ L \in Nat
        /\ q.limit \in Nat /\ q.limit >= 1
    BY KeptAre DEF ListingSound
  <1>2. \A a, b \in 1 .. Len(n) : a < b => ~Before(n[b], n[a])
    <2>1. DOMAIN n = 1 .. Len(n) BY <1>1
    <2> QED BY <2>1 DEF ListingSound, KeptSound
  <1>3. /\ \A j \in 1 .. L : old[j] = EntryOf(s.items, old[j].id)
        /\ \A j \in 1 .. Len(n) : n[j] = EntryOf(s.items, n[j].id)
    <2>1. DOMAIN n = 1 .. Len(n) /\ DOMAIN old = 1 .. Len(old) BY <1>1
    <2> QED BY <2>1 DEF ListingSound, KeptSound, ListedSound, AreEntries
  <1>4. \A j, k \in 1 .. L : j < k =>
          Before(old[j], old[k]) \/ (k = j + 1 /\ old[j] = old[k] /\ q.items[old[j].id].sidecar # "live")
    <2>1. DOMAIN old = 1 .. Len(old) BY <1>1
    <2> QED BY <2>1 DEF ListingSound, ListedSound, InOrder
  <1>5. \A j \in 1 .. Len(n) : L > 0 => Before(old[L], n[j])
    <2>1. DOMAIN n = 1 .. Len(n) BY <1>1
    <2>2. L > 0 => s.after = {old[L]} BY <1>1 DEF ListingSound, KeptSound, Last
    <2> QED BY <2>1, <2>2 DEF ListingSound, KeptSound, IsAfter
  <1>6. \A j, k, m \in 1 .. Len(n) : j < k /\ k < m => n[j].id # n[k].id \/ n[k].id # n[m].id
    <2>1. DOMAIN n = 1 .. Len(n) BY <1>1
    <2> QED BY <2>1 DEF ListingSound, OnceOrTwice
  <1>7. \A j, k \in 1 .. Len(n) : j < k /\ n[j] = n[k] => q.items[n[j].id].sidecar # "live"
    <2> SUFFICES ASSUME NEW j \in 1 .. Len(n), NEW k \in 1 .. Len(n), j < k, n[j] = n[k] PROVE q.items[n[j].id].sidecar # "live"
      OBVIOUS
    <2>1. DOMAIN n = 1 .. Len(n) BY <1>1
    <2>2. Twice(s, n[j].id) BY <2>1 DEF Twice
    <2>3. n[j] \in E BY <1>1
    <2>4. n[j].id \in DOMAIN s.items BY <2>3 DEF EntriesOf
    <2> QED BY <2>2, <2>4 DEF ListingSound, OnceOrTwice
  <1>8. \A i \in s.steady :
          \/ \E j \in 1 .. L : old[j].id = i
          \/ \E j \in 1 .. Len(n) : n[j].id = i
          \/ Len(n) >= q.limit + 1 /\ Before(n[q.limit + 1], EntryOf(s.items, i))
    <2>1. DOMAIN n = 1 .. Len(n) /\ DOMAIN old = 1 .. L BY <1>1
    <2> SUFFICES ASSUME NEW i \in s.steady, ~\E j \in 1 .. L : old[j].id = i
                 PROVE  \/ \E j \in 1 .. Len(n) : n[j].id = i
                        \/ Len(n) >= q.limit + 1 /\ Before(n[q.limit + 1], EntryOf(s.items, i))
      OBVIOUS
    <2>2. Reached(s, i, q.limit) BY <2>1 DEF ListingSound, NoneLost, Ahead
    <2> QED BY <2>1, <2>2 DEF Reached, In, KeepOf
  <1>9. \A i \in s.steady : EntryOf(s.items, i) \in E BY KeptAre
  <1>10. \A j \in 1 .. L : old[j] \in E BY <1>1
  <1>11. \A j \in 1 .. Len(n) : n[j] \in E BY <1>1
  <1> HIDE DEF E, n, old, L
  <1>12. /\ p \in Seq(E) /\ Len(p) = (IF q.limit < Len(n) THEN q.limit ELSE Len(n)) /\ Len(p) \in Nat
         /\ \A j \in 1 .. Len(p) : p[j] = n[j] /\ j \in 1 .. Len(n)
    <2>1. /\ p \in Seq(E) /\ Len(p) = IF q.limit < Len(n) THEN q.limit ELSE Len(n)
          /\ \A j \in 1 .. Len(p) : p[j] = n[j] /\ j \in 1 .. Len(n)
      BY <1>1, PageIs
    <2> QED BY <1>1, <2>1
  <1> HIDE DEF p
  <1>13. /\ l \in Seq(E) /\ Len(l) = L + Len(p)
         /\ \A j \in 1 .. L : l[j] = old[j]
         /\ \A j \in L + 1 .. L + Len(p) : l[j] = p[j - L]
    <2>1. old \in Seq(E) /\ p \in Seq(E) BY <1>1, <1>12
    <2>2. /\ old \o p \in Seq(E) /\ Len(old \o p) = Len(old) + Len(p)
          /\ \A j \in 1 .. Len(old) : (old \o p)[j] = old[j]
          /\ \A j \in Len(old) + 1 .. Len(old) + Len(p) : (old \o p)[j] = p[j - Len(old)]
      BY <2>1, JoinIs
    <2> QED BY <2>2 DEF L
  <1> HIDE DEF l
  <1>14. DOMAIN l = 1 .. L + Len(p) BY <1>13
  <1>15. \A j \in 1 .. L + Len(p) :
           \/ j \in 1 .. L /\ l[j] = old[j]
           \/ j > L /\ j - L \in 1 .. Len(n) /\ j - L \in 1 .. Len(p) /\ l[j] = n[j - L]
    <2> SUFFICES ASSUME NEW j \in 1 .. L + Len(p), j \notin 1 .. L
                 PROVE  j > L /\ j - L \in 1 .. Len(n) /\ j - L \in 1 .. Len(p) /\ l[j] = n[j - L]
      BY <1>13
    <2>0. L \in Nat /\ Len(p) \in Nat BY <1>1, <1>12
    <2>1. j > L /\ j - L \in 1 .. Len(p) /\ j \in L + 1 .. L + Len(p) BY <2>0
    <2> QED BY <1>12, <1>13, <2>1
  <1>16. \A j \in 1 .. L + Len(p) : j \in Nat BY <1>1, <1>12
  <1>17. AreEntries(l, s.items)
    <2>1. \A j \in 1 .. L + Len(p) : l[j] = EntryOf(s.items, l[j].id) BY <1>3, <1>15
    <2> QED BY <1>13, <1>14, <2>1 DEF AreEntries, E, EntriesOf
  <1>18. InOrder(l, q.items)
    <2> SUFFICES ASSUME NEW j \in 1 .. L + Len(p), NEW k \in 1 .. L + Len(p), j < k
                 PROVE  \/ Before(l[j], l[k])
                        \/ k = j + 1 /\ l[j] = l[k] /\ q.items[l[j].id].sidecar # "live"
      BY <1>14 DEF InOrder
    <2>1. CASE k \in 1 .. L
      <3>1. j \in 1 .. L BY <1>1, <1>16, <2>1
      <3> QED BY <1>4, <1>13, <2>1, <3>1
    <2>2. CASE j \in 1 .. L /\ k \notin 1 .. L
      <3>1. k - L \in 1 .. Len(n) /\ l[k] = n[k - L] /\ l[j] = old[j] BY <1>13, <1>15, <2>2
      <3>2. L \in 1 .. L /\ L > 0 /\ (j = L \/ j < L) BY <1>1, <2>2
      <3>3. Before(old[L], l[k]) BY <1>5, <3>1, <3>2
      <3>4. j < L => Before(old[j], old[L]) \/ old[j] = old[L] BY <1>4, <2>2, <3>2
      <3>5. {old[j], old[L], l[k]} \subseteq [id : Nat, at : Nat] BY <1>1, <1>10, <1>11, <2>2, <3>1, <3>2
      <3>6. Before(old[j], old[L]) => Before(old[j], l[k]) BY <3>3, <3>5, OneOrder
      <3> QED BY <3>1, <3>2, <3>3, <3>4, <3>6
    <2>3. CASE j \notin 1 .. L /\ k \notin 1 .. L
      <3>1. /\ j - L \in 1 .. Len(n) /\ l[j] = n[j - L] /\ k - L \in 1 .. Len(n) /\ l[k] = n[k - L]
        BY <1>15, <2>3
      <3> DEFINE a == j - L
                 b == k - L
      <3>2. a < b /\ a \in Nat /\ b \in Nat /\ (b = a + 1 => k = j + 1) BY <1>1, <1>16, <3>1
      <3>3. a \in 1 .. Len(n) /\ b \in 1 .. Len(n) /\ l[j] = n[a] /\ l[k] = n[b] BY <3>1
      <3> HIDE DEF a, b
      <3>4. ~Before(n[b], n[a]) BY <1>2, <3>2, <3>3
      <3>5. {n[a], n[b]} \subseteq [id : Nat, at : Nat] BY <1>1, <1>11, <3>3
      <3>6. Before(n[a], n[b]) \/ n[a] = n[b] BY <3>4, <3>5, OneOrder
      <3>7. ASSUME n[a] = n[b] PROVE b = a + 1
        <4> SUFFICES ASSUME b # a + 1 PROVE FALSE OBVIOUS
        <4>0. Len(n) \in Nat /\ b \in 1 .. Len(n) BY <1>1, <3>3
        <4>1. a + 1 \in 1 .. Len(n) /\ a < a + 1 /\ a + 1 < b BY <3>2, <4>0
        <4>2. ~Before(n[a + 1], n[a]) /\ ~Before(n[b], n[a + 1]) BY <1>2, <3>3, <4>1
        <4>3. n[a + 1] \in [id : Nat, at : Nat] BY <1>1, <1>11, <4>1
        <4>4. n[a + 1] = n[a] BY <3>5, <3>7, <4>2, <4>3, OneOrder
        <4> QED BY <1>6, <3>3, <3>7, <4>1, <4>4
      <3> QED BY <1>7, <3>2, <3>3, <3>6, <3>7
    <2> QED BY <2>1, <2>2, <2>3
  <1>19. ASSUME Len(n) > q.limit
         PROVE  /\ q.limit \in 1 .. Len(n) /\ Len(p) = q.limit /\ Last(l) = n[q.limit] /\ l # <<>>
                /\ L + q.limit \in 1 .. L + Len(p)
    <2>1. Len(p) = q.limit /\ q.limit \in 1 .. Len(n) BY <1>1, <1>12, <1>19
    <2>2. L + q.limit \in 1 .. L + Len(p) /\ L + q.limit > L /\ (L + q.limit) - L = q.limit BY <1>1, <2>1
    <2>3. L + q.limit \notin 1 .. L BY <1>1, <2>2
    <2>4. l[L + q.limit] = n[q.limit] BY <1>15, <2>2, <2>3
    <2>5. Len(l) = L + q.limit /\ Len(l) > 0 BY <1>1, <1>13, <2>1
    <2>6. Last(l) = n[q.limit] BY <2>4, <2>5 DEF Last
    <2> QED BY <2>1, <2>2, <2>5, <2>6
  <1>20. ASSUME NEW i \in s.steady, ~\E j \in DOMAIN l : l[j].id = i
         PROVE  Len(n) > q.limit /\ Before(Last(l), EntryOf(s.items, i))
    <2> DEFINE x == EntryOf(s.items, i)
    <2>1. x \in E BY <1>9
    <2>2. ~\E j \in 1 .. L : old[j].id = i
      <3> SUFFICES ASSUME NEW j \in 1 .. L PROVE old[j].id # i OBVIOUS
      <3>1. j \in 1 .. L + Len(p) /\ l[j] = old[j]
        <4>1. L \in Nat /\ Len(p) \in Nat BY <1>1, <1>12
        <4> QED BY <1>13, <4>1
      <3> QED BY <1>14, <1>20, <3>1
    <2>3. \A m \in 1 .. Len(p) : n[m].id # i
      <3> SUFFICES ASSUME NEW m \in 1 .. Len(p) PROVE n[m].id # i OBVIOUS
      <3>1. L + m \in L + 1 .. L + Len(p) /\ L + m \in 1 .. L + Len(p) /\ (L + m) - L = m BY <1>1, <1>12
      <3>2. l[L + m] = n[m] BY <1>12, <1>13, <3>1
      <3> QED BY <1>14, <1>20, <3>1, <3>2
    <2>4. CASE \E j \in 1 .. Len(n) : n[j].id = i
      <3>1. PICK j \in 1 .. Len(n) : n[j].id = i BY <2>4
      <3>2. ~(j \in 1 .. Len(p)) BY <2>3, <3>1
      <3>3. Len(n) > q.limit /\ q.limit < j BY <1>1, <1>12, <3>1, <3>2
      <3>4. q.limit \in 1 .. Len(n) /\ q.limit \in 1 .. Len(p) /\ Last(l) = n[q.limit] BY <1>1, <1>19, <3>3
      <3>5. n[j] = x /\ ~Before(n[j], n[q.limit]) /\ n[q.limit].id # i BY <1>2, <1>3, <2>3, <3>1, <3>3, <3>4
      <3>6. n[j] # n[q.limit] BY <3>1, <3>5
      <3>7. {n[j], n[q.limit]} \subseteq [id : Nat, at : Nat] BY <1>1, <1>11, <3>1, <3>4
      <3>8. Before(n[q.limit], n[j]) BY <3>5, <3>6, <3>7, OneOrder
      <3> QED BY <3>3, <3>4, <3>5, <3>8
    <2>5. CASE Len(n) >= q.limit + 1 /\ Before(n[q.limit + 1], x)
      <3>1. Len(n) > q.limit /\ q.limit + 1 \in 1 .. Len(n) /\ q.limit < q.limit + 1 BY <1>1, <2>5, SMTT(30)
      <3>2. q.limit \in 1 .. Len(n) /\ Last(l) = n[q.limit] BY <1>19, <3>1
      <3>3. ~Before(n[q.limit + 1], n[q.limit]) BY <1>2, <3>1, <3>2
      <3>4. {n[q.limit], n[q.limit + 1], x} \subseteq [id : Nat, at : Nat] BY <1>1, <1>11, <2>1, <3>1, <3>2
      <3>5. Before(n[q.limit], x) BY <2>5, <3>3, <3>4, OneOrder
      <3> QED BY <3>1, <3>2, <3>5
    <2> QED BY <1>8, <2>2, <2>4, <2>5
  <1> QED BY <1>17, <1>18, <1>19, <1>20 DEF l, p, n, old

\* A page is at its end, and another follows.
LEMMA PageTurns ==
  ASSUME NEW q, ListingQuestion(q), NEW s, NEW t, ListingSound(q, s), IsListing(t), s.pc = "scan", s.scan = {},
         t.pc = "between", t.kept = <<>>, t.listed = s.listed \o Page(s.kept, q.limit), Len(s.kept) > q.limit,
         t.scan = s.scan, t.after = s.after, t.items = s.items, t.id = s.id, t.steady = s.steady
  PROVE  ListingSound(q, t)
  <1>1. ItemsSound(q, t) BY DEF ListingSound, ItemsSound
  <1>2. /\ AreEntries(t.listed, s.items) /\ InOrder(t.listed, q.items) /\ t.listed # <<>>
        /\ \A i \in s.steady : (\E j \in DOMAIN t.listed : t.listed[j].id = i) \/ Before(Last(t.listed), EntryOf(s.items, i))
    BY PageEnds
  <1>3. KeptSound(q, t)
    <2>1. Len(<<>>) = 0 /\ DOMAIN <<>> = {} /\ \A S : <<>> \in Seq(S) OBVIOUS
    <2>2. CompactAt(q.limit) \in Nat /\ CompactAt(q.limit) > 0
      <3>1. q.limit \in Nat \ {0} /\ CompactMin \in Nat BY ListingAssumption DEF ListingSound
      <3> QED BY <3>1 DEF CompactAt, KeepOf
    <2> QED BY <1>2, <2>1, <2>2 DEF KeptSound, AreEntries
  <1>4. ListedSound(q, t) BY <1>2 DEF ListedSound
  <1>5. OnceOrTwice(q, t)
    <2>1. DOMAIN t.kept = {} OBVIOUS
    <2>2. \A i : ~In(t, i) /\ ~Twice(t, i) /\ ~Due(t, i) BY <2>1 DEF In, Twice, Due
    <2> QED BY <2>1, <2>2 DEF OnceOrTwice
  <1>6. NoneLost(q, t) BY <1>2 DEF NoneLost, Ahead
  <1> QED BY <1>1, <1>3, <1>4, <1>5, <1>6 DEF ListingSound, IsListing

\* The next page starts after the last item that is listed.
LEMMA PageFollows ==
  ASSUME NEW q, NEW s, NEW t, ListingSound(q, s), IsListing(t), s.pc = "between", t.pc = "scan",
         t.scan = SidecarsIn(s.items), t.after = {Last(s.listed)}, t.kept = s.kept, t.listed = s.listed,
         t.items = s.items, t.id = s.id, t.steady = s.steady
  PROVE  ListingSound(q, t)
  <1>0. s.kept = <<>> /\ s.listed # <<>> BY DEF ListingSound, KeptSound
  <1>1. ItemsSound(q, t) BY DEF ListingSound, ItemsSound, SidecarsIn
  <1>2. KeptSound(q, t)
    <2>1. DOMAIN s.kept = {} BY <1>0
    <2> QED BY <1>0, <2>1 DEF ListingSound, KeptSound
  <1>3. ListedSound(q, t) BY DEF ListingSound, ListedSound
  <1>4. OnceOrTwice(q, t)
    <2>1. DOMAIN t.kept = {} BY <1>0
    <2>2. \A i : ~In(t, i) /\ ~Twice(t, i) /\ ~Due(t, i) BY <2>1 DEF In, Twice, Due
    <2> QED BY <2>1, <2>2 DEF OnceOrTwice
  <1>5. NoneLost(q, t)
    <2> SUFFICES ASSUME NEW i \in s.steady, \A j \in DOMAIN s.listed : s.listed[j].id # i PROVE Ahead(t, i, q.limit)
      BY DEF NoneLost
    <2>1. Before(Last(s.listed), EntryOf(s.items, i)) BY DEF ListingSound, NoneLost, Ahead
    <2>2. i \in t.scan BY DEF ListingSound, ItemsSound, Published, SidecarsIn
    <2> QED BY <2>1, <2>2 DEF Ahead, Reached, IsAfter
  <1> QED BY <1>1, <1>2, <1>3, <1>4, <1>5 DEF ListingSound, IsListing

\* The first page starts with nothing listed.
LEMMA PageStarts ==
  ASSUME NEW q, ListingQuestion(q), NEW t, IsListing(t), q.limit \in Nat \ {0}, t.pc = "scan",
         t.scan = SidecarsIn(q.items), t.after = {}, t.kept = <<>>, t.listed = <<>>, t.items = q.items,
         t.steady = {i \in DOMAIN q.items : Published(q.items[i])}
  PROVE  ListingSound(q, t)
  <1>0. DOMAIN <<>> = {} /\ Len(<<>>) = 0 /\ \A S : <<>> \in Seq(S) OBVIOUS
  <1>1. ItemsSound(q, t)
    <2>1. \A i \in DOMAIN q.items : q.items[i].sidecar = "live" => q.items[i].at # 0 /\ q.items[i].sidecar # "pending"
      BY DEF ListingQuestion, IsItem
    <2> QED BY <2>1 DEF ListingQuestion, ItemsSound, SidecarsIn
  <1>2. KeptSound(q, t)
    <2>1. CompactAt(q.limit) \in Nat /\ CompactAt(q.limit) > 0
      <3>1. CompactMin \in Nat BY ListingAssumption
      <3> QED BY <3>1 DEF CompactAt, KeepOf
    <2> QED BY <1>0, <2>1 DEF KeptSound, AreEntries
  <1>3. ListedSound(q, t) BY <1>0 DEF ListedSound, AreEntries, InOrder
  <1>4. OnceOrTwice(q, t)
    <2>2. \A i : ~In(t, i) /\ ~Twice(t, i) /\ ~Due(t, i) BY <1>0 DEF In, Twice, Due
    <2> QED BY <1>0, <2>2 DEF OnceOrTwice
  <1>5. NoneLost(q, t)
    <2> SUFFICES ASSUME NEW i \in t.steady PROVE Ahead(t, i, q.limit) BY DEF NoneLost
    <2>1. i \in t.scan BY DEF Published, SidecarsIn
    <2> QED BY <2>1 DEF Ahead, Reached
  <1> QED BY <1>1, <1>2, <1>3, <1>4, <1>5 DEF ListingSound, IsListing

\* What one call of another operation makes of an item.
OnlyItem(some, items, m, new) ==
    /\ some = [i \in DOMAIN items |-> some[i]]
    /\ some[m] = new /\ \A i \in DOMAIN items : i # m => some[i] = items[i]
MovedTo(old, new, names) ==
    /\ IsItem(new)
    /\ \/ old.at = 0 /\ old.sidecar = "absent" /\ new.sidecar = "pending" /\ new.at # 0
       \/ /\ new.at = old.at
          /\ \/ old.sidecar = "pending" /\ new.sidecar \in {"pending", "live"}
             \/ old.sidecar \in {"live", "purging"} /\ new.sidecar \in {"purging", "absent"}
             \/ old.sidecar = "live" /\ new.sidecar = "live" /\ names = {}
Beside(s, t, m, new, names) ==
    /\ OnlyItem(t.items, s.items, m, new) /\ t.steady = s.steady \ {m} /\ t.scan = s.scan \cup names
    /\ t.pc = s.pc /\ t.kept = s.kept /\ t.after = s.after /\ t.listed = s.listed /\ t.id = s.id

\* Whatever the others do, what stays is still to be listed, and nothing once more.
LEMMA OthersMove ==
  ASSUME NEW q, NEW s, NEW t, NEW m, NEW new, NEW names, ListingSound(q, s), IsListing(t), m \in DOMAIN s.items,
         names = {} \/ names = {m},
         MovedTo(s.items[m], new, names), Beside(s, t, m, new, names)
  PROVE  ListingSound(q, t)
  <1> USE DEF Beside
  <1> DEFINE old == s.items[m]
  <1>1. /\ s.items = [i \in DOMAIN q.items |-> s.items[i]] /\ DOMAIN s.items = DOMAIN q.items
        /\ s.steady \subseteq DOMAIN s.items /\ s.scan \subseteq DOMAIN s.items
        /\ \A i \in DOMAIN s.items : IsItem(s.items[i])
    BY DEF ListingSound, ItemsSound
  <1>2. /\ DOMAIN t.items = DOMAIN s.items /\ t.items[m] = new /\ \A i \in DOMAIN s.items : i # m => t.items[i] = s.items[i]
        /\ t.items = [i \in DOMAIN q.items |-> t.items[i]]
    BY <1>1 DEF OnlyItem
  <1>3. IsItem(new) /\ (new.at = old.at \/ (old.at = 0 /\ old.sidecar = "absent")) BY DEF MovedTo
  <1>4. ItemsSound(q, t)
    <2>1. \A i \in DOMAIN t.items : IsItem(t.items[i]) BY <1>1, <1>2, <1>3
    <2>2. q.items[m].sidecar = "live" => new.at # 0 /\ new.sidecar # "pending"
      BY DEF ListingSound, ItemsSound, MovedTo
    <2>3. \A i \in DOMAIN t.items : q.items[i].sidecar = "live" => t.items[i].at # 0 /\ t.items[i].sidecar # "pending"
      BY <1>2, <2>2 DEF ListingSound, ItemsSound
    <2>4. t.steady \subseteq DOMAIN t.items /\ \A i \in t.steady : Published(t.items[i])
      BY <1>1, <1>2 DEF ListingSound, ItemsSound
    <2>5. t.scan \subseteq DOMAIN t.items BY <1>1, <1>2
    <2>6. t.pc \in {"sidecar", "payload"} => t.id \in DOMAIN t.items BY <1>2 DEF ListingSound, ItemsSound
    <2> QED BY <1>2, <2>1, <2>3, <2>4, <2>5, <2>6 DEF ItemsSound
  <1>5. \A i \in DOMAIN s.items : s.items[i].at # 0 => EntryOf(t.items, i) = EntryOf(s.items, i)
    BY <1>2, <1>3 DEF EntryOf
  <1>6. ASSUME NEW l, AreEntries(l, s.items) PROVE AreEntries(l, t.items)
    <2>1. l \in Seq([id : DOMAIN s.items, at : Nat \ {0}]) /\ \A k \in DOMAIN l : l[k] = EntryOf(s.items, l[k].id)
      BY <1>6 DEF AreEntries
    <2>2. ASSUME NEW k \in DOMAIN l PROVE l[k] = EntryOf(t.items, l[k].id)
      <3>0. \A S : l \in Seq(S) => l[k] \in S OBVIOUS
      <3>1. l[k] \in [id : DOMAIN s.items, at : Nat \ {0}] /\ l[k] = EntryOf(s.items, l[k].id) BY <2>1, <3>0
      <3>2. l[k].id \in DOMAIN s.items /\ l[k].at # 0 /\ l[k].at = s.items[l[k].id].at
        <4>1. EntryOf(s.items, l[k].id).at = s.items[l[k].id].at BY DEF EntryOf
        <4> QED BY <3>1, <4>1
      <3> QED BY <1>5, <3>1, <3>2
    <2> QED BY <1>2, <2>1, <2>2 DEF AreEntries
  <1>7. KeptSound(q, t)
    <2>1. AreEntries(t.kept, t.items) BY <1>6 DEF ListingSound, KeptSound
    <2> QED BY <2>1 DEF ListingSound, KeptSound
  <1>8. ListedSound(q, t)
    <2>1. AreEntries(t.listed, t.items) BY <1>6 DEF ListingSound, ListedSound
    <2> QED BY <2>1 DEF ListingSound, ListedSound
  <1>9. OnceOrTwice(q, t)
    <2>1. \A i : (Twice(t, i) <=> Twice(s, i)) /\ (In(t, i) <=> In(s, i)) BY DEF Twice, In
    <2>2. \A i \in DOMAIN s.items : i # m => (Due(t, i) <=> Due(s, i)) /\ (ToCome(t, i) <=> ToCome(s, i))
      BY <1>2 DEF Due, ToCome
    <2>3. \A j, k, o \in DOMAIN t.kept : j < k /\ k < o => t.kept[j].id # t.kept[k].id \/ t.kept[k].id # t.kept[o].id
      BY DEF ListingSound, OnceOrTwice
    <2> SUFFICES ASSUME NEW i \in DOMAIN s.items
                 PROVE  /\ Twice(t, i) => ~Due(t, i) /\ ~ToCome(t, i)
                        /\ In(t, i) => ~(Due(t, i) /\ ToCome(t, i))
                        /\ q.items[i].sidecar = "live" =>
                             ~Twice(t, i) /\ (In(t, i) => ~Due(t, i) /\ ~ToCome(t, i)) /\ ~(Due(t, i) /\ ToCome(t, i))
                        /\ t.items[i].sidecar = "pending" \/ t.items[i].at = 0 => ~In(t, i) /\ ~Due(t, i)
      BY <1>2, <2>3 DEF OnceOrTwice
    <2>4. /\ Twice(s, i) => ~Due(s, i) /\ ~ToCome(s, i)
          /\ In(s, i) => ~(Due(s, i) /\ ToCome(s, i))
          /\ q.items[i].sidecar = "live" =>
               ~Twice(s, i) /\ (In(s, i) => ~Due(s, i) /\ ~ToCome(s, i)) /\ ~(Due(s, i) /\ ToCome(s, i))
          /\ s.items[i].sidecar = "pending" \/ s.items[i].at = 0 => ~In(s, i) /\ ~Due(s, i)
          /\ q.items[i].sidecar = "live" => s.items[i].at # 0 /\ s.items[i].sidecar # "pending"
      BY DEF ListingSound, ItemsSound, OnceOrTwice
    <2>5. CASE i # m BY <1>2, <2>1, <2>2, <2>4, <2>5
    <2>6. CASE i = m /\ (old.sidecar = "pending" \/ old.at = 0)
      <3>1. ~In(s, i) /\ ~Due(s, i) /\ q.items[i].sidecar # "live" BY <2>4, <2>6
      <3>2. ~Twice(s, i) BY <3>1 DEF Twice, In
      <3>3. t.items[i].sidecar = "pending" \/ t.items[i].at = 0 => ~Due(t, i)
        <4>1. new.at = 0 => new.sidecar = "absent" BY <1>3 DEF IsItem
        <4> QED BY <1>2, <2>6, <3>1, <4>1 DEF Due
      <3> QED BY <2>1, <3>1, <3>2, <3>3
    <2>7. CASE i = m /\ ~(old.sidecar = "pending" \/ old.at = 0)
      <3>1. (Due(t, i) => Due(s, i)) /\ (ToCome(t, i) => ToCome(s, i))
        BY <1>2, <2>7 DEF Due, ToCome, MovedTo
      <3>2. t.items[i].sidecar # "pending" /\ t.items[i].at # 0 BY <1>2, <2>7 DEF MovedTo
      <3> QED BY <2>1, <2>4, <3>1, <3>2
    <2> QED BY <2>5, <2>6, <2>7
  <1>10. NoneLost(q, t)
    <2> SUFFICES ASSUME NEW i \in s.steady, i # m, \A j \in DOMAIN s.listed : s.listed[j].id # i PROVE Ahead(t, i, q.limit)
      BY DEF NoneLost
    <2>1. EntryOf(t.items, i) = EntryOf(s.items, i) BY <1>1, <1>2 DEF EntryOf
    <2>2. Ahead(s, i, q.limit) BY DEF ListingSound, NoneLost
    <2>3. In(t, i) <=> In(s, i) BY DEF In
    <2> QED BY <2>1, <2>2, <2>3 DEF Ahead, Reached
  <1> QED BY <1>4, <1>7, <1>8, <1>9, <1>10 DEF ListingSound, IsListing

\* What the invariant says of a listing that is under way, and what it takes to keep it.
LEMMA NowListing ==
  ASSUME ListingInv, Under("trash")
  PROVE  ListingQuestion(question) /\ answer = <<Now>> /\ ListingSound(question, Now) /\ IsListing(Now)
  BY DEF ListingInv, Under, ListingSound, IsListing, Now

LEMMA ListingGoesOn ==
  ASSUME ListingInv, NEW t, Reply(t), ListingSound(question, t) PROVE ListingInv'
  <1>1. question' = question /\ answer' = <<t>> /\ Now' = t BY DEF Reply, Now
  <1>2. t.pc # "done" BY DEF ListingSound
  <1> QED BY <1>1, <1>2 DEF ListingInv

LEMMA ListingStops ==
  ASSUME ListingInv, NEW t, Reply(t), t.pc = "done", ListingEnd(question, t) PROVE ListingInv'
  <1>1. question' = question /\ answer' = <<t>> /\ Now' = t BY DEF Reply, Now
  <1> QED BY <1>1 DEF ListingInv

LEMMA ListingFailsKeeps ==
  ASSUME ListingInv, NEW code, code # "ok", ListingFails(code) PROVE ListingInv'
  <1> DEFINE t == [pc |-> "done", code |-> code]
  <1>1. Reply(t) BY DEF ListingFails
  <1>2. t.pc = "done" /\ ListingEnd(question, t) BY DEF ListingEnd
  <1> QED BY <1>1, <1>2, ListingStops

\* list_trash_items.
LEMMA ListTrashItemsKeeps == ASSUME ListingInv, ListTrashItems PROVE ListingInv'
  <1>1. CASE question.limit \notin 1 .. MaxLimit BY <1>1, ListingFailsKeeps DEF ListTrashItems
  <1>2. CASE question.limit \in 1 .. MaxLimit
    <2> DEFINE t == [pc |-> "scan", scan |-> SidecarsIn(question.items), others |-> OthersIn(question.items),
                     scanned |-> 0, kept |-> <<>>, after |-> {}, items |-> question.items, id |-> 0,
                     listed |-> <<>>, moves |-> 0,
                     steady |-> {i \in DOMAIN question.items : Published(question.items[i])}]
    <2>1. Reply(t) BY <1>2 DEF ListTrashItems
    <2>2. /\ IsListing(t) /\ t.pc = "scan" /\ t.scan = SidecarsIn(question.items) /\ t.after = {} /\ t.kept = <<>>
          /\ t.listed = <<>> /\ t.items = question.items
          /\ t.steady = {i \in DOMAIN question.items : Published(question.items[i])}
      BY DEF IsListing, ListingState
    <2> HIDE DEF t
    <2>3. question.limit \in Nat \ {0} BY <1>2, ListingAssumption
    <2>4. ListingQuestion(question) BY DEF ListingInv
    <2>5. ListingSound(question, t) BY <2>2, <2>3, <2>4, PageStarts
    <2> QED BY <2>1, <2>5, ListingGoesOn
  <1> QED BY <1>1, <1>2

\* The next name.
LEMMA ReadEntryKeeps == ASSUME ListingInv, ReadEntry PROVE ListingInv'
  <1>1. Under("trash") /\ Now.pc = "scan" BY DEF ReadEntry
  <1>2. ListingSound(question, Now) /\ IsListing(Now) BY <1>1, NowListing
  <1>3. CASE ListingFails("too large") BY <1>3, ListingFailsKeeps
  <1> DEFINE read == [Now EXCEPT !.scanned = @ + 1]
  <1>4. ASSUME Reply([read EXCEPT !.others = @ - 1]) PROVE ListingInv'
    <2> DEFINE t == [read EXCEPT !.others = @ - 1]
    <2>1. IsListing(t) /\ \A f \in ListingState \ {"others", "scanned", "moves"} : t[f] = Now[f]
      BY <1>2 DEF IsListing, ListingState
    <2>2. Reply(t) BY <1>4
    <2> HIDE DEF t
    <2>3. ListingSound(question, t) BY <1>2, <2>1, ReadsCount
    <2> QED BY <2>2, <2>3, ListingGoesOn
  <1>5. ASSUME NEW i \in Now.scan, Reply([read EXCEPT !.scan = @ \ {i}, !.pc = "sidecar", !.id = i]) PROVE ListingInv'
    <2> DEFINE t == [read EXCEPT !.scan = @ \ {i}, !.pc = "sidecar", !.id = i]
    <2>1. /\ IsListing(t) /\ t.pc = "sidecar" /\ t.id = i /\ t.scan = Now.scan \ {i} /\ t.kept = Now.kept
          /\ t.after = Now.after /\ t.items = Now.items /\ t.listed = Now.listed /\ t.steady = Now.steady
      BY <1>2 DEF IsListing, ListingState
    <2>2. Reply(t) BY <1>5
    <2> HIDE DEF t
    <2>3. ListingSound(question, t)
      <3>1. t.id \in Now.scan /\ t.scan = Now.scan \ {t.id} /\ Now.pc # "between" BY <1>1, <2>1
      <3> QED BY <1>1, <1>2, <2>1, <3>1, ReadsName
    <2> QED BY <2>2, <2>3, ListingGoesOn
  <1> QED BY <1>3, <1>4, <1>5 DEF ReadEntry

\* An item that is passed over is one that cannot be listed, or was.
LEMMA UnlistedKeeps ==
  ASSUME ListingInv, Under("trash"), Now.pc \in {"sidecar", "payload"}, Unlisted,
         Now.id \in Now.steady => \E p \in Now.after : ~IsAfter(EntryOf(Now.items, Now.id), p)
  PROVE  ListingInv'
  <1> DEFINE t == [Now EXCEPT !.pc = "scan", !.id = 0]
  <1>1. ListingSound(question, Now) /\ IsListing(Now) BY NowListing
  <1>2. /\ IsListing(t) /\ t.pc = "scan" /\ t.scan = Now.scan /\ t.kept = Now.kept
        /\ t.after = Now.after /\ t.items = Now.items /\ t.listed = Now.listed /\ t.steady = Now.steady
    BY <1>1 DEF IsListing, ListingState
  <1>3. Reply(t) BY DEF Unlisted
  <1> HIDE DEF t
  <1>4. Now.pc # "between" OBVIOUS
  <1>5. ListingSound(question, t) BY <1>1, <1>2, <1>4, ReadsName
  <1> QED BY <1>3, <1>5, ListingGoesOn

LEMMA ReadSidecarKeeps == ASSUME ListingInv, ReadSidecar PROVE ListingInv'
  <1>1. Under("trash") /\ Now.pc = "sidecar" BY DEF ReadSidecar
  <1>2. ListingSound(question, Now) /\ IsListing(Now) BY <1>1, NowListing
  <1>3. CASE Now.items[Now.id].sidecar # "live"
    <2>1. Now.id \notin Now.steady BY <1>2, <1>3 DEF ListingSound, ItemsSound, Published
    <2>2. Unlisted BY <1>3 DEF ReadSidecar
    <2> QED BY <1>1, <2>1, <2>2, UnlistedKeeps
  <1>4. CASE Now.items[Now.id].sidecar = "live"
    <2> DEFINE t == [Now EXCEPT !.pc = "payload"]
    <2>1. /\ IsListing(t) /\ t.pc = "payload" /\ t.id = Now.id /\ t.scan = Now.scan /\ t.kept = Now.kept
          /\ t.after = Now.after /\ t.items = Now.items /\ t.listed = Now.listed /\ t.steady = Now.steady
      BY <1>2 DEF IsListing, ListingState
    <2>2. Reply(t) BY <1>4 DEF ReadSidecar
    <2> HIDE DEF t
    <2>3. Now.pc # "between" BY <1>1
    <2>4. ListingSound(question, t) BY <1>1, <1>2, <1>4, <2>1, <2>3, ReadsName
    <2> QED BY <2>2, <2>4, ListingGoesOn
  <1> QED BY <1>3, <1>4

LEMMA ReadPayloadKeeps == ASSUME ListingInv, ReadPayload PROVE ListingInv'
  <1> DEFINE entry == EntryOf(Now.items, Now.id)
  <1>1. Under("trash") /\ Now.pc = "payload" BY DEF ReadPayload
  <1>2. ListingQuestion(question) /\ ListingSound(question, Now) /\ IsListing(Now) BY <1>1, NowListing
  <1>3. CASE Now.items[Now.id].payload # "same" \/ \E p \in Now.after : ~IsAfter(entry, p)
    <2>1. Now.id \in Now.steady => Now.items[Now.id].payload = "same" BY <1>2 DEF ListingSound, ItemsSound, Published
    <2>2. Unlisted BY <1>3 DEF ReadPayload
    <2> QED BY <1>1, <1>3, <2>1, <2>2, UnlistedKeeps
  <1>4. CASE ~(Now.items[Now.id].payload # "same" \/ \E p \in Now.after : ~IsAfter(entry, p))
    <2>1. PICK k \in 1 .. Len(Now.kept) + 1 :
            /\ InPlace(Now.kept, k, entry)
            /\ Reply([Now EXCEPT !.pc = "scan", !.id = 0, !.kept = Compacted(InsertAt(@, k, entry), question.limit)])
      BY <1>4 DEF ReadPayload
    <2> DEFINE page == Compacted(InsertAt(Now.kept, k, entry), question.limit)
               t == [Now EXCEPT !.pc = "scan", !.id = 0, !.kept = page]
    <2>2. Reply(t) BY <2>1
    <2> HIDE DEF page
    <2>3. /\ IsListing(t) /\ t.pc = "scan" /\ t.scan = Now.scan /\ t.kept = page
          /\ t.after = Now.after /\ t.items = Now.items /\ t.listed = Now.listed /\ t.steady = Now.steady
      BY <1>2 DEF IsListing, ListingState
    <2> HIDE DEF t
    <2>4. t.kept = Compacted(InsertAt(Now.kept, k, EntryOf(Now.items, Now.id)), question.limit) BY <2>3 DEF page
    <2>5. \A p \in Now.after : IsAfter(EntryOf(Now.items, Now.id), p) BY <1>4
    <2>6. InPlace(Now.kept, k, EntryOf(Now.items, Now.id)) BY <2>1
    <2>7. ListingSound(question, t) BY <1>1, <1>2, <2>3, <2>4, <2>5, <2>6, KeepsItem
    <2> QED BY <2>2, <2>7, ListingGoesOn
  <1> QED BY <1>3, <1>4

LEMMA EndPageKeeps == ASSUME ListingInv, EndPage PROVE ListingInv'
  <1> DEFINE listed == Now.listed \o Page(Now.kept, question.limit)
  <1>1. Under("trash") /\ Now.pc = "scan" /\ Now.scan = {} BY DEF EndPage
  <1>2. ListingQuestion(question) /\ ListingSound(question, Now) /\ IsListing(Now) BY <1>1, NowListing
  <1>3. CASE Len(Now.kept) > question.limit
    <2> DEFINE t == [Now EXCEPT !.pc = "between", !.kept = <<>>, !.listed = listed]
    <2>1. Reply(t) BY <1>3 DEF EndPage
    <2> HIDE DEF listed
    <2>2. /\ IsListing(t) /\ t.pc = "between" /\ t.scan = Now.scan /\ t.kept = <<>> /\ t.id = Now.id
          /\ t.after = Now.after /\ t.items = Now.items /\ t.listed = listed /\ t.steady = Now.steady
      BY <1>2 DEF IsListing, ListingState
    <2> HIDE DEF t
    <2>3. t.listed = Now.listed \o Page(Now.kept, question.limit) BY <2>2 DEF listed
    <2>4. ListingSound(question, t) BY <1>1, <1>2, <1>3, <2>2, <2>3, PageTurns
    <2> QED BY <2>1, <2>4, ListingGoesOn
  <1>4. CASE ~(Len(Now.kept) > question.limit)
    <2> DEFINE t == [pc |-> "done", code |-> "ok", listed |-> listed, steady |-> Now.steady]
    <2>1. Reply(t) BY <1>4 DEF EndPage
    <2>2. InOrder(listed, question.items) /\ \A i \in Now.steady : \E j \in DOMAIN listed : listed[j].id = i
      BY <1>1, <1>2, <1>4, PageEnds
    <2> HIDE DEF listed
    <2>3. t.pc = "done" /\ ListingEnd(question, t) BY <2>2 DEF ListingEnd
    <2> QED BY <2>1, <2>3, ListingStops
  <1> QED BY <1>3, <1>4

LEMMA FollowCursorKeeps == ASSUME ListingInv, FollowCursor PROVE ListingInv'
  <1>1. Under("trash") /\ Now.pc = "between" BY DEF FollowCursor
  <1>2. ListingSound(question, Now) /\ IsListing(Now) BY <1>1, NowListing
  <1> DEFINE after(holder) == DecodeTrashCursor(EncodeTrashCursor("own", Last(Now.listed)), holder)
             t(holder) == [Now EXCEPT !.pc = "scan", !.scan = SidecarsIn(Now.items), !.others = OthersIn(Now.items),
                                      !.scanned = 0, !.after = after(holder)]
  <1>3. PICK holder \in {"own", "other"} : IF after(holder) = {} THEN ListingFails("conflict") ELSE Reply(t(holder))
    BY DEF FollowCursor
  <1>4. CASE after(holder) = {} BY <1>3, <1>4, ListingFailsKeeps
  <1>5. CASE after(holder) # {}
    <2> DEFINE next == t(holder)
    <2>1. after(holder) = {Last(Now.listed)} BY <1>5 DEF DecodeTrashCursor, EncodeTrashCursor
    <2>2. Reply(next) BY <1>3, <1>5
    <2>3. next = [Now EXCEPT !.pc = "scan", !.scan = SidecarsIn(Now.items), !.others = OthersIn(Now.items),
                             !.scanned = 0, !.after = {Last(Now.listed)}]
      BY <2>1
    <2> HIDE DEF next
    <2>4. /\ IsListing(next) /\ next.pc = "scan" /\ next.scan = SidecarsIn(Now.items) /\ next.kept = Now.kept
          /\ next.after = {Last(Now.listed)} /\ next.items = Now.items /\ next.id = Now.id
          /\ next.listed = Now.listed /\ next.steady = Now.steady
      BY <1>2, <2>3 DEF IsListing, ListingState
    <2>5. ListingSound(question, next) BY <1>1, <1>2, <2>4, PageFollows
    <2> QED BY <2>2, <2>5, ListingGoesOn
  <1> QED BY <1>4, <1>5

\* One call of a deletion, a restore or a purge.
LEMMA SetKeeps ==
  ASSUME ListingInv, Under("trash"), NEW m \in DOMAIN Now.items, NEW new, NEW names \in {{}, {m}},
         MovedTo(Now.items[m], new, names), Set(m, new, names)
  PROVE  ListingInv'
  <1> DEFINE items == [Now.items EXCEPT ![m] = new]
             t == [Now EXCEPT !.items = items, !.moves = @ + 1, !.steady = @ \ {m}, !.scan = @ \cup names]
  <1>1. ListingSound(question, Now) /\ IsListing(Now) BY NowListing
  <1>2. Reply(t) BY DEF Set
  <1> HIDE DEF items
  <1>3. /\ IsListing(t) /\ t.pc = Now.pc /\ t.scan = Now.scan \cup names /\ t.kept = Now.kept /\ t.id = Now.id
        /\ t.after = Now.after /\ t.items = items /\ t.listed = Now.listed /\ t.steady = Now.steady \ {m}
    BY <1>1 DEF IsListing, ListingState
  <1> HIDE DEF t
  <1>4. OnlyItem(t.items, Now.items, m, new)
    <2>1. Now.items = [i \in DOMAIN Now.items |-> Now.items[i]] BY <1>1 DEF ListingSound, ItemsSound
    <2>2. OnlyItem(items, Now.items, m, new) BY <2>1 DEF OnlyItem, items
    <2> QED BY <1>3, <2>2
  <1>5. Beside(Now, t, m, new, names) BY <1>3, <1>4 DEF Beside
  <1>6. ListingSound(question, t) BY <1>1, <1>3, <1>5, OthersMove
  <1> QED BY <1>2, <1>6, ListingGoesOn

LEMMA MoveItemKeeps == ASSUME ListingInv, NEW m \in DOMAIN Now.items, Move(m) PROVE ListingInv'
  <1> DEFINE item == Now.items[m]
  <1>1. Under("trash") BY DEF Move
  <1>2. ListingQuestion(question) /\ ListingSound(question, Now) BY <1>1, NowListing
  <1>3. IsItem(item) BY <1>2 DEF ListingSound, ItemsSound
  <1>4. PICK names \in {{}, {m}} :
          \/ /\ item.sidecar = "absent" /\ item.at = 0
             /\ \E at \in question.times : Set(m, [item EXCEPT !.sidecar = "pending", !.at = at], names)
          \/ item.sidecar = "pending" /\ Set(m, [item EXCEPT !.payload = "same"], {})
          \/ item.sidecar = "pending" /\ Set(m, [item EXCEPT !.sidecar = "live"], names)
          \/ item.sidecar \in {"live", "purging"} /\ Set(m, [item EXCEPT !.payload = "none"], {})
          \/ item.sidecar = "live" /\ Set(m, [item EXCEPT !.sidecar = "purging"], names)
          \/ item.sidecar \in {"live", "purging"} /\ Set(m, [item EXCEPT !.sidecar = "absent"], {})
    BY DEF Move
  <1> HIDE DEF item
  <1>5. \A some : MovedTo(Now.items[m], some, {}) <=> MovedTo(item, some, {}) BY DEF item
  <1>6. ASSUME NEW at \in question.times, item.sidecar = "absent", item.at = 0,
               Set(m, [item EXCEPT !.sidecar = "pending", !.at = at], names)
        PROVE  ListingInv'
    <2> DEFINE new == [item EXCEPT !.sidecar = "pending", !.at = at]
    <2>1. at \in Nat \ {0} BY <1>2 DEF ListingQuestion
    <2>2. MovedTo(item, new, names) BY <1>3, <1>6, <2>1 DEF MovedTo, IsItem
    <2> QED BY <1>1, <1>6, <2>2, SetKeeps DEF item
  <1>7. ASSUME item.sidecar = "pending", Set(m, [item EXCEPT !.payload = "same"], {}) PROVE ListingInv'
    <2>1. MovedTo(item, [item EXCEPT !.payload = "same"], {}) BY <1>3, <1>7 DEF MovedTo, IsItem
    <2> QED BY <1>1, <1>7, <2>1, SetKeeps DEF item
  <1>8. ASSUME item.sidecar = "pending", Set(m, [item EXCEPT !.sidecar = "live"], names) PROVE ListingInv'
    <2>1. MovedTo(item, [item EXCEPT !.sidecar = "live"], names) BY <1>3, <1>8 DEF MovedTo, IsItem
    <2> QED BY <1>1, <1>8, <2>1, SetKeeps DEF item
  <1>9. ASSUME item.sidecar \in {"live", "purging"}, Set(m, [item EXCEPT !.payload = "none"], {}) PROVE ListingInv'
    <2>1. MovedTo(item, [item EXCEPT !.payload = "none"], {}) BY <1>3, <1>9 DEF MovedTo, IsItem
    <2> QED BY <1>1, <1>9, <2>1, SetKeeps DEF item
  <1>10. ASSUME item.sidecar = "live", Set(m, [item EXCEPT !.sidecar = "purging"], names) PROVE ListingInv'
    <2>1. MovedTo(item, [item EXCEPT !.sidecar = "purging"], names) BY <1>3, <1>10 DEF MovedTo, IsItem
    <2> QED BY <1>1, <1>10, <2>1, SetKeeps DEF item
  <1>11. ASSUME item.sidecar \in {"live", "purging"}, Set(m, [item EXCEPT !.sidecar = "absent"], {}) PROVE ListingInv'
    <2>1. MovedTo(item, [item EXCEPT !.sidecar = "absent"], {}) BY <1>3, <1>11 DEF MovedTo, IsItem
    <2> QED BY <1>1, <1>11, <2>1, SetKeeps DEF item
  <1> QED BY <1>4, <1>6, <1>7, <1>8, <1>9, <1>10, <1>11

\* Who follows the cursors has seen all that stayed in Trash, in order, and nothing twice
\* but what was published while its page was read (list_trash_page), for any items,
\* limits, order of readdir and changes by others.
THEOREM ListingAlwaysWhole == ListingSpec => []ListingIsWhole
  <1>1. ListingInit => ListingInv BY DEF ListingInit, ListingInv
  <1>2. ListingInv /\ [ListingStep]_<<question, answer>> => ListingInv'
    <2> SUFFICES ASSUME ListingInv, [ListingStep]_<<question, answer>> PROVE ListingInv' OBVIOUS
    <2>1. ASSUME UNCHANGED <<question, answer>> PROVE ListingInv'
      <3>1. question' = question /\ answer' = answer /\ Now' = Now BY <2>1 DEF Now
      <3> QED BY <3>1 DEF ListingInv
    <2> QED BY <2>1, ListTrashItemsKeeps, ReadEntryKeeps, ReadSidecarKeeps, ReadPayloadKeeps, EndPageKeeps,
               FollowCursorKeeps, MoveItemKeeps DEF ListingStep
  <1>3. ListingInv => ListingIsWhole
    <2> SUFFICES ASSUME ListingInv PROVE ListingIsWhole OBVIOUS
    <2>1. Done("trash") /\ Now.code = "ok" =>
             /\ \A i \in Now.steady : \E k \in DOMAIN Now.listed : Now.listed[k].id = i
             /\ InOrder(Now.listed, question.items)
      BY DEF ListingInv, ListingEnd, Done, Now
    <2>2. Under("trash") => Len(Now.kept) < CompactAt(question.limit)
      BY NowListing DEF ListingSound, KeptSound
    <2> QED BY <2>1, <2>2 DEF ListingIsWhole
  <1> QED BY <1>1, <1>2, <1>3, PTL DEF ListingSpec
=============================================================================
