---------------------------- MODULE TrashProofs ----------------------------
(* Proofs about Trash, for every set of items, places and entries.         *)
EXTENDS Trash, TLAPS

\* Forget resets an operation's item and place to values of their types.
LEMMA AnyType == AnyId \in Ids /\ AnyPath \in Paths
  BY ObjsAssumption DEF AnyId, AnyPath

\* The state in which the server is first started is well typed.
LEMMA TypeInit == Init => TypeOK
  BY ObjsAssumption, InitAssumption, BoundsAssumption, AnyType
  DEF Init, TypeOK, DiskType, LockType, Objects, States, Kinds, Kind, Refusals, Labels

\* The ways an operation ends or goes on keep the lock's variables well typed.
LEMMA AbortType == ASSUME LockType, NEW r \in Refusals, Abort(r) PROVE LockType'
  <1>1. server' \in {"up", "recovering", "down"} /\ refusal' \in Refusals
    BY DEF LockType, Abort, status
  <1> QED BY <1>1, AnyType DEF LockType, Abort, Forget, Labels, Objects

\* So does the end of an operation that succeeds (the return of a Trash call).
LEMMA FinishType == ASSUME LockType, Finish PROVE LockType'
  <1>1. pc' \in Labels /\ budget' \in Nat
    BY DEF LockType, Finish, Labels
  <1> QED BY <1>1, AnyType DEF LockType, Finish, Forget, Objects, status

\* So does going on with the operation's next system call.
LEMMA GotoType == ASSUME LockType, NEW l \in Labels, Goto(l) PROVE LockType'
  BY DEF LockType, Goto, args, status

\* A failing call or a crash uses up one of the disturbances allowed.
LEMMA FaultType == ASSUME faults \in Nat, Fault PROVE faults' \in Nat
  BY DEF Fault

\* The reasons recover_trash can give for refusing a startup.
LEMMA Reasons == {"orphan", "too_large", "too_deep", "kind", "io"} \subseteq Refusals
  BY DEF Refusals

\* Every system call, crash and recovery step keeps the state well typed: one
\* step per action, and under it the disk's, the lock's and the other variables.
LEMMA TypeNext == TypeOK /\ [Next]_vars => TypeOK'
  <1> SUFFICES ASSUME DiskType, LockType, scan \subseteq Names, faults \in Nat, [Next]_vars
               PROVE  DiskType' /\ LockType' /\ scan' \subseteq Names /\ faults' \in Nat
    BY DEF TypeOK
  <1>1. CASE UNCHANGED vars
    BY <1>1 DEF vars, DiskType, LockType
  <1>2. ASSUME CreateTemp
        PROVE  DiskType' /\ LockType' /\ scan' \subseteq Names /\ faults' \in Nat
    <2>1. DiskType'
      BY <1>2 DEF CreateTemp, disk, DiskType
    <2>2. LockType'
      BY <1>2, AbortType, FinishType, GotoType, Reasons DEF CreateTemp, Labels
    <2>3. scan' \subseteq Names /\ faults' \in Nat
      BY <1>2, FaultType DEF CreateTemp, At
    <2> QED BY <2>1, <2>2, <2>3
  <1>3. ASSUME CommitTemp
        PROVE  DiskType' /\ LockType' /\ scan' \subseteq Names /\ faults' \in Nat
    <2>1. DiskType'
      BY <1>3 DEF CommitTemp, Written, States, Kind, Kinds, LockType, DiskType
    <2>2. LockType'
      BY <1>3, AbortType, FinishType, GotoType, Reasons DEF CommitTemp, LockType, Labels
    <2>3. scan' \subseteq Names /\ faults' \in Nat
      BY <1>3, FaultType DEF CommitTemp, At
    <2> QED BY <2>1, <2>2, <2>3
  <1>4. ASSUME MoveIn
        PROVE  DiskType' /\ LockType' /\ scan' \subseteq Names /\ faults' \in Nat
    <2>1. DiskType'
      BY <1>4 DEF MoveIn, RenameIn, RenameOut, RenameFails, Objects, LockType, DiskType
    <2>2. LockType'
      BY <1>4, AbortType, FinishType, GotoType, Reasons DEF MoveIn, Labels
    <2>3. scan' \subseteq Names /\ faults' \in Nat
      BY <1>4, FaultType DEF MoveIn, At, RenameIn, RenameOut, RenameFails
    <2> QED BY <2>1, <2>2, <2>3
  <1>5. ASSUME Rollback
        PROVE  DiskType' /\ LockType' /\ scan' \subseteq Names /\ faults' \in Nat
    <2>1. DiskType'
      BY <1>5 DEF Rollback, RenameIn, RenameOut, RenameFails, Objects, LockType, DiskType
    <2>2. LockType'
      BY <1>5, AbortType, FinishType, GotoType, Reasons DEF Rollback, Labels
    <2>3. scan' \subseteq Names /\ faults' \in Nat
      BY <1>5, FaultType DEF Rollback, At, RenameIn, RenameOut, RenameFails
    <2> QED BY <2>1, <2>2, <2>3
  <1>6. ASSUME MoveOut
        PROVE  DiskType' /\ LockType' /\ scan' \subseteq Names /\ faults' \in Nat
    <2>1. DiskType'
      BY <1>6 DEF MoveOut, RenameIn, RenameOut, RenameFails, Objects, LockType, DiskType
    <2>2. LockType'
      BY <1>6, AbortType, FinishType, GotoType, Reasons DEF MoveOut, Labels
    <2>3. scan' \subseteq Names /\ faults' \in Nat
      BY <1>6, FaultType DEF MoveOut, At, RenameIn, RenameOut, RenameFails
    <2> QED BY <2>1, <2>2, <2>3
  <1>7. ASSUME RollbackOut
        PROVE  DiskType' /\ LockType' /\ scan' \subseteq Names /\ faults' \in Nat
    <2>1. DiskType'
      BY <1>7 DEF RollbackOut, RenameIn, RenameOut, RenameFails, Objects, LockType, DiskType
    <2>2. LockType'
      BY <1>7, AbortType, FinishType, GotoType, Reasons DEF RollbackOut, Labels
    <2>3. scan' \subseteq Names /\ faults' \in Nat
      BY <1>7, FaultType DEF RollbackOut, At, RenameIn, RenameOut, RenameFails
    <2> QED BY <2>1, <2>2, <2>3
  <1>8. ASSUME Unpend
        PROVE  DiskType' /\ LockType' /\ scan' \subseteq Names /\ faults' \in Nat
    <2>1. DiskType'
      BY <1>8 DEF Unpend, DropSidecar, RemoveSidecar, States, Kinds, LockType, DiskType
    <2>2. LockType'
      BY <1>8, AbortType, FinishType, GotoType, Reasons DEF Unpend, DropSidecar
    <2>3. scan' \subseteq Names /\ faults' \in Nat
      BY <1>8, FaultType DEF Unpend, DropSidecar, At
    <2> QED BY <2>1, <2>2, <2>3
  <1>9. ASSUME Unlist
        PROVE  DiskType' /\ LockType' /\ scan' \subseteq Names /\ faults' \in Nat
    <2>1. DiskType'
      BY <1>9 DEF Unlist, DropSidecar, RemoveSidecar, States, Kinds, LockType, DiskType
    <2>2. LockType'
      BY <1>9, AbortType, FinishType, GotoType, Reasons DEF Unlist, DropSidecar
    <2>3. scan' \subseteq Names /\ faults' \in Nat
      BY <1>9, FaultType DEF Unlist, DropSidecar, At
    <2> QED BY <2>1, <2>2, <2>3
  <1>10. ASSUME PurgeSidecar
        PROVE  DiskType' /\ LockType' /\ scan' \subseteq Names /\ faults' \in Nat
    <2>1. DiskType'
      BY <1>10 DEF PurgeSidecar, DropSidecar, RemoveSidecar, States, Kinds, LockType, DiskType
    <2>2. LockType'
      BY <1>10, AbortType, FinishType, GotoType, Reasons DEF PurgeSidecar, DropSidecar
    <2>3. scan' \subseteq Names /\ faults' \in Nat
      BY <1>10, FaultType DEF PurgeSidecar, DropSidecar, At
    <2> QED BY <2>1, <2>2, <2>3
  <1>11. ASSUME Validate
        PROVE  DiskType' /\ LockType' /\ scan' \subseteq Names /\ faults' \in Nat
    <2>1. DiskType'
      BY <1>11 DEF Validate, disk, DiskType
    <2>2. LockType'
      BY <1>11, AbortType, FinishType, GotoType, Reasons DEF Validate, WriteSidecar, LockType, Labels, status
    <2>3. scan' \subseteq Names /\ faults' \in Nat
      BY <1>11, FaultType DEF Validate, At
    <2> QED BY <2>1, <2>2, <2>3
  <1>12. ASSUME ValidateOut
        PROVE  DiskType' /\ LockType' /\ scan' \subseteq Names /\ faults' \in Nat
    <2>1. DiskType'
      BY <1>12 DEF ValidateOut, disk, DiskType
    <2>2. LockType'
      BY <1>12, AbortType, FinishType, GotoType, Reasons DEF ValidateOut, Labels
    <2>3. scan' \subseteq Names /\ faults' \in Nat
      BY <1>12, FaultType DEF ValidateOut, At
    <2> QED BY <2>1, <2>2, <2>3
  <1>13. ASSUME PurgeEntry
        PROVE  DiskType' /\ LockType' /\ scan' \subseteq Names /\ faults' \in Nat
    <2>1. DiskType'
      BY <1>13, ObjsAssumption DEF PurgeEntry, LockType, Objects, DiskType
    <2>2. LockType'
      BY <1>13 DEF PurgeEntry, At, LockType, args, status
    <2>3. scan' \subseteq Names /\ faults' \in Nat
      BY <1>13, FaultType DEF PurgeEntry, At
    <2> QED BY <2>1, <2>2, <2>3
  <1>14. ASSUME PurgeTooDeep
        PROVE  DiskType' /\ LockType' /\ scan' \subseteq Names /\ faults' \in Nat
    <2>1. DiskType'
      BY <1>14 DEF PurgeTooDeep, disk, DiskType
    <2>2. LockType'
      BY <1>14, AbortType, FinishType, GotoType, Reasons DEF PurgeTooDeep, Labels
    <2>3. scan' \subseteq Names /\ faults' \in Nat
      BY <1>14, FaultType DEF PurgeTooDeep, At
    <2> QED BY <2>1, <2>2, <2>3
  <1>15. ASSUME PurgePause
        PROVE  DiskType' /\ LockType' /\ scan' \subseteq Names /\ faults' \in Nat
    <2>1. DiskType'
      BY <1>15 DEF PurgePause, disk, DiskType
    <2>2. LockType'
      BY <1>15, AbortType, FinishType, GotoType, Reasons DEF PurgePause, Labels
    <2>3. scan' \subseteq Names /\ faults' \in Nat
      BY <1>15, FaultType DEF PurgePause, At
    <2> QED BY <2>1, <2>2, <2>3
  <1>16. ASSUME PurgeNothing
        PROVE  DiskType' /\ LockType' /\ scan' \subseteq Names /\ faults' \in Nat
    <2>1. DiskType'
      BY <1>16 DEF PurgeNothing, disk, DiskType
    <2>2. LockType'
      BY <1>16, AbortType, FinishType, GotoType, Reasons DEF PurgeNothing, Labels
    <2>3. scan' \subseteq Names /\ faults' \in Nat
      BY <1>16, FaultType DEF PurgeNothing, At
    <2> QED BY <2>1, <2>2, <2>3
  <1>17. ASSUME PurgeFails
        PROVE  DiskType' /\ LockType' /\ scan' \subseteq Names /\ faults' \in Nat
    <2>1. DiskType'
      BY <1>17 DEF PurgeFails, disk, DiskType
    <2>2. LockType'
      BY <1>17, AbortType, FinishType, GotoType, Reasons DEF PurgeFails, Labels
    <2>3. scan' \subseteq Names /\ faults' \in Nat
      BY <1>17, FaultType DEF PurgeFails, At
    <2> QED BY <2>1, <2>2, <2>3
  <1>18. ASSUME PurgePayload
        PROVE  DiskType' /\ LockType' /\ scan' \subseteq Names /\ faults' \in Nat
    <2>1. DiskType'
      BY <1>18 DEF PurgePayload, Objects, LockType, DiskType
    <2>2. LockType'
      BY <1>18 DEF PurgePayload, LockType, Labels, args, status
    <2>3. scan' \subseteq Names /\ faults' \in Nat
      BY <1>18, FaultType DEF PurgePayload, At
    <2> QED BY <2>1, <2>2, <2>3
  <1>19. ASSUME NEW p \in Paths, NEW i \in Ids, NEW s \in {"live", "purging"}, StartDelete(p, i, s)
        PROVE  DiskType' /\ LockType' /\ scan' \subseteq Names /\ faults' \in Nat
    <2>1. DiskType'
      BY <1>19 DEF StartDelete, Free, disk, DiskType
    <2>2. LockType'
      BY <1>19 DEF StartDelete, Free, WriteSidecar, Objects, LockType, Labels, status
    <2>3. scan' \subseteq Names /\ faults' \in Nat
      BY <1>19, FaultType DEF StartDelete, Free
    <2> QED BY <2>1, <2>2, <2>3
  <1>20. ASSUME NEW p \in Paths, NEW i \in Ids, StartRestore(i, p)
        PROVE  DiskType' /\ LockType' /\ scan' \subseteq Names /\ faults' \in Nat
    <2>1. DiskType'
      BY <1>20 DEF StartRestore, Free, disk, DiskType
    <2>2. LockType'
      BY <1>20 DEF StartRestore, Free, Objects, LockType, Labels, status
    <2>3. scan' \subseteq Names /\ faults' \in Nat
      BY <1>20, FaultType DEF StartRestore, Free
    <2> QED BY <2>1, <2>2, <2>3
  <1>21. ASSUME NEW i \in Ids, StartPurge(i)
        PROVE  DiskType' /\ LockType' /\ scan' \subseteq Names /\ faults' \in Nat
    <2>1. DiskType'
      BY <1>21 DEF StartPurge, Free, disk, DiskType
    <2>2. LockType'
      BY <1>21, BoundsAssumption DEF StartPurge, Free, PurgeFrom, Allowance, WriteSidecar, LockType, Labels, status
    <2>3. scan' \subseteq Names /\ faults' \in Nat
      BY <1>21, FaultType DEF StartPurge, Free
    <2> QED BY <2>1, <2>2, <2>3
  <1>22. ASSUME NEW i \in Ids, StartCollect(i)
        PROVE  DiskType' /\ LockType' /\ scan' \subseteq Names /\ faults' \in Nat
    <2>1. DiskType'
      BY <1>22 DEF StartCollect, Free, disk, DiskType
    <2>2. LockType'
      BY <1>22, BoundsAssumption DEF StartCollect, Free, PurgeFrom, Allowance, WriteSidecar, LockType, Labels, status
    <2>3. scan' \subseteq Names /\ faults' \in Nat
      BY <1>22, FaultType DEF StartCollect, Free
    <2> QED BY <2>1, <2>2, <2>3
  <1>23. ASSUME NEW p \in Paths, NEW o \in Objs, Create(p, o)
        PROVE  DiskType' /\ LockType' /\ scan' \subseteq Names /\ faults' \in Nat
    <2>1. DiskType'
      BY <1>23 DEF Create, Objects, DiskType
    <2>2. LockType'
      BY <1>23 DEF Create, LockType, args, status
    <2>3. scan' \subseteq Names /\ faults' \in Nat
      BY <1>23, FaultType DEF Create, At
    <2> QED BY <2>1, <2>2, <2>3
  <1>24. ASSUME Boot
        PROVE  DiskType' /\ LockType' /\ scan' \subseteq Names /\ faults' \in Nat
    <2>1. DiskType'
      BY <1>24 DEF Boot, disk, DiskType
    <2>2. LockType'
      BY <1>24, BoundsAssumption DEF Boot, LockType, Labels, Refusals, args
    <2>3. scan' \subseteq Names /\ faults' \in Nat
      BY <1>24, FaultType DEF Boot, OnDisk
    <2> QED BY <2>1, <2>2, <2>3
  <1>25. ASSUME NEW m \in Names, NotReturned(m)
        PROVE  DiskType' /\ LockType' /\ scan' \subseteq Names /\ faults' \in Nat
    <2>1. DiskType'
      BY <1>25 DEF NotReturned, disk, DiskType
    <2>2. LockType'
      BY <1>25 DEF NotReturned, LockType, args, status
    <2>3. scan' \subseteq Names /\ faults' \in Nat
      BY <1>25, FaultType DEF NotReturned, Returned
    <2> QED BY <2>1, <2>2, <2>3
  <1>26. ASSUME NEW m \in Names, OverBudget(m)
        PROVE  DiskType' /\ LockType' /\ scan' \subseteq Names /\ faults' \in Nat
    <2>1. DiskType'
      BY <1>26 DEF OverBudget, disk, DiskType
    <2>2. LockType'
      BY <1>26, AbortType, FinishType, GotoType, Reasons DEF OverBudget
    <2>3. scan' \subseteq Names /\ faults' \in Nat
      BY <1>26, FaultType DEF OverBudget, Returned
    <2> QED BY <2>1, <2>2, <2>3
  <1>27. ASSUME NEW m \in Names, RecoverFails(m)
        PROVE  DiskType' /\ LockType' /\ scan' \subseteq Names /\ faults' \in Nat
    <2>1. DiskType'
      BY <1>27 DEF RecoverFails, disk, DiskType
    <2>2. LockType'
      BY <1>27, AbortType, FinishType, GotoType, Reasons DEF RecoverFails
    <2>3. scan' \subseteq Names /\ faults' \in Nat
      BY <1>27, FaultType DEF RecoverFails, Returned
    <2> QED BY <2>1, <2>2, <2>3
  <1>28. ASSUME NEW i \in Ids, RecoverTemp(i)
        PROVE  DiskType' /\ LockType' /\ scan' \subseteq Names /\ faults' \in Nat
    <2>1. DiskType'
      BY <1>28 DEF RecoverTemp, DiskType
    <2>2. LockType'
      BY <1>28 DEF RecoverTemp, Charged, LockType, args, status
    <2>3. scan' \subseteq Names /\ faults' \in Nat
      BY <1>28, FaultType DEF RecoverTemp, Returned
    <2> QED BY <2>1, <2>2, <2>3
  <1>29. ASSUME NEW i \in Ids, RecoverPayload(i)
        PROVE  DiskType' /\ LockType' /\ scan' \subseteq Names /\ faults' \in Nat
    <2>1. DiskType'
      BY <1>29 DEF RecoverPayload, disk, DiskType
    <2>2. LockType'
      BY <1>29, AbortType, Reasons DEF RecoverPayload, Charged, LockType, args, status
    <2>3. scan' \subseteq Names /\ faults' \in Nat
      BY <1>29, FaultType DEF RecoverPayload, Returned
    <2> QED BY <2>1, <2>2, <2>3
  <1>30. ASSUME NEW i \in Ids, RecoverPending(i)
        PROVE  DiskType' /\ LockType' /\ scan' \subseteq Names /\ faults' \in Nat
    <2>1. DiskType'
      BY <1>30 DEF RecoverPending, disk, DiskType
    <2>2. LockType'
      BY <1>30, AbortType, Reasons DEF RecoverPending, Charged, WriteSidecar, LockType, Labels, status
    <2>3. scan' \subseteq Names /\ faults' \in Nat
      BY <1>30, FaultType DEF RecoverPending, Returned
    <2> QED BY <2>1, <2>2, <2>3
  <1>31. ASSUME NEW i \in Ids, RecoverAbsent(i)
        PROVE  DiskType' /\ LockType' /\ scan' \subseteq Names /\ faults' \in Nat
    <2>1. DiskType'
      BY <1>31 DEF RecoverAbsent, RemoveSidecar, States, Kinds, DiskType
    <2>2. LockType'
      BY <1>31 DEF RecoverAbsent, Charged, LockType, args, status
    <2>3. scan' \subseteq Names /\ faults' \in Nat
      BY <1>31, FaultType DEF RecoverAbsent, Returned
    <2> QED BY <2>1, <2>2, <2>3
  <1>32. ASSUME NEW i \in Ids, RecoverLive(i)
        PROVE  DiskType' /\ LockType' /\ scan' \subseteq Names /\ faults' \in Nat
    <2>1. DiskType'
      BY <1>32 DEF RecoverLive, disk, DiskType
    <2>2. LockType'
      BY <1>32 DEF RecoverLive, Charged, LockType, args, status
    <2>3. scan' \subseteq Names /\ faults' \in Nat
      BY <1>32, FaultType DEF RecoverLive, Returned
    <2> QED BY <2>1, <2>2, <2>3
  <1>33. ASSUME NEW i \in Ids, RecoverPurging(i)
        PROVE  DiskType' /\ LockType' /\ scan' \subseteq Names /\ faults' \in Nat
    <2>1. DiskType'
      BY <1>33 DEF RecoverPurging, disk, DiskType
    <2>2. LockType'
      BY <1>33 DEF RecoverPurging, Charged, PurgeFrom, WriteSidecar, LockType, Labels, args, status
    <2>3. scan' \subseteq Names /\ faults' \in Nat
      BY <1>33, FaultType DEF RecoverPurging, Returned
    <2> QED BY <2>1, <2>2, <2>3
  <1>34. ASSUME Recovered
        PROVE  DiskType' /\ LockType' /\ scan' \subseteq Names /\ faults' \in Nat
    <2>1. DiskType'
      BY <1>34 DEF Recovered, disk, DiskType
    <2>2. LockType'
      BY <1>34 DEF Recovered, LockType, Labels, args
    <2>3. scan' \subseteq Names /\ faults' \in Nat
      BY <1>34, FaultType DEF Recovered, At
    <2> QED BY <2>1, <2>2, <2>3
  <1>35. ASSUME Crash
        PROVE  DiskType' /\ LockType' /\ scan' \subseteq Names /\ faults' \in Nat
    <2>1. DiskType'
      BY <1>35 DEF Crash, LockType, DiskType
    <2>2. LockType'
      BY <1>35, AnyType DEF Crash, Forget, LockType, Labels, Objects
    <2>3. scan' \subseteq Names /\ faults' \in Nat
      BY <1>35, FaultType DEF Crash
    <2> QED BY <2>1, <2>2, <2>3
  <1>36. ASSUME NEW p \in Paths, NEW o \in Objects, Outside(p, o)
        PROVE  DiskType' /\ LockType' /\ scan' \subseteq Names /\ faults' \in Nat
    <2>1. DiskType'
      BY <1>36 DEF Outside, Objects, DiskType
    <2>2. LockType'
      BY <1>36 DEF Outside, LockType, args, status
    <2>3. scan' \subseteq Names /\ faults' \in Nat
      BY <1>36, FaultType DEF Outside
    <2> QED BY <2>1, <2>2, <2>3
  <1>37. ASSUME NEW i \in Ids, Expire(i)
        PROVE  DiskType' /\ LockType' /\ scan' \subseteq Names /\ faults' \in Nat
    <2>1. DiskType'
      BY <1>37 DEF Expire, DiskType
    <2>2. LockType'
      BY <1>37 DEF Expire, LockType, args, status
    <2>3. scan' \subseteq Names /\ faults' \in Nat
      BY <1>37, FaultType DEF Expire
    <2> QED BY <2>1, <2>2, <2>3
  <1> QED
    BY <1>1, <1>2, <1>3, <1>4, <1>5, <1>6, <1>7, <1>8, <1>9, <1>10, <1>11, <1>12,
       <1>13, <1>14, <1>15, <1>16, <1>17, <1>18, <1>19, <1>20, <1>21, <1>22, <1>23,
       <1>24, <1>25, <1>26, <1>27, <1>28, <1>29, <1>30, <1>31, <1>32, <1>33, <1>34,
       <1>35, <1>36, <1>37
    DEF Next, Start, Collect, Step, Recover, Environment

\* Every reachable state is well typed.
THEOREM TypeCorrect == Spec => []TypeOK
  BY TypeInit, TypeNext, PTL DEF Spec

-----------------------------------------------------------------------------
(* The invariant.  DiskInv is the part of Consistent that a step can only   *)
(* break by changing a directory.                                           *)

DiskInv ==
    /\ OnePlace
    /\ \A o \in Objs \ born : left[o] = Size[o]
    /\ PayloadHasSidecar
    /\ IntactUnlessPurging

\* The first state satisfies the inductive invariant: what is in Trash then was
\* published by an earlier process.
LEMMA ConsistentInit == Init => Consistent
  BY ZenonT(60), InitAssumption, ObjsAssumption
  DEF Init, Consistent, OnePlace, PayloadHasSidecar, IntactUnlessPurging, ItemInv

\* A step that changes no directory keeps what the invariant says of the disk.
LEMMA SameDisk ==
  ASSUME DiskInv, UNCHANGED <<share, payload, sidecar, left, born, taken>>
  PROVE  DiskInv'
  BY DEF DiskInv, OnePlace, PayloadHasSidecar, IntactUnlessPurging

\* Where an operation ends, ItemInv says nothing.
LEMMA NoItem == ASSUME pc' \in {"idle", "scan"} PROVE ItemInv'
  BY DEF ItemInv

\* Both ways of ending an operation lead there.
LEMMA EndsNoItem ==
  /\ \A r : Abort(r) => pc' \in {"idle", "scan"}
  /\ Finish => pc' \in {"idle", "scan"}
  BY DEF Abort, Finish

\* Every action keeps the inductive invariant: what an operation knows about its
\* item at each call is what makes its next change of the disk safe.
LEMMA ConsistentNext == TypeOK /\ Consistent /\ [Next]_vars => Consistent'
  <1> SUFFICES ASSUME DiskType, LockType, DiskInv, ItemInv, [Next]_vars
               PROVE  DiskInv' /\ ItemInv'
    BY DEF TypeOK, Consistent, DiskInv
  <1> USE NoItem, EndsNoItem
  <1>1. CASE UNCHANGED vars
    <2>1. DiskInv'
      BY <1>1, SameDisk DEF vars
    <2> QED BY <1>1, <2>1 DEF vars, ItemInv
  <1>2. ASSUME CreateTemp
        PROVE  DiskInv' /\ ItemInv'
    <2>1. DiskInv'
      BY <1>2, SameDisk DEF CreateTemp, disk
    <2>2. ItemInv'
      BY <1>2 DEF CreateTemp, disk, At, Goto, args, ItemInv, DiskType, LockType
    <2> QED BY <2>1, <2>2
  <1>3. ASSUME CommitTemp
        PROVE  DiskInv' /\ ItemInv'
    <2>1. DiskInv'
      <3>1. OnePlace'
        BY <1>3 DEF CommitTemp, At, Written, ItemInv, DiskInv, DiskType, LockType, OnePlace
      <3>2. (\A x \in Objs \ born : left[x] = Size[x])'
        BY <1>3 DEF CommitTemp, At, Written, ItemInv, DiskInv, DiskType, LockType
      <3>3. PayloadHasSidecar'
        BY <1>3 DEF CommitTemp, At, Written, ItemInv, DiskInv, DiskType, LockType, PayloadHasSidecar
      <3>4. IntactUnlessPurging'
        BY <1>3 DEF CommitTemp, At, Written, ItemInv, DiskInv, DiskType, LockType, IntactUnlessPurging, OnePlace
      <3> QED BY <3>1, <3>2, <3>3, <3>4 DEF DiskInv
    <2>2. ItemInv'
      BY <1>3 DEF CommitTemp, At, Written, Goto, args, ItemInv, DiskType, LockType
    <2> QED BY <2>1, <2>2
  <1>4. ASSUME MoveIn
        PROVE  DiskInv' /\ ItemInv'
    <2>1. DiskInv'
      <3>1. OnePlace'
        BY <1>4, ObjsAssumption DEF MoveIn, At, RenameIn, RenameOut, RenameFails, ItemInv, Objects, DiskInv, DiskType, LockType, OnePlace
      <3>2. (\A x \in Objs \ born : left[x] = Size[x])'
        BY <1>4, ObjsAssumption DEF MoveIn, At, RenameIn, RenameOut, RenameFails, ItemInv, Objects, DiskInv, DiskType, LockType
      <3>3. PayloadHasSidecar'
        BY <1>4, ObjsAssumption DEF MoveIn, At, RenameIn, RenameOut, RenameFails, ItemInv, Objects, DiskInv, DiskType, LockType, PayloadHasSidecar
      <3>4. IntactUnlessPurging'
        BY <1>4, ObjsAssumption DEF MoveIn, At, RenameIn, RenameOut, RenameFails, ItemInv, Objects, DiskInv, DiskType, LockType, IntactUnlessPurging, OnePlace
      <3> QED BY <3>1, <3>2, <3>3, <3>4 DEF DiskInv
    <2>2. ItemInv'
      BY <1>4 DEF MoveIn, At, RenameIn, RenameOut, RenameFails, Goto, args, Objects, ItemInv, DiskType, LockType
    <2> QED BY <2>1, <2>2
  <1>5. ASSUME Rollback
        PROVE  DiskInv' /\ ItemInv'
    <2>1. DiskInv'
      <3>1. OnePlace'
        BY <1>5, ObjsAssumption DEF Rollback, At, RenameIn, RenameOut, RenameFails, ItemInv, Objects, DiskInv, DiskType, LockType, OnePlace
      <3>2. (\A x \in Objs \ born : left[x] = Size[x])'
        BY <1>5, ObjsAssumption DEF Rollback, At, RenameIn, RenameOut, RenameFails, ItemInv, Objects, DiskInv, DiskType, LockType
      <3>3. PayloadHasSidecar'
        BY <1>5, ObjsAssumption DEF Rollback, At, RenameIn, RenameOut, RenameFails, ItemInv, Objects, DiskInv, DiskType, LockType, PayloadHasSidecar
      <3>4. IntactUnlessPurging'
        BY <1>5, ObjsAssumption DEF Rollback, At, RenameIn, RenameOut, RenameFails, ItemInv, Objects, DiskInv, DiskType, LockType, IntactUnlessPurging, OnePlace
      <3> QED BY <3>1, <3>2, <3>3, <3>4 DEF DiskInv
    <2>2. ItemInv'
      BY <1>5 DEF Rollback, At, RenameIn, RenameOut, RenameFails, Goto, args, Objects, ItemInv, DiskType, LockType
    <2> QED BY <2>1, <2>2
  <1>6. ASSUME MoveOut
        PROVE  DiskInv' /\ ItemInv'
    <2>1. DiskInv'
      <3>1. OnePlace'
        BY <1>6, ObjsAssumption DEF MoveOut, At, RenameIn, RenameOut, RenameFails, ItemInv, Objects, DiskInv, DiskType, LockType, OnePlace
      <3>2. (\A x \in Objs \ born : left[x] = Size[x])'
        BY <1>6, ObjsAssumption DEF MoveOut, At, RenameIn, RenameOut, RenameFails, ItemInv, Objects, DiskInv, DiskType, LockType
      <3>3. PayloadHasSidecar'
        BY <1>6, ObjsAssumption DEF MoveOut, At, RenameIn, RenameOut, RenameFails, ItemInv, Objects, DiskInv, DiskType, LockType, PayloadHasSidecar
      <3>4. IntactUnlessPurging'
        BY <1>6, ObjsAssumption DEF MoveOut, At, RenameIn, RenameOut, RenameFails, ItemInv, Objects, DiskInv, DiskType, LockType, IntactUnlessPurging, OnePlace
      <3> QED BY <3>1, <3>2, <3>3, <3>4 DEF DiskInv
    <2>2. ItemInv'
      BY <1>6 DEF MoveOut, At, RenameIn, RenameOut, RenameFails, Goto, args, Objects, ItemInv, DiskType, LockType
    <2> QED BY <2>1, <2>2
  <1>7. ASSUME RollbackOut
        PROVE  DiskInv' /\ ItemInv'
    <2>1. DiskInv'
      <3>1. OnePlace'
        BY <1>7, ObjsAssumption DEF RollbackOut, At, RenameIn, RenameOut, RenameFails, ItemInv, Objects, DiskInv, DiskType, LockType, OnePlace
      <3>2. (\A x \in Objs \ born : left[x] = Size[x])'
        BY <1>7, ObjsAssumption DEF RollbackOut, At, RenameIn, RenameOut, RenameFails, ItemInv, Objects, DiskInv, DiskType, LockType
      <3>3. PayloadHasSidecar'
        BY <1>7, ObjsAssumption DEF RollbackOut, At, RenameIn, RenameOut, RenameFails, ItemInv, Objects, DiskInv, DiskType, LockType, PayloadHasSidecar
      <3>4. IntactUnlessPurging'
        BY <1>7, ObjsAssumption DEF RollbackOut, At, RenameIn, RenameOut, RenameFails, ItemInv, Objects, DiskInv, DiskType, LockType, IntactUnlessPurging, OnePlace
      <3> QED BY <3>1, <3>2, <3>3, <3>4 DEF DiskInv
    <2>2. ItemInv'
      BY <1>7 DEF RollbackOut, At, RenameIn, RenameOut, RenameFails, Goto, args, Objects, ItemInv, DiskType, LockType
    <2> QED BY <2>1, <2>2
  <1>8. ASSUME Unpend
        PROVE  DiskInv' /\ ItemInv'
    <2>1. DiskInv'
      <3>1. OnePlace'
        BY <1>8 DEF Unpend, DropSidecar, RemoveSidecar, At, ItemInv, DiskInv, DiskType, LockType, OnePlace
      <3>2. (\A x \in Objs \ born : left[x] = Size[x])'
        BY <1>8 DEF Unpend, DropSidecar, RemoveSidecar, At, ItemInv, DiskInv, DiskType, LockType
      <3>3. PayloadHasSidecar'
        BY <1>8 DEF Unpend, DropSidecar, RemoveSidecar, At, ItemInv, DiskInv, DiskType, LockType, PayloadHasSidecar
      <3>4. IntactUnlessPurging'
        BY <1>8 DEF Unpend, DropSidecar, RemoveSidecar, At, ItemInv, DiskInv, DiskType, LockType, IntactUnlessPurging, OnePlace
      <3> QED BY <3>1, <3>2, <3>3, <3>4 DEF DiskInv
    <2>2. ItemInv'
      BY <1>8 DEF Unpend, DropSidecar
    <2> QED BY <2>1, <2>2
  <1>9. ASSUME Unlist
        PROVE  DiskInv' /\ ItemInv'
    <2>1. DiskInv'
      <3>1. OnePlace'
        BY <1>9 DEF Unlist, DropSidecar, RemoveSidecar, At, ItemInv, DiskInv, DiskType, LockType, OnePlace
      <3>2. (\A x \in Objs \ born : left[x] = Size[x])'
        BY <1>9 DEF Unlist, DropSidecar, RemoveSidecar, At, ItemInv, DiskInv, DiskType, LockType
      <3>3. PayloadHasSidecar'
        BY <1>9 DEF Unlist, DropSidecar, RemoveSidecar, At, ItemInv, DiskInv, DiskType, LockType, PayloadHasSidecar
      <3>4. IntactUnlessPurging'
        BY <1>9 DEF Unlist, DropSidecar, RemoveSidecar, At, ItemInv, DiskInv, DiskType, LockType, IntactUnlessPurging, OnePlace
      <3> QED BY <3>1, <3>2, <3>3, <3>4 DEF DiskInv
    <2>2. ItemInv'
      BY <1>9 DEF Unlist, DropSidecar
    <2> QED BY <2>1, <2>2
  <1>10. ASSUME PurgeSidecar
        PROVE  DiskInv' /\ ItemInv'
    <2>1. DiskInv'
      <3>1. OnePlace'
        BY <1>10 DEF PurgeSidecar, DropSidecar, RemoveSidecar, At, ItemInv, DiskInv, DiskType, LockType, OnePlace
      <3>2. (\A x \in Objs \ born : left[x] = Size[x])'
        BY <1>10 DEF PurgeSidecar, DropSidecar, RemoveSidecar, At, ItemInv, DiskInv, DiskType, LockType
      <3>3. PayloadHasSidecar'
        BY <1>10 DEF PurgeSidecar, DropSidecar, RemoveSidecar, At, ItemInv, DiskInv, DiskType, LockType, PayloadHasSidecar
      <3>4. IntactUnlessPurging'
        BY <1>10 DEF PurgeSidecar, DropSidecar, RemoveSidecar, At, ItemInv, DiskInv, DiskType, LockType, IntactUnlessPurging, OnePlace
      <3> QED BY <3>1, <3>2, <3>3, <3>4 DEF DiskInv
    <2>2. ItemInv'
      BY <1>10 DEF PurgeSidecar, DropSidecar
    <2> QED BY <2>1, <2>2
  <1>11. ASSUME Validate
        PROVE  DiskInv' /\ ItemInv'
    <2>1. DiskInv'
      BY <1>11, SameDisk DEF Validate, disk
    <2>2. ItemInv'
      BY <1>11 DEF Validate, disk, At, WriteSidecar, Goto, args, ItemInv, DiskType, LockType
    <2> QED BY <2>1, <2>2
  <1>12. ASSUME ValidateOut
        PROVE  DiskInv' /\ ItemInv'
    <2>1. DiskInv'
      BY <1>12, SameDisk DEF ValidateOut, disk
    <2>2. ItemInv'
      BY <1>12 DEF ValidateOut, disk, At, Goto, args, ItemInv, DiskType, LockType
    <2> QED BY <2>1, <2>2
  <1>13. ASSUME PurgeEntry
        PROVE  DiskInv' /\ ItemInv'
    <2>1. DiskInv'
      <3>1. OnePlace'
        BY <1>13, ObjsAssumption DEF PurgeEntry, At, ItemInv, Objects, DiskInv, DiskType, LockType, OnePlace
      <3>2. (\A x \in Objs \ born : left[x] = Size[x])'
        BY <1>13, ObjsAssumption DEF PurgeEntry, At, ItemInv, Objects, DiskInv, DiskType, LockType, OnePlace
      <3>3. PayloadHasSidecar'
        BY <1>13, ObjsAssumption DEF PurgeEntry, At, ItemInv, Objects, DiskInv, DiskType, LockType, PayloadHasSidecar
      <3>4. IntactUnlessPurging'
        BY <1>13, ObjsAssumption DEF PurgeEntry, At, ItemInv, Objects, DiskInv, DiskType, LockType, IntactUnlessPurging, OnePlace
      <3> QED BY <3>1, <3>2, <3>3, <3>4 DEF DiskInv
    <2>2. ItemInv'
      BY <1>13 DEF PurgeEntry, At, args, ItemInv, DiskType, LockType
    <2> QED BY <2>1, <2>2
  <1>14. ASSUME PurgeTooDeep
        PROVE  DiskInv' /\ ItemInv'
    <2>1. DiskInv'
      BY <1>14, SameDisk DEF PurgeTooDeep, disk
    <2>2. ItemInv'
      BY <1>14 DEF PurgeTooDeep
    <2> QED BY <2>1, <2>2
  <1>15. ASSUME PurgePause
        PROVE  DiskInv' /\ ItemInv'
    <2>1. DiskInv'
      BY <1>15, SameDisk DEF PurgePause, disk
    <2>2. ItemInv'
      BY <1>15 DEF PurgePause
    <2> QED BY <2>1, <2>2
  <1>16. ASSUME PurgeNothing
        PROVE  DiskInv' /\ ItemInv'
    <2>1. DiskInv'
      BY <1>16, SameDisk DEF PurgeNothing, disk
    <2>2. ItemInv'
      BY <1>16 DEF PurgeNothing, disk, At, Goto, args, ItemInv, DiskType, LockType
    <2> QED BY <2>1, <2>2
  <1>17. ASSUME PurgeFails
        PROVE  DiskInv' /\ ItemInv'
    <2>1. DiskInv'
      BY <1>17, SameDisk DEF PurgeFails, disk
    <2>2. ItemInv'
      BY <1>17 DEF PurgeFails
    <2> QED BY <2>1, <2>2
  <1>18. ASSUME PurgePayload
        PROVE  DiskInv' /\ ItemInv'
    <2>1. DiskInv'
      <3>1. OnePlace'
        BY <1>18 DEF PurgePayload, At, ItemInv, Objects, DiskInv, DiskType, LockType, OnePlace
      <3>2. (\A x \in Objs \ born : left[x] = Size[x])'
        BY <1>18 DEF PurgePayload, At, ItemInv, Objects, DiskInv, DiskType, LockType
      <3>3. PayloadHasSidecar'
        BY <1>18 DEF PurgePayload, At, ItemInv, Objects, DiskInv, DiskType, LockType, PayloadHasSidecar
      <3>4. IntactUnlessPurging'
        BY <1>18 DEF PurgePayload, At, ItemInv, Objects, DiskInv, DiskType, LockType, IntactUnlessPurging, OnePlace
      <3> QED BY <3>1, <3>2, <3>3, <3>4 DEF DiskInv
    <2>2. ItemInv'
      BY <1>18 DEF PurgePayload, At, args, ItemInv, DiskType, LockType
    <2> QED BY <2>1, <2>2
  <1>19. ASSUME NEW p \in Paths, NEW i \in Ids, NEW s \in {"live", "purging"}, StartDelete(p, i, s)
        PROVE  DiskInv' /\ ItemInv'
    <2>1. DiskInv'
      BY <1>19, SameDisk DEF StartDelete, Free, disk
    <2>2. ItemInv'
      BY <1>19 DEF StartDelete, Free, disk, WriteSidecar, ItemInv, DiskType, LockType
    <2> QED BY <2>1, <2>2
  <1>20. ASSUME NEW p \in Paths, NEW i \in Ids, StartRestore(i, p)
        PROVE  DiskInv' /\ ItemInv'
    <2>1. DiskInv'
      BY <1>20, SameDisk DEF StartRestore, Free, disk
    <2>2. ItemInv'
      BY <1>20, ObjsAssumption DEF StartRestore, Free, disk, Objects, ItemInv, DiskType, LockType
    <2> QED BY <2>1, <2>2
  <1>21. ASSUME NEW i \in Ids, StartPurge(i)
        PROVE  DiskInv' /\ ItemInv'
    <2>1. DiskInv'
      BY <1>21, SameDisk DEF StartPurge, Free, disk
    <2>2. ItemInv'
      BY <1>21 DEF StartPurge, Free, disk, PurgeFrom, WriteSidecar, ItemInv, DiskType, LockType
    <2> QED BY <2>1, <2>2
  <1>22. ASSUME NEW i \in Ids, StartCollect(i)
        PROVE  DiskInv' /\ ItemInv'
    <2>1. DiskInv'
      BY <1>22, SameDisk DEF StartCollect, Free, disk
    <2>2. ItemInv'
      BY <1>22 DEF StartCollect, Free, disk, PurgeFrom, WriteSidecar, ItemInv, DiskType, LockType
    <2> QED BY <2>1, <2>2
  <1>23. ASSUME NEW p \in Paths, NEW o \in Objs, Create(p, o)
        PROVE  DiskInv' /\ ItemInv'
    <2>1. DiskInv'
      <3>1. OnePlace'
        <4>1. (\A q, r \in Paths : q # r /\ share[q] # None => share[q] # share[r])'
          BY <1>23, ObjsAssumption DEF Create, DiskInv, DiskType, Objects, OnePlace
        <4>2. (\A i, j \in Ids : i # j /\ payload[i] # None => payload[i] # payload[j])'
          BY <1>23 DEF Create, DiskInv, DiskType, Objects, OnePlace
        <4>3. (\A q \in Paths, i \in Ids : share[q] # None => share[q] # payload[i])'
          BY <1>23, ObjsAssumption DEF Create, DiskInv, DiskType, Objects, OnePlace
        <4>4. (\A q \in Paths : share[q] # None => share[q] \in born \ taken)'
          BY <1>23, ObjsAssumption DEF Create, DiskInv, DiskType, Objects, OnePlace
        <4>5. (\A i \in Ids : payload[i] # None => payload[i] \in born \ taken)'
          BY <1>23, ObjsAssumption DEF Create, DiskInv, DiskType, Objects, OnePlace
        <4>6. (taken \subseteq born)'
          BY <1>23, ObjsAssumption DEF Create, DiskInv, DiskType, Objects, OnePlace
        <4> QED BY <4>1, <4>2, <4>3, <4>4, <4>5, <4>6 DEF OnePlace
      <3>2. (\A x \in Objs \ born : left[x] = Size[x])'
        BY <1>23, ObjsAssumption DEF Create, At, Objects, DiskInv, DiskType, LockType
      <3>3. PayloadHasSidecar'
        BY <1>23, ObjsAssumption DEF Create, At, Objects, DiskInv, DiskType, LockType, PayloadHasSidecar
      <3>4. IntactUnlessPurging'
        BY <1>23, ObjsAssumption DEF Create, At, Objects, DiskInv, DiskType, LockType, IntactUnlessPurging, OnePlace
      <3> QED BY <3>1, <3>2, <3>3, <3>4 DEF DiskInv
    <2>2. ItemInv'
      BY <1>23 DEF Create, At
    <2> QED BY <2>1, <2>2
  <1>24. ASSUME Boot
        PROVE  DiskInv' /\ ItemInv'
    <2>1. DiskInv'
      BY <1>24, SameDisk DEF Boot, disk
    <2>2. ItemInv'
      BY <1>24 DEF Boot
    <2> QED BY <2>1, <2>2
  <1>25. ASSUME NEW m \in Names, NotReturned(m)
        PROVE  DiskInv' /\ ItemInv'
    <2>1. DiskInv'
      BY <1>25, SameDisk DEF NotReturned, disk
    <2>2. ItemInv'
      BY <1>25 DEF NotReturned, Returned
    <2> QED BY <2>1, <2>2
  <1>26. ASSUME NEW m \in Names, OverBudget(m)
        PROVE  DiskInv' /\ ItemInv'
    <2>1. DiskInv'
      BY <1>26, SameDisk DEF OverBudget, disk
    <2>2. ItemInv'
      BY <1>26 DEF OverBudget
    <2> QED BY <2>1, <2>2
  <1>27. ASSUME NEW m \in Names, RecoverFails(m)
        PROVE  DiskInv' /\ ItemInv'
    <2>1. DiskInv'
      BY <1>27, SameDisk DEF RecoverFails, disk
    <2>2. ItemInv'
      BY <1>27 DEF RecoverFails
    <2> QED BY <2>1, <2>2
  <1>28. ASSUME NEW i \in Ids, RecoverTemp(i)
        PROVE  DiskInv' /\ ItemInv'
    <2>1. DiskInv'
      BY <1>28, SameDisk DEF RecoverTemp
    <2>2. ItemInv'
      BY <1>28 DEF RecoverTemp, Returned
    <2> QED BY <2>1, <2>2
  <1>29. ASSUME NEW i \in Ids, RecoverPayload(i)
        PROVE  DiskInv' /\ ItemInv'
    <2>1. DiskInv'
      BY <1>29, SameDisk DEF RecoverPayload, disk
    <2>2. ItemInv'
      BY <1>29 DEF RecoverPayload, Returned
    <2> QED BY <2>1, <2>2
  <1>30. ASSUME NEW i \in Ids, RecoverPending(i)
        PROVE  DiskInv' /\ ItemInv'
    <2>1. DiskInv'
      BY <1>30, SameDisk DEF RecoverPending, disk
    <2>2. ItemInv'
      BY <1>30 DEF RecoverPending, disk, WriteSidecar, ItemInv, DiskType, LockType
    <2> QED BY <2>1, <2>2
  <1>31. ASSUME NEW i \in Ids, RecoverAbsent(i)
        PROVE  DiskInv' /\ ItemInv'
    <2>1. DiskInv'
      <3>1. OnePlace'
        BY <1>31 DEF RecoverAbsent, RemoveSidecar, DiskInv, DiskType, LockType, OnePlace
      <3>2. (\A x \in Objs \ born : left[x] = Size[x])'
        BY <1>31 DEF RecoverAbsent, RemoveSidecar, DiskInv, DiskType, LockType
      <3>3. PayloadHasSidecar'
        BY <1>31 DEF RecoverAbsent, RemoveSidecar, DiskInv, DiskType, LockType, PayloadHasSidecar
      <3>4. IntactUnlessPurging'
        BY <1>31 DEF RecoverAbsent, RemoveSidecar, DiskInv, DiskType, LockType, IntactUnlessPurging, OnePlace
      <3> QED BY <3>1, <3>2, <3>3, <3>4 DEF DiskInv
    <2>2. ItemInv'
      BY <1>31 DEF RecoverAbsent, Returned
    <2> QED BY <2>1, <2>2
  <1>32. ASSUME NEW i \in Ids, RecoverLive(i)
        PROVE  DiskInv' /\ ItemInv'
    <2>1. DiskInv'
      BY <1>32, SameDisk DEF RecoverLive, disk
    <2>2. ItemInv'
      BY <1>32 DEF RecoverLive, Returned
    <2> QED BY <2>1, <2>2
  <1>33. ASSUME NEW i \in Ids, RecoverPurging(i)
        PROVE  DiskInv' /\ ItemInv'
    <2>1. DiskInv'
      BY <1>33, SameDisk DEF RecoverPurging, disk
    <2>2. ItemInv'
      BY <1>33 DEF RecoverPurging, disk, PurgeFrom, WriteSidecar, ItemInv, DiskType, LockType
    <2> QED BY <2>1, <2>2
  <1>34. ASSUME Recovered
        PROVE  DiskInv' /\ ItemInv'
    <2>1. DiskInv'
      BY <1>34, SameDisk DEF Recovered, disk
    <2>2. ItemInv'
      BY <1>34 DEF Recovered
    <2> QED BY <2>1, <2>2
  <1>35. ASSUME Crash
        PROVE  DiskInv' /\ ItemInv'
    <2>1. DiskInv'
      BY <1>35, SameDisk DEF Crash
    <2>2. ItemInv'
      BY <1>35 DEF Crash
    <2> QED BY <2>1, <2>2
  <1>36. ASSUME NEW p \in Paths, NEW o \in Objects, Outside(p, o)
        PROVE  DiskInv' /\ ItemInv'
    <2>1. DiskInv'
      <3>1. OnePlace'
        <4>1. (\A q, r \in Paths : q # r /\ share[q] # None => share[q] # share[r])'
          BY <1>36, ObjsAssumption DEF Outside, DiskInv, DiskType, Objects, OnePlace
        <4>2. (\A i, j \in Ids : i # j /\ payload[i] # None => payload[i] # payload[j])'
          BY <1>36 DEF Outside, DiskInv, DiskType, Objects, OnePlace
        <4>3. (\A q \in Paths, i \in Ids : share[q] # None => share[q] # payload[i])'
          BY <1>36, ObjsAssumption DEF Outside, DiskInv, DiskType, Objects, OnePlace
        <4>4. (\A q \in Paths : share[q] # None => share[q] \in born \ taken)'
          BY <1>36, ObjsAssumption DEF Outside, DiskInv, DiskType, Objects, OnePlace
        <4>5. (\A i \in Ids : payload[i] # None => payload[i] \in born \ taken)'
          BY <1>36, ObjsAssumption DEF Outside, DiskInv, DiskType, Objects, OnePlace
        <4>6. (taken \subseteq born)'
          BY <1>36, ObjsAssumption DEF Outside, DiskInv, DiskType, Objects, OnePlace
        <4> QED BY <4>1, <4>2, <4>3, <4>4, <4>5, <4>6 DEF OnePlace
      <3>2. (\A x \in Objs \ born : left[x] = Size[x])'
        BY <1>36, ObjsAssumption DEF Outside, Objects, DiskInv, DiskType, LockType
      <3>3. PayloadHasSidecar'
        BY <1>36, ObjsAssumption DEF Outside, Objects, DiskInv, DiskType, LockType, PayloadHasSidecar
      <3>4. IntactUnlessPurging'
        BY <1>36, ObjsAssumption DEF Outside, Objects, DiskInv, DiskType, LockType, IntactUnlessPurging, OnePlace
      <3> QED BY <3>1, <3>2, <3>3, <3>4 DEF DiskInv
    <2>2. ItemInv'
      BY <1>36 DEF Outside, args, ItemInv, DiskType, LockType
    <2> QED BY <2>1, <2>2
  <1>37. ASSUME NEW i \in Ids, Expire(i)
        PROVE  DiskInv' /\ ItemInv'
    <2>1. DiskInv'
      BY <1>37, SameDisk DEF Expire
    <2>2. ItemInv'
      BY <1>37 DEF Expire, args, ItemInv, DiskType, LockType
    <2> QED BY <2>1, <2>2
  <1> QED
    BY <1>1, <1>2, <1>3, <1>4, <1>5, <1>6, <1>7, <1>8, <1>9, <1>10, <1>11, <1>12,
       <1>13, <1>14, <1>15, <1>16, <1>17, <1>18, <1>19, <1>20, <1>21, <1>22, <1>23,
       <1>24, <1>25, <1>26, <1>27, <1>28, <1>29, <1>30, <1>31, <1>32, <1>33, <1>34,
       <1>35, <1>36, <1>37
    DEF Next, Start, Collect, Step, Recover, Environment

\* The invariant and the types hold in every reachable state of Trash.
LEMMA AlwaysConsistent == Spec => [](TypeOK /\ Consistent)
  <1>1. Init => TypeOK /\ Consistent
    BY TypeInit, ConsistentInit
  <1>2. TypeOK /\ Consistent /\ [Next]_vars => (TypeOK /\ Consistent)'
    BY TypeNext, ConsistentNext
  <1> QED BY <1>1, <1>2, PTL DEF Spec

\* At every point where the process can die, a payload has its sidecar.
THEOREM NoOrphanPayload == Spec => []PayloadHasSidecar
  <1>1. Consistent => PayloadHasSidecar
    BY DEF Consistent
  <1> QED BY <1>1, AlwaysConsistent, PTL

\* What the share serves, or Trash can still restore, has lost nothing.
THEOREM NothingHalfDestroyed == Spec => []IntactUnlessPurging
  <1>1. Consistent => IntactUnlessPurging
    BY DEF Consistent
  <1> QED BY <1>1, AlwaysConsistent, PTL

-----------------------------------------------------------------------------
(* What a startup leaves behind.                                            *)

\* What a startup still owes an item: nothing once it is published with its payload, or purging
\* with no work left in the budget; otherwise the readdir has still to return its sidecar, or
\* the recovery is at work on it.
Owed(i) ==
    \/ sidecar[i] = "live" /\ payload[i] # None
    \/ sidecar[i] = "purging" /\ budget = 0
    \/ <<"sidecar", i>> \in scan
    \/ item = i /\ pc # "scan"

\* The inductive invariant behind RecoveryReconciles: the recovery runs nothing but the end of
\* an interrupted move and a purge, one item at a time, and forgets no item it has not settled.
RecoveryInv ==
    /\ pc = "scan" => server = "recovering"
    /\ server # "up" => publish = "live"
    /\ server = "recovering" =>
          /\ pc \in {"scan", "write_create", "write_commit", "purge_payload", "purge_sidecar"}
          /\ pc \in {"write_create", "write_commit"} => writing \in {"mark", "publish"}
          /\ \A i \in Ids : sidecar[i] # "absent" => Owed(i)

\* A startup may return any name that is in the directory: no sidecar is missed.
LEMMA SidecarsAreRead == ASSUME NEW i \in Ids, sidecar[i] # "absent" PROVE <<"sidecar", i>> \in OnDisk
  BY DEF OnDisk, Names

\* The server is first started on a Trash nothing was recovering.
LEMMA RecoveryInit == Init => RecoveryInv
  BY DEF Init, RecoveryInv

\* An error ends the recovery as it ends any operation (browse_state returns it with `?`).
LEMMA AbortLeaves == ASSUME NEW r, Abort(r), RecoveryInv PROVE RecoveryInv'
  BY DEF Abort, Forget, RecoveryInv, status

\* So does the process dying.
LEMMA CrashLeaves == ASSUME Crash PROVE RecoveryInv'
  BY DEF Crash, Forget, RecoveryInv

\* A server that is up owes nothing until its next start.
LEMMA UpOwesNothing == ASSUME server' = "up", pc' # "scan" PROVE RecoveryInv'
  BY DEF RecoveryInv

\* A step that leaves the sidecars, the payloads and the recovery's progress alone.
LEMMA SameRecovery ==
  ASSUME RecoveryInv, UNCHANGED <<sidecar, payload, scan, pc, args, budget, status>>
  PROVE  RecoveryInv'
  BY DEF RecoveryInv, Owed, args, status

\* While the recovery works on one item the others are owed what they were.
LEMMA OthersOwed ==
  ASSUME NEW i \in Ids, i # item \/ pc = "scan", Owed(i), budget = 0 => budget' = 0,
         sidecar'[i] = sidecar[i], payload'[i] = payload[i],
         <<"sidecar", i>> \in scan => <<"sidecar", i>> \in scan'
  PROVE  Owed(i)'
  BY DEF Owed

\* Every system call of the recovery settles an item, goes on with it, or refuses the startup;
\* operations of a running server leave RecoveryInv nothing to say.
LEMMA RecoveryNext == TypeOK /\ Consistent /\ RecoveryInv /\ [Next]_vars => RecoveryInv'
  <1> SUFFICES ASSUME DiskType, LockType, ItemInv, RecoveryInv, [Next]_vars PROVE RecoveryInv'
    BY DEF TypeOK, Consistent
  <1>1. CASE UNCHANGED vars
    BY <1>1, SameRecovery DEF vars, args, status
  <1>2. ASSUME CreateTemp
        PROVE  RecoveryInv'
    <2>1. CASE Goto("write_commit")
      BY <1>2, <2>1 DEF CreateTemp, At, Goto, disk, args, status, RecoveryInv, Owed
    <2>2. CASE Abort("io")
      BY <2>2, AbortLeaves
    <2> QED BY <1>2, <2>1, <2>2 DEF CreateTemp
  <1>3. ASSUME CommitTemp
        PROVE  RecoveryInv'
    <2>1. CASE Abort("io")
      BY <2>1, AbortLeaves
    <2>2. CASE ~Abort("io")
      <3>0. /\ pc = "write_commit" /\ UNCHANGED <<scan, payload>>
            /\ sidecar' = [sidecar EXCEPT ![item] = Written]
        BY <1>3, <2>2 DEF CommitTemp, At
      <3>1. CASE writing = "pending"
        BY <1>3, <2>2, <3>0, <3>1 DEF CommitTemp, Goto, args, status, RecoveryInv
      <3>2. CASE writing = "mark"
        BY <1>3, <2>2, <3>0, <3>2
        DEF CommitTemp, Goto, args, status, RecoveryInv, Owed, DiskType, LockType
      <3>3. CASE writing = "publish"
        <4>1. payload[item] # None /\ Finish
          BY <1>3, <2>2, <3>0, <3>3 DEF CommitTemp, ItemInv
        <4>2. CASE server = "recovering"
          <5>1. Written = "live" /\ pc' = "scan" /\ UNCHANGED <<server, budget>> /\ publish' = "live"
            BY <3>3, <4>1, <4>2 DEF Written, RecoveryInv, Finish, Forget, status
          <5>2. ASSUME NEW i \in Ids, sidecar'[i] # "absent" PROVE Owed(i)'
            <6>1. CASE i = item
              BY <3>0, <4>1, <5>1, <6>1 DEF Owed, DiskType
            <6>2. CASE i # item
              BY <3>0, <4>2, <5>1, <5>2, <6>2, OthersOwed DEF RecoveryInv, DiskType
            <6> QED BY <6>1, <6>2
          <5> QED BY <4>2, <5>1, <5>2 DEF RecoveryInv
        <4>3. CASE server # "recovering"
          BY <4>1, <4>3 DEF Finish, Forget, status, RecoveryInv
        <4> QED BY <4>2, <4>3
      <3> QED BY <3>1, <3>2, <3>3 DEF LockType
    <2> QED BY <2>1, <2>2
  <1>4. ASSUME MoveIn
        PROVE  RecoveryInv'
    <2>1. server # "recovering"
      BY <1>4 DEF MoveIn, At, RecoveryInv
    <2>2. RecoveryInv' \/ \E r \in Refusals : Abort(r)
      BY <1>4, <2>1, Reasons DEF MoveIn, At, Goto, Finish, Forget, WriteSidecar, args, status, RecoveryInv
    <2> QED BY <2>2, AbortLeaves
  <1>5. ASSUME Rollback
        PROVE  RecoveryInv'
    <2>1. server # "recovering"
      BY <1>5 DEF Rollback, At, RecoveryInv
    <2>2. RecoveryInv' \/ \E r \in Refusals : Abort(r)
      BY <1>5, <2>1, Reasons DEF Rollback, At, Goto, Finish, Forget, WriteSidecar, args, status, RecoveryInv
    <2> QED BY <2>2, AbortLeaves
  <1>6. ASSUME MoveOut
        PROVE  RecoveryInv'
    <2>1. server # "recovering"
      BY <1>6 DEF MoveOut, At, RecoveryInv
    <2>2. RecoveryInv' \/ \E r \in Refusals : Abort(r)
      BY <1>6, <2>1, Reasons DEF MoveOut, At, Goto, Finish, Forget, WriteSidecar, args, status, RecoveryInv
    <2> QED BY <2>2, AbortLeaves
  <1>7. ASSUME RollbackOut
        PROVE  RecoveryInv'
    <2>1. server # "recovering"
      BY <1>7 DEF RollbackOut, At, RecoveryInv
    <2>2. RecoveryInv' \/ \E r \in Refusals : Abort(r)
      BY <1>7, <2>1, Reasons DEF RollbackOut, At, Goto, Finish, Forget, WriteSidecar, args, status, RecoveryInv
    <2> QED BY <2>2, AbortLeaves
  <1>8. ASSUME Validate
        PROVE  RecoveryInv'
    <2>1. server # "recovering"
      BY <1>8 DEF Validate, At, RecoveryInv
    <2>2. RecoveryInv' \/ \E r \in Refusals : Abort(r)
      BY <1>8, <2>1, Reasons DEF Validate, At, Goto, Finish, Forget, WriteSidecar, args, status, RecoveryInv
    <2> QED BY <2>2, AbortLeaves
  <1>9. ASSUME ValidateOut
        PROVE  RecoveryInv'
    <2>1. server # "recovering"
      BY <1>9 DEF ValidateOut, At, RecoveryInv
    <2>2. RecoveryInv' \/ \E r \in Refusals : Abort(r)
      BY <1>9, <2>1, Reasons DEF ValidateOut, At, Goto, Finish, Forget, WriteSidecar, args, status, RecoveryInv
    <2> QED BY <2>2, AbortLeaves
  <1>10. ASSUME Unpend
        PROVE  RecoveryInv'
    <2>1. server # "recovering"
      BY <1>10 DEF Unpend, DropSidecar, At, RecoveryInv
    <2>2. RecoveryInv' \/ \E r \in Refusals : Abort(r)
      BY <1>10, <2>1, Reasons DEF Unpend, DropSidecar, At, Goto, Finish, Forget, WriteSidecar, args, status, RecoveryInv
    <2> QED BY <2>2, AbortLeaves
  <1>11. ASSUME Unlist
        PROVE  RecoveryInv'
    <2>1. server # "recovering"
      BY <1>11 DEF Unlist, DropSidecar, At, RecoveryInv
    <2>2. RecoveryInv' \/ \E r \in Refusals : Abort(r)
      BY <1>11, <2>1, Reasons DEF Unlist, DropSidecar, At, Goto, Finish, Forget, WriteSidecar, args, status, RecoveryInv
    <2> QED BY <2>2, AbortLeaves
  <1>12. ASSUME PurgeSidecar
        PROVE  RecoveryInv'
    <2>1. CASE Abort("io")
      BY <2>1, AbortLeaves
    <2>2. CASE RemoveSidecar(item) /\ Finish
      <3>0. UNCHANGED <<scan, payload>>
        BY <1>12 DEF PurgeSidecar, DropSidecar, At
      <3>1. CASE server = "recovering"
        <4>1. pc' = "scan" /\ UNCHANGED <<server, budget>> /\ publish' = "live"
          BY <2>2, <3>1 DEF Finish, Forget, status
        <4>2. ASSUME NEW i \in Ids, sidecar'[i] # "absent" PROVE Owed(i)'
          <5>1. i # item /\ sidecar'[i] = sidecar[i]
            BY <2>2, <4>2 DEF RemoveSidecar, DiskType
          <5> QED BY <3>0, <3>1, <4>1, <4>2, <5>1, OthersOwed DEF RecoveryInv
        <4> QED BY <3>1, <4>1, <4>2 DEF RecoveryInv
      <3>2. CASE server # "recovering"
        BY <2>2, <3>2 DEF Finish, Forget, status, RecoveryInv
      <3> QED BY <3>1, <3>2
    <2> QED BY <1>12, <2>1, <2>2 DEF PurgeSidecar, DropSidecar
  <1>13. ASSUME PurgeEntry PROVE RecoveryInv'
    BY <1>13 DEF PurgeEntry, At, args, status, RecoveryInv, Owed
  <1>14. ASSUME PurgeTooDeep PROVE RecoveryInv'
    BY <1>14, AbortLeaves DEF PurgeTooDeep
  <1>15. ASSUME PurgePause
        PROVE  RecoveryInv'
    <2>0. pc = "purge_payload" /\ budget = 0 /\ Finish /\ UNCHANGED <<scan, disk>>
      BY <1>15 DEF PurgePause, At
    <2>1. CASE server = "recovering"
      <3>1. /\ pc' = "scan" /\ UNCHANGED <<server, budget>> /\ publish' = "live"
            /\ UNCHANGED <<sidecar, payload>>
        BY <2>0, <2>1 DEF Finish, Forget, status, disk
      <3>2. sidecar[item] = "purging"
        BY <2>0 DEF ItemInv
      <3>3. ASSUME NEW i \in Ids, sidecar[i] # "absent" PROVE Owed(i)'
        BY <2>0, <2>1, <3>1, <3>2, <3>3 DEF RecoveryInv, Owed
      <3> QED BY <2>1, <3>1, <3>3 DEF RecoveryInv
    <2>2. CASE server # "recovering"
      BY <2>0, <2>2 DEF Finish, Forget, status, RecoveryInv
    <2> QED BY <2>1, <2>2
  <1>16. ASSUME PurgePayload
        PROVE  RecoveryInv'
    <2>0. /\ pc = "purge_payload" /\ pc' = "purge_sidecar" /\ UNCHANGED <<scan, sidecar, args, status>>
          /\ \A i \in Ids : i # item => payload'[i] = payload[i]
          /\ budget # 0 /\ sidecar[item] = "purging"
      BY <1>16 DEF PurgePayload, At, ItemInv, DiskType
    <2>1. ASSUME NEW i \in Ids, Owed(i) PROVE Owed(i)'
      <3>1. CASE i = item
        BY <2>0, <3>1 DEF Owed, args
      <3>2. CASE i # item
        BY <2>0, <2>1, <3>2, OthersOwed
      <3> QED BY <3>1, <3>2
    <2> QED BY <2>0, <2>1 DEF RecoveryInv, args, status
  <1>17. ASSUME PurgeNothing PROVE RecoveryInv'
    BY <1>17 DEF PurgeNothing, At, Goto, args, status, disk, RecoveryInv, Owed
  <1>18. ASSUME PurgeFails PROVE RecoveryInv'
    BY <1>18, AbortLeaves DEF PurgeFails
  <1>19. ASSUME NEW p \in Paths, NEW i \in Ids, NEW s \in {"live", "purging"}, StartDelete(p, i, s) PROVE RecoveryInv'
    BY <1>19, UpOwesNothing DEF StartDelete, Free, WriteSidecar, status
  <1>20. ASSUME NEW p \in Paths, NEW i \in Ids, StartRestore(i, p) PROVE RecoveryInv'
    BY <1>20, UpOwesNothing DEF StartRestore, Free, status
  <1>21. ASSUME NEW i \in Ids, StartPurge(i) PROVE RecoveryInv'
    BY <1>21, UpOwesNothing DEF StartPurge, Free, PurgeFrom, WriteSidecar, status
  <1>22. ASSUME NEW i \in Ids, StartCollect(i) PROVE RecoveryInv'
    BY <1>22, UpOwesNothing DEF StartCollect, Free, PurgeFrom, WriteSidecar, status
  <1>23. ASSUME NEW p \in Paths, NEW o \in Objs, Create(p, o) PROVE RecoveryInv'
    BY <1>23, SameRecovery DEF Create, At
  <1>24. ASSUME Boot
        PROVE  RecoveryInv'
    <2>1. UNCHANGED <<sidecar, publish>> /\ scan' = OnDisk /\ pc' = "scan" /\ server' = "recovering"
      BY <1>24 DEF Boot, disk, args
    <2>2. \A i \in Ids : sidecar'[i] # "absent" => Owed(i)'
      BY <2>1, SidecarsAreRead DEF Owed
    <2>3. publish = "live"
      BY <1>24 DEF Boot, RecoveryInv
    <2> QED BY <2>1, <2>2, <2>3 DEF RecoveryInv
  <1>25. ASSUME NEW m \in Names, NotReturned(m)
        PROVE  RecoveryInv'
    <2>1. pc = "scan" /\ scan' = scan \ {m} /\ UNCHANGED <<sidecar, payload, pc, args, budget, status>>
      BY <1>25 DEF NotReturned, Returned, disk
    <2>2. ASSUME NEW i \in Ids, sidecar[i] # "absent", Owed(i) PROVE Owed(i)'
      <3>1. m # <<"sidecar", i>>
        BY <1>25, <2>2, SidecarsAreRead DEF NotReturned
      <3> QED BY <2>1, <2>2, <3>1, OthersOwed
    <2> QED BY <2>1, <2>2 DEF RecoveryInv, args, status
  <1>26. ASSUME NEW m \in Names, OverBudget(m) PROVE RecoveryInv'
    BY <1>26, AbortLeaves DEF OverBudget
  <1>27. ASSUME NEW m \in Names, RecoverFails(m) PROVE RecoveryInv'
    BY <1>27, AbortLeaves DEF RecoverFails
  <1>28. ASSUME NEW i \in Ids, RecoverTemp(i)
        PROVE  RecoveryInv'
    <2>1. /\ pc = "scan" /\ scan' = scan \ {<<"temp", i>>} /\ budget # 0
          /\ UNCHANGED <<sidecar, payload, pc, args, status>>
      BY <1>28 DEF RecoverTemp, Returned, Charged
    <2>2. ASSUME NEW j \in Ids, Owed(j) PROVE Owed(j)'
      <3>1. <<"temp", i>> # <<"sidecar", j>>
        OBVIOUS
      <3> QED BY <2>1, <2>2, <3>1, OthersOwed
    <2> QED BY <2>1, <2>2 DEF RecoveryInv, args, status
  <1>29. ASSUME NEW i \in Ids, RecoverPayload(i)
        PROVE  RecoveryInv'
    <2>1. CASE Abort("orphan")
      BY <2>1, AbortLeaves
    <2>2. CASE Charged /\ UNCHANGED <<pc, args, status>>
      <3>1. /\ pc = "scan" /\ scan' = scan \ {<<"payload", i>>} /\ budget # 0
            /\ UNCHANGED <<sidecar, payload>>
        BY <1>29 DEF RecoverPayload, Returned, disk
      <3>2. ASSUME NEW j \in Ids, Owed(j) PROVE Owed(j)'
        <4>1. <<"payload", i>> # <<"sidecar", j>>
          OBVIOUS
        <4> QED BY <2>2, <3>1, <3>2, <4>1, OthersOwed
      <3> QED BY <2>2, <3>1, <3>2 DEF RecoveryInv, args, status
    <2> QED BY <1>29, <2>1, <2>2 DEF RecoverPayload
  <1>30. ASSUME NEW i \in Ids, RecoverPending(i)
        PROVE  RecoveryInv'
    <2>1. CASE Abort("kind")
      BY <2>1, AbortLeaves
    <2>2. CASE Charged /\ WriteSidecar(i, "publish") /\ publish' = "live" /\ UNCHANGED status
      <3>1. /\ pc = "scan" /\ scan' = scan \ {<<"sidecar", i>>} /\ budget # 0
            /\ UNCHANGED <<sidecar, payload, server>> /\ item' = i /\ pc' = "write_create"
            /\ writing' = "publish"
        BY <1>30, <2>2 DEF RecoverPending, Returned, Charged, WriteSidecar, disk, status
      <3>2. server = "recovering"
        BY <3>1 DEF RecoveryInv
      <3>3. ASSUME NEW j \in Ids, sidecar[j] # "absent" PROVE Owed(j)'
        <4>1. CASE j = i
          BY <3>1, <4>1 DEF Owed
        <4>2. CASE j # i
          <5>1. Owed(j) /\ <<"sidecar", i>> # <<"sidecar", j>>
            BY <3>2, <3>3, <4>2 DEF RecoveryInv
          <5> QED BY <3>1, <5>1, OthersOwed
        <4> QED BY <4>1, <4>2
      <3> QED BY <2>2, <3>1, <3>2, <3>3 DEF RecoveryInv
    <2> QED BY <1>30, <2>1, <2>2 DEF RecoverPending
  <1>31. ASSUME NEW i \in Ids, RecoverAbsent(i)
        PROVE  RecoveryInv'
    <2>1. /\ pc = "scan" /\ scan' = scan \ {<<"sidecar", i>>} /\ budget # 0
          /\ RemoveSidecar(i) /\ UNCHANGED <<payload, pc, args, status>>
      BY <1>31 DEF RecoverAbsent, Returned, Charged
    <2>2. server = "recovering"
      BY <2>1 DEF RecoveryInv
    <2>3. ASSUME NEW j \in Ids, sidecar'[j] # "absent" PROVE Owed(j)'
      <3>1. CASE j = i
        BY <2>1, <2>3, <3>1 DEF RemoveSidecar, DiskType
      <3>2. CASE j # i
        <4>1. sidecar'[j] = sidecar[j] /\ <<"sidecar", i>> # <<"sidecar", j>>
          BY <2>1, <3>2 DEF RemoveSidecar, DiskType
        <4>2. Owed(j)
          BY <2>2, <2>3, <4>1 DEF RecoveryInv
        <4> QED BY <2>1, <4>1, <4>2, OthersOwed
      <3> QED BY <3>1, <3>2
    <2> QED BY <2>1, <2>2, <2>3 DEF RecoveryInv, args, status
  <1>32. ASSUME NEW i \in Ids, RecoverLive(i)
        PROVE  RecoveryInv'
    <2>1. /\ pc = "scan" /\ scan' = scan \ {<<"sidecar", i>>} /\ budget # 0
          /\ UNCHANGED <<sidecar, payload, pc, args, status>> /\ sidecar[i] = "live" /\ payload[i] # None
      BY <1>32 DEF RecoverLive, Returned, Charged, disk
    <2>2. server = "recovering"
      BY <2>1 DEF RecoveryInv
    <2>3. ASSUME NEW j \in Ids, sidecar'[j] # "absent" PROVE Owed(j)'
      <3>1. CASE j = i
        BY <2>1, <3>1 DEF Owed
      <3>2. CASE j # i
        <4>1. sidecar'[j] = sidecar[j] /\ <<"sidecar", i>> # <<"sidecar", j>>
          BY <2>1, <3>2 DEF RemoveSidecar, DiskType
        <4>2. Owed(j)
          BY <2>2, <2>3, <4>1 DEF RecoveryInv
        <4> QED BY <2>1, <4>1, <4>2, OthersOwed
      <3> QED BY <3>1, <3>2
    <2> QED BY <2>1, <2>2, <2>3 DEF RecoveryInv, args, status
  <1>33. ASSUME NEW i \in Ids, RecoverPurging(i)
        PROVE  RecoveryInv'
    <2>1. CASE budget = 1
      BY <1>33, <2>1, UpOwesNothing DEF RecoverPurging
    <2>2. CASE budget # 1
      <3>1. /\ pc = "scan" /\ scan' = scan \ {<<"sidecar", i>>} /\ budget # 0
            /\ UNCHANGED <<sidecar, payload, server, publish>> /\ item' = i
            /\ pc' = "purge_payload" \/ (pc' = "write_create" /\ writing' = "mark")
        BY <1>33, <2>2 DEF RecoverPurging, Returned, Charged, PurgeFrom, WriteSidecar, disk, status
      <3>2. server = "recovering"
        BY <3>1 DEF RecoveryInv
      <3>3. ASSUME NEW j \in Ids, sidecar[j] # "absent" PROVE Owed(j)'
        <4>1. CASE j = i
          BY <3>1, <4>1 DEF Owed
        <4>2. CASE j # i
          <5>1. Owed(j) /\ <<"sidecar", i>> # <<"sidecar", j>>
            BY <3>2, <3>3, <4>2 DEF RecoveryInv
          <5> QED BY <3>1, <5>1, OthersOwed
        <4> QED BY <4>1, <4>2
      <3> QED BY <3>1, <3>2, <3>3 DEF RecoveryInv
    <2> QED BY <2>1, <2>2
  <1>34. ASSUME Recovered PROVE RecoveryInv'
    BY <1>34, UpOwesNothing DEF Recovered
  <1>35. ASSUME Crash PROVE RecoveryInv'
    BY <1>35, CrashLeaves
  <1>36. ASSUME NEW p \in Paths, NEW o \in Objects, Outside(p, o) PROVE RecoveryInv'
    BY <1>36, SameRecovery DEF Outside
  <1>37. ASSUME NEW i \in Ids, Expire(i) PROVE RecoveryInv'
    BY <1>37, SameRecovery DEF Expire
  <1> QED
    BY <1>1, <1>2, <1>3, <1>4, <1>5, <1>6, <1>7, <1>8, <1>9, <1>10, <1>11, <1>12,
       <1>13, <1>14, <1>15, <1>16, <1>17, <1>18, <1>19, <1>20, <1>21, <1>22, <1>23, <1>24,
       <1>25, <1>26, <1>27, <1>28, <1>29, <1>30, <1>31, <1>32, <1>33, <1>34, <1>35, <1>36,
       <1>37
    DEF Next, Start, Collect, Step, Recover, Environment

\* A startup that has read the whole directory has settled every item: published with its
\* payload, or purging when there was no work left in the budget.
THEOREM StartupSettles == Spec => RecoveryReconciles
  <1>1. Init => TypeOK /\ Consistent /\ RecoveryInv
    BY TypeInit, ConsistentInit, RecoveryInit
  <1>2. TypeOK /\ Consistent /\ RecoveryInv /\ [Next]_vars => (TypeOK /\ Consistent /\ RecoveryInv)'
    BY TypeNext, ConsistentNext, RecoveryNext
  <1>3. RecoveryInv /\ [Next]_vars =>
          [Recovered => \A i \in Ids : sidecar[i] # "absent" =>
             \/ sidecar[i] = "live" /\ payload[i] # None
             \/ sidecar[i] = "purging" /\ budget = 0]_vars
    BY DEF Recovered, At, RecoveryInv, Owed
  <1> QED BY <1>1, <1>2, <1>3, PTL DEF Spec, RecoveryReconciles

-----------------------------------------------------------------------------
(* Trash implements EntryLifecycle.                                         *)

\* Phase, case by case.  That the cases exclude each other is OnePlace.
PhaseCases ==
    /\ \A o \in Objs \ born : Phase(o) = "unborn"
    /\ \A o \in taken : Phase(o) = "taken"
    /\ \A p \in Paths : share[p] # None => Phase(share[p]) = "shared"
    /\ \A i \in Ids : payload[i] # None =>
          Phase(payload[i]) = IF sidecar[i] = "purging" THEN "doomed" ELSE "trashed"
    /\ \A o \in born \ taken :
          (\A p \in Paths : share[p] # o) /\ (\A i \in Ids : payload[i] # o) => Phase(o) = "gone"

\* Phase(o) depends only on which place holds o, once places are exclusive.
LEMMA PhaseCasesHold == DiskType /\ DiskInv => PhaseCases
  <1> SUFFICES ASSUME DiskType, DiskInv PROVE PhaseCases
    OBVIOUS
  <1> USE ObjsAssumption
  <1>1. \A o \in Objs \ born : Phase(o) = "unborn"
    BY DEF Phase
  <1>2. \A o \in taken : Phase(o) = "taken"
    BY DEF Phase, DiskInv, OnePlace
  <1>3. ASSUME NEW p \in Paths, share[p] # None PROVE Phase(share[p]) = "shared"
    <2>1. share[p] \in born /\ share[p] \notin taken
      BY <1>3 DEF DiskInv, OnePlace
    <2> QED BY <2>1 DEF Phase
  <1>4. ASSUME NEW i \in Ids, payload[i] # None
        PROVE  Phase(payload[i]) = IF sidecar[i] = "purging" THEN "doomed" ELSE "trashed"
    <2>1. payload[i] \in born /\ payload[i] \notin taken
      BY <1>4 DEF DiskInv, OnePlace
    <2>2. \A p \in Paths : share[p] # payload[i]
      BY <1>4 DEF DiskInv, OnePlace
    <2>3. \A j \in Ids : payload[j] = payload[i] => j = i
      BY <1>4 DEF DiskInv, OnePlace
    <2> QED BY <2>1, <2>2, <2>3 DEF Phase
  <1>5. \A o \in born \ taken :
          (\A p \in Paths : share[p] # o) /\ (\A i \in Ids : payload[i] # o) => Phase(o) = "gone"
    BY DEF Phase
  <1> QED BY <1>1, <1>2, <1>3, <1>4, <1>5 DEF PhaseCases

\* The same after a step.
LEMMA PhaseCasesHoldNext == (DiskType /\ DiskInv => PhaseCases)'
  BY PhaseCasesHold, PTL

\* One entry goes along an edge, or stays where it is.
Moves(o) == Phase(o)' # Phase(o) => <<Phase(o), Phase(o)'>> \in Lifecycle!Edges

\* An entry that nothing the step changes has to do with stays where it is.
LEMMA Stays ==
  ASSUME NEW o \in Objs,
         \A p \in Paths : share'[p] = o <=> share[p] = o,
         \A i \in Ids : payload'[i] = o <=> payload[i] = o,
         \A i \in Ids : payload[i] = o => (sidecar'[i] = "purging" <=> sidecar[i] = "purging"),
         o \in born' <=> o \in born, o \in taken' <=> o \in taken
  PROVE  Moves(o)
  BY DEF Moves, Phase

\* A step that leaves the directories as they are moves no entry.
LEMMA SamePhase ==
  ASSUME UNCHANGED <<share, payload, sidecar, born, taken>>, NEW o \in Objs
  PROVE  Moves(o)
  BY DEF Moves, Phase

\* A rename into Trash sends its entry from the share to Trash.
LEMMA RenameInMoves ==
  ASSUME TypeOK, PhaseCases, PhaseCases', sidecar[item] # "purging",
         payload[item] = None, RenameIn, UNCHANGED <<sidecar, born, taken>>, NEW o \in Objs
  PROVE  Moves(o)
  <1>1. CASE o = share[place]
    <2>1. Phase(o) = "shared"
      BY <1>1, ObjsAssumption DEF PhaseCases, TypeOK, LockType
    <2>2. payload'[item] = o /\ sidecar'[item] # "purging"
      BY <1>1 DEF RenameIn, TypeOK, DiskType, LockType
    <2>3. Phase(o)' = "trashed"
      BY <2>2, ObjsAssumption DEF PhaseCases, TypeOK, LockType
    <2> QED BY <2>1, <2>3 DEF Moves, Lifecycle!Edges
  <1>2. CASE o # share[place]
    BY <1>2, Stays, ObjsAssumption DEF RenameIn, TypeOK, DiskType, LockType
  <1> QED BY <1>1, <1>2

\* A rename out of Trash sends it back.
LEMMA RenameOutMoves ==
  ASSUME TypeOK, PhaseCases, PhaseCases', sidecar[item] # "purging", payload[item] # None,
         RenameOut, UNCHANGED <<sidecar, born, taken>>, NEW o \in Objs
  PROVE  Moves(o)
  <1>1. CASE o = payload[item]
    <2>1. Phase(o) = "trashed"
      BY <1>1 DEF PhaseCases, TypeOK, LockType
    <2>2. share'[place] = o
      BY <1>1 DEF RenameOut, TypeOK, DiskType, LockType
    <2>3. Phase(o)' = "shared"
      BY <2>2, ObjsAssumption DEF PhaseCases, TypeOK, LockType
    <2> QED BY <2>1, <2>3 DEF Moves, Lifecycle!Edges
  <1>2. CASE o # payload[item]
    BY <1>2, Stays, ObjsAssumption DEF RenameOut, TypeOK, DiskType, LockType
  <1> QED BY <1>1, <1>2

\* A sidecar that goes, once its payload is gone, takes nothing with it.
LEMMA RemoveSidecarMoves ==
  ASSUME TypeOK, NEW i \in Ids, payload[i] = None, RemoveSidecar(i),
         UNCHANGED <<share, payload, born, taken>>, NEW o \in Objs
  PROVE  Moves(o)
  BY Stays, ObjsAssumption DEF RemoveSidecar, TypeOK, DiskType

\* Every step of every operation, crash and recovery moves an entry along an edge.
LEMMA NextMoves ==
  ASSUME TypeOK, TypeOK', Consistent, Consistent', [Next]_vars, NEW o \in Objs
  PROVE  Moves(o)
  <1>a. PhaseCases /\ PhaseCases'
    BY PhaseCasesHold, PhaseCasesHoldNext DEF TypeOK, Consistent, DiskInv
  <1>i. ItemInv /\ DiskType /\ LockType
    BY DEF Consistent, TypeOK
  <1>s. SUFFICES ASSUME ~ UNCHANGED <<share, payload, sidecar, born, taken>> PROVE Moves(o)
    BY SamePhase
  <1>1. CASE MoveIn
    BY <1>1, <1>a, <1>i, RenameInMoves, SamePhase DEF MoveIn, At, RenameFails, ItemInv
  <1>2. CASE RollbackOut
    BY <1>2, <1>a, <1>i, RenameInMoves, SamePhase DEF RollbackOut, At, RenameFails, ItemInv
  <1>3. CASE Rollback
    BY <1>3, <1>a, <1>i, RenameOutMoves, SamePhase DEF Rollback, At, RenameFails, ItemInv
  <1>4. CASE MoveOut
    BY <1>4, <1>a, <1>i, RenameOutMoves, SamePhase DEF MoveOut, At, RenameFails, ItemInv
  <1>5. CASE Unpend \/ Unlist \/ PurgeSidecar
    <2>1. payload[item] = None
      BY <1>5, <1>i DEF Unpend, Unlist, PurgeSidecar, DropSidecar, At, ItemInv
    <2>2. UNCHANGED <<share, payload, born, taken>> /\ RemoveSidecar(item)
      BY <1>5, <1>s DEF Unpend, Unlist, PurgeSidecar, DropSidecar
    <2> QED BY <2>1, <2>2, <1>i, RemoveSidecarMoves DEF LockType
  <1>6. CASE CommitTemp
    <2>0. /\ UNCHANGED <<share, payload, born, taken>> /\ item \in Ids
          /\ sidecar' = [sidecar EXCEPT ![item] = Written]
      BY <1>6, <1>s, <1>i DEF CommitTemp, LockType
    <2>1. CASE payload[item] = o /\ Written = "purging"
      <3>1. sidecar[item] # "purging"
        BY <1>6, <1>i, <2>1, ObjsAssumption DEF CommitTemp, At, ItemInv, Written, LockType
      <3>2. Phase(o) = "trashed"
        BY <1>a, <2>0, <2>1, <3>1, ObjsAssumption DEF PhaseCases
      <3>3. payload'[item] = o /\ sidecar'[item] = "purging"
        BY <2>0, <2>1, <1>i DEF DiskType
      <3>4. Phase(o)' = "doomed"
        BY <1>a, <2>0, <3>3, ObjsAssumption DEF PhaseCases
      <3> QED BY <3>2, <3>4 DEF Moves, Lifecycle!Edges
    <2>2. CASE ~(payload[item] = o /\ Written = "purging")
      <3>1. payload[item] = o => sidecar[item] # "purging"
        BY <1>6, <1>i, <2>2, ObjsAssumption DEF CommitTemp, At, ItemInv, Written, LockType
      <3> QED BY <2>0, <2>2, <3>1, <1>i, Stays DEF DiskType
    <2> QED BY <2>1, <2>2
  <1>7. CASE PurgePayload
    <2>0. /\ payload' = [payload EXCEPT ![item] = None] /\ item \in Ids
          /\ sidecar[item] = "purging" /\ payload[item] \in Objs
          /\ UNCHANGED <<share, sidecar, born, taken>>
      BY <1>7, <1>i DEF PurgePayload, At, ItemInv, LockType
    <2>1. CASE payload[item] = o
      <3>1. Phase(o) = "doomed"
        BY <1>a, <2>0, <2>1, ObjsAssumption DEF PhaseCases
      <3>2. /\ o \in born' \ taken'
            /\ \A p \in Paths : share'[p] # o
            /\ \A i \in Ids : payload'[i] # o
        BY <2>0, <2>1, <1>i, ObjsAssumption DEF Consistent, OnePlace, DiskType
      <3>3. Phase(o)' = "gone"
        BY <1>a, <3>2 DEF PhaseCases
      <3> QED BY <3>1, <3>3 DEF Moves, Lifecycle!Edges
    <2>2. CASE payload[item] # o
      BY <2>0, <2>2, <1>i, Stays, ObjsAssumption DEF DiskType
    <2> QED BY <2>1, <2>2
  <1>8. ASSUME NEW i \in Ids, RecoverAbsent(i) PROVE Moves(o)
    BY <1>8, RemoveSidecarMoves DEF RecoverAbsent
  <1>9. ASSUME NEW p \in Paths, NEW x \in Objs, Create(p, x) PROVE Moves(o)
    <2>0. /\ share' = [share EXCEPT ![p] = x] /\ UNCHANGED <<payload, sidecar, taken>>
          /\ share[p] = None /\ x \notin born /\ born' = born \cup {x}
      BY <1>9 DEF Create
    <2>1. CASE o = x
      <3>1. Phase(o) = "unborn"
        BY <1>a, <2>0, <2>1 DEF PhaseCases
      <3>2. share'[p] = o
        BY <2>0, <2>1, <1>i DEF DiskType
      <3>3. Phase(o)' = "shared"
        BY <1>a, <3>2, ObjsAssumption DEF PhaseCases
      <3> QED BY <3>1, <3>3 DEF Moves, Lifecycle!Edges
    <2>2. CASE o # x
      BY <2>0, <2>2, <1>i, Stays, ObjsAssumption DEF DiskType
    <2> QED BY <2>1, <2>2
  <1>10. ASSUME NEW p \in Paths, NEW x \in Objects, Outside(p, x) PROVE Moves(o)
    <2>0. /\ share' = [share EXCEPT ![p] = x] /\ UNCHANGED <<payload, sidecar>>
          /\ x \in Objs => x \notin born
          /\ share[p] # x
          /\ born' = born \cup ({x} \ {None})
          /\ taken' = taken \cup ({share[p]} \ {None})
      BY <1>10 DEF Outside
    <2>1. CASE o = x
      <3>1. Phase(o) = "unborn"
        BY <1>a, <2>0, <2>1 DEF PhaseCases
      <3>2. share'[p] = o
        BY <2>0, <2>1, <1>i DEF DiskType
      <3>3. Phase(o)' = "shared"
        BY <1>a, <3>2, ObjsAssumption DEF PhaseCases
      <3> QED BY <3>1, <3>3 DEF Moves, Lifecycle!Edges
    <2>2. CASE o = share[p]
      <3>1. Phase(o) = "shared"
        BY <1>a, <2>2, ObjsAssumption DEF PhaseCases
      <3>2. o \in taken'
        BY <2>0, <2>2, ObjsAssumption
      <3>3. Phase(o)' = "taken"
        BY <1>a, <3>2 DEF PhaseCases
      <3> QED BY <3>1, <3>3 DEF Moves, Lifecycle!Edges
    <2>3. CASE o # x /\ o # share[p]
      BY <2>0, <2>3, <1>i, Stays, ObjsAssumption DEF DiskType
    <2> QED BY <2>1, <2>2, <2>3
  <1>11. \/ MoveIn \/ RollbackOut \/ Rollback \/ MoveOut \/ CommitTemp \/ PurgePayload
         \/ Unpend \/ Unlist \/ PurgeSidecar
         \/ \E i \in Ids : RecoverAbsent(i)
         \/ \E p \in Paths, x \in Objs : Create(p, x)
         \/ \E p \in Paths, x \in Objects : Outside(p, x)
    <2> USE <1>s DEF disk
    <2>1. ~Start \/ \E p \in Paths, x \in Objs : Create(p, x)
      BY DEF Start, StartDelete, StartRestore, StartPurge, Free
    <2>2. ~Collect /\ ~Boot
      BY DEF Collect, StartCollect, Free, Boot
    <2>3. ~CreateTemp /\ ~Validate /\ ~ValidateOut
      BY DEF CreateTemp, Validate, ValidateOut
    <2>4. ~PurgeEntry /\ ~PurgeTooDeep /\ ~PurgePause /\ ~PurgeNothing /\ ~PurgeFails
      BY DEF PurgeEntry, PurgeTooDeep, PurgePause, PurgeNothing, PurgeFails
    <2>5. ~Recover \/ \E i \in Ids : RecoverAbsent(i)
      BY DEF Recover, NotReturned, OverBudget, RecoverFails, RecoverTemp, RecoverPayload,
             RecoverPending, RecoverLive, RecoverPurging, Recovered
    <2>6. ~Crash /\ ~(\E i \in Ids : Expire(i)) /\ ~UNCHANGED vars
      BY DEF Crash, Expire, vars
    <2> QED BY <2>1, <2>2, <2>3, <2>4, <2>5, <2>6 DEF Next, Step, Environment
  <1> QED BY <1>1, <1>2, <1>3, <1>4, <1>5, <1>6, <1>7, <1>8, <1>9, <1>10, <1>11

\* Trash implements EntryLifecycle: whatever is interrupted, no entry is lost
\* between the share and Trash, and none comes back that was marked purging.
THEOREM TrashImplementsLifecycle == Spec => LifecycleSpec
  <1> DEFINE ph == [o \in Objs |-> Phase(o)]
  <1>1. Init => Lifecycle!Init
    <2> SUFFICES ASSUME Init PROVE Lifecycle!Init
      OBVIOUS
    <2>1. PhaseCases
      BY TypeInit, ConsistentInit, PhaseCasesHold DEF TypeOK, Consistent, DiskInv
    <2>2. ASSUME NEW o \in Objs PROVE Phase(o) \in {"unborn", "shared", "trashed"}
      <3>1. CASE o \notin born
        BY <2>1, <3>1 DEF PhaseCases
      <3>2. ASSUME NEW p \in Paths, share[p] = o PROVE Phase(o) = "shared"
        BY <2>1, <3>2, ObjsAssumption DEF PhaseCases
      <3>3. ASSUME NEW i \in Ids, payload[i] = o PROVE Phase(o) = "trashed"
        BY <2>1, <3>3, ObjsAssumption DEF PhaseCases, Init
      <3> QED BY <3>1, <3>2, <3>3 DEF Init
    <2> QED BY <2>2 DEF Lifecycle!Init
  <1>2. TypeOK /\ TypeOK' /\ Consistent /\ Consistent' /\ [Next]_vars => [Lifecycle!Next]_ph
    <2> SUFFICES ASSUME TypeOK, TypeOK', Consistent, Consistent', [Next]_vars
                 PROVE  Lifecycle!Next
      OBVIOUS
    <2>1. \A o \in Objs : Moves(o)
      BY NextMoves
    <2>2. \A o \in Objs : Phase(o)' \in Lifecycle!Phases
      BY DEF Phase, Lifecycle!Phases
    <2> QED BY <2>1, <2>2 DEF Moves, Lifecycle!Next
  <1> QED BY <1>1, <1>2, AlwaysConsistent, PTL DEF Spec, LifecycleSpec, Lifecycle!Spec
=============================================================================
