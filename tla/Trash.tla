------------------------------- MODULE Trash -------------------------------
(***************************************************************************)
(* The private Trash of one writable share (src/filesystem/trash.rs): the  *)
(* payloads and sidecars of .crabinet/trash, the operations that move      *)
(* entries in and out and purge them, the hourly collection and the        *)
(* startup recovery.                                                       *)
(*                                                                         *)
(* One action is one system call that changes a directory, so that a crash *)
(* or a failing call can fall between any two of them.  Every writer holds *)
(* the share's commit lock for the whole of its operation: pc is the next  *)
(* call of the operation that holds it, "idle" when nobody does.           *)
(***************************************************************************)
EXTENDS Naturals

CONSTANTS
    Ids,            \* opaque names of Trash items
    Paths,          \* places of the share an entry can be in
    Objs,           \* entries: one element is one version of one file or folder
    None,           \* "no such directory entry"
    Dirs,           \* the entries that are folders
    Deep,           \* folders nested deeper than MAX_PATH_DEPTH (from earlier versions)
    Size,           \* how many entries a folder holds
    InitShare,      \* what the share holds when the server is first started
    InitTrash,      \* Trash items an earlier process left, all published
    PurgeEntries,   \* entries one purge call may remove (batch size)
    RecoverEntries, \* work one startup recovery may do
    MaxFaults       \* crashes, failing calls and outside changes still to come

ASSUME ObjsAssumption ==
    /\ Ids # {} /\ Paths # {}
    /\ Dirs \subseteq Objs /\ Deep \subseteq Dirs
    /\ None \notin Objs
    /\ Size \in [Objs -> Nat]
    /\ \A o \in Objs \ Dirs : Size[o] = 0
    /\ \A o \in Deep : Size[o] > 0
ASSUME InitAssumption ==
    /\ InitShare \in [Paths -> Objs \cup {None}]
    /\ InitTrash \in [Ids -> Objs \cup {None}]
    /\ \A p, q \in Paths : p # q /\ InitShare[p] # None => InitShare[p] # InitShare[q]
    /\ \A i, j \in Ids : i # j /\ InitTrash[i] # None => InitTrash[i] # InitTrash[j]
    /\ \A p \in Paths, i \in Ids : InitShare[p] # None => InitShare[p] # InitTrash[i]
ASSUME BoundsAssumption ==
    /\ PurgeEntries \in Nat \ {0}
    /\ RecoverEntries \in Nat
    /\ MaxFaults \in Nat

VARIABLES
    share,      \* what each place of the share holds
    payload,    \* what .crabinet/trash/<id> holds
    sidecar,    \* the state in .crabinet/trash/<id>.json, or "absent"
    kind,       \* the kind recorded there
    expired,    \* items whose recorded deadline has passed
    temps,      \* leftover .tmp- files, by the item whose sidecar they were for
    left,       \* entries still inside each folder
    born,       \* entries that have ever existed
    taken,      \* entries of the share another process on the host removed
    pc,         \* the next call of the operation that holds the commit lock
    item, place,\* the two sides of its rename
    obj,        \* the version the client validated
    writing,    \* what the sidecar it is writing is for
    publish,    \* the state it gives an entry it has moved in
    budget,     \* entries it may still touch
    server,     \* "up", "recovering" or "down"
    refusal,    \* why the last startup was refused, or "none"
    scan,       \* directory names the recovery's readdir has still to return
    faults      \* disturbances still allowed

disk == <<share, payload, sidecar, kind, expired, temps, left, born, taken>>
args == <<item, place, obj, writing, publish>>
status == <<server, refusal>>
vars == <<share, payload, sidecar, kind, expired, temps, left, born, taken,
          pc, item, place, obj, writing, publish, budget, server, refusal, scan, faults>>

States == {"absent", "pending", "live", "purging"}
Kinds == {"file", "directory"}
Kind(o) == IF o \in Dirs THEN "directory" ELSE "file"
Names == {"sidecar", "payload", "temp"} \X Ids
Refusals == {"none", "orphan", "too_large", "too_deep", "kind", "io"}
Labels == {"idle", "scan", "write_create", "write_commit", "move", "unpend",
           "validate", "rollback", "out", "out_validate", "out_rollback", "unlist",
           "purge_payload", "purge_sidecar"}
Objects == Objs \cup {None}

DiskType ==
    /\ share \in [Paths -> Objects]
    /\ payload \in [Ids -> Objects]
    /\ sidecar \in [Ids -> States]
    /\ kind \in [Ids -> Kinds]
    /\ expired \subseteq Ids
    /\ temps \subseteq Ids
    /\ left \in [Objs -> Nat]
    /\ born \subseteq Objs
    /\ taken \subseteq Objs

LockType ==
    /\ pc \in Labels
    /\ item \in Ids
    /\ place \in Paths
    /\ obj \in Objects
    /\ writing \in {"pending", "mark", "publish"}
    /\ publish \in {"live", "purging"}
    /\ budget \in Nat
    /\ server \in {"up", "recovering", "down"}
    /\ refusal \in Refusals

TypeOK ==
    /\ DiskType
    /\ LockType
    /\ scan \subseteq Names
    /\ faults \in Nat

AnyId == CHOOSE i \in Ids : TRUE
AnyPath == CHOOSE p \in Paths : TRUE

Init ==
    /\ share = InitShare
    /\ payload = InitTrash
    /\ sidecar = [i \in Ids |-> IF InitTrash[i] = None THEN "absent" ELSE "live"]
    /\ kind = [i \in Ids |-> Kind(InitTrash[i])]
    /\ expired = {} /\ temps = {}
    /\ left = Size
    /\ born = {o \in Objs : (\E p \in Paths : InitShare[p] = o)
                            \/ (\E i \in Ids : InitTrash[i] = o)}
    /\ taken = {}
    /\ pc = "idle" /\ item = AnyId /\ place = AnyPath /\ obj = None
    /\ writing = "pending" /\ publish = "live" /\ budget = 0
    /\ server = "down" /\ refusal = "none"
    /\ scan = {}
    /\ faults = MaxFaults

-----------------------------------------------------------------------------
(* How operations end, and how calls fail.                                  *)

Fault == faults > 0 /\ faults' = faults - 1

\* What an operation worked on is forgotten when it ends.
Forget ==
    /\ item' = AnyId /\ place' = AnyPath /\ obj' = None
    /\ writing' = "pending" /\ publish' = "live"

\* The operation is over: the commit lock is free again, or, under recovery,
\* the readdir loop goes on.
Finish ==
    /\ Forget
    /\ IF server = "recovering"
       THEN pc' = "scan" /\ UNCHANGED budget
       ELSE pc' = "idle" /\ budget' = 0
    /\ UNCHANGED status

\* The operation returns an error to its caller.  An error of the recovery
\* aborts the startup, because browse_state returns it with `?`.
Abort(reason) ==
    /\ Forget /\ pc' = "idle" /\ budget' = 0
    /\ IF server = "recovering"
       THEN server' = "down" /\ refusal' = reason
       ELSE UNCHANGED status

Goto(label) == pc' = label /\ UNCHANGED <<args, budget, status>>

\* The operation goes on at label, with the lock held.
At(label) == pc = label /\ UNCHANGED scan

Free == server = "up" /\ pc = "idle" /\ UNCHANGED <<disk, status, scan, faults>>

-----------------------------------------------------------------------------
(* write_sidecar: a temporary file is written and synced, then renamed over *)
(* <id>.json.  Where it fails the temporary is removed, best effort.        *)

WriteSidecar(i, what) == pc' = "write_create" /\ item' = i /\ writing' = what

CreateTemp ==
    /\ At("write_create")
    /\ UNCHANGED disk
    /\ \/ Goto("write_commit") /\ UNCHANGED faults
       \/ Fault /\ Abort("io")

Written == CASE writing = "pending" -> "pending"
             [] writing = "mark"    -> "purging"
             [] writing = "publish" -> publish

CommitTemp ==
    /\ At("write_commit")
    /\ UNCHANGED <<share, payload, expired, left, born, taken>>
    /\ \/ /\ sidecar' = [sidecar EXCEPT ![item] = Written]
          /\ kind' = IF writing = "pending" THEN [kind EXCEPT ![item] = Kind(obj)] ELSE kind
          /\ CASE writing = "pending" -> Goto("move")
               [] writing = "mark"    -> Goto("purge_payload")
               [] writing = "publish" -> Finish
          /\ UNCHANGED <<temps, faults>>
       \/ /\ Fault /\ Abort("io")
          /\ temps' \in {temps, temps \cup {item}}
          /\ UNCHANGED <<sidecar, kind>>

RemoveSidecar(i) ==
    /\ sidecar' = [sidecar EXCEPT ![i] = "absent"]
    /\ kind' = [kind EXCEPT ![i] = "file"]
    /\ expired' = expired \ {i}

\* The last call of an operation, which removes its item's sidecar.
DropSidecar(label, End) ==
    /\ At(label)
    /\ UNCHANGED <<share, payload, temps, left, born, taken>>
    /\ \/ RemoveSidecar(item) /\ End /\ UNCHANGED faults
       \/ Fault /\ Abort("io") /\ UNCHANGED <<sidecar, kind, expired>>

\* renameat2 with RENAME_NOREPLACE, between the share and Trash.
RenameIn ==
    /\ share[place] # None
    /\ payload' = [payload EXCEPT ![item] = share[place]]
    /\ share' = [share EXCEPT ![place] = None]
    /\ UNCHANGED faults

RenameOut ==
    /\ share[place] = None
    /\ share' = [share EXCEPT ![place] = payload[item]]
    /\ payload' = [payload EXCEPT ![item] = None]
    /\ UNCHANGED faults

\* The rename fails: always without a source or with the target taken.
RenameFails(certain) ==
    /\ IF certain THEN UNCHANGED faults ELSE Fault
    /\ UNCHANGED <<share, payload>>

-----------------------------------------------------------------------------
(* move_into_trash, for a move to Trash ("live") and for a permanent delete *)
(* ("purging").                                                             *)

\* The client's validator still matches under the lock and the tree is within
\* the depth limit; the id is one neither a payload nor a sidecar uses.
StartDelete(p, i, state) ==
    /\ Free
    /\ share[p] \in Objs \ Deep
    /\ payload[i] = None /\ sidecar[i] = "absent"
    /\ WriteSidecar(i, "pending")
    /\ place' = p /\ obj' = share[p] /\ publish' = state
    /\ UNCHANGED budget

MoveIn ==
    /\ At("move")
    /\ UNCHANGED <<sidecar, kind, expired, temps, left, born, taken>>
    /\ \/ RenameIn /\ Goto("validate")
       \/ RenameFails(share[place] = None) /\ Goto("unpend")

\* The source could not be moved, or was moved back: its sidecar goes too.
Unpend == DropSidecar("unpend", Abort("io"))

Validate ==
    /\ At("validate")
    /\ UNCHANGED disk
    /\ \/ /\ payload[item] = obj
          /\ WriteSidecar(item, "publish")
          /\ UNCHANGED <<place, obj, publish, budget, status, faults>>
       \/ payload[item] # obj /\ Goto("rollback") /\ UNCHANGED faults
       \/ Fault /\ Abort("io")

\* Mutant: a rollback that failed is treated like one that succeeded.
RollbackIgnored ==
    /\ At("rollback")
    /\ UNCHANGED <<sidecar, kind, expired, temps, left, born, taken>>
    /\ RenameOut \/ RenameFails(share[place] # None)
    /\ Goto("unpend")

\* The entry that was moved is not the one that was validated: put it back,
\* unless the place was taken meanwhile; then it is retained as pending.
Rollback ==
    /\ At("rollback")
    /\ UNCHANGED <<sidecar, kind, expired, temps, left, born, taken>>
    /\ \/ RenameOut /\ Goto("unpend")
       \/ RenameFails(share[place] # None) /\ Abort("io")

-----------------------------------------------------------------------------
(* restore_trash                                                            *)

\* Mutant: the check that the item is still live is missing.
RestoreAny(i, dest) ==
    /\ Free
    /\ sidecar[i] # "absent"
    /\ payload[i] \in Objs \ Deep
    /\ pc' = "out" /\ item' = i /\ place' = dest /\ obj' = payload[i]
    /\ UNCHANGED <<writing, publish, budget>>

StartRestore(i, dest) ==
    /\ Free
    /\ sidecar[i] = "live"
    /\ payload[i] \in Objs \ Deep
    /\ Kind(payload[i]) = kind[i]
    /\ pc' = "out" /\ item' = i /\ place' = dest /\ obj' = payload[i]
    /\ UNCHANGED <<writing, publish, budget>>

MoveOut ==
    /\ At("out")
    /\ UNCHANGED <<sidecar, kind, expired, temps, left, born, taken>>
    /\ \/ RenameOut /\ Goto("out_validate")
       \/ RenameFails(share[place] # None) /\ Abort("io")

ValidateOut ==
    /\ At("out_validate")
    /\ UNCHANGED disk
    /\ \/ share[place] = obj /\ Goto("unlist") /\ UNCHANGED faults
       \/ /\ IF share[place] # obj THEN UNCHANGED faults ELSE Fault
          /\ Goto("out_rollback")

RollbackOut ==
    /\ At("out_rollback")
    /\ UNCHANGED <<sidecar, kind, expired, temps, left, born, taken>>
    /\ RenameIn \/ RenameFails(share[place] = None)
    /\ Abort("io")

Unlist == DropSidecar("unlist", Finish)

-----------------------------------------------------------------------------
(* purge: mark the sidecar, remove the payload within the budget, remove    *)
(* the sidecar.                                                             *)

\* Mutant: the removal starts before the sidecar is marked.
PurgeUnmarked(i) ==
    /\ pc' = "purge_payload" /\ item' = i
    /\ UNCHANGED <<writing, place, obj, publish>>

PurgeFrom(i) ==
    /\ IF sidecar[i] = "purging"
       THEN pc' = "purge_payload" /\ item' = i /\ UNCHANGED writing
       ELSE WriteSidecar(i, "mark")
    /\ UNCHANGED <<place, obj, publish>>

\* A purge call gets what its batch has not spent on earlier items.
Allowance == budget' \in 1 .. PurgeEntries

\* A client purges one item, empties Trash, or goes on with a permanent delete.
StartPurge(i) ==
    /\ Free
    /\ sidecar[i] \in {"live", "purging"}
    /\ PurgeFrom(i) /\ Allowance

\* Mutant: the collection forgets the purges others began.
CollectExpired(i) ==
    /\ Free
    /\ sidecar[i] = "live" /\ i \in expired
    /\ PurgeFrom(i) /\ Allowance

\* The hourly collection takes up an item that expired or is being purged.
StartCollect(i) ==
    /\ Free
    /\ sidecar[i] = "purging" \/ (sidecar[i] = "live" /\ i \in expired)
    /\ PurgeFrom(i) /\ Allowance

\* remove_tree takes one entry of a folder at a time.  The chain of a folder that
\* is too deep is never removed.
PurgeEntry ==
    /\ At("purge_payload")
    /\ payload[item] \in Dirs /\ budget > 0
    /\ left[payload[item]] > IF payload[item] \in Deep THEN 1 ELSE 0
    /\ left' = [left EXCEPT ![payload[item]] = @ - 1]
    /\ budget' = budget - 1
    /\ UNCHANGED <<share, payload, sidecar, kind, expired, temps, born, taken,
                   pc, args, status, faults>>

PurgeTooDeep ==
    /\ At("purge_payload")
    /\ payload[item] \in Deep /\ budget > 0
    /\ Abort("too_deep")
    /\ UNCHANGED <<disk, faults>>

\* Out of budget before the folder itself could go: a later call goes on.
PurgePause ==
    /\ At("purge_payload")
    /\ payload[item] \in Dirs /\ budget = 0
    /\ Finish
    /\ UNCHANGED <<disk, faults>>

\* The file or the emptied folder goes.
PurgePayload ==
    /\ At("purge_payload")
    /\ payload[item] \in Objs /\ left[payload[item]] = 0 /\ budget > 0
    /\ payload' = [payload EXCEPT ![item] = None]
    /\ pc' = "purge_sidecar" /\ budget' = budget - 1
    /\ UNCHANGED <<share, sidecar, kind, expired, temps, left, born, taken,
                   args, status, faults>>

PurgeNothing ==
    /\ At("purge_payload")
    /\ payload[item] = None
    /\ Goto("purge_sidecar")
    /\ UNCHANGED <<disk, faults>>

PurgeFails ==
    /\ At("purge_payload")
    /\ Fault /\ Abort("io")
    /\ UNCHANGED disk

PurgeSidecar == DropSidecar("purge_sidecar", Finish)

-----------------------------------------------------------------------------
(* Startup: recover_trash reads the directory once and settles each name.   *)
(* Names come in any order.  A name removed after the directory was opened  *)
(* may still be returned (it is in readdir's buffer) or may not (POSIX      *)
(* leaves it open).                                                         *)

OnDisk == {n \in Names :
              \/ n[1] = "sidecar" /\ sidecar[n[2]] # "absent"
              \/ n[1] = "payload" /\ payload[n[2]] # None
              \/ n[1] = "temp" /\ n[2] \in temps}

Boot ==
    /\ server = "down"
    /\ server' = "recovering" /\ refusal' = "none"
    /\ scan' = OnDisk
    /\ pc' = "scan" /\ budget' = RecoverEntries
    /\ UNCHANGED <<disk, args, faults>>

Returned(n) ==
    /\ pc = "scan" /\ n \in scan
    /\ scan' = scan \ {n}

\* A returned name is charged to the work budget.
Charged == budget > 0 /\ budget' = budget - 1

NotReturned(n) ==
    /\ Returned(n)
    /\ n \notin OnDisk
    /\ UNCHANGED <<disk, pc, args, budget, status, faults>>

OverBudget(n) ==
    /\ Returned(n) /\ budget = 0
    /\ Abort("too_large")
    /\ UNCHANGED <<disk, faults>>

\* Reading or removing what n names fails.
RecoverFails(n) ==
    /\ Returned(n) /\ budget > 0
    /\ Fault /\ Abort("io")
    /\ UNCHANGED disk

RecoverTemp(i) ==
    /\ Returned(<<"temp", i>>) /\ Charged
    /\ temps' = temps \ {i}
    /\ UNCHANGED <<share, payload, sidecar, kind, expired, left, born, taken,
                   pc, args, status, faults>>

RecoverPayload(i) ==
    /\ Returned(<<"payload", i>>) /\ budget > 0
    /\ IF sidecar[i] = "absent"
       THEN Abort("orphan")
       ELSE Charged /\ UNCHANGED <<pc, args, status>>
    /\ UNCHANGED <<disk, faults>>

\* A move that was interrupted after its rename is published; one whose entry
\* never moved is dropped.
RecoverPending(i) ==
    /\ Returned(<<"sidecar", i>>) /\ budget > 0
    /\ sidecar[i] = "pending" /\ payload[i] # None
    /\ IF Kind(payload[i]) = kind[i]
       THEN /\ Charged /\ WriteSidecar(i, "publish")
            /\ publish' = "live" /\ UNCHANGED <<place, obj, status>>
       ELSE Abort("kind")
    /\ UNCHANGED <<disk, faults>>

RecoverAbsent(i) ==
    /\ Returned(<<"sidecar", i>>) /\ Charged
    /\ sidecar[i] \in {"pending", "live"} /\ payload[i] = None
    /\ RemoveSidecar(i)
    /\ UNCHANGED <<share, payload, temps, left, born, taken, pc, args, status, faults>>

\* Mutant: a published item without its payload is left alone.
RecoverLiveAnyway(i) ==
    /\ Returned(<<"sidecar", i>>) /\ Charged
    /\ sidecar[i] = "live"
    /\ UNCHANGED <<disk, pc, args, status, faults>>

RecoverLive(i) ==
    /\ Returned(<<"sidecar", i>>) /\ Charged
    /\ sidecar[i] = "live" /\ payload[i] # None
    /\ UNCHANGED <<disk, pc, args, status, faults>>

\* An interrupted purge goes on within what is left of the budget; with nothing
\* left the scan stops there and the server starts.
RecoverPurging(i) ==
    /\ Returned(<<"sidecar", i>>) /\ Charged
    /\ sidecar[i] = "purging"
    /\ IF budget = 1
       THEN pc' = "idle" /\ server' = "up" /\ UNCHANGED <<args, refusal>>
       ELSE PurgeFrom(i) /\ UNCHANGED status
    /\ UNCHANGED <<disk, faults>>

Recovered ==
    /\ At("scan") /\ scan = {}
    /\ pc' = "idle" /\ budget' = 0 /\ server' = "up"
    /\ UNCHANGED <<disk, args, refusal, faults>>

Recover ==
    \/ \E n \in Names : NotReturned(n) \/ OverBudget(n) \/ RecoverFails(n)
    \/ \E i \in Ids : \/ RecoverTemp(i) \/ RecoverPayload(i) \/ RecoverPending(i)
                      \/ RecoverAbsent(i) \/ RecoverLive(i) \/ RecoverPurging(i)
    \/ Recovered

-----------------------------------------------------------------------------
(* The environment.                                                         *)

\* The process dies.  A sidecar being written leaves its temporary file.
Crash ==
    /\ server # "down" /\ Fault
    /\ server' = "down"
    /\ temps' = IF pc = "write_commit" THEN temps \cup {item} ELSE temps
    /\ Forget /\ pc' = "idle" /\ budget' = 0
    /\ scan' = {}
    /\ UNCHANGED <<share, payload, sidecar, kind, expired, left, born, taken, refusal>>

\* A client publishes a new entry (under the commit lock, so while it is free).
Create(p, o) ==
    /\ server = "up" /\ At("idle")
    /\ share[p] = None /\ o \notin born
    /\ share' = [share EXCEPT ![p] = o]
    /\ born' = born \cup {o}
    /\ UNCHANGED <<payload, sidecar, kind, expired, temps, left, taken,
                   pc, args, budget, status, faults>>

\* Another process on the host writes the share, at any moment: an entry is
\* created, replaced by another version, or removed.
Outside(p, o) ==
    /\ Fault
    /\ o \in Objs => o \notin born
    /\ share[p] # o
    /\ share' = [share EXCEPT ![p] = o]
    /\ born' = born \cup ({o} \ {None})
    /\ taken' = taken \cup ({share[p]} \ {None})
    /\ UNCHANGED <<payload, sidecar, kind, expired, temps, left, pc, args, budget, status, scan>>

\* The deadline recorded in a sidecar passes.
Expire(i) ==
    /\ sidecar[i] # "absent" /\ i \notin expired
    /\ expired' = expired \cup {i}
    /\ UNCHANGED <<share, payload, sidecar, kind, temps, left, born, taken,
                   pc, args, budget, status, scan, faults>>

-----------------------------------------------------------------------------

Start ==
    \/ \E p \in Paths, i \in Ids, state \in {"live", "purging"} : StartDelete(p, i, state)
    \/ \E p \in Paths, i \in Ids : StartRestore(i, p)
    \/ \E i \in Ids : StartPurge(i)
    \/ \E p \in Paths, o \in Objs : Create(p, o)

Collect == \E i \in Ids : StartCollect(i)

\* The running operation's next call.
Step ==
    \/ CreateTemp \/ CommitTemp
    \/ MoveIn \/ Unpend \/ Validate \/ Rollback
    \/ MoveOut \/ ValidateOut \/ RollbackOut \/ Unlist
    \/ PurgeEntry \/ PurgeTooDeep \/ PurgePause \/ PurgePayload \/ PurgeNothing
    \/ PurgeFails \/ PurgeSidecar

Environment ==
    \/ Crash
    \/ \E p \in Paths, o \in Objects : Outside(p, o)
    \/ \E i \in Ids : Expire(i)

Next == Start \/ Collect \/ Step \/ Boot \/ Recover \/ Environment

Spec == Init /\ [][Next]_vars

-----------------------------------------------------------------------------
(* Properties.                                                              *)

\* A payload is never in the Trash directory without its sidecar, at any point
\* where the process can die: recover_trash refuses to start on such a payload
\* and nothing else would ever find it.
PayloadHasSidecar == \A i \in Ids : payload[i] # None => sidecar[i] # "absent"

\* Nothing is destroyed before its sidecar says so: an entry in the share, and
\* an item in Trash that is not marked purging, has everything it ever held.
IntactUnlessPurging ==
    /\ \A p \in Paths : share[p] # None => left[share[p]] = Size[share[p]]
    /\ \A i \in Ids : payload[i] # None /\ sidecar[i] # "purging" => left[payload[i]] = Size[payload[i]]

\* Each entry is in one place at most, and in none once it was taken away.
OnePlace ==
    /\ taken \subseteq born
    /\ \A p, q \in Paths : p # q /\ share[p] # None => share[p] # share[q]
    /\ \A i, j \in Ids : i # j /\ payload[i] # None => payload[i] # payload[j]
    /\ \A p \in Paths, i \in Ids : share[p] # None => share[p] # payload[i]
    /\ \A p \in Paths : share[p] # None => share[p] \in born \ taken
    /\ \A i \in Ids : payload[i] # None => payload[i] \in born \ taken

\* What the operation in progress knows about its item, call by call.
ItemInv ==
    /\ pc \in {"write_create", "write_commit"} =>
          /\ writing = "pending" => sidecar[item] = "absent" /\ payload[item] = None
          /\ writing = "mark" => sidecar[item] = "live"
          /\ writing = "publish" => sidecar[item] = "pending" /\ payload[item] # None
    /\ pc \in {"move", "unpend"} => sidecar[item] = "pending" /\ payload[item] = None
    /\ pc \in {"validate", "rollback"} => sidecar[item] = "pending" /\ payload[item] # None
    /\ pc = "out" => sidecar[item] = "live" /\ payload[item] # None
    /\ pc \in {"out_validate", "out_rollback", "unlist"} =>
          sidecar[item] = "live" /\ payload[item] = None
    /\ pc = "purge_payload" => sidecar[item] = "purging"
    /\ pc = "purge_sidecar" => sidecar[item] = "purging" /\ payload[item] = None

\* The inductive invariant behind PayloadHasSidecar and IntactUnlessPurging.
Consistent ==
    /\ OnePlace
    /\ \A o \in Objs \ born : left[o] = Size[o]
    /\ PayloadHasSidecar
    /\ IntactUnlessPurging
    /\ ItemInv

\* A startup that read the whole directory leaves only published items with
\* their payload, and purging ones only when the work budget ran out.
RecoveryReconciles ==
    [][Recovered =>
        \A i \in Ids : sidecar[i] # "absent" =>
            \/ sidecar[i] = "live" /\ payload[i] # None
            \/ sidecar[i] = "purging" /\ budget = 0]_vars

\* The view of one entry that a user of the share has, whatever calls are
\* under way: what EntryLifecycle says of it is what Trash promises.
Phase(o) ==
    IF o \notin born THEN "unborn"
    ELSE IF o \in taken THEN "taken"
    ELSE IF \E p \in Paths : share[p] = o THEN "shared"
    ELSE IF \E i \in Ids : payload[i] = o /\ sidecar[i] # "purging" THEN "trashed"
    ELSE IF \E i \in Ids : payload[i] = o THEN "doomed"
    ELSE "gone"

Lifecycle == INSTANCE EntryLifecycle WITH Entries <- Objs, phase <- [o \in Objs |-> Phase(o)]

\* Every step of every operation, crash and recovery moves each entry along the
\* edges of EntryLifecycle only: none is lost on the way in or out, and what a
\* sidecar has marked purging never comes back.
LifecycleSpec == Lifecycle!Spec

-----------------------------------------------------------------------------

\* The worker threads and the service manager keep going, and tokio's mutex
\* hands the commit lock to waiters in turn, so that the collection's attempts
\* are not shut out for ever by clients.
Fairness ==
    /\ WF_vars(Step) /\ WF_vars(Boot) /\ WF_vars(Recover)
    /\ \A i \in Ids : SF_vars(StartCollect(i))

FairSpec == Spec /\ Fairness

\* A startup is refused as long as Trash holds more, or deeper, than a recovery may remove,
\* or an entry that another process put in the place of what was being deleted.
Unmanageable == refusal \in {"too_large", "too_deep", "kind"}

\* A purge that was begun is finished in the end, through crashes, failing calls and
\* exhausted budgets: the collection and the next startup take it up again.  What is
\* nested too deep stays, and holds up no other item while the server runs.
PurgeCompletes ==
    \A i \in Ids : sidecar[i] = "purging"
                     ~> sidecar[i] = "absent" \/ payload[i] \in Deep \/ Unmanageable

\* An item whose deadline has passed does not stay in Trash: the collection takes it up
\* although clients compete for the commit lock, unless it was restored.
ExpiredIsCollected ==
    \A i \in Ids : sidecar[i] = "live" /\ i \in expired ~> sidecar[i] # "live" \/ Unmanageable

\* Nothing that is to leave Trash stays there: neither what is marked purging nor what has
\* expired (purge, gc_expired_trash and recover_trash, one taking up after the other).
TrashDrains == PurgeCompletes /\ ExpiredIsCollected
=============================================================================
