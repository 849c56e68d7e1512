---------------------------- MODULE PendingWrite ----------------------------
(***************************************************************************)
(* How one file of a writable share is created or replaced: the staging    *)
(* file and its guard, publish_new and publish_replacement                 *)
(* (PendingWrite, src/filesystem.rs), the requests that use them (text     *)
(* saves, uploads and new files, src/mutations.rs) and the startup         *)
(* recovery of .crabinet/staging.                                          *)
(*                                                                         *)
(* One action is one call that changes a directory.  Staging needs no lock;*)
(* publication holds the share's commit lock.  The request is cancelled    *)
(* when its client goes away, except in the blocking call that publishes.  *)
(***************************************************************************)
EXTENDS Naturals, FiniteSets

CONSTANTS
    Writers,     \* requests; each is also the version it wants to publish
    Outsiders,   \* versions that another process on the host writes
    First,       \* the version the file has at first
    None,        \* "no such directory entry"
    MaxFaults    \* crashes, failing calls and outside changes still to come

ASSUME VersionsAssumption ==
    /\ Writers \cap Outsiders = {}
    /\ First \notin Writers \cup Outsiders
    /\ None \notin Writers \cup Outsiders \cup {First}
ASSUME FaultsAssumption == MaxFaults \in Nat

VARIABLES
    dest,        \* the version under the file's name
    staged,      \* what each request's staging name holds
    kept,        \* requests whose staging name is a retained (.index-rep-) one
    synced,      \* versions whose content is complete and on disk
    born,        \* outside versions written so far
    taken,       \* versions another process, or another request, moved away
    pc,          \* where each request is
    expected,    \* the version its client's validator named; None to create
    result,      \* what it answered
    lock,        \* the request that holds the commit lock
    server,      \* "up", "recovering" or "down"
    faults       \* disturbances still allowed

file == <<dest, staged, kept, synced, born, taken>>
vars == <<dest, staged, kept, synced, born, taken, pc, expected, result, lock, server, faults>>

Versions == Writers \cup Outsiders \cup {First}
Entries == Versions \cup {None}
Labels == {"idle", "write", "wait", "new", "new_validate", "new_remove", "check", "keep",
           "exchange", "validate", "remove_old", "rollback", "drop", "done"}

TypeOK ==
    /\ dest \in Entries
    /\ staged \in [Writers -> Entries]
    /\ kept \subseteq Writers
    /\ synced \subseteq Versions
    /\ born \subseteq Outsiders
    /\ taken \subseteq Versions
    /\ pc \in [Writers -> Labels]
    /\ expected \in [Writers -> Entries]
    /\ result \in [Writers -> {"none", "ok", "refused", "retained"}]
    /\ lock \in Writers \cup {None}
    /\ server \in {"up", "recovering", "down"}
    /\ faults \in Nat

Init ==
    /\ dest = First
    /\ staged = [w \in Writers |-> None]
    /\ kept = {}
    /\ synced = {First}
    /\ born = {} /\ taken = {}
    /\ pc = [w \in Writers |-> "idle"]
    /\ expected = [w \in Writers |-> None]
    /\ result = [w \in Writers |-> "none"]
    /\ lock = None
    /\ server = "up"
    /\ faults = MaxFaults

-----------------------------------------------------------------------------

Fault == faults > 0 /\ faults' = faults - 1

\* The request is at label; what only others change stays as it is.
At(w, label) == server = "up" /\ pc[w] = label /\ UNCHANGED <<server, born, taken>>

Goto(w, label) == pc' = [pc EXCEPT ![w] = label]

Continue(w, label) == Goto(w, label) /\ UNCHANGED <<expected, result, lock>>

\* Mutant: the commit lock is not given back.
AnswerLocked(w, what) ==
    /\ Goto(w, "done")
    /\ result' = [result EXCEPT ![w] = what]
    /\ UNCHANGED <<expected, lock>>

\* The request answers, and gives the commit lock back if it has it.
Answer(w, what) ==
    /\ Goto(w, "done")
    /\ result' = [result EXCEPT ![w] = what]
    /\ lock' = IF lock = w THEN None ELSE lock
    /\ UNCHANGED expected

\* Mutant: the content is not synchronized before it is published.
NotSynced(w) == UNCHANGED synced

\* write_all and flush, then sync_all.
Synced(w) == synced' = synced \cup {w}

\* matches_validator: kind, size, time and inode tell versions apart.
Matches(v, e) == v = e

-----------------------------------------------------------------------------
(* Staging, without the lock.                                               *)

\* To replace, the client's validator names the current version; to create,
\* there is nothing to name.  begin_write creates the .index-tmp- file.
Begin(w, old) ==
    /\ At(w, "idle")
    /\ old \in {None, dest}
    /\ staged' = [staged EXCEPT ![w] = w]
    /\ expected' = [expected EXCEPT ![w] = old]
    /\ Goto(w, "write")
    /\ UNCHANGED <<dest, kept, synced, result, lock, faults>>

Write(w) ==
    /\ At(w, "write")
    /\ Synced(w)
    /\ Continue(w, "wait")
    /\ UNCHANGED <<dest, staged, kept, faults>>

\* The body is malformed, too large or late, or the client goes away.
Cancel(w) ==
    /\ At(w, "write") \/ At(w, "wait")
    /\ Continue(w, "drop")
    /\ UNCHANGED <<dest, staged, kept, synced, faults>>

Lock(w) ==
    /\ At(w, "wait") /\ lock = None
    /\ Goto(w, IF expected[w] = None THEN "new" ELSE "check")
    /\ lock' = w
    /\ UNCHANGED <<dest, staged, kept, synced, expected, result, faults>>

\* The quota check refuses the request, or the first calls of its publication
\* fail.
Refused(w) ==
    /\ At(w, "new") \/ At(w, "check")
    /\ Continue(w, "drop")
    /\ UNCHANGED <<dest, staged, kept, synced, faults>>

-----------------------------------------------------------------------------
(* publish_new                                                              *)

\* renameat2 with RENAME_NOREPLACE.
PublishNew(w) ==
    /\ At(w, "new")
    /\ Synced(w)
    /\ IF dest = None
       THEN /\ dest' = w /\ staged' = [staged EXCEPT ![w] = None]
            /\ Continue(w, "new_validate")
       ELSE Continue(w, "drop") /\ UNCHANGED <<dest, staged>>
    /\ UNCHANGED <<kept, faults>>

ValidateNew(w) ==
    /\ At(w, "new_validate")
    /\ \/ Matches(dest, w) /\ Answer(w, "ok") /\ UNCHANGED faults
       \/ ~ Matches(dest, w) /\ Continue(w, "new_remove") /\ UNCHANGED faults
       \/ Fault /\ Continue(w, "new_remove")
    /\ UNCHANGED <<dest, staged, kept, synced>>

\* Whatever has the file's name now is removed, best effort.
RemoveNew(w) ==
    /\ At(w, "new_remove")
    /\ \/ dest' = None /\ UNCHANGED faults
       \/ Fault /\ UNCHANGED dest
    /\ Continue(w, "drop")
    /\ UNCHANGED <<staged, kept, synced>>

-----------------------------------------------------------------------------
(* publish_replacement                                                      *)

Check(w) ==
    /\ At(w, "check")
    /\ Synced(w)
    /\ Continue(w, IF Matches(dest, expected[w]) THEN "keep" ELSE "drop")
    /\ UNCHANGED <<dest, staged, kept, faults>>

\* The staging file gets a .index-rep- name, which recovery never removes.
Keep(w) ==
    /\ At(w, "keep")
    /\ \/ kept' = kept \cup {w} /\ Continue(w, "exchange") /\ UNCHANGED faults
       \/ Fault /\ Continue(w, "drop") /\ UNCHANGED kept
    /\ UNCHANGED <<dest, staged, synced>>

\* renameat2 with RENAME_EXCHANGE: both names must exist.
Swap(w) ==
    /\ dest # None /\ staged[w] # None
    /\ dest' = staged[w]
    /\ staged' = [staged EXCEPT ![w] = dest]

Exchange(w) ==
    /\ At(w, "exchange")
    /\ \/ Swap(w) /\ Continue(w, "validate") /\ UNCHANGED faults
       \/ /\ IF dest = None THEN UNCHANGED faults ELSE Fault
          /\ Continue(w, "drop") /\ UNCHANGED <<dest, staged>>
    /\ UNCHANGED <<kept, synced>>

\* Mutant: nobody looks at what the exchange brought back.
ValidateUnseen(w) ==
    /\ At(w, "validate")
    /\ \/ Matches(dest, w) /\ Continue(w, "remove_old") /\ UNCHANGED faults
       \/ (IF Matches(dest, w) THEN Fault ELSE UNCHANGED faults) /\ Continue(w, "rollback")
    /\ UNCHANGED <<dest, staged, kept, synced>>

\* Both versions are looked at: what is published, and what it took the place of.
Validate(w) ==
    /\ At(w, "validate")
    /\ \/ /\ Matches(dest, w) /\ Matches(staged[w], expected[w])
          /\ Continue(w, "remove_old") /\ UNCHANGED faults
       \/ /\ IF Matches(dest, w) /\ Matches(staged[w], expected[w]) THEN Fault ELSE UNCHANGED faults
          /\ Continue(w, "rollback")
    /\ UNCHANGED <<dest, staged, kept, synced>>

RemoveOld(w) ==
    /\ At(w, "remove_old")
    /\ \/ staged' = [staged EXCEPT ![w] = None] /\ Answer(w, "ok") /\ UNCHANGED faults
       \/ Fault /\ Continue(w, "rollback") /\ UNCHANGED staged
    /\ UNCHANGED <<dest, kept, synced>>

\* Mutant: the guard stays armed after a rollback that failed.
RollbackArmed(w) ==
    /\ At(w, "rollback")
    /\ \/ Swap(w) /\ UNCHANGED faults
       \/ (IF dest = None THEN UNCHANGED faults ELSE Fault) /\ UNCHANGED <<dest, staged>>
    /\ Continue(w, "drop")
    /\ UNCHANGED <<kept, synced>>

\* The exchange is undone.  Where that fails too, the guard is disarmed: the
\* staging name may hold the previous version.
Rollback(w) ==
    /\ At(w, "rollback")
    /\ \/ Swap(w) /\ Continue(w, "drop") /\ UNCHANGED faults
       \/ /\ IF dest = None THEN UNCHANGED faults ELSE Fault
          /\ Answer(w, "retained") /\ UNCHANGED <<dest, staged>>
    /\ UNCHANGED <<kept, synced>>

\* Drop for PendingWrite, best effort.
Drop(w) ==
    /\ At(w, "drop")
    /\ \/ staged' = [staged EXCEPT ![w] = None] /\ UNCHANGED faults
       \/ Fault /\ UNCHANGED staged
    /\ Answer(w, "refused")
    /\ UNCHANGED <<dest, kept, synced>>

Step(w) ==
    \/ Write(w) \/ Lock(w) \/ Refused(w)
    \/ PublishNew(w) \/ ValidateNew(w) \/ RemoveNew(w)
    \/ Check(w) \/ Keep(w) \/ Exchange(w) \/ Validate(w) \/ RemoveOld(w) \/ Rollback(w)
    \/ Drop(w)

-----------------------------------------------------------------------------
(* Crashes, startup and the other writers of the file.                      *)

Crash ==
    /\ server # "down" /\ Fault
    /\ server' = "down"
    /\ pc' = [w \in Writers |-> IF pc[w] = "idle" THEN "idle" ELSE "done"]
    /\ lock' = None
    /\ UNCHANGED <<file, expected, result>>

Boot ==
    /\ server = "down"
    /\ server' = "recovering"
    /\ UNCHANGED <<file, pc, expected, result, lock, faults>>

\* recover_staging_directory removes the .index-tmp- files, one at a time.
RecoverFile(w) ==
    /\ server = "recovering"
    /\ staged[w] # None /\ w \notin kept
    /\ staged' = [staged EXCEPT ![w] = None]
    /\ UNCHANGED <<dest, kept, synced, born, taken, pc, expected, result, lock, server, faults>>

Recovered ==
    /\ server = "recovering"
    /\ \A w \in Writers : staged[w] # None => w \in kept
    /\ server' = "up"
    /\ UNCHANGED <<file, pc, expected, result, lock, faults>>

\* Another client moves the file or deletes it, under the commit lock.
MoveAway ==
    /\ server = "up" /\ lock = None /\ dest # None
    /\ taken' = taken \cup {dest} /\ dest' = None
    /\ UNCHANGED <<staged, kept, synced, born, pc, expected, result, lock, server, faults>>

\* Another process on the host writes, replaces or removes the file, at any
\* moment.
Outside(v) ==
    /\ Fault
    /\ v # dest /\ v \in (Outsiders \ born) \cup {None}
    /\ dest' = v
    /\ taken' = taken \cup ({dest} \ {None})
    /\ born' = born \cup ({v} \ {None})
    /\ synced' = synced \cup ({v} \ {None})
    /\ UNCHANGED <<staged, kept, pc, expected, result, lock, server>>

Next ==
    \/ \E w \in Writers, old \in Entries : Begin(w, old)
    \/ \E w \in Writers : Step(w) \/ Cancel(w)
    \/ Crash \/ Boot \/ (\E w \in Writers : RecoverFile(w)) \/ Recovered
    \/ MoveAway \/ \E v \in Outsiders \cup {None} : Outside(v)

Spec == Init /\ [][Next]_vars

-----------------------------------------------------------------------------

\* Versions that the user knows to be saved.
Saved == {First} \cup {w \in Writers : result[w] = "ok"}

\* The version is somewhere it can be had from: under the file's name, or under
\* a staging name that no guard and no recovery will remove.
Reachable(v) == dest = v \/ \E w \in kept : staged[w] = v

\* A version that was saved is there until a request that named it as the one
\* to replace succeeds, or someone takes it away: no interleaving, failing call,
\* crash or rollback loses it.
SavedVersionKept ==
    \A v \in Saved : Reachable(v) \/ v \in taken
                     \/ \E w \in Writers : expected[w] = v /\ result[w] = "ok"

\* Two saves from the same version never both succeed: nobody's save is
\* overwritten unseen.
OneWinner ==
    \A w, x \in Writers :
        result[w] = "ok" /\ result[x] = "ok" /\ expected[w] = expected[x] /\ expected[w] # None
            => w = x

\* Only complete, synchronized content is ever under the file's name, or under
\* a staging name that is kept for an operator.
NothingTorn ==
    /\ dest # None => dest \in synced
    /\ \A w \in kept : staged[w] # None => staged[w] \in synced

-----------------------------------------------------------------------------
(* The inductive invariant behind these.                                    *)

Publishing == {"new", "new_validate", "new_remove", "check", "keep", "exchange",
               "validate", "remove_old", "rollback"}
Exchanged == {"validate", "remove_old", "rollback"}

\* Publication holds the lock, and a server that is down runs nothing.
LockInv ==
    /\ \A w \in Writers : pc[w] \in Publishing => lock = w
    /\ server # "up" => lock = None /\ \A w \in Writers : pc[w] \in {"idle", "done"}

\* The version was written, so it will not be written again.
Used(v) == (v \in Writers => pc[v] # "idle") /\ (v \in Outsiders => v \in born)

\* Each version has one name at most.
OneName ==
    /\ Used(dest) /\ \A w \in Writers : Used(staged[w]) /\ Used(expected[w])
    /\ \A w \in Writers : staged[w] # None => staged[w] # dest
    /\ \A w, x \in Writers : w # x /\ staged[w] # None => staged[w] # staged[x]

\* The request w may remove v: it is its own, or was written by an outsider.
Disposable(w, v) == v \in {w, None} \cup Outsiders

\* What a request knows at each of its calls.
RequestInv ==
    \A w \in Writers :
        /\ pc[w] # "done" => result[w] = "none"
        /\ pc[w] = "idle" => staged[w] = None
        /\ pc[w] \notin Exchanged \cup {"exchange", "drop", "done"} => w \notin kept
        /\ pc[w] \in {"write", "wait", "new", "check", "keep", "exchange"} => staged[w] = w
        /\ pc[w] \in {"new", "new_validate"} => expected[w] = None
        /\ pc[w] \in {"keep", "exchange"} => w \in synced
        /\ pc[w] \in {"new_validate", "new_remove"} => staged[w] = None /\ Disposable(w, dest)
        /\ pc[w] \in Exchanged \cup {"exchange"} => w \in kept
        /\ pc[w] \in Exchanged => Disposable(w, dest)
        /\ pc[w] = "remove_old" => staged[w] = expected[w] /\ (dest = w \/ w \in taken)
        /\ pc[w] = "drop" => Disposable(w, staged[w])

\* A version that was replaced is nowhere any more.
ReplacedGone ==
    \A w \in Writers : result[w] = "ok" /\ expected[w] # None =>
        dest # expected[w] /\ \A x \in Writers : staged[x] # expected[w]

PublishInv ==
    /\ LockInv /\ OneName /\ RequestInv /\ ReplacedGone
    /\ SavedVersionKept /\ OneWinner /\ NothingTorn

-----------------------------------------------------------------------------

\* What is published is undone until the request answers: the file is the version it had,
\* which is under the staging name of the request that holds the lock, or nothing.
Tentative(w) == pc[w] \in Exchanged \cup {"new_validate", "new_remove"}
Value == IF lock # None /\ Tentative(lock) THEN staged[lock] ELSE dest

Outcome(w) ==
    CASE result[w] # "none" -> result[w]
      [] pc[w] = "idle"     -> "idle"
      [] result[w] = "none" /\ pc[w] \in {"drop", "done"} -> "failed"
      [] OTHER              -> "open"

Register == INSTANCE FileRegister WITH value <- Value, outcome <- [w \in Writers |-> Outcome(w)]

\* A request that answers ok has compared and swapped the file in one step, from the version
\* that its client named; one that does not has changed nothing, or says so, or was cut
\* short where its undoing failed (publish_new, publish_replacement, the guard and recovery).
\* No two of them succeed from one version.
RegisterSpec == Register!Spec /\ []OneWinner

-----------------------------------------------------------------------------

\* Blocking calls return, bodies end or time out, tokio's mutex is fair, and the
\* server is started again.
FairSpec ==
    /\ Spec
    /\ \A w \in Writers : WF_vars(Step(w)) /\ SF_vars(Lock(w))
    /\ WF_vars(Boot) /\ WF_vars(\E w \in Writers : RecoverFile(w)) /\ WF_vars(Recovered)

\* Every request ends, and none keeps the commit lock: a failing one leaves the
\* file to the others.
EveryRequestEnds ==
    \A w \in Writers : pc[w] # "idle" ~> pc[w] = "done" /\ lock # w
=============================================================================
