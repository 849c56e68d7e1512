------------------------------ MODULE Archives ------------------------------
(***************************************************************************)
(* Archives: a folder streamed as a ZIP file (src/browse.rs), and the two  *)
(* local jobs that compress files into an archive of the share and extract *)
(* one (src/archives.rs, src/filesystem/archive.rs, local_archive of       *)
(* src/mutations.rs).  All three plan first and then read what may have    *)
(* changed since; the local ones stage their result, under the commit lock *)
(* and within the quota, and publish it under a name that is free.         *)
(*                                                                         *)
(* An archive to extract is the sequence of its entries, of which an       *)
(* attribute says what the header claims and another what the data holds.  *)
(***************************************************************************)
EXTENDS Integers, FiniteSets, Sequences, SequencesExt, FiniteSetsExt

CONSTANTS
    Jobs,           \* requests at the same time
    Mixes,          \* bound: the jobs at work, their kinds (stream, compress, extract),
                    \* how many changes from outside, cancellations, and faults (crashes
                    \* and failed clean-ups) there are; and how many names staging has
                    \* that recovery keeps for the operator
    Sources,        \* the files of the folder, in the order of their names
    Lengths,        \* bound: lengths of files
    Inputs,         \* bound: the archives to extract, sequences of entries
    SnapshotLen,    \* how long each of them is, compressed
    Names,          \* 1 .. the candidates of unused_archive_destination
    MaxEntries,     \* max_archive_entries
    MaxBytes,       \* max_download_bytes
    MaxDepth,       \* MAX_PATH_DEPTH, below the destination
    Quota,          \* max_share_bytes, no less than the share holds at the start
    DirCharge,      \* DIRECTORY_QUOTA_BYTES
    Budget          \* entries that one recovery at startup may visit

\* An entry of an archive: what its header says, and what there is of its data.
Entries == [path : Seq(STRING), kind : {"file", "directory"}, size : Nat, actual : Nat, valid : BOOLEAN]

ASSUME ArchivesAssumption ==
    /\ IsFiniteSet(Jobs) /\ 0 \notin Jobs
    /\ Mixes \subseteq [jobs : SUBSET Jobs, kinds : SUBSET {"stream", "compress", "extract"},
                        changes : Nat, cancels : Nat, faults : Nat, retained : Nat]
    /\ Sources \in Seq(STRING) /\ IsInjective(Sources)
    /\ Inputs \subseteq Seq(Entries)
    /\ IsFiniteSet(Names) /\ Names \subseteq Nat
    /\ {MaxEntries, MaxBytes, MaxDepth, Quota, DirCharge, Budget, SnapshotLen}
          \cup Lengths \subseteq Nat
    /\ DirCharge > 0 /\ Budget > 0 /\ Len(Sources) <= Quota

VARIABLES
    mix,        \* what is at work
    source,     \* the length of each source, -1 when it is not there
    shelf,      \* what is under each candidate name, <<>> for nothing
    commit,     \* who has the share's commit lock, 0 for nobody
    pc,         \* where each request is
    job,        \* what it works on
    staging,    \* what each job has in the private staging directory
    residue,    \* what nobody works on any more is there
    up,         \* the server runs
    visited,    \* entries that a start under way has met in staging, -1 for no start
    budget      \* changes, cancellations and faults left

vars == <<mix, source, shelf, commit, pc, job, staging, residue, up, visited, budget>>

\* A file to archive, with its length; what is staged of an archive; a job.
Items == [name : Range(Sources), len : Nat]
Nodes == [path : Seq(STRING), kind : {"file", "directory"}, size : Nat, explicit : BOOLEAN]
Job == [kind : {"stream", "compress", "extract"}, items : Seq(Items), at : Nat \ {0}, cancelled : BOOLEAN,
        target : Nat, allowance : Nat, charge : Nat, bytes : Nat, input : Seq(Entries),
        tree : SUBSET Nodes, out : Seq(Items), whole : BOOLEAN]
Labels == {"idle", "commit", "target", "walk", "open", "copy", "sent",
           "begin", "snapshot", "entry", "publish"}

\* What is in staging: temporary files, and trees of so many entries each.
Leftovers == [files : Nat, trees : Seq(Nat)]
Nothing == [files |-> 0, trees |-> <<>>]
TreeOf(n) == [files |-> 0, trees |-> <<n>>]
File == [files |-> 1, trees |-> <<>>]
Staged == {s \in [files : {0, 1}, trees : Seq(Nat)] : Len(s.trees) <= 1}
Both(a, b) == [files |-> a.files + b.files, trees |-> a.trees \o b.trees]

NoJob == [kind |-> "stream", items |-> <<>>, at |-> 1, cancelled |-> FALSE,
          target |-> 1, allowance |-> 0, charge |-> 0, bytes |-> 0, input |-> <<>>,
          tree |-> {}, out |-> <<>>, whole |-> TRUE]

Init ==
    /\ mix \in Mixes
    /\ source = [s \in Range(Sources) |-> 1]
    /\ shelf = [n \in Names |-> <<>>]
    /\ commit = 0
    /\ pc = [j \in Jobs |-> "idle"] /\ job = [j \in Jobs |-> NoJob]
    /\ staging = [j \in Jobs |-> Nothing] /\ residue = Nothing
    /\ up = TRUE /\ visited = -1
    /\ budget = [changes |-> mix.changes, cancels |-> mix.cancels, faults |-> mix.faults]

Spend(what) == budget[what] > 0 /\ budget' = [budget EXCEPT ![what] = @ - 1]
At(j, label) == up /\ pc[j] = label
Goto(j, label) == pc' = [pc EXCEPT ![j] = label]
share == <<mix, source, shelf, up, visited>>

\* usage_bounded: what the share holds, in files and in folders.
ChargeOf(tree) == SumFunction([e \in tree |-> IF e.kind = "directory" THEN DirCharge ELSE e.size])
Held(x) == IF x = <<>> THEN 0 ELSE x[1].charge
Usage == SumFunction([s \in Range(Sources) |-> IF source[s] = -1 THEN 0 ELSE source[s]])
           + SumFunction([n \in Names |-> Held(shelf[n])])

-----------------------------------------------------------------------------
(* The end of a request, and the worker that outlives it                    *)

\* What may remain of staged files and trees that are removed, and what it takes.
Remains(staged) ==
    {[files |-> f, trees |-> t] :
        f \in 0 .. staged.files,
        t \in {<<>>} \cup {<<n>> : n \in 0 .. IF staged.trees = <<>> THEN -1 ELSE staged.trees[1]}}
Leaves(left) ==
    /\ residue' = Both(residue, left)
    /\ IF left = Nothing THEN UNCHANGED budget ELSE Spend("faults")

\* Drop: the staged file and tree are removed, as far as that succeeds.
\* Mutant: a tree that was not published is forgotten.
EndsForgetful(j) ==
    /\ Goto(j, "idle") /\ job' = [job EXCEPT ![j] = NoJob]
    /\ commit' = IF commit = j THEN 0 ELSE commit
    /\ staging' = [staging EXCEPT ![j] = Nothing]
    /\ residue' = Both(residue, [staging[j] EXCEPT !.files = 0])
    /\ UNCHANGED budget

Ends(j) ==
    /\ Goto(j, "idle") /\ job' = [job EXCEPT ![j] = NoJob]
    /\ commit' = IF commit = j THEN 0 ELSE commit
    /\ staging' = [staging EXCEPT ![j] = Nothing]
    /\ \E left \in Remains(staging[j]) : Leaves(left)

\* work.check: the request was cancelled, or its time is up.
Stops(j) == job[j].cancelled /\ Ends(j) /\ UNCHANGED share
Goes(j) == ~job[j].cancelled /\ UNCHANGED <<share, residue, budget>>
Refuse(j) == ~job[j].cancelled /\ Ends(j) /\ UNCHANGED share

-----------------------------------------------------------------------------
(* local_archive: admission, the commit lock, the name and the quota        *)

\* The name of a compressed archive is the client's.
Ask(j, kind, input, target) ==
    /\ At(j, "idle") /\ j \in mix.jobs /\ kind \in mix.kinds
    /\ kind # "extract" => input = CHOOSE i \in Inputs : TRUE
    /\ kind # "compress" => target = 1
    /\ Goto(j, IF kind = "stream" THEN "walk" ELSE "commit")
    /\ job' = [job EXCEPT ![j] = [NoJob EXCEPT !.kind = kind, !.input = input, !.target = target]]
    /\ UNCHANGED <<share, commit, staging, residue, budget>>

TakeCommit(j) ==
    /\ At(j, "commit")
    /\ \/ commit = 0 /\ commit' = j /\ Goto(j, "target") /\ UNCHANGED <<share, job, staging, residue, budget>>
       \/ Ends(j) /\ UNCHANGED share          \* waited too long: busy

\* unused_archive_destination: the first candidate that nothing is under.
Free == {n \in Names : shelf[n] = <<>>}

\* What is left of the quota bounds all that the job stages.
Target(j) ==
    /\ At(j, "target")
    /\ \/ Stops(j)
       \/ /\ job[j].kind = "extract" => Free # {}
          /\ Usage <= Quota
          /\ Goto(j, IF job[j].kind = "extract" THEN "begin" ELSE "walk")
          /\ job' = [job EXCEPT ![j].target = IF job[j].kind = "extract" THEN Min(Free) ELSE @,
                                ![j].allowance = Quota - Usage]
          /\ Goes(j) /\ UNCHANGED <<commit, staging>>
       \/ ((job[j].kind = "extract" /\ Free = {}) \/ Usage > Quota) /\ Refuse(j)

-----------------------------------------------------------------------------
(* ArchiveWalk, and the entries of a streamed or compressed archive         *)

Planned(j) == FoldLeft(LAMBDA n, i : n + i.len, 0, job[j].items)

\* One more name of the folder, with the length that its file has now.
Walk(j) ==
    /\ At(j, "walk")
    /\ LET n == job[j].at
           length == IF n <= Len(Sources) THEN source[Sources[n]] ELSE -1
       IN
       \/ Stops(j)
       \/ /\ n > Len(Sources)
          /\ Goto(j, "open") /\ job' = [job EXCEPT ![j].at = 1]
          /\ staging' = [staging EXCEPT ![j] = IF job[j].kind = "compress" THEN File ELSE Nothing]
          /\ Goes(j) /\ UNCHANGED commit
       \/ /\ n <= Len(Sources) /\ length = -1
          /\ job' = [job EXCEPT ![j].at = n + 1]
          /\ Goes(j) /\ UNCHANGED <<commit, pc, staging>>
       \/ /\ n <= Len(Sources) /\ length # -1
          /\ Len(job[j].items) < MaxEntries /\ Planned(j) + length <= MaxBytes
          /\ job' = [job EXCEPT ![j].at = n + 1,
                                ![j].items = Append(@, [name |-> Sources[n], len |-> length])]
          /\ Goes(j) /\ UNCHANGED <<commit, pc, staging>>
       \/ /\ n <= Len(Sources) /\ length # -1
          /\ (Len(job[j].items) >= MaxEntries \/ Planned(j) + length > MaxBytes)
          /\ Refuse(j)

\* A file is opened again by its name, and must have the length of the plan.
Open(j) ==
    /\ At(j, "open") /\ job[j].at <= Len(job[j].items)
    /\ LET item == job[j].items[job[j].at] IN
       \/ Stops(j)
       \/ source[item.name] = item.len /\ Goto(j, "copy") /\ Goes(j) /\ UNCHANGED <<commit, job, staging>>
       \/ source[item.name] # item.len /\ Refuse(j)

\* Mutant: what does not fit is tried again.
CopyAgain(j) ==
    /\ At(j, "copy")
    /\ LET item == job[j].items[job[j].at]
           same == source[item.name] \in {item.len, -1}
           fits == job[j].kind = "compress" => job[j].charge + item.len <= job[j].allowance
       IN
       \/ Stops(j)
       \/ /\ same /\ fits
          /\ Goto(j, "open") /\ job' = [job EXCEPT ![j].at = @ + 1, ![j].charge = @ + item.len,
                                ![j].out = Append(@, item)]
          /\ Goes(j) /\ UNCHANGED <<commit, staging>>
       \/ ~(same /\ fits) /\ Goto(j, "open") /\ Goes(j) /\ UNCHANGED <<commit, job, staging>>

\* It is read to its end, which must be where the plan said.  Once it is open,
\* its name may go.
Copy(j) ==
    /\ At(j, "copy")
    /\ LET item == job[j].items[job[j].at]
           same == source[item.name] \in {item.len, -1}
           fits == job[j].kind = "compress" => job[j].charge + item.len <= job[j].allowance
       IN
       \/ Stops(j)
       \/ /\ same /\ fits
          /\ Goto(j, "open") /\ job' = [job EXCEPT ![j].at = @ + 1, ![j].charge = @ + item.len,
                                ![j].out = Append(@, item)]
          /\ Goes(j) /\ UNCHANGED <<commit, staging>>
       \/ ~(same /\ fits) /\ Refuse(j)

\* The directory of the archive follows its last file.
FinishArchive(j) ==
    /\ At(j, "open") /\ job[j].at > Len(job[j].items)
    /\ \/ Stops(j)
       \/ /\ Goto(j, IF job[j].kind = "stream" THEN "sent" ELSE "publish")
          /\ Goes(j) /\ UNCHANGED <<commit, job, staging>>

Sent(j) ==
    /\ At(j, "sent")
    /\ Ends(j) /\ UNCHANGED share

-----------------------------------------------------------------------------
(* extract                                                                  *)

\* The archive is opened, and then copied to a file in staging.
BeginSnapshot(j) ==
    /\ At(j, "begin")
    /\ LET fits == SnapshotLen <= MaxBytes /\ DirCharge <= job[j].allowance IN
       \/ Stops(j)
       \/ /\ fits
          /\ Goto(j, "snapshot") /\ staging' = [staging EXCEPT ![j] = File]
          /\ Goes(j) /\ UNCHANGED <<commit, job>>
       \/ ~fits /\ Refuse(j)

\* What is left beside the copy bounds the tree.
Snapshot(j) ==
    /\ At(j, "snapshot")
    /\ LET fits == SnapshotLen + DirCharge <= job[j].allowance IN
       \/ Stops(j)
       \/ /\ fits
          /\ Goto(j, "entry") /\ job' = [job EXCEPT ![j].at = 1, ![j].charge = DirCharge,
                                ![j].allowance = @ - SnapshotLen]
          /\ staging' = [staging EXCEPT ![j] = Both(File, TreeOf(0))]
          /\ Goes(j) /\ UNCHANGED commit
       \/ ~fits /\ Refuse(j)

Parents(path) == {SubSeq(path, 1, n) : n \in 1 .. Len(path) - 1}
EntryAt(tree, path) == {e \in tree : e.path = path}

\* add, for the folders that the entry is in: each is made once, and may be
\* named by an entry of its own, but not by two.
NewFolders(tree, e) ==
    {p \in Parents(e.path) \cup (IF e.kind = "directory" THEN {e.path} ELSE {}) :
        EntryAt(tree, p) = {}}
Clashes(tree, e) ==
    \/ \E p \in Parents(e.path), f \in tree : f.path = p /\ f.kind = "file"
    \/ \E f \in EntryAt(tree, e.path) : e.kind = "file" \/ f.kind = "file" \/ f.explicit

\* entry: may the next entry be written, and what the tree is then.
\* Mutant: the data of an entry may be other than its header says.
AdmitsAnyLength(j, e) ==
    LET new == NewFolders(job[j].tree, e)
        charge == job[j].charge + DirCharge * Cardinality(new) + e.actual
    IN /\ e.valid /\ Len(e.path) <= MaxDepth /\ ~Clashes(job[j].tree, e)
       /\ Cardinality(job[j].tree) + Cardinality(new) + (IF e.kind = "file" THEN 1 ELSE 0) <= MaxEntries
       /\ job[j].bytes + e.actual <= MaxBytes /\ charge <= job[j].allowance

Admits(j, e) ==
    LET new == NewFolders(job[j].tree, e)
        charge == job[j].charge + DirCharge * Cardinality(new) + e.actual
    IN /\ e.valid /\ Len(e.path) <= MaxDepth /\ ~Clashes(job[j].tree, e)
       /\ e.actual = e.size /\ (e.kind = "directory" => e.size = 0)
       /\ Cardinality(job[j].tree) + Cardinality(new) + (IF e.kind = "file" THEN 1 ELSE 0) <= MaxEntries
       /\ job[j].bytes + e.actual <= MaxBytes /\ charge <= job[j].allowance

Node(path, kind, size, explicit) == [path |-> path, kind |-> kind, size |-> size, explicit |-> explicit]
Written(tree, e) ==
    (tree \ EntryAt(tree, e.path))
      \cup {Node(p, "directory", 0, FALSE) : p \in NewFolders(tree, e) \ {e.path}}
      \cup {Node(e.path, e.kind, e.actual, TRUE)}

ExtractEntry(j) ==
    /\ At(j, "entry") /\ job[j].at <= Len(job[j].input)
    /\ LET e == job[j].input[job[j].at]
           tree == Written(job[j].tree, e)
       IN
       \/ Stops(j)
       \/ /\ e.path = <<>>        \* the folder itself, "./"
          /\ job' = [job EXCEPT ![j].at = @ + 1]
          /\ Goes(j) /\ UNCHANGED <<commit, pc, staging>>
       \/ /\ e.path # <<>> /\ Admits(j, e)
          /\ job' = [job EXCEPT ![j].at = @ + 1, ![j].tree = tree,
                        ![j].bytes = @ + e.actual, ![j].charge = DirCharge + ChargeOf(tree)]
          /\ staging' = [staging EXCEPT ![j] = Both(File, TreeOf(Cardinality(tree)))]
          /\ Goes(j) /\ UNCHANGED <<commit, pc>>
       \/ e.path # <<>> /\ ~Admits(j, e) /\ Refuse(j)

\* The copy is removed, as far as that succeeds, and the tree is kept.
EndExtraction(j) ==
    /\ At(j, "entry") /\ job[j].at > Len(job[j].input)
    /\ \/ Stops(j)
       \/ /\ ~job[j].cancelled /\ Goto(j, "publish")
          /\ staging' = [staging EXCEPT ![j] = TreeOf(Cardinality(job[j].tree))]
          /\ \E left \in Remains(File) : Leaves(left)
          /\ UNCHANGED <<share, commit, job>>

\* The rename does not replace: whoever took the name in the meantime keeps it.
Published(j) == <<[by |-> "job", kind |-> job[j].kind, charge |-> job[j].charge,
                   tree |-> job[j].tree, out |-> job[j].out, items |-> job[j].items,
                   input |-> job[j].input]>>

Publish(j) ==
    /\ At(j, "publish")
    /\ \/ Stops(j)
       \/ /\ shelf[job[j].target] = <<>> /\ ~job[j].cancelled
          /\ shelf' = [shelf EXCEPT ![job[j].target] = Published(j)]
          /\ Goto(j, "idle") /\ job' = [job EXCEPT ![j] = NoJob] /\ commit' = 0
          /\ staging' = [staging EXCEPT ![j] = Nothing]
          /\ UNCHANGED <<mix, source, up, visited, residue, budget>>
       \/ Refuse(j)            \* the name is taken, or the rename fails

-----------------------------------------------------------------------------
(* The client, the others, and the machine                                  *)

\* The request goes, or its time is up; the worker finds out at its next check.
Cancel(j) ==
    /\ up /\ pc[j] # "idle" /\ ~job[j].cancelled /\ Spend("cancels")
    /\ IF pc[j] = "commit" THEN Goto(j, "idle") /\ job' = [job EXCEPT ![j] = NoJob]
       ELSE job' = [job EXCEPT ![j].cancelled = TRUE] /\ UNCHANGED pc
    /\ UNCHANGED <<share, commit, staging, residue>>

ChangeSource(s, n) ==
    /\ Spend("changes") /\ source[s] # n
    /\ source' = [source EXCEPT ![s] = n]
    /\ UNCHANGED <<mix, shelf, commit, pc, job, staging, residue, up, visited>>

TakeName(n) ==
    /\ shelf[n] = <<>> /\ Spend("changes")
    /\ shelf' = [shelf EXCEPT ![n] = <<[by |-> "other", charge |-> 1]>>]
    /\ UNCHANGED <<mix, source, commit, pc, job, staging, residue, up, visited>>

\* Only who has the lock has anything in staging.
Crash ==
    /\ up /\ up' = FALSE /\ Spend("faults")
    /\ pc' = [j \in Jobs |-> "idle"] /\ job' = [j \in Jobs |-> NoJob] /\ commit' = 0
    /\ residue' = IF commit = 0 THEN residue ELSE Both(residue, staging[commit])
    /\ staging' = [j \in Jobs |-> Nothing]
    /\ UNCHANGED <<mix, source, shelf, visited>>

-----------------------------------------------------------------------------
(* recover_staging_directory, at a start                                    *)

Resting == UNCHANGED <<mix, source, shelf, commit, pc, job, staging>>

\* Every name directly in staging counts.  A start that meets too many of them
\* fails before it has removed anything.
Met == mix.retained + residue.files + Len(residue.trees)
Start ==
    /\ ~up /\ visited = -1 /\ Met <= Budget
    /\ visited' = Met
    /\ Resting /\ UNCHANGED <<residue, up, budget>>

\* Trees go first, in the order of the directory, within what is left of the
\* budget: a start that spends it all fails, with so many entries fewer.
RecoverTree(i) ==
    /\ visited # -1
    /\ LET n == residue.trees[i]
           room == Budget - visited
       IN IF n <= room
          THEN /\ residue' = [residue EXCEPT !.trees = RemoveAt(@, i)]
               /\ visited' = visited + n
          ELSE /\ residue' = [residue EXCEPT !.trees[i] = n - room]
               /\ visited' = -1
    /\ Resting /\ UNCHANGED <<up, budget>>

\* Files go when all trees are gone, and the server runs when all files are.
RecoverFile ==
    /\ visited # -1 /\ residue.trees = <<>> /\ residue.files > 0
    /\ residue' = [residue EXCEPT !.files = @ - 1]
    /\ Resting /\ UNCHANGED <<up, visited, budget>>

Started ==
    /\ visited # -1 /\ residue = Nothing
    /\ up' = TRUE /\ visited' = -1
    /\ Resting /\ UNCHANGED <<residue, budget>>

\* A start that is killed, or meets an entry that it cannot remove, fails.
StartFails ==
    /\ visited # -1 /\ visited' = -1 /\ Spend("faults")
    /\ \/ UNCHANGED residue
       \/ \E i \in DOMAIN residue.trees : \E n \in 0 .. residue.trees[i] :
             residue' = [residue EXCEPT !.trees[i] = n]
    /\ Resting /\ UNCHANGED up

Recover == Start \/ (\E i \in DOMAIN residue.trees : RecoverTree(i)) \/ RecoverFile \/ Started

-----------------------------------------------------------------------------

Work(j) ==
    \/ TakeCommit(j) \/ Target(j) \/ Walk(j) \/ Open(j) \/ Copy(j) \/ FinishArchive(j) \/ Sent(j)
    \/ BeginSnapshot(j) \/ Snapshot(j) \/ ExtractEntry(j) \/ EndExtraction(j) \/ Publish(j)

Next ==
    \/ \E j \in Jobs : \/ Work(j) \/ Cancel(j)
                       \/ \E kind \in mix.kinds, input \in Inputs, target \in Names : Ask(j, kind, input, target)
    \/ \E s \in Range(Sources), n \in Lengths \cup {-1} : ChangeSource(s, n)
    \/ \E n \in Names : TakeName(n)
    \/ Crash \/ Recover \/ StartFails

\* Once it is planned, an archive that is streamed moves only as the client reads it.
AwaitsReader(j) ==
    job[j].kind = "stream" /\ pc[j] \in {"open", "copy", "sent"} /\ ~job[j].cancelled

\* A worker goes on by itself, and whoever waits for the lock gives up in time; the
\* operator starts the server again.
Fairness ==
    /\ \A j \in Jobs : WF_vars(~AwaitsReader(j) /\ Work(j))
    /\ WF_vars(Recover)

Spec == Init /\ [][Next]_vars /\ Fairness

-----------------------------------------------------------------------------
(* Properties                                                               *)

TypeOK ==
    /\ source \in [Range(Sources) -> Nat \cup {-1}]
    /\ pc \in [Jobs -> Labels] /\ job \in [Jobs -> Job] /\ staging \in [Jobs -> Staged]
    /\ commit \in Jobs \cup {0}
    /\ \A j \in Jobs : /\ job[j].charge <= job[j].allowance \/ job[j].kind = "stream"
                       /\ pc[j] \in {"idle", "commit", "walk", "sent"} \/ commit = j
                            \/ job[j].kind = "stream"
                       /\ staging[j] # Nothing => commit = j
    /\ residue \in Leftovers /\ (up \/ commit = 0) /\ visited \in Nat \cup {-1}

\* What an archive says it holds: its entries, and the folders they are in.
Contents(input) ==
    LET named == {e \in Range(input) : e.path # <<>>} IN
    {[path |-> e.path, kind |-> e.kind, size |-> e.size] : e \in named}
      \cup {[path |-> p, kind |-> "directory", size |-> 0] :
               p \in UNION {Parents(e.path) : e \in named}}

\* What appears in the share is whole: an extracted tree is all that its archive
\* says and nothing else, and each file of a compressed or streamed archive is as
\* long as it was planned and found to be (archives.rs, extract and compress;
\* browse.rs, next_chunk), whatever changed and whoever left meanwhile.
OnlyWholeArchives ==
    /\ \A n \in Names : shelf[n] # <<>> /\ shelf[n][1].by = "job" =>
          IF shelf[n][1].kind = "extract"
          THEN {[path |-> e.path, kind |-> e.kind, size |-> e.size] : e \in shelf[n][1].tree}
                 = Contents(shelf[n][1].input)
          ELSE shelf[n][1].out = shelf[n][1].items
    /\ \A j \in Jobs : At(j, "sent") => job[j].out = job[j].items /\ job[j].whole

\* Jobs never bring the share above its quota: two that measure and publish at
\* the same time would (mutations.rs, local_archive).
WithinQuota == budget.changes = mix.changes => Usage <= Quota

\* A job never replaces what is under its name, even when the name was free as
\* it began (filesystem/archive.rs, publish).
NeverReplaces == [][\A n \in Names : shelf[n] # <<>> => shelf'[n] = shelf[n]]_shelf

\* Only a crash or a clean-up that failed leaves anything in staging, and each of
\* them a file and a tree at most: a job that is cancelled, is out of time or is
\* refused takes all it staged with it (archives.rs, Cancellation;
\* filesystem/archive.rs, Drop), whatever has gone wrong before.
NothingLeftBehind ==
    LET faults == mix.faults - budget.faults IN
    residue.files <= faults /\ Len(residue.trees) <= faults

\* Every job that does not wait for its client ends, its clean-up with it.
JobsEnd == \A j \in Jobs : pc[j] # "idle" ~> pc[j] = "idle" \/ AwaitsReader(j)

\* However much the trees in staging hold, a server comes up in the end, unless
\* the names directly in staging are by themselves as many as one start may visit.
ComesUp == ~up /\ Met < Budget ~> up /\ residue = Nothing

\* What jobs publish is whole, and within the quota of the share (archives.rs, browse.rs).
ArchivesSound == TypeOK /\ OnlyWholeArchives /\ WithinQuota

\* Jobs never replace, and end unless the client keeps them; a server that stopped
\* meanwhile comes up again, however many starts the trees in staging take, and has
\* cleaned up after them (archives.rs; filesystem.rs, recover_staging_directory).
JobsFinish == NeverReplaces /\ JobsEnd /\ ComesUp
=============================================================================
