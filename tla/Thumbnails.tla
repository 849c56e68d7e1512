----------------------------- MODULE Thumbnails -----------------------------
(***************************************************************************)
(* Thumbnails (src/thumbnail.rs, src/thumbnail/cache.rs): requests that    *)
(* look in the cache on disk, wait for one another when they want the same *)
(* image, reserve memory, decode on a blocking thread that outlives a      *)
(* cancelled request, and fill the cache.                                  *)
(*                                                                         *)
(* A key is one version of an image at one size.  The index is under a     *)
(* mutex, the directory is not: a fill renames its file into place before  *)
(* it takes the lock, and removes the files that it evicted after.  A file *)
(* whose removal fails stays, and the index knows nothing of it.           *)
(***************************************************************************)
EXTENDS Integers, FiniteSets, Sequences, SequencesExt, FiniteSetsExt

CONSTANTS
    Requests,       \* requests at the same time
    Keys,           \* cache keys
    Length,         \* the length of each thumbnail
    Estimate,       \* the memory that each decode is estimated to need
    MaxBytes,       \* max_thumbnail_cache_size
    MaxEntries,     \* MAX_ENTRIES
    MaxScan,        \* MAX_SCAN_ENTRIES
    Capacity,       \* max_image_decode_memory
    MaxAsked,       \* bound: requests made, in all
    MaxCuts,        \* bound: requests cancelled by their client
    MaxTrouble      \* bound: restarts, failed reads, decodes, writes and removals

ASSUME ThumbnailAssumption ==
    /\ Length \in [Keys -> Nat] /\ Estimate \in [Keys -> Nat \ {0}]
    /\ {MaxBytes, MaxEntries, MaxScan, Capacity, MaxAsked, MaxCuts, MaxTrouble} \subseteq Nat
    /\ IsFiniteSet(Requests) /\ IsFiniteSet(Keys) /\ Keys # {}

VARIABLES
    index,      \* Index: the keys from the oldest to the newest
    total,      \* Index: total
    files,      \* the keys whose file is in the directory
    temps,      \* requests whose temporary file is in the directory
    litter,     \* how many temporary files are in the directory that nobody works on
    flights,    \* in_flight: the lock of a key
    free,       \* decode memory not reserved
    req,        \* the requests
    gone,       \* keys whose source was deleted for good
    forgetting, \* keys taken from the index whose file is to be removed
    left,       \* requests, cuts and faults left
    dropped     \* history: files that the index gave up without removing them

vars == <<index, total, files, temps, litter, flights, free, req, gone, forgetting, left, dropped>>
store == <<index, total, files, temps, litter, forgetting, dropped>>

\* A new one is made when no request and no key has its lock.
Locks == 1 .. Cardinality(Requests) + Cardinality(Keys)
Labels == {"idle", "get", "read", "drop", "plan", "lock", "reserve", "render", "write", "rename",
           "index", "sweep", "unlock", "release"}
NoRequest == [pc |-> "idle", key |-> CHOOSE k \in Keys : TRUE, arc |-> 0, guard |-> FALSE,
              second |-> FALSE, waited |-> TRUE, holds |-> 0, evicted |-> {}]
Request == [pc : Labels, key : Keys, arc : Locks \cup {0}, guard : BOOLEAN,
            second : BOOLEAN, waited : BOOLEAN, holds : Nat, evicted : SUBSET Keys]

TypeOK ==
    /\ index \in Seq(Keys) /\ IsInjective(index)
    /\ files \cup gone \cup forgetting \cup dropped \subseteq Keys /\ temps \subseteq Requests
    /\ flights \in [Keys -> Locks \cup {0}]
    /\ free \in 0 .. Capacity
    /\ req \in [Requests -> Request]
    /\ \A r \in Requests : /\ req[r].guard => req[r].arc # 0
                           /\ req[r].pc = "idle" => req[r] = NoRequest

Init ==
    /\ index = <<>> /\ total = 0 /\ files = {} /\ temps = {} /\ litter = 0
    /\ flights = [k \in Keys |-> 0]
    /\ free = Capacity
    /\ req = [r \in Requests |-> NoRequest]
    /\ gone = {} /\ forgetting = {} /\ dropped = {}
    /\ left = [asks |-> MaxAsked, cuts |-> MaxCuts, faults |-> MaxTrouble]

Spend(what) == left[what] > 0 /\ left' = [left EXCEPT ![what] = @ - 1]
At(r, label) == req[r].pc = label
Goto(r, label) == req' = [req EXCEPT ![r].pc = label]
Key(r) == req[r].key
Drops(r) == req' = [req EXCEPT ![r] = NoRequest]

-----------------------------------------------------------------------------
(* Index, under its mutex                                                   *)

SumOf(ks) == MapThenSumSet(LAMBDA k : Length[k], ks)

RemoveKey(k) ==
    /\ index' = RemoveFirst(index, k)
    /\ total' = IF Contains(index, k) THEN total - Length[k] ELSE total

\* The oldest go until both limits hold: how many of them that is.
Evicts(seq, sum) ==
    CHOOSE n \in 0 .. Len(seq) :
        LET Holds(m) == /\ sum - SumOf(Range(SubSeq(seq, 1, m))) <= MaxBytes
                        /\ Len(seq) - m <= MaxEntries
        IN Holds(n) /\ \A m \in 0 .. n - 1 : ~Holds(m)

\* insert and evict in one critical section.
Filled(k) ==
    LET seq == Append(RemoveFirst(index, k), k)
        sum == total + Length[k] - (IF Contains(index, k) THEN Length[k] ELSE 0)
        n == Evicts(seq, sum)
    IN [index |-> SubSeq(seq, n + 1, Len(seq)), evicted |-> Range(SubSeq(seq, 1, n)),
        total |-> sum - SumOf(Range(SubSeq(seq, 1, n)))]

-----------------------------------------------------------------------------
(* thumbnail: the cache is looked at first, without a lock on the key       *)

Ask(r, k) ==
    /\ At(r, "idle") /\ k \notin gone /\ Spend("asks")
    /\ req' = [req EXCEPT ![r] = [NoRequest EXCEPT !.pc = "get", !.key = k]]
    /\ UNCHANGED <<store, flights, free, gone>>

\* What a lookup that found nothing leads to: the plan, and under the lock of
\* the key the reservation.
Missed(r) == IF ~req[r].waited THEN "unlock" ELSE IF req[r].second THEN "reserve" ELSE "plan"

Get(r) ==
    /\ At(r, "get")
    /\ Goto(r, IF Contains(index, Key(r)) THEN "read" ELSE Missed(r))
    /\ UNCHANGED <<store, flights, free, gone, left>>

Read(r) ==
    /\ At(r, "read")
    /\ \/ Key(r) \in files /\ Goto(r, "unlock") /\ UNCHANGED left
       \/ Key(r) \notin files /\ Goto(r, "drop") /\ UNCHANGED left
       \/ Spend("faults") /\ Goto(r, "drop")
    /\ UNCHANGED <<store, flights, free, gone>>

\* The entry is dropped that cannot be read; what is under the name now stays.
Drop(r) ==
    /\ At(r, "drop")
    /\ RemoveKey(Key(r))
    /\ dropped' = dropped \cup ({Key(r)} \cap files)
    /\ Goto(r, Missed(r))
    /\ UNCHANGED <<files, temps, litter, forgetting, flights, free, gone, left>>

-----------------------------------------------------------------------------
(* render_miss: once per key at a time                                      *)

\* How many there are of an Arc: in the map, of each request, and of each
\* pending or owned lock.
StrongCount(lock) ==
    Cardinality({k \in Keys : flights[k] = lock})
      + Cardinality({r \in Requests : req[r].arc = lock})
      + Cardinality({r \in Requests : req[r].arc = lock /\ (At(r, "lock") \/ req[r].guard)})

Unused == CHOOSE lock \in Locks : StrongCount(lock) = 0

\* An image that can never fit is refused; an image that cannot be read, too.
Plan(r) ==
    /\ At(r, "plan")
    /\ \/ /\ Estimate[Key(r)] <= Capacity
          /\ LET lock == IF flights[Key(r)] # 0 THEN flights[Key(r)] ELSE Unused IN
             /\ flights' = [flights EXCEPT ![Key(r)] = lock]
             /\ req' = [req EXCEPT ![r].pc = "lock", ![r].arc = lock]
       \/ Estimate[Key(r)] > Capacity /\ Drops(r) /\ UNCHANGED flights
    /\ UNCHANGED <<store, free, gone, left>>

\* The lock is owned, or the request waited too long and answers busy.
Lock(r) ==
    /\ At(r, "lock")
    /\ \/ /\ \A o \in Requests : ~(req[o].guard /\ req[o].arc = req[r].arc)
          /\ req' = [req EXCEPT ![r].pc = "get", ![r].guard = TRUE, ![r].second = TRUE]
       \/ Drops(r)
    /\ UNCHANGED <<store, flights, free, gone, left>>

Reserve(r) ==
    /\ At(r, "reserve")
    /\ \/ /\ free >= Estimate[Key(r)]
          /\ free' = free - Estimate[Key(r)]
          /\ req' = [req EXCEPT ![r].pc = "render", ![r].holds = Estimate[Key(r)]]
       \/ Goto(r, "unlock") /\ UNCHANGED free
    /\ UNCHANGED <<store, flights, gone, left>>

Render(r) ==
    /\ At(r, "render")
    /\ \/ /\ Goto(r, IF Length[Key(r)] \in 1 .. MaxBytes THEN "write" ELSE "unlock")
          /\ UNCHANGED left
       \/ Spend("faults") /\ Goto(r, "unlock")
    /\ UNCHANGED <<store, flights, free, gone>>

\* put: write_atomic, in two steps, the index, and the files of the evicted.  When a
\* step fails the temporary file is removed, or not even that.
WriteTemporary(r) ==
    /\ At(r, "write")
    /\ \/ temps' = temps \cup {r} /\ Goto(r, "rename") /\ UNCHANGED <<litter, left>>
       \/ Spend("faults") /\ Goto(r, "unlock") /\ litter' \in {litter, litter + 1} /\ UNCHANGED temps
    /\ UNCHANGED <<index, total, files, forgetting, dropped, flights, free, gone>>

RenameTemporary(r) ==
    /\ At(r, "rename")
    /\ temps' = temps \ {r}
    /\ \/ files' = files \cup {Key(r)} /\ Goto(r, "index") /\ UNCHANGED <<litter, left>>
       \/ Spend("faults") /\ Goto(r, "unlock") /\ litter' \in {litter, litter + 1} /\ UNCHANGED files
    /\ UNCHANGED <<index, total, forgetting, dropped, flights, free, gone>>

\* Mutant: an evicted file is left to the one who fills its key again.
FillKeepsFiles(r) ==
    /\ At(r, "index")
    /\ index' = Filled(Key(r)).index /\ total' = Filled(Key(r)).total
    /\ Goto(r, "sweep")
    /\ dropped' = dropped \ {Key(r)}
    /\ UNCHANGED <<files, temps, litter, forgetting, flights, free, gone, left>>

Fill(r) ==
    /\ At(r, "index")
    /\ index' = Filled(Key(r)).index /\ total' = Filled(Key(r)).total
    /\ req' = [req EXCEPT ![r].pc = "sweep", ![r].evicted = Filled(Key(r)).evicted]
    /\ dropped' = dropped \ {Key(r)}
    /\ UNCHANGED <<files, temps, litter, forgetting, flights, free, gone, left>>

\* The file of a key is removed, or stays when that fails, which nobody is told.
RemoveFile(k) ==
    \/ files' = files \ {k} /\ dropped' = dropped \ {k} /\ UNCHANGED left
    \/ /\ k \in files /\ Spend("faults")
       /\ dropped' = dropped \cup ({k} \ Range(index)) /\ UNCHANGED files

Sweep(r) ==
    /\ At(r, "sweep")
    /\ \/ \E k \in req[r].evicted :
             RemoveFile(k) /\ req' = [req EXCEPT ![r].evicted = @ \ {k}]
       \/ req[r].evicted = {} /\ Goto(r, "unlock") /\ UNCHANGED <<files, dropped, left>>
    /\ UNCHANGED <<index, total, temps, litter, forgetting, flights, free, gone>>

\* The work ends: the reservation returns and the lock is free.
Unlock(r) ==
    /\ At(r, "unlock")
    /\ free' = free + req[r].holds
    /\ IF req[r].arc = 0 THEN Drops(r)
       ELSE req' = [req EXCEPT ![r].pc = "release", ![r].guard = FALSE, ![r].holds = 0]
    /\ UNCHANGED <<store, flights, gone, left>>

\* The entry of the key goes when only the map and this request have its lock.
Release(r) ==
    /\ At(r, "release")
    /\ flights' = IF StrongCount(req[r].arc) <= 2 THEN [flights EXCEPT ![Key(r)] = 0] ELSE flights
    /\ Drops(r)
    /\ UNCHANGED <<store, free, gone, left>>

\* The client goes away.  Work on a blocking thread goes on, with what it holds;
\* the lock of the key is free, and the entry in the map stays.
\* Mutant: the memory is the request's, not the decode's.
CutFrees(r) ==
    /\ req[r].waited /\ req[r].pc \notin {"idle", "plan", "unlock", "release"} /\ Spend("cuts")
    /\ IF req[r].pc \in {"lock", "reserve"} THEN Drops(r)
       ELSE req' = [req EXCEPT ![r].waited = FALSE, ![r].guard = FALSE, ![r].arc = 0,
                               ![r].holds = 0]
    /\ free' = free + req[r].holds
    /\ UNCHANGED <<store, flights, gone>>

Cut(r) ==
    /\ req[r].waited /\ req[r].pc \notin {"idle", "plan", "unlock", "release"} /\ Spend("cuts")
    /\ IF req[r].pc \in {"lock", "reserve"} THEN Drops(r)
       ELSE req' = [req EXCEPT ![r].waited = FALSE, ![r].guard = FALSE, ![r].arc = 0]
    /\ UNCHANGED <<store, flights, free, gone>>

-----------------------------------------------------------------------------
(* The source is deleted for good, and the server restarts                  *)

Forget(k) ==
    /\ k \notin gone /\ gone' = gone \cup {k}
    /\ RemoveKey(k)
    /\ forgetting' = IF Contains(index, k) THEN forgetting \cup {k} ELSE forgetting
    /\ UNCHANGED <<files, temps, litter, dropped, flights, free, req, left>>

ForgetFile(k) ==
    /\ k \in forgetting /\ forgetting' = forgetting \ {k}
    /\ RemoveFile(k)
    /\ UNCHANGED <<index, total, temps, litter, flights, free, req, gone>>

\* open: the scan, from the oldest file, which evicts as a fill does.  What temporary
\* files it meets count, and are removed like the evicted, which may fail.
Reopened(found) ==
    {LET n == Evicts(seq, SumOf(found)) IN
        [index |-> SubSeq(seq, n + 1, Len(seq)), evicted |-> Range(SubSeq(seq, 1, n)),
         total |-> SumOf(Range(SubSeq(seq, n + 1, Len(seq))))] : seq \in SetToSeqs(found)}

Restart ==
    /\ Spend("faults")
    /\ \E found \in SUBSET files, met \in 0 .. Cardinality(temps) + litter :
          /\ Cardinality(found) + met = Min({MaxScan, Cardinality(files) + Cardinality(temps) + litter})
          /\ \E opened \in Reopened(found) : \E kept \in SUBSET opened.evicted :
                /\ index' = opened.index /\ total' = opened.total
                /\ files' = files \ (opened.evicted \ kept)
                /\ dropped' = (files \ found) \cup kept
          /\ \E swept \in 0 .. met : litter' = Cardinality(temps) + litter - swept
    /\ temps' = {}
    /\ flights' = [k \in Keys |-> 0] /\ free' = Capacity
    /\ req' = [r \in Requests |-> NoRequest]
    /\ forgetting' = {}
    /\ UNCHANGED gone

-----------------------------------------------------------------------------

Serve(r) ==
    \/ \E k \in Keys : Ask(r, k)
    \/ Get(r) \/ Read(r) \/ Drop(r) \/ Plan(r) \/ Lock(r) \/ Reserve(r) \/ Render(r)
    \/ WriteTemporary(r) \/ RenameTemporary(r) \/ Fill(r) \/ Sweep(r) \/ Unlock(r) \/ Release(r)
    \/ Cut(r)

Next ==
    \/ \E r \in Requests : Serve(r)
    \/ \E k \in Keys : Forget(k) \/ ForgetFile(k)
    \/ Restart

Spec == Init /\ [][Next]_vars

-----------------------------------------------------------------------------
(* Properties                                                               *)

\* The index counts what it lists, and keeps both limits of the cache, after
\* fills of one key by several decodes, and after a restart (cache.rs, Index).
IndexWithinLimits ==
    /\ total = SumOf(Range(index))
    /\ total <= MaxBytes /\ Len(index) <= MaxEntries

\* The decodes under way never use more memory than there is to reserve, even
\* when the requests that began them are gone (thumbnail.rs, render_locked).
MemoryWithinBudget ==
    LET decoding == {r \in Requests : req[r].pc \in {"render", "write", "rename", "index", "sweep"}}
    IN MapThenSumSet(LAMBDA r : Estimate[Key(r)], decoding) <= Capacity

\* Two requests that both still wait never work on the same key (thumbnail.rs,
\* "once per key at a time"): the entry of the map outlives every request
\* that has its lock.
OnePerKey ==
    \A r, o \in Requests : r # o /\ req[r].guard /\ req[o].guard => Key(r) # Key(o)

\* A file that the index does not list is one that a fill is about to list, that an
\* eviction or a deletion is about to remove, or that was given up for good: by a lookup
\* that could not read it, by a removal that failed, or by the scan at a start.  No other
\* interleaving of fills, evictions, lookups and deletions loses count of a file, and a
\* file that is given up counts again once its key is filled (cache.rs, put).
FilesAccounted ==
    \A k \in files :
        \/ Contains(index, k) \/ k \in forgetting \/ k \in dropped
        \/ \E r \in Requests : \/ At(r, "index") /\ Key(r) = k
                               \/ k \in req[r].evicted

\* The cache is sound: its index keeps its limits and count, one request works on a key at
\* a time, and no file is lost from sight (thumbnail/cache.rs and thumbnail.rs).
CacheSound == TypeOK /\ IndexWithinLimits /\ OnePerKey /\ FilesAccounted
=============================================================================
