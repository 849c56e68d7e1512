----------------------------- MODULE TrashSweep -----------------------------
(***************************************************************************)
(* The two bounded walks over a share's Trash: the hourly collection, which*)
(* goes through the directory batch by batch from a saved position         *)
(* (gc_batch, gc_expired_trash), and Empty Trash, whose batches each start *)
(* again at the beginning (empty_trash_batch, src/filesystem/trash.rs).    *)
(*                                                                         *)
(* A batch holds the commit lock; clients delete and restore between       *)
(* batches.  What one purge does to the disk, call by call, is in Trash:   *)
(* here it only uses up a budget.                                          *)
(***************************************************************************)
EXTENDS Naturals, Sequences, FiniteSets

CONSTANTS
    Items,       \* Trash items, one for each opaque ID
    Free,        \* a free position of the directory
    Positions,   \* the directory has positions 1 .. Positions
    Weight,      \* how many entries the payload of each item holds
    Stuck,       \* items whose payload cannot be removed (too deep)
    Damaged,     \* items whose sidecar cannot be read
    Unfinished,  \* items that were moved in, but never published
    InitDirs,    \* the directory at first, one of these
    Batch,       \* names one batch may read, and payload entries it may remove
    MaxScan      \* names Empty Trash may read to find a batch's items

ASSUME SweepAssumption ==
    /\ Positions \in Nat /\ Batch \in Nat \ {0} /\ MaxScan \in Nat
    /\ Weight \in [Items -> Nat]
    /\ Stuck \cup Damaged \cup Unfinished \subseteq Items
    /\ Free \notin {"payload", "sidecar"} \X Items
    /\ InitDirs \subseteq [1 .. Positions -> ({"payload", "sidecar"} \X Items) \cup {Free}]
    /\ \A d \in InitDirs, p \in 1 .. Positions :
          d[p] # Free => \E q \in 1 .. Positions : d[q] = <<"sidecar", d[p][2]>>

Names == {"payload", "sidecar"} \X Items

VARIABLES
    dir,         \* the name at each position of the directory
    state,       \* the state in each sidecar; "new" before Trash, "gone" after it
    expired,     \* items whose deadline has passed
    left,        \* payload entries not yet removed
    walk,        \* which walk holds the commit lock: "none", "gc" or "empty"
    todo,        \* items the batch has still to look at
    removed,     \* payload entries the batch has removed
    cookie,      \* the position after which the collection's next batch starts
    asked,       \* whether an Empty Trash request is running
    passed,      \* its passed_over items
    whole,       \* reached_end: its batch read to the end of the directory
    handled      \* handled_all: and dealt with all it read

client == <<expired, asked>>
empty == <<passed, whole, handled>>
sweep == <<dir, state, expired, left, walk, todo, removed, cookie,
          asked, passed, whole, handled>>

SweepTypeOK ==
    /\ dir \in [1 .. Positions -> Names \cup {Free}]
    /\ state \in [Items -> {"new", "pending", "live", "purging", "gone"}]
    /\ expired \subseteq Items
    /\ left \in [Items -> Nat]
    /\ walk \in {"none", "gc", "empty"}
    /\ todo \in Seq(Items)
    /\ removed \in 0 .. Batch
    /\ cookie \in 0 .. Positions
    /\ passed \subseteq Items
    /\ {asked, whole, handled} \subseteq BOOLEAN

Places(i) == {p \in 1 .. Positions : dir[p] # Free /\ dir[p][2] = i}

SweepInit ==
    /\ dir \in InitDirs
    /\ state = [i \in Items |-> IF Places(i) = {} THEN "new"
                                ELSE IF i \in Unfinished THEN "pending" ELSE "live"]
    /\ expired = {} /\ left = Weight
    /\ walk = "none" /\ todo = <<>> /\ removed = 0
    /\ cookie = 0
    /\ asked = FALSE /\ passed = {} /\ whole = FALSE /\ handled = FALSE

-----------------------------------------------------------------------------
(* What the walks share.                                                    *)

\* The occupied positions after p.
After(p) == {q \in 1 .. Positions : q > p /\ dir[q] # Free}

\* Those among ps of the sidecars of items not in skip.
Sidecars(ps, skip) == {p \in ps : dir[p][1] = "sidecar" /\ dir[p][2] \notin skip}

\* The n first of ps, and the items of ps in the order in which they are read.
Rank(ps, p) == Cardinality({q \in ps : q <= p})
Earliest(ps, n) == {p \in ps : Rank(ps, p) <= n}
ItemsAt(ps) == [n \in 1 .. Cardinality(ps) |-> dir[CHOOSE p \in ps : Rank(ps, p) = n][2]]

Without(i) == [p \in 1 .. Positions |-> IF p \in Places(i) THEN Free ELSE dir[p]]

\* purge, with what the batch has not yet spent: the payload and its entries go
\* if they all fit, otherwise as many entries as fit.
Purge(i) ==
    LET spend == Batch - removed
    IN  IF left[i] < spend
        THEN /\ dir' = Without(i)
             /\ state' = [state EXCEPT ![i] = "gone"]
             /\ left' = [left EXCEPT ![i] = 0]
             /\ removed' = removed + left[i] + 1
        ELSE /\ state' = [state EXCEPT ![i] = "purging"]
             /\ left' = [left EXCEPT ![i] = @ - spend]
             /\ removed' = Batch
             /\ UNCHANGED dir

\* The item is marked, but its payload cannot be removed.
PurgeFails(i) ==
    /\ state' = [state EXCEPT ![i] = "purging"]
    /\ UNCHANGED <<dir, left, removed>>

Skip == UNCHANGED <<dir, state, left, removed>>

-----------------------------------------------------------------------------
(* gc_expired_trash                                                         *)

IsDue(i) == i \notin Damaged /\ (state[i] = "purging" \/ (state[i] = "live" /\ i \in expired))

\* gc_batch: the next Batch names.  At the end of the directory the cookie is
\* reset, and the next batch begins a new sweep.
GcRead ==
    /\ walk = "none"
    /\ \E names \in {Earliest(After(cookie), Batch)} :
           /\ todo' = ItemsAt(Sidecars(names, {}))
           /\ cookie' = IF Cardinality(names) < Batch THEN 0
                        ELSE CHOOSE p \in names : Rank(names, p) = Batch
    /\ walk' = "gc" /\ removed' = 0
    /\ UNCHANGED <<dir, state, left, client, empty>>

\* Mutant: an error ends the batch and the sweep with it.
GcItemStops ==
    /\ walk = "gc" /\ todo # <<>> /\ removed < Batch
    /\ LET i == Head(todo)
       IN  IF ~ IsDue(i) THEN Skip /\ todo' = Tail(todo) /\ UNCHANGED cookie
           ELSE IF i \in Stuck
                THEN PurgeFails(i) /\ todo' = <<>> /\ cookie' = 0
                ELSE Purge(i) /\ todo' = Tail(todo) /\ UNCHANGED cookie
    /\ UNCHANGED <<walk, client, empty>>

\* An item that cannot be read or removed is left for a later sweep.
GcItem ==
    /\ walk = "gc" /\ todo # <<>> /\ removed < Batch
    /\ LET i == Head(todo)
       IN  IF IsDue(i)
           THEN IF i \in Stuck THEN PurgeFails(i) ELSE Purge(i)
           ELSE Skip
    /\ todo' = Tail(todo)
    /\ UNCHANGED <<walk, cookie, client, empty>>

\* The batch ends with its names or with its budget, dropping the other names.
GcEnd ==
    /\ walk = "gc" /\ (todo = <<>> \/ removed = Batch)
    /\ walk' = "none" /\ todo' = <<>>
    /\ UNCHANGED <<dir, state, left, removed, cookie, client, empty>>

-----------------------------------------------------------------------------
(* empty_trash_inner and empty_trash_batch                                  *)

AskEmpty ==
    /\ ~ asked
    /\ asked' = TRUE /\ passed' = {} /\ whole' = FALSE /\ handled' = FALSE
    /\ UNCHANGED <<dir, state, expired, left, walk, todo, removed, cookie>>

\* The names that a batch for items not in skip reads: up to its last item, or
\* all of them.
Scanned(skip) ==
    LET names == After(0)
        fresh == Sidecars(names, skip)
    IN  IF Cardinality(fresh) < Batch THEN names
        ELSE {p \in names : \E q \in Earliest(fresh, Batch) : p <= q}

\* The end is reached if no name follows.  One that reads too many names fails
\* the request.
EmptyReadExcept(skip) ==
    /\ walk = "none" /\ asked /\ ~ (whole /\ handled)
    /\ \E names \in {Scanned(skip)} :
           IF Cardinality(names) > MaxScan
           THEN asked' = FALSE /\ UNCHANGED <<walk, todo, removed, whole, handled>>
           ELSE /\ todo' = ItemsAt(Sidecars(names, skip))
                /\ whole' = (names = After(0)) /\ handled' = TRUE
                /\ walk' = "empty" /\ removed' = 0 /\ UNCHANGED asked
    /\ UNCHANGED <<dir, state, expired, left, cookie, passed>>

EmptyRead == EmptyReadExcept(passed)

PassOver(i) == passed' = passed \cup {i} /\ todo' = Tail(todo) /\ UNCHANGED handled

\* Mutant: an item that did not fit counts as dealt with.
EmptyItemMore ==
    /\ walk = "empty" /\ todo # <<>> /\ removed < Batch
    /\ LET i == Head(todo)
       IN  IF i \in Damaged \/ state[i] = "pending" THEN Skip /\ PassOver(i)
           ELSE IF i \in Stuck THEN PurgeFails(i) /\ PassOver(i)
           ELSE Purge(i) /\ todo' = Tail(todo) /\ UNCHANGED <<passed, handled>>
    /\ UNCHANGED <<walk, cookie, client, whole>>

EmptyItem ==
    /\ walk = "empty" /\ todo # <<>> /\ removed < Batch
    /\ LET i == Head(todo)
       IN  IF i \in Damaged \/ state[i] = "pending" THEN Skip /\ PassOver(i)
           ELSE IF i \in Stuck THEN PurgeFails(i) /\ PassOver(i)
           ELSE /\ Purge(i)
                /\ IF state'[i] = "gone"
                   THEN todo' = Tail(todo) /\ UNCHANGED handled
                   ELSE todo' = <<>> /\ handled' = FALSE
                /\ UNCHANGED passed
    /\ UNCHANGED <<walk, cookie, client, whole>>

\* The budget is spent before all the items read were dealt with.
EmptyStops ==
    /\ walk = "empty" /\ todo # <<>> /\ removed = Batch
    /\ todo' = <<>> /\ handled' = FALSE
    /\ UNCHANGED <<dir, state, left, walk, removed, cookie, client, passed, whole>>

EmptyEnd ==
    /\ walk = "empty" /\ todo = <<>>
    /\ walk' = "none"
    /\ UNCHANGED <<dir, state, left, todo, removed, cookie, client, empty>>

\* The request answers that Trash is empty, or that its time is up or the
\* directory cannot be read.
EmptyAnswer ==
    /\ asked /\ walk = "none" /\ whole /\ handled
    /\ asked' = FALSE
    /\ UNCHANGED <<dir, state, expired, left, walk, todo, removed, cookie, empty>>

EmptyTimeout ==
    /\ asked /\ walk = "none" /\ ~ (whole /\ handled)
    /\ asked' = FALSE
    /\ UNCHANGED <<dir, state, expired, left, walk, todo, removed, cookie, empty>>

-----------------------------------------------------------------------------
(* Clients and time, while no walk holds the lock.                          *)

\* move_to_trash: both names go to free positions of the directory.  It refuses
\* what is too deep, and leaves a published item.
MoveToTrash(i, p, q) ==
    /\ walk = "none" /\ state[i] = "new" /\ i \notin Stuck \cup Damaged \cup Unfinished
    /\ p # q /\ dir[p] = Free /\ dir[q] = Free
    /\ dir' = [dir EXCEPT ![p] = <<"payload", i>>, ![q] = <<"sidecar", i>>]
    /\ state' = [state EXCEPT ![i] = "live"]
    /\ UNCHANGED <<expired, left, walk, todo, removed, cookie, asked, empty>>

\* restore_trash; what is too deep to remove is too deep to restore.
Restore(i) ==
    /\ walk = "none" /\ state[i] = "live" /\ i \notin Damaged \cup Stuck
    /\ dir' = Without(i) /\ state' = [state EXCEPT ![i] = "gone"]
    /\ UNCHANGED <<expired, left, walk, todo, removed, cookie, asked, empty>>

Expire(i) ==
    /\ state[i] \in {"live", "pending"} /\ i \notin expired
    /\ expired' = expired \cup {i}
    /\ UNCHANGED <<dir, state, left, walk, todo, removed, cookie, asked, empty>>

Walk == GcRead \/ GcItem \/ GcEnd \/ EmptyRead \/ EmptyItem \/ EmptyStops \/ EmptyEnd \/ EmptyAnswer

SweepNext ==
    \/ Walk \/ AskEmpty \/ EmptyTimeout
    \/ \E i \in Items, p, q \in 1 .. Positions : MoveToTrash(i, p, q)
    \/ \E i \in Items : Restore(i) \/ Expire(i)

SweepSpec == SweepInit /\ [][SweepNext]_sweep

-----------------------------------------------------------------------------

InTrash == {i \in Items : state[i] \in {"pending", "live", "purging"}}

\* When Empty Trash finds that it is done, nothing is left in Trash but what it
\* passed over: what clients moved in between its batches is gone too.
EmptyIsComplete ==
    walk = "empty" /\ todo = <<>> /\ whole /\ handled => InTrash \subseteq passed

\* The hourly task goes on for ever, an Empty Trash request until it is done, and
\* the commit lock is given to waiters in turn.
SweepFairSpec ==
    /\ SweepSpec
    /\ SF_sweep(GcRead) /\ WF_sweep(GcItem) /\ WF_sweep(GcEnd)
    /\ SF_sweep(EmptyRead) /\ WF_sweep(EmptyItem) /\ WF_sweep(EmptyStops) /\ WF_sweep(EmptyEnd)
    /\ SF_sweep(EmptyAnswer)

\* Every item whose time has come goes in the end, whatever is stuck or damaged
\* beside it and however much of the batches' budget the others use.
DueItemsGo ==
    \A i \in Items \ (Stuck \cup Damaged) : IsDue(i) ~> state[i] = "gone"

\* An Empty Trash request comes to the end of Trash, without its time limit too:
\* what it cannot remove does not hold it up.
EmptyEnds == asked ~> ~ asked

\* Bad items hold up neither walk: the collection gets to all that is due, and Empty Trash
\* comes to an end (gc_expired_trash and empty_trash_batch, which go on at a saved place).
SweepsEnd == DueItemsGo /\ EmptyEnds

\* The types, and that an Empty Trash that says it is done left nothing but what it passed
\* over (empty_trash_batch).
SweepSound == SweepTypeOK /\ EmptyIsComplete
=============================================================================
