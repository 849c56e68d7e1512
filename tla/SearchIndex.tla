---------------------------- MODULE SearchIndex ----------------------------
(***************************************************************************)
(* The search index of one share (src/search.rs): a worker lists the       *)
(* directories and makes the rows match, told where to look by inotify     *)
(* watches, by mutations that invalidate the share and by a periodic pass  *)
(* over everything.  The share changes under it at any time.               *)
(*                                                                         *)
(* A path is a sequence of names.  A listing is one step; the stamp of a   *)
(* file stands for its size and date, and the date of a directory, which   *)
(* no notification announces, is left out.                                 *)
(***************************************************************************)
EXTENDS Integers, FiniteSets, Sequences, SequencesExt

CONSTANTS
    Names,          \* names of entries
    Start,          \* the share at the start: for each inode its parent, name and kind
    Touched,        \* bound: the paths that changes are about
    Targets,        \* bound: the paths that entries are renamed to
    MaxDepth,       \* MAX_PATH_DEPTH
    MaxEntries,     \* MAX_ENTRIES
    MaxPending,     \* MAX_PENDING
    Allowances,     \* MAX_WATCHES divided among the shares, of which there may be many
    MaxQueue,       \* bound: events the kernel holds for the worker
    MaxTrouble      \* bound: changes to the share, restarts of the server and
                    \* failing database, listing or watcher calls, in all

Root == <<>>
Paths == UNION {[1 .. n -> Names] : n \in 0 .. MaxDepth + 1}
EntryKinds == {"directory", "file"}
Gone == -1          \* the parent of what has left the share

ASSUME SearchAssumption ==
    /\ {MaxDepth, MaxEntries, MaxPending, MaxQueue, MaxTrouble} \cup Allowances \subseteq Nat
    /\ MaxDepth > 0 /\ MaxQueue > 0
    /\ Touched \cup Targets \subseteq Paths \ {Root}
    /\ Start \in Seq([parent : Nat, name : Names, kind : EntryKinds])
    /\ \A i \in DOMAIN Start : Start[i].parent < i

VARIABLES
    disk,       \* the entries of the share by inode; the root is inode 0.  Of a file told
                \* is history: the stamp when it was last announced
    kernel,     \* the directories (inodes) that the kernel watches
    queue,      \* notifications not yet read
    rows,       \* the table of entries
    total,      \* Writer::total
    w,          \* ShareWork, with the watcher's two maps
    pc,         \* where the worker is in step
    todo,       \* the directory that it is at, its listing, and what it saw
    flags,      \* IndexedShare: invalidated, complete, indexing, polling
    mutating,   \* a mutation of Crabinet that has changed the share: what is left
    budget,     \* changes, restarts and faults left
    \* History, that no action reads:
    owed,       \* directories that mutations changed while polling, not looked for since
    dropped,    \* paths that forget removed, where nobody has looked since
    tracked     \* directories that were where the worker last looked for them, and watched

index == <<disk, kernel, queue, rows, total, w, pc, todo, flags, mutating,
           budget, owed, dropped, tracked>>
shares == <<disk, kernel, queue>>
remembered == <<owed, dropped, tracked>>

Trouble == budget > 0 /\ budget' = budget - 1
Parent(p) == SubSeq(p, 1, Len(p) - 1)
Below(p, q) == Len(p) > Len(q) /\ SubSeq(p, 1, Len(q)) = q
Nothing == [x \in {} |-> 0]

Inside(i) == {c \in DOMAIN disk : disk[c].parent = i}
Named(i, n) == {c \in Inside(i) : disk[c].name = n}
Resolved(i, n) == IF i = Gone \/ Named(i, n) = {} THEN Gone ELSE CHOOSE c \in Named(i, n) : TRUE

\* The inode at a path, or Gone; several steps of a path are several lookups.
At(p) ==
    LET at[n \in 0 .. Len(p)] == IF n = 0 THEN 0 ELSE Resolved(at[n - 1], p[n])
    IN at[Len(p)]
IsFolder(i) == i = 0 \/ (i \in DOMAIN disk /\ disk[i].kind = "directory")
IsDir(p) == IsFolder(At(p))

\* What list_bounded returns of a directory: kind, size and date of each name.
Listing(i) ==
    [n \in {disk[c].name : c \in Inside(i)} |->
        LET c == Resolved(i, n) IN [kind |-> disk[c].kind, stamp |-> disk[c].stamp]]

Entry == [kind : EntryKinds, stamp : Nat]
Phases == {"idle", "plan", "next", "list", "reconcile", "finish", "store"}
Flagged == [invalidated : BOOLEAN, complete : BOOLEAN, indexing : BOOLEAN, polling : BOOLEAN]
Work == [pending : Seq(Seq(Names) \X BOOLEAN), full : BOOLEAN, requested : BOOLEAN,
         passed : BOOLEAN, incomplete : BOOLEAN, passIncomplete : BOOLEAN, once : BOOLEAN,
         reconciling : BOOLEAN, unwatched : BOOLEAN, dirty : SUBSET Seq(Names),
         allowance : Nat, watcher : BOOLEAN, watches : {w.watches}, watched : {w.watched}]
Task == [path : Seq(Names), recursive : BOOLEAN, listing : {todo.listing}, hit : BOOLEAN,
         invalidated : BOOLEAN]

IndexTypeOK ==
    /\ disk \in Seq([parent : Nat \cup {Gone}, name : Names, kind : EntryKinds, stamp : Nat,
                     told : Nat])
    /\ kernel \subseteq Nat
    /\ queue \in Seq([wd : Nat, what : {"change", "self", "ignored", "overflow"}])
    /\ Len(queue) <= MaxQueue
    /\ DOMAIN rows \subseteq Seq(Names) /\ rows \in [DOMAIN rows -> Entry]
    /\ \A p \in DOMAIN rows : Len(p) <= MaxDepth
    /\ total \in Nat
    /\ w \in Work
    /\ DOMAIN w.watches \subseteq Nat /\ w.watches \in [DOMAIN w.watches -> Seq(Names)]
    /\ DOMAIN w.watched \subseteq Seq(Names) /\ w.watched \in [DOMAIN w.watched -> Nat]
    /\ pc \in Phases
    /\ todo \in Task
    /\ DOMAIN todo.listing \subseteq Names /\ todo.listing \in [DOMAIN todo.listing -> Entry]
    /\ flags \in Flagged
    /\ mutating # <<>> =>
          mutating \in [{1} -> [changed : SUBSET Seq(Names), forget : SUBSET Seq(Names)]]
    /\ owed \cup dropped \cup tracked \subseteq Seq(Names)

NoWork(n) == [pending |-> <<>>, full |-> FALSE, requested |-> FALSE, passed |-> FALSE,
           incomplete |-> FALSE, passIncomplete |-> FALSE, once |-> FALSE,
           reconciling |-> FALSE, unwatched |-> FALSE, dirty |-> {},
           allowance |-> n, watcher |-> FALSE, watches |-> Nothing, watched |-> Nothing]
NoTask == [path |-> Root, recursive |-> FALSE, listing |-> Nothing, hit |-> FALSE,
           invalidated |-> FALSE]
NewFlags == [invalidated |-> FALSE, complete |-> FALSE, indexing |-> TRUE, polling |-> TRUE]

IndexInit ==
    /\ disk = [i \in DOMAIN Start |-> [parent |-> Start[i].parent, name |-> Start[i].name,
                                       kind |-> Start[i].kind, stamp |-> 0, told |-> 0]]
    /\ kernel = {} /\ queue = <<>>
    /\ rows = Nothing /\ total = 0
    /\ \E n \in Allowances : w = NoWork(n)
    /\ pc = "idle" /\ todo = NoTask /\ flags = NewFlags
    /\ mutating = <<>>
    /\ budget = MaxTrouble
    /\ owed = {} /\ dropped = {} /\ tracked = {}

-----------------------------------------------------------------------------
(* The share changes                                                        *)

\* The kernel queues an event about a watched directory; when the queue is full,
\* one overflow event stands for all that is lost.
Heard(q, i, what) ==
    IF i \notin kernel \/ Len(q) >= MaxQueue THEN q
    ELSE Append(q, IF Len(q) = MaxQueue - 1 THEN [wd |-> 0, what |-> "overflow"]
                   ELSE [wd |-> i, what |-> what])

\* A directory that is moved is told so itself.
HeardSelf(q, i) == IF IsFolder(i) THEN Heard(q, i, "self") ELSE q

\* Who: Crabinet, whose mutation goes on to forget and invalidate, or anybody
\* else with access to the files.
By(ours, changed, forgotten) ==
    /\ Trouble
    /\ \/ ours /\ mutating = <<>>
          /\ mutating' = [i \in {1} |-> [changed |-> changed, forget |-> forgotten]]
       \/ ~ours /\ UNCHANGED mutating
    /\ UNCHANGED <<rows, total, w, pc, todo, flags, remembered>>

Create(p, kind, ours) ==
    LET d == At(Parent(p)) IN
    /\ At(p) = Gone /\ IsFolder(d) /\ (ours => Len(p) <= MaxDepth)
    /\ disk' = Append(disk, [parent |-> d, name |-> p[Len(p)], kind |-> kind,
                             stamp |-> Len(disk) + 1, told |-> Len(disk) + 1])
    /\ queue' = Heard(queue, d, "change")
    /\ UNCHANGED kernel
    /\ By(ours, {Parent(p)}, {})

\* A file is written and closed, replaced or given another date.
WriteFile(p, ours) ==
    LET i == At(p) IN
    /\ i \in DOMAIN disk /\ ~IsFolder(i)
    /\ disk' = [disk EXCEPT ![i].stamp = @ + 1, ![i].told = disk[i].stamp + 1]
    /\ queue' = Heard(queue, disk[i].parent, "change")
    /\ UNCHANGED kernel
    /\ By(ours, {Parent(p)}, {})

\* Somebody writes to a file and keeps it open, truncates it by name or writes through a
\* mapping: the watches do not ask for that.
WriteSilently(p) ==
    LET i == At(p) IN
    /\ i \in DOMAIN disk /\ ~IsFolder(i)
    /\ disk' = [disk EXCEPT ![i].stamp = @ + 1]
    /\ UNCHANGED <<queue, kernel>>
    /\ By(FALSE, {}, {})

\* An entry goes to Trash with all that is below it, or into the purge area of
\* a permanent delete.  A directory keeps its watches there.
TakeAway(p, ours, forget) ==
    LET i == At(p) IN
    /\ i \in DOMAIN disk
    /\ disk' = [disk EXCEPT ![i].parent = Gone]
    /\ queue' = HeardSelf(Heard(queue, disk[i].parent, "change"), i)
    /\ UNCHANGED kernel
    /\ forget => ours
    /\ By(ours, {Parent(p)}, IF forget THEN {p} ELSE {})

\* An empty directory is removed by somebody else: its watch goes with it.
RemoveDirectory(p) ==
    LET i == At(p) IN
    /\ i \in DOMAIN disk /\ IsFolder(i) /\ Inside(i) = {}
    /\ disk' = [disk EXCEPT ![i].parent = Gone]
    /\ queue' = Heard(Heard(Heard(queue, i, "self"), i, "ignored"), disk[i].parent, "change")
    /\ kernel' = kernel \ {i}
    /\ By(FALSE, {}, {})

\* A rename: what is below moves too, and every inode stays what it was.
Move(p, q, ours) ==
    LET i == At(p)
        d == At(Parent(q))
        deepest == IF ours THEN MaxDepth ELSE MaxDepth + 1
    IN
    /\ i \in DOMAIN disk /\ At(q) = Gone /\ ~Below(q, p) /\ IsFolder(d)
    /\ \A x \in Paths : (x = p \/ Below(x, p)) /\ At(x) # Gone => Len(x) - Len(p) + Len(q) <= deepest
    /\ disk' = [disk EXCEPT ![i].parent = d, ![i].name = q[Len(q)]]
    /\ queue' = HeardSelf(Heard(Heard(queue, disk[i].parent, "change"), d, "change"), i)
    /\ UNCHANGED kernel
    /\ By(ours, {Parent(p), Parent(q)}, {})

-----------------------------------------------------------------------------
(* The end of a mutation                                                    *)

\* forget: under the writer's lock, the rows of the path and of all below it.
Forget ==
    \E p \in mutating[1].forget :
       LET kept == {q \in DOMAIN rows : q # p /\ ~Below(q, p)} IN
       /\ rows' = Restrict(rows, kept)
       /\ total' = total - Cardinality(DOMAIN rows \ kept)
       /\ dropped' = dropped \cup {q \in Paths : q = p \/ Below(q, p)}
       /\ mutating' = [mutating EXCEPT ![1].forget = {}]
       /\ UNCHANGED <<shares, w, pc, todo, flags, budget, owed, tracked>>

\* audited calls invalidate once the mutation has succeeded.
Invalidate ==
    /\ mutating[1].forget = {}
    /\ flags' = [flags EXCEPT !.invalidated = TRUE, !.indexing = TRUE]
    /\ owed' = IF flags.polling THEN owed \cup mutating[1].changed ELSE owed
    /\ mutating' = <<>>
    /\ UNCHANGED <<shares, rows, total, w, pc, todo, budget, dropped, tracked>>

EndMutation == mutating # <<>> /\ (Forget \/ Invalidate)

-----------------------------------------------------------------------------
(* The worker: step and advance                                             *)

\* Mutant: an overflow of the queue is read like any other event.
NotedDropsOverflow(e) ==
    IF e.what \in {"overflow", "ignored"} \/ e.wd \notin DOMAIN w.watches THEN w
    ELSE [w EXCEPT !.dirty = @ \cup {IF e.what = "self" THEN Parent(w.watches[e.wd])
                                     ELSE w.watches[e.wd]}]

\* One notification in drain_events.  A directory that moved or vanished makes
\* its parent dirty; a watch that has ended is taken out of both maps.
Noted(e) ==
    IF e.what = "overflow" THEN [w EXCEPT !.requested = TRUE]
    ELSE IF e.wd \notin DOMAIN w.watches THEN w
    ELSE LET p == w.watches[e.wd]
             mine == p \in DOMAIN w.watched /\ w.watched[p] = e.wd
         IN IF e.what = "ignored"
            THEN [w EXCEPT !.watches = Restrict(@, DOMAIN @ \ {e.wd}),
                           !.watched = Restrict(@, IF mine THEN DOMAIN @ \ {p} ELSE DOMAIN @)]
            ELSE IF e.what = "change" THEN [w EXCEPT !.dirty = @ \cup {p}]
            ELSE IF p = Root THEN w ELSE [w EXCEPT !.dirty = @ \cup {Parent(p)}]

\* The events are read until there are no more.
Drain ==
    /\ pc = "idle"
    /\ IF w.watcher /\ queue # <<>>
       THEN w' = Noted(Head(queue)) /\ queue' = Tail(queue) /\ UNCHANGED pc
       ELSE pc' = "plan" /\ UNCHANGED <<w, queue>>
    /\ UNCHANGED <<disk, kernel, rows, total, todo, flags, mutating, budget, remembered>>

\* invalidated is read and cleared; it asks for a pass if watches do not cover
\* the share.
Requested == w.requested \/ (flags.invalidated /\ flags.polling)

\* advance, after the notifications: time decides which of the next three it is.
Planned ==
    /\ pc = "plan" /\ pc' = "next"
    /\ flags' = [flags EXCEPT !.invalidated = FALSE]
    /\ todo' = NoTask
    /\ UNCHANGED <<shares, rows, total, mutating, remembered>>

\* A pass over the whole share begins, with a watcher if one can be had: the
\* first, the periodic one, or one requested and not too soon after the last.
BeginPass(due) ==
    /\ Planned
    /\ ~w.full /\ (due \/ Requested) /\ (~w.passed => due)
    /\ \E watcher \in BOOLEAN :
          /\ IF watcher THEN UNCHANGED budget ELSE ~w.watcher /\ Trouble
          /\ w' = [w EXCEPT !.full = TRUE, !.requested = FALSE, !.passed = TRUE,
                            !.passIncomplete = FALSE, !.watcher = watcher,
                            !.unwatched = ~watcher,
                            !.reconciling = due /\ ~Requested /\ w.once,
                            !.pending = << <<Root, TRUE>> >>, !.dirty = {}]

\* The share has been quiet for long enough, or noisy for too long: directories
\* that were notified are listed again.
Refresh ==
    /\ Planned
    /\ w.passed /\ w.pending = <<>> /\ w.dirty # {}
    /\ \E s \in SetToSeqs(w.dirty) :
          w' = [w EXCEPT !.requested = Requested, !.dirty = {},
                         !.pending = [i \in DOMAIN s |-> <<s[i], FALSE>>]]
    /\ UNCHANGED budget

\* Neither: whatever is pending goes on.
Resume ==
    /\ Planned
    /\ w.passed
    /\ w' = [w EXCEPT !.requested = Requested]
    /\ UNCHANGED budget

\* The two maps after the kernel has answered wd for p.
Mapped(v, p, wd) ==
    LET old == IF wd \in DOMAIN v.watches /\ v.watches[wd] # p THEN {v.watches[wd]} ELSE {}
        gone == IF p \in DOMAIN v.watched /\ v.watched[p] # wd THEN {v.watched[p]} ELSE {}
        byWd == (DOMAIN v.watches \cup {wd}) \ gone
        byPath == (DOMAIN v.watched \ old) \cup {p}
    IN [v EXCEPT !.watches = [x \in byWd |-> IF x = wd THEN p ELSE v.watches[x]],
                 !.watched = [x \in byPath |-> IF x = p THEN wd ELSE v.watched[x]]]

\* The next directory is taken and watched, before it is listed.
WatchNext ==
    LET p == w.pending[1][1]
        i == At(p)
        rest == [w EXCEPT !.pending = Tail(@)]
        room == p \in DOMAIN w.watched \/ Cardinality(DOMAIN w.watched) < w.allowance
    IN
    /\ pc = "next" /\ w.pending # <<>> /\ pc' = "list"
    /\ todo' = [todo EXCEPT !.path = p, !.recursive = w.pending[1][2]]
    /\ IF w.watcher /\ room /\ IsFolder(i)
       THEN kernel' = kernel \cup {i} /\ w' = Mapped(rest, p, i)
       ELSE w' = [rest EXCEPT !.unwatched = TRUE] /\ UNCHANGED kernel
    /\ UNCHANGED <<disk, queue, rows, total, flags, mutating, budget, remembered>>

\* After a directory the slice may be over.
Onwards == pc' \in {"next", "finish"}

\* A recursive listing leads to p by one of its directories.
Leads(listing, p) ==
    LET n == p[Len(todo.path) + 1] IN n \in DOMAIN listing /\ listing[n].kind = "directory"

\* Those of ps that the worker was to come to by this listing and will not.
Unreached(ps, listing) ==
    {p \in ps : p = todo.path \/ (todo.recursive /\ Below(p, todo.path) /\ ~Leads(listing, p))}

\* The directory has been looked for: here is what was found.
Looked(listing, found) ==
    /\ owed' = owed \ Unreached(owed, listing)
    /\ tracked' = (tracked \ Unreached(tracked, listing)) \cup found

\* A directory that is gone is skipped; one that cannot be read is a hit.
List ==
    LET p == todo.path
        i == At(p)
    IN
    /\ pc = "list"
    /\ \/ /\ IsFolder(i)
          /\ todo' = [todo EXCEPT !.listing = Listing(i)]
          /\ pc' = "reconcile"
          /\ Looked(Listing(i), IF i \in DOMAIN w.watches /\ w.watches[i] = p THEN {p} ELSE {})
          /\ UNCHANGED budget
       \/ ~IsFolder(i) /\ Onwards /\ Looked(Nothing, {}) /\ UNCHANGED <<todo, budget>>
       \/ /\ IsFolder(i) /\ Trouble
          /\ todo' = [todo EXCEPT !.hit = TRUE]
          /\ Onwards /\ UNCHANGED <<owed, tracked>>
    /\ UNCHANGED <<shares, rows, total, w, flags, mutating, dropped>>

\* One entry of the listing: inserted if there is room, updated, or left.  A
\* directory to descend into is queued while there is room.
Reconciled(s, n) ==
    LET q == Append(todo.path, n)
        e == todo.listing[n]
        known == q \in DOMAIN s.rows
        IsNew == ~known \/ s.rows[q].kind # e.kind
        lost == {x \in DOMAIN s.rows :
                    known /\ IsNew /\ s.rows[q].kind = "directory" /\ Below(x, q)}
        descend == e.kind = "directory" /\ (todo.recursive \/ IsNew)
        room == Len(s.pending) < MaxPending
    IN IF Len(q) > MaxDepth \/ (~known /\ s.count >= MaxEntries) THEN [s EXCEPT !.hit = TRUE]
       ELSE [rows |-> [x \in (DOMAIN s.rows \ lost) \cup {q} |-> IF x = q THEN e ELSE s.rows[x]],
             count |-> s.count - Cardinality(lost) + (IF known THEN 0 ELSE 1),
             pending |-> IF descend /\ room THEN Append(s.pending, <<q, TRUE>>) ELSE s.pending,
             hit |-> s.hit \/ (descend /\ ~room)]

\* The entries in some order.
Draft ==
    LET names == SetToSeq(DOMAIN todo.listing)
        draft[k \in 0 .. Len(names)] ==
            IF k = 0 THEN [rows |-> rows, count |-> total, pending |-> w.pending, hit |-> todo.hit]
            ELSE Reconciled(draft[k - 1], names[k])
    IN draft[Len(names)]

\* Then the names that have vanished, with everything below a directory.
Vanished == {q \in DOMAIN rows : \E n \in Names \ DOMAIN todo.listing : q = Append(todo.path, n)}
Remaining(s) ==
    {q \in DOMAIN s.rows :
        ~\E g \in Vanished : q = g \/ (rows[g].kind = "directory" /\ Below(q, g))}

\* One transaction under the writer's lock.
Reconcile ==
    /\ pc = "reconcile"
    /\ \E s \in {Draft} :
          /\ rows' = Restrict(s.rows, Remaining(s))
          /\ total' = s.count - Cardinality(DOMAIN s.rows \ Remaining(s))
          /\ w' = [w EXCEPT !.pending = s.pending]
          /\ todo' = [todo EXCEPT !.hit = s.hit, !.listing = Nothing]
    /\ dropped' = dropped \ {Append(todo.path, n) : n \in Names}
    /\ Onwards
    /\ UNCHANGED <<shares, flags, mutating, budget, owed, tracked>>

\* The pass is abandoned, and the rows are counted again.
Abandon ==
    /\ w' = [w EXCEPT !.pending = <<>>, !.full = FALSE, !.reconciling = FALSE,
                      !.once = TRUE, !.incomplete = TRUE]
    /\ total' = Cardinality(DOMAIN rows)

\* The transaction fails, and with it the step.
ReconcileFails ==
    /\ pc = "reconcile" /\ Trouble
    /\ Abandon
    /\ flags' = [flags EXCEPT !.complete = FALSE]
    /\ todo' = [NoTask EXCEPT !.invalidated = flags.invalidated]
    /\ pc' = "store"
    /\ UNCHANGED <<shares, rows, mutating, remembered>>

\* Mutant: what earlier slices of the pass met is forgotten.
PassEndsForgetful == [w EXCEPT !.full = FALSE, !.reconciling = FALSE, !.once = TRUE,
                               !.incomplete = todo.hit]

\* The worker's state when the last directory of a full pass has been listed.
PassEnds == [w EXCEPT !.full = FALSE, !.reconciling = FALSE, !.once = TRUE,
                      !.incomplete = w.passIncomplete \/ todo.hit]

\* The end of the slice; the checkpoint after a pass may fail, and does so after
\* polling was set.  invalidated is then read for the flag stored next.
EndSlice ==
    LET ends == w.full /\ w.pending = <<>>
        done == IF ~w.full THEN [w EXCEPT !.incomplete = @ \/ todo.hit]
                ELSE IF ends THEN PassEnds
                ELSE [w EXCEPT !.passIncomplete = @ \/ todo.hit]
        polling == IF ends THEN w.unwatched ELSE flags.polling
    IN
    /\ pc = "finish" \/ (pc = "next" /\ w.pending = <<>>)
    /\ \/ /\ w' = done
          /\ flags' = [flags EXCEPT !.polling = polling, !.complete = done.once /\ ~done.incomplete]
          /\ UNCHANGED <<total, budget>>
       \/ /\ ends /\ Trouble
          /\ Abandon
          /\ flags' = [flags EXCEPT !.polling = polling, !.complete = FALSE]
    /\ owed' = IF polling THEN owed ELSE {}
    /\ todo' = [NoTask EXCEPT !.invalidated = flags.invalidated]
    /\ pc' = "store"
    /\ UNCHANGED <<shares, rows, mutating, dropped, tracked>>

\* What a search is told meanwhile; the periodic check is not reported.
Reports == ~w.once \/ (w.pending # <<>> /\ ~w.reconciling) \/ w.dirty # {} \/ w.requested
           \/ todo.invalidated

Store ==
    /\ pc = "store" /\ pc' = "idle"
    /\ flags' = [flags EXCEPT !.indexing = Reports]
    /\ todo' = NoTask
    /\ UNCHANGED <<shares, rows, total, w, mutating, budget, remembered>>

\* The server stops and starts again: the rows stay, unless their layout or the
\* root of the share is not the one they were written for.
Reopen ==
    /\ Trouble
    /\ rows' \in {rows, Nothing} /\ total' = Cardinality(DOMAIN rows')
    /\ w' = NoWork(w.allowance) /\ pc' = "idle" /\ todo' = NoTask /\ flags' = NewFlags
    /\ kernel' = {} /\ queue' = <<>> /\ mutating' = <<>>
    /\ UNCHANGED <<disk, remembered>>

Worker == Drain \/ (\E due \in BOOLEAN : BeginPass(due)) \/ Refresh \/ Resume \/ WatchNext \/ List
          \/ Reconcile \/ ReconcileFails \/ EndSlice \/ Store

Change ==
    \/ \E p \in Touched, ours \in BOOLEAN :
          \/ \E kind \in EntryKinds : Create(p, kind, ours)
          \/ WriteFile(p, ours)
          \/ ~ours /\ WriteSilently(p)
          \/ \E forget \in BOOLEAN : TakeAway(p, ours, forget)
          \/ \E q \in Targets : Move(p, q, ours)
    \/ \E p \in Touched : RemoveDirectory(p)

IndexNext == Worker \/ Change \/ EndMutation \/ Reopen

\* The worker always has a next step and takes it, a mutation comes to its end,
\* and time passes: the periodic pass is due again and again.
Advances == pc' \in Phases
IndexFairness == WF_pc(Advances) /\ WF_mutating(EndMutation) /\ SF_index(BeginPass(TRUE))

IndexSpec == IndexInit /\ [][IndexNext]_index
IndexFairSpec == IndexSpec /\ IndexFairness

-----------------------------------------------------------------------------

\* Writer::total, from which the bound on entries is enforced, is the number of
\* rows, through transactions that fail, restarts and paths that are forgotten
\* while the worker is in the middle of a listing; so the bound holds.
TotalIsExact == total = Cardinality(DOMAIN rows) /\ total <= MaxEntries

\* The two maps of the watcher are inverse to each other, although directories
\* move, vanish, and come back under the same name with another inode.
MapsAgree ==
    /\ \A p \in DOMAIN w.watched : w.watched[p] \in DOMAIN w.watches /\ w.watches[w.watched[p]] = p
    /\ \A i \in DOMAIN w.watches : w.watches[i] \in DOMAIN w.watched /\ w.watched[w.watches[i]] = i
    /\ Cardinality(DOMAIN w.watched) <= w.allowance

\* What may be said of each name of the directory i: what it is, and also, since a silent
\* write is announced by nothing, what it was at any time since its last announcement.
Now(i) == [n \in DOMAIN Listing(i) |-> {Listing(i)[n]}]
Since(i) == [n \in DOMAIN Listing(i) |->
    LET e == disk[Resolved(i, n)] IN [kind : {e.kind}, stamp : e.told .. e.stamp]]

\* The rows of p are not that; what forget took away does not count, since it may have
\* been put back meanwhile.
Unlike(p, said) == \E n \in Names :
    LET q == Append(p, n)
        there == n \in DOMAIN said
    IN q \notin dropped /\ IF there /\ q \in DOMAIN rows THEN rows[q] \notin said[n]
                           ELSE there \/ q \in DOMAIN rows
Differs(p, i) == Unlike(p, Since(i))
Stale(p) == Unlike(p, Now(At(p)))

\* A listing says of each name what may be said of it.
Fits(listing, said) ==
    DOMAIN listing = DOMAIN said /\ \A n \in DOMAIN said : listing[n] \in said[n]

\* A directory that the index knows; a new one is descended into anyway.
Known(p) == p = Root \/ (p \in DOMAIN rows /\ rows[p].kind = "directory")

\* An event that names the directory i is on its way to the worker.
Announced(i) == \E k \in DOMAIN queue :
    queue[k].what = "overflow" \/ (queue[k].what = "change" /\ queue[k].wd = i)

\* Work that will look for p again, and what else may be why its rows are behind.
Awaited(p) ==
    \/ \E k \in DOMAIN w.pending :
          w.pending[k][1] = p \/ (w.pending[k][2] /\ Below(p, w.pending[k][1]))
    \/ pc = "list" /\ (todo.path = p \/ (todo.recursive /\ Below(p, todo.path)))
    \/ pc = "reconcile" /\ todo.recursive /\ Below(p, todo.path) /\ Leads(todo.listing, p)
    \/ p \in w.dirty \/ w.requested \/ ~w.passed
Arriving(p, i) == pc = "reconcile" /\ todo.path = p /\ Fits(todo.listing, Since(i))
BoundMet == todo.hit \/ (IF w.full THEN w.passIncomplete ELSE w.incomplete)

\* No change to a watched directory that is announced is missed: when its rows are out of
\* date, a notification is on its way, or a listing is pending or to be stored, or a bound
\* was met.  Of a file that was written silently the row may be as old as the last
\* announcement, no older.  A directory that was elsewhere when the worker came to it is
\* not tracked.
Behind(p, i) == i \in kernel /\ p \in tracked /\ Known(p) /\ Differs(p, i)
ChangesAreSeen == \A i \in DOMAIN w.watches :
    Behind(w.watches[i], i) =>
        Announced(i) \/ Awaited(w.watches[i]) \/ Arriving(w.watches[i], i) \/ BoundMet

\* Nor is a mutation that ends while watches do not cover the share: the pass
\* that it asks for is not lost when one is running already.
MutationsAreSeen == \A p \in owed : Awaited(p) \/ BoundMet \/ flags.invalidated

\* When the share has come to rest, the rows of every directory are its listing,
\* or the index says that it is incomplete.
Converges == <>[](\A p \in Paths : IsDir(p) /\ Stale(p) => ~flags.complete)

\* And searches stop reporting that indexing goes on, although the periodic
\* pass comes again and again.
Settles == <>[](~flags.indexing)

\* What the index knows is right or known to be old: its total and its two maps of
\* descriptors agree with its rows and with each other, and a change that it does not have
\* is one that an event, a pass or a request is still to bring (search.rs, run_share).
IndexSound == IndexTypeOK /\ TotalIsExact /\ MapsAgree /\ ChangesAreSeen /\ MutationsAreSeen

\* Once the share is left alone, the index comes to what it holds and the server says so
\* no longer than it takes (search.rs, run_share and its report of progress).
CatchesUp == Converges /\ Settles
=============================================================================
