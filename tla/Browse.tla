------------------------------- MODULE Browse -------------------------------
(***************************************************************************)
(* Reading a share that changes (src/browse.rs, src/folder_sizes.rs):      *)
(* folder sizes, walked and cached; the event streams that watch a         *)
(* directory; listings read page by page.                                  *)
(*                                                                         *)
(* A path is a sequence of numbers, the order of which is that of the      *)
(* names.  Folders stay where they are; files come, go, grow and move.     *)
(* Times count in units of the event stream's poll.                        *)
(***************************************************************************)
EXTENDS Integers, FiniteSets, Sequences, SequencesExt, FiniteSetsExt

CONSTANTS
    Folders,        \* the folders of the share, its root <<>> among them
    Files,          \* bound: where files can be
    Start,          \* the files at the start
    Sizes,          \* bound: sizes of files
    Walkers,        \* requests for a folder's size
    Watched,        \* the folder of the event stream
    Listed,         \* the folder that is listed
    Unlisted,       \* its entries that no listing shows: links, internal names
    Hidden,         \* the names that begin with a dot
    Mixes,          \* bound: what is at work (walkers, stream, list), the folders
                    \* whose size is asked, how often the share changes and how
                    \* far the clock goes
    Ttl,            \* FOLDER_SIZE_TTL
    Capacity,       \* MAX_CACHED_FOLDER_SIZES
    Slots,          \* MAX_CONCURRENT_FOLDER_SIZES
    PageSize,       \* limit of a page
    MaxEntries,     \* max_directory_entries
    MaxNames,       \* MAX_EVENT_NAMES
    MaxQueue,       \* bound: events that the kernel holds
    Lifetime,       \* EVENT_STREAM_LIFETIME
    Interval        \* EVENT_SESSION_CHECK_INTERVAL

ASSUME BrowseAssumption ==
    /\ <<>> \in Folders /\ {Watched, Listed} \subseteq Folders /\ Start \subseteq Files
    /\ \A p \in (Files \cup Folders) \ {<<>>} : SubSeq(p, 1, Len(p) - 1) \in Folders
    /\ Unlisted \cap (Files \cup Folders) = {}
    /\ Files \cap Folders = {} /\ Files \cup Folders \subseteq Seq(Nat)
    /\ IsFiniteSet(Files) /\ IsFiniteSet(Walkers) /\ Sizes \subseteq Nat
    /\ {Ttl, Capacity, Slots, PageSize, MaxEntries, MaxNames, MaxQueue, Lifetime, Interval}
          \subseteq Nat
    /\ Mixes \subseteq [walkers : SUBSET Walkers, asked : SUBSET Folders, stream : BOOLEAN,
                        list : BOOLEAN, changes : Nat, time : Nat]
    /\ Capacity > 0 /\ MaxQueue > 0 /\ Interval > 0 /\ PageSize \in 1 .. MaxEntries

VARIABLES
    mix,        \* which requests are at work
    now,        \* the monotonic clock
    disk,       \* the files: size, inode, and whether it has grown since it was last closed
    changes,    \* changes so far
    owing,      \* mutations that changed the share and have not yet invalidated
    cache,      \* FolderSizeCache: entries
    gen,        \* FolderSizeCache: generation
    walk,       \* requests for a folder's size
    stream,     \* the event stream
    signedOut,  \* when the stream's session ended, -1 while it is active
    page        \* the client that reads a listing

vars == <<mix, now, disk, changes, owing, cache, gen, walk, stream, signedOut, page>>

Parent(p) == SubSeq(p, 1, Len(p) - 1)
Name(p) == p[Len(p)]
Beneath(p) == {f \in Files : IsPrefix(p, f)}
Only(f, S) == [x \in S |-> f[x]]
With(f, x, v) == [y \in DOMAIN f \cup {x} |-> IF y = x THEN v ELSE f[y]]
SizeAt(d, f) == IF f \in DOMAIN d THEN d[f].size ELSE 0
Actual(p) == SumFunction([f \in Beneath(p) |-> SizeAt(disk, f)])

Listening == {"open", "awake", "check", "answer", "read"}
NoWalk == [pc |-> "idle", path |-> <<>>, left |-> {}, bytes |-> 0, complete |-> TRUE,
           started |-> 0, waited |-> TRUE, excused |-> FALSE]
NoStream == [pc |-> "new", deadline |-> 0, nextCheck |-> 0, queue |-> <<>>,
               active |-> TRUE, looked |-> 0, opened |-> 0, took |-> 0, judged |-> -1, sent |-> -1]
NoPage == [pc |-> "idle", left |-> {}, scanned |-> 0, got |-> {}, cursor |-> <<>>, pages |-> <<>>,
           hidden |-> TRUE, stable |-> {}]

Init ==
    /\ mix \in Mixes
    /\ now = 0
    /\ disk = [f \in Start |-> [size |-> 1, id |-> Len(f) * 10 + Name(f), open |-> FALSE]]
    /\ changes = 0 /\ owing = 0
    /\ cache = [p \in {} |-> NoWalk] /\ gen = 0
    /\ walk = [r \in Walkers |-> NoWalk]
    /\ stream = NoStream /\ signedOut = -1
    /\ page = NoPage

-----------------------------------------------------------------------------
(* FolderSizeCache                                                          *)

Fresh(p) == p \in DOMAIN cache /\ now - cache[p].stored < Ttl

\* The entries that a lookup leaves: one that is past its time is removed.
Looked(p) == IF p \in DOMAIN cache /\ ~Fresh(p) THEN Only(cache, DOMAIN cache \ {p}) ELSE cache

\* At the capacity the expired entries go, and if that is not enough the oldest.
Room(p) ==
    IF p \in DOMAIN cache \/ Cardinality(DOMAIN cache) < Capacity THEN {cache}
    ELSE LET kept == {q \in DOMAIN cache : Fresh(q)} IN
         IF Cardinality(kept) < Capacity THEN {Only(cache, kept)}
         ELSE {Only(cache, kept \ {q}) : q \in {q \in kept :
                  \A o \in kept : cache[q].stored <= cache[o].stored}}

Stored(s) == [bytes |-> s.bytes, complete |-> s.complete, stored |-> now, excused |-> s.excused]

\* Mutant: the result of a walk is stored whatever happened since it began.
InsertAlways(s) == \E room \in Room(s.path) : cache' = With(room, s.path, Stored(s))

Insert(s) ==
    IF gen # s.started THEN UNCHANGED cache
    ELSE \E room \in Room(s.path) : cache' = With(room, s.path, Stored(s))

\* What is left after the paths have been invalidated: nothing that contains
\* one of them or lies beneath one.
Invalidated(paths) ==
    Only(cache, {p \in DOMAIN cache :
            ~\E q \in paths : IsPrefix(p, q) \/ IsPrefix(q, p)})

-----------------------------------------------------------------------------
(* The share changes                                                        *)

\* Changes reach the stream that watches the folder; no one reports the others,
\* and the sizes that they concern are excused from being right.
Reported(f) == stream.pc \in Listening /\ Parent(f) = Watched

Queued(q, e) == IF Len(q) < MaxQueue - 1 THEN Append(q, e)
                ELSE IF Len(q) = MaxQueue - 1 THEN Append(q, 0) ELSE q

Told(q, f) == IF Reported(f) THEN Queued(q, Name(f)) ELSE q
Notified(f, g) == [stream EXCEPT !.queue = IF f = g THEN Told(@, f) ELSE Told(Told(@, f), g)]

Excuse(fs) ==
    /\ cache' = [p \in DOMAIN cache |-> [cache[p] EXCEPT !.excused =
                    @ \/ \E f \in fs : IsPrefix(p, f)]]
    /\ walk' = [r \in Walkers |-> [walk[r] EXCEPT !.excused =
                    @ \/ (walk[r].pc # "idle" /\ \E f \in fs : IsPrefix(walk[r].path, f))]]

\* The file at f changes, and the one at g where f moved to, through Crabinet or from
\* outside.  A listing that is under way can no longer promise them, and may come to
\* the name of a new entry, also when it has read that name already.
Change(d, f, g, ours) ==
    /\ changes < mix.changes /\ changes' = changes + 1
    /\ disk' = d
    /\ stream' = Notified(f, g)
    /\ IF ours THEN owing' = owing + 1 /\ UNCHANGED <<cache, walk>>
       ELSE Excuse({x \in {f, g} : ~Reported(x)}) /\ UNCHANGED owing
    /\ \E new \in SUBSET {p \in {g} \cap DOMAIN d : page.pc = "scan" /\ Parent(p) = Listed} :
          page' = [page EXCEPT !.stable = {e \in @ : e.path \notin {f, g}}, !.left = @ \cup new]
    /\ UNCHANGED <<mix, now, gen, signedOut>>

Write(f, n, ours) ==
    /\ SizeAt(disk, f) # n
    /\ Change(With(disk, f, [size |-> n, id |-> 100 + changes, open |-> FALSE]), f, f, ours)

Delete(f, ours) ==
    /\ f \in DOMAIN disk
    /\ Change(Only(disk, DOMAIN disk \ {f}), f, f, ours)

Rename(f, g, ours) ==
    /\ f \in DOMAIN disk /\ f # g
    /\ Change(With(Only(disk, DOMAIN disk \ {f}), g, disk[f]), f, g, ours)

\* Somebody writes to a file through a handle: the watch tells nobody until it is closed.
Grow(f, n) ==
    /\ f \in DOMAIN disk /\ disk[f].size # n
    /\ changes < mix.changes /\ changes' = changes + 1
    /\ disk' = [disk EXCEPT ![f].size = n, ![f].open = TRUE]
    /\ UNCHANGED <<mix, now, owing, cache, gen, walk, stream, signedOut, page>>

Close(f) ==
    /\ f \in DOMAIN disk /\ disk[f].open
    /\ disk' = [disk EXCEPT ![f].open = FALSE]
    /\ stream' = Notified(f, f)
    /\ Excuse({x \in {f} : ~Reported(x)})
    /\ UNCHANGED <<mix, now, changes, owing, gen, signedOut, page>>

\* A file that is truncated by its name or written through a mapping is not even closed.
Truncate(f, n) ==
    /\ f \in DOMAIN disk /\ disk[f].size # n
    /\ changes < mix.changes /\ changes' = changes + 1
    /\ disk' = [disk EXCEPT ![f].size = n]
    /\ Excuse({f})
    /\ UNCHANGED <<mix, now, owing, gen, stream, signedOut, page>>

\* audited: the mutation that succeeded forgets every size of the share.
EndMutation ==
    /\ owing > 0 /\ owing' = owing - 1
    /\ cache' = Invalidated({<<>>}) /\ gen' = gen + 1
    /\ UNCHANGED <<mix, now, disk, changes, walk, stream, signedOut, page>>

\* The client left after the commit: the request is dropped, and nothing that it
\* changed is forgotten.
CutMutation ==
    /\ owing > 0 /\ owing' = owing - 1
    /\ Excuse(Files)
    /\ UNCHANGED <<mix, now, disk, changes, gen, stream, signedOut, page>>

Tick ==
    /\ now < mix.time /\ now' = now + 1
    /\ UNCHANGED <<mix, disk, changes, owing, cache, gen, walk, stream, signedOut, page>>

-----------------------------------------------------------------------------
(* folder_size                                                              *)

InWalk == {r \in Walkers : walk[r].pc \in {"begin", "walk"}}
UNCHANGEDbutSizes == UNCHANGED <<mix, now, disk, changes, owing, gen, stream, signedOut, page>>

\* The cache answers, or the request takes a slot, or it is refused.
AskSize(r, p) ==
    /\ r \in mix.walkers /\ walk[r].pc = "idle"
    /\ cache' = Looked(p)
    /\ IF Fresh(p) \/ Cardinality(InWalk) >= Slots THEN UNCHANGED walk
       ELSE walk' = [walk EXCEPT ![r] = [NoWalk EXCEPT !.pc = "begin", !.path = p]]
    /\ UNCHANGEDbutSizes

BeginWalk(r) ==
    /\ walk[r].pc = "begin"
    /\ walk' = [walk EXCEPT ![r].pc = "walk", ![r].started = gen, ![r].left = Beneath(walk[r].path),
                            ![r].excused = FALSE]
    /\ UNCHANGED cache /\ UNCHANGEDbutSizes

\* The walk comes to one more name, and adds the file that is there now.
Visit(r, f) ==
    /\ walk[r].pc = "walk" /\ f \in walk[r].left
    /\ walk' = [walk EXCEPT ![r].left = @ \ {f}, ![r].bytes = @ + SizeAt(disk, f)]
    /\ UNCHANGED cache /\ UNCHANGEDbutSizes

\* A folder beneath cannot be read or is too deep: it is passed over.
PassOver(r, p) ==
    /\ walk[r].pc = "walk" /\ p # walk[r].path
    /\ Beneath(p) # {} /\ Beneath(p) \subseteq walk[r].left
    /\ walk' = [walk EXCEPT ![r].left = @ \ Beneath(p), ![r].complete = FALSE]
    /\ UNCHANGED cache /\ UNCHANGEDbutSizes

\* The budget of entries or of time is spent.
SpendBudget(r) ==
    /\ walk[r].pc = "walk" /\ walk[r].left # {}
    /\ walk' = [walk EXCEPT ![r].left = {}, ![r].complete = FALSE]
    /\ UNCHANGED cache /\ UNCHANGEDbutSizes

\* The client goes away: the walk goes on, with its slot, and nobody stores it.
CutWalk(r) ==
    /\ walk[r].pc \in {"begin", "walk", "store"} /\ walk[r].waited
    /\ walk' = [walk EXCEPT ![r] = IF @.pc = "walk" THEN [@ EXCEPT !.waited = FALSE] ELSE NoWalk]
    /\ UNCHANGED cache /\ UNCHANGEDbutSizes

\* The walk returns, which gives the slot back, and only then stores.
EndWalk(r) ==
    /\ walk[r].pc = "walk" /\ walk[r].left = {}
    /\ walk' = [walk EXCEPT ![r] = IF @.waited THEN [@ EXCEPT !.pc = "store"] ELSE NoWalk]
    /\ UNCHANGED cache /\ UNCHANGEDbutSizes

StoreSize(r) ==
    /\ walk[r].pc = "store"
    /\ Insert(walk[r])
    /\ walk' = [walk EXCEPT ![r] = NoWalk]
    /\ UNCHANGEDbutSizes

SizeRequest ==
    \E r \in Walkers :
        \/ \E p \in mix.asked : AskSize(r, p)
        \/ \E p \in Folders : PassOver(r, p)
        \/ BeginWalk(r) \/ SpendBudget(r) \/ CutWalk(r) \/ EndWalk(r) \/ StoreSize(r)
        \/ \E f \in Files : Visit(r, f)

-----------------------------------------------------------------------------
(* directory_events                                                         *)

\* Unread events are lost with the stream, and the changes are reported by nobody.
CloseStream ==
    /\ stream' = [stream EXCEPT !.pc = "closed", !.queue = <<>>]
    /\ Excuse(IF stream.queue = <<>> THEN {} ELSE {f \in Files : Parent(f) = Watched})
    /\ UNCHANGED gen

OpenStream ==
    /\ mix.stream /\ stream.pc = "new" /\ signedOut = -1
    /\ stream' = [NoStream EXCEPT !.pc = "opening"]
    /\ UNCHANGED <<cache, gen, walk>>

\* The directory is opened on a blocking thread: the session was checked before.
WatchDirectory ==
    /\ stream.pc = "opening"
    /\ \/ stream' = [NoStream EXCEPT !.pc = "open", !.deadline = now + Lifetime,
                                     !.nextCheck = now + Interval, !.opened = now]
          /\ UNCHANGED <<cache, gen, walk>>
       \/ CloseStream

Sleep ==
    /\ stream.pc = "open"
    /\ IF now >= stream.deadline THEN CloseStream
       ELSE stream' = [stream EXCEPT !.pc = "awake"] /\ UNCHANGED <<cache, gen, walk>>

\* read_changes: up to MaxNames events, and then one that stands for the whole
\* directory, of what is left in the buffer or comes with the next poll.
Drained(q) == IF Len(q) < MaxNames THEN q ELSE Append(SubSeq(q, 1, MaxNames), 0)
Remainders(q) == IF Len(q) < MaxNames THEN {<<>>}
                 ELSE {SubSeq(q, n, Len(q)) : n \in MaxNames + 1 .. Len(q) + 1}
WhereOf(name) == IF name = 0 THEN Watched ELSE Append(Watched, name)

InvalidateAll(names) ==
    /\ cache' = Invalidated({WhereOf(n) : n \in names})
    /\ gen' = gen + Cardinality(names)
    /\ UNCHANGED walk

\* What is there is read in one go, once the poll has been let through.
Read ==
    LET sent == [stream EXCEPT !.pc = "open", !.sent = stream.judged] IN
    /\ stream.pc = "read"
    /\ \/ stream.queue = <<>>
          /\ stream' = [stream EXCEPT !.pc = "open"]
          /\ UNCHANGED <<cache, gen, walk>>
       \/ stream.queue # <<>>
          /\ \E rest \in Remainders(stream.queue) : stream' = [sent EXCEPT !.queue = rest]
          /\ InvalidateAll(Range(Drained(stream.queue)))
       \/ stream' = [sent EXCEPT !.queue = <<>>, !.deadline = now]    \* the read fails
          /\ InvalidateAll({0})

\* Mutant: the events are read before the session is looked at.
PollReadsFirst ==
    /\ stream.pc = "awake"
    /\ stream' = [stream EXCEPT !.pc = "read", !.judged = now]
    /\ UNCHANGED <<cache, gen, walk>>

\* The session is due to be looked at, or the poll goes on.
Poll ==
    /\ stream.pc = "awake"
    /\ stream' = IF now < stream.nextCheck THEN [stream EXCEPT !.pc = "read", !.judged = now]
                 ELSE [stream EXCEPT !.pc = "check"]
    /\ UNCHANGED <<cache, gen, walk>>

\* session_is_active: the database is asked, and may fail, which counts as no;
LookUp ==
    /\ stream.pc = "check"
    /\ \E answers \in BOOLEAN :
          stream' = [stream EXCEPT !.pc = "answer", !.looked = now,
                                   !.active = answers /\ signedOut = -1]
    /\ UNCHANGED <<cache, gen, walk>>

\* its answer comes later, when the session may have ended; the next check counts from then.
Answered ==
    /\ stream.pc = "answer"
    /\ IF ~stream.active THEN CloseStream
       ELSE /\ stream' = [stream EXCEPT !.pc = "read", !.judged = now, !.nextCheck = now + Interval,
                                        !.took = now - stream.looked]
            /\ UNCHANGED <<cache, gen, walk>>

\* The client closes the connection.
DropStream == stream.pc \in {"opening", "open", "awake", "check", "answer"} /\ CloseStream

EventStream ==
    /\ OpenStream \/ WatchDirectory \/ Sleep \/ Poll \/ LookUp \/ Answered \/ Read \/ DropStream
    /\ UNCHANGED <<mix, now, disk, changes, owing, signedOut, page>>

SignOut ==
    /\ mix.stream /\ signedOut = -1 /\ signedOut' = now
    /\ UNCHANGED <<mix, now, disk, changes, owing, cache, gen, walk, stream, page>>

-----------------------------------------------------------------------------
(* list_directory                                                           *)

Children == {p \in Files \cup Folders : p # <<>> /\ Parent(p) = Listed}
EntriesAt(p) ==
    IF p \in Folders THEN {[kind |-> 0, path |-> p, id |-> Name(p)]}
    ELSE IF p \in DOMAIN disk THEN {[kind |-> 1, path |-> p, id |-> disk[p].id]} ELSE {}
Visible(es, hidden) == {e \in es : hidden \/ Name(e.path) \notin Hidden}

\* Folders before files, by name, and a name that was read twice in the order in which
\* it was read.  Size and date are no part of an entry here, as they are no part of the
\* fingerprint: that is the sequence itself.
Before(d, e) ==
    \/ d.kind < e.kind
    \/ d.kind = e.kind /\ Name(d.path) < Name(e.path)
    \/ d.kind = e.kind /\ d.path = e.path /\ d.at < e.at
Sorted(es) == CHOOSE s \in SetToSeqs(es) : \A i, j \in DOMAIN s : i < j => Before(s[i], s[j])
Plain(e) == [kind |-> e.kind, path |-> e.path, id |-> e.id]
Ordered(es) == [i \in DOMAIN Sorted(es) |-> Plain(Sorted(es)[i])]

AskPage(hidden) ==
    /\ mix.list /\ page.pc \in {"idle", "more"}
    /\ page' = [page EXCEPT !.pc = "scan", !.scanned = 0, !.got = {}, !.hidden = hidden,
                  !.left = {p \in Children : EntriesAt(p) # {}} \cup Unlisted,
                  !.stable = IF page.pc = "more" THEN @
                             ELSE Visible(UNION {EntriesAt(p) : p \in Children}, hidden)]
    /\ UNCHANGED cache

\* list_bounded: one more name of the directory is read, which counts whether or not
\* there is still an entry for it that a listing shows.
Scan(p) ==
    /\ page.pc = "scan" /\ p \in page.left
    /\ page' = IF page.scanned = MaxEntries THEN NoPage
               ELSE [page EXCEPT !.left = @ \ {p}, !.scanned = @ + 1,
                       !.got = @ \cup {[kind |-> e.kind, path |-> e.path, id |-> e.id,
                                        at |-> page.scanned] : e \in EntriesAt(p)}]
    /\ UNCHANGED cache

\* A name that has gone is not read at all.
Miss(p) ==
    /\ page.pc = "scan" /\ p \in page.left \cap Children /\ EntriesAt(p) = {}
    /\ page' = [page EXCEPT !.left = @ \ {p}]
    /\ UNCHANGED cache

\* decode_cursor: how many entries to skip, or -1 for a conflict.
\* Mutant: the cursor holds for a directory that has changed.
DecodeLoosely(listing, cursor) == IF cursor = <<>> THEN 0 ELSE cursor[1].offset

Decode(listing, cursor) ==
    IF cursor = <<>> THEN 0
    ELSE IF cursor[1].fingerprint # listing \/ cursor[1].offset > Len(listing) THEN -1
    ELSE cursor[1].offset

\* The page goes out with the sizes that the cache holds for its folders.
AnswerPage ==
    /\ page.pc = "scan" /\ page.left = {}
    /\ LET listing == Ordered(Visible(page.got, page.hidden))
           offset == Decode(listing, page.cursor)
           end == IF offset + PageSize > Len(listing) THEN Len(listing) ELSE offset + PageSize
           part == SubSeq(listing, offset + 1, end)
       IN IF offset = -1 THEN page' = NoPage /\ UNCHANGED cache
          ELSE /\ page' = [page EXCEPT !.pages = @ \o part, !.got = {},
                             !.pc = IF end < Len(listing) THEN "more" ELSE "done",
                             !.cursor = <<[offset |-> end, fingerprint |-> listing]>>]
               /\ cache' = Only(cache, {p \in DOMAIN cache :
                              Fresh(p) \/ ~\E i \in DOMAIN part : part[i].path = p})

ForgetPage == page.pc \in {"more", "done"} /\ page' = NoPage /\ UNCHANGED cache

Listing ==
    /\ \/ \E hidden \in BOOLEAN : AskPage(hidden)
       \/ \E p \in Children \cup Unlisted : Scan(p) \/ Miss(p)
       \/ AnswerPage \/ ForgetPage
    /\ UNCHANGED <<mix, now, disk, changes, owing, gen, walk, stream, signedOut>>

-----------------------------------------------------------------------------

Changing ==
    \/ \E f \in Files, ours \in BOOLEAN :
          \/ \E n \in Sizes : Write(f, n, ours)
          \/ Delete(f, ours)
          \/ \E g \in Files : Rename(f, g, ours)
    \/ \E f \in Files : Close(f) \/ \E n \in Sizes : Grow(f, n) \/ Truncate(f, n)

Next == Changing \/ EndMutation \/ CutMutation \/ Tick \/ SizeRequest \/ EventStream \/ SignOut \/ Listing

Spec == Init /\ [][Next]_vars

-----------------------------------------------------------------------------
(* Properties                                                               *)

TypeOK ==
    /\ DOMAIN disk \subseteq Files /\ owing \in 0 .. changes
    /\ DOMAIN cache \subseteq Folders
    /\ \A p \in DOMAIN cache : cache[p].stored \in 0 .. now
    /\ \A r \in Walkers : walk[r].started \in 0 .. gen
    /\ stream.nextCheck <= now + Interval /\ Len(stream.queue) <= MaxQueue
    /\ signedOut \in -1 .. now

\* A size that the cache holds is the size of the folder as it is now (or at most
\* that, when the walk was not complete), unless a mutation is yet to invalidate,
\* the stream that watches the folder has yet to read an event, a file beneath is open and
\* has grown, or the change was made from outside where nothing reports it.  A walk that a change overtook is
\* never stored past the change's invalidation (folder_sizes.rs, insert).
SizesAreRight ==
    \A p \in DOMAIN cache :
        \/ owing > 0
        \/ stream.queue # <<>> /\ IsPrefix(p, Watched)
        \/ cache[p].excused
        \/ \E f \in DOMAIN disk : disk[f].open /\ IsPrefix(p, f)
        \/ cache[p].complete /\ cache[p].bytes = Actual(p)
        \/ ~cache[p].complete /\ cache[p].bytes <= Actual(p)

\* The cache and the walks under way stay within their limits, with walks that
\* outlive their request.
WithinLimits == Cardinality(DOMAIN cache) <= Capacity /\ Cardinality(InWalk) <= Slots

\* A stream says nothing more once its session has been over for the interval between two
\* checks (browse.rs, directory_events), counted from when it opened if the session ended
\* while it did, and longer only by as much as the last check took to be answered: an
\* event that goes out was let through before that.
SilentOnceSignedOut ==
    signedOut # -1 => stream.sent < Max({signedOut, stream.opened}) + Interval + stream.took

\* The pages of a listing read to its end have every entry that was there, unchanged, from
\* the first request to the last, and have it once, whatever else came or went meanwhile,
\* or came twice (browse.rs, decode_cursor).
PagesAgree ==
    page.pc = "done" =>
        /\ page.stable \subseteq Range(page.pages)
        /\ \A e \in page.stable : \A i, j \in DOMAIN page.pages :
              page.pages[i].path = e.path /\ page.pages[j].path = e.path => i = j

\* Folder sizes are sound: what the cache holds is right unless it is known to be old, and
\* it and the walks stay within their limits (folder_sizes.rs).
SizesSound == TypeOK /\ SizesAreRight /\ WithinLimits
=============================================================================
