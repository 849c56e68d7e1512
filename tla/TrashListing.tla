---------------------------- MODULE TrashListing ----------------------------
(***************************************************************************)
(* The listing of Trash, page after page (src/filesystem/trash.rs,         *)
(* list_trash_page; src/mutations.rs, list_trash_items).  A listing takes  *)
(* no lock: between any two of its reads, an item may be deleted, restored *)
(* or purged by the operations that hold the commit lock.                  *)
(***************************************************************************)
EXTENDS Questions

CONSTANTS
    MaxScanned,     \* TRASH_LIST_SCAN_ENTRY_LIMIT
    MaxLimit,       \* TRASH_PAGE_MAX_LIMIT
    CompactMin,     \* the least number of items that are kept before a compaction
    MaxMoves        \* calls of the operations that change Trash meanwhile

ASSUME ListingAssumption == {MaxScanned, MaxLimit, CompactMin, MaxMoves} \subseteq Nat

Published(item) == item.sidecar = "live" /\ item.payload = "same"

-----------------------------------------------------------------------------
(* The order of the listing, and its cursors                                *)

\* listing_order: the newest first, and by their ids when they are as old as each other.
Before(a, b) == a.at > b.at \/ (a.at = b.at /\ a.id < b.id)

\* is_after.
\* Mutant: the time alone is compared.
IsAfterByTime(entry, position) == entry.at < position.at
IsAfter(entry, position) == Before(position, entry)

\* encode_trash_cursor: the position, sealed for the subject, the share and the access.
EncodeTrashCursor(holder, last) == [holder |-> holder, position |-> last]

\* decode_trash_cursor, for the one who sends it.
DecodeTrashCursor(cursor, holder) ==
    IF cursor.holder = holder THEN {cursor.position} ELSE {}

-----------------------------------------------------------------------------
(* One page                                                                 *)

KeepOf(limit) == limit + 1
CompactAt(limit) == IF 2 * KeepOf(limit) > CompactMin THEN 2 * KeepOf(limit) ELSE CompactMin

\* readdir, in an order of its own: the sidecars, and how many names are of something else.
SidecarsIn(items) == {i \in DOMAIN items : items[i].sidecar # "absent"}
OthersIn(items) == Cardinality({i \in DOMAIN items : items[i].payload # "none"}) + question.strays

ListingFails(code) == Reply([pc |-> "done", code |-> code])

\* list_trash_items.
ListTrashItems ==
    /\ Asked("trash")
    /\ IF question.limit \notin 1 .. MaxLimit THEN ListingFails("invalid")
       ELSE Reply([pc |-> "scan", scan |-> SidecarsIn(question.items), others |-> OthersIn(question.items),
                   scanned |-> 0, kept |-> <<>>, after |-> {}, items |-> question.items, id |-> 0,
                   listed |-> <<>>, moves |-> 0,
                   steady |-> {i \in DOMAIN question.items : Published(question.items[i])}])

\* The loop of list_trash_page: only names of sidecars count as items.
ReadEntry ==
    /\ Under("trash") /\ Now.pc = "scan"
    /\ LET read == [Now EXCEPT !.scanned = @ + 1] IN
       IF read.scanned > MaxScanned THEN (Now.scan # {} \/ Now.others > 0) /\ ListingFails("too large")
       ELSE \/ Now.others > 0 /\ Reply([read EXCEPT !.others = @ - 1])
            \/ \E i \in Now.scan : Reply([read EXCEPT !.scan = @ \ {i}, !.pc = "sidecar", !.id = i])

Unlisted == Reply([Now EXCEPT !.pc = "scan", !.id = 0])

\* listable_item: the sidecar first.
ReadSidecar ==
    /\ Under("trash") /\ Now.pc = "sidecar"
    /\ IF Now.items[Now.id].sidecar = "live" THEN Reply([Now EXCEPT !.pc = "payload"]) ELSE Unlisted

\* The items that are kept, which the code sorts before it drops or returns any of them.
EntryOf(items, i) == [id |-> i, at |-> items[i].at]
InPlace(kept, k, entry) ==
    \A j \in DOMAIN kept : IF j < k THEN ~Before(entry, kept[j]) ELSE Before(entry, kept[j])
Compacted(kept, limit) == IF Len(kept) >= CompactAt(limit) THEN SubSeq(kept, 1, KeepOf(limit)) ELSE kept

\* and then the payload, whatever has become of it; what list_trash_page does with the item.
ReadPayload ==
    /\ Under("trash") /\ Now.pc = "payload"
    /\ LET entry == EntryOf(Now.items, Now.id) IN
       IF Now.items[Now.id].payload # "same" \/ \E p \in Now.after : ~IsAfter(entry, p) THEN Unlisted
       ELSE \E k \in 1 .. Len(Now.kept) + 1 :
              /\ InPlace(Now.kept, k, entry)
              /\ Reply([Now EXCEPT !.pc = "scan", !.id = 0,
                                   !.kept = Compacted(InsertAt(@, k, entry), question.limit)])

\* The end of the page: one item more than asked for says that there is another page.
Page(kept, limit) == SubSeq(kept, 1, Least(limit, Len(kept)))
EndPage ==
    /\ Under("trash") /\ Now.pc = "scan" /\ Now.scan = {} /\ Now.others = 0
    /\ LET listed == Now.listed \o Page(Now.kept, question.limit) IN
       IF Len(Now.kept) > question.limit
       THEN Reply([Now EXCEPT !.pc = "between", !.kept = <<>>, !.listed = listed])
       ELSE Reply([pc |-> "done", code |-> "ok", listed |-> listed, steady |-> Now.steady])

\* The next request, with the cursor of the page before, by its holder or by another.
FollowCursor ==
    /\ Under("trash") /\ Now.pc = "between"
    /\ \E holder \in {"own", "other"} :
         LET after == DecodeTrashCursor(EncodeTrashCursor("own", Last(Now.listed)), holder) IN
         IF after = {} THEN ListingFails("conflict")
         ELSE Reply([Now EXCEPT !.pc = "scan", !.scan = SidecarsIn(Now.items), !.others = OthersIn(Now.items),
                                !.scanned = 0, !.after = after])

-----------------------------------------------------------------------------
(* What the holders of the commit lock do meanwhile                         *)

\* An operation that is between two of its calls on this item.
Midway(item) == item.sidecar = "pending" \/ (item.sidecar = "live" /\ item.payload = "none")

Set(i, item, names) ==
    Reply([Now EXCEPT !.items[i] = item, !.moves = @ + 1, !.steady = @ \ {i}, !.scan = @ \cup names])

\* One call of a deletion, a restore or a purge.  The readdir that is going on may return a
\* name that is new or that was replaced, also after it was returned, and one that is gone.
Move(i) ==
    /\ Under("trash") /\ Now.moves < MaxMoves
    /\ LET item == Now.items[i] IN
       /\ \A j \in DOMAIN Now.items : j # i => ~Midway(Now.items[j])
       /\ \E names \in {{}, {i}} :
          \/ /\ item.sidecar = "absent" /\ item.at = 0
             /\ \E at \in question.times : Set(i, [item EXCEPT !.sidecar = "pending", !.at = at], names)
          \/ item.sidecar = "pending" /\ item.payload = "none" /\ Set(i, [item EXCEPT !.payload = "same"], {})
          \/ item.sidecar = "pending" /\ item.payload = "same" /\ Set(i, [item EXCEPT !.sidecar = "live"], names)
          \/ item.sidecar = "live" /\ item.payload = "same" /\ Set(i, [item EXCEPT !.payload = "none"], {})
          \/ item.sidecar = "live" /\ item.payload = "same" /\ Set(i, [item EXCEPT !.sidecar = "purging"], names)
          \/ item.sidecar = "purging" /\ item.payload = "same" /\ Set(i, [item EXCEPT !.payload = "none"], {})
          \/ item.sidecar \in {"live", "purging"} /\ item.payload = "none" /\ Set(i, [item EXCEPT !.sidecar = "absent"], {})

ListingStep ==
    \/ ListTrashItems \/ ReadEntry \/ ReadSidecar \/ ReadPayload \/ EndPage \/ FollowCursor
    \/ Under("trash") /\ \E i \in DOMAIN Now.items : Move(i)

-----------------------------------------------------------------------------
(* Properties                                                               *)

\* Newest first, and none twice but one that was published while its page was read.
InOrder(listed, items) ==
    \A j, k \in DOMAIN listed : j < k =>
        \/ Before(listed[j], listed[k])
        \/ k = j + 1 /\ listed[j] = listed[k] /\ items[listed[j].id].sidecar # "live"

\* Who follows the cursors to the last page has seen every item that was in Trash all the
\* while, the newest first, and no item twice that was there at first, whatever was
\* deleted, restored and purged between two reads and between two pages, and however many
\* items share the second of their deletion; and no page keeps more items than it may
\* (list_trash_page and the cursors).
ListingIsWhole ==
    /\ Done("trash") /\ Now.code = "ok" =>
         /\ \A i \in Now.steady : \E k \in DOMAIN Now.listed : Now.listed[k].id = i
         /\ InOrder(Now.listed, question.items)
    /\ Under("trash") => Len(Now.kept) < CompactAt(question.limit)

-----------------------------------------------------------------------------
(* The listing by itself, of any items that Trash may hold: what was not yet *)
(* deleted has no time, and is not there.                                    *)
IsItem(item) ==
    /\ item = [f \in {"sidecar", "payload", "at"} |-> item[f]]
    /\ item.at \in Nat
    /\ item.at = 0 => item.sidecar = "absent"

ListingQuestion(q) ==
    /\ q.what = "trash" /\ q.times \subseteq Nat \ {0}
    /\ q.items = [i \in DOMAIN q.items |-> q.items[i]] /\ DOMAIN q.items \subseteq Nat
    /\ \A i \in DOMAIN q.items : IsItem(q.items[i])

ListingInit == answer = <<>> /\ ListingQuestion(question)
ListingSpec == ListingInit /\ [][ListingStep]_<<question, answer>>

ListingState == {"pc", "scan", "others", "scanned", "kept", "after", "items", "id", "listed", "moves", "steady"}

\* Each entry is that of an item, as it was deleted.
AreEntries(entries, items) ==
    /\ entries \in Seq([id : DOMAIN items, at : Nat \ {0}])
    /\ \A k \in DOMAIN entries : entries[k] = EntryOf(items, entries[k].id)

\* The items, of which those that stayed are published, and those at first are not published again.
ItemsSound(q, s) ==
    /\ s.items = [i \in DOMAIN q.items |-> s.items[i]]
    /\ \A i \in DOMAIN s.items :
         /\ IsItem(s.items[i])
         /\ q.items[i].sidecar = "live" => s.items[i].at # 0 /\ s.items[i].sidecar # "pending"
    /\ s.steady \subseteq DOMAIN s.items /\ \A i \in s.steady : Published(s.items[i])
    /\ s.scan \subseteq DOMAIN s.items
    /\ s.pc \in {"sidecar", "payload"} => s.id \in DOMAIN s.items

\* The items of this page so far: they come after those of the pages before.
KeptSound(q, s) ==
    /\ AreEntries(s.kept, s.items) /\ Len(s.kept) < CompactAt(q.limit)
    /\ \A j, k \in DOMAIN s.kept : j < k => ~Before(s.kept[k], s.kept[j])
    /\ \A k \in DOMAIN s.kept, p \in s.after : IsAfter(s.kept[k], p)
    /\ s.pc = "between" => s.kept = <<>> /\ s.listed # <<>>
    /\ s.pc # "between" => s.after = IF s.listed = <<>> THEN {} ELSE {Last(s.listed)}

ListedSound(q, s) == AreEntries(s.listed, s.items) /\ InOrder(s.listed, q.items)

\* An item is kept once, and once more when its name was returned again as it was
\* published; what may still be kept is being read, or is live and will be.
In(s, i) == \E k \in DOMAIN s.kept : s.kept[k].id = i
Twice(s, i) == \E j, k \in DOMAIN s.kept : j < k /\ s.kept[j].id = i /\ s.kept[k].id = i
Due(s, i) == s.id = i /\ (s.pc = "payload" \/ (s.pc = "sidecar" /\ s.items[i].sidecar = "live"))
ToCome(s, i) == i \in s.scan /\ s.items[i].sidecar = "live"
OnceOrTwice(q, s) ==
    /\ \A i \in DOMAIN s.items :
         /\ Twice(s, i) => ~Due(s, i) /\ ~ToCome(s, i)
         /\ In(s, i) => ~(Due(s, i) /\ ToCome(s, i))
         /\ q.items[i].sidecar = "live" =>
              ~Twice(s, i) /\ (In(s, i) => ~Due(s, i) /\ ~ToCome(s, i)) /\ ~(Due(s, i) /\ ToCome(s, i))
         /\ s.items[i].sidecar = "pending" \/ s.items[i].at = 0 => ~In(s, i) /\ ~Due(s, i)
    /\ \A j, k, m \in DOMAIN s.kept : j < k /\ k < m => s.kept[j].id # s.kept[k].id \/ s.kept[k].id # s.kept[m].id

\* What stayed is listed, or this page or a later one comes to it; of what a compaction
\* dropped, there are enough before it for this page.
Reached(s, i, limit) ==
    \/ i \in s.scan \/ (s.id = i /\ s.pc \in {"sidecar", "payload"}) \/ In(s, i)
    \/ Len(s.kept) >= KeepOf(limit) /\ Before(s.kept[KeepOf(limit)], EntryOf(s.items, i))
Ahead(s, i, limit) ==
    IF s.pc = "between" THEN Before(Last(s.listed), EntryOf(s.items, i))
    ELSE (\A p \in s.after : IsAfter(EntryOf(s.items, i), p)) /\ Reached(s, i, limit)
NoneLost(q, s) ==
    \A i \in s.steady : (\E k \in DOMAIN s.listed : s.listed[k].id = i) \/ Ahead(s, i, q.limit)

ListingSound(q, s) ==
    /\ s = [f \in ListingState |-> s[f]]
    /\ q.limit \in Nat \ {0} /\ s.pc \in {"scan", "sidecar", "payload", "between"}
    /\ ItemsSound(q, s) /\ KeptSound(q, s) /\ ListedSound(q, s) /\ OnceOrTwice(q, s) /\ NoneLost(q, s)

\* The end: the answer, or what it was refused for.
ListingEnd(q, s) ==
    s.code = "ok" =>
        /\ \A i \in s.steady : \E k \in DOMAIN s.listed : s.listed[k].id = i
        /\ InOrder(s.listed, q.items)

ListingInv ==
    /\ ListingQuestion(question)
    /\ answer # <<>> => answer = <<Now>> /\
         IF Now.pc = "done" THEN ListingEnd(question, Now) ELSE ListingSound(question, Now)

=============================================================================
