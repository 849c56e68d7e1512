----------------------------- MODULE ZipWriter ------------------------------
(***************************************************************************)
(* The ZIP writer of src/zip.rs: the plan of an archive, its records as    *)
(* they are written, and the reader that the fuzz target and the tests     *)
(* hold against it.  An archive is the sequence of its records, each with  *)
(* the place where it begins and its length in bytes.                      *)
(*                                                                         *)
(* The widths of the fields are parameters: what matters is which values   *)
(* reach the sentinel of a field, and that one may reach it exactly.       *)
(***************************************************************************)
EXTENDS Questions

CONSTANTS
    U16,            \* U16_SENTINEL, the largest value of a 16-bit field
    U32,            \* U32_SENTINEL
    U64,            \* u64::MAX
    MinDeflate,     \* MIN_DEFLATE_BYTES
    Margin,         \* what deflated_may_overflow adds to nine eighths
    SniffBytes,     \* SNIFF_BYTES
    Piece,          \* the bytes that one call of fill is asked for
    MaxZipEntries,  \* max_entries of the limits of an extraction
    MaxZipNames,    \* max_name_bytes
    MaxDirectory,   \* MAX_ZIP_DIRECTORY
    EndSignature,   \* what the four bytes of the end record's signature are as a number
    WideSignature   \* and those of the wide end record's

ASSUME ZipAssumption ==
    /\ {U16, U32, U64, MinDeflate, Margin, SniffBytes, Piece} \subseteq Nat
    /\ {MaxZipEntries, MaxZipNames, MaxDirectory} \subseteq Nat
    /\ U16 < U32 /\ U32 < U64 /\ Piece > 0
    /\ {EndSignature, WideSignature} \subseteq 1 .. U32 - 1 /\ EndSignature # WideSignature

Sum(n, e) == IF n = -1 \/ e = -1 \/ n + e > U64 THEN -1 ELSE n + e     \* checked_add, -1 for None

-----------------------------------------------------------------------------
(* ZipEntry                                                                 *)

\* Deflating may make a file longer, by less than an eighth and the margin.
DeflatedMayOverflow(size) == size + size \div 8 + Margin >= U32

\* A directory has the size -1.
Zip64Sizes(e) ==
    e.size # -1 /\ IF e.method = "stored" THEN e.size >= U32 ELSE DeflatedMayOverflow(e.size)
\* Mutant: an offset that is the sentinel itself stays in the field.
Zip64OffsetAbove(e) == e.offset > U32

Zip64Offset(e) == e.offset >= U32
Zip64Fields(e) == (IF Zip64Sizes(e) THEN 2 ELSE 0) + (IF Zip64Offset(e) THEN 1 ELSE 0)
TimestampLen(e) == IF e.dated THEN 9 ELSE 0
LocalLen(e) == 30 + e.name + TimestampLen(e) + IF Zip64Sizes(e) THEN 20 ELSE 0
DescriptorLen(e) == IF e.size = -1 THEN 0 ELSE IF Zip64Sizes(e) THEN 24 ELSE 16
CentralLen(e) ==
    46 + e.name + TimestampLen(e) + IF Zip64Fields(e) = 0 THEN 0 ELSE 4 + 8 * Zip64Fields(e)

-----------------------------------------------------------------------------
(* ZipPlan                                                                  *)

MayDeflate(s) == s.size >= MinDeflate /\ ~s.compressed
Planned(s, auto, offset) ==
    [name |-> IF s.size = -1 THEN s.name + 1 ELSE s.name, size |-> s.size, dated |-> s.dated, looks |-> s.looks,
     method |-> IF auto /\ s.size # -1 /\ MayDeflate(s) THEN "candidate" ELSE "stored",
     offset |-> offset, compressed |-> 0]

After(e, offset) == Sum(Sum(Sum(offset, LocalLen(e)), IF e.size = -1 THEN 0 ELSE e.size), DescriptorLen(e))

\* The offset after each entry depends on those before.
Laid(sources, auto) ==
    FoldLeft(LAMBDA p, s : LET e == Planned(s, auto, p.offset) IN
                [entries |-> Append(p.entries, e),
                 offset |-> IF p.offset = -1 THEN -1 ELSE After(e, p.offset)],
             [entries |-> <<>>, offset |-> 0], sources)

CentralOf(entries) == FoldLeft(LAMBDA n, e : Sum(n, CentralLen(e)), 0, entries)
NeedsZip64End(count, offset, length) == count >= U16 \/ offset >= U32 \/ length >= U32

EndLen(count, offset, length) == IF NeedsZip64End(count, offset, length) THEN 56 + 20 + 22 ELSE 22
WholeLen(entries, offset) ==
    Sum(Sum(offset, CentralOf(entries)), EndLen(Len(entries), offset, CentralOf(entries)))

\* ZipPlan::new.  A name that is too long has no plan, nor has a length that
\* overflows.
PlanZip ==
    /\ Asked("zip")
    /\ LET laid == Laid(question.sources, question.auto)
           len == WholeLen(laid.entries, laid.offset)
       IN IF len = -1 \/ \E i \in DOMAIN laid.entries : laid.entries[i].name > U16
          THEN Reply([pc |-> "done", result |-> "none"])
          ELSE Reply([pc |-> "start", at |-> 1, entries |-> laid.entries, position |-> 0,
                      variable |-> \E i \in DOMAIN laid.entries :
                                      laid.entries[i].method = "candidate",
                      offset |-> laid.offset, len |-> len, out |-> <<>>, end |-> 0,
                      remaining |-> 0, pending |-> 0, file |-> 0, written |-> 0, whole |-> TRUE])

-----------------------------------------------------------------------------
(* The records, and the encoder of an entry's data                          *)

This == Now.entries[Now.at]
Emit(r, length) == [Now EXCEPT !.out = Append(@, r @@ [at |-> Now.end, len |-> length]),
                               !.end = @ + length]
Abort(whole) == Reply([pc |-> "done", result |-> "error", whole |-> whole])

\* EntryEncoder::start: the first bytes of a candidate settle its method, and
\* wait to be the first of its data.  The file may be shorter or longer by now.
StartEntry(deflates, file) ==
    /\ Under("zip") /\ Now.pc = "start" /\ Now.at <= Len(Now.entries)
    /\ LET candidate == This.method = "candidate"
           prefix == IF ~candidate THEN 0 ELSE IF This.size < SniffBytes THEN This.size ELSE SniffBytes
           size == IF This.size = -1 THEN 0 ELSE This.size
       IN /\ deflates => candidate
          /\ This.size = -1 => file = 0
          /\ IF file < prefix THEN Abort(FALSE)
             ELSE Reply([Now EXCEPT !.pc = "header", !.whole = @ /\ file = size, !.remaining = size - prefix, !.pending = prefix,
                    !.file = file - prefix, !.written = 0,
                    !.entries[Now.at].method = IF deflates THEN "deflated" ELSE "stored"])

\* write_local_header.
WriteLocal ==
    /\ Under("zip") /\ Now.pc = "header"
    /\ LET e == [This EXCEPT !.offset = Now.position]
           length == 4 + 5 * 2 + 3 * 4 + 2 * 2 + e.name + (IF e.dated THEN 4 + 5 ELSE 0)
                       + IF Zip64Sizes(e) THEN 4 + 16 ELSE 0
       IN Reply([Emit([kind |-> "local", name |-> Now.at, method |-> e.method,
                       zip64 |-> Zip64Sizes(e)], length)
                   EXCEPT !.pc = IF e.size = -1 THEN "next" ELSE "fill",
                          !.entries[Now.at] = e, !.position = @ + LocalLen(e)])

\* fill_stored: what was sniffed, then what is read, until the call has enough;
\* once all has been read the file must be at its end.
FillStored ==
    /\ Under("zip") /\ Now.pc = "fill" /\ This.method = "stored"
    /\ LET room == IF Now.pending > Piece THEN 0 ELSE Piece - Now.pending
           wanted == IF Now.remaining < room THEN Now.remaining ELSE room
           read == IF Now.file < wanted THEN Now.file ELSE wanted
       IN IF read < wanted THEN Abort(Now.whole)
          ELSE IF read = Now.remaining /\ Now.file > read THEN Abort(Now.whole)
          ELSE Reply([Now EXCEPT !.pc = IF read = Now.remaining THEN "descriptor" ELSE "fill",
                        !.pending = 0, !.remaining = @ - read, !.file = @ - read,
                        !.written = @ + Now.pending + read])

\* fill_deflated, for all of an entry: the compressor makes of it what it will.
FillDeflated(length) ==
    /\ Under("zip") /\ Now.pc = "fill" /\ This.method = "deflated"
    /\ length <= This.size + This.size \div 8 + Margin - 1
    /\ IF Now.file # Now.remaining THEN Abort(Now.whole)
       ELSE Reply([Now EXCEPT !.pc = "descriptor", !.pending = 0, !.remaining = 0, !.file = 0,
                              !.written = length])

\* write_data_descriptor: refuses what its fields cannot hold.
WriteDescriptor ==
    /\ Under("zip") /\ Now.pc = "descriptor"
    /\ IF \/ This.method # "deflated" /\ Now.written # This.size
          \/ ~Zip64Sizes(This) /\ Now.written >= U32
       THEN Abort(Now.whole)
       ELSE LET data == Emit([kind |-> "data", name |-> Now.at, raw |-> This.size], Now.written)
                e == [This EXCEPT !.compressed = Now.written]
                width == IF Zip64Sizes(e) THEN U64 ELSE U32
            IN Reply([data EXCEPT
                  !.out = Append(@, [kind |-> "descriptor", at |-> data.end,
                                     compressed |-> e.compressed % (width + 1),
                                     size |-> e.size % (width + 1),
                                     len |-> 8 + IF Zip64Sizes(e) THEN 16 ELSE 8]),
                  !.end = @ + 8 + (IF Zip64Sizes(e) THEN 16 ELSE 8),
                  !.entries[Now.at] = e, !.pc = "next",
                  !.position = @ + Now.written + DescriptorLen(e)])

NextEntry ==
    /\ Under("zip") /\ Now.pc = "next"
    /\ Reply([Now EXCEPT !.pc = "start", !.at = @ + 1])

\* finish_entries: a layout that was fixed must have come out as planned.
FinishEntries ==
    /\ Under("zip") /\ Now.pc = "start" /\ Now.at > Len(Now.entries)
    /\ LET len == WholeLen(Now.entries, Now.position) IN
       IF len = -1 \/ (~Now.variable /\ (Now.position # Now.offset \/ len # Now.len))
       THEN Reply([pc |-> "done", result |-> "layout", variable |-> Now.variable])
       ELSE Reply([Now EXCEPT !.pc = "central", !.at = 1, !.offset = Now.position, !.len = len])

\* write_central_header.
WriteCentral ==
    /\ Under("zip") /\ Now.pc = "central" /\ Now.at <= Len(Now.entries)
    /\ LET size == IF This.size = -1 THEN 0 ELSE This.size
           sizes == IF Zip64Sizes(This) THEN <<size, This.compressed>> ELSE <<>>
           extra == sizes \o IF Zip64Offset(This) THEN <<This.offset>> ELSE <<>>
           length == 4 + 6 * 2 + 3 * 4 + 5 * 2 + 2 * 4 + This.name
                       + (IF This.dated THEN 4 + 5 ELSE 0)
                       + IF extra = <<>> THEN 0 ELSE 4 + 8 * Len(extra)
       IN Reply([Emit([kind |-> "central", name |-> Now.at, nameLen |-> This.name, method |-> This.method,
                       compressed |-> IF Zip64Sizes(This) THEN U32 ELSE This.compressed % (U32 + 1),
                       size |-> IF Zip64Sizes(This) THEN U32 ELSE size % (U32 + 1),
                       offset |-> IF Zip64Offset(This) THEN U32 ELSE This.offset % (U32 + 1),
                       extra |-> extra, looks |-> This.looks], length)
                   EXCEPT !.at = @ + 1])

\* write_end.
WriteEnd ==
    /\ Under("zip") /\ Now.pc = "central" /\ Now.at > Len(Now.entries)
    /\ LET count == Len(Now.entries)
           length == CentralOf(Now.entries)
           zip64 == NeedsZip64End(count, Now.offset, length)
           wide == [count |-> count, length |-> length, offset |-> Now.offset]
           last == Emit([kind |-> "end", count |-> Least(count, U16), length |-> Least(length, U32),
                         offset |-> Least(Now.offset, U32), across |-> question.across, wide |-> IF zip64 THEN <<wide>> ELSE <<>>],
                        (IF zip64 THEN 4 + 8 + 2 + 2 + 4 + 4 + 4 * 8 + 4 + 4 + 8 + 4 ELSE 0)
                          + 4 + 4 * 2 + 2 * 4 + 2)
       IN Reply([pc |-> "done", result |-> "written", entries |-> Now.entries, out |-> last.out,
                 end |-> last.end, len |-> Now.len, variable |-> Now.variable])

ZipStep ==
    \/ PlanZip \/ WriteLocal \/ FillStored \/ WriteDescriptor \/ NextEntry \/ FinishEntries
    \/ WriteCentral \/ WriteEnd
    \/ \E deflates \in BOOLEAN, change \in -1 .. 1 :
          /\ Under("zip") /\ Now.pc = "start" /\ Now.at <= Len(Now.entries)
          /\ StartEntry(deflates, IF This.size <= 0 THEN 0 ELSE This.size + change)
    \/ /\ Under("zip") /\ Now.pc = "fill"
       /\ \E length \in {1, This.size \div 2, This.size + This.size \div 8 + Margin - 1} :
             FillDeflated(length)

-----------------------------------------------------------------------------
(* read_archive, the reader                                                 *)

RecordAt(out, at, kind) == {i \in DOMAIN out : out[i].at = at /\ out[i].kind = kind}

\* read_central: the fields that hold the sentinel are taken from the extra
\* field, in their order, which they use up.
ReadCentral(c) ==
    LET wants == (IF c.size = U32 THEN <<"size">> ELSE <<>>)
                   \o (IF c.compressed = U32 THEN <<"compressed">> ELSE <<>>)
                   \o (IF c.offset = U32 THEN <<"offset">> ELSE <<>>)
        Field(f) == IF c[f] # U32 THEN c[f]
                    ELSE c.extra[CHOOSE i \in DOMAIN wants : wants[i] = f]
    IN IF Len(wants) # Len(c.extra) THEN <<>>
       ELSE <<[size |-> Field("size"), compressed |-> Field("compressed"), offset |-> Field("offset")]>>

\* Where the reader of the end record finds the central directory.
ReadEnd(e) ==
    IF e.count = U16 \/ e.length = U32 \/ e.offset = U32
    THEN IF e.wide = <<>> THEN <<>> ELSE e.wide
    ELSE <<[count |-> e.count, length |-> e.length, offset |-> e.offset]>>

\* An entry is read from its central header through its local one to its data.
ReadsEntry(out, central, i, e) ==
    LET c == ReadCentral(out[central]) IN
    /\ c # <<>>
    /\ out[central].name = i
    /\ c[1].size = (IF e.size = -1 THEN 0 ELSE e.size)
    /\ \E l \in RecordAt(out, c[1].offset, "local") :
          /\ out[l].name = i /\ out[l].method = out[central].method
          /\ e.size # -1 =>
               LET data == out[l].at + out[l].len IN
               \E d \in RecordAt(out, data, "data"),
                  s \in RecordAt(out, data + c[1].compressed, "descriptor") :
                     /\ out[d].name = i /\ out[d].len = c[1].compressed /\ out[d].raw = e.size
                     /\ out[s].compressed = c[1].compressed /\ out[s].size = c[1].size
                     /\ out[s].len = (IF out[l].zip64 THEN 24 ELSE 16)

-----------------------------------------------------------------------------
(* preflight_zip, before an extraction                                      *)

Signatures == {EndSignature, WideSignature}

\* The halves of a number of 64 bits.
Halves(n) == {n % (U32 + 1), n \div (U32 + 1)}

\* What four bytes in a row of a record may read as besides its own signature: its numbers,
\* and what they do not settle, which are the name, the time and the checksum of a header
\* and the bytes that lie across two fields.
HeaderReads(c) == {c.size, c.compressed, c.offset, c.looks} \cup UNION {Halves(n) : n \in ToSet(c.extra)}
EndReads(e) == {e.length, e.offset, e.across}
WideReads(e) ==
    UNION {Halves(w.count) \cup Halves(w.length) \cup Halves(w.offset) \cup Halves(w.offset + w.length) : w \in ToSet(e.wide)}

\* The end record is where its signature occurs last, and must then reach to the end of the
\* file.  It names the directory, directly or through the wide one, which must lie just
\* before it; its headers are then counted up one by one to exactly its length.  From the
\* directory on nothing else may read as the signature of an end record.
PreflightZip(out) ==
    LET end == Last(out)
        own == EndReads(end)
        wide == end.count = U16 \/ end.length = U32 \/ end.offset = U32
        named == IF wide THEN end.wide[1] ELSE [count |-> end.count, length |-> end.length, offset |-> end.offset]
        boundary == IF wide THEN end.at ELSE end.at + end.len - 22
        Header(at) == RecordAt(out, at, "central")
        walked == FoldLeft(LAMBDA w, k :
                    IF w.error # "" THEN w
                    ELSE IF w.consumed + 46 > named.length \/ Header(named.offset + w.consumed) = {}
                         THEN [w EXCEPT !.error = "invalid"]
                    ELSE LET c == out[CHOOSE i \in Header(named.offset + w.consumed) : TRUE] IN
                         [consumed |-> w.consumed + c.len, names |-> w.names + c.nameLen,
                          error |-> IF \/ w.consumed + c.len > named.length
                                       \/ w.names + c.nameLen > MaxZipNames THEN "limit" ELSE ""],
                    [consumed |-> 0, names |-> 0, error |-> ""],
                    [k \in 1 .. named.count |-> k])
        read == own \cup WideReads(end)
                  \cup UNION {HeaderReads(c) : c \in {d \in ToSet(out) : d.kind = "central" /\ d.at >= named.offset}}
    IN IF EndSignature \in own \/ (wide /\ end.wide = <<>>) THEN [error |-> "invalid"]
       ELSE IF named.count > MaxZipEntries \/ named.length > MaxDirectory THEN [error |-> "limit"]
       ELSE IF named.offset + named.length # boundary THEN [error |-> "invalid"]
       ELSE IF walked.error # "" THEN [error |-> walked.error]
       ELSE IF walked.consumed # named.length \/ Signatures \cap read # {} THEN [error |-> "invalid"]
       ELSE [error |-> "", offset |-> named.offset, count |-> named.count]

-----------------------------------------------------------------------------
(* Properties                                                               *)

\* An archive that was written reads back, every entry with its size and its data,
\* for sizes, offsets and counts on both sides of each field's limit and at it, and
\* of files none of which changed there is one (zip.rs, check_layout and
\* read_archive).
ZipReadsBack ==
    /\ Done("zip") /\ Now.result = "error" => ~Now.whole
    /\ Done("zip") /\ Now.result = "written" =>
        LET end == ReadEnd(Last(Now.out))
            centrals == SelectInSubSeq(Now.out, 1, Len(Now.out), LAMBDA r : r.kind = "central")
            n == Len(Now.entries)
        IN /\ end # <<>> /\ end[1].count = n
           /\ n > 0 => /\ centrals > 0 /\ Now.out[centrals].at = end[1].offset
                       /\ Last(Now.out).at = end[1].offset + end[1].length
           /\ \A i \in 1 .. n : ReadsEntry(Now.out, centrals + i - 1, i, Now.entries[i])

\* The length that an archive is announced with is the length that it has, and
\* one whose length was fixed when it was planned never fails for its layout
\* (zip.rs, fixed_len and finish_entries).
ZipKeepsItsLength ==
    Done("zip") => /\ Now.result = "layout" => Now.variable
                   /\ Now.result = "written" => Now.end = Now.len

\* An archive that was written here is one that can be extracted here, within the limits
\* of an extraction, unless from its directory on four bytes in a row happen to read as the
\* signature of an end record: a size or an offset, also of the directory, a name, a time
\* or a checksum.  Then it cannot be (archives.rs, preflight_zip).
ZipPassesPreflight ==
    Done("zip") /\ Now.result = "written" =>
        LET p == PreflightZip(Now.out)
            n == Len(Now.entries)
            length == CentralOf(Now.entries)
            offset == FoldLeft(LAMBDA o, e : o + LocalLen(e) + (IF e.size = -1 THEN 0 ELSE e.compressed)
                                               + DescriptorLen(e), 0, Now.entries)
            numbers == UNION {{e.size, e.compressed, e.offset} : e \in ToSet(Now.entries)} \cup {length, offset}
                         \cup IF NeedsZip64End(n, offset, length) THEN {n, offset + length} ELSE {}
            collides == Signatures \cap ({question.across} \cup {e.looks : e \in ToSet(Now.entries)}
                                         \cup UNION {Halves(m) : m \in numbers \ {-1}}) # {}
        IN /\ p.error = "" => ~collides /\ p.count = n /\ p.offset = offset
           /\ p.error = "limit" =>
                \/ n > MaxZipEntries \/ length > MaxDirectory
                \/ FoldLeft(LAMBDA sum, e : sum + e.name, 0, Now.entries) > MaxZipNames
           /\ p.error = "invalid" => collides

\* An archive arrives whole and as long as it was announced, and can be extracted
\* (zip.rs, and the writer of archives in browse.rs and archives.rs).
ZipIsExact == ZipReadsBack /\ ZipKeepsItsLength /\ ZipPassesPreflight
=============================================================================
