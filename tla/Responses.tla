----------------------------- MODULE Responses ------------------------------
(***************************************************************************)
(* How a file is sent (src/browse.rs, download and stream_file): the       *)
(* conditional headers, one range, and a client that was cut off and asks  *)
(* for the rest while the file may have been changed.                      *)
(*                                                                         *)
(* A byte is the pair of the version that it is of and its place in it.    *)
(* A tag has a body, which a change within the resolution of what it is    *)
(* made of leaves alone, and is weak, as for every file, or strong.        *)
(***************************************************************************)
EXTENDS Questions

CONSTANTS
    MaxDownload,    \* max_download_bytes
    MaxNumber       \* the largest number that a header may hold and u64 does

ASSUME ResponsesAssumption == MaxDownload \in Nat /\ MaxNumber \in Nat

NoHeader == [given |-> FALSE]
Tag(body, weak) == [body |-> body, weak |-> weak]
AnyTag == Tag(0, FALSE)     \* "*"

-----------------------------------------------------------------------------
(* The headers of the request                                               *)

\* metadata_etag: of length, time and identity, so weak.
FileEtag(file) == Tag(file.stamp, TRUE)

\* if_none_match: weak comparison, with any of the tags of the list.
IfNoneMatch(h, etag) == h.given /\ \E t \in h.tags : t = AnyTag \/ t.body = etag.body

\* if_range_allows: strong comparison.
\* Mutant: the weak comparison of if_none_match.
IfRangeWeakly(h, etag) == ~h.given \/ h.tag.body = etag.body

IfRangeAllows(h, etag) == ~h.given \/ (~etag.weak /\ h.tag = etag)

\* A number of a range: absent, not digits alone, or a number.
Absent == -1
Malformed == -2
ParseNumber(n) == {n} \cap 0 .. MaxNumber
Satisfiable(first, last) == [is |-> "satisfiable", first |-> first, last |-> last]
Ignore == [is |-> "ignore"]
Unsatisfiable == [is |-> "unsatisfiable"]

\* The last bytes, as many as asked for or as there are.
ParseSuffix(n, len) ==
    IF ParseNumber(n) = {} THEN Ignore
    ELSE IF n = 0 THEN Unsatisfiable
    ELSE IF len = 0 THEN Ignore
    ELSE Satisfiable(len - (IF n < len THEN n ELSE len), len - 1)

\* parse_range.
ParseRange(h, len) ==
    IF h.unit # "bytes" \/ h.many THEN Ignore
    ELSE IF h.first = Absent THEN ParseSuffix(h.last, len)
    ELSE IF ParseNumber(h.first) = {} THEN Ignore
    ELSE IF h.last # Absent /\ \A n \in ParseNumber(h.last) : n < h.first THEN Ignore
    ELSE IF h.first >= len THEN Unsatisfiable
    ELSE Satisfiable(h.first, IF h.last = Absent \/ h.last >= len THEN len - 1 ELSE h.last)

-----------------------------------------------------------------------------
(* The answer                                                               *)

Bytes(file, first, last) == {[version |-> file.version, place |-> i] : i \in first .. last}
Partial(file, r) ==
    [status |-> 206, tag |-> FileEtag(file), first |-> r.first, length |-> r.last - r.first + 1,
     total |-> file.len, body |-> Bytes(file, r.first, r.last)]
Whole(file) ==
    [status |-> 200, tag |-> FileEtag(file), first |-> 0, length |-> file.len,
     total |-> file.len, body |-> Bytes(file, 0, file.len - 1)]
Bare(status, file) == [status |-> status, tag |-> FileEtag(file), first |-> 0, length |-> 0,
                       total |-> file.len, body |-> {}]

\* stream_file.
StreamFile(h, file) ==
    LET etag == FileEtag(file)
        range == IF IfRangeAllows(h.ifRange, etag) /\ h.range.given
                 THEN ParseRange(h.range, file.len) ELSE Ignore
    IN IF IfNoneMatch(h.ifNoneMatch, etag) THEN Bare(304, file)
       ELSE IF range = Unsatisfiable THEN Bare(416, file)
       ELSE IF range = Ignore THEN Whole(file)
       ELSE Partial(file, range)

\* download: the grant, the path, the slot and the file come first.
Refused(q) ==
    IF ~q.granted THEN 404 ELSE IF ~q.pathOk THEN 400 ELSE IF q.busy THEN 503
    ELSE IF ~q.exists THEN 404 ELSE IF q.file.len > MaxDownload THEN 413 ELSE 0

Download ==
    /\ Asked("download")
    /\ Reply(IF Refused(question) # 0
             THEN [pc |-> "done", file |-> question.file, resumed |-> FALSE,
                   response |-> Bare(Refused(question), question.file)]
             ELSE [pc |-> "sent", file |-> question.file, resumed |-> FALSE,
                   response |-> StreamFile(question.headers, question.file)])

-----------------------------------------------------------------------------
(* A client that is cut off, and asks again                                 *)

\* The client has all, or nothing that it goes on from.
Leave ==
    /\ Under("download") /\ Now.pc = "sent"
    /\ Reply([Now EXCEPT !.pc = "done"])

\* It has kept n bytes of a whole answer.
CutOff(n) ==
    /\ Under("download") /\ Now.pc = "sent" /\ Now.response.status = 200
    /\ n < Now.response.length
    /\ Reply([pc |-> "cut", file |-> Now.file, resumed |-> TRUE, tag |-> Now.response.tag,
              kept |-> {b \in Now.response.body : b.place < n}, response |-> Now.response])

\* Another version replaces the file, or is written into it and leaves its length
\* and its time as they were.
Replace(len, seen) ==
    /\ Under("download") /\ Now.pc = "cut" /\ Now.file.version = question.file.version
    /\ seen \/ len = Now.file.len
    /\ Reply([Now EXCEPT !.file = [version |-> @.version + 1, len |-> len,
                                   stamp |-> IF seen THEN @.stamp + 1 ELSE @.stamp]])

\* The rest is asked for from the first byte that is missing, on the condition that
\* the file is the one that it was.
Resume(upto) ==
    /\ Under("download") /\ Now.pc = "cut"
    /\ LET h == [ifNoneMatch |-> NoHeader, ifRange |-> [given |-> TRUE, tag |-> Now.tag],
                 range |-> [given |-> TRUE, unit |-> "bytes", many |-> FALSE,
                            first |-> Cardinality(Now.kept),
                            last |-> IF upto THEN Now.response.total ELSE Absent]]
           r == StreamFile(h, Now.file)
       IN Reply([Now EXCEPT !.pc = "done", !.response = r,
                            !.kept = IF r.status = 206 THEN @ \cup r.body ELSE r.body])

DownloadStep ==
    \/ Download \/ Leave
    \/ \E n \in 0 .. MaxDownload : CutOff(n)
    \/ \E len \in 0 .. MaxDownload, seen \in BOOLEAN : Replace(len, seen)
    \/ \E upto \in BOOLEAN : Resume(upto)

-----------------------------------------------------------------------------
(* Properties                                                               *)

\* What a client puts together from an answer that was cut off and the one that it
\* asked the rest with is a file that there was, whole: If-Range never lets through
\* a part of another version, not even of one with the same length and time
\* (browse.rs, if_range_allows and metadata_etag).
ResumedIsWhole ==
    Done("download") /\ Now.resumed => Now.kept = Bytes(Now.file, 0, Now.file.len - 1)

\* The bytes that a range of the request is of, by what RFC 9110 says.
Meant(h, len) == {i \in 0 .. len - 1 : IF h.first = Absent THEN i >= len - h.last
                                       ELSE i >= h.first /\ (h.last = Absent \/ i <= h.last)}

\* A partial answer holds the bytes that were asked for and says where they are, none
\* are refused unless there is none of them, and all else is the whole file or none
\* of it, under the tag of the file (browse.rs, stream_file and parse_range).
RangesAreExact ==
    Done("download") /\ ~Now.resumed =>
        LET r == Now.response  h == question.headers.range
            places == {b.place : b \in r.body}
        IN /\ r.status = 206 => /\ places = Meant(h, r.total) /\ places # {}
                                /\ places = r.first .. r.first + r.length - 1
           /\ r.status = 416 => Meant(h, r.total) = {}
           /\ r.status = 200 => places = 0 .. r.total - 1
           /\ r.status = 200 /\ h.given /\ ~question.headers.ifRange.given
                /\ h.unit = "bytes" /\ ~h.many /\ {h.first, h.last} \subseteq 0 .. MaxNumber
                => h.last < h.first
           /\ r.status = 304 => question.headers.ifNoneMatch.given

\* A download is exact, at once or in two parts (browse.rs, download).
DownloadsAreExact == ResumedIsWhole /\ RangesAreExact
=============================================================================
