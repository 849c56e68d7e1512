------------------------------ MODULE Pictures ------------------------------
(***************************************************************************)
(* How a picture is made small (src/thumbnail/decode.rs): what is planned  *)
(* from its header, what the plan is reserved for, and what comes of the   *)
(* pixels that the decoder then delivers, which may not be those that the  *)
(* header promised; and the picture that is found inside of a raw file     *)
(* (src/thumbnail/tiff.rs), whose directories may lead to each other.      *)
(***************************************************************************)
EXTENDS Previews

CONSTANTS
    Padding,        \* pixels that a decoder may add to a side of a JPEG
    Overhead,       \* FIXED_OVERHEAD
    MaxIfds,        \* MAX_IFDS
    MaxIfdDepth,    \* MAX_DEPTH
    MaxCandidates,  \* MAX_CANDIDATES
    MaxSegments,    \* MAX_JPEG_SEGMENTS
    MaxChunks       \* MAX_WEBP_CHUNKS

ASSUME PicturesAssumption ==
    {Padding, Overhead, MaxIfds, MaxIfdDepth, MaxCandidates, MaxSegments, MaxChunks} \subseteq Nat

CeilDiv(a, b) == (a + b - 1) \div b
Most(a, b) == IF a > b THEN a ELSE b

-----------------------------------------------------------------------------
(* Headers                                                                  *)

\* jpeg_header: the segments up to the first frame, with the orientation of the first
\* segment that has one; <<>> is an error.
JpegHeader(segments) ==
    LET stops == {i \in DOMAIN segments : i <= MaxSegments /\ segments[i].marker \in {"frame", "arithmetic", "scan"}}
        frame == segments[Min(stops)]
        exifs == {i \in DOMAIN segments : i < Min(stops) /\ segments[i].marker = "exif"}
    IN IF stops = {} THEN <<>>
       ELSE IF frame.marker # "frame" \/ 0 \in {frame.width, frame.height} THEN <<>>
       ELSE <<[width |-> frame.width, height |-> frame.height,
               orientation |-> IF exifs = {} THEN 1 ELSE segments[Min(exifs)].orientation]>>

\* webp_dimensions: of every chunk, the ones within a frame included, the larger of
\* each side.
WebpDimensions(chunks) ==
    LET all == chunks \o FlattenSeq([i \in DOMAIN chunks |-> chunks[i].within])
        width == Max({0} \cup {all[i].width : i \in DOMAIN all})
        height == Max({0} \cup {all[i].height : i \in DOMAIN all})
    IN IF Len(all) > MaxChunks \/ 0 \in {width, height} THEN <<>>
       ELSE <<[width |-> width, height |-> height]>>

\* plan: the dimensions that the header has, by the kind of the file.
HeaderOf(q) ==
    CASE q.kind = "jpeg" -> JpegHeader(q.segments)
      [] q.kind = "webp" -> LET d == WebpDimensions(q.chunks) IN
                            IF d = <<>> THEN <<>> ELSE <<d[1] @@ [orientation |-> 1]>>
      [] OTHER -> <<[width |-> q.width, height |-> q.height, orientation |-> 1]>>

-----------------------------------------------------------------------------
(* The plan                                                                 *)

\* output_size: the long edge, rounded, and no side of none.
\* Mutant: a thin picture may lose a side.
OutputSizeRounded(w, h, edge) ==
    LET longest == Most(w, h)
        Scaled(side) == (side * edge + longest \div 2) \div longest
    IN IF longest <= edge THEN <<w, h>> ELSE <<Scaled(w), Scaled(h)>>

OutputSize(w, h, edge) ==
    LET longest == Most(w, h)
        Scaled(side) == Most(1, (side * edge + longest \div 2) \div longest)
    IN IF longest <= edge THEN <<w, h>> ELSE <<Scaled(w), Scaled(h)>>

\* jpeg_scale: the largest that still covers the output.
JpegScale(w, h, out) ==
    Max({1} \cup {s \in {2, 4, 8} : CeilDiv(w, s) >= out[1] /\ CeilDiv(h, s) >= out[2]})

\* jpeg_decode_estimate and estimate, in what a pixel takes.
JpegDecodeEstimate(p, q) ==
    LET w == p.width + Padding  h == p.height + Padding
        scaled == CeilDiv(w, p.scale) * CeilDiv(h, p.scale)
    IN 2 * q.components * scaled + (IF q.progressive THEN 2 * q.components * w * h ELSE 0) + q.length
Estimate(p, q) ==
    LET pixels == p.width * p.height
        decode == CASE q.kind = "jpeg" -> JpegDecodeEstimate(p, q)
                    [] q.kind = "png" -> 8 * p.width + (IF q.interlaced THEN 4 * pixels ELSE 0)
                    [] q.kind = "gif" -> 5 * pixels
                    [] OTHER -> 20 * pixels
    IN decode + 8 * p.out[1] * p.out[2] + 4 * p.width + 4 * p.out[1] * p.out[2] + Overhead

Stops(error) == Reply([pc |-> "done", error |-> error])

\* plan, with check_pixels.
PlanPicture ==
    /\ Asked("picture")
    /\ LET header == HeaderOf(question)
           w == header[1].width  h == header[1].height
           out == OutputSize(w, h, question.edge)
           plan == [pc |-> "planned", width |-> w, height |-> h, out |-> out,
                    orientation |-> header[1].orientation,
                    scale |-> IF question.kind = "jpeg" THEN JpegScale(w, h, out) ELSE 1]
       IN IF question.length > MaxSource THEN Stops("too_large")
          ELSE IF header = <<>> \/ 0 \in {w, h} THEN Stops("corrupt")
          ELSE IF w * h > MaxPixels THEN Stops("too_large")
          ELSE Reply(plan @@ [estimate |-> Estimate(plan, question)])

-----------------------------------------------------------------------------
(* Rendering                                                                *)

\* Downscaler: the pixel of the output that one of the source goes to, and how many go
\* to each.
Target(x, source, out) == (x * out) \div source
Shares(w, h, out) ==
    [p \in (0 .. out[1] - 1) \X (0 .. out[2] - 1) |->
        Cardinality({x \in 0 .. w - 1 : Target(x, w, out[1]) = p[1]})
          * Cardinality({y \in 0 .. h - 1 : Target(y, h, out[2]) = p[2]})]

\* orient: where a pixel goes.
Orient(p, w, h, orientation) ==
    LET x == p[1]  y == p[2] IN
    CASE orientation = 2 -> <<w - 1 - x, y>>
      [] orientation = 3 -> <<w - 1 - x, h - 1 - y>>
      [] orientation = 4 -> <<x, h - 1 - y>>
      [] orientation = 5 -> <<y, x>>
      [] orientation = 6 -> <<h - 1 - y, x>>
      [] orientation = 7 -> <<h - 1 - y, w - 1 - x>>
      [] orientation = 8 -> <<y, w - 1 - x>>
      [] OTHER -> p

\* render, of what the decoder says that the picture is and the rows that it delivers.
\* A JPEG and a PNG must be what the header said, and no other more pixels than that.
Render(w, h, rows) ==
    /\ Under("picture")
    /\ LET jpeg == question.kind = "jpeg"
           width == CeilDiv(Now.width, Now.scale)  height == CeilDiv(Now.height, Now.scale)
           out == IF jpeg THEN <<Least(Now.out[1], w), Least(Now.out[2], h)>>
                          ELSE OutputSize(w, h, question.edge)
           held == CASE jpeg -> question.components * w * h
                     [] question.kind = "png" -> IF question.interlaced THEN 4 * w * h ELSE 8 * w
                     [] OTHER -> 4 * w * h
       IN IF \/ jpeg /\ (w > width \/ h > height)
             \/ question.kind = "png" /\ <<w, h>> # <<Now.width, Now.height>>
             \/ 0 \in {w, h} \/ w * h > Now.width * Now.height
             \/ rows # h
          THEN Stops("corrupt")
          ELSE Reply([pc |-> "done", error |-> "", size |-> <<w, h>>, out |-> out,
                      shares |-> Shares(w, h, out), orientation |-> Now.orientation,
                      held |-> held + 8 * out[1] * out[2], estimate |-> Now.estimate])

-----------------------------------------------------------------------------
(* Raw files                                                                *)

\* push_candidate.
PushCandidate(list, candidate, length) ==
    IF /\ candidate.length >= 1 /\ candidate.offset + candidate.length <= length
       /\ Len(list) < MaxCandidates /\ ~Has(list, candidate)
    THEN Append(list, candidate) ELSE list

\* scan begins with the first directory.
ScanTiff ==
    /\ Asked("tiff")
    /\ Reply([pc |-> "scan", pending |-> <<[offset |-> question.first, depth |-> 0]>>, visited |-> {},
              candidates |-> <<>>, orientation |-> 1])

\* One directory: the JPEG that it names, then its strip unless that is the data of the
\* sensor, and then those that it leads to, the last first.
Embedded(dir) == dir.jpeg \o IF dir.raw THEN <<>> ELSE dir.strip
VisitDirectory ==
    /\ Under("tiff") /\ Now.pending # <<>>
    /\ LET at == Last(Now.pending)
           rest == Front(Now.pending)
           dir == question.dirs[at.offset]
           children == IF at.depth < MaxIfdDepth THEN dir.children ELSE <<>>
           next == IF dir.next = 0 THEN <<>> ELSE <<[offset |-> dir.next, depth |-> at.depth]>>
       IN IF at.offset = 0 \/ Cardinality(Now.visited) >= MaxIfds \/ at.offset \in Now.visited
          THEN Reply([Now EXCEPT !.pending = rest])
          ELSE IF at.offset \notin DOMAIN question.dirs THEN
               IF at.offset = question.first THEN Stops("none")
               ELSE Reply([Now EXCEPT !.pending = rest, !.visited = @ \cup {at.offset}])
          ELSE Reply([Now EXCEPT !.visited = @ \cup {at.offset},
                        !.candidates = FoldLeft(LAMBDA l, c : PushCandidate(l, c, question.length), @, Embedded(dir)),
                        !.orientation = IF at.offset = question.first THEN dir.orientation ELSE @,
                        !.pending = rest \o [i \in DOMAIN children |-> [offset |-> children[i], depth |-> at.depth + 1]]
                                         \o next])

\* raw_preview: the largest that is a JPEG which can be decoded, the first of equals.
RawPreview ==
    /\ Under("tiff") /\ Now.pending = <<>>
    /\ LET decodable == SelectSeq(Now.candidates, LAMBDA c : c.pixels > 0)
           best == {i \in DOMAIN decodable : \A j \in DOMAIN decodable : decodable[j].pixels <= decodable[i].pixels}
       IN IF best = {} THEN Stops("none")
          ELSE Reply([pc |-> "done", error |-> "", preview |-> decodable[Min(best)],
                      visited |-> Now.visited, orientation |-> Now.orientation])

PictureStep ==
    \/ PlanPicture \/ ScanTiff \/ VisitDirectory \/ RawPreview
    \/ /\ Under("picture")
       /\ \E w \in 0 .. Now.width + 1, h \in 0 .. Now.height + 1 :
             \E rows \in {h, h - 1} : Render(w, h, rows)

-----------------------------------------------------------------------------
(* Properties                                                               *)

\* A picture that is rendered has no pixel that nothing of the source went to, whatever
\* its shape and its orientation, none of the source is lost, it is no larger than asked
\* for or than the source, and what is held for it is within what was reserved, whatever
\* the decoder makes of a header that lies.  The walk through a raw file ends though its
\* directories lead to each other, and what it finds is inside of the file and larger
\* than any other that its directories name, raw ones too (decode.rs, plan and render;
\* tiff.rs, scan).
PicturesAreWhole ==
    /\ Done("picture") /\ Now.error = "" =>
         LET out == Now.out  size == Now.size  places == DOMAIN Now.shares IN
         /\ out[1] \in 1 .. Least(size[1], question.edge) /\ out[2] \in 1 .. Least(size[2], question.edge)
         /\ \A p \in places : Now.shares[p] > 0
         /\ SumFunction(Now.shares) = size[1] * size[2]
         /\ {Orient(p, out[1], out[2], Now.orientation) : p \in places}
              = IF Now.orientation >= 5 THEN (0 .. out[2] - 1) \X (0 .. out[1] - 1) ELSE places
         /\ Now.held <= Now.estimate
         /\ question.kind = "webp" =>
              \A i \in DOMAIN question.chunks : \A j \in DOMAIN question.chunks[i].within :
                 4 * question.chunks[i].within[j].width * question.chunks[i].within[j].height <= Now.estimate
    /\ Under("tiff") => Len(Now.pending) <= 1 + 3 * Cardinality(Now.visited)
    /\ Done("tiff") /\ Now.error = "" =>
         /\ Now.preview.offset + Now.preview.length <= question.length
         /\ Now.orientation = question.dirs[question.first].orientation
         /\ LET found == UNION {ToSet(Embedded(question.dirs[o])) : o \in Now.visited \cap DOMAIN question.dirs}
                inside == {c \in found : c.offset + c.length <= question.length}
            IN Cardinality(inside) <= MaxCandidates => \A c \in inside : c.pixels <= Now.preview.pixels
         /\ Cardinality(Now.visited) < MaxIfds =>
               \A o \in Now.visited \cap DOMAIN question.dirs :
                  question.dirs[o].next \in Now.visited \cup {0}

=============================================================================
