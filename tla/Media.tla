------------------------------- MODULE Media --------------------------------
(***************************************************************************)
(* The codecs that a preview names, read from the beginning of a media     *)
(* file (src/preview.rs, media_codecs): the elements of a Matroska file    *)
(* and the boxes of an MP4 one, of which the header may hold a part only.  *)
(*                                                                         *)
(* A file is a sequence of cells.  An element is a cell with its name and  *)
(* the number of cells that it says it has, and then these.                *)
(***************************************************************************)
EXTENDS Questions

CONSTANT MaxCodecs      \* MAX_MEDIA_CODECS

ASSUME MediaAssumption == MaxCodecs \in Nat \ {0}

Unknown == -1   \* the size that says nothing
Cell(id, size) == [id |-> id, size |-> size]

-----------------------------------------------------------------------------
(* The list of the codecs                                                   *)

\* CodecList::push; a codec without a name is "".
Push(list, codec) ==
    IF codec = "" THEN [list EXCEPT !.unknown = TRUE]
    ELSE IF Len(list.codecs) < MaxCodecs /\ ~\E i \in DOMAIN list.codecs : list.codecs[i] = codec
         THEN [list EXCEPT !.codecs = Append(@, codec)] ELSE list

\* CodecList::finish; <<>> is None.
Finish(list) == IF list.unknown THEN <<>> ELSE list.codecs
NoCodecs == [codecs |-> <<>>, unknown |-> FALSE]

-----------------------------------------------------------------------------
(* Matroska                                                                 *)

\* The elements of a region one after the other (ebml_element), each with what there is
\* of it; the last may be cut, or have no size.
RECURSIVE Elements(_, _)
Elements(r, o) ==
    IF o > Len(r) THEN <<>>
    ELSE LET e == [id |-> r[o].id, sized |-> r[o].size # Unknown, data |-> o + 1,
                   end |-> IF r[o].size = Unknown THEN Len(r) ELSE o + r[o].size]
         IN <<e>> \o (IF e.sized THEN Elements(r, e.end + 1) ELSE <<>>)
Content(r, e) == SubSeq(r, e.data, IF e.end < Len(r) THEN e.end ELSE Len(r))

\* matroska_track_fields: the codec of an entry and its private data, of whole elements
\* only.
TrackFields(entry) ==
    LET es == Elements(entry, 1)
        Value(id) == LET of == SelectSeq(es, LAMBDA e : e.id = id)
                     IN IF of = <<>> THEN "" ELSE entry[Last(of).data].id
    IN IF \E i \in DOMAIN es : ~es[i].sized \/ es[i].end > Len(entry) THEN <<>>
       ELSE <<[codec |-> Value("codec"), private |-> Value("private")]>>

\* matroska_codec.
MatroskaCodec(f) ==
    CASE f.codec = "V_VP9" -> "vp9"
      [] f.codec = "A_OPUS" -> "opus"
      [] f.codec = "V_AV1" /\ f.private = "av1C" -> "av01"
      [] OTHER -> ""

\* matroska_track_codecs.
TrackCodecs(r) ==
    LET es == Elements(r, 1)
        whole == SelectSeq(es, LAMBDA e : e.end <= Len(r))
    IN IF \E i \in DOMAIN es : ~es[i].sized THEN <<>>
       ELSE Finish(FoldLeft(LAMBDA list, e :
            LET fields == TrackFields(Content(r, e)) IN
            IF e.id # "entry" THEN list
            ELSE IF fields = <<>> THEN Push(list, "")
            ELSE IF fields[1].codec \in {"V_VP9", "V_AV1", "V_AVC", "A_OPUS"}
                 THEN Push(list, MatroskaCodec(fields[1])) ELSE list, NoCodecs, whole))

\* matroska_codecs: of the tracks that come before the first cluster.
MatroskaCodecs(h) ==
    LET top == Elements(h, 1)
        segment == top[2]
        parts == Elements(SubSeq(h, 1, IF segment.end < Len(h) THEN segment.end ELSE Len(h)), segment.data)
        stops == {i \in DOMAIN parts : parts[i].id \in {"tracks", "cluster"} \/ ~parts[i].sized}
    IN IF Len(top) < 2 \/ ~top[1].sized THEN <<>>
       ELSE IF top[1].id # "ebml" \/ segment.id # "segment" \/ stops = {} THEN <<>>
       ELSE LET first == parts[Min(stops)] IN
            IF first.id # "tracks" \/ ~first.sized THEN <<>>
            ELSE TrackCodecs(SubSeq(h, first.data,
                     Min({first.end, segment.end, Len(h)})))

-----------------------------------------------------------------------------
(* MP4                                                                      *)

\* IsoBoxes: a box of no size goes to the end, and one that is cut is the last.
RECURSIVE IsoBoxes(_, _)
IsoBoxes(r, o) ==
    IF o > Len(r) THEN <<>>
    ELSE LET end == IF r[o].size = Unknown THEN Len(r) + 1 ELSE o + r[o].size
             box == [kind |-> r[o].id, content |-> SubSeq(r, o + 1, IF end < Len(r) THEN end ELSE Len(r)),
                     complete |-> end <= Len(r)]
         IN <<box>> \o (IF box.complete THEN IsoBoxes(r, end + 1) ELSE <<>>)

\* iso_child and iso_complete_child: the content of the first box of a kind, if any.
IsoChild(r, kind) ==
    LET found == SelectSeq(IsoBoxes(r, 1), LAMBDA b : b.kind = kind)
    IN IF found = <<>> THEN <<>> ELSE <<Head(found).content>>
IsoCompleteChild(r, kind) ==
    LET found == SelectSeq(IsoBoxes(r, 1), LAMBDA b : b.kind = kind)
    IN IF found = <<>> \/ ~Head(found).complete THEN <<>> ELSE <<Head(found).content>>
RECURSIVE Down(_, _)
Down(r, kinds) ==
    IF kinds = <<>> THEN <<r>>
    ELSE LET c == IsoChild(r, Head(kinds)) IN IF c = <<>> THEN <<>> ELSE Down(c[1], Tail(kinds))

\* iso_sample_entry_codec: of the entry itself, or of the box with its configuration.
SampleEntryCodec(kind, entry) ==
    LET config == IF entry = <<>> THEN <<>> ELSE IsoCompleteChild(Tail(entry), "config") IN
    CASE kind = "Opus" -> "opus"
      [] kind = "avc1" /\ config # <<>> /\ config[1] # <<>> -> "avc1"
      [] kind = "mp4a" /\ config # <<>> /\ config[1] # <<>> -> "mp4a"
      [] OTHER -> ""

\* iso_track_codecs.
IsoTrackCodecs(list, trak) ==
    LET mdia == IsoChild(trak, "mdia")
        hdlr == IsoCompleteChild(mdia[1], "hdlr")
        stsd == Down(mdia[1], <<"minf", "stbl", "stsd">>)
        boxes == IsoBoxes(Tail(stsd[1]), 1)
        count == IF stsd[1][1].size < MaxCodecs THEN stsd[1][1].size ELSE MaxCodecs
        entries == SelectSeq(SubSeq(boxes, 1, IF count < Len(boxes) THEN count ELSE Len(boxes)),
                             LAMBDA b : b.complete)
    IN IF mdia = <<>> THEN list
       ELSE IF hdlr = <<>> THEN list
       ELSE IF hdlr[1] = <<>> \/ hdlr[1][1].id \notin {"vide", "soun"} THEN list
       ELSE IF stsd = <<>> THEN list
       ELSE IF stsd[1] = <<>> THEN list
       ELSE FoldLeft(LAMBDA l, b : Push(l, SampleEntryCodec(b.kind, b.content)), list, entries)

\* iso_bmff_codecs.
IsoBmffCodecs(h) ==
    LET moov == IsoChild(h, "moov") IN
    IF moov = <<>> THEN <<>>
    ELSE Finish(FoldLeft(LAMBDA l, b : IF b.kind = "trak" THEN IsoTrackCodecs(l, b.content) ELSE l,
                         NoCodecs, IsoBoxes(moov[1], 1)))

\* media_codecs, of the cells that the header holds.
MediaCodecs ==
    /\ Asked("codecs")
    /\ LET h == SubSeq(question.file, 1, question.header) IN
       Reply([pc |-> "done",
              codecs |-> IF question.mime = "video/webm" THEN MatroskaCodecs(h) ELSE IsoBmffCodecs(h)])

-----------------------------------------------------------------------------
(* The files, as their formats have them (external)                         *)

Elem(id, content) == <<Cell(id, Len(content))>> \o content
Value(id) == <<Cell(id, 0)>>
\* The way that a track of a codec is written, and the name that it should have.
WebmTrack(t) == Elem("entry", Elem("codec", Value(t.is)) \o (IF t.private THEN Elem("private", Value("av1C")) ELSE <<>>))
Mp4Track(t) ==
    Elem("trak", Elem("mdia", Elem("hdlr", Value(t.handler)) \o Elem("minf", Elem("stbl", Elem("stsd",
        <<Cell("count", 1)>> \o Elem(t.is, Value("fixed") \o (IF t.private THEN Elem("config", Value("x")) ELSE <<>>)))))))
Webm(tracks, late) ==
    LET ts == Elem("tracks", FlattenSeq([i \in DOMAIN tracks |-> WebmTrack(tracks[i])])) IN
    Elem("ebml", Value("webm")) \o Elem("segment",
        Elem("info", Value("x")) \o (IF late THEN Elem("cluster", Value("x")) \o ts ELSE ts))
Mp4(tracks, late) ==
    LET moov == Elem("moov", FlattenSeq([i \in DOMAIN tracks |-> Mp4Track(tracks[i])]))
        mdat == <<Cell("mdat", IF late THEN 2 ELSE Unknown)>> \o Value("x") \o Value("x")
    IN Elem("ftyp", Value("isom")) \o (IF late THEN mdat \o moov ELSE moov \o mdat)

-----------------------------------------------------------------------------
(* Properties                                                               *)

\* What is named is what the file has: every name is the one of a sound or video track
\* of the file, a track of which the header holds all is named or none is, and when the
\* header holds all of them and each has a name there is an answer.  A name for what the
\* file has not would have the player refuse a file that the browser plays
\* (preview.rs, media_codecs and CodecList).
CodecsAreTrue ==
    Done("codecs") =>
        LET tracks == SelectSeq(question.tracks, LAMBDA t : t.plays)
            names == {tracks[i].name : i \in DOMAIN tracks}
            named == {Now.codecs[i] : i \in DOMAIN Now.codecs}
        IN /\ named \subseteq names
           /\ "" \in names => \/ named = {} \/ question.header < Len(question.file)
           /\ question.header = Len(question.file) /\ "" \notin names
                /\ ~(question.late /\ question.mime = "video/webm")
                => named = names \/ (Cardinality(named) = MaxCodecs /\ Cardinality(names) > MaxCodecs)
           /\ \A n \in DOMAIN question.ends : question.ends[n] <= question.header /\ question.header < Len(question.file)
                /\ ~(question.late /\ question.mime = "video/webm")
                /\ (\A i \in DOMAIN question.tracks : question.tracks[i].plays => question.tracks[i].name # "")
                /\ Len(question.tracks) <= MaxCodecs /\ question.tracks[n].plays
                => question.tracks[n].name \in named

=============================================================================
