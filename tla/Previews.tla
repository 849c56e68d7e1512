------------------------------ MODULE Previews ------------------------------
(***************************************************************************)
(* What a preview says of a file and what the routes that it leads to then *)
(* serve (src/preview.rs): the document with its kind and its offers, the  *)
(* image, the SVG image, the rendered page, the source and the new tab.    *)
(* Each route opens the file again and judges it by its beginning alone,   *)
(* under limits of its own.                                                *)
(*                                                                         *)
(* A file is a sequence of tokens, each of one byte as far as limits go.   *)
(* The first may be a signature; "e1" and "e2" are the halves of one       *)
(* character, "bad" is no text and "ctl" is a control character.           *)
(***************************************************************************)
EXTENDS Media

CONSTANTS
    HeaderBytes,    \* SIGNATURE_HEADER_BYTES
    HeadBytes,      \* HEAD_MAX_BYTES
    HeadLines,      \* HEAD_MAX_LINES
    PdfWindow,      \* PDF_SIGNATURE_WINDOW
    ScanBytes,      \* GIF_ANIMATION_SCAN_BYTES
    MaxPixels,      \* MAX_IMAGE_PIXELS
    MaxSource       \* MAX_SOURCE_BYTES of a thumbnail

ASSUME PreviewsAssumption ==
    /\ {HeaderBytes, HeadBytes, HeadLines, PdfWindow, ScanBytes, MaxPixels, MaxSource} \subseteq Nat \ {0}
    /\ HeadBytes <= HeaderBytes

Take(s, n) == SubSeq(s, 1, IF n < Len(s) THEN n ELSE Len(s))
Has(s, x) == \E i \in DOMAIN s : s[i] = x
Begins(s, x) == s # <<>> /\ s[1] = x

\* PreviewPolicy with the cap that effective_policy puts on it.
EffectivePolicy(limits) ==
    [maxBytes |-> limits.preview, maxRender |-> Least(limits.render, limits.download)]

-----------------------------------------------------------------------------
(* What the beginning of a file says                                        *)

ReadHeader(file) == Take(file.bytes, HeaderBytes)
ReachedEnd(header) == Len(header) < HeaderBytes
Size(file) == Len(file.bytes)

AvifBrands == {"avif"}
HeicBrands == {"heic"}
HeifBrands == {"mif1"}

\* ftyp_brands: of a box that the header holds all of.
FtypBrands(file, header) ==
    IF Begins(header, "ftyp") /\ 1 + file.brands <= Len(header) /\ file.brands > 0
    THEN <<SubSeq(header, 2, 1 + file.brands)>> ELSE <<>>

\* classify_heif: "" is none.
ClassifyHeif(file, header) ==
    LET brands == FtypBrands(file, header)
        Names(list) == \E i \in DOMAIN brands[1] : brands[1][i] \in list
    IN IF ~Begins(header, "ftyp") \/ Len(header) < 2 THEN ""
       ELSE IF header[2] = "avif" THEN "image/avif"
       ELSE IF brands = <<>> THEN ""
       ELSE IF Names(AvifBrands) THEN "image/avif"
       ELSE IF Names(HeicBrands) THEN "image/heic"
       ELSE IF Names(HeifBrands) THEN "image/heif" ELSE ""

\* classify_image.
ClassifyImage(file, header) ==
    CASE Begins(header, "png") -> IF 0 \in {file.width, file.height} THEN "" ELSE "image/png"
      [] Begins(header, "gif") -> "image/gif"
      [] Begins(header, "jpeg") -> "image/jpeg"
      [] Begins(header, "webp") -> "image/webp"
      [] OTHER -> ClassifyHeif(file, header)

\* validate_image_dimensions; -1 is what the header does not say.
DimensionsValid(file) ==
    file.width = -1 \/ (0 \notin {file.width, file.height} /\ file.width * file.height <= MaxPixels)

\* Text: from_utf8 and contains_binary_control.
NoUtf8 == {"bad", "png", "jpeg", "ebml", "tiff"}
Controls == {"ctl", "gif", "webp", "wave", "ftyp", "ogg", "theora", "flac", "id3"}
IsUtf8(b) ==
    \A i \in DOMAIN b : /\ b[i] \notin NoUtf8
                        /\ b[i] = "e1" => i < Len(b) /\ b[i + 1] = "e2"
                        /\ b[i] = "e2" => i > 1 /\ b[i - 1] = "e1"
ValidUpTo(b) == Max({n \in 0 .. Len(b) : IsUtf8(Take(b, n))})
BinaryControl(b) == \E i \in DOMAIN b : b[i] \in Controls

\* check_text_prefix: a character that the header cuts is left out of the text.
CheckTextPrefix(header, atEnd) ==
    LET cut == ~atEnd /\ header # <<>> /\ Last(header) = "e1" /\ ValidUpTo(header) = Len(header) - 1
        text == IF cut THEN Front(header) ELSE header
    IN IF ~IsUtf8(text) THEN [error |-> "invalid_utf8", text |-> <<>>]
       ELSE IF BinaryControl(text) THEN [error |-> "binary", text |-> <<>>]
       ELSE [error |-> "", text |-> text]

\* is_pdf: later in the window only of what is no text.
IsPdf(header) ==
    \/ Begins(header, "pdf")
    \/ Has(Take(header, PdfWindow), "pdf") /\ CheckTextPrefix(header, ReachedEnd(header)).error # ""

\* classify_iso_bmff, and the rest of classify_audio_video.
ClassifyIsoBmff(file, header) ==
    LET brands == FtypBrands(file, header) IN
    IF brands = <<>> THEN ""
    ELSE IF \E i \in DOMAIN brands[1] : brands[1][i] \in AvifBrands \cup HeicBrands \cup HeifBrands THEN ""
    ELSE CASE brands[1][1] = "M4A" -> "audio/mp4" [] brands[1][1] = "isom" -> "video/mp4" [] OTHER -> ""
ClassifyAudioVideo(file, header) ==
    LET iso == ClassifyIsoBmff(file, header) IN
    CASE iso # "" -> iso
      [] iso = "" /\ Begins(header, "ebml") -> "video/webm"
      [] iso = "" /\ Begins(header, "theora") -> "video/ogg"
      [] iso = "" /\ Begins(header, "ogg") -> "audio/ogg"
      [] iso = "" /\ Begins(header, "wave") -> "audio/wav"
      [] iso = "" /\ Begins(header, "flac") -> "audio/flac"
      [] iso = "" /\ Begins(header, "id3") -> "audio/mpeg"
      [] OTHER -> ""

\* classify_streamed: images first.
Images == {"image/png", "image/gif", "image/jpeg", "image/webp", "image/avif", "image/heic", "image/heif"}
ClassifyStreamed(file, header) ==
    LET image == ClassifyImage(file, header) IN
    IF image # "" THEN [error |-> IF DimensionsValid(file) THEN "" ELSE "unsupported", media |-> image]
    ELSE [error |-> "", media |-> IF IsPdf(header) THEN "application/pdf" ELSE ClassifyAudioVideo(file, header)]
MediaKind(media) ==
    CASE media \in Images -> "image" [] media = "application/pdf" -> "pdf"
      [] media \in {"video/webm", "video/mp4", "video/ogg"} -> "video" [] OTHER -> "audio"

\* is_svg_document: what may come before the first element, and its start tag.
Later(s, i, x) == {j \in i .. Len(s) : s[j] = x}
RECURSIVE AfterProlog(_, _, _)
AfterProlog(t, i, seen) ==
    IF i > Len(t) THEN 0
    ELSE IF t[i] = "nl" THEN AfterProlog(t, i + 1, seen)
    ELSE IF t[i] = "<!--" THEN
        IF Later(t, i + 1, "-->") = {} THEN 0 ELSE AfterProlog(t, Min(Later(t, i + 1, "-->")) + 1, seen)
    ELSE IF t[i] = "<!DOCTYPE" THEN
        LET close == Later(t, i + 1, ">") IN
        IF close = {} \/ seen THEN 0
        ELSE LET declared == SubSeq(t, i + 1, Min(close) - 1) IN
             IF ~Begins(declared, "svg") \/ Has(declared, "[") THEN 0
             ELSE AfterProlog(t, Min(close) + 1, TRUE)
    ELSE i
RECURSIVE SvgTag(_, _, _)
SvgTag(t, i, namespace) ==
    IF i > Len(t) THEN FALSE
    ELSE CASE t[i] = ">" -> namespace
           [] t[i] = "xmlns" -> SvgTag(t, i + 1, TRUE)
           [] t[i] \in {"nl", "attr"} -> SvgTag(t, i + 1, namespace)
           [] OTHER -> FALSE
SvgFrom(t, i) ==
    LET root == AfterProlog(t, i, FALSE) IN
    IF root = 0 THEN FALSE ELSE t[root] = "<svg" /\ SvgTag(t, root + 1, FALSE)
SvgIn(t) ==
    LET begun == IF Begins(t, "bom") THEN 2 ELSE 1
        declared == begun <= Len(t) /\ t[begun] = "<?xml"
        close == Later(t, begun + 1, "?>")
    IN IF ~declared THEN SvgFrom(t, begun) ELSE IF close = {} THEN FALSE ELSE SvgFrom(t, Min(close) + 1)
\* Mutant: the text is examined beyond what a header would hold.
IsSvgAnywhere(text) == SvgIn(text)

IsSvgDocument(text) == SvgIn(Take(text, HeaderBytes))

-----------------------------------------------------------------------------
(* The document                                                             *)

\* classify: by the extension.
ClassifyPath(file) ==
    CASE file.extension = "html" -> "html_source" [] file.extension = "md" -> "markdown_source"
      [] file.extension = "rs" -> "code" [] OTHER -> "text"

\* text_head_len: whole lines, as many as are shown, or whole characters.
TextHead(window) ==
    LET feeds == {i \in DOMAIN window : window[i] = "nl"} IN
    IF feeds = {} THEN Take(window, ValidUpTo(window))
    ELSE Take(window, Max({i \in feeds : Cardinality({j \in feeds : j <= i}) <= HeadLines}))
LineCount(text) == Cardinality({i \in DOMAIN text : text[i] = "nl"})
                     + (IF text = <<>> THEN 0 ELSE IF Last(text) = "nl" THEN 0 ELSE 1)

\* webp_is_animated looks for a chunk in the header; gif_is_animated walks the blocks to
\* a second image.
WebpAnimated(header) == Has(header, "anim")
GifImages(bytes) ==
    LET blocks == Take(bytes, ScanBytes)
        walked == {i \in 2 .. Len(blocks) : \A j \in 2 .. i : blocks[j] \in {"image", "ext"}}
    IN Cardinality({i \in walked : blocks[i] = "image"})
Thumbnailable(file, header, media) ==
    CASE media \in {"image/png", "image/jpeg"} -> TRUE
      [] media = "image/webp" -> ~WebpAnimated(header)
      [] media = "image/gif" -> GifImages(file.bytes) < 2
      [] OTHER -> FALSE

Document(kind, file) ==
    [error |-> "", kind |-> kind, media |-> "", source |-> <<>>, size |-> Size(file), truncated |-> FALSE,
     lines |-> 0, openable |-> TRUE, renderable |-> FALSE, thumbnailable |-> FALSE]
Failed(error) == [error |-> error]

\* load.
Load(file, policy) ==
    LET header == ReadHeader(file)
        streamed == ClassifyStreamed(file, header)
        prefix == CheckTextPrefix(header, ReachedEnd(header))
        renders == Size(file) <= policy.maxRender
        head == TextHead(Take(header, Least(policy.maxBytes, HeadBytes)))
        whole == CheckTextPrefix(file.bytes, TRUE)
        svg == IsSvgDocument(IF Size(file) > policy.maxBytes THEN prefix.text ELSE file.bytes)
        kind == IF svg /\ (Size(file) <= policy.maxBytes \/ renders) THEN "svg" ELSE ClassifyPath(file)
        text == [Document(kind, file) EXCEPT !.renderable = kind = "html_source" /\ renders]
    IN IF streamed.error # "" THEN Failed(streamed.error)
       ELSE IF streamed.media # "" THEN
            [Document(MediaKind(streamed.media), file) EXCEPT
                !.media = streamed.media, !.openable = MediaKind(streamed.media) \in {"image", "pdf"},
                !.thumbnailable = Thumbnailable(file, header, streamed.media)]
       ELSE IF Begins(header, "tiff") /\ Size(file) <= MaxSource /\ file.jpegInside THEN
            [Document("raw", file) EXCEPT !.openable = FALSE, !.thumbnailable = TRUE]
       ELSE IF prefix.error # "" THEN Failed(prefix.error)
       ELSE IF Size(file) > policy.maxBytes THEN
            [text EXCEPT !.source = head, !.truncated = TRUE, !.lines = LineCount(head)]
       ELSE IF whole.error # "" THEN Failed(whole.error)
       ELSE [text EXCEPT !.source = file.bytes]

-----------------------------------------------------------------------------
(* The routes                                                               *)

Serves(type, file) == [error |-> "", type |-> type, body |-> file.bytes]

\* open_streamed_text.
StreamedText(file) ==
    LET header == ReadHeader(file)
        streamed == ClassifyStreamed(file, header)
        prefix == CheckTextPrefix(header, ReachedEnd(header))
    IN IF streamed.error # "" THEN [error |-> streamed.error, svg |-> FALSE]
       ELSE IF streamed.media # "" THEN [error |-> "unsupported", svg |-> FALSE]
       ELSE [error |-> prefix.error, svg |-> prefix.error = "" /\ IsSvgDocument(prefix.text)]

\* preview_svg.
PreviewSvg(file, limits) ==
    LET text == StreamedText(file) IN
    IF text.error # "" THEN Failed(text.error)
    ELSE IF ~text.svg THEN Failed("unsupported")
    ELSE IF Size(file) > EffectivePolicy(limits).maxRender THEN Failed("too_large")
    ELSE Serves("image/svg+xml", file)

\* preview_html_rendered, to a frame.
PreviewHtmlRendered(file, limits) ==
    LET text == StreamedText(file) IN
    IF text.error # "" THEN Failed(text.error)
    ELSE IF ClassifyPath(file) # "html_source" \/ text.svg THEN Failed("unsupported")
    ELSE IF Size(file) > EffectivePolicy(limits).maxRender THEN Failed("too_large")
    ELSE Serves("text/html", file)

\* preview_html_source: of what load returns.
PreviewHtmlSource(file, limits) ==
    LET document == Load(file, EffectivePolicy(limits)) IN
    IF document.error # "" THEN document
    ELSE IF document.kind # "html_source" THEN Failed("unsupported")
    ELSE IF document.truncated THEN Failed("too_large")
    ELSE Serves("text/plain", file)

\* preview_image.
PreviewImage(file, limits) ==
    LET image == ClassifyImage(file, ReadHeader(file)) IN
    IF Size(file) > limits.download THEN Failed("too_large")
    ELSE IF image = "" \/ ~DimensionsValid(file) THEN Failed("unsupported")
    ELSE Serves(image, file)

\* open_for_inline.
OpenInline(file, limits) ==
    LET header == ReadHeader(file)
        streamed == ClassifyStreamed(file, header)
        prefix == CheckTextPrefix(header, ReachedEnd(header))
    IN IF Size(file) > limits.download THEN Failed("too_large")
       ELSE IF streamed.error # "" THEN Failed(streamed.error)
       ELSE IF streamed.media # "" THEN Serves(streamed.media, file)
       ELSE IF prefix.error # "" THEN Failed(prefix.error)
       ELSE IF Size(file) <= EffectivePolicy(limits).maxRender /\ IsSvgDocument(prefix.text)
            THEN Serves("image/svg+xml", file) ELSE Serves("text/plain", file)

\* request_document and then, for what it offers, the routes that the client asks; a
\* request to a tab is refused the page before anything else (frame_only_response).
RequestDocument ==
    /\ Asked("preview")
    /\ IF ~question.granted THEN Reply([pc |-> "done", document |-> Failed("not_found")])
       ELSE LET document == Load(question.file, EffectivePolicy(question.limits)) IN
            Reply([pc |-> IF document.error = "" THEN "shown" ELSE "done", document |-> document])
RequestRoutes(frame) ==
    /\ Under("preview")
    /\ Reply([pc |-> "done", document |-> Now.document, frame |-> frame,
              svg |-> PreviewSvg(question.file, question.limits),
              image |-> PreviewImage(question.file, question.limits),
              rendered |-> IF frame THEN PreviewHtmlRendered(question.file, question.limits)
                                    ELSE Failed("frame_only"),
              source |-> PreviewHtmlSource(question.file, question.limits),
              inline |-> OpenInline(question.file, question.limits)])

PreviewStep == RequestDocument \/ \E frame \in BOOLEAN : RequestRoutes(frame)

-----------------------------------------------------------------------------
(* Properties                                                               *)

\* What a document offers, the routes serve, whole and as what it says: an SVG as an
\* image in the panel and in a tab, an image, a page that renders, a source that is not
\* cut; and what they serve as a page or as an SVG image, the document has called so.
\* Each judges a beginning of the file that may end within a character or a tag, under
\* a limit of its own, which the download limit may undercut.  What a document shows of
\* a longer text is a beginning of it, of whole lines or at least whole characters, and
\* as many as it says (preview.rs, load, open_streamed_text and open_for_inline).
OffersAreServed ==
    Done("preview") /\ Now.document.error = "" =>
        LET d == Now.document
            fits == d.size <= question.limits.download
            bytes == question.file.bytes
            Whole(r, type) == r.error = "" /\ r.body = bytes /\ r.type = type
        IN /\ (d.kind = "svg" /\ d.size <= EffectivePolicy(question.limits).maxRender) <=> Now.svg.error = ""
           /\ d.kind = "image" /\ fits => Whole(Now.image, d.media) /\ Whole(Now.inline, d.media)
           /\ Now.frame => (d.renderable <=> Now.rendered.error = "")
           /\ d.kind = "html_source" /\ ~d.truncated => Whole(Now.source, "text/plain")
           /\ d.openable /\ fits => Now.inline.error = ""
           /\ Now.inline.error = "" /\ Now.inline.type = "image/svg+xml" => d.kind = "svg"
           /\ Now.inline.error = "" => Now.inline.type # "text/html"
           /\ d.truncated =>
                /\ IsPrefix(d.source, bytes) /\ IsUtf8(d.source)
                /\ Cardinality({i \in DOMAIN d.source : d.source[i] = "nl"}) <= HeadLines
                /\ Has(d.source, "nl") => Last(d.source) = "nl" /\ d.lines <= HeadLines

\* What a preview says of a file is true of it: the codecs that it names and the routes
\* that it offers (preview.rs, load and media_codecs).
PreviewsAreTrue == CodecsAreTrue /\ OffersAreServed

=============================================================================
