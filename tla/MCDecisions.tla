---------------------------- MODULE MCDecisions -----------------------------
(* The questions that the modules about decisions are asked.                 *)
EXTENDS ZipWriter, Responses, Addresses, Paths, Pictures, Identity, Queries, TrashListing, Preferences

\* Sizes of files on both sides of what a field of the archive can hold, and
\* 203, after which the next record begins exactly at the limit; 48 is the length of the
\* directory of one folder, and 41 where it begins if the folder is dated.
Source(size, dated, looks) == [name |-> IF size = 0 THEN 4 ELSE 1, size |-> size, dated |-> dated,
                               looks |-> looks, compressed |-> size = 24]
SourceLists ==
    UNION {[1 .. n -> {-1, 0, 24, 48, 203, 216, 250, 1300}] : n \in 0 .. 2}
      \cup [1 .. 3 -> {-1, 216, 250}]

\* Some have a name, a time or a checksum that reads as a signature, or two numbers of the
\* end records do across their border.
ZipQuestion(auto, l, dated, looks, across) ==
    [what |-> "zip", auto |-> auto, across |-> across,
     sources |-> [i \in DOMAIN l |-> Source(l[i], dated, IF i = Len(l) THEN looks ELSE 0)]]
ZipQuestions ==
    {ZipQuestion(auto, l, dated, 0, 0) : l \in SourceLists, auto \in BOOLEAN, dated \in BOOLEAN}
      \cup {ZipQuestion(FALSE, l, TRUE, looks, 0) : l \in SourceLists, looks \in Signatures}
      \cup {ZipQuestion(FALSE, l, TRUE, 0, across) : l \in SourceLists, across \in Signatures}

\* Files of no byte and more, and headers on both sides of their lengths.
Numbers == {Absent, Malformed, 0, 1, 2, 3, MaxNumber, MaxNumber + 1}
RangeHeaders ==
    {NoHeader, [given |-> TRUE, unit |-> "lines", many |-> FALSE, first |-> 0, last |-> 1],
     [given |-> TRUE, unit |-> "bytes", many |-> TRUE, first |-> 0, last |-> 1]}
      \cup [given : {TRUE}, unit : {"bytes"}, many : {FALSE}, first : Numbers, last : Numbers]
TagHeaders(t) == {NoHeader} \cup {[given |-> TRUE, tag |-> tag] : tag \in t}
DownloadQuestions ==
    {[what |-> "download", granted |-> a # "grant", pathOk |-> a # "path", busy |-> a = "slot",
      exists |-> a # "file", file |-> [version |-> 1, len |-> len, stamp |-> 1],
      headers |-> [ifNoneMatch |-> inm, ifRange |-> ifr, range |-> range]] :
        a \in {"", "grant", "path", "slot", "file"}, len \in 0 .. MaxDownload + 1,
        range \in RangeHeaders, ifr \in TagHeaders({Tag(1, TRUE), Tag(1, FALSE)}),
        inm \in {NoHeader, [given |-> TRUE, tags |-> {AnyTag}],
                [given |-> TRUE, tags |-> {Tag(1, FALSE), Tag(2, TRUE)}],
                [given |-> TRUE, tags |-> {Tag(2, TRUE)}]}}

\* What a client may begin a header with, and the addresses of one request.
Tokens == {"forged", ",", "quote", "escape", ";", "for=", "by="}
Beginnings == UNION {[1 .. n -> Tokens] : n \in 0 .. 5} \cup {<<"other">>, <<"forged", "port">>,
    <<"inner">>, <<"forged", ",", "forged", ",", "forged", ",", "forged">>}
Known == [client |-> IP(6, 1), forged |-> IP(4, 2), inner |-> IP(4, 1)]
AddressQuestion(q) == [what |-> "address", instances |-> Forwarded(q, q.begun), known |-> Known,
                       networks |-> {[address |-> IP(4, 0), prefix |-> W4 - 1]},
                       peer |-> IP(6, MappedFrom)] @@ q
AddressQuestions ==
        [begun : Beginnings, header : {"xff"}, style : {"plain"}, separate : {FALSE}, proxies : 1 .. 2]
          \cup [begun : Beginnings, header : {"forwarded"}, style : {"plain", "quoted"},
               separate : {TRUE}, proxies : 1 .. 2]
IPs == {IP(4, b) : b \in 0 .. 2 ^ W4 - 1} \cup {IP(6, b) : b \in 0 .. 2 ^ W6 - 1}
NetworkQuestions == [what : {"network"}, entry : [address : IPs, prefix : -2 .. W6 + 1], address : IPs]

\* A share with a file in a folder in a folder, its private directory, and a
\* directory beside the share.
Disk == <<"root", "a">> :> Entry("dir", "d1") @@ <<"d1", "b">> :> Entry("dir", "d2")
          @@ <<"d2", "a">> :> Entry("file", "own") @@ <<"root", ".crabinet">> :> Entry("dir", "private")
          @@ <<"private", "a">> :> Entry("file", "staged") @@ <<"outside", "a">> :> Entry("file", "foreign")
Components == {"a", "b", "", "..", "bad", ".crabinet", ".CRABINET"}
PathValues == UNION {[1 .. n -> {"a", "b"}] : n \in 1 .. MaxDepth + 1}
                \cup {<<c>> : c \in Components} \cup {<<c, "a">> : c \in Components}
Grants == {[share |-> "this", access |-> a] : a \in {"read", "write"}} \cup {[share |-> "other", access |-> "write"]}
WalkQuestions ==
    [what : {"walk"}, op : {"list", "open", "metadata", "create"}, path : PathValues, folds : BOOLEAN,
     disk : {Disk}, grant : Grants,
     share : {[readOnly |-> r, staging |-> s] : r \in BOOLEAN, s \in BOOLEAN} \ {[readOnly |-> TRUE, staging |-> FALSE]}]
SelectionQuestions ==
    [what : {"selection"}, values : UNION {[1 .. n -> {<<"">>, <<"a">>, <<"b">>, <<"a", "b">>, <<"a", "a">>,
        <<"b", "a">>, <<"a", "..">>}] : n \in 0 .. MaxPaths + 1}]

\* Media files of up to three tracks, of which the header holds any part.
WebmTracks == {[is |-> "V_VP9", private |-> FALSE, plays |-> TRUE, name |-> "vp9"],
               [is |-> "A_OPUS", private |-> TRUE, plays |-> TRUE, name |-> "opus"],
               [is |-> "V_AV1", private |-> TRUE, plays |-> TRUE, name |-> "av01"],
               [is |-> "V_AVC", private |-> TRUE, plays |-> TRUE, name |-> ""],
               [is |-> "S_TEXT", private |-> FALSE, plays |-> FALSE, name |-> ""]}
Mp4Tracks == {[is |-> "avc1", handler |-> "vide", private |-> TRUE, plays |-> TRUE, name |-> "avc1"],
              [is |-> "Opus", handler |-> "soun", private |-> FALSE, plays |-> TRUE, name |-> "opus"],
              [is |-> "mp4a", handler |-> "soun", private |-> FALSE, plays |-> TRUE, name |-> ""],
              [is |-> "text", handler |-> "text", private |-> FALSE, plays |-> FALSE, name |-> ""]}
Ends(before, tracks, Track(_)) ==
    [n \in DOMAIN tracks |-> before + Len(FlattenSeq([i \in 1 .. n |-> Track(tracks[i])]))]
Lists(s, max) == UNION {[1 .. n -> s] : n \in 0 .. max}
CodecQuestion(mime, tracks, late) ==
    [what |-> "codecs", mime |-> mime, tracks |-> tracks, late |-> late] @@
    (IF mime = "video/webm"
     THEN [file |-> Webm(tracks, late), ends |-> Ends(Len(Webm(<<>>, late)), tracks, WebmTrack)]
     ELSE [file |-> Mp4(tracks, late), ends |-> Ends(Len(Mp4(<<>>, late)) - (IF late THEN 0 ELSE 3), tracks, Mp4Track)])
CodecInit ==
    \E late \in BOOLEAN :
        \/ \E tracks \in Lists(WebmTracks, 3) : LET q == CodecQuestion("video/webm", tracks, late) IN
             \E n \in 0 .. Len(q.file) : question = [header |-> n] @@ q
        \/ \E tracks \in Lists(Mp4Tracks, 3) : LET q == CodecQuestion("video/mp4", tracks, late) IN
             \E n \in 0 .. Len(q.file) : question = [header |-> n] @@ q

\* Texts of one byte more than a header, SVG documents that begin in many ways, and the
\* signatures, under limits in the usual order and with the one for downloads below the others.
TextBytes == Lists({"a", "nl", "e1", "e2"}, HeaderBytes + 1) \cup Lists({"a", "bad", "ctl", "pdf"}, HeaderBytes - 1)
SvgBytes == {before \o tag : before \in Lists({"bom", "nl", "<?xml", "?>", "<!--", "-->", "<!DOCTYPE", "svg", "[", ">"}, 3),
                              tag \in {<<"<svg", "xmlns", ">">>, <<"<svg", "attr", "xmlns", ">">>, <<"<svg", ">">>,
                                       <<"<svg", "xmlns", "e1", "e2">>, <<"a">>}}
              \cup {<<"<!DOCTYPE", "svg", ">", "<svg", "xmlns", ">">>}
SignedBytes ==
    {<<s>> \o rest : s \in {"png", "gif", "jpeg", "webp", "pdf", "ebml", "theora", "ogg", "wave", "flac", "id3", "tiff"},
                     rest \in Lists({"image", "ext", "anim", "pdf"}, 2)} \cup {<<"gif", "image", "ext", "image">>}
FtypBytes == {<<"ftyp">> \o brands : brands \in Lists({"avif", "heic", "mif1", "isom", "M4A", "qt"}, 3)}
File(bytes, extension) == [bytes |-> bytes, extension |-> extension, brands |-> 2, width |-> -1, height |-> -1,
                           jpegInside |-> FALSE]
PreviewFiles ==
    {File(b, e) : b \in TextBytes \cup SvgBytes, e \in {"html", "rs"}} \cup {File(<<"a">>, "md")}
      \cup {[File(b, "txt") EXCEPT !.width = w, !.height = w, !.jpegInside = w = 2] :
               b \in SignedBytes, w \in {-1, 0, 2, 5}}
      \cup {[File(b, "txt") EXCEPT !.brands = n] : b \in FtypBytes, n \in 0 .. 3}
PreviewQuestions ==
    [what : {"preview"}, granted : {TRUE}, file : PreviewFiles,
     limits : {[preview |-> 2, render |-> 4, download |-> 6], [preview |-> 7, render |-> 8, download |-> 6]}]
      \cup {[what |-> "preview", granted |-> FALSE, file |-> File(<<>>, "rs"),
             limits |-> [preview |-> 1, render |-> 2, download |-> 3]]}

\* Pictures of every shape up to five by five, and raw files of four directories that lead
\* to each other, one of which cannot be read.
Frame(w, h) == [marker |-> "frame", width |-> w, height |-> h, orientation |-> 1]
Segment(marker, orientation) == [marker |-> marker, width |-> 0, height |-> 0, orientation |-> orientation]
Chunk(w, h, within) == [width |-> w, height |-> h, within |-> within]
Picture(kind, w, h, edge) ==
    [what |-> "picture", kind |-> kind, width |-> w, height |-> h, edge |-> edge, components |-> 3, length |-> 3,
     progressive |-> w > 3, interlaced |-> h > 3, segments |-> <<Frame(w, h)>>,
     chunks |-> <<Chunk(w, 1, <<>>), Chunk(1, 1, <<Chunk(1, h, <<>>)>>)>>]
PictureQuestions ==
    {Picture(kind, w, h, edge) : kind \in {"jpeg", "png", "gif", "webp"}, w \in 0 .. 5, h \in 0 .. 5, edge \in {1, 2, 4}}
      \cup {[Picture("jpeg", 3, 2, 2) EXCEPT !.segments = <<Segment("exif", o), Segment("exif", 1), Frame(3, 2)>>] : o \in 2 .. 8}
      \cup {[Picture("jpeg", 3, 2, 2) EXCEPT !.segments = l] :
               l \in {<<>>, <<Segment("scan", 1)>>, <<Segment("arithmetic", 1), Frame(1, 1)>>}}
      \cup {[Picture("webp", 3, 2, 2) EXCEPT !.chunks = <<Chunk(1, 1, <<Chunk(1, 1, <<>>), Chunk(1, 1, <<>>), Chunk(1, 1, <<>>)>>)>>],
            [Picture("gif", 1, 1, 1) EXCEPT !.length = MaxSource + 1]}
Candidate(offset) == [offset |-> offset, length |-> 2, pixels |-> (offset * 2) % 5]
TiffDirs == [children : {<<>>, <<9>>, <<8, 10>>, <<11, 9>>}, next : {0, 8, 9, 10}]
TiffQuestions ==
    {[what |-> "tiff", first |-> first, length |-> 11,
      dirs |-> [o \in 8 .. 10 |-> [children |-> d[o].children, next |-> d[o].next, raw |-> o = raw,
                                   orientation |-> o - 7, strip |-> <<Candidate(o)>>,
                                   jpeg |-> IF o \in {raw, 10} THEN <<Candidate(o - 1)>> ELSE <<>>]]] :
        first \in {0, 8, 11}, d \in [8 .. 10 -> TiffDirs], raw \in {8, 9}}

\* A disk with a share, links that lead into it, and private files on both sides.
Node(kind, target, others, lines) == [kind |-> kind, target |-> target, others |-> others, sized |-> TRUE, lines |-> lines]
Folder == Node("dir", <<>>, "none", <<>>)
Own == Node("file", <<>>, "none", <<"text", "begin certificate", "body", "end certificate">>)
ConfigDisk ==
    <<"etc">> :> Folder @@ <<"srv">> :> Folder @@ <<"srv", "data">> :> Folder @@ <<"srv", "data", "sub">> :> Folder
      @@ <<"var">> :> Folder @@ <<"etc", "in">> :> Node("link", <<"srv", "data">>, "none", <<>>)
      @@ <<"etc", "link">> :> Node("link", <<"etc", "secret">>, "none", <<>>)
      @@ <<"etc", "open">> :> Node("file", <<>>, "write", Own.lines)
      @@ <<"etc", "key">> :> Node("file", <<>>, "read", <<"begin certificate", "body", "end certificate", "private key">>)
      @@ <<"etc", "cut">> :> Node("file", <<>>, "read", <<"begin certificate", "end certificate", "text">>)
      @@ [p \in {<<"etc", n>> : n \in {"conf", "secret", "ca"}} \cup {<<"srv", "data", n>> : n \in {"conf", "secret", "db"}} |-> Own]
Rel(names) == [absolute |-> FALSE, names |-> names]
Abs(names) == [absolute |-> TRUE, names |-> names]
Size0(number, unit) == [number |-> number, unit |-> unit]
SomeLimits ==
    [addressesOk |-> TRUE, max_upload_size |-> Size0(4, "KiB"), max_preview_size |-> Size0(4, "B"),
     max_render_size |-> Size0(3, "KiB"), max_image_decode_memory |-> Size0(1, "MiB"),
     max_thumbnail_cache_size |-> Size0(8, "B"), auth_max_concurrent |-> 1, session_idle_timeout_seconds |-> 1800,
     session_absolute_timeout_seconds |-> 43200, login_attempts_per_minute |-> 5,
     login_attempts_per_source_per_minute |-> 20, max_sessions_per_user |-> 16, max_sessions_total |-> 4096,
     trash_retention_days |-> 30, max_connections |-> 1024, header_read_timeout_seconds |-> 300]
SomeHash == [algorithm |-> "argon2id", version |-> 19, salt |-> TRUE, hash |-> TRUE, m |-> 19456, t |-> 2, p |-> 1]
Email(name, capitals) == [folded |-> name, capitals |-> capitals]
User(name, email, subject) ==
    [name |-> name, nameOk |-> TRUE, password |-> FALSE, hash |-> SomeHash, email |-> email, emailOk |-> TRUE,
     subject |-> subject, subjectPrintable |-> TRUE, disabled |-> FALSE]
Ann == [User("ann", Email("ann", TRUE), NoSubject) EXCEPT !.password = TRUE]
ShareAt(id, path) ==
    [id |-> id, idOk |-> TRUE, reserved |-> id = "api", chars |-> 4, bytes |-> 4, trimmed |-> TRUE, controls |-> FALSE,
     path |-> path, read_only |-> FALSE, grants |-> <<[user |-> "ann", permission |-> "write"]>>]
Pair(p, q) == <<ShareAt("one", p), ShareAt("two", q)>>
Data == Abs(<<"srv", "data">>)
NoOidc == [enabled |-> FALSE, given |-> FALSE, secret |-> Rel(<<"secret">>), ca |-> NoPath]
Oidc(secret, ca) == [enabled |-> TRUE, given |-> TRUE, secret |-> secret, ca |-> ca]
SomeConfig ==
    [what |-> "config", version |-> 1, disk |-> ConfigDisk, source |-> <<"etc", "conf">>, limits |-> SomeLimits,
     database |-> Rel(<<"db">>), search |-> NoPath, cache |-> NoPath, secret |-> Rel(<<"secret">>), oidc |-> NoOidc,
     urlsOk |-> TRUE, password_enabled |-> TRUE, users |-> <<Ann>>, shares |-> <<ShareAt("one", Data)>>]
ShareLists ==
    {<<>>, <<ShareAt("one", Data)>>, <<ShareAt("api", Data)>>, <<ShareAt("one", Abs(<<>>))>>,
     <<ShareAt("one", Abs(<<"etc", "in">>))>>, <<ShareAt("one", Rel(<<"data">>))>>, <<ShareAt("one", Abs(<<"etc", "in", "sub">>))>>,
     <<ShareAt("one", Abs(<<"etc", "in", "..">>))>>, Pair(Data, Abs(<<"srv", "data", "sub">>)),
     Pair(Abs(<<"etc", "in", "sub">>), Data), Pair(Data, Abs(<<"etc">>)), Pair(Abs(<<"var">>), Data)}
Databases == {Rel(<<"db">>), Rel(<<"in", "db">>), Rel(<<"in", "new">>), Rel(<<"in", "..", "db">>), Abs(<<"var", "db">>),
              Abs(<<"etc", "in", "..", "db">>), Rel(<<"link">>), Rel(<<"gone", "db">>)}
Indexes == {NoPath, Rel(<<"db">>), Rel(<<"db-wal">>), Rel(<<"secret">>), Rel(<<"conf">>), Abs(<<"srv", "data", "x">>),
            Rel(<<"in", "x">>), Abs(<<"var", "x">>)}
CachePaths == {NoPath, Abs(<<"srv">>), Abs(<<"srv", "data", "sub">>), Abs(<<"var">>), Abs(<<"etc">>), Rel(<<"in">>),
               Rel(<<"in", "cache">>), Rel(<<"secret">>)}
Secrets == {Rel(<<"secret">>), Rel(<<"in", "secret">>), Rel(<<"link">>), Rel(<<"open">>), Rel(<<"gone">>)}
Oidcs == {NoOidc, [NoOidc EXCEPT !.given = TRUE]}
           \cup {Oidc(s, Abs(<<"etc", "ca">>)) : s \in Secrets}
           \cup {Oidc(Rel(<<"secret">>), ca) : ca \in {NoPath, Rel(<<"ca">>), Abs(<<"etc", "in", "conf">>), Abs(<<"etc", "open">>),
                                                     Abs(<<"etc", "key">>), Abs(<<"etc", "cut">>), Abs(<<"etc", "link">>)}}
Texts == {Size0(n, "B") : n \in {-1, 0, 1, 4, 5}} \cup {Size0(n, "KiB") : n \in {2, 4, 5, 7, 11}} \cup {Size0(1, "bytes")}
Ranges ==
    [auth_max_concurrent |-> <<1, 16>>, session_idle_timeout_seconds |-> <<60, 43200>>,
     session_absolute_timeout_seconds |-> <<1800, 2592000>>, login_attempts_per_minute |-> <<1, 1000>>,
     login_attempts_per_source_per_minute |-> <<1, 10000>>, max_sessions_per_user |-> <<1, 256>>,
     max_sessions_total |-> <<16, 100000>>, trash_retention_days |-> <<1, 3650>>, max_connections |-> <<1, 65535>>,
     header_read_timeout_seconds |-> <<5, 3600>>]
UserLists ==
    {<<>>, <<Ann>>, <<Ann, Ann>>, <<[Ann EXCEPT !.disabled = TRUE]>>, <<[Ann EXCEPT !.subject = "s1"]>>,
     <<[Ann EXCEPT !.hash.m = 8]>>, <<[Ann EXCEPT !.nameOk = FALSE]>>, <<User("bob", NoEmail, "s1")>>,
     <<Ann, User("bob", NoEmail, NoSubject)>>, <<Ann, [User("bob", Email("bob", FALSE), "s2") EXCEPT !.disabled = TRUE]>>,
     <<Ann, User("bob", Email("ann", FALSE), NoSubject)>>, <<Ann, User("bob", Email("bob", FALSE), "s2")>>}
ConfigInit ==
    \/ \E source \in {<<"etc", "conf">>, <<"etc", "in", "conf">>}, d \in Databases, i \in Indexes, l \in ShareLists :
         question = [SomeConfig EXCEPT !.source = source, !.database = d, !.search = i, !.shares = l]
    \/ \E c \in CachePaths, s \in Secrets, o \in Oidcs, l \in ShareLists :
         question = [SomeConfig EXCEPT !.cache = c, !.secret = s, !.oidc = o, !.shares = l]
    \/ \E c \in CachePaths, i \in Indexes, d \in Databases :
         question = [SomeConfig EXCEPT !.cache = c, !.search = i, !.database = d]
    \/ \E u, p, r \in Texts : question =
         [SomeConfig EXCEPT !.limits.max_upload_size = u, !.limits.max_preview_size = p, !.limits.max_render_size = r]
    \/ \E d, c \in Texts : question =
         [SomeConfig EXCEPT !.limits.max_image_decode_memory = d, !.limits.max_thumbnail_cache_size = c]
    \/ \E f \in DOMAIN Ranges, i \in 1 .. 2, n \in -1 .. 1 : question =
         [SomeConfig EXCEPT !.limits = [SomeLimits EXCEPT ![f] = Ranges[f][i] + n]]
    \/ \E users \in UserLists, o \in Oidcs, password \in BOOLEAN :
         question = [SomeConfig EXCEPT !.users = users, !.oidc = o, !.password_enabled = password]
    \/ \E chars \in {0, 1, 128, 129}, bytes \in {256, 257}, t \in BOOLEAN :
         question = [SomeConfig EXCEPT !.shares[1].chars = chars, !.shares[1].bytes = bytes, !.shares[1].trimmed = t]

\* Tokens of the provider and others, one claim or two away from a good one.
SomeToken == [alg |-> "RS256", kid |-> "k1", signedWith |-> "provider", exp |-> 10, iss |-> Issuer, sub |-> "s1", aud |-> <<Client>>,
              azp |-> "", nonce |-> "n", iat |-> 10, email |-> Email("ann", FALSE), email_verified |-> "true"]
Key(algorithm, key) == [algorithm |-> algorithm, key |-> key]
SomeCallback ==
    [what |-> "callback", provider |-> [issuer |-> Issuer, endpointsOk |-> TRUE, methods |-> {}], now |-> 10, nonce |-> "n",
     config |-> [users |-> <<Ann>>, password_enabled |-> FALSE, oidc |-> [enabled |-> TRUE]], exchanged |-> TRUE,
     keys |-> "k1" :> Key("RS256", "provider"), fresh |-> "k2" :> Key("", "provider"), fetched |-> TRUE, token |-> SomeToken,
     info |-> [answers |-> FALSE, sub |-> "", email |-> NoEmail, email_verified |-> ""], returnTo |-> <<"/">>]
Claims ==
    {<<"alg", v>> : v \in {"none", "ES256"}} \cup {<<"kid", v>> : v \in {"", "k2", "k3"}} \cup {<<"signedWith", "other">>}
      \cup {<<"iss", "other">>} \cup {<<"sub", v>> : v \in {"", "s2"}} \cup {<<"azp", v>> : v \in {Client, "other"}}
      \cup {<<"nonce", "m">>} \cup {<<"email_verified", v>> : v \in {"", "false"}}
TokensOf(t, c) == [t EXCEPT ![c[1]] = c[2]]
Infos == [answers : BOOLEAN, sub : {"s1", "s2"}, email : {Email("ann", FALSE), Email("bob", TRUE), NoEmail}, email_verified : {"true", ""}]
CallbackInit ==
    \/ \E c, d \in Claims : question = [SomeCallback EXCEPT !.token = TokensOf(TokensOf(SomeToken, c), d)]
    \/ \E t \in {-1, 0, 1}, aud \in {<<>>, <<"other">>, <<Client, "other">>}, azp \in {"", Client} :
         question = [SomeCallback EXCEPT !.token = [SomeToken EXCEPT !.exp = 10 - Leeway + t, !.iat = 10 + Skew + t, !.azp = azp],
                                         !.token.aud = IF t = 0 THEN aud ELSE <<Client>>]
    \/ \E users \in UserLists, email \in {Email("ann", TRUE), Email("bob", FALSE), Email("eve", FALSE), NoEmail},
         v \in {"", "true", "false"}, sub \in {"s1", "s2"}, info \in Infos : question =
         [SomeCallback EXCEPT !.config.users = users, !.token.email = email, !.token.email_verified = v, !.token.sub = sub, !.info = info]
    \/ \E fetched, exchanged, endpoints \in BOOLEAN, methods \in {{"client_secret_post"}, {"client_secret_basic"}} : question =
         [SomeCallback EXCEPT !.fetched = fetched, !.token.kid = "k2", !.exchanged = exchanged, !.provider.endpointsOk = endpoints,
                              !.provider.methods = methods]
    \/ \E path \in Lists({"/", "\\", "%2f", "%5c", "%2e", ".", "?", "#", "%", "%0a", "api", "a"}, 4) :
         question = [SomeCallback EXCEPT !.returnTo = path]

\* An index of two shares and a disk that has moved on in one place.
RowOf(share, path, kind, size, modified) == [share |-> share, path |-> path, kind |-> kind, size |-> size, modified |-> modified]
Index ==
    {RowOf(1, <<"a">>, "directory", Unmeasured, 1), RowOf(1, <<"a", "/", "b", ".", "b">>, "file", 2, 2),
     RowOf(1, <<"a", "-", "b">>, "file", 3, 1), RowOf(1, <<"a", "/", ".", "b">>, "directory", Unmeasured, 3),
     RowOf(1, <<"a", "0", "b">>, "file", 0, 2), RowOf(2, <<"b">>, "file", 3, 3)}
Moved(row) == {{}, {[row EXCEPT !.size = IF @ = Unmeasured THEN @ ELSE 3 - @]}, {[row EXCEPT !.modified = 0]},
               {IF row.kind = "file" THEN [row EXCEPT !.kind = "directory", !.size = Unmeasured]
                ELSE [row EXCEPT !.kind = "file", !.size = 3]}}
Term(value) == [quoted |-> FALSE, filter |-> <<>>, value |-> value, bound |-> <<>>]
Phrase(value) == [Term(value) EXCEPT !.quoted = TRUE]
Filter(f, value) == [Term(value) EXCEPT !.filter = <<f>>]
Bounded(f, value, column, op, target) ==
    [Filter(f, value) EXCEPT !.bound = [column |-> column, op |-> op, target |-> target]]
Words ==
    {Term(<<"b">>), Term(<<"-", "b">>), Phrase(<<".", "b">>), Phrase(<<"b", " ", "b">>), Phrase(<<"type:", "file">>), Filter("type:", <<"file">>), Filter("type:", <<"folder">>),
     Filter("type:", <<"a">>), Filter("ext:", <<"b">>), Filter("ext:", <<".">>), Term(<<"a", ":">>),
     Bounded("size:", <<"2">>, "size", "=", 2), Bounded("size:", <<">", "=", "1", "kb">>, "size", ">=", 2),
     Bounded("size:", <<"<", "3", "b">>, "size", "<", 3), Bounded("size:", <<"9", "kb">>, "size", "=", 18),
     Bounded("modified:", <<"<", "=", "2">>, "modified", "<=", 2), Bounded("modified:", <<">", "1">>, "modified", ">", 1)}
WordLists == Lists(Words, 2) \cup {<<Term(<<"b">>), Term(<<"b">>), Term(<<"b">>), Term(<<"b">>)>>}
SearchQuestion(words, live, share, folder, hidden, limit, granted) ==
    [what |-> "search", words |-> words, live |-> live, share |-> share, folder |-> folder, hidden |-> hidden, limit |-> limit,
     granted |-> granted, indexed |-> 1 .. 2, index |-> Index]
SearchInit ==
    \/ \E words \in WordLists, folder \in {<<>>, <<"a">>}, limit \in 1 .. 3 :
         question = SearchQuestion(words, Index, 1, folder, TRUE, limit, {1, 2})
    \/ \E words \in Lists(Words, 1), row \in Index : \E live \in Moved(row) :
         question = SearchQuestion(words, (Index \ {row}) \cup live, 0, <<>>, TRUE, 2, {1, 2})
    \/ \E granted \in {{}, {1}, {2}}, share \in 0 .. 2, hidden \in BOOLEAN, folder \in {<<>>, <<"a">>}, limit \in {0, 2, 101} :
         question = SearchQuestion(<<Term(<<"b">>)>>, Index, share, folder, hidden, limit, granted)

\* Items deleted at the same second and at others, one that has yet to be deleted, and items
\* that are no longer whole.
TrashItem(sidecar, payload, at) == [sidecar |-> sidecar, payload |-> payload, at |-> at]
Listed(at) == TrashItem("live", "same", at)
TrashQuestion(items, limit, strays) ==
    [what |-> "trash", limit |-> limit, strays |-> strays, times |-> {2},
     items |-> items \o <<TrashItem("absent", "none", 0)>>]
Unpublished == TrashItem("pending", "same", 1)
TrashQuestions ==
    {TrashQuestion(<<Listed(at), Listed(2), last>>, limit, 2 - limit) : limit \in 1 .. 2, at \in 1 .. 2,
        last \in {Listed(1), Unpublished, TrashItem("corrupt", "same", 1), TrashItem("live", "other", 1)}}
      \cup {TrashQuestion(<<Listed(1), Listed(2), Listed(3), last>>, 2, 0) : last \in {Listed(2), Unpublished}}
      \cup {TrashQuestion(<<>>, limit, 0) : limit \in {0, MaxLimit + 1}}

\* Two requests of any kind and three that change or read the settings, on rows that hold
\* a start folder, a display setting of the oldest and of the newest columns, or nothing.
StartAt(share, path) == [share |-> share, path |-> path]
SetTo(folder) == [kind |-> "folder", refused |-> "", folder |-> folder]
Show(update) == [kind |-> "display", refused |-> "", update |-> update]
SomeChanges == {SetTo(<<>>), SetTo(<<StartAt("s", "a")>>), Show("theme" :> "system"), Show("wrap_lines" :> TRUE)}
Reading == [kind |-> "session", refused |-> ""]
Changes ==
    SomeChanges \cup {SetTo(<<StartAt("s", "root")>>), SetTo(<<StartAt("s", "bad")>>), SetTo(<<StartAt("", "root")>>),
                     SetTo(<<StartAt("other", "root")>>), Show("theme" :> "dark" @@ "autosave" :> FALSE),
                     Show("show_hidden_files" :> TRUE), Show("wrap_lines" :> FALSE), Show(<<>>),
                     [SetTo(<<>>) EXCEPT !.refused = "forbidden"], [Show("theme" :> "dark") EXCEPT !.refused = "unauthenticated"],
                     [Reading EXCEPT !.refused = "unauthenticated"]}
Settings ==
    {<<>>, Row(StartAt("s", "a"), DisplayDefaults), Row(StartAt("s", "a"), [DisplayDefaults EXCEPT !.wrap_lines = TRUE]),
     Row(NoFolder, [DisplayDefaults EXCEPT !.theme = "dark"]), Row(StartAt("other", "a"), [DisplayDefaults EXCEPT !.autosave = FALSE])}
PreferencesQuestions ==
    [what : {"preferences"}, granted : {{"s"}}, dirs : {{<<"s", "a">>}}, row : Settings,
     requests : [1 .. 2 -> Changes \cup {Reading}] \cup {c \o <<Reading>> : c \in [1 .. 2 -> SomeChanges]}]

Init ==
    /\ answer = <<>>
    /\ \/ question \in ZipQuestions \/ question \in DownloadQuestions
       \/ (\E q \in AddressQuestions : question = AddressQuestion(q)) \/ question \in NetworkQuestions
       \/ question \in WalkQuestions \/ question \in SelectionQuestions
       \/ CodecInit \/ question \in PreviewQuestions
       \/ question \in PictureQuestions \/ question \in TiffQuestions
       \/ ConfigInit \/ CallbackInit \/ SearchInit \/ question \in TrashQuestions
       \/ question \in PreferencesQuestions
Next == ZipStep \/ DownloadStep \/ AddressStep \/ PathStep \/ MediaCodecs \/ PreviewStep \/ PictureStep
          \/ IdentityStep \/ SearchStep \/ ListingStep \/ PreferencesStep
Spec == Init /\ [][Next]_<<question, answer>>

=============================================================================
