--------------------------- MODULE Configuration ----------------------------
(***************************************************************************)
(* Config::load (config.rs) and the startup that follows it (main.rs): the *)
(* limits, the paths that the server keeps to itself, the accounts and the *)
(* shares of one configuration file, judged against the disk on which it   *)
(* is loaded.                                                              *)
(*                                                                         *)
(* A path of the disk is the sequence of its names from the root.  A path  *)
(* of the configuration may be relative and may hold "..".  A size is the  *)
(* number and the unit that it is written with.  An email is the name that *)
(* it folds to and whether it is written in capitals.                      *)
(***************************************************************************)
EXTENDS Questions

CONSTANTS
    Kibi,           \* 1024
    MaxU64,         \* the greatest u64
    MaxPreview,     \* HARD_MAX_PREVIEW_BYTES
    MaxRender,      \* HARD_MAX_RENDER_BYTES
    MaxUpload,      \* ABSOLUTE_FILE_UPLOAD_LIMIT
    MaxDecode,      \* HARD_MAX_DECODE_MEMORY
    MaxCache,       \* HARD_MAX_CACHE_BYTES
    DecodeUnit      \* BUDGET_UNIT

ASSUME ConfigurationAssumption ==
    {Kibi, MaxU64, MaxPreview, MaxRender, MaxUpload, MaxDecode, MaxCache, DecodeUnit} \subseteq Nat \ {0}

-----------------------------------------------------------------------------
(* The disk: what is at a path, following links or not.                      *)

Nowhere == <<"?">>
Upward(p) == IF p = <<>> THEN <<>> ELSE Front(p)
StartsWith(p, root) == p # Nowhere /\ root # Nowhere /\ IsPrefix(root, p)

\* Where the names that are left lead, from the directory that was reached.
Resolved(disk, p, follow) ==
    LET go[s \in Seq(STRING) \X Seq(STRING)] ==
            LET at == s[1]  rest == s[2]  next == Append(at, Head(rest)) IN
            IF rest = <<>> THEN at
            ELSE IF Head(rest) = ".." THEN go[<<Upward(at), Tail(rest)>>]
            ELSE IF next \notin DOMAIN disk THEN Nowhere
            ELSE CASE disk[next].kind = "dir" -> go[<<next, Tail(rest)>>]
                   [] disk[next].kind = "link" /\ (follow \/ Len(rest) > 1) ->
                        go[<< <<>>, disk[next].target \o Tail(rest)>>]
                   [] OTHER -> IF Len(rest) = 1 THEN next ELSE Nowhere
    IN go[<< <<>>, p>>]
Canonicalize(disk, p) == IF p = Nowhere THEN Nowhere ELSE Resolved(disk, p, TRUE)
Kind(disk, p) == IF p = <<>> THEN "dir" ELSE IF p \in DOMAIN disk THEN disk[p].kind ELSE "none"
SymlinkMetadata(disk, p) ==
    IF p = Nowhere THEN "none" ELSE Kind(disk, Resolved(disk, p, FALSE))

-----------------------------------------------------------------------------
(* The paths of the configuration.                                           *)

NoPath == [absolute |-> FALSE, names |-> <<>>]

ResolvePath(base, path) ==
    FoldLeft(LAMBDA p, name : IF name = ".." THEN Upward(p) ELSE Append(p, name), <<>>,
             IF path.absolute THEN path.names ELSE base \o path.names)

RejectSymlinkIfPresent(disk, p) == SymlinkMetadata(disk, p) # "link"

\* Mutant: the folder of the database as it is written, links and all.
ValidateDatabasePathAsGiven(disk, p) ==
    IF p = <<>> \/ ~RejectSymlinkIfPresent(disk, p) \/ Kind(disk, Canonicalize(disk, Upward(p))) # "dir"
    THEN Nowhere ELSE p

ValidateDatabasePath(disk, p) ==
    LET parent == Canonicalize(disk, Upward(p))
        resolved == Append(parent, Last(p)) IN
    IF \/ ~RejectSymlinkIfPresent(disk, p) \/ p = <<>>
       \/ Kind(disk, parent) # "dir"
       \/ Canonicalize(disk, p) # Nowhere /\ Kind(disk, Canonicalize(disk, resolved)) # "file"
    THEN Nowhere
    ELSE IF Canonicalize(disk, p) # Nowhere THEN Canonicalize(disk, resolved) ELSE resolved

ValidateThumbnailCachePath(disk, p) ==
    LET parent == Canonicalize(disk, Upward(p)) IN
    IF \/ ~RejectSymlinkIfPresent(disk, p) \/ p = <<>> \/ Kind(disk, parent) # "dir"
       \/ SymlinkMetadata(disk, Append(parent, Last(p))) \notin {"dir", "none"}
    THEN Nowhere
    ELSE Append(parent, Last(p))

\* The mode of a file says who beside its owner may read and write it.
ReadSecretFile(disk, p) ==
    LET real == Canonicalize(disk, p) IN
    IF SymlinkMetadata(disk, p) = "file" /\ disk[real].others = "none" /\ disk[real].sized
    THEN real ELSE Nowhere

\* The blocks of a file, line by line.
Blocks(lines) ==
    LET After(state, line) ==
            CASE state = "out" /\ line = "begin certificate" -> "in"
              [] state = "in" /\ line = "end certificate" -> "out"
              [] line = "body" \/ (state = "out" /\ line = "text") -> state
              [] OTHER -> "bad"
    IN FoldLeft(After, "out", lines) = "out"
\* A block with no body decodes to no certificate.
ParsePemCertificates(lines) ==
    /\ \A i \in DOMAIN lines : lines[i] # "private key"
    /\ Blocks(lines)
    /\ \A i \in 1 .. Len(lines) - 1 : lines[i] = "begin certificate" => lines[i + 1] = "body"
    /\ \E i \in DOMAIN lines : lines[i] = "begin certificate"

ReadCaFile(disk, path) ==
    LET real == Canonicalize(disk, path.names) IN
    IF /\ path.absolute /\ SymlinkMetadata(disk, path.names) = "file"
       /\ disk[real].others # "write" /\ disk[real].sized /\ ParsePemCertificates(disk[real].lines)
    THEN real ELSE Nowhere

ValidateShareRoot(disk, path) ==
    LET real == Canonicalize(disk, path.names) IN
    IF path.absolute /\ SymlinkMetadata(disk, path.names) = "dir" /\ real # <<>> THEN real ELSE Nowhere

SqlitePaths(p) == {p, Append(Front(p), Last(p) \o "-wal"), Append(Front(p), Last(p) \o "-shm")}

-----------------------------------------------------------------------------
(* The limits.                                                               *)

Invalid == -1
Multiplier(unit) ==
    CASE unit = "B" -> 1 [] unit = "KiB" -> Kibi [] unit = "MiB" -> Kibi * Kibi [] OTHER -> Invalid
ParseSize(text) ==
    IF \/ text.number <= 0 \/ text.number > MaxU64 \/ Multiplier(text.unit) = Invalid
       \/ text.number * Multiplier(text.unit) > MaxU64
    THEN Invalid ELSE text.number * Multiplier(text.unit)
ParseSizeOrZero(text) ==
    IF text.number = 0 THEN (IF Multiplier(text.unit) = Invalid THEN Invalid ELSE 0) ELSE ParseSize(text)

SizesFit(l) ==
    LET upload == ParseSize(l.max_upload_size)
        preview == ParseSize(l.max_preview_size)
        render == ParseSize(l.max_render_size)
        decode == ParseSize(l.max_image_decode_memory)
        cache == ParseSizeOrZero(l.max_thumbnail_cache_size) IN
    /\ Invalid \notin {upload, preview, render, decode, cache}
    /\ preview <= upload /\ preview <= render /\ render <= MaxRender
    /\ decode <= MaxDecode /\ cache <= MaxCache

ValidateLimits(l) ==
    /\ l.addressesOk /\ SizesFit(l)
    /\ l.auth_max_concurrent \in 1 .. 16
    /\ l.session_idle_timeout_seconds \in 60 .. 86400
    /\ l.session_absolute_timeout_seconds \in 300 .. 2592000
    /\ l.session_idle_timeout_seconds <= l.session_absolute_timeout_seconds
    /\ l.login_attempts_per_minute \in 1 .. 1000
    /\ l.login_attempts_per_source_per_minute \in 1 .. 10000
    /\ l.max_sessions_per_user \in 1 .. 256
    /\ l.max_sessions_total \in l.max_sessions_per_user .. 100000
    /\ l.trash_retention_days \in 1 .. 3650
    /\ l.max_connections \in 1 .. 65535
    /\ l.header_read_timeout_seconds \in 5 .. 3600

-----------------------------------------------------------------------------
(* The accounts.                                                             *)

NoHash == "none"
NoEmail == [folded |-> "", capitals |-> FALSE]
NoSubject == ""
Lowercase(email) == [folded |-> email.folded, capitals |-> FALSE]

ValidatePasswordHash(h) ==
    /\ h.algorithm = "argon2id" /\ h.version = 19 /\ h.salt /\ h.hash
    /\ h.m \in 19456 .. 262144 /\ h.t \in 2 .. 10 /\ h.p \in 1 .. 16
ValidateOidcSubject(u) == u.subjectPrintable /\ u.email # NoEmail

\* Mutant: emails are told apart as they are written.
EmailsDistinctAsWritten(users) ==
    \A i, j \in DOMAIN users : i # j /\ users[i].email # NoEmail => users[i].email # users[j].email
EmailsDistinct(users) ==
    \A i, j \in DOMAIN users :
        i # j /\ users[i].email # NoEmail => Lowercase(users[i].email) # Lowercase(users[j].email)

ValidateUsers(q) ==
    LET enabled == {i \in DOMAIN q.users : ~q.users[i].disabled} IN
    /\ q.users # <<>>
    /\ \A i, j \in DOMAIN q.users : q.users[i].name = q.users[j].name => i = j
    /\ EmailsDistinct(q.users)
    /\ \A i \in DOMAIN q.users : LET u == q.users[i] IN
         /\ u.nameOk /\ u.emailOk
         /\ u.password => ValidatePasswordHash(u.hash)
         /\ u.subject # NoSubject => ValidateOidcSubject(u)
         /\ \/ u.disabled
            \/ q.password_enabled /\ u.password
            \/ q.oidc.enabled /\ u.email # NoEmail
    /\ enabled # {} =>
         /\ q.password_enabled => \E i \in enabled : q.users[i].password
         /\ q.oidc.enabled => \E i \in enabled : q.users[i].email # NoEmail

-----------------------------------------------------------------------------
(* The shares, and that nothing private lies where a share reaches.          *)

ValidateShares(q) ==
    /\ \A i, j \in DOMAIN q.shares : q.shares[i].id = q.shares[j].id => i = j
    /\ \A i \in DOMAIN q.shares : LET s == q.shares[i] IN
         /\ s.idOk /\ ~s.reserved
         /\ s.chars \in 1 .. 128 /\ s.trimmed /\ ~s.controls
         /\ ValidateShareRoot(q.disk, s.path) # Nowhere
         /\ \A g, h \in DOMAIN s.grants :
              /\ \E u \in DOMAIN q.users : q.users[u].name = s.grants[g].user
              /\ s.grants[g].user = s.grants[h].user => g = h

PermissionFor(share, name) ==
    LET own == SelectSeq(share.grants, LAMBDA g : g.user = name) IN
    IF own = <<>> THEN "none" ELSE IF share.read_only THEN "read" ELSE own[1].permission
Writable(share) == ~share.read_only /\ \E g \in DOMAIN share.grants : share.grants[g].permission = "write"

\* What the paths of a configuration stand for once they are judged.
Placed(q) ==
    LET source == Canonicalize(q.disk, q.source)
        base == Upward(source)
        database == ValidateDatabasePath(q.disk, ResolvePath(base, q.database))
        within(name) == IF database = Nowhere THEN Nowhere ELSE Append(Front(database), name)
        search == IF q.search = NoPath THEN within("search") ELSE ResolvePath(base, q.search)
        cache == IF q.cache = NoPath THEN within("thumbnails") ELSE ResolvePath(base, q.cache) IN
    [source |-> source, database |-> database,
     search |-> IF search = Nowhere THEN Nowhere ELSE ValidateDatabasePath(q.disk, search),
     cached |-> ParseSizeOrZero(q.limits.max_thumbnail_cache_size) > 0,
     cache |-> IF cache = Nowhere THEN Nowhere ELSE ValidateThumbnailCachePath(q.disk, cache),
     secret |-> ReadSecretFile(q.disk, ResolvePath(base, q.secret)),
     oidcSecret |-> ReadSecretFile(q.disk, ResolvePath(base, q.oidc.secret)),
     ca |-> ReadCaFile(q.disk, q.oidc.ca),
     roots |-> [i \in DOMAIN q.shares |-> ValidateShareRoot(q.disk, q.shares[i].path)]]

ValidatePaths(q, c) ==
    /\ Nowhere \notin {c.database, c.search, c.secret}
    /\ c.search \notin {c.database, c.source, c.secret}
    /\ c.cached => c.cache # Nowhere
ValidateAuth(q, c) ==
    /\ q.password_enabled \/ q.oidc.enabled
    /\ q.oidc.enabled = q.oidc.given
    /\ q.urlsOk
    /\ q.oidc.given => c.oidcSecret # Nowhere /\ (q.oidc.ca # NoPath => c.ca # Nowhere)

RejectOverlappingRoots(roots) ==
    \A i, j \in DOMAIN roots : i # j => ~StartsWith(roots[i], roots[j])
OidcFiles(q, c) ==
    (IF q.oidc.given THEN {c.oidcSecret} ELSE {}) \cup (IF q.oidc.given /\ q.oidc.ca # NoPath THEN {c.ca} ELSE {})
RejectSensitivePathsInsideShares(q, c) ==
    \A i \in DOMAIN c.roots : \A p \in {c.source, c.database, c.secret} \cup OidcFiles(q, c) : ~StartsWith(p, c.roots[i])
ValidateSeparation(q, c) ==
    /\ RejectOverlappingRoots(c.roots)
    /\ SqlitePaths(c.search) \cap ({c.source, c.secret} \cup SqlitePaths(c.database) \cup OidcFiles(q, c)) = {}
    /\ \A i \in DOMAIN c.roots : ~StartsWith(c.search, c.roots[i])
    /\ c.cached => ~StartsWith(c.search, c.cache)
    /\ RejectSensitivePathsInsideShares(q, c)
    /\ c.cached =>
         /\ \A i \in DOMAIN c.roots : ~StartsWith(c.cache, c.roots[i]) /\ ~StartsWith(c.roots[i], c.cache)
         /\ \A p \in {c.source, c.database, c.secret} : ~StartsWith(p, c.cache)

CheckConfig(q) ==
    LET c == Placed(q) IN
    /\ q.version = 1 /\ ValidateLimits(q.limits) /\ ValidatePaths(q, c) /\ ValidateAuth(q, c)
    /\ ValidateUsers(q) /\ ValidateShares(q) /\ ValidateSeparation(q, c)

-----------------------------------------------------------------------------
(* The startup, up to the first file that it opens.                          *)

PreviewPolicy(preview, render) ==
    preview > 0 /\ preview <= MaxPreview /\ render >= preview /\ render <= MaxRender
MutationState(upload) == upload \in 1 .. MaxUpload
ThumbnailService(decode) == decode \in DecodeUnit .. MaxDecode
ConfiguredShare(s) == s.chars > 0 /\ s.bytes <= 256 /\ ~s.controls
BrowseState(q) ==
    /\ ParseSize(q.limits.max_preview_size) > 0
    /\ \A i \in DOMAIN q.shares : ConfiguredShare(q.shares[i])
    /\ \A i, j \in DOMAIN q.shares : q.shares[i].id = q.shares[j].id => i = j
Startup(q) ==
    /\ PreviewPolicy(ParseSize(q.limits.max_preview_size), ParseSize(q.limits.max_render_size))
    /\ MutationState(ParseSize(q.limits.max_upload_size))
    /\ BrowseState(q)
    /\ ThumbnailService(ParseSize(q.limits.max_image_decode_memory))

LoadConfig ==
    /\ Asked("config")
    /\ Reply([pc |-> "done", accepted |-> CheckConfig(question),
              started |-> CheckConfig(question) /\ Startup(question),
              placed |-> Placed(question)])

-----------------------------------------------------------------------------
(* The server starts on a configuration that check-config accepts, unless    *)
(* the preview limit, the upload limit, the memory for images or the length  *)
(* of a share's name in bytes is one that only the startup refuses           *)
(* (config.rs:442-550, main.rs:83-104).                                      *)
StartsOnceAccepted ==
    Done("config") /\ Now.accepted /\ ~Now.started =>
        LET l == question.limits IN
        \/ ParseSize(l.max_preview_size) > MaxPreview
        \/ ParseSize(l.max_upload_size) > MaxUpload
        \/ ParseSize(l.max_image_decode_memory) < DecodeUnit
        \/ \E i \in DOMAIN question.shares : question.shares[i].bytes > 256

\* Where an open of path p ends, for a file that need not exist.
Physically(disk, p) ==
    IF Canonicalize(disk, p) # Nowhere THEN Canonicalize(disk, p)
    ELSE Append(Canonicalize(disk, Front(p)), Last(p))

(* A configuration that check-config accepts keeps what is private to the    *)
(* server out of reach of every share: wherever links lead, the              *)
(* configuration, both databases with their sidecars, the secrets and the    *)
(* trusted certificates lie in no share, no share lies in another or is the  *)
(* whole disk, the search index shares no file with the others, and the      *)
(* cache, which the server empties by itself, neither overlaps a share nor   *)
(* holds one of them.  The secrets can be read by nobody else, and the       *)
(* certificates come from a file that holds no key and that nobody else      *)
(* can write (config.rs:737-850).                                            *)
ConfigKeepsApart ==
    Done("config") /\ Now.accepted =>
        LET c == Now.placed
            q == question
            at(p) == Physically(q.disk, p)
            roots == {c.roots[i] : i \in DOMAIN c.roots}
            own == {at(p) : p \in {c.source, c.secret} \cup SqlitePaths(c.database) \cup OidcFiles(q, c)}
            index == {at(p) : p \in SqlitePaths(c.search)} IN
        /\ <<>> \notin roots
        /\ \A p \in own \cup index : \A r \in roots : ~IsPrefix(r, p)
        /\ Cardinality(roots) = Len(q.shares) /\ \A r, s \in roots : r # s => ~IsPrefix(r, s)
        /\ own \cap index = {}
        /\ c.cached => \A r \in roots : ~IsPrefix(r, at(c.cache)) /\ ~IsPrefix(at(c.cache), r)
        /\ c.cached => \A p \in {c.source, c.database, c.secret, c.search} : ~IsPrefix(at(c.cache), at(p))
        /\ \A p \in {c.secret} \cup (IF q.oidc.given THEN {c.oidcSecret} ELSE {}) : q.disk[p].others = "none"
        /\ q.oidc.given /\ q.oidc.ca # NoPath =>
             q.disk[c.ca].others # "write" /\ "private key" \notin {q.disk[c.ca].lines[i] : i \in DOMAIN q.disk[c.ca].lines}

\* What check-config accepts is safe to serve and can be started (config.rs, validate, and
\* main.rs).
ConfigIsSound == ConfigKeepsApart /\ StartsOnceAccepted
=============================================================================
