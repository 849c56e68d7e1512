------------------------------ MODULE Identity ------------------------------
(***************************************************************************)
(* Who a callback of the OpenID provider signs in, and where it sends the  *)
(* browser (oidc.rs, auth.rs): the discovery of the provider, the checks   *)
(* of the ID token, the email that the provider vouches for, the account   *)
(* that the configuration gives it, and the path to return to.  Which      *)
(* callback may use a transaction is the subject of SignIn.                *)
(*                                                                         *)
(* A claim that may be left out is "" when it is.  A return path is a      *)
(* sequence of characters, of which "%2f", "%5c", "%2e" and "%0a" are      *)
(* encoded ones and "%" one that begins no encoding.                       *)
(***************************************************************************)
EXTENDS Configuration

CONSTANTS
    Leeway,         \* validation.leeway
    Skew            \* how far ahead of the clock a token may be issued

ASSUME IdentityAssumption == {Leeway, Skew} \subseteq Nat

Issuer == "issuer"
Client == "client"

Discovered(p) == p.issuer = Issuer /\ p.endpointsOk /\ (p.methods = {} \/ "client_secret_basic" \in p.methods)

-----------------------------------------------------------------------------
(* The ID token.                                                             *)

\* The keys held, or the ones fetched anew if they have no key of that name.
KeyOf(q) ==
    IF q.token.kid \in DOMAIN q.keys THEN {q.keys[q.token.kid]}
    ELSE IF q.fetched /\ q.token.kid \in DOMAIN q.fresh THEN {q.fresh[q.token.kid]} ELSE {}

Verify(q) ==
    LET t == q.token IN
    /\ t.alg \in {"RS256", "ES256"} /\ t.kid # ""
    /\ \E key \in KeyOf(q) : key.algorithm \in {"", t.alg} /\ key.key = t.signedWith
    /\ t.exp + Leeway >= q.now
    /\ t.iss = Issuer /\ t.sub # "" /\ t.nonce = q.nonce
    /\ Client \in ToSet(t.aud)
    /\ t.azp \in {"", Client} /\ (Len(t.aud) > 1 => t.azp = Client)
    /\ t.iat <= q.now + Skew

\* The email of the token, or of the user info that the access token opens.
NoOne == ""
VouchedEmail(q) ==
    IF q.token.email_verified = "false" THEN NoEmail
    ELSE IF q.token.email_verified = "true" /\ q.token.email # NoEmail THEN q.token.email
    ELSE IF q.info.answers /\ q.info.sub = q.token.sub /\ q.info.email_verified = "true" THEN q.info.email
    ELSE NoEmail

-----------------------------------------------------------------------------
(* The account and the way back.                                             *)

\* The accounts as AuthService keeps them, with emails in lower case.
LoginOidc(users, email, sub) ==
    LET own == {i \in DOMAIN users : users[i].email # NoEmail /\ Lowercase(users[i].email) = Lowercase(email)} IN
    IF email = NoEmail \/ own = {} THEN {NoOne}
    ELSE {LET u == users[i] IN
          IF u.disabled \/ (u.subject # NoSubject /\ u.subject # sub) THEN NoOne ELSE u.name : i \in own}

Decoded(c) == CASE c = "%2f" -> "/" [] c = "%5c" -> "\\" [] c = "%2e" -> "." [] c = "%0a" -> "nl" [] OTHER -> c
Decode(text) == [i \in DOMAIN text |-> Decoded(text[i])]
Segment0(text, i) == i > Len(text) \/ text[i] = "/"
HasDots(text) ==
    \E i \in DOMAIN text : /\ text[i] = "/"
                           /\ \/ i < Len(text) /\ text[i + 1] = "." /\ Segment0(text, i + 2)
                              \/ i + 1 < Len(text) /\ text[i + 1] = "." /\ text[i + 2] = "." /\ Segment0(text, i + 3)
Rooted(text) == text # <<>> /\ text[1] = "/" /\ (Len(text) > 1 => text[2] # "/")
OutsideApp(text) == Len(text) > 1 /\ text[2] \in {"api", "API", "health"} /\ Segment0(text, 3)
SafeReturnPath(text) ==
    LET cut == SelectInSeq(text, LAMBDA c : c = "?")
        path == IF cut = 0 THEN text ELSE SubSeq(text, 1, cut - 1)
        decoded == Decode(path) IN
    /\ text # <<>> /\ {"\\", "#", "nl", "%"} \cap ToSet(text) = {}
    /\ Rooted(path) /\ Rooted(decoded)
    /\ {"nl", "\\"} \cap ToSet(Decode(text)) = {}
    /\ ~HasDots(decoded) /\ ~OutsideApp(decoded)

\* finish: the session of the account, and the path that the transaction kept if it is safe.
Callback ==
    /\ Asked("callback")
    /\ LET q == question
           started == ValidateUsers(q.config) /\ Discovered(q.provider)
           ok == started /\ q.exchanged /\ Verify(q) IN
       \E user \in (IF ok THEN LoginOidc(q.config.users, VouchedEmail(q), q.token.sub) ELSE {NoOne}) :
           Reply([pc |-> "done", user |-> user,
                  location |-> IF user # NoOne /\ SafeReturnPath(q.returnTo) THEN q.returnTo ELSE <<"/">>])

-----------------------------------------------------------------------------
(* How a browser reads a location: a backslash is a slash, dots are taken    *)
(* away, encoded or not, and two slashes lead to another host.               *)
Slashed(text) == [i \in DOMAIN text |-> IF text[i] = "\\" THEN "/" ELSE IF text[i] = "%2e" THEN "." ELSE text[i]]
PathPart(text) == LET cut == SelectInSeq(text, LAMBDA c : c \in {"?", "#"}) IN
                  IF cut = 0 THEN text ELSE SubSeq(text, 1, cut - 1)
StaysInApp(text) ==
    LET path == Slashed(PathPart(text)) IN
    /\ path[1] = "/" /\ (Len(path) > 1 => path[2] # "/") /\ ~HasDots(path)
    /\ ~(Len(path) > 1 /\ path[2] \in {"api", "health"} /\ Segment0(path, 3))
    /\ "nl" \notin ToSet(path)

(* A callback signs in only the account whose email the provider vouches     *)
(* for, to whoever wrote it in capitals or not: the token is this            *)
(* provider's, for this client and this transaction, and current; the        *)
(* account is enabled, no other account has that email, and it is bound to   *)
(* no other subject.  The browser is then sent nowhere but into the app      *)
(* (oidc.rs:336-567, auth.rs:760-801).                                       *)
AccountIsTheirs ==
    Done("callback") =>
        LET q == question
            t == q.token
            of(u, email) == u.email # NoEmail /\ u.email.folded = email.folded
            vouched == {e \in {t.email, q.info.email} :
                \/ e = t.email /\ t.email_verified = "true"
                \/ e = q.info.email /\ q.info.email_verified = "true" /\ q.info.sub = t.sub} IN
        /\ Now.user # NoOne =>
             /\ t.signedWith = "provider" /\ t.iss = Issuer /\ Client \in ToSet(t.aud) /\ t.nonce = q.nonce
             /\ t.exp + Leeway >= q.now /\ t.email_verified # "false"
             /\ \E e \in vouched : \E i \in DOMAIN q.config.users : LET u == q.config.users[i] IN
                  /\ u.name = Now.user /\ of(u, e) /\ ~u.disabled /\ u.subject \in {NoSubject, t.sub}
                  /\ \A j \in DOMAIN q.config.users : j # i => ~of(q.config.users[j], e)
        /\ StaysInApp(Now.location)

IdentityStep == LoadConfig \/ Callback

-----------------------------------------------------------------------------
(* Any callback whose return path is a text and whose provider has signed    *)
(* the keys that it publishes.                                               *)
CallbackQuestion(q) ==
    /\ q.what = "callback" /\ q.returnTo \in Seq(STRING)
    /\ \A k \in DOMAIN q.keys : q.keys[k].key = "provider"
    /\ \A k \in DOMAIN q.fresh : q.fresh[k].key = "provider"

AnyCallback == answer = <<>> /\ CallbackQuestion(question)
CallbackSpec == AnyCallback /\ [][IdentityStep]_<<question, answer>>

=============================================================================
