------------------------------ MODULE Queries -------------------------------
(***************************************************************************)
(* GET /search (search.rs): from the text of a query to the pages that a   *)
(* client gets by following nextOffset, answered from an index that may    *)
(* lag behind the disk.                                                    *)
(*                                                                         *)
(* A text is a sequence of characters, and so is a path, whose names are   *)
(* separated by "/".  A row of the index has a share, a path, a kind and   *)
(* what it last knew of the size.  A word of a query is a term or a filter *)
(* with its value; the client renders the words to text, with quotes about *)
(* the terms that need them.                                               *)
(***************************************************************************)
EXTENDS Questions

CONSTANTS
    MaxOffset,      \* MAX_OFFSET
    MaxWords,       \* the tokens of a query
    MaxI64,         \* the greatest i64
    Kilo            \* 1000

ASSUME QueriesAssumption == {MaxOffset, MaxWords, MaxI64, Kilo} \subseteq Nat

Code == ("-" :> 45) @@ ("." :> 46) @@ ("/" :> 47) @@ ("0" :> 48) @@ ("a" :> 97) @@ ("b" :> 98)

-----------------------------------------------------------------------------
(* The text of a query.                                                      *)

Filters == {"type:", "ext:", "size:", "modified:"}
Written(words) ==
    FlattenSeq([i \in DOMAIN words |->
        (IF i > 1 THEN <<" ">> ELSE <<>>)
          \o (IF words[i].quoted THEN <<"quote">> \o words[i].value \o <<"quote">>
              ELSE words[i].filter \o words[i].value)])

Scanner == [tokens |-> <<>>, token |-> <<>>, quoted |-> FALSE, literal |-> FALSE]
Scan(s, c) ==
    IF c = "quote"
    THEN [s EXCEPT !.literal = @ \/ s.token = <<>>, !.quoted = ~@]
    ELSE IF c = " " /\ ~s.quoted
    THEN IF s.token = <<>> THEN s
         ELSE [s EXCEPT !.tokens = Append(@, [text |-> s.token, literal |-> s.literal]),
                        !.token = <<>>, !.literal = FALSE]
    ELSE [s EXCEPT !.token = Append(@, c)]
SplitTokens(raw) ==
    LET s == FoldLeft(Scan, Scanner, raw) IN
    IF s.token = <<>> THEN s.tokens ELSE Append(s.tokens, [text |-> s.token, literal |-> s.literal])
Unfinished(raw) == FoldLeft(Scan, Scanner, raw).quoted

Comparison(v) ==
    IF Len(v) > 1 /\ v[1] \in {">", "<"} /\ v[2] = "=" THEN [op |-> v[1] \o "=", rest |-> SubSeq(v, 3, Len(v))]
    ELSE IF v # <<>> /\ v[1] \in {">", "<", "="} THEN [op |-> v[1], rest |-> Tail(v)]
    ELSE [op |-> "=", rest |-> v]
Digit == ("0" :> 0) @@ ("1" :> 1) @@ ("2" :> 2) @@ ("3" :> 3) @@ ("9" :> 9)
\* A date is the day that it stands for, a number with no unit.
Bound(column, v) ==
    LET c == Comparison(v)
        unit == IF Len(c.rest) = 2 THEN c.rest[2] ELSE ""
        ok == /\ Len(c.rest) \in 1 .. 2 /\ c.rest[1] \in DOMAIN Digit
              /\ unit \in (IF column = "size" THEN {"", "b", "kb"} ELSE {""})
        target == Digit[c.rest[1]] * (IF unit = "kb" THEN Kilo ELSE 1) IN
    IF ok /\ target <= MaxI64 THEN <<[column |-> column, op |-> c.op, target |-> target]>> ELSE <<>>

NoQuery == [terms |-> <<>>, types |-> {}, extensions |-> {}, bounds |-> <<>>, ok |-> TRUE]
ParseToken(q, t) ==
    LET filter == t.text[1]
        value == Tail(t.text)
        bound == Bound(IF filter = "size:" THEN "size" ELSE "modified", value) IN
    IF t.literal \/ filter \notin Filters
    THEN IF ~t.literal /\ \E i \in DOMAIN t.text : t.text[i] \in Filters \cup {":"} THEN [q EXCEPT !.ok = FALSE]
         ELSE [q EXCEPT !.terms = Append(@, t.text)]
    ELSE CASE filter = "type:" /\ value \in {<<"folder">>, <<"file">>, <<"code">>} -> [q EXCEPT !.types = @ \cup {value[1]}]
           [] filter = "ext:" /\ value # <<>> /\ "." \notin {value[i] : i \in DOMAIN value} ->
                [q EXCEPT !.extensions = @ \cup {value}]
           [] filter \in {"size:", "modified:"} /\ bound # <<>> -> [q EXCEPT !.bounds = @ \o bound]
           [] OTHER -> [q EXCEPT !.ok = FALSE]
ParseQuery(raw) ==
    IF Unfinished(raw) \/ Len(SplitTokens(raw)) > MaxWords THEN [NoQuery EXCEPT !.ok = FALSE]
    ELSE FoldLeft(ParseToken, NoQuery, SplitTokens(raw))

-----------------------------------------------------------------------------
(* The candidates, from the index.                                           *)

TextLess(s, t) ==
    \E n \in 0 .. Len(t) :
        /\ n <= Len(s) /\ SubSeq(s, 1, n) = SubSeq(t, 1, n)
        /\ IF n = Len(s) THEN n < Len(t) ELSE n < Len(t) /\ Code[s[n + 1]] < Code[t[n + 1]]
\* Mutant: everything whose path begins as the folder's does.
BeneathByPrefix(path, folder) == IsPrefix(folder, path)
Beneath(path, folder) ==
    \/ folder = <<>>
    \/ ~TextLess(path, Append(folder, "/")) /\ TextLess(path, Append(folder, "0"))
Hidden(path) == path[1] = "." \/ \E i \in 2 .. Len(path) : path[i - 1] = "/" /\ path[i] = "."
NameOf(path) == LET slashes == {i \in DOMAIN path : path[i] = "/"} IN
                SubSeq(path, 1 + (IF slashes = {} THEN 0 ELSE Max(slashes)), Len(path))
Holds(name, term) == \E i \in 0 .. Len(name) - Len(term) : SubSeq(name, i + 1, i + Len(term)) = term
Extension(name) == LET dots == {i \in 2 .. Len(name) : name[i] = "."} IN
                   IF dots = {} THEN <<>> ELSE SubSeq(name, Max(dots) + 1, Len(name))
Category(row) == IF row.kind = "directory" THEN "folder" ELSE IF Extension(NameOf(row.path)) = <<"b">> THEN "code" ELSE "other"
Compare(value, op, target) ==
    CASE op = ">" -> value > target [] op = ">=" -> value >= target
      [] op = "<" -> value < target [] op = "<=" -> value <= target [] OTHER -> value = target

\* A folder has no size.
Unmeasured == -1
Meets(bound, row) == row[bound.column] # Unmeasured /\ Compare(row[bound.column], bound.op, bound.target)
MeetsAll(query, row) == \A i \in DOMAIN query.bounds : Meets(query.bounds[i], row)

Selects(query, request, row) ==
    /\ row.share \in request.allowed
    /\ Beneath(row.path, request.folder)
    /\ request.hidden \/ ~Hidden(row.path)
    /\ \A i \in DOMAIN query.terms : Holds(NameOf(row.path), query.terms[i])
    /\ query.types # {} => \E c \in query.types : IF c = "file" THEN row.kind = "file" ELSE Category(row) = c
    /\ query.extensions # {} => Extension(NameOf(row.path)) \in query.extensions
    /\ MeetsAll(query, row)

Closeness(name, needle) == IF name = needle THEN 0 ELSE IF IsPrefix(needle, name) THEN 1 ELSE 2
Precedes(needle, r, s) ==
    LET key(row) == <<Closeness(NameOf(row.path), needle), NameOf(row.path)>> IN
    \/ key(r)[1] < key(s)[1]
    \/ key(r)[1] = key(s)[1] /\ TextLess(NameOf(r.path), NameOf(s.path))
    \/ key(r) = key(s) /\ r.share < s.share
    \/ key(r) = key(s) /\ r.share = s.share /\ TextLess(r.path, s.path)
Candidates(query, request, index, limit, offset) ==
    LET needle == FlattenSeq([i \in DOMAIN query.terms |-> IF i = 1 THEN query.terms[i] ELSE <<" ">> \o query.terms[i]])
        found == SetToSortSeq({row \in index : Selects(query, request, row)}, LAMBDA r, s : Precedes(needle, r, s)) IN
    SubSeq(found, offset + 1, Least(offset + limit, Len(found)))

-----------------------------------------------------------------------------
(* One request after the other.                                              *)

\* The shares that the request reaches: granted, indexed and, if it names one, that one.
Allowed(q) ==
    {s \in q.granted \cap q.indexed : q.share \in {0, s}}

\* What the disk says of a candidate: nothing once it is gone.
Live(q, row) == {l \in q.live : l.share = row.share /\ l.path = row.path}
Validated(q, query, row) ==
    \E l \in Live(q, row) :
        (l.kind = "directory") = (row.kind = "directory") /\ MeetsAll(query, l)

Answers(code, entries) == Reply([pc |-> "done", code |-> code, offset |-> 0, entries |-> entries])
BeginSearch ==
    /\ Asked("search")
    /\ IF \/ question.limit \notin 1 .. 100
          \/ question.share = 0 /\ question.folder # <<>>
          \/ ~ParseQuery(Written(question.words)).ok
       THEN Answers("invalid", <<>>)
       ELSE IF question.share # 0 /\ Allowed(question) = {} THEN Answers("not found", <<>>)
       ELSE Reply([pc |-> "page", code |-> "", offset |-> 0, entries |-> <<>>])
NextPage ==
    /\ Under("search")
    /\ LET query == ParseQuery(Written(question.words))
           request == [allowed |-> Allowed(question), folder |-> question.folder, hidden |-> question.hidden]
           candidates == Candidates(query, request, question.index, question.limit + 1, Now.offset)
           first == SubSeq(candidates, 1, Least(question.limit, Len(candidates)))
           entries == Now.entries \o SelectSeq(first, LAMBDA row : Validated(question, query, row)) IN
       \/ /\ IF Len(candidates) > question.limit /\ Now.offset + question.limit <= MaxOffset
             THEN Reply([pc |-> "page", code |-> "", offset |-> Now.offset + question.limit, entries |-> entries])
             ELSE Answers("ok", entries)
       \/ Answers("busy", Now.entries)
SearchStep == BeginSearch \/ NextPage

-----------------------------------------------------------------------------
\* What a word asks of a file or a folder, read without the text between.
Inside(path, folder) == folder = <<>> \/ IsPrefix(Append(folder, "/"), path)
Asks(word, row) ==
    LET v == word.value IN
    IF word.quoted \/ word.filter = <<>> THEN Holds(NameOf(row.path), v)
    ELSE CASE word.filter = <<"type:">> -> v[1] \in {row.kind, Category(row)}
           [] word.filter = <<"ext:">> -> Extension(NameOf(row.path)) = v
           [] OTHER -> row[word.bound.column] # Unmeasured /\ Compare(row[word.bound.column], word.bound.op, word.bound.target)

(* Whatever the index still holds, a search shows only what is there now, in *)
(* a share that the user may read, beneath the folder asked for, and as each *)
(* word of the query asks; and a client that follows nextOffset sees nothing *)
(* twice and, up to the largest offset, misses nothing that the index knows  *)
(* and the disk still has (search.rs:989-1203).                              *)
ResultsAreReal ==
    Done("search") =>
        LET q == question
            entries == Now.entries
            fits(row) ==
                /\ row.share \in q.granted \cap q.indexed /\ q.share \in {0, row.share}
                /\ Inside(row.path, q.folder) /\ (q.hidden \/ ~Hidden(row.path))
            \* Of several types, or of several extensions, one is enough.
            asked(row) ==
                /\ \A i \in DOMAIN q.words : q.words[i].filter \notin {<<"type:">>, <<"ext:">>} => Asks(q.words[i], row)
                /\ \A f \in {<<"type:">>, <<"ext:">>} : LET some == {i \in DOMAIN q.words : q.words[i].filter = f} IN
                     some = {} \/ \E i \in some : Asks(q.words[i], row)
            shown(row) == \E l \in q.live : l.share = row.share /\ l.path = row.path /\ l.kind = row.kind
                                              /\ asked(l) /\ fits(l) IN
        /\ \A i \in DOMAIN entries : shown(entries[i])
        /\ \A i, j \in DOMAIN entries : entries[i] = entries[j] => i = j
        /\ Now.code = "ok" =>
             \A row \in q.index : fits(row) /\ asked(row) /\ shown(row) =>
                 \/ row \in {entries[i] : i \in DOMAIN entries}
                 \/ Cardinality({r \in q.index : fits(r) /\ asked(r)}) > MaxOffset

=============================================================================
