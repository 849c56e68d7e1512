---------------------------- MODULE FileRegister ----------------------------
(***************************************************************************)
(* What the requests that create or replace a file promise: the file is a  *)
(* register that is compared and swapped in one step, without a word on    *)
(* staging names, exchanges and rollbacks.                                 *)
(***************************************************************************)
CONSTANTS
    Writers,     \* requests; each is also the version it wants to publish
    Outsiders,   \* versions that another process on the host writes
    First,       \* the version the file has at first
    None         \* "no such file"

VARIABLES
    value,       \* the version of the file
    expected,    \* the version that a request named; None to create
    outcome      \* what has become of each request

Versions == Writers \cup Outsiders \cup {First}
Strange == Outsiders \cup {None}     \* what another process leaves there

Init ==
    /\ value = First
    /\ expected = [w \in Writers |-> None]
    /\ outcome = [w \in Writers |-> "idle"]

Becomes(w, what) == outcome' = [outcome EXCEPT ![w] = what]

\* A client names the version it has seen, whatever the file is by now.
Ask(w) ==
    /\ outcome[w] = "idle" /\ Becomes(w, "open")
    /\ \E named \in Versions \cup {None} : expected' = [expected EXCEPT ![w] = named]
    /\ UNCHANGED value

\* Compared and swapped; another process may have been at it before the answer.
Save(w) ==
    /\ outcome[w] = "open" /\ Becomes(w, "ok")
    /\ value = expected[w] /\ value' \in {w} \cup Strange
    /\ UNCHANGED expected

\* Nothing of the request remains.
Fail(w) == outcome[w] = "open" /\ Becomes(w, "failed") /\ UNCHANGED <<value, expected>>

\* The request fails, and so does its undoing: what it did to the file stays.
Leave(w) ==
    /\ outcome[w] = "open" /\ \E what \in {"failed", "retained"} : Becomes(w, what)
    /\ value' \in {w} \cup Strange
    /\ UNCHANGED expected

Refuse(w) == outcome[w] = "failed" /\ Becomes(w, "refused") /\ UNCHANGED <<value, expected>>

\* One of the requests that a crash ends may have been done.
Crash ==
    /\ outcome' = [w \in Writers |-> IF outcome[w] = "open" THEN "failed" ELSE outcome[w]]
    /\ value' \in {value} \cup {w \in Writers : outcome[w] = "open"} \cup Strange
    /\ UNCHANGED expected

\* Another client moves the file away, another process changes it.
Change == value' \in Strange /\ UNCHANGED <<expected, outcome>>

Next ==
    \/ \E w \in Writers : Ask(w) \/ Save(w) \/ Fail(w) \/ Leave(w) \/ Refuse(w)
    \/ Crash \/ Change

Spec == Init /\ [][Next]_<<value, expected, outcome>>
=============================================================================
