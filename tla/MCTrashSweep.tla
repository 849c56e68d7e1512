---------------------------- MODULE MCTrashSweep ----------------------------
(* A folder too large for one batch, a file, an item that is deleted later,*)
(* and three that Empty Trash passes over: one nested too deep, one whose  *)
(* sidecar is torn and one that was never published.                       *)
EXTENDS TrashSweep, TLC

CONSTANTS large, small, later, deep, torn, lost

Sizes == (large :> 3) @@ (small :> 0) @@ (later :> 0) @@ (deep :> 1) @@ (torn :> 0) @@ (lost :> 0)
Small == [i \in Items |-> Sizes[i]]

\* Directories are read in hash order; in this one the sidecars come first.
Scattered(seq) == [p \in 1 .. 2 * Len(seq) |->
    IF p <= Len(seq) THEN <<"sidecar", seq[p]>> ELSE <<"payload", seq[p - Len(seq)]>>]

\* Two free positions, for the item deleted later.
Directory == {Scattered(<<large, small, deep>>) \o <<Free, Free>>}

\* What cannot be removed comes before what can; or it is not there, and two
\* items share a batch.
Damage == {Scattered(<<deep, torn, lost, large>>),
           Scattered(<<large, later>>) \o <<Free, Free, Free, Free>>,
           Scattered(<<later, large>>) \o <<Free, Free, Free, Free>>}
=============================================================================
