------------------------------ MODULE MCTrash ------------------------------
(* A small instance of Trash.                                              *)
EXTENDS Trash, TLC, FiniteSets

CONSTANTS i1, i2, p1, p2, file, folder, deep

\* The share starts with a folder of two entries; the file appears later.
MCSize == (file :> 0) @@ (folder :> 2) @@ (deep :> 1)
MCShare == (p1 :> folder) @@ (p2 :> None)

\* An earlier process left a folder in Trash that is nested too deep to be removed.
MCTrashed == [i \in Ids |-> IF i = i2 THEN deep ELSE None]
=============================================================================
