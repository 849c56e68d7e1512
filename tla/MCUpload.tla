------------------------------ MODULE MCUpload ------------------------------
(* Two names; the share is nearly full or over its limit.                  *)
EXTENDS Upload, TLC

CONSTANTS r1, r2, x, y

Held(n) == [size |-> n, by |-> None]
NearlyFull == (x :> Held(1)) @@ (y :> None)
Over == (x :> Held(3)) @@ (y :> Held(1))
Pair(k1, k2, share) == [kind |-> (r1 :> k1) @@ (r2 :> k2), files |-> share]

\* An upload beside a request of another kind, and two of one gate.
Pairs == {Pair("replace", "create", Over), Pair("replace", "mkdir", NearlyFull),
          Pair("upload", "save", NearlyFull), Pair("save", "save", Over)}
Gates == [uploads |-> 1, saves |-> 1]
=============================================================================
