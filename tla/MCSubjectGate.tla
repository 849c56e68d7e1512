--------------------------- MODULE MCSubjectGate ---------------------------
(* Two users, one of them with three requests at a time.                   *)
EXTENDS SubjectGate, TLC

CONSTANTS r1, r2, r3, r4, r5, ann, bob

Owner == (r1 :> ann) @@ (r2 :> ann) @@ (r3 :> ann) @@ (r4 :> bob) @@ (r5 :> bob)
Alike == Permutations({r1, r2, r3}) \cup Permutations({r4, r5})
=============================================================================
