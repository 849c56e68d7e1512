---------------------------- MODULE MCThumbnails ----------------------------
(* Instances of Thumbnails: two images, of which the cache holds one,
   and one that takes more memory than there is.       *)
EXTENDS Thumbnails, TLC

CONSTANTS k1, k2, k3, r1, r2, r3

Lengths == k1 :> 1 @@ k2 :> 2 @@ k3 :> 1
Estimates == k1 :> 1 @@ k2 :> 2 @@ k3 :> 3
Alike == Permutations(Requests)

=============================================================================
