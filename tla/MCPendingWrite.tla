--------------------------- MODULE MCPendingWrite ---------------------------
(* Two requests for one file, and versions written from outside.           *)
EXTENDS PendingWrite, TLC

CONSTANTS w1, w2, other, another
=============================================================================
