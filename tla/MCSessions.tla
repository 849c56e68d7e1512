---------------------------- MODULE MCSessions ----------------------------
EXTENDS Sessions, TLC

CONSTANTS ann, bob, t1, t2, t3, c1, c2

Alike == Permutations(Tokens) \cup Permutations(Clients) \cup Permutations(Users)
=============================================================================
