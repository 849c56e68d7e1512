----------------------------- MODULE MCSignIn -----------------------------
EXTENDS SignIn, TLC

CONSTANTS ann, bob, s1, s2, k1, k2, o1, o2

Cookies == (o1 :> 1) @@ (o2 :> 2)
Together == {[kinds |-> {"password", "passkey start"}, upto |-> 3, held |-> {}],
             [kinds |-> {"passkey start", "passkey finish", "remove"}, upto |-> 3, held |-> {k1}],
             [kinds |-> {"register", "register finish"}, upto |-> 4, held |-> {}],
             [kinds |-> {"callback"}, upto |-> 3, held |-> {}]}
Alike == Permutations(Users) \cup Permutations(Sources)
=============================================================================
