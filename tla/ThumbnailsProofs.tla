-------------------------- MODULE ThumbnailsProofs --------------------------
(* Proofs about Thumbnails, for any requests, keys, lengths, estimates and   *)
(* limits.                                                                   *)
EXTENDS Thumbnails, FiniteSetTheorems, SequenceTheorems, WellFoundedInduction, TLAPS

(* Sums over finite sets.  They are defined by a recursive function on       *)
(* subsets: what is shown of it is shown of a smallest counterexample.       *)

\* Naturals that index a set have a least one.
LEMMA LeastIndexed ==
  ASSUME NEW S, S # {}, NEW f \in [S -> Nat]
  PROVE  \E x \in S : \A y \in S : f[x] <= f[y]
  <1> DEFINE R == OpToRel(<, Nat)
             T == {f[x] : x \in S}
  <1>1. IsWellFoundedOn(R, Nat)
    BY NatLessThanWellFounded
  <1>2. \A a, b \in Nat : a < b => <<a, b>> \in R
    BY DEF OpToRel
  <1> HIDE DEF R
  <1>3. T \subseteq Nat /\ T # {}
    OBVIOUS
  <1>4. PICK m \in T : \A n \in T : <<n, m>> \notin R
    <2> HIDE DEF T
    <2> QED BY <1>1, <1>3, WFMin
  <1>5. \A n \in T : m <= n
    <2>1. \A n \in T : ~(n < m)
      BY <1>2, <1>3, <1>4
    <2> QED BY <1>3, <2>1
  <1> QED BY <1>5

First(s) == CHOOSE x \in s : TRUE
Rest(s) == s \ {First(s)}

\* Such a sum, of what f is on D, is what MapThenSumSet takes at D.
Sums(sum, f, D) == sum = [s \in SUBSET D |->
                             IF s = {} THEN 0 ELSE f[First(s)] + sum[s \ {First(s)}]]
SumOn(f, D) == (CHOOSE sum : Sums(sum, f, D))[D]

LEMMA SumOfIsSum ==
  ASSUME NEW D
  PROVE  SumOf(D) = SumOn(Length, D)
  BY DEF SumOf, MapThenSumSet, MapThenFoldSet, SumOn, Sums, First

\* A set that is not empty has a first element, without which it is smaller.
LEMMA RestIsSmaller ==
  ASSUME NEW D, IsFiniteSet(D), NEW s \in SUBSET D
  PROVE  /\ Cardinality(s) \in Nat /\ Cardinality(s) <= Cardinality(D)
         /\ (s = {} <=> Cardinality(s) = 0)
         /\ s # {} => /\ First(s) \in s /\ Rest(s) \in SUBSET D
                      /\ Cardinality(Rest(s)) = Cardinality(s) - 1
  <1>1. IsFiniteSet(s) /\ Cardinality(s) <= Cardinality(D)
    BY FS_Subset
  <1>2. Cardinality(s) \in Nat /\ (s = {} <=> Cardinality(s) = 0)
    BY <1>1, FS_CardinalityType, FS_EmptySet
  <1>3. s # {} => First(s) \in s
    BY DEF First
  <1>4. s # {} => Cardinality(Rest(s)) = Cardinality(s) - 1
    BY <1>1, <1>3, FS_RemoveElement DEF Rest
  <1> QED BY <1>1, <1>2, <1>3, <1>4 DEF Rest

\* The recursive definition has a solution.
LEMMA SumExists ==
  ASSUME NEW f, NEW D, IsFiniteSet(D)
  PROVE  \E sum : Sums(sum, f, D)
  <1> DEFINE Small(n) == {s \in SUBSET D : Cardinality(s) <= n}
             Solves(g, n) == g = [s \in Small(n) |-> IF s = {} THEN 0 ELSE f[First(s)] + g[Rest(s)]]
             Bad == {n \in Nat : ~\E g : Solves(g, n)}
  <1>1. ASSUME Bad # {} PROVE FALSE
    <2> DEFINE id == [n \in Bad |-> n]
    <2>1. PICK n \in Bad : \A m \in Bad : n <= m
      <3>1. id \in [Bad -> Nat]
        OBVIOUS
      <3>2. \E n \in Bad : \A m \in Bad : id[n] <= id[m]
        <4> HIDE DEF id, Bad
        <4> QED BY <1>1, <3>1, LeastIndexed
      <3> QED BY <3>2
    <2>2. CASE n = 0
      <3> DEFINE g == [s \in Small(0) |-> 0]
      <3>1. \A s \in Small(0) : s = {}
        <4> TAKE s \in Small(0)
        <4>1. Cardinality(s) \in Nat /\ (s = {} <=> Cardinality(s) = 0)
          BY RestIsSmaller
        <4> QED BY <4>1
      <3>2. Solves(g, 0)
        BY <3>1
      <3> QED BY <2>1, <2>2, <3>2
    <2>3. CASE n # 0
      <3>1. n \in Nat /\ n - 1 \in Nat /\ n - 1 \notin Bad
        <4>1. n \in Nat
          OBVIOUS
        <4> HIDE DEF Bad
        <4>2. n - 1 \in Nat /\ ~(n <= n - 1)
          BY <2>3, <4>1
        <4> QED BY <2>1, <4>1, <4>2
      <3>2. PICK g : Solves(g, n - 1)
        BY <3>1
      <3> DEFINE h == [s \in Small(n) |-> IF s = {} THEN 0 ELSE f[First(s)] + g[Rest(s)]]
      <3>3. \A s \in Small(n) : s # {} => Rest(s) \in Small(n - 1)
        <4> TAKE s \in Small(n)
        <4> HAVE s # {}
        <4>1. Cardinality(s) \in Nat /\ Rest(s) \in SUBSET D /\ Cardinality(Rest(s)) = Cardinality(s) - 1
          BY RestIsSmaller
        <4> QED BY <3>1, <4>1
      <3>4. Small(n - 1) \subseteq Small(n)
        <4>1. \A s \in Small(n - 1) : Cardinality(s) \in Nat
          BY RestIsSmaller
        <4> QED BY <3>1, <4>1
      <3>5. \A s \in Small(n - 1) : h[s] = g[s]
        <4> HIDE DEF Small
        <4> QED BY <3>2, <3>4
      <3>6. Solves(h, n)
        <4> HIDE DEF Small
        <4>1. \A s \in Small(n) : s # {} => h[Rest(s)] = g[Rest(s)]
          BY <3>3, <3>5
        <4> QED BY <4>1
      <3> HIDE DEF Solves, h
      <3> QED BY <2>1, <3>6
    <2> QED BY <2>2, <2>3
  <1>2. Cardinality(D) \in Nat
    BY FS_CardinalityType
  <1>3. PICK g : Solves(g, Cardinality(D))
    BY <1>1, <1>2
  <1>4. Small(Cardinality(D)) = SUBSET D
    BY RestIsSmaller
  <1> HIDE DEF Small
  <1> QED BY <1>3, <1>4 DEF Sums, Rest

\* Two sums of what is the same on S are the same on S.
LEMMA SumsAgree ==
  ASSUME NEW D, IsFiniteSet(D), NEW S \in SUBSET D, NEW f, NEW g, \A x \in S : f[x] = g[x],
         NEW F, Sums(F, f, D), NEW G, Sums(G, g, S)
  PROVE  F[S] = G[S]
  <1> DEFINE Bad == {s \in SUBSET S : F[s] # G[s]}
             size == [s \in Bad |-> Cardinality(s)]
  <1>1. \A s \in SUBSET S : /\ F[s] = IF s = {} THEN 0 ELSE f[First(s)] + F[Rest(s)]
                            /\ G[s] = IF s = {} THEN 0 ELSE g[First(s)] + G[Rest(s)]
    BY DEF Sums, Rest
  <1>2. IsFiniteSet(S)
    BY FS_Subset
  <1>3. ASSUME Bad # {} PROVE FALSE
    <2>1. size \in [Bad -> Nat]
      BY <1>2, RestIsSmaller
    <2>2. PICK s \in Bad : \A t \in Bad : size[s] <= size[t]
      <3> HIDE DEF size, Bad
      <3> QED BY <1>3, <2>1, LeastIndexed
    <2>3. s \in SUBSET S /\ F[s] # G[s] /\ \A t \in SUBSET S : F[t] # G[t] => Cardinality(s) <= Cardinality(t)
      BY <2>2
    <2> HIDE DEF Bad, size
    <2>4. s # {}
      BY <1>1, <2>3
    <2>5. /\ Cardinality(s) \in Nat /\ First(s) \in s /\ Rest(s) \in SUBSET S
          /\ Cardinality(Rest(s)) = Cardinality(s) - 1
      BY <1>2, <2>3, <2>4, RestIsSmaller
    <2>6. F[Rest(s)] = G[Rest(s)]
      BY <2>3, <2>5
    <2>7. f[First(s)] = g[First(s)]
      BY <2>3, <2>5
    <2> QED BY <1>1, <2>3, <2>4, <2>6, <2>7
  <1> QED BY <1>3

LEMMA SumOnAgrees ==
  ASSUME NEW S, IsFiniteSet(S), NEW f, NEW g, \A x \in S : f[x] = g[x]
  PROVE  SumOn(f, S) = SumOn(g, S)
  <1>1. Sums(CHOOSE sum : Sums(sum, f, S), f, S) /\ Sums(CHOOSE sum : Sums(sum, g, S), g, S)
    BY SumExists
  <1> QED BY SMTT(30), <1>1, SumsAgree DEF SumOn

\* Whatever order the elements are taken in, one more adds itself.
LEMMA SumInserts ==
  ASSUME NEW D, IsFiniteSet(D), NEW f, \A x \in D : f[x] \in Nat
  PROVE  \A S \in SUBSET D : SumOn(f, S) \in Nat /\ \A x \in D \ S : SumOn(f, S \cup {x}) = SumOn(f, S) + f[x]
  <1> DEFINE F == CHOOSE sum : Sums(sum, f, D)
             Good(s) == F[s] \in Nat /\ \A x \in D \ s : F[s \cup {x}] = F[s] + f[x]
             Bad == {s \in SUBSET D : ~Good(s)}
             size == [s \in Bad |-> Cardinality(s)]
  <1>1. Sums(F, f, D)
    BY SumExists
  <1> HIDE DEF F
  <1>2. \A s \in SUBSET D : F[s] = IF s = {} THEN 0 ELSE f[First(s)] + F[Rest(s)]
    BY <1>1 DEF Sums, Rest
  <1>3. ASSUME Bad # {} PROVE FALSE
    <2>1. size \in [Bad -> Nat]
      BY RestIsSmaller
    <2>2. PICK s \in Bad : \A t \in Bad : size[s] <= size[t]
      <3> HIDE DEF size, Bad
      <3> QED BY <1>3, <2>1, LeastIndexed
    <2>3. s \in SUBSET D /\ ~Good(s) /\ \A t \in SUBSET D : ~Good(t) => Cardinality(s) <= Cardinality(t)
      BY <2>2
    <2> HIDE DEF Bad, size, Good
    <2>4. F[s] \in Nat
      <3>1. CASE s = {}
        <4>1. F[s] = 0
          BY <1>2, <2>3, <3>1
        <4> QED BY <4>1
      <3>2. CASE s # {}
        <4>1. /\ Cardinality(s) \in Nat /\ First(s) \in s /\ Rest(s) \in SUBSET D
              /\ Cardinality(Rest(s)) = Cardinality(s) - 1
          BY <2>3, <3>2, RestIsSmaller
        <4>2. F[Rest(s)] \in Nat /\ f[First(s)] \in Nat
          BY <2>3, <4>1 DEF Good
        <4> QED BY <1>2, <2>3, <3>2, <4>2
      <3> QED BY <3>1, <3>2
    <2>5. ASSUME NEW x \in D \ s PROVE F[s \cup {x}] = F[s] + f[x]
      <3> DEFINE t == s \cup {x}
                 y == First(t)
      <3>1. t \in SUBSET D /\ t # {} /\ y \in t
        <4>1. t \in SUBSET D /\ t # {}
          BY <2>3
        <4> QED BY <4>1, RestIsSmaller
      <3>2. F[t] = f[y] + F[t \ {y}]
        BY <1>2, <3>1 DEF Rest
      <3> HIDE DEF y
      <3>3. CASE y = x
        <4>1. t \ {y} = s
          BY <3>3
        <4>2. f[x] \in Nat
          BY <2>5
        <4> HIDE DEF t
        <4>3. F[t \ {y}] = F[s] /\ f[y] = f[x]
          BY <3>3, <4>1
        <4>4. F[t] = f[x] + F[s]
          BY <3>2, <4>3
        <4>5. f[x] + F[s] = F[s] + f[x]
          BY <2>4, <4>2
        <4>6. F[t] = F[s] + f[x]
          BY <4>4, <4>5
        <4> QED BY <4>6 DEF t
      <3>4. CASE y # x
        <4> DEFINE u == s \ {y}
        <4>1. y \in s /\ t \ {y} = u \cup {x} /\ s = u \cup {y} /\ x \in D \ u /\ y \in D \ u /\ u \in SUBSET D
          BY <2>3, <2>5, <3>1, <3>4
        <4>2. Cardinality(u) = Cardinality(s) - 1 /\ Cardinality(s) \in Nat
          <5>1. IsFiniteSet(s)
            BY <2>3, FS_Subset
          <5> QED BY <4>1, <5>1, FS_RemoveElement, FS_CardinalityType
        <4>3. Good(u)
          BY <2>3, <4>1, <4>2
        <4>4. F[u] \in Nat /\ F[u \cup {x}] = F[u] + f[x] /\ F[u \cup {y}] = F[u] + f[y]
          BY <4>1, <4>3 DEF Good
        <4>5. F[t] = f[y] + (F[u] + f[x]) /\ F[s] = F[u] + f[y]
          BY <3>2, <4>1, <4>4
        <4>6. f[x] \in Nat /\ f[y] \in Nat
          BY <4>1
        <4> HIDE DEF t, u
        <4>7. F[t] = F[s] + f[x]
          BY <4>4, <4>5, <4>6
        <4> QED BY <4>7 DEF t
      <3> QED BY <3>3, <3>4
    <2> QED BY <2>3, <2>4, <2>5 DEF Good
  <1>4. \A S \in SUBSET D : SumOn(f, S) = F[S]
    <2> TAKE S \in SUBSET D
    <2>1. IsFiniteSet(S)
      BY FS_Subset
    <2>2. Sums(CHOOSE sum : Sums(sum, f, S), f, S)
      BY <2>1, SumExists
    <2> QED BY <1>1, <2>2, SumsAgree DEF SumOn
  <1>5. \A S \in SUBSET D : Good(S)
    BY <1>3
  <1> QED BY <1>4, <1>5

LEMMA SumEmpty ==
  ASSUME NEW f
  PROVE  SumOn(f, {}) = 0
  <1>1. Sums(CHOOSE sum : Sums(sum, f, {}), f, {})
    BY SumExists, FS_EmptySet
  <1> QED BY <1>1 DEF Sums, SumOn

LEMMA SumUnion ==
  ASSUME NEW D, IsFiniteSet(D), NEW f, \A x \in D : f[x] \in Nat,
         NEW A \in SUBSET D, NEW B \in SUBSET D, A \cap B = {}
  PROVE  /\ SumOn(f, A) \in Nat /\ SumOn(f, B) \in Nat
         /\ SumOn(f, A \cup B) = SumOn(f, A) + SumOn(f, B)
  <1> DEFINE Bad == {s \in SUBSET B : SumOn(f, A \cup s) # SumOn(f, A) + SumOn(f, s)}
             size == [s \in Bad |-> Cardinality(s)]
  <1>1. \A S \in SUBSET D : SumOn(f, S) \in Nat /\ \A x \in D \ S : SumOn(f, S \cup {x}) = SumOn(f, S) + f[x]
    BY SumInserts
  <1>2. IsFiniteSet(B)
    BY FS_Subset
  <1>3. ASSUME Bad # {} PROVE FALSE
    <2>1. size \in [Bad -> Nat]
      BY <1>2, RestIsSmaller
    <2>2. PICK s \in Bad : \A t \in Bad : size[s] <= size[t]
      <3> HIDE DEF size, Bad
      <3> QED BY <1>3, <2>1, LeastIndexed
    <2>3. /\ s \in SUBSET B /\ SumOn(f, A \cup s) # SumOn(f, A) + SumOn(f, s)
          /\ \A t \in SUBSET B : Cardinality(s) <= Cardinality(t) \/ SumOn(f, A \cup t) = SumOn(f, A) + SumOn(f, t)
      BY <2>2
    <2> HIDE DEF Bad, size
    <2>4. s # {}
      <3> SUFFICES ASSUME s = {} PROVE FALSE
        OBVIOUS
      <3>1. A \cup s = A /\ SumOn(f, s) = 0
        BY SumEmpty
      <3>2. SumOn(f, A) \in Nat
        BY <1>1
      <3> QED BY <2>3, <3>1, <3>2
    <2> DEFINE x == First(s)
               t == Rest(s)
    <2>5. x \in s /\ t \in SUBSET B /\ Cardinality(t) = Cardinality(s) - 1 /\ Cardinality(s) \in Nat
      BY <1>2, <2>3, <2>4, RestIsSmaller
    <2>6. s = t \cup {x} /\ A \cup s = (A \cup t) \cup {x} /\ x \in D \ t /\ x \in D \ (A \cup t)
          /\ t \in SUBSET D /\ A \cup t \in SUBSET D
      BY <2>3, <2>5 DEF Rest
    <2> HIDE DEF x, t
    <2>7. SumOn(f, A \cup t) = SumOn(f, A) + SumOn(f, t)
      BY <2>3, <2>5
    <2>8. SumOn(f, s) = SumOn(f, t) + f[x] /\ SumOn(f, A \cup s) = SumOn(f, A \cup t) + f[x]
      BY <1>1, <2>6
    <2>9. SumOn(f, A) \in Nat /\ SumOn(f, t) \in Nat /\ f[x] \in Nat
      BY <1>1, <2>6
    <2> QED BY <2>3, <2>7, <2>8, <2>9
  <1>4. SumOn(f, A \cup B) = SumOn(f, A) + SumOn(f, B)
    BY <1>3
  <1> QED BY <1>1, <1>4

LEMMA SumOfPart ==
  ASSUME NEW D, IsFiniteSet(D), NEW f, \A x \in D : f[x] \in Nat, NEW A \in SUBSET D
  PROVE  SumOn(f, A) \in Nat /\ SumOn(f, D) \in Nat /\ SumOn(f, A) <= SumOn(f, D)
  <1> DEFINE B == D \ A
  <1>1. B \in SUBSET D /\ A \cap B = {} /\ A \cup B = D
    OBVIOUS
  <1> HIDE DEF B
  <1>2. SumOn(f, A) \in Nat /\ SumOn(f, B) \in Nat /\ SumOn(f, A \cup B) = SumOn(f, A) + SumOn(f, B)
    BY <1>1, SumUnion
  <1>3. SumOn(f, A \cup B) = SumOn(f, D)
    BY <1>1, Zenon
  <1> QED BY <1>2, <1>3

\* When one of them is changed, so is the sum, by as much.
LEMMA SumChanges ==
  ASSUME NEW D, IsFiniteSet(D), NEW f \in [D -> Nat], NEW g \in [D -> Nat], NEW x \in D,
         \A y \in D \ {x} : f[y] = g[y]
  PROVE  /\ SumOn(f, D) \in Nat /\ SumOn(g, D) \in Nat /\ f[x] <= SumOn(f, D)
         /\ SumOn(g, D) + f[x] = SumOn(f, D) + g[x]
  <1> DEFINE S == D \ {x}
  <1>1. S \in SUBSET D /\ D = S \cup {x} /\ x \in D \ S /\ IsFiniteSet(S)
    BY FS_Subset
  <1>2. SumOn(f, S) = SumOn(g, S)
    BY <1>1, SumOnAgrees
  <1> HIDE DEF S
  <1>3. SumOn(f, S) \in Nat /\ SumOn(f, S \cup {x}) = SumOn(f, S) + f[x]
    BY <1>1, SumInserts
  <1>4. SumOn(g, S) \in Nat /\ SumOn(g, S \cup {x}) = SumOn(g, S) + g[x]
    BY <1>1, SumInserts
  <1>5. f[x] \in Nat /\ g[x] \in Nat
    OBVIOUS
  <1> QED BY <1>1, <1>2, <1>3, <1>4, <1>5

LEMMA SumOfNothing ==
  ASSUME NEW D, IsFiniteSet(D), NEW f, \A x \in D : f[x] = 0
  PROVE  SumOn(f, D) = 0
  <1> DEFINE F == CHOOSE sum : Sums(sum, f, D)
             G == [s \in SUBSET D |-> 0]
  <1>1. Sums(F, f, D)
    BY SumExists
  <1>2. Sums(G, f, D)
    <2>1. \A s \in SUBSET D : s # {} => First(s) \in D /\ s \ {First(s)} \in SUBSET D
      BY DEF First
    <2>2. \A s \in SUBSET D : 0 = IF s = {} THEN 0 ELSE f[First(s)] + G[s \ {First(s)}]
      BY <2>1
    <2> QED BY <2>2 DEF Sums
  <1> HIDE DEF F, G
  <1>3. F[D] = G[D]
    BY <1>1, <1>2, SumsAgree
  <1> QED BY <1>3 DEF F, G, SumOn

-----------------------------------------------------------------------------
(* The inductive invariant                                                   *)

Decoding == {"render", "write", "rename", "index", "sweep"}

\* What is true of a request by itself: what it holds, by the step that it is at,
\* that it has no lock before it looked at the map, and that only a fill that has
\* evicted has files to remove.
Fits(q) ==
    /\ q \in Request
    /\ q.pc = "idle" => q = NoRequest
    /\ q.pc \in Decoding => q.holds = Estimate[q.key]
    /\ q.pc \notin Decoding \cup {"unlock"} => q.holds = 0
    /\ q.guard => q.arc # 0
    /\ q.pc \in {"get", "read", "drop", "plan"} /\ ~q.second => q.arc = 0
    /\ q.pc = "plan" => ~q.second
    /\ q.pc \in {"lock", "release"} => q.arc # 0
    /\ q.evicted # {} => q.pc = "sweep"

RequestsInv == req \in [Requests -> Request] /\ \A r \in Requests : Fits(req[r])

\* Memory that is not free is held.
Holdings == [r \in Requests |-> req[r].holds]
Held(holds) == MapThenSumSet(LAMBDA r : holds[r], Requests)
MemoryInv == free \in Nat /\ free + Held(Holdings) = Capacity

\* The lock that a request waits for or owns is the one that the map has for its
\* key, and no two own it.
LocksInv ==
    /\ flights \in [Keys -> Locks \cup {0}]
    /\ \A r \in Requests : req[r].arc # 0 => flights[Key(r)] = req[r].arc
    /\ \A r, o \in Requests : r # o /\ req[r].guard /\ req[o].guard => req[r].arc # req[o].arc

StoreInv ==
    /\ index \in Seq(Keys) /\ IsInjective(index) /\ IndexWithinLimits
    /\ files \cup gone \cup forgetting \cup dropped \subseteq Keys /\ temps \subseteq Requests
    /\ FilesAccounted

ThumbnailsInv == RequestsInv /\ MemoryInv /\ LocksInv /\ StoreInv

-----------------------------------------------------------------------------
(* Memory                                                                    *)

LEMMA HeldIsSum ==
  ASSUME NEW f
  PROVE  Held(f) = SumOn(f, Requests)
  BY DEF Held, MapThenSumSet, MapThenFoldSet, SumOn, Sums, First

\* What the decodes need is what they hold, which is not more than there is.
LEMMA BudgetFollows ==
  ASSUME RequestsInv, MemoryInv
  PROVE  MemoryWithinBudget
  <1> DEFINE decoding == {r \in Requests : req[r].pc \in {"render", "write", "rename", "index", "sweep"}}
             need == [r \in Requests |-> Estimate[Key(r)]]
             Solves(iter) == iter = [s \in SUBSET decoding |->
                 IF s = {} THEN 0 ELSE Estimate[Key(First(s))] + iter[s \ {First(s)}]]
             F == CHOOSE iter : Solves(iter)
  <1>1. IsFiniteSet(Requests) /\ IsFiniteSet(decoding) /\ decoding \in SUBSET Requests
    BY ThumbnailAssumption, FS_Subset
  <1>2. \A iter : Solves(iter) <=> Sums(iter, need, decoding)
    <2> TAKE iter
    <2>1. \A s \in SUBSET decoding : s # {} => need[First(s)] = Estimate[Key(First(s))]
      <3>1. \A s \in SUBSET decoding : s # {} => First(s) \in Requests
        BY DEF First
      <3> QED BY <3>1
    <2> HIDE DEF decoding, need
    <2> QED BY <2>1 DEF Sums
  <1> HIDE DEF Solves
  <1>3. Solves(F) /\ Sums(F, need, decoding)
    <2>1. \E iter : Sums(iter, need, decoding)
      <3> HIDE DEF need, decoding
      <3> QED BY <1>1, SumExists
    <2> QED BY <1>2, <2>1
  <1>4. MapThenSumSet(LAMBDA r : Estimate[Key(r)], decoding) = F[decoding]
    BY DEF MapThenSumSet, MapThenFoldSet, First, Solves
  <1> HIDE DEF F
  <1>5. \A r \in decoding : need[r] = Holdings[r]
    BY DEF RequestsInv, Fits, Holdings, Decoding, Key
  <1>6. F[decoding] = SumOn(Holdings, decoding)
    <2>1. \E G : Sums(G, Holdings, decoding) /\ SumOn(Holdings, decoding) = G[decoding]
      <3> HIDE DEF decoding
      <3>1. Sums(CHOOSE sum : Sums(sum, Holdings, decoding), Holdings, decoding)
        BY <1>1, SumExists
      <3> QED BY <3>1 DEF SumOn
    <2>2. PICK G : Sums(G, Holdings, decoding) /\ SumOn(Holdings, decoding) = G[decoding]
      BY <2>1
    <2> HIDE DEF decoding, need
    <2>3. decoding \in SUBSET decoding
      OBVIOUS
    <2>4. F[decoding] = G[decoding]
      BY <1>1, <1>3, <1>5, <2>2, <2>3, SumsAgree
    <2> QED BY <2>2, <2>4
  <1>7. \A r \in Requests : Holdings[r] \in Nat
    BY DEF RequestsInv, Request, Holdings
  <1>8. /\ SumOn(Holdings, decoding) \in Nat /\ SumOn(Holdings, Requests) \in Nat
        /\ SumOn(Holdings, decoding) <= SumOn(Holdings, Requests)
    <2> HIDE DEF decoding, Holdings
    <2> QED BY <1>1, <1>7, SumOfPart
  <1>9. free + SumOn(Holdings, Requests) = Capacity /\ free \in Nat /\ Capacity \in Nat
    BY HeldIsSum, ThumbnailAssumption DEF MemoryInv
  <1>10. F[decoding] <= Capacity
    <2> HIDE DEF decoding
    <2> QED BY <1>6, <1>8, <1>9
  <1> QED BY <1>4, <1>10 DEF MemoryWithinBudget

-----------------------------------------------------------------------------
(* Listings: the sequences that an index can be                              *)

Listing(seq) == seq \in Seq(Keys) /\ IsInjective(seq)
Kept(seq, n) == SubSeq(seq, n + 1, Len(seq))
Gone(seq, n) == Range(SubSeq(seq, 1, n))

LEMMA ListingFacts ==
  ASSUME NEW seq, Listing(seq)
  PROVE  /\ Len(seq) \in Nat /\ Range(seq) \in SUBSET Keys /\ IsFiniteSet(Range(seq))
         /\ Range(seq) = {seq[i] : i \in 1 .. Len(seq)}
         /\ \A i \in 1 .. Len(seq) : seq[i] \in Keys
         /\ \A i, j \in 1 .. Len(seq) : seq[i] = seq[j] => i = j
         /\ \A k : Contains(seq, k) <=> k \in Range(seq)
  <1>1. seq \in Seq(Keys)
    BY DEF Listing
  <1>2. Len(seq) \in Nat /\ DOMAIN seq = 1 .. Len(seq) /\ \A i \in 1 .. Len(seq) : seq[i] \in Keys
    BY <1>1
  <1>3. Range(seq) = {seq[i] : i \in 1 .. Len(seq)} /\ Range(seq) \in SUBSET Keys
    BY <1>2 DEF Range
  <1>4. IsFiniteSet(Range(seq))
    BY <1>3, ThumbnailAssumption, FS_Subset
  <1>5. \A i, j \in 1 .. Len(seq) : seq[i] = seq[j] => i = j
    BY <1>2 DEF Listing, IsInjective
  <1> QED BY <1>2, <1>3, <1>4, <1>5 DEF Contains

LEMMA ListingFrom ==
  ASSUME NEW seq \in Seq(Keys), \A i, j \in 1 .. Len(seq) : seq[i] = seq[j] => i = j
  PROVE  Listing(seq)
  BY DEF Listing, IsInjective
\* Without one key a listing is a listing still.
LEMMA Removes ==
  ASSUME NEW seq, Listing(seq), NEW k
  PROVE  /\ Listing(RemoveFirst(seq, k)) /\ Range(RemoveFirst(seq, k)) = Range(seq) \ {k}
         /\ Len(RemoveFirst(seq, k)) <= Len(seq)
  <1>1. CASE k \notin Range(seq)
    <2>1. RemoveFirst(seq, k) = seq
      BY <1>1, ListingFacts DEF RemoveFirst, Contains
    <2> QED BY <1>1, <2>1, ListingFacts
  <1>2. CASE k \in Range(seq)
    <2> DEFINE n == Len(seq)
               I == {i \in 1 .. n : seq[i] = k}
    <2>1. /\ n \in Nat /\ \A i \in 1 .. n : seq[i] \in Keys
          /\ \A i, j \in 1 .. n : seq[i] = seq[j] => i = j
          /\ Range(seq) = {seq[i] : i \in 1 .. n}
      BY ListingFacts
    <2>2. PICK p \in 1 .. n : seq[p] = k
      BY <1>2, <2>1
    <2>3. I = {p}
      BY <2>1, <2>2
    <2>4. Min(I) = p
      <3>1. p <= p
        BY <2>1, <2>2
      <3> HIDE DEF I
      <3> QED BY <2>3, <3>1 DEF Min
    <2>5. RemoveFirst(seq, k) = SubSeq(seq, 1, p - 1) \o SubSeq(seq, p + 1, n)
      <3>1. RemoveFirst(seq, k) = RemoveAt(seq, IF I # {} THEN Min(I) ELSE 0)
        BY <2>2 DEF RemoveFirst, SelectInSeq
      <3> HIDE DEF I
      <3>2. RemoveFirst(seq, k) = RemoveAt(seq, p)
        BY <2>3, <2>4, <3>1
      <3> QED BY <3>2 DEF RemoveAt
    <2> DEFINE a == SubSeq(seq, 1, p - 1)
               b == SubSeq(seq, p + 1, n)
               c == a \o b
    <2> HIDE DEF n, I
    <2>6. a \in Seq(Keys) /\ Len(a) = p - 1 /\ \A i \in 1 .. p - 1 : a[i] = seq[i]
      <3>1. p - 1 \in Int /\ 1 \in Int /\ \A i \in 1 .. p - 1 : seq[i] \in Keys
        BY <2>1, <2>2
      <3> QED BY <2>1, <2>2, <3>1, SubSeqProperties
    <2>7. b \in Seq(Keys) /\ Len(b) = n - p /\ \A i \in 1 .. n - p : b[i] = seq[p + i]
      <3>1. p + 1 \in Int /\ n \in Int /\ \A i \in p + 1 .. n : seq[i] \in Keys
        BY <2>1, <2>2
      <3>2. /\ b \in Seq(Keys) /\ Len(b) = IF p + 1 <= n THEN n - (p + 1) + 1 ELSE 0
            /\ \A i \in 1 .. n - (p + 1) + 1 : b[i] = seq[(p + 1) + i - 1]
        BY <3>1, SubSeqProperties
      <3> QED BY <2>1, <2>2, <3>2
    <2> HIDE DEF a, b
    <2>8. /\ c \in Seq(Keys) /\ Len(c) = n - 1
          /\ \A i \in 1 .. n - 1 : c[i] = IF i <= p - 1 THEN a[i] ELSE b[i - (p - 1)]
      <3>1. /\ c \in Seq(Keys) /\ Len(c) = Len(a) + Len(b)
            /\ \A i \in 1 .. Len(a) + Len(b) : c[i] = IF i <= Len(a) THEN a[i] ELSE b[i - Len(a)]
        BY <2>6, <2>7, ConcatProperties
      <3>2. Len(a) + Len(b) = n - 1
        BY <2>1, <2>2, <2>6, <2>7
      <3> HIDE DEF c
      <3> QED BY <2>6, <3>1, <3>2
    <2>9. \A i \in 1 .. n - 1 : c[i] = seq[IF i <= p - 1 THEN i ELSE i + 1]
      <3> TAKE i \in 1 .. n - 1
      <3> HIDE DEF c
      <3>1. CASE i <= p - 1
        BY <2>1, <2>2, <2>6, <2>8, <3>1
      <3>2. CASE ~(i <= p - 1)
        <4>1. i - (p - 1) \in 1 .. n - p /\ p + (i - (p - 1)) = i + 1
          BY <2>1, <2>2, <3>2
        <4> QED BY <2>7, <2>8, <3>2, <4>1
      <3> QED BY <3>1, <3>2
    <2> HIDE DEF c
    <2>10. Listing(c)
      <3> DEFINE at == [i \in 1 .. n - 1 |-> IF i <= p - 1 THEN i ELSE i + 1]
      <3>1. \A i \in 1 .. n - 1 : at[i] \in 1 .. n /\ c[i] = seq[at[i]]
        BY <2>1, <2>2, <2>9
      <3>2. \A i, j \in 1 .. n - 1 : at[i] = at[j] => i = j
        BY <2>1, <2>2
      <3> HIDE DEF at
      <3>3. ASSUME NEW i \in 1 .. n - 1, NEW j \in 1 .. n - 1, c[i] = c[j] PROVE i = j
        <4>1. at[i] \in 1 .. n /\ at[j] \in 1 .. n /\ seq[at[i]] = seq[at[j]]
          BY <3>1, <3>3
        <4>2. at[i] = at[j]
          BY <2>1, <4>1
        <4> QED BY <3>2, <4>2
      <3> QED BY <2>8, <3>3, ListingFrom
    <2>11. Range(c) = Range(seq) \ {k}
      <3>1. Range(c) = {c[i] : i \in 1 .. n - 1}
        BY <2>8, <2>10, ListingFacts
      <3>2. ASSUME NEW x \in Range(c) PROVE x \in Range(seq) /\ x # k
        <4>1. PICK i \in 1 .. n - 1 : x = c[i]
          BY <3>1, <3>2
        <4> DEFINE j == IF i <= p - 1 THEN i ELSE i + 1
        <4>2. j \in 1 .. n /\ j # p /\ x = seq[j]
          BY <2>1, <2>2, <2>9, <4>1
        <4> HIDE DEF j
        <4> QED BY <2>1, <2>2, <4>2
      <3>3. ASSUME NEW x \in Range(seq), x # k PROVE x \in Range(c)
        <4>1. PICK j \in 1 .. n : x = seq[j]
          BY <2>1, <3>3
        <4>2. j # p
          BY <2>2, <3>3, <4>1
        <4>3. CASE j < p
          <5>1. j \in 1 .. n - 1 /\ c[j] = seq[j]
            BY <2>1, <2>2, <2>9, <4>3
          <5> QED BY <3>1, <4>1, <5>1
        <4>4. CASE j > p
          <5>1. j - 1 \in 1 .. n - 1 /\ ~(j - 1 <= p - 1) /\ (j - 1) + 1 = j
            BY <2>1, <2>2, <4>4
          <5>2. c[j - 1] = seq[j]
            BY <2>9, <5>1
          <5> QED BY <3>1, <4>1, <5>1, <5>2
        <4> QED BY <2>1, <2>2, <4>2, <4>3, <4>4
      <3> QED BY <3>2, <3>3
    <2>12. Len(c) <= Len(seq)
      BY <2>1, <2>8 DEF n
    <2> QED BY <2>5, <2>10, <2>11, <2>12 DEF c, a, b
  <1> QED BY <1>1, <1>2

LEMMA Appends ==
  ASSUME NEW seq, Listing(seq), NEW k \in Keys \ Range(seq)
  PROVE  /\ Listing(Append(seq, k)) /\ Range(Append(seq, k)) = Range(seq) \cup {k}
         /\ Len(Append(seq, k)) = Len(seq) + 1
  <1> DEFINE n == Len(seq)
             c == Append(seq, k)
  <1>1. seq \in Seq(Keys)
    BY DEF Listing
  <1>2. /\ c \in Seq(Keys) /\ Len(c) = n + 1
        /\ \A i \in 1 .. n : c[i] = seq[i]
        /\ c[n + 1] = k
    BY <1>1, AppendProperties
  <1>3. /\ n \in Nat /\ Range(seq) = {seq[i] : i \in 1 .. n}
        /\ \A i, j \in 1 .. n : seq[i] = seq[j] => i = j
    BY ListingFacts
  <1> HIDE DEF c, n
  <1>4. \A i \in 1 .. n + 1 : i \in 1 .. n \/ i = n + 1
    BY <1>3
  <1>5. \A i \in 1 .. n : seq[i] # k
    BY <1>3
  <1>6. Listing(c)
    <2>1. \A i, j \in 1 .. n + 1 : c[i] = c[j] => i = j
      BY <1>2, <1>3, <1>4, <1>5
    <2> QED BY <1>2, <2>1, ListingFrom
  <1>7. Range(c) = {c[i] : i \in 1 .. n + 1}
    BY <1>2, <1>6, ListingFacts
  <1>8. n + 1 \in 1 .. n + 1 /\ \A i \in 1 .. n : i \in 1 .. n + 1
    BY <1>3
  <1>9. Range(c) = Range(seq) \cup {k}
    BY <1>2, <1>3, <1>4, <1>7, <1>8
  <1> QED BY <1>2, <1>6, <1>9 DEF c, n

\* Its oldest and the others have nothing in common and are all of it.
LEMMA Splits ==
  ASSUME NEW seq, Listing(seq), NEW n \in 0 .. Len(seq)
  PROVE  /\ Listing(Kept(seq, n)) /\ Len(Kept(seq, n)) = Len(seq) - n
         /\ Gone(seq, n) \in SUBSET Keys /\ Range(Kept(seq, n)) \in SUBSET Keys
         /\ Gone(seq, n) \cap Range(Kept(seq, n)) = {}
         /\ Gone(seq, n) \cup Range(Kept(seq, n)) = Range(seq)
  <1> DEFINE m == Len(seq)
             a == SubSeq(seq, 1, n)
             b == SubSeq(seq, n + 1, m)
  <1>1. /\ m \in Nat /\ Range(seq) = {seq[i] : i \in 1 .. m} /\ Range(seq) \in SUBSET Keys
        /\ \A i \in 1 .. m : seq[i] \in Keys
        /\ \A i, j \in 1 .. m : seq[i] = seq[j] => i = j
    BY ListingFacts
  <1> HIDE DEF m
  <1>2. n \in Nat /\ n <= m
    BY <1>1 DEF m
  <1>3. a \in Seq(Keys) /\ Len(a) = n /\ \A i \in 1 .. n : a[i] = seq[i]
    <2>1. 1 \in Int /\ n \in Int /\ \A i \in 1 .. n : seq[i] \in Keys
      BY <1>1, <1>2
    <2>2. /\ a \in Seq(Keys) /\ Len(a) = IF 1 <= n THEN n - 1 + 1 ELSE 0
          /\ \A i \in 1 .. n - 1 + 1 : a[i] = seq[1 + i - 1]
      BY <2>1, SubSeqProperties
    <2> QED BY <1>2, <2>2
  <1>4. b \in Seq(Keys) /\ Len(b) = m - n /\ \A i \in 1 .. m - n : b[i] = seq[n + i]
    <2>1. n + 1 \in Int /\ m \in Int /\ \A i \in n + 1 .. m : seq[i] \in Keys
      BY <1>1, <1>2
    <2>2. /\ b \in Seq(Keys) /\ Len(b) = IF n + 1 <= m THEN m - (n + 1) + 1 ELSE 0
          /\ \A i \in 1 .. m - (n + 1) + 1 : b[i] = seq[(n + 1) + i - 1]
      BY <2>1, SubSeqProperties
    <2> QED BY <1>1, <1>2, <2>2
  <1> HIDE DEF a, b
  <1>5. \A i \in 1 .. m - n : n + i \in 1 .. m
    BY <1>1, <1>2
  <1>6. Listing(b)
    <2>1. ASSUME NEW i \in 1 .. m - n, NEW j \in 1 .. m - n, b[i] = b[j] PROVE i = j
      <3>1. n + i = n + j
        BY <1>1, <1>4, <1>5, <2>1
      <3> QED BY <1>1, <1>2, <3>1
    <2> QED BY <1>4, <2>1, ListingFrom
  <1>7. Range(b) = {seq[n + i] : i \in 1 .. m - n}
    <2>1. Range(b) = {b[i] : i \in 1 .. m - n}
      BY <1>4, <1>6, ListingFacts
    <2> QED BY <1>4, <2>1
  <1>8. Range(a) = {seq[i] : i \in 1 .. n}
    <2>1. Range(a) = {a[i] : i \in 1 .. n}
      BY <1>3, RangeEquality
    <2> QED BY <1>3, <2>1
  <1>9. ASSUME NEW x \in Range(a) PROVE x \in Range(seq) /\ x \notin Range(b)
    <2>1. PICK i \in 1 .. n : x = seq[i]
      BY <1>8, <1>9
    <2>2. i \in 1 .. m /\ \A j \in 1 .. m - n : i # n + j
      BY <1>1, <1>2
    <2> QED BY <1>1, <1>5, <1>7, <2>1, <2>2
  <1>10. Range(b) \subseteq Range(seq)
    BY <1>1, <1>5, <1>7
  <1>11. ASSUME NEW x \in Range(seq) PROVE x \in Range(a) \/ x \in Range(b)
    <2>1. PICK i \in 1 .. m : x = seq[i]
      BY <1>1, <1>11
    <2>2. CASE i <= n
      <3>1. i \in 1 .. n
        BY <1>1, <1>2, <2>2
      <3> QED BY <1>8, <2>1, <3>1
    <2>3. CASE i > n
      <3>1. i - n \in 1 .. m - n /\ n + (i - n) = i
        BY <1>1, <1>2, <2>3
      <3> QED BY <1>7, <2>1, <3>1
    <2> QED BY <1>1, <1>2, <2>2, <2>3
  <1> QED BY <1>1, <1>4, <1>6, <1>9, <1>10, <1>11 DEF a, b, m, Kept, Gone

LEMMA SumOfKeys ==
  ASSUME NEW A \in SUBSET Keys, NEW B \in SUBSET Keys, A \cap B = {}
  PROVE  SumOf(A) \in Nat /\ SumOf(B) \in Nat /\ SumOf(A \cup B) = SumOf(A) + SumOf(B)
  <1>1. IsFiniteSet(Keys) /\ \A k \in Keys : Length[k] \in Nat
    BY ThumbnailAssumption
  <1>2. /\ SumOn(Length, A) \in Nat /\ SumOn(Length, B) \in Nat
        /\ SumOn(Length, A \cup B) = SumOn(Length, A) + SumOn(Length, B)
    <2>1. \A S \in SUBSET Keys : \A T \in SUBSET Keys : S \cap T = {} =>
              /\ SumOn(Length, S) \in Nat /\ SumOn(Length, T) \in Nat
              /\ SumOn(Length, S \cup T) = SumOn(Length, S) + SumOn(Length, T)
      BY <1>1, SumUnion
    <2> QED BY <2>1
  <1>3. SumOf(A) = SumOn(Length, A) /\ SumOf(B) = SumOn(Length, B) /\ SumOf(A \cup B) = SumOn(Length, A \cup B)
    BY SumOfIsSum
  <1> QED BY <1>2, <1>3

LEMMA SumOfKey ==
  ASSUME NEW k \in Keys
  PROVE  SumOf({}) = 0 /\ SumOf({k}) = Length[k] /\ Length[k] \in Nat
  <1>1. IsFiniteSet(Keys) /\ \A j \in Keys : Length[j] \in Nat
    BY ThumbnailAssumption
  <1>2. SumOn(Length, {}) = 0
    BY SumEmpty
  <1>3. SumOn(Length, {} \cup {k}) = SumOn(Length, {}) + Length[k]
    <2>1. {} \in SUBSET Keys /\ k \in Keys \ {}
      OBVIOUS
    <2>2. \A S \in SUBSET Keys : /\ SumOn(Length, S) \in Nat
                                 /\ \A x \in Keys \ S : SumOn(Length, S \cup {x}) = SumOn(Length, S) + Length[x]
      BY <1>1, SumInserts
    <2> QED BY <2>1, <2>2
  <1>4. {} \cup {k} = {k}
    OBVIOUS
  <1>5. SumOn(Length, {k}) = Length[k]
    BY <1>1, <1>2, <1>3, <1>4
  <1> QED BY <1>1, <1>2, <1>5, SumOfIsSum

\* What is left of a listing of which the oldest go keeps both limits.
LEMMA Evicting ==
  ASSUME NEW seq, Listing(seq), NEW n, n = Evicts(seq, SumOf(Range(seq)))
  PROVE  /\ n \in 0 .. Len(seq) /\ Len(Kept(seq, n)) <= MaxEntries
         /\ SumOf(Range(Kept(seq, n))) = SumOf(Range(seq)) - SumOf(Gone(seq, n))
         /\ SumOf(Range(Kept(seq, n))) <= MaxBytes
  <1> DEFINE sum == SumOf(Range(seq))
             Holds(m) == /\ sum - SumOf(Range(SubSeq(seq, 1, m))) <= MaxBytes
                         /\ Len(seq) - m <= MaxEntries
             Enough == {m \in 0 .. Len(seq) : Holds(m)}
             Least(m) == Holds(m) /\ \A l \in 0 .. m - 1 : ~Holds(l)
  <1>1. Len(seq) \in Nat /\ MaxBytes \in Nat /\ MaxEntries \in Nat
    BY ListingFacts, ThumbnailAssumption
  <1>2. ASSUME NEW m \in 0 .. Len(seq)
        PROVE  SumOf(Range(Kept(seq, m))) = sum - SumOf(Gone(seq, m)) /\ SumOf(Range(Kept(seq, m))) \in Nat
    <2>1. /\ Gone(seq, m) \in SUBSET Keys /\ Range(Kept(seq, m)) \in SUBSET Keys
          /\ Gone(seq, m) \cap Range(Kept(seq, m)) = {}
          /\ Gone(seq, m) \cup Range(Kept(seq, m)) = Range(seq)
      BY Splits
    <2>2. /\ SumOf(Gone(seq, m)) \in Nat /\ SumOf(Range(Kept(seq, m))) \in Nat
          /\ sum = SumOf(Gone(seq, m)) + SumOf(Range(Kept(seq, m)))
      BY <2>1, SumOfKeys
    <2> HIDE DEF sum
    <2> QED BY <2>2
  <1>3. Holds(Len(seq))
    <2>1. Len(seq) \in 0 .. Len(seq) /\ seq \in Seq(Keys)
      BY <1>1 DEF Listing
    <2>2. Range(SubSeq(seq, 1, Len(seq))) = Range(seq)
      BY <2>1, SubSeqFull
    <2>3. sum \in Nat
      <3>1. Range(seq) \in SUBSET Keys /\ {} \in SUBSET Keys /\ Range(seq) \cap {} = {}
        BY ListingFacts
      <3> QED BY <3>1, SumOfKeys
    <2> HIDE DEF sum
    <2> QED BY <1>1, <2>2, <2>3 DEF sum
  <1>4. \E m \in 0 .. Len(seq) : Least(m)
    <2> DEFINE id == [m \in Enough |-> m]
    <2> HIDE DEF Holds
    <2>1. Enough # {} /\ id \in [Enough -> Nat]
      BY <1>1, <1>3
    <2>2. PICK m \in Enough : \A l \in Enough : id[m] <= id[l]
      <3> HIDE DEF id, Enough
      <3> QED BY <2>1, LeastIndexed
    <2>3. \A l \in 0 .. m - 1 : l \in 0 .. Len(seq) /\ ~(m <= l)
      BY <1>1
    <2> QED BY <2>2, <2>3
  <1>5. n \in 0 .. Len(seq) /\ Least(n)
    <2>1. n = CHOOSE m \in 0 .. Len(seq) : Least(m)
      BY DEF Evicts
    <2> HIDE DEF Least
    <2> QED BY <1>4, <2>1
  <1>6. Len(Kept(seq, n)) = Len(seq) - n
    BY <1>5, Splits
  <1>7. SumOf(Gone(seq, n)) = SumOf(Range(SubSeq(seq, 1, n)))
    BY DEF Gone
  <1> HIDE DEF sum
  <1> QED BY <1>2, <1>5, <1>6, <1>7 DEF sum

\* What an index is kept as: nothing but what it evicted is missing from it.
Opens(opened, found) ==
    /\ Listing(opened.index) /\ Len(opened.index) <= MaxEntries
    /\ opened.total = SumOf(Range(opened.index)) /\ opened.total <= MaxBytes
    /\ opened.evicted \in SUBSET Keys
    /\ opened.evicted \cup Range(opened.index) = found

LEMMA Keeping ==
  ASSUME NEW seq, Listing(seq), NEW n, n = Evicts(seq, SumOf(Range(seq))),
         NEW opened, opened.index = Kept(seq, n), opened.evicted = Gone(seq, n), opened.total = SumOf(Range(Kept(seq, n)))
  PROVE  Opens(opened, Range(seq))
  <1>1. /\ n \in 0 .. Len(seq) /\ Len(Kept(seq, n)) <= MaxEntries
        /\ SumOf(Range(Kept(seq, n))) <= MaxBytes
    BY Evicting
  <1>2. /\ Listing(Kept(seq, n)) /\ Gone(seq, n) \in SUBSET Keys
        /\ Gone(seq, n) \cup Range(Kept(seq, n)) = Range(seq)
    BY <1>1, Splits
  <1> QED BY <1>1, <1>2 DEF Opens

LEMMA Filling ==
  ASSUME Listing(index), IndexWithinLimits, NEW k \in Keys
  PROVE  Opens(Filled(k), Range(index) \cup {k})
  <1> DEFINE rest == RemoveFirst(index, k)
             seq == Append(rest, k)
             sum == total + Length[k] - (IF Contains(index, k) THEN Length[k] ELSE 0)
             n == Evicts(seq, sum)
             old == Range(index) \ {k}
  <1>1. Listing(rest) /\ Range(rest) = old
    BY Removes
  <1>2. Listing(seq) /\ Range(seq) = Range(index) \cup {k}
    <2> HIDE DEF rest
    <2>1. k \in Keys \ Range(rest)
      BY <1>1
    <2>2. Listing(seq) /\ Range(seq) = Range(rest) \cup {k}
      BY <1>1, <2>1, Appends
    <2> HIDE DEF seq
    <2> QED BY <1>1, <2>2
  <1>3. sum = SumOf(Range(seq))
    <2>1. /\ old \in SUBSET Keys /\ {k} \in SUBSET Keys /\ old \cap {k} = {}
          /\ old \cup {k} = Range(index) \cup {k}
          /\ (Contains(index, k) <=> k \in Range(index))
      BY ListingFacts
    <2>2. SumOf(old) \in Nat /\ SumOf(old \cup {k}) = SumOf(old) + SumOf({k})
      <3> HIDE DEF old
      <3> QED BY <2>1, SumOfKeys
    <2>3. SumOf({k}) = Length[k] /\ Length[k] \in Nat
      BY SumOfKey
    <2>4. SumOf(Range(seq)) = SumOf(old) + Length[k]
      BY <1>2, <2>1, <2>2, <2>3
    <2>5. total = SumOf(Range(index))
      BY DEF IndexWithinLimits
    <2>6. CASE Contains(index, k)
      <3>1. Range(index) = old \cup {k}
        BY <2>1, <2>6
      <3>2. total = SumOf(old) + Length[k]
        BY <2>2, <2>3, <2>5, <3>1
      <3> HIDE DEF old, seq
      <3> QED BY <2>2, <2>3, <2>4, <2>6, <3>2
    <2>7. CASE ~Contains(index, k)
      <3>1. Range(index) = old
        BY <2>1, <2>7
      <3>2. total = SumOf(old)
        BY <2>5, <3>1
      <3> HIDE DEF old, seq
      <3> QED BY <2>2, <2>3, <2>4, <2>7, <3>2
    <2> QED BY <2>6, <2>7
  <1>4. Filled(k) = [index |-> Kept(seq, n), evicted |-> Gone(seq, n), total |-> sum - SumOf(Gone(seq, n))]
    BY DEF Filled, Kept, Gone
  <1> HIDE DEF sum, seq, n
  <1>5. n = Evicts(seq, SumOf(Range(seq)))
    BY <1>3 DEF n
  <1>6. SumOf(Range(Kept(seq, n))) = SumOf(Range(seq)) - SumOf(Gone(seq, n))
    BY <1>2, <1>5, Evicting
  <1>7. /\ Filled(k).index = Kept(seq, n) /\ Filled(k).evicted = Gone(seq, n)
        /\ Filled(k).total = SumOf(Range(Kept(seq, n)))
    BY <1>3, <1>4, <1>6
  <1>8. Opens(Filled(k), Range(seq))
    BY <1>2, <1>5, <1>7, Keeping
  <1> QED BY <1>2, <1>8

LEMMA Reopening ==
  ASSUME NEW found \in SUBSET Keys, NEW opened \in Reopened(found)
  PROVE  Opens(opened, found)
  <1> DEFINE m == Cardinality(found)
             Made(seq, n) == [index |-> SubSeq(seq, n + 1, Len(seq)), evicted |-> Range(SubSeq(seq, 1, n)),
                              total |-> SumOf(Range(SubSeq(seq, n + 1, Len(seq))))]
  <1>1. PICK seq \in SetToSeqs(found) : opened = Made(seq, Evicts(seq, SumOf(found)))
    BY DEF Reopened
  <1>2. IsFiniteSet(found) /\ m \in Nat
    BY ThumbnailAssumption, FS_Subset, FS_CardinalityType
  <1>3. seq \in [1 .. m -> found] /\ \A i, j \in 1 .. m : seq[i] = seq[j] => i = j
    BY DEF SetToSeqs
  <1> HIDE DEF m
  <1>4. seq \in Seq(Keys) /\ Len(seq) = m
    BY <1>2, <1>3
  <1>5. Listing(seq)
    BY <1>3, <1>4, ListingFrom
  <1>6. Range(seq) = found
    <2>1. seq \in Injection(1 .. m, found)
      BY <1>3 DEF Injection, IsInjective
    <2>2. Cardinality(1 .. m) = m
      <3>1. 1 \in Int /\ m \in Int
        BY <1>2
      <3>2. Cardinality(1 .. m) = IF 1 > m THEN 0 ELSE m - 1 + 1
        BY <3>1, FS_Interval
      <3> QED BY <1>2, <3>2
    <2>3. seq \in Surjection(1 .. m, found)
      BY <1>2, <2>1, <2>2, FS_Injection DEF m
    <2>4. \A x \in found : \E i \in 1 .. m : seq[i] = x
      BY <2>3 DEF Surjection
    <2>5. Range(seq) = {seq[i] : i \in 1 .. m}
      BY <1>4, <1>5, ListingFacts
    <2> QED BY <1>3, <2>4, <2>5
  <1> DEFINE n == Evicts(seq, SumOf(found))
  <1>7. n = Evicts(seq, SumOf(Range(seq)))
    BY <1>6
  <1>8. opened.index = Kept(seq, n) /\ opened.evicted = Gone(seq, n)
        /\ opened.total = SumOf(Range(Kept(seq, n)))
    BY <1>1 DEF Kept, Gone
  <1> HIDE DEF n
  <1>9. Opens(opened, Range(seq))
    BY <1>5, <1>7, <1>8, Keeping
  <1> QED BY <1>6, <1>9

\* An index without a key that was in it counts what it lists.
LEMMA Removing ==
  ASSUME Listing(index), IndexWithinLimits, NEW k \in Keys, RemoveKey(k)
  PROVE  Listing(index') /\ Range(index') = Range(index) \ {k} /\ IndexWithinLimits'
  <1> DEFINE old == Range(index) \ {k}
  <1>1. Listing(index') /\ Range(index') = old /\ Len(index') <= Len(index)
    BY Removes DEF RemoveKey
  <1>2. /\ old \in SUBSET Keys /\ {k} \in SUBSET Keys /\ old \cap {k} = {}
        /\ (Contains(index, k) <=> k \in Range(index))
    BY ListingFacts
  <1>3. SumOf(old) \in Nat /\ SumOf(old \cup {k}) = SumOf(old) + SumOf({k})
    <2> HIDE DEF old
    <2> QED BY <1>2, SumOfKeys
  <1>4. SumOf({k}) = Length[k] /\ Length[k] \in Nat
    BY SumOfKey
  <1>5. total = SumOf(Range(index)) /\ total <= MaxBytes /\ Len(index) <= MaxEntries
    BY DEF IndexWithinLimits
  <1>6. MaxBytes \in Nat /\ MaxEntries \in Nat /\ Len(index) \in Nat /\ Len(index') \in Nat
    BY <1>1, ThumbnailAssumption, ListingFacts
  <1>7. total' = SumOf(old) /\ total' <= MaxBytes
    <2>1. CASE Contains(index, k)
      <3>1. Range(index) = old \cup {k}
        BY <1>2, <2>1
      <3>2. total = SumOf(old) + Length[k] /\ total' = total - Length[k]
        BY <1>3, <1>4, <1>5, <2>1, <3>1 DEF RemoveKey
      <3> HIDE DEF old
      <3> QED BY <1>3, <1>4, <1>5, <1>6, <3>2
    <2>2. CASE ~Contains(index, k)
      <3>1. Range(index) = old
        BY <1>2, <2>2
      <3>2. total = SumOf(old) /\ total' = total
        BY <1>5, <2>2, <3>1 DEF RemoveKey
      <3> QED BY <1>5, <3>2
    <2> QED BY <2>1, <2>2
  <1>8. Len(index') <= MaxEntries
    BY <1>1, <1>5, <1>6
  <1>9. total' = SumOf(Range(index'))
    BY <1>1, <1>7
  <1> QED BY <1>1, <1>7, <1>8, <1>9 DEF IndexWithinLimits

-----------------------------------------------------------------------------
(* A request moves                                                           *)

LEMMA NoneFits == NoRequest \in Request /\ Fits(NoRequest)
  <1>1. (CHOOSE k \in Keys : TRUE) \in Keys
    BY ThumbnailAssumption
  <1> DEFINE k == CHOOSE j \in Keys : TRUE
  <1> HIDE DEF k
  <1>2. [pc |-> "idle", key |-> k, arc |-> 0, guard |-> FALSE, second |-> FALSE, waited |-> TRUE,
         holds |-> 0, evicted |-> {}] \in Request
    BY <1>1 DEF Request, Labels, k
  <1>3. NoRequest \in Request
    BY <1>2 DEF NoRequest, k
  <1>4. NoRequest.pc = "idle" /\ NoRequest.holds = 0 /\ NoRequest.guard = FALSE /\ NoRequest.evicted = {}
    BY DEF NoRequest
  <1> QED BY <1>3, <1>4 DEF Fits, Decoding

Moves(r, new) == r \in Requests /\ Fits(new) /\ req' = [req EXCEPT ![r] = new]

LEMMA MovesRequests ==
  ASSUME RequestsInv, NEW r, NEW new, Moves(r, new)
  PROVE  /\ RequestsInv' /\ req'[r] = new /\ r \in Requests /\ new \in Request /\ req[r] \in Request
         /\ Fits(req[r]) /\ \A o \in Requests \ {r} : req'[o] = req[o]
  <1>1. new \in Request /\ Fits(req[r]) /\ req[r] \in Request /\ r \in Requests
    BY DEF Moves, Fits, RequestsInv
  <1>2. req'[r] = new /\ \A o \in Requests \ {r} : req'[o] = req[o]
    BY DEF Moves, RequestsInv
  <1>3. req' \in [Requests -> Request]
    BY <1>1 DEF Moves, RequestsInv
  <1>4. \A o \in Requests : Fits(req'[o])
    BY <1>2 DEF Moves, RequestsInv
  <1> QED BY <1>1, <1>2, <1>3, <1>4 DEF RequestsInv

LEMMA MovesMemory ==
  ASSUME RequestsInv, MemoryInv, NEW r, NEW new, Moves(r, new),
         free' \in Nat, free' + new.holds = free + req[r].holds
  PROVE  MemoryInv'
  <1> DEFINE f == Holdings
             g == [o \in Requests |-> req'[o].holds]
  <1>1. /\ req'[r] = new /\ r \in Requests /\ new \in Request /\ req[r] \in Request
        /\ \A o \in Requests \ {r} : req'[o] = req[o]
    BY MovesRequests
  <1>2. f \in [Requests -> Nat]
    BY DEF Holdings, RequestsInv, Request
  <1>3. g \in [Requests -> Nat]
    BY <1>1, MovesRequests DEF RequestsInv, Request
  <1>4. f[r] = req[r].holds /\ g[r] = new.holds /\ f[r] \in Nat /\ g[r] \in Nat
    BY <1>1, <1>2, <1>3 DEF Holdings
  <1>5. \A o \in Requests \ {r} : f[o] = g[o]
    BY <1>1 DEF Holdings
  <1>6. IsFiniteSet(Requests) /\ Capacity \in Nat
    BY ThumbnailAssumption
  <1>7. g = Holdings'
    BY DEF Holdings
  <1> HIDE DEF f, g
  <1>8. SumOn(f, Requests) \in Nat /\ SumOn(g, Requests) \in Nat
        /\ SumOn(g, Requests) + f[r] = SumOn(f, Requests) + g[r]
    BY <1>1, <1>2, <1>3, <1>5, <1>6, SumChanges
  <1>9. free \in Nat /\ free + SumOn(f, Requests) = Capacity
    BY HeldIsSum DEF MemoryInv, f
  <1>10. free' + SumOn(g, Requests) = Capacity
    BY <1>4, <1>6, <1>8, <1>9
  <1>11. Held(g) = SumOn(g, Requests)
    BY HeldIsSum
  <1> QED BY <1>7, <1>10, <1>11 DEF MemoryInv

LEMMA MovesLocks ==
  ASSUME RequestsInv, LocksInv, NEW r, NEW new, Moves(r, new),
         flights' \in [Keys -> Locks \cup {0}],
         new.arc # 0 => flights'[new.key] = new.arc,
         \A o \in Requests \ {r} : req[o].arc # 0 => flights'[Key(o)] = flights[Key(o)],
         new.guard => \A o \in Requests \ {r} : req[o].guard => req[o].arc # new.arc
  PROVE  LocksInv'
  <1>1. req'[r] = new /\ r \in Requests /\ \A o \in Requests \ {r} : req'[o] = req[o]
    BY MovesRequests
  <1>2. ASSUME NEW o \in Requests, req'[o].arc # 0 PROVE flights'[req'[o].key] = req'[o].arc
    <2>1. CASE o = r
      BY <1>1, <1>2, <2>1
    <2>2. CASE o # r
      BY <1>1, <1>2, <2>2 DEF LocksInv, Key
    <2> QED BY <2>1, <2>2
  <1>3. ASSUME NEW a \in Requests, NEW b \in Requests, a # b, req'[a].guard, req'[b].guard
        PROVE  req'[a].arc # req'[b].arc
    <2>1. CASE a = r
      BY <1>1, <1>3, <2>1
    <2>2. CASE b = r
      BY <1>1, <1>3, <2>2
    <2>3. CASE a # r /\ b # r
      BY <1>1, <1>3, <2>3 DEF LocksInv
    <2> QED BY <2>1, <2>2, <2>3
  <1> QED BY <1>2, <1>3 DEF LocksInv, Key, Locks

LEMMA MovesStore ==
  ASSUME RequestsInv, StoreInv, NEW r, NEW new, Moves(r, new),
         UNCHANGED <<index, total, files, forgetting, dropped, gone>>, temps' \subseteq Requests,
         req[r].evicted \subseteq new.evicted,
         req[r].pc = "index" => new.pc = "index" /\ new.key = req[r].key
  PROVE  StoreInv'
  <1>1. req'[r] = new /\ r \in Requests /\ \A o \in Requests \ {r} : req'[o] = req[o]
    BY MovesRequests
  <1>2. ASSUME NEW k \in files PROVE \/ Contains(index, k) \/ k \in forgetting \/ k \in dropped
                                     \/ \E o \in Requests : \/ req'[o].pc = "index" /\ req'[o].key = k
                                                            \/ k \in req'[o].evicted
    <2>1. CASE \E o \in Requests : (At(o, "index") /\ Key(o) = k) \/ k \in req[o].evicted
      <3>1. PICK o \in Requests : (At(o, "index") /\ Key(o) = k) \/ k \in req[o].evicted
        BY <2>1
      <3>2. (req'[o].pc = "index" /\ req'[o].key = k) \/ k \in req'[o].evicted
        BY <1>1, <3>1 DEF At, Key
      <3> QED BY <3>2
    <2> QED BY <2>1 DEF StoreInv, FilesAccounted
  <1>3. FilesAccounted'
    BY <1>2 DEF FilesAccounted, At, Key, Contains
  <1>4. IndexWithinLimits'
    BY DEF StoreInv, IndexWithinLimits
  <1> QED BY <1>3, <1>4 DEF StoreInv

\* Most moves change nothing but the request, which gives up its lock if anything.
Quietly(r, new) ==
    /\ new.holds = req[r].holds /\ free' = free /\ flights' = flights
    /\ new.arc \in {0, req[r].arc} /\ (new.arc # 0 => new.key = req[r].key)
    /\ new.guard => req[r].guard
    /\ index' = index /\ total' = total /\ files' = files /\ forgetting' = forgetting
    /\ dropped' = dropped /\ gone' = gone /\ temps' \subseteq Requests
    /\ req[r].evicted \subseteq new.evicted
    /\ req[r].pc = "index" => new.pc = "index" /\ new.key = req[r].key

LEMMA MovesQuietly ==
  ASSUME ThumbnailsInv, NEW r, NEW new, Moves(r, new), Quietly(r, new)
  PROVE  ThumbnailsInv'
  <1>1. RequestsInv /\ MemoryInv /\ LocksInv /\ StoreInv
    BY DEF ThumbnailsInv
  <1>2. RequestsInv' /\ r \in Requests /\ req[r] \in Request /\ new \in Request /\ Fits(req[r])
    BY <1>1, MovesRequests
  <1>3. MemoryInv'
    <2>1. free' \in Nat /\ free' + new.holds = free + req[r].holds
      BY <1>1 DEF Quietly, MemoryInv
    <2> QED BY <1>1, <2>1, MovesMemory
  <1>4. LocksInv'
    <2>1. flights' = flights /\ flights' \in [Keys -> Locks \cup {0}]
      BY <1>1 DEF Quietly, LocksInv
    <2>2. new.arc # 0 => flights'[new.key] = new.arc
      BY <1>1, <1>2 DEF Quietly, LocksInv, Key
    <2>3. ASSUME new.guard, NEW o \in Requests \ {r}, req[o].guard PROVE req[o].arc # new.arc
      <3>1. req[r].guard /\ new.arc # 0 /\ new.arc = req[r].arc
        BY <2>3 DEF Quietly, Moves, Fits
      <3> QED BY <1>1, <1>2, <2>3, <3>1 DEF LocksInv
    <2> QED BY <1>1, <2>1, <2>2, <2>3, MovesLocks
  <1>5. StoreInv'
    BY <1>1, MovesStore DEF Quietly
  <1> QED BY <1>2, <1>3, <1>4, <1>5 DEF ThumbnailsInv

\* What a request is when only its step is another.
Stepped(q, l) == [q EXCEPT !.pc = l]

LEMMA Going ==
  ASSUME NEW q \in Request, NEW l \in Labels
  PROVE  /\ Stepped(q, l) \in Request /\ Stepped(q, l).pc = l /\ Stepped(q, l).key = q.key /\ Stepped(q, l).arc = q.arc
         /\ Stepped(q, l).guard = q.guard /\ Stepped(q, l).second = q.second
         /\ Stepped(q, l).holds = q.holds /\ Stepped(q, l).evicted = q.evicted
  BY DEF Stepped, Request

LEMMA Goes ==
  ASSUME RequestsInv, NEW r \in Requests, NEW l \in Labels, Goto(r, l), Fits(Stepped(req[r], l))
  PROVE  Moves(r, Stepped(req[r], l))
  <1>1. Goto(r, l) => req' = [req EXCEPT ![r] = Stepped(req[r], l)]
    BY DEF Goto, Stepped, RequestsInv
  <1> QED BY <1>1 DEF Moves

\* What can follow a step of a request that keeps all that it has.
Follows(q, l) ==
    /\ l \in Labels \ {"idle", "lock", "release"}
    /\ l \in Decoding => q.pc \in Decoding
    /\ l \notin Decoding \cup {"unlock"} => q.pc \notin Decoding \cup {"unlock"}
    /\ l \in {"get", "read", "drop", "plan"} => q.pc \in {"get", "read", "drop", "plan"}
    /\ l = "plan" => ~q.second
    /\ q.evicted = {}

LEMMA Following ==
  ASSUME NEW q, Fits(q), NEW l, Follows(q, l)
  PROVE  Fits(Stepped(q, l))
  <1>1. q \in Request /\ l \in Labels
    BY DEF Fits, Follows
  <1>2. /\ Stepped(q, l) \in Request /\ Stepped(q, l).pc = l /\ Stepped(q, l).key = q.key /\ Stepped(q, l).arc = q.arc
        /\ Stepped(q, l).guard = q.guard /\ Stepped(q, l).second = q.second
        /\ Stepped(q, l).holds = q.holds /\ Stepped(q, l).evicted = q.evicted
    BY <1>1, Going
  <1> QED BY <1>2 DEF Fits, Follows, Decoding

\* Such a step is quiet but in the store.
LEMMA GoesOn ==
  ASSUME ThumbnailsInv, NEW r \in Requests, NEW l, Follows(req[r], l), Goto(r, l)
  PROVE  /\ Moves(r, Stepped(req[r], l)) /\ RequestsInv'
         /\ UNCHANGED free => MemoryInv'
         /\ UNCHANGED flights => LocksInv'
  <1> DEFINE new == Stepped(req[r], l)
  <1>1. RequestsInv /\ MemoryInv /\ LocksInv /\ req[r] \in Request /\ Fits(req[r]) /\ l \in Labels
    BY DEF ThumbnailsInv, RequestsInv, Follows
  <1>2. Fits(new)
    BY <1>1, Following
  <1>3. new.key = req[r].key /\ new.arc = req[r].arc /\ new.guard = req[r].guard /\ new.holds = req[r].holds
    BY <1>1, Going
  <1> HIDE DEF new
  <1>4. Moves(r, new)
    BY <1>1, <1>2, Goes DEF new
  <1>5. RequestsInv'
    BY <1>1, <1>4, MovesRequests
  <1>6. ASSUME UNCHANGED free PROVE MemoryInv'
    <2>1. free' \in Nat /\ free' + new.holds = free + req[r].holds
      BY <1>1, <1>3, <1>6 DEF MemoryInv
    <2> QED BY <1>1, <1>4, <2>1, MovesMemory
  <1>7. ASSUME UNCHANGED flights PROVE LocksInv'
    <2>1. flights' \in [Keys -> Locks \cup {0}] /\ (new.arc # 0 => flights'[new.key] = new.arc)
      BY <1>1, <1>3, <1>7 DEF LocksInv, Key
    <2>2. new.guard => \A o \in Requests \ {r} : req[o].guard => req[o].arc # new.arc
      BY <1>1, <1>3 DEF LocksInv
    <2> QED BY <1>1, <1>4, <1>7, <2>1, <2>2, MovesLocks
  <1> QED BY <1>4, <1>5, <1>6, <1>7 DEF new

\* Without a change of the index or the files, all of it is quiet.
LEMMA GoesQuietly ==
  ASSUME ThumbnailsInv, NEW r \in Requests, NEW l, Follows(req[r], l), Goto(r, l), req[r].pc # "index",
         UNCHANGED <<index, total, files, forgetting, dropped, flights, free, gone>>, temps' \subseteq Requests
  PROVE  ThumbnailsInv'
  <1>1. Moves(r, Stepped(req[r], l)) /\ RequestsInv' /\ MemoryInv' /\ LocksInv'
    BY GoesOn
  <1>2. RequestsInv /\ StoreInv /\ req[r].evicted = {}
    BY DEF ThumbnailsInv, Follows
  <1>3. StoreInv'
    <2> DEFINE new == Stepped(req[r], l)
    <2>1. Moves(r, new)
      BY <1>1
    <2> HIDE DEF new
    <2>2. req[r].evicted \subseteq new.evicted
      BY <1>2
    <2> QED BY <1>2, <2>1, <2>2, MovesStore
  <1> QED BY <1>1, <1>3 DEF ThumbnailsInv

-----------------------------------------------------------------------------
(* The steps that leave the store alone                                      *)

LEMMA GetKeeps ==
  ASSUME ThumbnailsInv, NEW r \in Requests, Get(r)
  PROVE  ThumbnailsInv'
  <1> DEFINE l == IF Contains(index, Key(r)) THEN "read" ELSE Missed(r)
  <1>1. Fits(req[r]) /\ req[r].pc = "get" /\ temps' \subseteq Requests
    BY DEF ThumbnailsInv, RequestsInv, StoreInv, Get, At, store
  <1>2. Follows(req[r], l)
    BY <1>1 DEF Follows, Fits, Missed, Decoding, Labels
  <1>3. Goto(r, l) /\ UNCHANGED <<index, total, files, forgetting, dropped, flights, free, gone>>
    BY DEF Get, store
  <1> HIDE DEF l
  <1> QED BY <1>1, <1>2, <1>3, GoesQuietly

LEMMA ReadKeeps ==
  ASSUME ThumbnailsInv, NEW r \in Requests, Read(r)
  PROVE  ThumbnailsInv'
  <1>1. Fits(req[r]) /\ req[r].pc = "read" /\ temps' \subseteq Requests
    BY DEF ThumbnailsInv, RequestsInv, StoreInv, Read, At, store
  <1>2. Follows(req[r], "unlock") /\ Follows(req[r], "drop")
    BY <1>1 DEF Follows, Fits, Decoding, Labels
  <1>3. UNCHANGED <<index, total, files, forgetting, dropped, flights, free, gone>>
    BY DEF Read, store
  <1>4. Goto(r, "unlock") \/ Goto(r, "drop")
    BY DEF Read
  <1> QED BY <1>1, <1>2, <1>3, <1>4, GoesQuietly

LEMMA RenderKeeps ==
  ASSUME ThumbnailsInv, NEW r \in Requests, Render(r)
  PROVE  ThumbnailsInv'
  <1>1. Fits(req[r]) /\ req[r].pc = "render" /\ temps' \subseteq Requests
    BY DEF ThumbnailsInv, RequestsInv, StoreInv, Render, At, store
  <1>2. Follows(req[r], "unlock") /\ Follows(req[r], "write")
    BY <1>1 DEF Follows, Fits, Decoding, Labels
  <1>3. UNCHANGED <<index, total, files, forgetting, dropped, flights, free, gone>>
    BY DEF Render, store
  <1>4. Goto(r, "unlock") \/ Goto(r, "write")
    BY DEF Render
  <1> QED BY <1>1, <1>2, <1>3, <1>4, GoesQuietly

LEMMA WriteKeeps ==
  ASSUME ThumbnailsInv, NEW r \in Requests, WriteTemporary(r)
  PROVE  ThumbnailsInv'
  <1>1. Fits(req[r]) /\ req[r].pc = "write" /\ temps' \subseteq Requests
    BY DEF ThumbnailsInv, RequestsInv, StoreInv, WriteTemporary, At
  <1>2. Follows(req[r], "unlock") /\ Follows(req[r], "rename")
    BY <1>1 DEF Follows, Fits, Decoding, Labels
  <1>3. UNCHANGED <<index, total, files, forgetting, dropped, flights, free, gone>>
    BY DEF WriteTemporary
  <1>4. Goto(r, "unlock") \/ Goto(r, "rename")
    BY DEF WriteTemporary
  <1> QED BY <1>1, <1>2, <1>3, <1>4, GoesQuietly

\* A request that holds nothing and has nothing to remove can go.
LEMMA DropsQuietly ==
  ASSUME ThumbnailsInv, NEW r \in Requests, Drops(r), req[r].holds = 0, req[r].evicted = {},
         req[r].pc # "index", UNCHANGED <<store, flights, free, gone>>
  PROVE  ThumbnailsInv'
  <1>1. Moves(r, NoRequest)
    BY NoneFits DEF Moves, Drops
  <1>2. NoRequest.holds = 0 /\ NoRequest.arc = 0 /\ NoRequest.guard = FALSE /\ NoRequest.evicted = {}
    BY DEF NoRequest
  <1>3. temps' \subseteq Requests
    BY DEF ThumbnailsInv, StoreInv, store
  <1>4. Quietly(r, NoRequest)
    BY <1>2, <1>3 DEF Quietly, store
  <1> QED BY <1>1, <1>4, MovesQuietly

LEMMA AskKeeps ==
  ASSUME ThumbnailsInv, NEW r \in Requests, NEW k \in Keys, Ask(r, k)
  PROVE  ThumbnailsInv'
  <1> DEFINE new == [NoRequest EXCEPT !.pc = "get", !.key = k]
  <1>1. NoRequest \in Request /\ NoRequest.arc = 0 /\ NoRequest.guard = FALSE /\ NoRequest.holds = 0
        /\ NoRequest.evicted = {} /\ NoRequest.pc = "idle"
    BY NoneFits DEF NoRequest
  <1>2. /\ new \in Request /\ new.pc = "get" /\ new.arc = 0 /\ new.guard = FALSE /\ new.holds = 0
        /\ new.evicted = {}
    BY <1>1 DEF Request, Labels
  <1>3. Fits(new)
    <2> HIDE DEF new
    <2> QED BY <1>2 DEF Fits, Decoding
  <1>4. req[r] = NoRequest /\ temps' \subseteq Requests
    BY DEF Ask, At, ThumbnailsInv, RequestsInv, Fits, StoreInv, store
  <1>5. Moves(r, new)
    BY <1>3 DEF Moves, Ask
  <1> HIDE DEF new
  <1>6. Quietly(r, new)
    BY <1>1, <1>2, <1>4 DEF Quietly, Ask, store
  <1> QED BY <1>5, <1>6, MovesQuietly

LEMMA CutKeeps ==
  ASSUME ThumbnailsInv, NEW r \in Requests, Cut(r)
  PROVE  ThumbnailsInv'
  <1>1. Fits(req[r]) /\ req[r] \in Request /\ req \in [Requests -> Request]
    BY DEF ThumbnailsInv, RequestsInv
  <1>2. CASE req[r].pc \in {"lock", "reserve"}
    <2>1. req[r].holds = 0 /\ req[r].evicted = {} /\ req[r].pc # "index"
      BY <1>1, <1>2 DEF Fits, Decoding
    <2>2. Drops(r) /\ UNCHANGED <<store, flights, free, gone>>
      BY <1>2 DEF Cut
    <2> QED BY <2>1, <2>2, DropsQuietly
  <1>3. CASE req[r].pc \notin {"lock", "reserve"}
    <2> DEFINE new == [req[r] EXCEPT !.waited = FALSE, !.guard = FALSE, !.arc = 0]
    <2>1. /\ new \in Request /\ new.pc = req[r].pc /\ new.key = req[r].key /\ new.arc = 0
          /\ new.guard = FALSE /\ new.second = req[r].second /\ new.holds = req[r].holds
          /\ new.evicted = req[r].evicted
      BY <1>1 DEF Request
    <2>2. req[r].pc \notin {"idle", "lock", "release"}
      BY <1>3 DEF Cut
    <2>3. req' = [req EXCEPT ![r] = new] /\ UNCHANGED <<store, flights, free, gone>>
      BY <1>1, <1>3 DEF Cut
    <2> HIDE DEF new
    <2>4. Fits(new)
      BY <1>1, <2>1, <2>2 DEF Fits
    <2>5. Moves(r, new)
      BY <2>3, <2>4 DEF Moves
    <2>6. temps' \subseteq Requests
      BY <2>3 DEF ThumbnailsInv, StoreInv, store
    <2>7. Quietly(r, new)
      BY <2>1, <2>3, <2>6 DEF Quietly, store
    <2> QED BY <2>5, <2>7, MovesQuietly
  <1> QED BY <1>2, <1>3

-----------------------------------------------------------------------------
(* Locks and reservations                                                    *)

\* How many there are of an Arc is a number, and more than two when a key and two
\* requests have it.
LEMMA Counts ==
  ASSUME NEW lock
  PROVE  /\ StrongCount(lock) \in Nat
         /\ StrongCount(lock) = 0 <=> /\ \A k \in Keys : flights[k] # lock
                                      /\ \A r \in Requests : req[r].arc # lock
         /\ \A k \in Keys, r, o \in Requests :
               flights[k] = lock /\ req[r].arc = lock /\ req[o].arc = lock /\ r # o => StrongCount(lock) > 2
  <1> DEFINE A == {k \in Keys : flights[k] = lock}
             B == {r \in Requests : req[r].arc = lock}
             C == {r \in Requests : req[r].arc = lock /\ (At(r, "lock") \/ req[r].guard)}
  <1>1. IsFiniteSet(A) /\ IsFiniteSet(B) /\ IsFiniteSet(C)
    BY ThumbnailAssumption, FS_Subset
  <1>2. Cardinality(A) \in Nat /\ Cardinality(B) \in Nat /\ Cardinality(C) \in Nat
    <2> HIDE DEF A, B, C
    <2> QED BY <1>1, FS_CardinalityType
  <1>3. StrongCount(lock) = Cardinality(A) + Cardinality(B) + Cardinality(C)
    BY DEF StrongCount
  <1>4. (Cardinality(A) = 0 <=> A = {}) /\ (Cardinality(B) = 0 <=> B = {}) /\ (Cardinality(C) = 0 <=> C = {})
    <2> HIDE DEF A, B, C
    <2> QED BY <1>1, FS_EmptySet
  <1>5. B = {} => C = {}
    OBVIOUS
  <1>6. (A = {} <=> \A k \in Keys : flights[k] # lock) /\ (B = {} <=> \A r \in Requests : req[r].arc # lock)
    OBVIOUS
  <1>7. ASSUME NEW k \in Keys, NEW r \in Requests, NEW o \in Requests,
               flights[k] = lock, req[r].arc = lock, req[o].arc = lock, r # o
        PROVE  StrongCount(lock) > 2
    <2>1. k \in A /\ r \in B /\ o \in B
      BY <1>7
    <2> DEFINE D == B \ {r}
    <2>2. o \in D
      BY <1>7, <2>1
    <2> HIDE DEF A, B, C
    <2>3. IsFiniteSet(D) /\ Cardinality(D) = Cardinality(B) - 1
      BY <1>1, <2>1, FS_RemoveElement
    <2> HIDE DEF D
    <2>4. Cardinality(D) \in Nat /\ (Cardinality(D) = 0 <=> D = {})
      BY <2>3, FS_CardinalityType, FS_EmptySet
    <2>5. Cardinality(A) > 0 /\ Cardinality(D) > 0
      BY <1>2, <1>4, <2>1, <2>2, <2>4
    <2> QED BY <1>2, <1>3, <2>3, <2>4, <2>5
  <1> HIDE DEF A, B, C
  <1>8. /\ StrongCount(lock) \in Nat
        /\ StrongCount(lock) = 0 <=> Cardinality(A) = 0 /\ Cardinality(B) = 0 /\ Cardinality(C) = 0
    BY <1>2, <1>3
  <1>9. StrongCount(lock) = 0 <=> A = {} /\ B = {}
    BY <1>4, <1>5, <1>8
  <1> QED BY <1>6, <1>7, <1>8, <1>9

\* There is always an unused lock: the key that asks for one has none.
LEMMA UnusedIsLock ==
  ASSUME RequestsInv, LocksInv, NEW k \in Keys, flights[k] = 0
  PROVE  Unused \in Locks
  <1> DEFINE arcs == [r \in Requests |-> req[r].arc]
             A == Range(flights)
             B == Range(arcs)
             n == Cardinality(Requests) + Cardinality(Keys)
  <1>1. IsFiniteSet(Requests) /\ IsFiniteSet(Keys) /\ Cardinality(Requests) \in Nat /\ Cardinality(Keys) \in Nat
    BY ThumbnailAssumption, FS_CardinalityType
  <1>2. flights \in Surjection(Keys, A) /\ DOMAIN flights = Keys
    BY DEF LocksInv, Range, Surjection
  <1>3. arcs \in Surjection(Requests, B) /\ DOMAIN arcs = Requests
    BY DEF Range, Surjection
  <1>4. 0 \in A /\ \A j \in Keys : flights[j] \in A
    BY <1>2 DEF Range
  <1>5. \A r \in Requests : req[r].arc \in B
    BY <1>3 DEF Range
  <1> HIDE DEF A, B, arcs
  <1>6. /\ IsFiniteSet(A) /\ Cardinality(A) <= Cardinality(Keys)
        /\ IsFiniteSet(B) /\ Cardinality(B) <= Cardinality(Requests)
    BY <1>1, <1>2, <1>3, FS_Surjection
  <1>7. IsFiniteSet(A \cup B) /\ Cardinality(A \cup B) <= n /\ Cardinality(A \cup B) \in Nat
    <2>1. IsFiniteSet(A \cup B) /\ Cardinality(A \cup B) = Cardinality(A) + Cardinality(B) - Cardinality(A \cap B)
      BY <1>6, FS_Union
    <2>2. IsFiniteSet(A \cap B)
      BY <1>6, FS_Intersection
    <2>3. /\ Cardinality(A) \in Nat /\ Cardinality(B) \in Nat /\ Cardinality(A \cap B) \in Nat
          /\ Cardinality(A \cup B) \in Nat
      BY <1>6, <2>1, <2>2, FS_CardinalityType
    <2> QED BY <1>1, <1>6, <2>1, <2>3
  <1>8. Cardinality(0 .. n) = n + 1
    <2>1. 0 \in Int /\ n \in Int /\ ~(0 > n)
      BY <1>1
    <2>2. Cardinality(0 .. n) = IF 0 > n THEN 0 ELSE n - 0 + 1
      BY <2>1, FS_Interval
    <2> QED BY <1>1, <2>1, <2>2
  <1>9. ~(0 .. n \subseteq A \cup B)
    <2>1. 0 .. n \subseteq A \cup B => Cardinality(0 .. n) <= Cardinality(A \cup B)
      BY <1>7, FS_Subset
    <2>2. n \in Nat
      BY <1>1
    <2> HIDE DEF n
    <2> QED BY <1>7, <1>8, <2>1, <2>2
  <1>10. PICK lock \in 0 .. n : lock \notin A /\ lock \notin B
    BY <1>9
  <1>11. lock # 0 /\ lock \in Locks
    BY <1>4, <1>10 DEF Locks
  <1>12. StrongCount(lock) = 0
    BY <1>4, <1>5, <1>10, Counts
  <1> QED BY <1>11, <1>12 DEF Unused

LEMMA PlanKeeps ==
  ASSUME ThumbnailsInv, NEW r \in Requests, Plan(r)
  PROVE  ThumbnailsInv'
  <1>1. /\ RequestsInv /\ MemoryInv /\ LocksInv /\ StoreInv
        /\ Fits(req[r]) /\ req[r] \in Request /\ req[r].pc = "plan" /\ Key(r) \in Keys
    BY DEF ThumbnailsInv, RequestsInv, Plan, At, Key, Request
  <1>2. /\ req[r].holds = 0 /\ req[r].evicted = {} /\ ~req[r].second /\ req[r].arc = 0 /\ ~req[r].guard
        /\ req[r].guard \in BOOLEAN
    BY <1>1 DEF Fits, Decoding, Request
  <1>3. CASE Drops(r) /\ UNCHANGED flights
    <2>1. UNCHANGED <<store, flights, free, gone>>
      BY <1>3 DEF Plan
    <2> QED BY <1>1, <1>2, <1>3, <2>1, DropsQuietly
  <1>4. CASE ~(Drops(r) /\ UNCHANGED flights)
    <2> DEFINE lock == IF flights[Key(r)] # 0 THEN flights[Key(r)] ELSE Unused
               new == [req[r] EXCEPT !.pc = "lock", !.arc = lock]
    <2>1. lock \in Locks
      <3>1. CASE flights[Key(r)] = 0
        BY <1>1, <3>1, UnusedIsLock
      <3>2. CASE flights[Key(r)] # 0
        BY <1>1, <3>2 DEF LocksInv
      <3> QED BY <3>1, <3>2
    <2>2. lock # 0
      <3>1. 0 \notin Locks
        BY DEF Locks
      <3> QED BY <2>1, <3>1
    <2>3. flights[Key(r)] # 0 => lock = flights[Key(r)]
      OBVIOUS
    <2>4. /\ flights' = [flights EXCEPT ![Key(r)] = lock]
          /\ req' = [req EXCEPT ![r].pc = "lock", ![r].arc = lock]
          /\ UNCHANGED <<store, free, gone>>
      BY <1>4 DEF Plan
    <2> HIDE DEF lock
    <2>5. /\ new \in Request /\ new.pc = "lock" /\ new.arc = lock /\ new.key = Key(r)
          /\ new.guard = req[r].guard /\ new.second = req[r].second /\ new.holds = 0 /\ new.evicted = {}
      BY <1>1, <1>2, <2>1 DEF Request, Labels, Key
    <2>6. req' = [req EXCEPT ![r] = new]
      BY <1>1, <2>4 DEF RequestsInv
    <2> HIDE DEF new
    <2>7. Fits(new)
      BY <1>2, <2>2, <2>5 DEF Fits, Decoding
    <2>8. Moves(r, new)
      BY <2>6, <2>7 DEF Moves
    <2>9. RequestsInv'
      BY <1>1, <2>8, MovesRequests
    <2>10. MemoryInv'
      <3>1. free' \in Nat /\ free' + new.holds = free + req[r].holds
        BY <1>1, <1>2, <2>4, <2>5 DEF MemoryInv
      <3> QED BY <1>1, <2>8, <3>1, MovesMemory
    <2>11. LocksInv'
      <3>1. flights' \in [Keys -> Locks \cup {0}] /\ flights'[Key(r)] = lock
        BY <1>1, <2>1, <2>4 DEF LocksInv
      <3>2. ASSUME NEW o \in Requests \ {r}, req[o].arc # 0 PROVE flights'[Key(o)] = flights[Key(o)]
        <4>1. flights[Key(o)] # 0 /\ Key(o) \in Keys
          BY <1>1, <3>2 DEF LocksInv, RequestsInv, Request, Key
        <4>2. CASE Key(o) = Key(r)
          BY <2>3, <3>1, <4>1, <4>2
        <4>3. CASE Key(o) # Key(r)
          BY <1>1, <2>4, <4>1, <4>3 DEF LocksInv
        <4> QED BY <4>2, <4>3
      <3>3. ~new.guard /\ flights'[new.key] = new.arc
        BY <1>2, <2>5, <3>1
      <3> QED BY <1>1, <2>8, <3>1, <3>2, <3>3, MovesLocks
    <2>12. StoreInv'
      <3>1. UNCHANGED <<index, total, files, forgetting, dropped, gone>> /\ temps' \subseteq Requests
        BY <1>1, <2>4 DEF StoreInv, store
      <3> QED BY <1>1, <1>2, <2>8, <3>1, MovesStore
    <2> QED BY <2>9, <2>10, <2>11, <2>12 DEF ThumbnailsInv
  <1> QED BY <1>3, <1>4

LEMMA LockKeeps ==
  ASSUME ThumbnailsInv, NEW r \in Requests, Lock(r)
  PROVE  ThumbnailsInv'
  <1>1. /\ RequestsInv /\ MemoryInv /\ LocksInv /\ StoreInv
        /\ Fits(req[r]) /\ req[r] \in Request /\ req[r].pc = "lock"
        /\ UNCHANGED <<store, flights, free, gone>>
    BY DEF ThumbnailsInv, RequestsInv, Lock, At
  <1>2. req[r].holds = 0 /\ req[r].evicted = {} /\ req[r].arc # 0
    BY <1>1 DEF Fits, Decoding
  <1>3. CASE Drops(r)
    BY <1>1, <1>2, <1>3, DropsQuietly
  <1>4. CASE ~Drops(r)
    <2> DEFINE new == [req[r] EXCEPT !.pc = "get", !.guard = TRUE, !.second = TRUE]
    <2>1. /\ new \in Request /\ new.pc = "get" /\ new.arc = req[r].arc /\ new.key = req[r].key
          /\ new.guard = TRUE /\ new.second = TRUE /\ new.holds = 0 /\ new.evicted = {}
      BY <1>1, <1>2 DEF Request, Labels
    <2>2. /\ req' = [req EXCEPT ![r] = new]
          /\ \A o \in Requests : ~(req[o].guard /\ req[o].arc = req[r].arc)
      BY <1>1, <1>4 DEF Lock, RequestsInv
    <2> HIDE DEF new
    <2>3. Fits(new)
      BY <1>2, <2>1 DEF Fits, Decoding
    <2>4. Moves(r, new)
      BY <2>2, <2>3 DEF Moves
    <2>5. RequestsInv'
      BY <1>1, <2>4, MovesRequests
    <2>6. MemoryInv'
      <3>1. free' \in Nat /\ free' + new.holds = free + req[r].holds
        BY <1>1, <1>2, <2>1 DEF MemoryInv
      <3> QED BY <1>1, <2>4, <3>1, MovesMemory
    <2>7. LocksInv'
      <3>1. flights' \in [Keys -> Locks \cup {0}] /\ (new.arc # 0 => flights'[new.key] = new.arc)
        BY <1>1, <2>1 DEF LocksInv, Key
      <3>2. \A o \in Requests \ {r} : req[o].guard => req[o].arc # new.arc
        BY <2>1, <2>2
      <3> QED BY <1>1, <2>4, <3>1, <3>2, MovesLocks
    <2>8. StoreInv'
      <3>1. UNCHANGED <<index, total, files, forgetting, dropped, gone>> /\ temps' \subseteq Requests
        BY <1>1 DEF StoreInv, store
      <3> QED BY <1>1, <1>2, <2>4, <3>1, MovesStore
    <2> QED BY <2>5, <2>6, <2>7, <2>8 DEF ThumbnailsInv
  <1> QED BY <1>3, <1>4

LEMMA ReserveKeeps ==
  ASSUME ThumbnailsInv, NEW r \in Requests, Reserve(r)
  PROVE  ThumbnailsInv'
  <1>1. /\ RequestsInv /\ MemoryInv /\ LocksInv /\ StoreInv
        /\ Fits(req[r]) /\ req[r] \in Request /\ req[r].pc = "reserve"
        /\ UNCHANGED <<store, flights, gone>> /\ Key(r) \in Keys
    BY DEF ThumbnailsInv, RequestsInv, Reserve, At, Key, Request
  <1>2. req[r].holds = 0 /\ req[r].evicted = {} /\ temps' \subseteq Requests
    BY <1>1 DEF Fits, Decoding, StoreInv, store
  <1>3. CASE Goto(r, "unlock") /\ UNCHANGED free
    <2>1. Follows(req[r], "unlock")
      BY <1>1, <1>2 DEF Follows, Decoding, Labels
    <2> QED BY <1>1, <1>2, <1>3, <2>1, GoesQuietly DEF store
  <1>4. CASE ~(Goto(r, "unlock") /\ UNCHANGED free)
    <2> DEFINE need == Estimate[Key(r)]
               new == [req[r] EXCEPT !.pc = "render", !.holds = need]
    <2>1. need \in Nat
      BY <1>1, ThumbnailAssumption
    <2>2. /\ free >= need /\ free' = free - need
          /\ req' = [req EXCEPT ![r].pc = "render", ![r].holds = need]
      BY <1>4 DEF Reserve
    <2>3. /\ new \in Request /\ new.pc = "render" /\ new.arc = req[r].arc /\ new.key = req[r].key
          /\ new.guard = req[r].guard /\ new.second = req[r].second /\ new.holds = need /\ new.evicted = {}
      <3> HIDE DEF need
      <3> QED BY <1>1, <1>2, <2>1 DEF Request, Labels
    <2>4. req' = [req EXCEPT ![r] = new]
      BY <1>1, <2>2 DEF RequestsInv
    <2> HIDE DEF new
    <2>5. Fits(new)
      BY <1>1, <2>3 DEF Fits, Decoding, Key
    <2> HIDE DEF need
    <2>6. Moves(r, new)
      BY <2>4, <2>5 DEF Moves
    <2>7. RequestsInv'
      BY <1>1, <2>6, MovesRequests
    <2>8. MemoryInv'
      <3>1. free' \in Nat /\ free' + new.holds = free + req[r].holds
        BY <1>1, <1>2, <2>1, <2>2, <2>3 DEF MemoryInv
      <3> QED BY <1>1, <2>6, <3>1, MovesMemory
    <2>9. LocksInv'
      <3>1. flights' \in [Keys -> Locks \cup {0}] /\ (new.arc # 0 => flights'[new.key] = new.arc)
        BY <1>1, <2>3 DEF LocksInv, Key
      <3>2. new.guard => \A o \in Requests \ {r} : req[o].guard => req[o].arc # new.arc
        BY <1>1, <2>3 DEF LocksInv
      <3> QED BY <1>1, <2>6, <3>1, <3>2, MovesLocks
    <2>10. StoreInv'
      <3>1. UNCHANGED <<index, total, files, forgetting, dropped, gone>>
        BY <1>1 DEF store
      <3> QED BY <1>1, <1>2, <2>6, <3>1, MovesStore
    <2> QED BY <2>7, <2>8, <2>9, <2>10 DEF ThumbnailsInv
  <1> QED BY <1>3, <1>4

LEMMA UnlockKeeps ==
  ASSUME ThumbnailsInv, NEW r \in Requests, Unlock(r)
  PROVE  ThumbnailsInv'
  <1>1. /\ RequestsInv /\ MemoryInv /\ LocksInv /\ StoreInv
        /\ Fits(req[r]) /\ req[r] \in Request /\ req[r].pc = "unlock"
        /\ free' = free + req[r].holds /\ UNCHANGED <<store, flights, gone>>
    BY DEF ThumbnailsInv, RequestsInv, Unlock, At
  <1>2. req[r].evicted = {} /\ req[r].holds \in Nat
    BY <1>1 DEF Fits, Request
  <1> DEFINE new == IF req[r].arc = 0 THEN NoRequest
                    ELSE [req[r] EXCEPT !.pc = "release", !.guard = FALSE, !.holds = 0]
  <1>3. Moves(r, new) /\ new.holds = 0 /\ new.evicted = {} /\ new.guard = FALSE
        /\ (new.arc # 0 => new.arc = req[r].arc /\ new.key = req[r].key)
    <2>1. CASE req[r].arc = 0
      <3>1. new = NoRequest /\ Drops(r)
        BY <2>1 DEF Unlock
      <3>2. NoRequest.holds = 0 /\ NoRequest.evicted = {} /\ NoRequest.guard = FALSE /\ NoRequest.arc = 0
        BY DEF NoRequest
      <3> HIDE DEF new
      <3> QED BY <3>1, <3>2, NoneFits DEF Moves, Drops
    <2>2. CASE req[r].arc # 0
      <3> DEFINE q == [req[r] EXCEPT !.pc = "release", !.guard = FALSE, !.holds = 0]
      <3>1. new = q
        BY <2>2
      <3>2. /\ q \in Request /\ q.pc = "release" /\ q.arc = req[r].arc /\ q.key = req[r].key
            /\ q.guard = FALSE /\ q.holds = 0 /\ q.evicted = {}
        BY <1>1, <1>2 DEF Request, Labels
      <3>3. req' = [req EXCEPT ![r] = q]
        BY <1>1, <2>2 DEF Unlock, RequestsInv
      <3> HIDE DEF q, new
      <3>4. Fits(q)
        BY <2>2, <3>2 DEF Fits, Decoding
      <3> QED BY <3>1, <3>2, <3>3, <3>4 DEF Moves
    <2> QED BY <2>1, <2>2
  <1> HIDE DEF new
  <1>4. RequestsInv'
    BY <1>1, <1>3, MovesRequests
  <1>5. MemoryInv'
    <2>1. free' \in Nat /\ free' + new.holds = free + req[r].holds
      BY <1>1, <1>2, <1>3 DEF MemoryInv
    <2> QED BY <1>1, <1>3, <2>1, MovesMemory
  <1>6. LocksInv'
    <2>1. flights' \in [Keys -> Locks \cup {0}] /\ (new.arc # 0 => flights'[new.key] = new.arc)
      BY <1>1, <1>3 DEF LocksInv, Key
    <2> QED BY <1>1, <1>3, <2>1, MovesLocks
  <1>7. StoreInv'
    <2>1. UNCHANGED <<index, total, files, forgetting, dropped, gone>> /\ temps' \subseteq Requests
      BY <1>1 DEF StoreInv, store
    <2> QED BY <1>1, <1>2, <1>3, <2>1, MovesStore
  <1> QED BY <1>4, <1>5, <1>6, <1>7 DEF ThumbnailsInv

\* The entry of a key goes when no other request has its lock.
LEMMA ReleaseKeeps ==
  ASSUME ThumbnailsInv, NEW r \in Requests, Release(r)
  PROVE  ThumbnailsInv'
  <1>1. /\ RequestsInv /\ MemoryInv /\ LocksInv /\ StoreInv
        /\ Fits(req[r]) /\ req[r] \in Request /\ req[r].pc = "release" /\ Key(r) \in Keys
        /\ Drops(r) /\ UNCHANGED <<store, free, gone>>
    BY DEF ThumbnailsInv, RequestsInv, Release, At, Key, Request
  <1>2. req[r].holds = 0 /\ req[r].evicted = {} /\ req[r].arc # 0
    BY <1>1 DEF Fits, Decoding
  <1>3. Moves(r, NoRequest) /\ NoRequest.holds = 0 /\ NoRequest.arc = 0 /\ NoRequest.guard = FALSE
    BY <1>1, NoneFits DEF Moves, Drops, NoRequest
  <1>4. RequestsInv'
    BY <1>1, <1>3, MovesRequests
  <1>5. MemoryInv'
    <2>1. free' \in Nat /\ free' + NoRequest.holds = free + req[r].holds
      BY <1>1, <1>2, <1>3 DEF MemoryInv
    <2> QED BY <1>1, <1>3, <2>1, MovesMemory
  <1>6. LocksInv'
    <2>1. flights' = flights \/ (StrongCount(req[r].arc) <= 2 /\ flights' = [flights EXCEPT ![Key(r)] = 0])
      BY DEF Release
    <2>2. flights' \in [Keys -> Locks \cup {0}]
      BY <1>1, <2>1 DEF LocksInv
    <2>3. ASSUME NEW o \in Requests \ {r}, req[o].arc # 0 PROVE flights'[Key(o)] = flights[Key(o)]
      <3>1. /\ flights[Key(o)] = req[o].arc /\ flights[Key(r)] = req[r].arc
            /\ Key(o) \in Keys /\ flights \in [Keys -> Locks \cup {0}]
        BY <1>1, <1>2, <2>3 DEF LocksInv, RequestsInv, Request, Key
      <3>2. CASE Key(o) = Key(r)
        <4>1. req[o].arc = req[r].arc
          BY <3>1, <3>2
        <4>2. StrongCount(req[r].arc) > 2 /\ StrongCount(req[r].arc) \in Nat
          BY <1>1, <2>3, <3>1, <4>1, Counts
        <4>3. ~(StrongCount(req[r].arc) <= 2)
          BY <4>2
        <4> QED BY <2>1, <4>3
      <3>3. CASE Key(o) # Key(r)
        BY <2>1, <3>1, <3>3
      <3> QED BY <3>2, <3>3
    <2> QED BY <1>1, <1>3, <2>2, <2>3, MovesLocks
  <1>7. StoreInv'
    <2>1. UNCHANGED <<index, total, files, forgetting, dropped, gone>> /\ temps' \subseteq Requests
      BY <1>1 DEF StoreInv, store
    <2> QED BY <1>1, <1>2, <1>3, <2>1, MovesStore
  <1> QED BY <1>4, <1>5, <1>6, <1>7 DEF ThumbnailsInv

-----------------------------------------------------------------------------
(* The steps of the store                                                    *)

Awaits(k) == \E r \in Requests : (At(r, "index") /\ Key(r) = k) \/ k \in req[r].evicted

LEMMA StoreFacts ==
  ASSUME StoreInv
  PROVE  /\ Listing(index) /\ IndexWithinLimits
         /\ files \subseteq Keys /\ gone \subseteq Keys /\ forgetting \subseteq Keys /\ dropped \subseteq Keys
         /\ temps \subseteq Requests
         /\ \A k \in files : k \in Range(index) \/ k \in forgetting \/ k \in dropped \/ Awaits(k)
  <1>1. Listing(index)
    BY DEF StoreInv, Listing
  <1>2. \A k : Contains(index, k) <=> k \in Range(index)
    BY <1>1, ListingFacts
  <1> QED BY <1>1, <1>2 DEF StoreInv, FilesAccounted, Awaits

LEMMA StoreFrom ==
  ASSUME Listing(index'), IndexWithinLimits',
         files' \cup gone' \cup forgetting' \cup dropped' \subseteq Keys, temps' \subseteq Requests,
         \A k \in files' : k \in Range(index') \/ k \in forgetting' \/ k \in dropped' \/ Awaits(k)'
  PROVE  StoreInv'
  <1>1. \A k : Contains(index', k) <=> k \in Range(index')
    BY ListingFacts
  <1>2. FilesAccounted'
    BY <1>1 DEF FilesAccounted, Awaits
  <1> QED BY <1>2 DEF StoreInv, Listing

\* A file that waits for a request waits still, unless the request did its part.
LEMMA StillAwaits ==
  ASSUME RequestsInv, NEW r, NEW new, Moves(r, new), NEW k, Awaits(k),
         (req[r].pc = "index" /\ req[r].key = k) \/ k \in req[r].evicted
             => (new.pc = "index" /\ new.key = k) \/ k \in new.evicted
  PROVE  Awaits(k)'
  <1>1. req'[r] = new /\ r \in Requests /\ \A o \in Requests \ {r} : req'[o] = req[o]
    BY MovesRequests
  <1>2. PICK o \in Requests : (At(o, "index") /\ Key(o) = k) \/ k \in req[o].evicted
    BY DEF Awaits
  <1>3. (req'[o].pc = "index" /\ req'[o].key = k) \/ k \in req'[o].evicted
    BY <1>1, <1>2 DEF At, Key
  <1> QED BY <1>3 DEF Awaits, At, Key

LEMMA DropKeeps ==
  ASSUME ThumbnailsInv, NEW r \in Requests, Drop(r)
  PROVE  ThumbnailsInv'
  <1> DEFINE l == Missed(r)
             new == Stepped(req[r], l)
             k == Key(r)
  <1>1. /\ RequestsInv /\ StoreInv /\ Fits(req[r]) /\ req[r] \in Request /\ req[r].pc = "drop" /\ k \in Keys
        /\ Goto(r, l) /\ RemoveKey(k)
        /\ dropped' = dropped \cup ({k} \cap files)
        /\ UNCHANGED <<files, temps, forgetting, flights, free, gone>>
    BY DEF ThumbnailsInv, RequestsInv, Drop, At, Key, Request
  <1>2. Follows(req[r], l) /\ req[r].evicted = {}
    BY <1>1 DEF Follows, Fits, Missed, Decoding, Labels
  <1> HIDE DEF l, k
  <1>3. Moves(r, new) /\ RequestsInv' /\ MemoryInv' /\ LocksInv'
    BY <1>1, <1>2, GoesOn
  <1> HIDE DEF new
  <1>4. /\ Listing(index) /\ IndexWithinLimits
        /\ files \subseteq Keys /\ gone \subseteq Keys /\ forgetting \subseteq Keys /\ dropped \subseteq Keys
        /\ temps \subseteq Requests
        /\ \A j \in files : j \in Range(index) \/ j \in forgetting \/ j \in dropped \/ Awaits(j)
    BY <1>1, StoreFacts
  <1>5. Listing(index') /\ Range(index') = Range(index) \ {k} /\ IndexWithinLimits'
    BY <1>1, <1>4, Removing
  <1>6. ASSUME NEW j \in files'
        PROVE  j \in Range(index') \/ j \in forgetting' \/ j \in dropped' \/ Awaits(j)'
    <2>1. CASE j = k
      BY <1>1, <1>6, <2>1
    <2>2. CASE Awaits(j)
      BY <1>1, <1>2, <1>3, <2>2, StillAwaits
    <2>3. CASE j # k /\ ~Awaits(j)
      BY <1>1, <1>4, <1>5, <1>6, <2>3
    <2> QED BY <2>1, <2>2, <2>3
  <1>7. StoreInv'
    <2>1. files' \cup gone' \cup forgetting' \cup dropped' \subseteq Keys /\ temps' \subseteq Requests
      BY <1>1, <1>4
    <2> QED BY <1>5, <1>6, <2>1, StoreFrom
  <1> QED BY <1>3, <1>7 DEF ThumbnailsInv

LEMMA RenameKeeps ==
  ASSUME ThumbnailsInv, NEW r \in Requests, RenameTemporary(r)
  PROVE  ThumbnailsInv'
  <1>1. /\ RequestsInv /\ StoreInv /\ Fits(req[r]) /\ req[r] \in Request /\ req[r].pc = "rename" /\ Key(r) \in Keys
        /\ temps' = temps \ {r}
        /\ UNCHANGED <<index, total, forgetting, dropped, flights, free, gone>>
    BY DEF ThumbnailsInv, RequestsInv, RenameTemporary, At, Key, Request
  <1>2. Follows(req[r], "unlock") /\ Follows(req[r], "index") /\ req[r].evicted = {}
    BY <1>1 DEF Follows, Fits, Decoding, Labels
  <1>3. temps' \subseteq Requests
    BY <1>1 DEF StoreInv
  <1>4. CASE Goto(r, "unlock") /\ UNCHANGED files
    BY <1>1, <1>2, <1>3, <1>4, GoesQuietly
  <1>5. CASE files' = files \cup {Key(r)} /\ Goto(r, "index")
    <2> DEFINE new == Stepped(req[r], "index")
    <2>1. Moves(r, new) /\ RequestsInv' /\ MemoryInv' /\ LocksInv'
      BY <1>1, <1>2, <1>5, GoesOn
    <2>2. new.pc = "index" /\ new.key = Key(r)
      BY <1>1, Going DEF Labels, Key
    <2> HIDE DEF new
    <2>3. /\ Listing(index) /\ IndexWithinLimits
          /\ files \subseteq Keys /\ gone \subseteq Keys /\ forgetting \subseteq Keys /\ dropped \subseteq Keys
          /\ \A j \in files : j \in Range(index) \/ j \in forgetting \/ j \in dropped \/ Awaits(j)
      BY <1>1, StoreFacts
    <2>4. Listing(index') /\ IndexWithinLimits'
      BY <1>1, <2>3 DEF IndexWithinLimits
    <2>5. ASSUME NEW j \in files'
          PROVE  j \in Range(index') \/ j \in forgetting' \/ j \in dropped' \/ Awaits(j)'
      <3>1. CASE j = Key(r)
        <4>1. req'[r] = new
          BY <1>1, <2>1, MovesRequests
        <4>2. req'[r].pc = "index" /\ req'[r].key = j
          BY <2>2, <3>1, <4>1
        <4> QED BY <4>2 DEF Awaits, At, Key
      <3>2. CASE Awaits(j)
        BY <1>1, <1>2, <2>1, <3>2, StillAwaits
      <3>3. CASE j # Key(r) /\ ~Awaits(j)
        BY <1>1, <1>5, <2>3, <2>5, <3>3
      <3> QED BY <3>1, <3>2, <3>3
    <2>6. StoreInv'
      <3>1. files' \cup gone' \cup forgetting' \cup dropped' \subseteq Keys
        BY <1>1, <1>5, <2>3
      <3> QED BY <1>3, <2>4, <2>5, <3>1, StoreFrom
    <2> QED BY <2>1, <2>6 DEF ThumbnailsInv
  <1> QED BY <1>4, <1>5 DEF RenameTemporary

LEMMA FillKeeps ==
  ASSUME ThumbnailsInv, NEW r \in Requests, Fill(r)
  PROVE  ThumbnailsInv'
  <1> DEFINE k == Key(r)
             out == Filled(k).evicted
             new == [req[r] EXCEPT !.pc = "sweep", !.evicted = out]
  <1>1. /\ RequestsInv /\ MemoryInv /\ LocksInv /\ StoreInv
        /\ Fits(req[r]) /\ req[r] \in Request /\ req[r].pc = "index" /\ k \in Keys
        /\ index' = Filled(k).index /\ total' = Filled(k).total
        /\ req' = [req EXCEPT ![r].pc = "sweep", ![r].evicted = out]
        /\ dropped' = dropped \ {k}
        /\ UNCHANGED <<files, temps, forgetting, flights, free, gone>>
    BY DEF ThumbnailsInv, RequestsInv, Fill, At, Key, Request
  <1>2. req[r].key = k
    BY DEF Key
  <1> HIDE DEF k
  <1>3. /\ Listing(index) /\ IndexWithinLimits
        /\ files \subseteq Keys /\ gone \subseteq Keys /\ forgetting \subseteq Keys /\ dropped \subseteq Keys
        /\ temps \subseteq Requests
        /\ \A j \in files : j \in Range(index) \/ j \in forgetting \/ j \in dropped \/ Awaits(j)
    BY <1>1, StoreFacts
  <1>4. Opens(Filled(k), Range(index) \cup {k})
    BY <1>1, <1>3, Filling
  <1>5. /\ Listing(index') /\ Len(index') <= MaxEntries
        /\ total' = SumOf(Range(index')) /\ total' <= MaxBytes
        /\ out \in SUBSET Keys /\ out \cup Range(index') = Range(index) \cup {k}
    BY <1>1, <1>4 DEF Opens
  <1> HIDE DEF out
  <1>6. /\ new \in Request /\ new.pc = "sweep" /\ new.key = req[r].key /\ new.arc = req[r].arc
        /\ new.guard = req[r].guard /\ new.second = req[r].second
        /\ new.holds = req[r].holds /\ new.evicted = out
    BY <1>1, <1>5 DEF Request, Labels
  <1>7. req' = [req EXCEPT ![r] = new]
    BY <1>1 DEF RequestsInv
  <1> HIDE DEF new
  <1>8. Fits(new)
    BY <1>1, <1>6 DEF Fits, Decoding
  <1>9. Moves(r, new)
    BY <1>7, <1>8 DEF Moves
  <1>10. RequestsInv' /\ req'[r] = new
    BY <1>1, <1>9, MovesRequests
  <1>11. MemoryInv'
    <2>1. free' \in Nat /\ free' + new.holds = free + req[r].holds
      BY <1>1, <1>6 DEF MemoryInv
    <2> QED BY <1>1, <1>9, <2>1, MovesMemory
  <1>12. LocksInv'
    <2>1. flights' \in [Keys -> Locks \cup {0}] /\ (new.arc # 0 => flights'[new.key] = new.arc)
      BY <1>1, <1>6 DEF LocksInv, Key
    <2>2. new.guard => \A o \in Requests \ {r} : req[o].guard => req[o].arc # new.arc
      BY <1>1, <1>6 DEF LocksInv
    <2> QED BY <1>1, <1>9, <2>1, <2>2, MovesLocks
  <1>13. StoreInv'
    <2>1. files' \cup gone' \cup forgetting' \cup dropped' \subseteq Keys /\ temps' \subseteq Requests
      BY <1>1, <1>3
    <2>2. IndexWithinLimits'
      BY <1>5 DEF IndexWithinLimits
    <2>3. \A j : j \in out => Awaits(j)'
      BY <1>6, <1>10 DEF Awaits
    <2>4. ASSUME NEW j \in files'
          PROVE  j \in Range(index') \/ j \in forgetting' \/ j \in dropped' \/ Awaits(j)'
      <3>1. CASE j = k \/ j \in Range(index)
        BY <1>5, <2>3, <3>1
      <3>2. CASE j # k /\ Awaits(j)
        <4>1. req[r].key # j /\ req[r].evicted = {}
          BY <1>1, <1>2, <3>2 DEF Fits
        <4> QED BY <1>1, <1>9, <3>2, <4>1, StillAwaits
      <3>3. CASE j # k /\ j \notin Range(index) /\ ~Awaits(j)
        BY <1>1, <1>3, <2>4, <3>3
      <3> QED BY <3>1, <3>2, <3>3
    <2> QED BY <1>5, <2>1, <2>2, <2>4, StoreFrom
  <1> QED BY <1>10, <1>11, <1>12, <1>13 DEF ThumbnailsInv

\* What removing a file does, also when it fails.
LEMMA RemovingFile ==
  ASSUME NEW k, RemoveFile(k)
  PROVE  /\ files' \subseteq files /\ dropped' \subseteq dropped \cup {k}
         /\ \A j \in files' : j # k => (j \in dropped' <=> j \in dropped)
         /\ k \in files' => k \in Range(index) \/ k \in dropped'
  BY DEF RemoveFile

LEMMA SweepKeeps ==
  ASSUME ThumbnailsInv, NEW r \in Requests, Sweep(r)
  PROVE  ThumbnailsInv'
  <1>1. /\ RequestsInv /\ MemoryInv /\ LocksInv /\ StoreInv
        /\ Fits(req[r]) /\ req[r] \in Request /\ req[r].pc = "sweep"
        /\ UNCHANGED <<index, total, temps, forgetting, flights, free, gone>>
    BY DEF ThumbnailsInv, RequestsInv, Sweep, At
  <1>2. /\ Listing(index) /\ IndexWithinLimits
        /\ files \subseteq Keys /\ gone \subseteq Keys /\ forgetting \subseteq Keys /\ dropped \subseteq Keys
        /\ temps \subseteq Requests
        /\ \A j \in files : j \in Range(index) \/ j \in forgetting \/ j \in dropped \/ Awaits(j)
    BY <1>1, StoreFacts
  <1>3. CASE req[r].evicted = {} /\ Goto(r, "unlock") /\ UNCHANGED <<files, dropped>>
    <2>1. Follows(req[r], "unlock")
      BY <1>1, <1>3 DEF Follows, Decoding, Labels
    <2> QED BY <1>1, <1>2, <1>3, <2>1, GoesQuietly
  <1>4. ASSUME NEW k \in req[r].evicted, RemoveFile(k), req' = [req EXCEPT ![r].evicted = @ \ {k}]
        PROVE  ThumbnailsInv'
    <2> DEFINE new == [req[r] EXCEPT !.evicted = @ \ {k}]
    <2>1. /\ new \in Request /\ new.pc = "sweep" /\ new.key = req[r].key /\ new.arc = req[r].arc
          /\ new.guard = req[r].guard /\ new.second = req[r].second
          /\ new.holds = req[r].holds /\ new.evicted = req[r].evicted \ {k}
      BY <1>1 DEF Request
    <2>2. req' = [req EXCEPT ![r] = new]
      BY <1>1, <1>4 DEF RequestsInv
    <2> HIDE DEF new
    <2>3. Fits(new)
      BY <1>1, <2>1 DEF Fits, Decoding
    <2>4. Moves(r, new)
      BY <2>2, <2>3 DEF Moves
    <2>5. RequestsInv'
      BY <1>1, <2>4, MovesRequests
    <2>6. MemoryInv'
      <3>1. free' \in Nat /\ free' + new.holds = free + req[r].holds
        BY <1>1, <2>1 DEF MemoryInv
      <3> QED BY <1>1, <2>4, <3>1, MovesMemory
    <2>7. LocksInv'
      <3>1. flights' \in [Keys -> Locks \cup {0}] /\ (new.arc # 0 => flights'[new.key] = new.arc)
        BY <1>1, <2>1 DEF LocksInv, Key
      <3>2. new.guard => \A o \in Requests \ {r} : req[o].guard => req[o].arc # new.arc
        BY <1>1, <2>1 DEF LocksInv
      <3> QED BY <1>1, <2>4, <3>1, <3>2, MovesLocks
    <2>8. StoreInv'
      <3>0. /\ k \in Keys /\ files' \subseteq files /\ dropped' \subseteq dropped \cup {k}
            /\ \A j \in files' : j # k => (j \in dropped' <=> j \in dropped)
            /\ (k \in files' => k \in Range(index) \/ k \in dropped')
        BY <1>1, <1>4, RemovingFile DEF Request
      <3>1. files' \cup gone' \cup forgetting' \cup dropped' \subseteq Keys /\ temps' \subseteq Requests
        BY <1>1, <1>2, <3>0
      <3>2. Listing(index') /\ IndexWithinLimits'
        BY <1>1, <1>2 DEF IndexWithinLimits
      <3>3. ASSUME NEW j \in files'
            PROVE  j \in Range(index') \/ j \in forgetting' \/ j \in dropped' \/ Awaits(j)'
        <4>1. CASE j = k
          BY <1>1, <3>0, <3>3, <4>1
        <4>2. CASE j # k /\ Awaits(j)
          BY <1>1, <2>1, <2>4, <4>2, StillAwaits
        <4>3. CASE j # k /\ ~Awaits(j)
          BY <1>1, <1>2, <3>0, <3>3, <4>3
        <4> QED BY <4>1, <4>2, <4>3
      <3> QED BY <3>1, <3>2, <3>3, StoreFrom
    <2> QED BY <2>5, <2>6, <2>7, <2>8 DEF ThumbnailsInv
  <1> QED BY <1>3, <1>4 DEF Sweep

LEMMA RequestsAlone ==
  ASSUME ThumbnailsInv, UNCHANGED <<req, flights, free>>
  PROVE  RequestsInv' /\ MemoryInv' /\ LocksInv' /\ \A k : Awaits(k) <=> Awaits(k)'
  <1>1. RequestsInv'
    BY DEF ThumbnailsInv, RequestsInv
  <1>2. MemoryInv'
    <2>1. Holdings' = Holdings /\ free' = free
      BY DEF Holdings
    <2> QED BY <2>1 DEF ThumbnailsInv, MemoryInv
  <1>3. LocksInv'
    BY DEF ThumbnailsInv, LocksInv, Key, Locks
  <1>4. \A k : Awaits(k) <=> Awaits(k)'
    BY DEF Awaits, At, Key
  <1> QED BY <1>1, <1>2, <1>3, <1>4

LEMMA ForgetKeeps ==
  ASSUME ThumbnailsInv, NEW k \in Keys, Forget(k)
  PROVE  ThumbnailsInv'
  <1>1. /\ StoreInv /\ gone' = gone \cup {k} /\ RemoveKey(k)
        /\ forgetting' = (IF Contains(index, k) THEN forgetting \cup {k} ELSE forgetting)
        /\ UNCHANGED <<files, temps, dropped, flights, free, req>>
    BY DEF ThumbnailsInv, Forget
  <1>2. RequestsInv' /\ MemoryInv' /\ LocksInv' /\ \A j : Awaits(j) <=> Awaits(j)'
    BY <1>1, RequestsAlone
  <1>3. /\ Listing(index) /\ IndexWithinLimits
        /\ files \subseteq Keys /\ gone \subseteq Keys /\ forgetting \subseteq Keys /\ dropped \subseteq Keys
        /\ temps \subseteq Requests
        /\ \A j \in files : j \in Range(index) \/ j \in forgetting \/ j \in dropped \/ Awaits(j)
    BY <1>1, StoreFacts
  <1>4. Listing(index') /\ Range(index') = Range(index) \ {k} /\ IndexWithinLimits'
    BY <1>1, <1>3, Removing
  <1>5. Contains(index, k) <=> k \in Range(index)
    BY <1>3, ListingFacts
  <1>6. ASSUME NEW j \in files'
        PROVE  j \in Range(index') \/ j \in forgetting' \/ j \in dropped' \/ Awaits(j)'
    BY <1>1, <1>2, <1>3, <1>4, <1>5, <1>6
  <1>7. files' \cup gone' \cup forgetting' \cup dropped' \subseteq Keys /\ temps' \subseteq Requests
    BY <1>1, <1>3
  <1>8. StoreInv'
    BY <1>4, <1>6, <1>7, StoreFrom
  <1> QED BY <1>2, <1>8 DEF ThumbnailsInv

LEMMA ForgetFileKeeps ==
  ASSUME ThumbnailsInv, NEW k \in Keys, ForgetFile(k)
  PROVE  ThumbnailsInv'
  <1>0. StoreInv /\ forgetting' = forgetting \ {k} /\ RemoveFile(k)
        /\ UNCHANGED <<index, total, temps, flights, free, req, gone>>
    BY DEF ThumbnailsInv, ForgetFile
  <1>1. /\ StoreInv /\ forgetting' = forgetting \ {k}
        /\ files' \subseteq files /\ dropped' \subseteq dropped \cup {k}
        /\ \A j \in files' : j # k => (j \in dropped' <=> j \in dropped)
        /\ (k \in files' => k \in Range(index) \/ k \in dropped')
        /\ UNCHANGED <<index, total, temps, flights, free, req, gone>>
    BY <1>0, RemovingFile
  <1>2. RequestsInv' /\ MemoryInv' /\ LocksInv' /\ \A j : Awaits(j) <=> Awaits(j)'
    BY <1>1, RequestsAlone
  <1>3. /\ Listing(index) /\ IndexWithinLimits
        /\ files \subseteq Keys /\ gone \subseteq Keys /\ forgetting \subseteq Keys /\ dropped \subseteq Keys
        /\ temps \subseteq Requests
        /\ \A j \in files : j \in Range(index) \/ j \in forgetting \/ j \in dropped \/ Awaits(j)
    BY <1>1, StoreFacts
  <1>4. Listing(index') /\ IndexWithinLimits'
    BY <1>1, <1>3 DEF IndexWithinLimits
  <1>5. ASSUME NEW j \in files'
        PROVE  j \in Range(index') \/ j \in forgetting' \/ j \in dropped' \/ Awaits(j)'
    BY <1>1, <1>2, <1>3, <1>5
  <1>6. files' \cup gone' \cup forgetting' \cup dropped' \subseteq Keys /\ temps' \subseteq Requests
    BY <1>1, <1>3
  <1>7. StoreInv'
    BY <1>4, <1>5, <1>6, StoreFrom
  <1> QED BY <1>2, <1>7 DEF ThumbnailsInv

\* Without requests there is nothing that is held.
LEMMA NothingHeld ==
  Held([r \in Requests |-> 0]) = 0
  <1> DEFINE f == [r \in Requests |-> 0]
  <1>1. \A r \in Requests : f[r] = 0
    OBVIOUS
  <1>2. IsFiniteSet(Requests)
    BY ThumbnailAssumption
  <1> HIDE DEF f
  <1>3. SumOn(f, Requests) = 0
    BY <1>1, <1>2, SumOfNothing
  <1>4. Held(f) = 0
    BY <1>3, HeldIsSum
  <1> QED BY <1>4 DEF f

LEMMA RestartKeeps ==
  ASSUME ThumbnailsInv, Restart
  PROVE  ThumbnailsInv'
  <1>1. StoreInv
    BY DEF ThumbnailsInv
  <1>2. /\ Listing(index) /\ IndexWithinLimits
        /\ files \subseteq Keys /\ gone \subseteq Keys /\ forgetting \subseteq Keys /\ dropped \subseteq Keys
        /\ temps \subseteq Requests
        /\ \A j \in files : j \in Range(index) \/ j \in forgetting \/ j \in dropped \/ Awaits(j)
    BY <1>1, StoreFacts
  <1>3. /\ temps' = {} /\ flights' = [k \in Keys |-> 0] /\ free' = Capacity
        /\ req' = [r \in Requests |-> NoRequest] /\ forgetting' = {} /\ gone' = gone
    BY DEF Restart
  <1>4. PICK found \in SUBSET files : \E opened \in Reopened(found) : \E kept \in SUBSET opened.evicted :
                                          /\ index' = opened.index /\ total' = opened.total
                                          /\ files' = files \ (opened.evicted \ kept)
                                          /\ dropped' = (files \ found) \cup kept
    BY DEF Restart
  <1>5. PICK opened \in Reopened(found) : \E kept \in SUBSET opened.evicted :
                                          /\ index' = opened.index /\ total' = opened.total
                                          /\ files' = files \ (opened.evicted \ kept)
                                          /\ dropped' = (files \ found) \cup kept
    BY <1>4
  <1>5a. PICK kept \in SUBSET opened.evicted : /\ index' = opened.index /\ total' = opened.total
                                               /\ files' = files \ (opened.evicted \ kept)
                                               /\ dropped' = (files \ found) \cup kept
    BY <1>5
  <1>6. Opens(opened, found)
    <2>1. found \in SUBSET Keys
      BY <1>2
    <2> QED BY <2>1, Reopening
  <1>7. RequestsInv'
    <2>1. NoRequest \in Request /\ Fits(NoRequest)
      BY NoneFits
    <2> QED BY <1>3, <2>1 DEF RequestsInv
  <1>8. MemoryInv'
    <2>1. NoRequest.holds = 0
      BY DEF NoRequest
    <2>2. Holdings' = [r \in Requests |-> 0]
      BY <1>3, <2>1 DEF Holdings
    <2>3. Held(Holdings') = 0 /\ Capacity \in Nat
      BY <2>2, NothingHeld, ThumbnailAssumption
    <2> QED BY <1>3, <2>3 DEF MemoryInv
  <1>9. LocksInv'
    <2>1. NoRequest.arc = 0 /\ NoRequest.guard = FALSE
      BY DEF NoRequest
    <2>2. \A r \in Requests : req'[r].arc = 0 /\ req'[r].guard = FALSE
      BY <1>3, <2>1
    <2>3. flights' \in [Keys -> Locks \cup {0}]
      BY <1>3
    <2> QED BY <2>2, <2>3 DEF LocksInv, Locks
  <1>10. StoreInv'
    <2>1. files' \cup gone' \cup forgetting' \cup dropped' \subseteq Keys /\ temps' \subseteq Requests
      BY <1>2, <1>3, <1>5a, <1>6 DEF Opens
    <2>2. Listing(index') /\ IndexWithinLimits'
      BY <1>5a, <1>6 DEF Opens, IndexWithinLimits
    <2>3. ASSUME NEW j \in files'
          PROVE  j \in Range(index') \/ j \in forgetting' \/ j \in dropped' \/ Awaits(j)'
      BY <1>5a, <1>6, <2>3 DEF Opens
    <2> QED BY <2>1, <2>2, <2>3, StoreFrom
  <1> QED BY <1>7, <1>8, <1>9, <1>10 DEF ThumbnailsInv

-----------------------------------------------------------------------------
(* The theorems                                                              *)

LEMMA Initially == Init => ThumbnailsInv
  <1> SUFFICES ASSUME Init PROVE ThumbnailsInv
    OBVIOUS
  <1>1. RequestsInv
    <2>1. NoRequest \in Request /\ Fits(NoRequest)
      BY NoneFits
    <2> QED BY <2>1 DEF RequestsInv, Init
  <1>2. MemoryInv
    <2>1. NoRequest.holds = 0
      BY DEF NoRequest
    <2>2. Holdings = [r \in Requests |-> 0]
      BY <2>1 DEF Holdings, Init
    <2>3. Held(Holdings) = 0 /\ Capacity \in Nat
      BY <2>2, NothingHeld, ThumbnailAssumption
    <2> QED BY <2>3 DEF MemoryInv, Init
  <1>3. LocksInv
    <2>1. NoRequest.arc = 0 /\ NoRequest.guard = FALSE
      BY DEF NoRequest
    <2>2. \A r \in Requests : req[r].arc = 0 /\ req[r].guard = FALSE
      BY <2>1 DEF Init
    <2>3. flights \in [Keys -> Locks \cup {0}]
      BY DEF Init
    <2> QED BY <2>2, <2>3 DEF LocksInv
  <1>4. StoreInv
    <2>1. index = <<>> /\ index \in Seq(Keys) /\ IsInjective(index) /\ Len(index) = 0 /\ Range(index) = {}
      BY DEF Init, IsInjective, Range
    <2>2. SumOf({}) = 0
      <3>1. \E k : k \in Keys
        BY ThumbnailAssumption
      <3> QED BY <3>1, SumOfKey
    <2>3. IndexWithinLimits
      <3>1. total = 0 /\ total = SumOf(Range(index))
        BY <2>1, <2>2 DEF Init
      <3>2. MaxBytes \in Nat /\ MaxEntries \in Nat
        BY ThumbnailAssumption
      <3> QED BY <2>1, <3>1, <3>2 DEF IndexWithinLimits
    <2>4. FilesAccounted
      BY DEF Init, FilesAccounted
    <2> QED BY <2>1, <2>3, <2>4 DEF StoreInv, Init
  <1> QED BY <1>1, <1>2, <1>3, <1>4 DEF ThumbnailsInv

LEMMA Steps == ThumbnailsInv /\ [Next]_vars => ThumbnailsInv'
  <1> SUFFICES ASSUME ThumbnailsInv, [Next]_vars PROVE ThumbnailsInv'
    OBVIOUS
  <1>1. ASSUME NEW r \in Requests, Serve(r) PROVE ThumbnailsInv'
    BY <1>1, AskKeeps, GetKeeps, ReadKeeps, DropKeeps, PlanKeeps, LockKeeps, ReserveKeeps, RenderKeeps,
       WriteKeeps, RenameKeeps, FillKeeps, SweepKeeps, UnlockKeeps, ReleaseKeeps, CutKeeps DEF Serve
  <1>2. ASSUME NEW k \in Keys, Forget(k) \/ ForgetFile(k) PROVE ThumbnailsInv'
    BY <1>2, ForgetKeeps, ForgetFileKeeps
  <1>3. CASE Restart
    BY <1>3, RestartKeeps
  <1>4. CASE UNCHANGED vars
    <2>1. RequestsInv' /\ MemoryInv' /\ LocksInv'
      BY <1>4, RequestsAlone DEF vars
    <2>2. StoreInv'
      BY <1>4 DEF vars, ThumbnailsInv, StoreInv, IndexWithinLimits, FilesAccounted, At, Key
    <2> QED BY <2>1, <2>2 DEF ThumbnailsInv
  <1> QED BY <1>1, <1>2, <1>3, <1>4 DEF Next

\* What is true of the requests, the memory, the locks and the store together at
\* every step of the cache and of those who use it.
THEOREM InductiveInvariant == Spec => []ThumbnailsInv
  BY Initially, Steps, PTL DEF Spec

\* The decodes never use more memory than there is, whatever requests are cut off.
\* (thumbnail.rs, render_locked: the permit goes with the blocking thread.)
THEOREM MemoryAlwaysWithinBudget == Spec => []MemoryWithinBudget
  <1>1. ThumbnailsInv => MemoryWithinBudget
    BY BudgetFollows DEF ThumbnailsInv
  <1> QED BY <1>1, InductiveInvariant, PTL

\* The cache stays sound: its index counts what it lists and keeps its limits, two
\* requests that wait never own the lock of one key, and no file is lost from sight.
\* (thumbnail/cache.rs, Index and put; thumbnail.rs, render_miss and Flight.)
THEOREM CacheAlwaysSound == Spec => []CacheSound
  <1>1. ThumbnailsInv => CacheSound
    <2> SUFFICES ASSUME ThumbnailsInv PROVE CacheSound
      OBVIOUS
    <2>1. RequestsInv /\ MemoryInv /\ LocksInv /\ StoreInv
      BY DEF ThumbnailsInv
    <2>2. free \in 0 .. Capacity
      <3>1. \A r \in Requests : Holdings[r] \in Nat
        BY <2>1 DEF RequestsInv, Request, Holdings
      <3>2. IsFiniteSet(Requests) /\ Capacity \in Nat
        BY ThumbnailAssumption
      <3>3. SumOn(Holdings, Requests) \in Nat
        <4>1. Requests \in SUBSET Requests
          OBVIOUS
        <4> QED BY <3>1, <3>2, <4>1, SumOfPart
      <3> QED BY <2>1, <3>2, <3>3, HeldIsSum DEF MemoryInv
    <2>3. TypeOK
      BY <2>1, <2>2 DEF RequestsInv, LocksInv, StoreInv, TypeOK, Fits
    <2>4. OnePerKey
      <3> SUFFICES ASSUME NEW r \in Requests, NEW o \in Requests, r # o, req[r].guard, req[o].guard,
                          Key(r) = Key(o)
                   PROVE  FALSE
        BY DEF OnePerKey
      <3>1. req[r].arc # 0 /\ req[o].arc # 0
        BY <2>1 DEF RequestsInv, Fits
      <3>2. req[r].arc = req[o].arc
        BY <2>1, <3>1 DEF LocksInv
      <3> QED BY <2>1, <3>2 DEF LocksInv
    <2> QED BY <2>1, <2>3, <2>4 DEF StoreInv, CacheSound
  <1> QED BY <1>1, InductiveInvariant, PTL
=============================================================================
