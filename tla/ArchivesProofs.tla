---------------------------- MODULE ArchivesProofs ----------------------------
(* Proofs about Archives, for any jobs, inputs, names, limits and quota.     *)
EXTENDS Archives, FiniteSetTheorems, SequenceTheorems, WellFoundedInduction, TLAPS

(* Sums over finite sets.  They are defined by a recursive function on       *)
(* subsets: what is shown of it is shown of a smallest counterexample.       *)

\* Naturals that index a set have a least one.
LEMMA LeastIndexed ==
  ASSUME NEW S, S # {}, NEW f \in [S -> Nat]
  PROVE  \E x \in S : \A y \in S : f[x] <= f[y]
  <1> DEFINE R == OpToRel(<, Nat)
             T == {f[x] : x \in S}
  <1>1. IsWellFoundedOn(R, Nat)
    BY NatLessThanWellFounded
  <1>2. \A a, b \in Nat : a < b => <<a, b>> \in R
    BY DEF OpToRel
  <1> HIDE DEF R
  <1>3. T \subseteq Nat /\ T # {}
    OBVIOUS
  <1>4. PICK m \in T : \A n \in T : <<n, m>> \notin R
    <2> HIDE DEF T
    <2> QED BY <1>1, <1>3, WFMin
  <1>5. \A n \in T : m <= n
    <2>1. \A n \in T : ~(n < m)
      BY <1>2, <1>3, <1>4
    <2> QED BY <1>3, <2>1
  <1> QED BY <1>5

First(s) == CHOOSE x \in s : TRUE
Rest(s) == s \ {First(s)}

\* Such a sum, of what f is on D, is what SumFunction takes of it.
Sums(sum, f, D) == sum = [s \in SUBSET D |->
                             IF s = {} THEN 0 ELSE f[First(s)] + sum[s \ {First(s)}]]
SumOn(f, D) == (CHOOSE sum : Sums(sum, f, D))[D]

\* A set that is not empty has a first element, without which it is smaller.
LEMMA RestIsSmaller ==
  ASSUME NEW D, IsFiniteSet(D), NEW s \in SUBSET D
  PROVE  /\ Cardinality(s) \in Nat /\ Cardinality(s) <= Cardinality(D)
         /\ (s = {} <=> Cardinality(s) = 0)
         /\ s # {} => /\ First(s) \in s /\ Rest(s) \in SUBSET D
                      /\ Cardinality(Rest(s)) = Cardinality(s) - 1
  <1>1. IsFiniteSet(s) /\ Cardinality(s) <= Cardinality(D)
    BY FS_Subset
  <1>2. Cardinality(s) \in Nat /\ (s = {} <=> Cardinality(s) = 0)
    BY <1>1, FS_CardinalityType, FS_EmptySet
  <1>3. s # {} => First(s) \in s
    BY DEF First
  <1>4. s # {} => Cardinality(Rest(s)) = Cardinality(s) - 1
    BY <1>1, <1>3, FS_RemoveElement DEF Rest
  <1> QED BY <1>1, <1>2, <1>3, <1>4 DEF Rest

\* The recursive definition has a solution.
LEMMA SumExists ==
  ASSUME NEW f, NEW D, IsFiniteSet(D)
  PROVE  \E sum : Sums(sum, f, D)
  <1> DEFINE Small(n) == {s \in SUBSET D : Cardinality(s) <= n}
             Solves(g, n) == g = [s \in Small(n) |-> IF s = {} THEN 0 ELSE f[First(s)] + g[Rest(s)]]
             Bad == {n \in Nat : ~\E g : Solves(g, n)}
  <1>1. ASSUME Bad # {} PROVE FALSE
    <2> DEFINE id == [n \in Bad |-> n]
    <2>1. PICK n \in Bad : \A m \in Bad : n <= m
      <3>1. id \in [Bad -> Nat]
        OBVIOUS
      <3>2. \E n \in Bad : \A m \in Bad : id[n] <= id[m]
        <4> HIDE DEF id, Bad
        <4> QED BY <1>1, <3>1, LeastIndexed
      <3> QED BY <3>2
    <2>2. CASE n = 0
      <3> DEFINE g == [s \in Small(0) |-> 0]
      <3>1. \A s \in Small(0) : s = {}
        <4> TAKE s \in Small(0)
        <4>1. Cardinality(s) \in Nat /\ (s = {} <=> Cardinality(s) = 0)
          BY RestIsSmaller
        <4> QED BY <4>1
      <3>2. Solves(g, 0)
        BY <3>1
      <3> QED BY <2>1, <2>2, <3>2
    <2>3. CASE n # 0
      <3>1. n \in Nat /\ n - 1 \in Nat /\ n - 1 \notin Bad
        <4>1. n \in Nat
          OBVIOUS
        <4> HIDE DEF Bad
        <4>2. n - 1 \in Nat /\ ~(n <= n - 1)
          BY <2>3, <4>1
        <4> QED BY <2>1, <4>1, <4>2
      <3>2. PICK g : Solves(g, n - 1)
        BY <3>1
      <3> DEFINE h == [s \in Small(n) |-> IF s = {} THEN 0 ELSE f[First(s)] + g[Rest(s)]]
      <3>3. \A s \in Small(n) : s # {} => Rest(s) \in Small(n - 1)
        <4> TAKE s \in Small(n)
        <4> HAVE s # {}
        <4>1. Cardinality(s) \in Nat /\ Rest(s) \in SUBSET D /\ Cardinality(Rest(s)) = Cardinality(s) - 1
          BY RestIsSmaller
        <4> QED BY <3>1, <4>1
      <3>4. Small(n - 1) \subseteq Small(n)
        <4>1. \A s \in Small(n - 1) : Cardinality(s) \in Nat
          BY RestIsSmaller
        <4> QED BY <3>1, <4>1
      <3>5. \A s \in Small(n - 1) : h[s] = g[s]
        <4> HIDE DEF Small
        <4> QED BY <3>2, <3>4
      <3>6. Solves(h, n)
        <4> HIDE DEF Small
        <4>1. \A s \in Small(n) : s # {} => h[Rest(s)] = g[Rest(s)]
          BY <3>3, <3>5
        <4> QED BY <4>1
      <3> HIDE DEF Solves, h
      <3> QED BY <2>1, <3>6
    <2> QED BY <2>2, <2>3
  <1>2. Cardinality(D) \in Nat
    BY FS_CardinalityType
  <1>3. PICK g : Solves(g, Cardinality(D))
    BY <1>1, <1>2
  <1>4. Small(Cardinality(D)) = SUBSET D
    BY RestIsSmaller
  <1> HIDE DEF Small
  <1> QED BY <1>3, <1>4 DEF Sums, Rest

\* Two sums of what is the same on S are the same on S.
LEMMA SumsAgree ==
  ASSUME NEW D, IsFiniteSet(D), NEW S \in SUBSET D, NEW f, NEW g, \A x \in S : f[x] = g[x],
         NEW F, Sums(F, f, D), NEW G, Sums(G, g, S)
  PROVE  F[S] = G[S]
  <1> DEFINE Bad == {s \in SUBSET S : F[s] # G[s]}
             size == [s \in Bad |-> Cardinality(s)]
  <1>1. \A s \in SUBSET S : /\ F[s] = IF s = {} THEN 0 ELSE f[First(s)] + F[Rest(s)]
                            /\ G[s] = IF s = {} THEN 0 ELSE g[First(s)] + G[Rest(s)]
    BY DEF Sums, Rest
  <1>2. IsFiniteSet(S)
    BY FS_Subset
  <1>3. ASSUME Bad # {} PROVE FALSE
    <2>1. size \in [Bad -> Nat]
      BY <1>2, RestIsSmaller
    <2>2. PICK s \in Bad : \A t \in Bad : size[s] <= size[t]
      <3> HIDE DEF size, Bad
      <3> QED BY <1>3, <2>1, LeastIndexed
    <2>3. s \in SUBSET S /\ F[s] # G[s] /\ \A t \in SUBSET S : F[t] # G[t] => Cardinality(s) <= Cardinality(t)
      BY <2>2
    <2> HIDE DEF Bad, size
    <2>4. s # {}
      BY <1>1, <2>3
    <2>5. /\ Cardinality(s) \in Nat /\ First(s) \in s /\ Rest(s) \in SUBSET S
          /\ Cardinality(Rest(s)) = Cardinality(s) - 1
      BY <1>2, <2>3, <2>4, RestIsSmaller
    <2>6. F[Rest(s)] = G[Rest(s)]
      BY <2>3, <2>5
    <2>7. f[First(s)] = g[First(s)]
      BY <2>3, <2>5
    <2> QED BY <1>1, <2>3, <2>4, <2>6, <2>7
  <1> QED BY <1>3

LEMMA SumOnAgrees ==
  ASSUME NEW S, IsFiniteSet(S), NEW f, NEW g, \A x \in S : f[x] = g[x]
  PROVE  SumOn(f, S) = SumOn(g, S)
  <1>1. Sums(CHOOSE sum : Sums(sum, f, S), f, S) /\ Sums(CHOOSE sum : Sums(sum, g, S), g, S)
    BY SumExists
  <1> QED BY SMTT(30), <1>1, SumsAgree DEF SumOn

\* Whatever order the elements are taken in, one more adds itself.
LEMMA SumInserts ==
  ASSUME NEW D, IsFiniteSet(D), NEW f, \A x \in D : f[x] \in Nat
  PROVE  \A S \in SUBSET D : SumOn(f, S) \in Nat /\ \A x \in D \ S : SumOn(f, S \cup {x}) = SumOn(f, S) + f[x]
  <1> DEFINE F == CHOOSE sum : Sums(sum, f, D)
             Good(s) == F[s] \in Nat /\ \A x \in D \ s : F[s \cup {x}] = F[s] + f[x]
             Bad == {s \in SUBSET D : ~Good(s)}
             size == [s \in Bad |-> Cardinality(s)]
  <1>1. Sums(F, f, D)
    BY SumExists
  <1> HIDE DEF F
  <1>2. \A s \in SUBSET D : F[s] = IF s = {} THEN 0 ELSE f[First(s)] + F[Rest(s)]
    BY <1>1 DEF Sums, Rest
  <1>3. ASSUME Bad # {} PROVE FALSE
    <2>1. size \in [Bad -> Nat]
      BY RestIsSmaller
    <2>2. PICK s \in Bad : \A t \in Bad : size[s] <= size[t]
      <3> HIDE DEF size, Bad
      <3> QED BY <1>3, <2>1, LeastIndexed
    <2>3. s \in SUBSET D /\ ~Good(s) /\ \A t \in SUBSET D : ~Good(t) => Cardinality(s) <= Cardinality(t)
      BY <2>2
    <2> HIDE DEF Bad, size, Good
    <2>4. F[s] \in Nat
      <3>1. CASE s = {}
        <4>1. F[s] = 0
          BY <1>2, <2>3, <3>1
        <4> QED BY <4>1
      <3>2. CASE s # {}
        <4>1. /\ Cardinality(s) \in Nat /\ First(s) \in s /\ Rest(s) \in SUBSET D
              /\ Cardinality(Rest(s)) = Cardinality(s) - 1
          BY <2>3, <3>2, RestIsSmaller
        <4>2. F[Rest(s)] \in Nat /\ f[First(s)] \in Nat
          BY <2>3, <4>1 DEF Good
        <4> QED BY <1>2, <2>3, <3>2, <4>2
      <3> QED BY <3>1, <3>2
    <2>5. ASSUME NEW x \in D \ s PROVE F[s \cup {x}] = F[s] + f[x]
      <3> DEFINE t == s \cup {x}
                 y == First(t)
      <3>1. t \in SUBSET D /\ t # {} /\ y \in t
        <4>1. t \in SUBSET D /\ t # {}
          BY <2>3
        <4> QED BY <4>1, RestIsSmaller
      <3>2. F[t] = f[y] + F[t \ {y}]
        BY <1>2, <3>1 DEF Rest
      <3> HIDE DEF y
      <3>3. CASE y = x
        <4>1. t \ {y} = s
          BY <3>3
        <4>2. f[x] \in Nat
          BY <2>5
        <4> HIDE DEF t
        <4>3. F[t \ {y}] = F[s] /\ f[y] = f[x]
          BY <3>3, <4>1
        <4>4. F[t] = f[x] + F[s]
          BY <3>2, <4>3
        <4>5. f[x] + F[s] = F[s] + f[x]
          BY <2>4, <4>2
        <4>6. F[t] = F[s] + f[x]
          BY <4>4, <4>5
        <4> QED BY <4>6 DEF t
      <3>4. CASE y # x
        <4> DEFINE u == s \ {y}
        <4>1. y \in s /\ t \ {y} = u \cup {x} /\ s = u \cup {y} /\ x \in D \ u /\ y \in D \ u /\ u \in SUBSET D
          BY <2>3, <2>5, <3>1, <3>4
        <4>2. Cardinality(u) = Cardinality(s) - 1 /\ Cardinality(s) \in Nat
          <5>1. IsFiniteSet(s)
            BY <2>3, FS_Subset
          <5> QED BY <4>1, <5>1, FS_RemoveElement, FS_CardinalityType
        <4>3. Good(u)
          BY <2>3, <4>1, <4>2
        <4>4. F[u] \in Nat /\ F[u \cup {x}] = F[u] + f[x] /\ F[u \cup {y}] = F[u] + f[y]
          BY <4>1, <4>3 DEF Good
        <4>5. F[t] = f[y] + (F[u] + f[x]) /\ F[s] = F[u] + f[y]
          BY <3>2, <4>1, <4>4
        <4>6. f[x] \in Nat /\ f[y] \in Nat
          BY <4>1
        <4> HIDE DEF t, u
        <4>7. F[t] = F[s] + f[x]
          BY <4>4, <4>5, <4>6
        <4> QED BY <4>7 DEF t
      <3> QED BY <3>3, <3>4
    <2> QED BY <2>3, <2>4, <2>5 DEF Good
  <1>4. \A S \in SUBSET D : SumOn(f, S) = F[S]
    <2> TAKE S \in SUBSET D
    <2>1. IsFiniteSet(S)
      BY FS_Subset
    <2>2. Sums(CHOOSE sum : Sums(sum, f, S), f, S)
      BY <2>1, SumExists
    <2> QED BY <1>1, <2>2, SumsAgree DEF SumOn
  <1>5. \A S \in SUBSET D : Good(S)
    BY <1>3
  <1> QED BY <1>4, <1>5

LEMMA SumEmpty ==
  ASSUME NEW f
  PROVE  SumOn(f, {}) = 0
  <1>1. Sums(CHOOSE sum : Sums(sum, f, {}), f, {})
    BY SumExists, FS_EmptySet
  <1> QED BY <1>1 DEF Sums, SumOn

LEMMA SumUnion ==
  ASSUME NEW D, IsFiniteSet(D), NEW f, \A x \in D : f[x] \in Nat,
         NEW A \in SUBSET D, NEW B \in SUBSET D, A \cap B = {}
  PROVE  /\ SumOn(f, A) \in Nat /\ SumOn(f, B) \in Nat
         /\ SumOn(f, A \cup B) = SumOn(f, A) + SumOn(f, B)
  <1> DEFINE Bad == {s \in SUBSET B : SumOn(f, A \cup s) # SumOn(f, A) + SumOn(f, s)}
             size == [s \in Bad |-> Cardinality(s)]
  <1>1. \A S \in SUBSET D : SumOn(f, S) \in Nat /\ \A x \in D \ S : SumOn(f, S \cup {x}) = SumOn(f, S) + f[x]
    BY SumInserts
  <1>2. IsFiniteSet(B)
    BY FS_Subset
  <1>3. ASSUME Bad # {} PROVE FALSE
    <2>1. size \in [Bad -> Nat]
      BY <1>2, RestIsSmaller
    <2>2. PICK s \in Bad : \A t \in Bad : size[s] <= size[t]
      <3> HIDE DEF size, Bad
      <3> QED BY <1>3, <2>1, LeastIndexed
    <2>3. /\ s \in SUBSET B /\ SumOn(f, A \cup s) # SumOn(f, A) + SumOn(f, s)
          /\ \A t \in SUBSET B : Cardinality(s) <= Cardinality(t) \/ SumOn(f, A \cup t) = SumOn(f, A) + SumOn(f, t)
      BY <2>2
    <2> HIDE DEF Bad, size
    <2>4. s # {}
      <3> SUFFICES ASSUME s = {} PROVE FALSE
        OBVIOUS
      <3>1. A \cup s = A /\ SumOn(f, s) = 0
        BY SumEmpty
      <3>2. SumOn(f, A) \in Nat
        BY <1>1
      <3> QED BY <2>3, <3>1, <3>2
    <2> DEFINE x == First(s)
               t == Rest(s)
    <2>5. x \in s /\ t \in SUBSET B /\ Cardinality(t) = Cardinality(s) - 1 /\ Cardinality(s) \in Nat
      BY <1>2, <2>3, <2>4, RestIsSmaller
    <2>6. s = t \cup {x} /\ A \cup s = (A \cup t) \cup {x} /\ x \in D \ t /\ x \in D \ (A \cup t)
          /\ t \in SUBSET D /\ A \cup t \in SUBSET D
      BY <2>3, <2>5 DEF Rest
    <2> HIDE DEF x, t
    <2>7. SumOn(f, A \cup t) = SumOn(f, A) + SumOn(f, t)
      BY <2>3, <2>5
    <2>8. SumOn(f, s) = SumOn(f, t) + f[x] /\ SumOn(f, A \cup s) = SumOn(f, A \cup t) + f[x]
      BY <1>1, <2>6
    <2>9. SumOn(f, A) \in Nat /\ SumOn(f, t) \in Nat /\ f[x] \in Nat
      BY <1>1, <2>6
    <2> QED BY <2>3, <2>7, <2>8, <2>9
  <1>4. SumOn(f, A \cup B) = SumOn(f, A) + SumOn(f, B)
    BY <1>3
  <1> QED BY <1>1, <1>4

LEMMA SumOfPart ==
  ASSUME NEW D, IsFiniteSet(D), NEW f, \A x \in D : f[x] \in Nat, NEW A \in SUBSET D
  PROVE  SumOn(f, A) \in Nat /\ SumOn(f, D) \in Nat /\ SumOn(f, A) <= SumOn(f, D)
  <1> DEFINE B == D \ A
  <1>1. B \in SUBSET D /\ A \cap B = {} /\ A \cup B = D
    OBVIOUS
  <1> HIDE DEF B
  <1>2. SumOn(f, A) \in Nat /\ SumOn(f, B) \in Nat /\ SumOn(f, A \cup B) = SumOn(f, A) + SumOn(f, B)
    BY <1>1, SumUnion
  <1>3. SumOn(f, A \cup B) = SumOn(f, D)
    BY <1>1, Zenon
  <1> QED BY <1>2, <1>3

\* When one of them is changed, so is the sum, by as much.
LEMMA SumChanges ==
  ASSUME NEW D, IsFiniteSet(D), NEW f \in [D -> Nat], NEW g \in [D -> Nat], NEW x \in D,
         \A y \in D \ {x} : f[y] = g[y]
  PROVE  /\ SumOn(f, D) \in Nat /\ SumOn(g, D) \in Nat /\ f[x] <= SumOn(f, D)
         /\ SumOn(g, D) + f[x] = SumOn(f, D) + g[x]
  <1> DEFINE S == D \ {x}
  <1>1. S \in SUBSET D /\ D = S \cup {x} /\ x \in D \ S /\ IsFiniteSet(S)
    BY FS_Subset
  <1>2. SumOn(f, S) = SumOn(g, S)
    BY <1>1, SumOnAgrees
  <1> HIDE DEF S
  <1>3. SumOn(f, S) \in Nat /\ SumOn(f, S \cup {x}) = SumOn(f, S) + f[x]
    BY <1>1, SumInserts
  <1>4. SumOn(g, S) \in Nat /\ SumOn(g, S \cup {x}) = SumOn(g, S) + g[x]
    BY <1>1, SumInserts
  <1>5. f[x] \in Nat /\ g[x] \in Nat
    OBVIOUS
  <1> QED BY <1>1, <1>2, <1>3, <1>4, <1>5

LEMMA SumOfNothing ==
  ASSUME NEW D, IsFiniteSet(D), NEW f, \A x \in D : f[x] = 0
  PROVE  SumOn(f, D) = 0
  <1> DEFINE F == CHOOSE sum : Sums(sum, f, D)
             G == [s \in SUBSET D |-> 0]
  <1>1. Sums(F, f, D)
    BY SumExists
  <1>2. Sums(G, f, D)
    <2>1. \A s \in SUBSET D : s # {} => First(s) \in D /\ s \ {First(s)} \in SUBSET D
      BY DEF First
    <2>2. \A s \in SUBSET D : 0 = IF s = {} THEN 0 ELSE f[First(s)] + G[s \ {First(s)}]
      BY <2>1
    <2> QED BY <2>2 DEF Sums
  <1> HIDE DEF F, G
  <1>3. F[D] = G[D]
    BY <1>1, <1>2, SumsAgree
  <1> QED BY <1>3 DEF F, G, SumOn

-----------------------------------------------------------------------------
(* The inductive invariant                                                   *)

\* What of a staged tree its archive says.
List(e) == [path |-> e.path, kind |-> e.kind, size |-> e.size]
Listed(tree) == {List(e) : e \in tree}

\* What is true of a job by itself, at each of its steps: what it did so far is what
\* was planned, and what it stages is what it is charged for.
Fits(q, l) ==
    /\ l = "idle" => q = NoJob
    /\ q.whole
    /\ q.kind = "stream" => l \in {"idle", "walk", "open", "copy", "sent"}
    /\ q.kind = "compress" => l \in {"commit", "target", "walk", "open", "copy", "publish"} /\ q.target \in Names
    /\ q.kind = "extract" => l \in {"commit", "target", "begin", "snapshot", "entry", "publish"}
    /\ q.kind # "stream" => q.charge <= q.allowance
    /\ l \in {"commit", "target", "walk", "begin", "snapshot"} => q.charge = 0 /\ q.out = <<>> /\ q.tree = {}
    /\ l \in {"open", "copy"} => q.at <= Len(q.items) + 1 /\ q.out = SubSeq(q.items, 1, q.at - 1)
    /\ l = "copy" => q.at <= Len(q.items)
    /\ l = "sent" \/ (l = "publish" /\ q.kind = "compress") => q.out = q.items
    /\ l \in {"begin", "snapshot", "entry", "publish"} => q.target \in Names
    /\ l = "entry" => /\ q.at <= Len(q.input) + 1 /\ IsFiniteSet(q.tree)
                      /\ q.charge = DirCharge + ChargeOf(q.tree)
                      /\ \A e \in q.tree : e.kind = "directory" => e.size = 0
                      /\ Listed(q.tree) = Contents(SubSeq(q.input, 1, q.at - 1))
    /\ l = "publish" /\ q.kind = "extract" => Listed(q.tree) = Contents(q.input)

JobsInv ==
    /\ pc \in [Jobs -> Labels] /\ job \in [Jobs -> Job]
    /\ \A j \in Jobs : Fits(job[j], pc[j])

\* The share's lock is with who measured it, and so is all that is staged.
Measured(j) == job[j].kind # "stream" /\ pc[j] \notin {"commit", "target"}
LockInv ==
    /\ commit \in Jobs \cup {0} /\ staging \in [Jobs -> Staged]
    /\ \A j \in Jobs : job[j].kind # "stream" /\ pc[j] # "commit" => commit = j
    /\ \A j \in Jobs : staging[j] # Nothing => commit = j
    /\ up \/ commit = 0

\* While nobody else changes the share, what a job may still stage fits.
Steady == budget.changes = mix.changes
QuotaInv ==
    Steady => /\ Usage <= Quota
              /\ \A j \in Jobs : Measured(j) => Usage + job[j].allowance <= Quota

ShelfInv ==
    /\ source \in [Range(Sources) -> Nat \cup {-1}]
    /\ shelf = [n \in Names |-> shelf[n]]
    /\ \A n \in Names : shelf[n] # <<>> =>
          /\ shelf[n][1].charge \in Nat
          /\ shelf[n][1].by = "job" => IF shelf[n][1].kind = "extract"
                                       THEN Listed(shelf[n][1].tree) = Contents(shelf[n][1].input)
                                       ELSE shelf[n][1].out = shelf[n][1].items

BudgetInv ==
    /\ mix \in Mixes /\ mix.changes \in Nat /\ mix.cancels \in Nat /\ mix.faults \in Nat /\ mix.retained \in Nat
    /\ budget \in [changes : 0 .. mix.changes, cancels : 0 .. mix.cancels, faults : 0 .. mix.faults]
    /\ residue \in Leftovers /\ visited \in Nat \cup {-1}
    /\ NothingLeftBehind

ArchivesInv == JobsInv /\ LockInv /\ QuotaInv /\ ShelfInv /\ BudgetInv

-----------------------------------------------------------------------------
(* What the share holds, and what a tree is charged                          *)

LEMMA TotalIs ==
  ASSUME NEW f, NEW D, DOMAIN f = D
  PROVE  SumFunction(f) = SumOn(f, D)
  BY DEF SumFunction, SumFunctionOnSet, FoldFunctionOnSet, MapThenFoldSet, SumOn, Sums, First

SourceSizes(files) == [s \in Range(Sources) |-> IF files[s] = -1 THEN 0 ELSE files[s]]
ShelfSizes(names) == [n \in Names |-> Held(names[n])]
Charges(tree) == [e \in tree |-> IF e.kind = "directory" THEN DirCharge ELSE e.size]

Holds(files, names) == SumOn(SourceSizes(files), Range(Sources)) + SumOn(ShelfSizes(names), Names)

LEMMA UsageIs ==
  /\ Usage = Holds(source, shelf)
  /\ Usage' = Holds(source', shelf')
  <1>1. \A files, names :
           /\ SumFunction(SourceSizes(files)) = SumOn(SourceSizes(files), Range(Sources))
           /\ SumFunction(ShelfSizes(names)) = SumOn(ShelfSizes(names), Names)
    <2> TAKE files, names
    <2>1. DOMAIN SourceSizes(files) = Range(Sources) /\ DOMAIN ShelfSizes(names) = Names
      BY DEF SourceSizes, ShelfSizes
    <2> QED BY <2>1, TotalIs
  <1>2. Usage = SumFunction(SourceSizes(source)) + SumFunction(ShelfSizes(shelf))
    BY DEF Usage, SourceSizes, ShelfSizes
  <1>3. Usage' = SumFunction(SourceSizes(source')) + SumFunction(ShelfSizes(shelf'))
    BY DEF Usage, SourceSizes, ShelfSizes
  <1> QED BY <1>1, <1>2, <1>3 DEF Holds

LEMMA ChargeIs ==
  ASSUME NEW tree
  PROVE  ChargeOf(tree) = SumOn(Charges(tree), tree)
  <1>1. DOMAIN Charges(tree) = tree
    BY DEF Charges
  <1>2. ChargeOf(tree) = SumFunction(Charges(tree))
    BY DEF ChargeOf, Charges
  <1> QED BY <1>1, <1>2, TotalIs

LEMMA SourcesAreFinite == IsFiniteSet(Range(Sources)) /\ Len(Sources) \in Nat /\ Cardinality(Range(Sources)) <= Len(Sources)
  <1>1. Sources \in Seq(STRING)
    BY ArchivesAssumption
  <1>2. Len(Sources) \in Nat /\ DOMAIN Sources = 1 .. Len(Sources) /\ Range(Sources) = {Sources[i] : i \in 1 .. Len(Sources)}
    BY <1>1, LenProperties, RangeEquality
  <1> DEFINE n == Len(Sources)
             S == Range(Sources)
  <1>3. Sources \in Surjection(1 .. n, S)
    BY <1>1, <1>2 DEF Surjection
  <1> HIDE DEF S, n
  <1>4. IsFiniteSet(1 .. n) /\ Cardinality(1 .. n) = n
    <2>1. 1 \in Int /\ n \in Int
      BY <1>2 DEF n
    <2>2. IsFiniteSet(1 .. n) /\ Cardinality(1 .. n) = IF 1 > n THEN 0 ELSE n - 1 + 1
      BY <2>1, FS_Interval
    <2> QED BY <1>2, <2>2 DEF n
  <1>5. IsFiniteSet(S) /\ Cardinality(S) <= n
    BY <1>3, <1>4, FS_Surjection
  <1> QED BY <1>2, <1>5 DEF S, n

\* What is not more than one price for each is not more than it for all.
LEMMA SumOfPrices ==
  ASSUME NEW D, IsFiniteSet(D), NEW f \in [D -> Nat], NEW c \in Nat, \A x \in D : f[x] <= c
  PROVE  SumOn(f, D) \in Nat /\ SumOn(f, D) <= c * Cardinality(D)
  <1> DEFINE Bad == {s \in SUBSET D : ~(SumOn(f, s) <= c * Cardinality(s))}
             size == [s \in Bad |-> Cardinality(s)]
  <1>1. \A S \in SUBSET D : SumOn(f, S) \in Nat /\ \A x \in D \ S : SumOn(f, S \cup {x}) = SumOn(f, S) + f[x]
    BY SumInserts
  <1>2. ASSUME Bad # {} PROVE FALSE
    <2>1. size \in [Bad -> Nat]
      BY RestIsSmaller
    <2>2. PICK s \in Bad : \A t \in Bad : size[s] <= size[t]
      <3> HIDE DEF size, Bad
      <3> QED BY <1>2, <2>1, LeastIndexed
    <2>3. /\ s \in SUBSET D /\ ~(SumOn(f, s) <= c * Cardinality(s))
          /\ \A t \in SUBSET D : Cardinality(s) <= Cardinality(t) \/ SumOn(f, t) <= c * Cardinality(t)
      BY <2>2
    <2> HIDE DEF Bad, size
    <2>4. s # {}
      <3> SUFFICES ASSUME s = {} PROVE FALSE
        OBVIOUS
      <3>1. SumOn(f, s) = 0 /\ Cardinality(s) = 0
        BY SumEmpty, FS_EmptySet
      <3>2. c * 0 = 0
        OBVIOUS
      <3>3. c * Cardinality(s) = 0
        BY <3>1, <3>2
      <3>5. SumOn(f, s) <= c * Cardinality(s)
        <4> DEFINE a == SumOn(f, s)
                   b == c * Cardinality(s)
        <4>1. a = 0 /\ b = 0
          BY <3>1, <3>3
        <4> HIDE DEF a, b
        <4>2. a <= b
          BY <4>1
        <4> QED BY <4>2 DEF a, b
      <3> QED BY <2>3, <3>5
    <2> DEFINE x == First(s)
               t == Rest(s)
    <2>5. x \in s /\ t \in SUBSET D /\ Cardinality(t) = Cardinality(s) - 1 /\ Cardinality(s) \in Nat
      BY <2>3, <2>4, RestIsSmaller
    <2>6. s = t \cup {x} /\ x \in D \ t /\ Cardinality(t) \in Nat
      BY <2>3, <2>5, RestIsSmaller DEF Rest
    <2> HIDE DEF x, t
    <2>7. SumOn(f, t) <= c * Cardinality(t)
      BY <2>3, <2>5
    <2>8. SumOn(f, s) = SumOn(f, t) + f[x] /\ SumOn(f, t) \in Nat
      BY <1>1, <2>5, <2>6
    <2>9. f[x] \in Nat /\ f[x] <= c
      BY <2>6
    <2>10. c * Cardinality(s) = c * Cardinality(t) + c /\ c * Cardinality(t) \in Nat
      BY <2>5, <2>6
    <2> DEFINE p == c * Cardinality(t)
               q == c * Cardinality(s)
               u == SumOn(f, t)
    <2>11. u <= p /\ u \in Nat /\ p \in Nat /\ q = p + c /\ ~(u + f[x] <= q)
      BY <2>3, <2>7, <2>8, <2>10
    <2> HIDE DEF p, q, u
    <2> QED BY <2>9, <2>11
  <1>3. SumOn(f, D) <= c * Cardinality(D)
    BY <1>2
  <1> QED BY <1>1, <1>3

\* Two sets that may have something in common.
LEMMA SumOfBoth ==
  ASSUME NEW D, IsFiniteSet(D), NEW f, \A x \in D : f[x] \in Nat, NEW A \in SUBSET D, NEW B \in SUBSET D
  PROVE  /\ SumOn(f, A \cup B) \in Nat /\ SumOn(f, A) \in Nat /\ SumOn(f, B) \in Nat
         /\ SumOn(f, A \cup B) <= SumOn(f, A) + SumOn(f, B)
  <1> DEFINE C == B \ A
  <1>1. C \in SUBSET D /\ A \cap C = {}
    OBVIOUS
  <1>5. A \cup C = A \cup B
    OBVIOUS
  <1>6. C \in SUBSET B /\ IsFiniteSet(B)
    BY FS_Subset
  <1> HIDE DEF C
  <1>2. SumOn(f, A) \in Nat /\ SumOn(f, C) \in Nat /\ SumOn(f, A \cup C) = SumOn(f, A) + SumOn(f, C)
    <2>1. \A S, T \in SUBSET D : S \cap T = {} =>
             /\ SumOn(f, S) \in Nat /\ SumOn(f, T) \in Nat
             /\ SumOn(f, S \cup T) = SumOn(f, S) + SumOn(f, T)
      <3> TAKE S, T \in SUBSET D
      <3> HAVE S \cap T = {}
      <3> QED BY SumUnion
    <2> QED BY <1>1, <2>1
  <1>3. SumOn(f, A \cup C) = SumOn(f, A \cup B)
    BY <1>5, Zenon
  <1>4. SumOn(f, C) <= SumOn(f, B) /\ SumOn(f, B) \in Nat
    BY <1>6, SumOfPart
  <1> QED BY <1>2, <1>3, <1>4

-----------------------------------------------------------------------------
(* What an entry adds to a tree, and what an archive says of its entries     *)

Folder(p) == [path |-> p, kind |-> "directory", size |-> 0]
Adds(e) == {List(e)} \cup {Folder(p) : p \in Parents(e.path)}
Said(entries) == {List(e) : e \in entries}
                   \cup UNION {{Folder(p) : p \in Parents(e.path)} : e \in entries}
Named(s) == {e \in Range(s) : e.path # <<>>}

LEMMA ContentsAreSaid ==
  ASSUME NEW s
  PROVE  Contents(s) = Said(Named(s))
  BY DEF Contents, Said, Named, List, Folder

\* The first n of a sequence are the first n - 1 and one more.
LEMMA OneMore ==
  ASSUME NEW S, NEW s \in Seq(S), NEW n \in 1 .. Len(s)
  PROVE  /\ s[n] \in S
         /\ SubSeq(s, 1, n - 1) \in Seq(S) /\ SubSeq(s, 1, n) = Append(SubSeq(s, 1, n - 1), s[n])
         /\ Range(SubSeq(s, 1, n)) = Range(SubSeq(s, 1, n - 1)) \cup {s[n]}
  <1> DEFINE t == SubSeq(s, 1, n - 1)
             u == SubSeq(s, 1, n)
  <1>1. Len(s) \in Nat /\ n \in Nat /\ n >= 1 /\ s[n] \in S /\ \A i \in 1 .. Len(s) : s[i] \in S
    BY LenProperties, ElementOfSeq
  <1>2. 1 \in 1 .. Len(s) /\ n \in 1 .. Len(s) /\ 1 \in Int /\ n - 1 \in Int /\ \A i \in 1 .. n - 1 : s[i] \in S
    BY <1>1
  <1>3. t \in Seq(S)
    BY <1>2, SubSeqProperties
  <1>4. u = t \o <<s[n]>>
    BY <1>2, SubSeqRecursiveSecond
  <1> HIDE DEF t, u
  <1>5. u = Append(t, s[n]) /\ u \in Seq(S) /\ Len(u) = Len(t) + 1 /\ u[Len(t) + 1] = s[n]
        /\ \A i \in 1 .. Len(t) : u[i] = t[i]
    BY <1>1, <1>3, <1>4, AppendProperties, AppendIsConcat
  <1>6. Range(u) = {u[i] : i \in 1 .. Len(u)} /\ Range(t) = {t[i] : i \in 1 .. Len(t)} /\ Len(t) \in Nat
    <2>1. \A v \in Seq(S) : Range(v) = {v[i] : i \in 1 .. Len(v)}
      BY RangeEquality
    <2>2. \A v \in Seq(S) : Len(v) \in Nat
      BY LenProperties
    <2> QED BY <1>3, <1>5, <2>1, <2>2
  <1>7. Range(u) = Range(t) \cup {s[n]}
    <2>1. 1 .. Len(u) = 1 .. Len(t) \cup {Len(t) + 1}
      BY <1>5, <1>6
    <2> QED BY <1>5, <1>6, <2>1
  <1> QED BY <1>1, <1>3, <1>5, <1>7 DEF t, u

LEMMA ContentsGrow ==
  ASSUME NEW s \in Seq(Entries), NEW n \in 1 .. Len(s)
  PROVE  Contents(SubSeq(s, 1, n)) = Contents(SubSeq(s, 1, n - 1))
                                       \cup IF s[n].path = <<>> THEN {} ELSE Adds(s[n])
  <1> DEFINE t == SubSeq(s, 1, n - 1)
             u == SubSeq(s, 1, n)
  <1>1. Range(u) = Range(t) \cup {s[n]}
    BY OneMore
  <1>2. Named(u) = Named(t) \cup IF s[n].path = <<>> THEN {} ELSE {s[n]}
    BY <1>1 DEF Named
  <1>3. \A A, B : Said(A \cup B) = Said(A) \cup Said(B)
    BY DEF Said
  <1>4. Said({}) = {} /\ \A e : Said({e}) = Adds(e)
    BY DEF Said, Adds
  <1> HIDE DEF t, u
  <1>5. Said(Named(u)) = Said(Named(t)) \cup IF s[n].path = <<>> THEN {} ELSE Adds(s[n])
    <2>1. CASE s[n].path = <<>>
      BY <1>2, <2>1
    <2>2. CASE s[n].path # <<>>
      <3>1. Named(u) = Named(t) \cup {s[n]}
        BY <1>2, <2>2
      <3>2. Said(Named(u)) = Said(Named(t)) \cup Said({s[n]})
        BY <1>3, <3>1
      <3> QED BY <1>4, <2>2, <3>2
    <2> QED BY <2>1, <2>2
  <1> QED BY <1>5, ContentsAreSaid DEF t, u

\* A path is in finitely many folders, all of them shorter.
LEMMA ParentsAreShorter ==
  ASSUME NEW path \in Seq(STRING)
  PROVE  Parents(path) \subseteq Seq(STRING) /\ path \notin Parents(path) /\ IsFiniteSet(Parents(path))
  <1> DEFINE prefix == [n \in 1 .. Len(path) - 1 |-> SubSeq(path, 1, n)]
             P == Parents(path)
             I == 1 .. Len(path) - 1
  <1>1. Len(path) \in Nat /\ \A i \in 1 .. Len(path) : path[i] \in STRING
    BY LenProperties, ElementOfSeq
  <1>2. \A n \in I : prefix[n] \in Seq(STRING) /\ Len(prefix[n]) = n
    <2> TAKE n \in I
    <2>1. 1 \in Int /\ n \in Int /\ 1 <= n /\ \A i \in 1 .. n : path[i] \in STRING
      BY <1>1
    <2>2. SubSeq(path, 1, n) \in Seq(STRING) /\ Len(SubSeq(path, 1, n)) = IF 1 <= n THEN n - 1 + 1 ELSE 0
      BY <2>1, SubSeqProperties
    <2> QED BY <2>1, <2>2
  <1>3. P = {prefix[n] : n \in I}
    BY DEF Parents
  <1>4. IsFiniteSet(I)
    <2>1. 1 \in Int /\ Len(path) - 1 \in Int
      BY <1>1
    <2> QED BY <2>1, FS_Interval
  <1>5. prefix \in Surjection(I, P)
    BY <1>3 DEF Surjection
  <1>6. path \notin P
    <2>1. \A n \in I : n # Len(path)
      BY <1>1
    <2> HIDE DEF I, prefix
    <2> QED BY <1>2, <1>3, <2>1
  <1>7. P \subseteq Seq(STRING)
    BY <1>2, <1>3
  <1> HIDE DEF P, prefix, I
  <1>8. IsFiniteSet(P)
    BY <1>4, <1>5, FS_Surjection
  <1> QED BY <1>6, <1>7, <1>8 DEF P

Made(tree, e) == {Node(p, "directory", 0, FALSE) : p \in NewFolders(tree, e) \ {e.path}}
Wrote(e) == Node(e.path, e.kind, e.actual, TRUE)
Kept(tree, e) == tree \ EntryAt(tree, e.path)

\* What may be in a tree, and what may be added to it.
Tree(tree) == tree \in SUBSET Nodes /\ IsFiniteSet(tree) /\ \A f \in tree : f.kind = "directory" => f.size = 0
Fine(tree, e) == /\ e \in Entries /\ ~Clashes(tree, e)
                 /\ e.actual = e.size /\ (e.kind = "directory" => e.size = 0)

LEMMA FoldersAreNew ==
  ASSUME NEW tree, NEW e, Tree(tree), Fine(tree, e)
  PROVE  /\ IsFiniteSet(NewFolders(tree, e)) /\ NewFolders(tree, e) \subseteq Seq(STRING)
         /\ Made(tree, e) \in SUBSET Nodes /\ IsFiniteSet(Made(tree, e))
         /\ Cardinality(Made(tree, e)) <= Cardinality(NewFolders(tree, e) \ {e.path})
         /\ \A f \in Made(tree, e) : f.kind = "directory" /\ f.size = 0
         /\ Wrote(e) \in Nodes
  <1> DEFINE new == NewFolders(tree, e)
             others == new \ {e.path}
             made == [p \in others |-> Node(p, "directory", 0, FALSE)]
             M == Made(tree, e)
  <1>1. e.path \in Seq(STRING) /\ e.kind \in {"file", "directory"} /\ e.actual \in Nat
    BY DEF Fine, Entries
  <1>2. new \subseteq Parents(e.path) \cup {e.path}
    BY DEF NewFolders
  <1>3. IsFiniteSet(new) /\ new \subseteq Seq(STRING)
    <2>1. IsFiniteSet(Parents(e.path)) /\ Parents(e.path) \subseteq Seq(STRING)
      BY <1>1, ParentsAreShorter
    <2>2. IsFiniteSet(Parents(e.path) \cup {e.path})
      BY <2>1, FS_AddElement
    <2> HIDE DEF new
    <2>3. IsFiniteSet(new)
      BY <1>2, <2>2, FS_Subset
    <2> QED BY <1>1, <1>2, <2>1, <2>3
  <1>4. M = {made[p] : p \in others}
    BY DEF Made
  <1>5. M \in SUBSET Nodes /\ \A f \in M : f.kind = "directory" /\ f.size = 0
    <2>1. \A p \in others : p \in Seq(STRING)
      BY <1>3
    <2>2. \A p \in others : LET f == Node(p, "directory", 0, FALSE) IN f \in Nodes /\ f.kind = "directory" /\ f.size = 0
      <3> HIDE DEF others
      <3> QED BY <2>1 DEF Node, Nodes
    <2>3. \A f \in M : \E p \in others : f = Node(p, "directory", 0, FALSE)
      BY DEF Made
    <2> HIDE DEF others, M
    <2> QED BY <2>2, <2>3
  <1>6. Wrote(e) \in Nodes
    BY <1>1 DEF Wrote, Node, Nodes
  <1>7. made \in Surjection(others, M)
    BY <1>4 DEF Surjection
  <1> HIDE DEF new, made, M
  <1>8. IsFiniteSet(others)
    BY <1>3, FS_Subset
  <1> HIDE DEF others
  <1>9. IsFiniteSet(M) /\ Cardinality(M) <= Cardinality(others)
    BY <1>7, <1>8, FS_Surjection
  <1> QED BY <1>3, <1>5, <1>6, <1>9 DEF new, M, others

\* What is at the path of an entry that is fine is a folder, and so is the entry.
LEMMA OnlyFoldersAgain ==
  ASSUME NEW tree, NEW e, Tree(tree), Fine(tree, e), NEW f \in EntryAt(tree, e.path)
  PROVE  f \in tree /\ f.path = e.path /\ f.kind = "directory" /\ f.size = 0 /\ e.kind = "directory" /\ e.size = 0
  <1>1. f \in tree /\ f.path = e.path /\ f.kind \in {"file", "directory"} /\ e.kind \in {"file", "directory"}
    BY DEF EntryAt, Tree, Nodes, Fine, Entries
  <1>2. f.kind # "file" /\ e.kind # "file"
    BY DEF Fine, Clashes
  <1> QED BY <1>1, <1>2 DEF Tree, Fine

LEMMA WrittenIsATree ==
  ASSUME NEW tree, NEW e, Tree(tree), Fine(tree, e)
  PROVE  /\ Written(tree, e) = Kept(tree, e) \cup (Made(tree, e) \cup {Wrote(e)})
         /\ Tree(Written(tree, e))
  <1>1. Written(tree, e) = Kept(tree, e) \cup (Made(tree, e) \cup {Wrote(e)})
    BY DEF Written, Kept, Made, Wrote
  <1>2. IsFiniteSet(Kept(tree, e)) /\ Kept(tree, e) \subseteq tree
    BY FS_Subset DEF Tree, Kept
  <1>3. IsFiniteSet(Made(tree, e) \cup {Wrote(e)})
    BY FoldersAreNew, FS_AddElement
  <1>4. IsFiniteSet(Written(tree, e))
    BY <1>1, <1>2, <1>3, FS_Union
  <1>5. Wrote(e).kind = "directory" => Wrote(e).size = 0
    BY DEF Wrote, Node, Fine
  <1>6. /\ Made(tree, e) \in SUBSET Nodes /\ Wrote(e) \in Nodes
        /\ \A f \in Made(tree, e) : f.kind = "directory" /\ f.size = 0
    BY FoldersAreNew
  <1>7. tree \in SUBSET Nodes /\ \A f \in tree : f.kind = "directory" => f.size = 0
    BY DEF Tree
  <1>8. Tree(Written(tree, e))
    <2> DEFINE W == Written(tree, e)
    <2>1. W \in SUBSET Nodes /\ \A f \in W : f.kind = "directory" => f.size = 0
      BY <1>1, <1>2, <1>5, <1>6, <1>7
    <2> HIDE DEF W
    <2> QED BY <1>4, <2>1 DEF Tree, W
  <1> QED BY <1>1, <1>8

\* What is written is what the tree and the entry say together.
LEMMA WrittenIsListed ==
  ASSUME NEW tree, NEW e, Tree(tree), Fine(tree, e)
  PROVE  Listed(Written(tree, e)) = Listed(tree) \cup Adds(e)
  <1> DEFINE up_to == {Folder(p) : p \in Parents(e.path)}
  <1>1. \A A, B : Listed(A \cup B) = Listed(A) \cup Listed(B)
    BY DEF Listed
  <1>2. Listed({Wrote(e)}) = {List(e)}
    BY DEF Listed, Wrote, Node, List, Fine
  <1>3. Listed(Made(tree, e)) \subseteq up_to
    <2>1. \A p \in NewFolders(tree, e) \ {e.path} : p \in Parents(e.path)
      BY DEF NewFolders
    <2>2. \A p : List(Node(p, "directory", 0, FALSE)) = Folder(p)
      BY DEF List, Node, Folder
    <2> QED BY <2>1, <2>2 DEF Listed, Made
  <1>4. \A p \in Parents(e.path) : Folder(p) \in Listed(tree) \cup Listed(Made(tree, e))
    <2> TAKE p \in Parents(e.path)
    <2>1. CASE EntryAt(tree, p) = {}
      <3>1. p # e.path
        BY ParentsAreShorter DEF Fine, Entries
      <3>2. p \in NewFolders(tree, e) \ {e.path}
        BY <2>1, <3>1 DEF NewFolders
      <3>3. Node(p, "directory", 0, FALSE) \in Made(tree, e)
        BY <3>2 DEF Made
      <3>4. List(Node(p, "directory", 0, FALSE)) = Folder(p)
        BY DEF List, Node, Folder
      <3> QED BY <3>3, <3>4 DEF Listed
    <2>2. CASE EntryAt(tree, p) # {}
      <3>1. PICK f \in tree : f.path = p
        BY <2>2 DEF EntryAt
      <3>2. f.kind = "directory" /\ f.size = 0
        BY <3>1 DEF Tree, Nodes, Fine, Clashes
      <3> QED BY <3>1, <3>2 DEF Listed, List, Folder
    <2> QED BY <2>1, <2>2
  <1>5. Listed(EntryAt(tree, e.path)) \subseteq {List(e)}
    <2>1. \A f \in EntryAt(tree, e.path) : List(f) = List(e)
      BY OnlyFoldersAgain DEF List
    <2> QED BY <2>1 DEF Listed, List
  <1>6. tree = Kept(tree, e) \cup EntryAt(tree, e.path)
    BY DEF Kept, EntryAt
  <1>7. Listed(tree) = Listed(Kept(tree, e)) \cup Listed(EntryAt(tree, e.path))
    BY <1>1, <1>6
  <1>8. Listed(Written(tree, e)) = Listed(Kept(tree, e)) \cup (Listed(Made(tree, e)) \cup {List(e)})
    <2>1. Written(tree, e) = Kept(tree, e) \cup (Made(tree, e) \cup {Wrote(e)})
      BY WrittenIsATree
    <2>2. Listed(Written(tree, e)) = Listed(Kept(tree, e)) \cup Listed(Made(tree, e) \cup {Wrote(e)})
      BY <1>1, <2>1
    <2>3. Listed(Made(tree, e) \cup {Wrote(e)}) = Listed(Made(tree, e)) \cup Listed({Wrote(e)})
      BY <1>1
    <2> QED BY <1>2, <2>2, <2>3
  <1>9. up_to \subseteq Listed(tree) \cup Listed(Made(tree, e))
    BY <1>4
  <1>10. Adds(e) = {List(e)} \cup up_to
    BY DEF Adds
  <1> HIDE DEF up_to
  <1> QED BY <1>3, <1>5, <1>7, <1>8, <1>9, <1>10

\* What a tree is charged is what its parts are, whatever tree they are part of.
LEMMA PartsAreCharged ==
  ASSUME NEW D, Tree(D)
  PROVE  /\ Charges(D) \in [D -> Nat] /\ IsFiniteSet(D)
         /\ \A S \in SUBSET D : ChargeOf(S) = SumOn(Charges(D), S) /\ ChargeOf(S) \in Nat
  <1>1. IsFiniteSet(D) /\ DirCharge \in Nat /\ \A e \in D : e.size \in Nat
    BY ArchivesAssumption DEF Tree, Nodes
  <1>2. Charges(D) \in [D -> Nat]
    BY <1>1 DEF Charges
  <1>3. ASSUME NEW S \in SUBSET D PROVE ChargeOf(S) = SumOn(Charges(D), S) /\ ChargeOf(S) \in Nat
    <2>1. IsFiniteSet(S) /\ \A e \in S : Charges(S)[e] = Charges(D)[e]
      BY <1>1, FS_Subset DEF Charges
    <2>2. SumOn(Charges(S), S) = SumOn(Charges(D), S)
      BY <2>1, SumOnAgrees
    <2>3. SumOn(Charges(D), S) \in Nat
      BY <1>1, <1>2, SumInserts
    <2> QED BY <2>2, <2>3, ChargeIs
  <1> QED BY <1>1, <1>2, <1>3

\* A price for each folder is a price for all.
LEMMA PriceGrows ==
  ASSUME NEW m \in Nat, NEW n \in Nat, m <= n
  PROVE  DirCharge * m \in Nat /\ DirCharge * n \in Nat /\ DirCharge * m <= DirCharge * n
  <1>1. DirCharge \in Nat
    BY ArchivesAssumption
  <1>2. n - m \in Nat /\ n = m + (n - m)
    OBVIOUS
  <1> DEFINE d == n - m
  <1>3. DirCharge * d \in Nat
    BY <1>1, <1>2
  <1>4. DirCharge * n = DirCharge * m + DirCharge * d
    BY <1>1, <1>2
  <1>5. DirCharge * m \in Nat /\ DirCharge * n \in Nat
    BY <1>1
  <1> HIDE DEF d
  <1> QED BY <1>3, <1>4, <1>5

\* An entry charges its tree no more than its folders and its data.
LEMMA WrittenIsCharged ==
  ASSUME NEW tree, NEW e, Tree(tree), Fine(tree, e)
  PROVE  /\ Cardinality(NewFolders(tree, e)) \in Nat /\ Cardinality(Written(tree, e)) \in Nat
         /\ ChargeOf(tree) \in Nat /\ ChargeOf(Written(tree, e)) \in Nat
         /\ ChargeOf(Written(tree, e)) <= ChargeOf(tree) + DirCharge * Cardinality(NewFolders(tree, e)) + e.actual
  <1> DEFINE W == Written(tree, e)
             K == Kept(tree, e)
             A == EntryAt(tree, e.path)
             M == Made(tree, e)
             w == Wrote(e)
             new == NewFolders(tree, e)
             others == new \ {e.path}
             D == tree \cup W
             f == Charges(D)
  <1>1. W = K \cup (M \cup {w}) /\ Tree(W)
    BY WrittenIsATree
  <1>2. Tree(D)
    <2>1. IsFiniteSet(D)
      BY <1>1, FS_Union DEF Tree
    <2> HIDE DEF W
    <2> QED BY <1>1, <2>1 DEF Tree
  <1>3. tree = K \cup A /\ K \cap A = {} /\ {tree, K, A, M, {w}, M \cup {w}, W} \subseteq SUBSET D
    <2>1. tree = K \cup A /\ K \cap A = {}
      BY DEF Kept, EntryAt
    <2> HIDE DEF K, A, M, w, W
    <2> QED BY <1>1, <2>1
  <1>4. /\ IsFiniteSet(new) /\ IsFiniteSet(M) /\ Cardinality(M) <= Cardinality(others)
        /\ \A x \in M : x.kind = "directory"
    BY FoldersAreNew
  <1>5. Cardinality(W) \in Nat /\ Cardinality(new) \in Nat /\ Cardinality(M) \in Nat
    BY <1>1, <1>4, FS_CardinalityType DEF Tree
  <1>6. DirCharge \in Nat /\ e.actual \in Nat /\ e.size \in Nat /\ e.kind \in {"file", "directory"}
    BY ArchivesAssumption DEF Fine, Entries
  <1>7. w.kind = e.kind /\ w.size = e.actual
    BY DEF Wrote, Node
  <1>8. \A x \in A : x.kind = "directory" /\ e.kind = "directory"
    BY OnlyFoldersAgain
  <1>9. Cardinality(others) = IF e.path \in new THEN Cardinality(new) - 1 ELSE Cardinality(new)
    BY <1>4, FS_RemoveElement
  <1>10. e.path \in new <=> e.kind = "directory" /\ A = {}
    <2>1. e.path \notin Parents(e.path)
      BY ParentsAreShorter DEF Fine, Entries
    <2> QED BY <2>1 DEF NewFolders
  <1> HIDE DEF W, K, A, M, w, new, others
  <1>11. /\ f \in [D -> Nat] /\ IsFiniteSet(D)
         /\ \A S \in SUBSET D : ChargeOf(S) = SumOn(f, S) /\ ChargeOf(S) \in Nat
    BY <1>2, PartsAreCharged
  <1>12. \A x \in D : f[x] = IF x.kind = "directory" THEN DirCharge ELSE x.size
    BY DEF Charges
  <1> HIDE DEF D, f
  <1>13. SumOn(f, M) <= DirCharge * Cardinality(M)
    <2> DEFINE g == [x \in M |-> DirCharge]
    <2>1. \A x \in M : f[x] = g[x] /\ g[x] <= DirCharge
      BY <1>3, <1>4, <1>6, <1>12
    <2>2. g \in [M -> Nat]
      BY <1>6
    <2> HIDE DEF g
    <2>3. SumOn(g, M) <= DirCharge * Cardinality(M)
      BY <1>4, <1>6, <2>1, <2>2, SumOfPrices
    <2>4. SumOn(f, M) = SumOn(g, M)
      BY <1>4, <2>1, SumOnAgrees
    <2> QED BY <2>3, <2>4
  <1>14. SumOn(f, {w}) = f[w]
    <2>1. {} \in SUBSET D /\ w \in D \ {} /\ \A x \in D : f[x] \in Nat
      BY <1>3, <1>11
    <2>2. SumOn(f, {} \cup {w}) = SumOn(f, {}) + f[w]
      BY <1>11, <2>1, SumInserts
    <2>3. {} \cup {w} = {w}
      OBVIOUS
    <2>4. SumOn(f, {w}) = SumOn(f, {} \cup {w})
      BY <2>3, Zenon
    <2> QED BY <2>1, <2>2, <2>4, SumEmpty
  <1>15. /\ SumOn(f, W) <= SumOn(f, K) + SumOn(f, M \cup {w})
         /\ SumOn(f, M \cup {w}) <= SumOn(f, M) + SumOn(f, {w})
    <2>1. \A x \in D : f[x] \in Nat
      BY <1>11
    <2>2. M \in SUBSET D /\ {w} \in SUBSET D /\ K \in SUBSET D /\ M \cup {w} \in SUBSET D
      BY <1>3
    <2>3. SumOn(f, M \cup {w}) <= SumOn(f, M) + SumOn(f, {w})
      BY <1>11, <2>1, <2>2, SumOfBoth
    <2>4. SumOn(f, K \cup (M \cup {w})) <= SumOn(f, K) + SumOn(f, M \cup {w})
      BY <1>11, <2>1, <2>2, SumOfBoth
    <2> QED BY <1>1, <2>3, <2>4
  <1>16. SumOn(f, tree) = SumOn(f, K) + SumOn(f, A)
    <2>1. \A x \in D : f[x] \in Nat
      BY <1>11
    <2>2. K \in SUBSET D /\ A \in SUBSET D /\ K \cap A = {}
      BY <1>3
    <2>3. SumOn(f, K \cup A) = SumOn(f, K) + SumOn(f, A)
      BY <1>11, <2>1, <2>2, SumUnion
    <2> QED BY <1>3, <2>3
  <1>17. A # {} => SumOn(f, A) >= DirCharge
    <2> SUFFICES ASSUME A # {} PROVE SumOn(f, A) >= DirCharge
      OBVIOUS
    <2>1. PICK x : x \in A
      OBVIOUS
    <2>2. f[x] = DirCharge /\ f \in [D -> Nat] /\ A \in SUBSET D /\ x \in D
      BY <1>3, <1>8, <1>11, <1>12, <2>1
    <2>3. \A S \in SUBSET D : SumOn(f, S) \in Nat /\ \A y \in D \ S : SumOn(f, S \cup {y}) = SumOn(f, S) + f[y]
      <3>1. \A y \in D : f[y] \in Nat
        BY <2>2
      <3> QED BY <1>11, <3>1, SumInserts
    <2> DEFINE B == A \ {x}
    <2>4. B \in SUBSET D /\ x \in D \ B /\ A = B \cup {x}
      BY <2>1, <2>2
    <2> HIDE DEF B
    <2>5. SumOn(f, B) \in Nat /\ SumOn(f, A) = SumOn(f, B) + DirCharge
      BY <2>2, <2>3, <2>4
    <2> QED BY <1>6, <2>5
  <1>18. {SumOn(f, W), SumOn(f, K), SumOn(f, A), SumOn(f, M), SumOn(f, M \cup {w}), SumOn(f, tree)} \subseteq Nat
    <2>1. \A S \in SUBSET D : SumOn(f, S) \in Nat
      BY <1>11
    <2> QED BY <1>3, <2>1
  <1>19. f[w] = IF e.kind = "directory" THEN DirCharge ELSE e.actual
    BY <1>3, <1>7, <1>12
  <1> DEFINE m == Cardinality(M)
             o == Cardinality(others)
             n == Cardinality(new)
  <1>20. /\ DirCharge * m \in Nat /\ DirCharge * o \in Nat /\ DirCharge * m <= DirCharge * o
         /\ DirCharge * n \in Nat
         /\ DirCharge * n = IF e.path \in new THEN DirCharge * o + DirCharge ELSE DirCharge * o
    <2>1. IsFiniteSet(others)
      BY <1>4, FS_Subset DEF others
    <2>2. o \in Nat /\ n \in Nat /\ m \in Nat /\ m <= o
      BY <1>4, <1>5, <2>1, FS_CardinalityType
    <2>3. e.path \in new => n = o + 1
      BY <1>9, <2>2
    <2>4. DirCharge * (o + 1) = DirCharge * o + DirCharge
      BY <1>6, <2>2
    <2>5. e.path \notin new => n = o
      BY <1>9
    <2> HIDE DEF n, o, m
    <2>6. DirCharge * m \in Nat /\ DirCharge * o \in Nat /\ DirCharge * m <= DirCharge * o /\ DirCharge * n \in Nat
      BY <1>6, <2>2, PriceGrows
    <2> QED BY <2>3, <2>4, <2>5, <2>6
  <1> DEFINE pm == DirCharge * m
             po == DirCharge * o
             pn == DirCharge * n
  <1>21. /\ pm \in Nat /\ po \in Nat /\ pn \in Nat /\ pm <= po
         /\ pn = IF e.path \in new THEN po + DirCharge ELSE po
         /\ SumOn(f, M) <= pm
    BY <1>13, <1>20
  <1> HIDE DEF pm, po, pn
  <1>22. SumOn(f, W) <= SumOn(f, K) + pm + f[w]
    <2>1. f[w] \in Nat
      BY <1>6, <1>19
    <2> QED BY <1>14, <1>15, <1>18, <1>21, <2>1
  <1>23. SumOn(f, W) <= SumOn(f, tree) + pn + e.actual
    <2>1. CASE e.kind # "directory"
      <3>1. pn = po /\ f[w] = e.actual
        BY <1>10, <1>19, <1>21, <2>1
      <3> QED BY <1>6, <1>16, <1>18, <1>21, <1>22, <3>1
    <2>2. CASE e.kind = "directory" /\ A = {}
      <3>1. pn = po + DirCharge /\ f[w] = DirCharge
        BY <1>10, <1>19, <1>21, <2>2
      <3> QED BY <1>6, <1>16, <1>18, <1>21, <1>22, <3>1
    <2>3. CASE e.kind = "directory" /\ A # {}
      <3>1. pn = po /\ f[w] = DirCharge /\ SumOn(f, A) >= DirCharge
        BY <1>10, <1>17, <1>19, <1>21, <2>3
      <3> QED BY <1>6, <1>16, <1>18, <1>21, <1>22, <3>1
    <2> QED BY <2>1, <2>2, <2>3
  <1>24. ChargeOf(tree) = SumOn(f, tree) /\ ChargeOf(W) = SumOn(f, W)
    BY <1>3, <1>11
  <1> QED BY <1>5, <1>18, <1>23, <1>24 DEF W, new, pn

-----------------------------------------------------------------------------
(* What the share holds                                                      *)

LEMMA HoldingsAreNumbers ==
  ASSUME ShelfInv
  PROVE  /\ SourceSizes(source) \in [Range(Sources) -> Nat] /\ ShelfSizes(shelf) \in [Names -> Nat]
         /\ SumOn(SourceSizes(source), Range(Sources)) \in Nat /\ SumOn(ShelfSizes(shelf), Names) \in Nat
         /\ Usage \in Nat
  <1>1. SourceSizes(source) \in [Range(Sources) -> Nat]
    BY DEF ShelfInv, SourceSizes
  <1>2. ShelfSizes(shelf) \in [Names -> Nat]
    BY DEF ShelfInv, ShelfSizes, Held
  <1>3. IsFiniteSet(Range(Sources)) /\ IsFiniteSet(Names)
    BY SourcesAreFinite, ArchivesAssumption
  <1>4. SumOn(SourceSizes(source), Range(Sources)) \in Nat
    BY <1>1, <1>3, SumInserts
  <1>5. SumOn(ShelfSizes(shelf), Names) \in Nat
    BY <1>2, <1>3, SumInserts
  <1> QED BY <1>1, <1>2, <1>4, <1>5, UsageIs DEF Holds

\* At first each file is of one byte, and nothing has any of the names.
LEMMA FirstUsage ==
  ASSUME Init
  PROVE  Usage <= Quota
  <1> DEFINE S == Range(Sources)
             f == SourceSizes(source)
             g == ShelfSizes(shelf)
  <1>1. IsFiniteSet(S) /\ Len(Sources) \in Nat /\ Cardinality(S) <= Len(Sources) /\ IsFiniteSet(Names)
        /\ Len(Sources) <= Quota /\ Quota \in Nat
    BY SourcesAreFinite, ArchivesAssumption
  <1>2. f \in [S -> Nat] /\ \A s \in S : f[s] <= 1
    BY DEF Init, SourceSizes
  <1>3. \A n \in Names : g[n] = 0
    BY DEF Init, ShelfSizes, Held
  <1> HIDE DEF S, f, g
  <1>4. SumOn(f, S) \in Nat /\ SumOn(f, S) <= 1 * Cardinality(S)
    BY <1>1, <1>2, SumOfPrices
  <1>5. SumOn(g, Names) = 0
    BY <1>1, <1>3, SumOfNothing
  <1>6. Usage = SumOn(f, S) + SumOn(g, Names)
    BY UsageIs DEF Holds, f, g, S
  <1>7. Cardinality(S) \in Nat
    BY <1>1, FS_CardinalityType
  <1> QED BY <1>1, <1>4, <1>5, <1>6, <1>7

\* Under a name that was free, the share grows by what is published.
LEMMA PublishedIsHeld ==
  ASSUME ShelfInv, NEW n \in Names, NEW x, x # <<>>, x[1].charge \in Nat,
         shelf[n] = <<>>, shelf' = [shelf EXCEPT ![n] = x], source' = source
  PROVE  Usage' = Usage + x[1].charge
  <1> DEFINE f == ShelfSizes(shelf)
             g == ShelfSizes(shelf')
  <1>1. f \in [Names -> Nat] /\ IsFiniteSet(Names)
    BY HoldingsAreNumbers, ArchivesAssumption
  <1>2. \A m \in Names : shelf'[m] = IF m = n THEN x ELSE shelf[m]
    BY DEF ShelfInv
  <1>3. g \in [Names -> Nat] /\ f[n] = 0 /\ g[n] = x[1].charge /\ \A m \in Names \ {n} : f[m] = g[m]
    <2>1. \A m \in Names : g[m] = IF m = n THEN x[1].charge ELSE f[m]
      BY <1>2 DEF ShelfSizes, Held
    <2>2. f[n] = 0
      BY DEF ShelfSizes, Held
    <2>3. g = [m \in Names |-> g[m]]
      BY DEF ShelfSizes
    <2> HIDE DEF f, g
    <2> QED BY <1>1, <2>1, <2>2, <2>3
  <1> HIDE DEF f, g
  <1>4. SumOn(f, Names) \in Nat /\ SumOn(g, Names) \in Nat /\ SumOn(g, Names) + f[n] = SumOn(f, Names) + g[n]
    <2>1. f \in [Names -> Nat] /\ g \in [Names -> Nat] /\ IsFiniteSet(Names)
      BY <1>1, <1>3
    <2>2. \A m \in Names \ {n} : f[m] = g[m]
      BY <1>3
    <2> QED BY <2>1, <2>2, SumChanges
  <1>5. SumOn(SourceSizes(source), Range(Sources)) \in Nat
    BY HoldingsAreNumbers
  <1>6. Usage = SumOn(SourceSizes(source), Range(Sources)) + SumOn(f, Names)
    BY UsageIs DEF Holds, f
  <1>7. Usage' = SumOn(SourceSizes(source), Range(Sources)) + SumOn(g, Names)
    BY UsageIs DEF Holds, g
  <1> QED BY <1>3, <1>4, <1>5, <1>6, <1>7

LEMMA UsageStays ==
  ASSUME source' = source, shelf' = shelf
  PROVE  Usage' = Usage
  BY UsageIs

-----------------------------------------------------------------------------
(* What one job does to the invariant                                        *)

NoJobIsFine == NoJob \in Job /\ Fits(NoJob, "idle") /\ NoJob.kind = "stream"
LEMMA IdleFits == NoJobIsFine
  <1>1. NoJob \in Job
    <2>1. <<>> \in Seq(Items) /\ <<>> \in Seq(Entries) /\ {} \in SUBSET Nodes
      BY EmptySeq
    <2> QED BY <2>1 DEF NoJob, Job
  <1>2. Fits(NoJob, "idle") /\ NoJob.kind = "stream"
    BY DEF Fits, NoJob
  <1> QED BY <1>1, <1>2 DEF NoJobIsFine

\* What may be staged, and what it adds to what is left.
StagedIsFine ==
    /\ Nothing \in Staged /\ File \in Staged /\ Staged \subseteq Leftovers
    /\ \A n \in Nat : TreeOf(n) \in Staged /\ Both(File, TreeOf(n)) \in Staged
LEMMA StagedThings == StagedIsFine
  <1>1. Nothing \in Staged /\ File \in Staged
    <2>1. <<>> \in Seq(Nat) /\ Len(<<>>) = 0
      BY EmptySeq
    <2> QED BY <2>1 DEF Nothing, File, Staged
  <1>2. Staged \subseteq Leftovers
    BY DEF Staged, Leftovers
  <1>3. ASSUME NEW n \in Nat PROVE TreeOf(n) \in Staged /\ Both(File, TreeOf(n)) \in Staged
    <2>1. <<n>> \in Seq(Nat) /\ Len(<<n>>) = 1 /\ Len(<<n>>) <= 1 /\ <<>> \o <<n>> = <<n>>
      OBVIOUS
    <2>2. TreeOf(n) = [files |-> 0, trees |-> <<n>>] /\ Both(File, TreeOf(n)) = [files |-> 1, trees |-> <<n>>]
      BY <2>1 DEF TreeOf, File, Both
    <2>3. \A f \in {0, 1} : [files |-> f, trees |-> <<n>>] \in Staged
      <3> TAKE f \in {0, 1}
      <3> DEFINE x == [files |-> f, trees |-> <<n>>]
      <3>1. x \in [files : {0, 1}, trees : Seq(Nat)]
        BY <2>1
      <3>2. x.trees = <<n>>
        OBVIOUS
      <3> HIDE DEF x
      <3>3. Len(x.trees) <= 1
        BY <2>1, <3>2
      <3>4. x \in Staged
        BY <3>1, <3>3 DEF Staged
      <3> QED BY <3>4 DEF x
    <2> QED BY <2>2, <2>3
  <1> QED BY <1>1, <1>2, <1>3 DEF StagedIsFine

BothAreFine(a, b) ==
    /\ Both(a, b) \in Leftovers
    /\ Both(a, b).files = a.files + b.files
    /\ Len(Both(a, b).trees) = Len(a.trees) + Len(b.trees)
LEMMA BothThings ==
  ASSUME NEW a \in Leftovers, NEW b \in Leftovers
  PROVE  BothAreFine(a, b)
  <1>1. a.files \in Nat /\ b.files \in Nat /\ a.trees \in Seq(Nat) /\ b.trees \in Seq(Nat)
    BY DEF Leftovers
  <1>2. a.trees \o b.trees \in Seq(Nat) /\ Len(a.trees \o b.trees) = Len(a.trees) + Len(b.trees)
    BY <1>1, ConcatProperties
  <1> QED BY <1>1, <1>2 DEF Both, Leftovers, BothAreFine

\* What a fault takes of the budget.
LEMMA FaultTaken ==
  ASSUME BudgetInv, mix' = mix, Spend("faults")
  PROVE  /\ budget' \in [changes : 0 .. mix.changes, cancels : 0 .. mix.cancels, faults : 0 .. mix.faults]
         /\ budget'.faults = budget.faults - 1 /\ budget'.changes = budget.changes
         /\ mix.faults \in Nat /\ budget.faults \in Nat
  BY DEF BudgetInv, Spend

\* A removal that fails leaves a file and a tree at most, and takes a fault.
LEMMA RemainsAreStaged ==
  ASSUME NEW s \in Staged, NEW left \in Remains(s)
  PROVE  left \in Staged
  <1>1. PICK f \in 0 .. s.files :
          \E t \in {<<>>} \cup {<<n>> : n \in 0 .. IF s.trees = <<>> THEN -1 ELSE s.trees[1]} :
             left = [files |-> f, trees |-> t]
    BY DEF Remains
  <1>2. PICK t \in {<<>>} \cup {<<n>> : n \in 0 .. IF s.trees = <<>> THEN -1 ELSE s.trees[1]} :
          left = [files |-> f, trees |-> t]
    BY <1>1
  <1>3. s.files \in {0, 1}
    BY DEF Staged
  <1>4. f \in {0, 1}
    BY <1>3
  <1>5. t \in Seq(Nat) /\ Len(t) <= 1
    <2>1. CASE t = <<>>
      BY <2>1
    <2>2. CASE t # <<>>
      <3>1. PICK n \in 0 .. IF s.trees = <<>> THEN -1 ELSE s.trees[1] : t = <<n>>
        BY <2>2
      <3>2. n \in Nat
        OBVIOUS
      <3> QED BY <3>1, <3>2
    <2> QED BY <2>1, <2>2
  <1> QED BY <1>2, <1>4, <1>5 DEF Staged

LEMMA LeavesKeeps ==
  ASSUME BudgetInv, mix' = mix, visited' = visited, NEW left \in Staged, Leaves(left)
  PROVE  BudgetInv' /\ budget'.changes = budget.changes
  <1>1. left \in Leftovers /\ residue \in Leftovers /\ residue' = Both(residue, left)
    BY StagedThings DEF StagedIsFine, BudgetInv, Leaves
  <1>2. BothAreFine(residue, left)
    BY <1>1, BothThings
  <1>3. /\ residue' \in Leftovers /\ residue'.files = residue.files + left.files
        /\ Len(residue'.trees) = Len(residue.trees) + Len(left.trees)
    BY <1>1, <1>2 DEF BothAreFine
  <1>4. /\ residue.files \in Nat /\ Len(residue.trees) \in Nat /\ left.files \in Nat /\ Len(left.trees) \in Nat
        /\ left.files <= 1 /\ Len(left.trees) <= 1
    BY <1>1 DEF Leftovers, Staged
  <1>5. CASE left = Nothing
    <2>1. left.files = 0 /\ Len(left.trees) = 0
      BY <1>5 DEF Nothing
    <2>2. budget' = budget
      BY <1>5 DEF Leaves
    <2> QED BY <1>3, <1>4, <2>1, <2>2 DEF BudgetInv, NothingLeftBehind
  <1>6. CASE left # Nothing
    <2>1. Spend("faults")
      BY <1>6 DEF Leaves
    <2>2. /\ budget' \in [changes : 0 .. mix.changes, cancels : 0 .. mix.cancels, faults : 0 .. mix.faults]
          /\ budget'.faults = budget.faults - 1 /\ budget'.changes = budget.changes
          /\ mix.faults \in Nat /\ budget.faults \in Nat
      BY <2>1, FaultTaken
    <2>3. residue.files <= mix.faults - budget.faults /\ Len(residue.trees) <= mix.faults - budget.faults
      BY DEF BudgetInv, NothingLeftBehind
    <2>4. residue'.files <= mix.faults - budget'.faults /\ Len(residue'.trees) <= mix.faults - budget'.faults
      <3> DEFINE a == residue'.files
                 d == Len(residue'.trees)
                 x == residue.files
                 y == Len(residue.trees)
                 m == mix.faults
                 b == budget.faults
                 c == budget'.faults
      <3>1. a \in Nat /\ d \in Nat /\ x \in Nat /\ y \in Nat /\ a <= x + 1 /\ d <= y + 1
        <4> DEFINE e == left.files
                   f == Len(left.trees)
        <4>1. a = x + e /\ d = y + f
          BY <1>3
        <4>2. x \in Nat /\ y \in Nat /\ e \in Nat /\ f \in Nat /\ e <= 1 /\ f <= 1
          BY <1>4
        <4> HIDE DEF a, d, x, y, e, f
        <4> QED BY ONLY <4>1, <4>2
      <3>2. m \in Nat /\ b \in Nat /\ c = b - 1 /\ x <= m - b /\ y <= m - b
        BY <2>2, <2>3
      <3> HIDE DEF a, d, x, y, m, b, c
      <3>3. a <= m - c /\ d <= m - c
        BY ONLY <3>1, <3>2
      <3> QED BY <3>3 DEF a, d, m, c
    <2>5. NothingLeftBehind'
      BY <2>4 DEF NothingLeftBehind
    <2>6. /\ mix' \in Mixes /\ mix'.changes \in Nat /\ mix'.cancels \in Nat /\ mix'.faults \in Nat /\ mix'.retained \in Nat
          /\ budget' \in [changes : 0 .. mix'.changes, cancels : 0 .. mix'.cancels, faults : 0 .. mix'.faults]
      BY <2>2 DEF BudgetInv
    <2>7. residue' \in Leftovers /\ visited' \in Nat \cup {-1}
      BY <1>3 DEF BudgetInv
    <2> QED BY <2>2, <2>5, <2>6, <2>7 DEF BudgetInv
  <1> QED BY <1>5, <1>6

\* The job j becomes q, at l, with m staged; nobody takes or leaves the lock,
\* and the share stays.
Becomes(j, q, l, m) ==
    /\ pc' = [pc EXCEPT ![j] = l] /\ job' = [job EXCEPT ![j] = q]
    /\ staging' = [staging EXCEPT ![j] = m]
    /\ UNCHANGED <<mix, source, shelf, up, visited, commit>> /\ budget'.changes = budget.changes
May(j, q, l, m) ==
    /\ q \in Job /\ l \in Labels /\ Fits(q, l) /\ m \in Staged
    /\ q.kind # "stream" /\ l # "commit" => commit = j
    /\ Steady /\ q.kind # "stream" /\ l \notin {"commit", "target"} => Usage + q.allowance <= Quota
    /\ m # Nothing => commit = j

LEMMA JobMoves ==
  ASSUME ArchivesInv, NEW j \in Jobs, NEW q, NEW l, NEW m, May(j, q, l, m), Becomes(j, q, l, m), BudgetInv'
  PROVE  ArchivesInv'
  <1>1. /\ \A k \in Jobs : /\ pc'[k] = IF k = j THEN l ELSE pc[k]
                           /\ job'[k] = IF k = j THEN q ELSE job[k]
                           /\ staging'[k] = IF k = j THEN m ELSE staging[k]
        /\ pc' \in [Jobs -> Labels] /\ job' \in [Jobs -> Job] /\ staging' \in [Jobs -> Staged]
    BY DEF ArchivesInv, JobsInv, LockInv, Becomes, May
  <1>2. JobsInv'
    <2>1. \A k \in Jobs : Fits(job'[k], pc'[k])
      BY <1>1 DEF ArchivesInv, JobsInv, May
    <2> QED BY <1>1, <2>1 DEF JobsInv
  <1>3. LockInv'
    BY <1>1 DEF ArchivesInv, LockInv, Becomes, May
  <1>4. Usage' = Usage /\ Steady' = Steady
    BY UsageStays DEF Becomes, Steady
  <1>5. QuotaInv'
    <2>1. \A k \in Jobs \ {j} : Measured(k)' = Measured(k) /\ job'[k] = job[k]
      BY <1>1 DEF Measured
    <2>2. Measured(j)' => q.kind # "stream" /\ l \notin {"commit", "target"}
      BY <1>1 DEF Measured
    <2>3. job'[j] = q
      BY <1>1
    <2> QED BY <1>4, <2>1, <2>2, <2>3 DEF ArchivesInv, QuotaInv, May
  <1>6. ShelfInv'
    BY DEF ArchivesInv, ShelfInv, Becomes
  <1> QED BY <1>2, <1>3, <1>5, <1>6 DEF ArchivesInv

\* A job goes on when it has what it had, and asks for no more of the quota.
LEMMA JobGoesOn ==
  ASSUME ArchivesInv, NEW j \in Jobs, pc[j] \notin {"idle", "commit", "target"}, up,
         NEW q \in Job, NEW l \in Labels, Fits(q, l), NEW m \in Staged, m # Nothing => staging[j] # Nothing \/ q.kind # "stream",
         q.kind = job[j].kind, q.allowance <= job[j].allowance,
         Becomes(j, q, l, m), residue' = residue, budget' = budget
  PROVE  ArchivesInv'
  <1>1. q.kind # "stream" => commit = j /\ Measured(j)
    BY DEF ArchivesInv, LockInv, Measured
  <1>2. q.allowance \in Nat /\ job[j].allowance \in Nat /\ Usage \in Nat /\ Quota \in Nat
    <2>1. job[j] \in Job
      BY DEF ArchivesInv, JobsInv
    <2>2. Usage \in Nat
      BY HoldingsAreNumbers DEF ArchivesInv
    <2> QED BY <2>1, <2>2, ArchivesAssumption DEF Job
  <1>3. Steady /\ q.kind # "stream" => Usage + q.allowance <= Quota
    <2> SUFFICES ASSUME Steady, q.kind # "stream" PROVE Usage + q.allowance <= Quota
      OBVIOUS
    <2>1. Usage + job[j].allowance <= Quota
      BY <1>1 DEF ArchivesInv, QuotaInv
    <2> QED BY <1>2, <2>1
  <1>4. m # Nothing => commit = j
    BY <1>1 DEF ArchivesInv, LockInv
  <1>5. May(j, q, l, m)
    BY <1>1, <1>3, <1>4 DEF May
  <1>6. BudgetInv'
    BY DEF ArchivesInv, BudgetInv, NothingLeftBehind, Becomes
  <1> QED BY <1>5, <1>6, JobMoves

\* A job that ends leaves the lock, and staging, to others.
LEMMA EndsKeeps ==
  ASSUME ArchivesInv, NEW j \in Jobs, Ends(j), UNCHANGED share
  PROVE  ArchivesInv'
  <1>1. /\ \A k \in Jobs : /\ pc'[k] = IF k = j THEN "idle" ELSE pc[k]
                           /\ job'[k] = IF k = j THEN NoJob ELSE job[k]
                           /\ staging'[k] = IF k = j THEN Nothing ELSE staging[k]
        /\ pc' \in [Jobs -> Labels] /\ job' \in [Jobs -> Job] /\ staging' \in [Jobs -> Staged]
    BY IdleFits, StagedThings DEF ArchivesInv, JobsInv, LockInv, Ends, Goto, NoJobIsFine, Labels, StagedIsFine
  <1>2. JobsInv'
    <2>1. \A k \in Jobs : Fits(job'[k], pc'[k])
      BY <1>1, IdleFits DEF ArchivesInv, JobsInv, NoJobIsFine
    <2> QED BY <1>1, <2>1 DEF JobsInv
  <1>3. commit' = IF commit = j THEN 0 ELSE commit
    BY DEF Ends
  <1>4. LockInv'
    <2>1. NoJob.kind = "stream"
      BY IdleFits DEF NoJobIsFine
    <2> QED BY <1>1, <1>3, <2>1 DEF ArchivesInv, LockInv, share
  <1>5. PICK left \in Remains(staging[j]) : Leaves(left)
    BY DEF Ends
  <1>6. BudgetInv' /\ budget'.changes = budget.changes
    <2>1. staging[j] \in Staged /\ mix' = mix /\ visited' = visited /\ BudgetInv
      BY DEF ArchivesInv, LockInv, share
    <2>2. left \in Staged
      BY <2>1, RemainsAreStaged
    <2> QED BY <1>5, <2>1, <2>2, LeavesKeeps
  <1>7. Usage' = Usage /\ Steady' = Steady
    <2> QED BY <1>6, UsageStays DEF Steady, share
  <1>8. QuotaInv'
    <2>1. \A k \in Jobs \ {j} : Measured(k)' = Measured(k) /\ job'[k] = job[k]
      BY <1>1 DEF Measured
    <2>2. ~Measured(j)'
      BY <1>1, IdleFits DEF Measured, NoJobIsFine
    <2> QED BY <1>7, <2>1, <2>2 DEF ArchivesInv, QuotaInv
  <1>9. ShelfInv'
    BY DEF ArchivesInv, ShelfInv, share
  <1> QED BY <1>2, <1>4, <1>6, <1>8, <1>9 DEF ArchivesInv

LEMMA StopsKeeps ==
  ASSUME ArchivesInv, NEW j \in Jobs, Stops(j) \/ Refuse(j)
  PROVE  ArchivesInv'
  BY EndsKeeps DEF Stops, Refuse

LEMMA AskKeeps ==
  ASSUME ArchivesInv, NEW j \in Jobs, NEW kind \in mix.kinds, NEW input \in Inputs, NEW target \in Names,
         Ask(j, kind, input, target)
  PROVE  ArchivesInv'
  <1> DEFINE q == [NoJob EXCEPT !.kind = kind, !.input = input, !.target = target]
             l == IF kind = "stream" THEN "walk" ELSE "commit"
             m == staging[j]
  <1>1. kind \in {"stream", "compress", "extract"} /\ input \in Seq(Entries) /\ target \in Nat
    BY ArchivesAssumption DEF ArchivesInv, BudgetInv
  <1>2. /\ q \in Job /\ q.kind = kind /\ q.target = target /\ q.charge = 0 /\ q.allowance = 0
        /\ q.out = <<>> /\ q.tree = {} /\ q.whole
    BY <1>1, IdleFits DEF NoJobIsFine, NoJob, Job
  <1>3. pc[j] = "idle" /\ job[j] = NoJob
    BY DEF Ask, At, ArchivesInv, JobsInv, Fits
  <1>4. Becomes(j, q, l, m)
    BY DEF Ask, Becomes, Goto, share, ArchivesInv, LockInv
  <1>5. m \in Staged /\ (m # Nothing => commit = j)
    BY DEF ArchivesInv, LockInv
  <1>6. BudgetInv'
    BY DEF Ask, share, ArchivesInv, BudgetInv, NothingLeftBehind
  <1> HIDE DEF q, m
  <1>7. Fits(q, l)
    BY <1>1, <1>2 DEF Fits
  <1>8. May(j, q, l, m)
    BY <1>1, <1>2, <1>5, <1>7 DEF May, Labels
  <1> HIDE DEF l
  <1> QED BY <1>4, <1>6, <1>8, JobMoves

LEMMA TakeCommitKeeps ==
  ASSUME ArchivesInv, NEW j \in Jobs, TakeCommit(j)
  PROVE  ArchivesInv'
  <1>1. CASE Ends(j) /\ UNCHANGED share
    BY <1>1, EndsKeeps
  <1>2. CASE commit = 0 /\ commit' = j /\ Goto(j, "target") /\ UNCHANGED <<share, job, staging, residue, budget>>
    <2>1. /\ \A k \in Jobs : pc'[k] = IF k = j THEN "target" ELSE pc[k]
          /\ pc' \in [Jobs -> Labels] /\ pc[j] = "commit" /\ up
      BY <1>2 DEF ArchivesInv, JobsInv, Goto, Labels, TakeCommit, At
    <2>2. JobsInv'
      <3>1. Fits(job[j], "target")
        BY <2>1 DEF ArchivesInv, JobsInv, Fits
      <3>2. \A k \in Jobs : Fits(job[k], pc'[k])
        BY <2>1, <3>1 DEF ArchivesInv, JobsInv
      <3> QED BY <1>2, <2>1, <3>2 DEF ArchivesInv, JobsInv
    <2>3. LockInv'
      <3>1. \A k \in Jobs : commit # k
        BY <1>2, ArchivesAssumption
      <3> QED BY <1>2, <2>1, <3>1 DEF ArchivesInv, LockInv, share
    <2>4. QuotaInv'
      <3>1. Usage' = Usage /\ Steady' = Steady
        BY <1>2, UsageStays DEF Steady, share
      <3>2. \A k \in Jobs : Measured(k)' => Measured(k)
        BY <1>2, <2>1 DEF Measured
      <3> QED BY <1>2, <3>1, <3>2 DEF ArchivesInv, QuotaInv
    <2>5. ShelfInv' /\ BudgetInv'
      BY <1>2 DEF ArchivesInv, ShelfInv, BudgetInv, NothingLeftBehind, share
    <2> QED BY <2>2, <2>3, <2>4, <2>5 DEF ArchivesInv
  <1> QED BY <1>1, <1>2 DEF TakeCommit

LEMMA LeastFree ==
  ASSUME Free # {}
  PROVE  Min(Free) \in Names
  <1> DEFINE id == [n \in Free |-> n]
  <1>1. Free \subseteq Names /\ Names \subseteq Nat
    BY ArchivesAssumption DEF Free
  <1>2. id \in [Free -> Nat]
    BY <1>1
  <1>3. PICK n \in Free : \A m \in Free : id[n] <= id[m]
    <2> HIDE DEF id
    <2> QED BY <1>2, LeastIndexed
  <1>4. \A m \in Free : n <= m
    BY <1>3
  <1>5. Min(Free) \in Free
    BY <1>4 DEF Min
  <1> QED BY <1>1, <1>5

LEMMA TargetKeeps ==
  ASSUME ArchivesInv, NEW j \in Jobs, Target(j)
  PROVE  ArchivesInv'
  <1>1. CASE Stops(j) \/ Refuse(j)
    BY <1>1, StopsKeeps
  <1>2. CASE ~(Stops(j) \/ Refuse(j))
    <2> DEFINE p == job[j]
               t == IF p.kind = "extract" THEN Min(Free) ELSE p.target
               q == [p EXCEPT !.target = t, !.allowance = Quota - Usage]
               l == IF p.kind = "extract" THEN "begin" ELSE "walk"
               m == staging[j]
    <2>1. /\ pc[j] = "target" /\ (p.kind = "extract" => Free # {}) /\ Usage <= Quota
          /\ Goto(j, l) /\ UNCHANGED <<share, commit, staging, residue, budget>>
          /\ job' = [job EXCEPT ![j].target = t, ![j].allowance = Quota - Usage]
      BY <1>2 DEF Target, At, Goes
    <2>2. p \in Job /\ Fits(p, "target") /\ commit \in Jobs \cup {0}
      BY <2>1 DEF ArchivesInv, JobsInv, LockInv
    <2>3. Usage \in Nat /\ Quota \in Nat /\ Quota - Usage \in Nat
      <3>1. Usage \in Nat /\ Quota \in Nat
        BY HoldingsAreNumbers, ArchivesAssumption DEF ArchivesInv
      <3> QED BY <2>1, <3>1
    <2>4. t \in Nat /\ (p.kind = "extract" => t \in Names)
      BY <2>1, <2>2, LeastFree, ArchivesAssumption DEF Job
    <2>5. Becomes(j, q, l, m)
      BY <2>1 DEF Becomes, Goto, share, ArchivesInv, LockInv, JobsInv
    <2>6. p.kind # "stream" => commit = j
      BY <2>1 DEF ArchivesInv, LockInv
    <2>7. m \in Staged /\ (m # Nothing => commit = j)
      BY DEF ArchivesInv, LockInv
    <2>8. BudgetInv'
      BY <2>1 DEF share, ArchivesInv, BudgetInv, NothingLeftBehind
    <2> HIDE DEF p, t, m
    <2>9. /\ q \in Job /\ q.kind = p.kind /\ q.target = t /\ q.allowance = Quota - Usage
          /\ q.charge = p.charge /\ q.out = p.out /\ q.tree = p.tree /\ q.whole = p.whole
      BY <2>2, <2>3, <2>4 DEF Job
    <2> HIDE DEF q
    <2>10. Fits(q, l)
      <3>1. p.kind \in {"compress", "extract"} /\ p.charge = 0 /\ p.whole /\ p.out = <<>> /\ p.tree = {}
            /\ (p.kind = "compress" => p.target \in Names)
        BY <2>2 DEF Fits, Job
      <3>2. q.charge <= q.allowance
        BY <2>3, <2>9, <3>1
      <3>3. CASE p.kind = "compress"
        <4>1. t \in Names
          BY <3>1, <3>3 DEF t
        <4> QED BY <2>9, <3>1, <3>2, <3>3, <4>1 DEF Fits
      <3>4. CASE p.kind = "extract"
        BY <2>4, <2>9, <3>1, <3>2, <3>4 DEF Fits
      <3> QED BY <3>1, <3>3, <3>4
    <2>11. Usage + q.allowance <= Quota
      BY <2>3, <2>9
    <2>12. May(j, q, l, m)
      BY <2>6, <2>7, <2>9, <2>10, <2>11 DEF May, Labels
    <2> HIDE DEF l
    <2> QED BY <2>5, <2>8, <2>12, JobMoves
  <1> QED BY <1>1, <1>2

\* What a job that is beyond the lock has, in the form that JobGoesOn asks for.
LEMMA AtWork ==
  ASSUME ArchivesInv, NEW j \in Jobs
  PROVE  /\ job[j] \in Job /\ Fits(job[j], pc[j]) /\ staging[j] \in Staged /\ pc[j] \in Labels
         /\ job = [k \in Jobs |-> job[k]] /\ pc = [k \in Jobs |-> pc[k]] /\ staging = [k \in Jobs |-> staging[k]]
  BY DEF ArchivesInv, JobsInv, LockInv

LEMMA WalkKeeps ==
  ASSUME ArchivesInv, NEW j \in Jobs, Walk(j)
  PROVE  ArchivesInv'
  <1> DEFINE p == job[j]
             n == p.at
             length == IF n <= Len(Sources) THEN source[Sources[n]] ELSE -1
  <1>1. pc[j] = "walk" /\ up
    BY DEF Walk, At
  <1>2. p \in Job /\ Fits(p, "walk") /\ n \in Nat \ {0} /\ p.kind \in {"stream", "compress"} /\ p.allowance \in Nat
        /\ p.items \in Seq(Items) /\ p.out = <<>>
    BY <1>1, AtWork DEF Job, Fits
  <1>3. CASE Stops(j) \/ Refuse(j)
    BY <1>3, StopsKeeps
  <1>4. CASE /\ n > Len(Sources)
             /\ Goto(j, "open") /\ job' = [job EXCEPT ![j].at = 1]
             /\ staging' = [staging EXCEPT ![j] = IF job[j].kind = "compress" THEN File ELSE Nothing]
             /\ Goes(j) /\ UNCHANGED commit
    <2> DEFINE q == [p EXCEPT !.at = 1]
               m == IF p.kind = "compress" THEN File ELSE Nothing
    <2>1. Becomes(j, q, "open", m) /\ residue' = residue /\ budget' = budget
      BY <1>4, AtWork DEF Becomes, Goto, Goes, share
    <2> HIDE DEF p
    <2>2. /\ q \in Job /\ q.kind = p.kind /\ q.items = p.items /\ q.out = p.out /\ q.at = 1 /\ q.charge = p.charge
          /\ q.allowance = p.allowance /\ q.whole = p.whole /\ q.target = p.target
      <3>1. 1 \in Nat \ {0} /\ p \in Job
        BY <1>2
      <3> QED BY <3>1 DEF Job
    <2> HIDE DEF q
    <2>3. Len(q.items) \in Nat /\ SubSeq(q.items, 1, 0) = <<>>
      BY <1>2, <2>2, LenProperties, SubSeqEmpty
    <2>4. Fits(q, "open")
      BY <1>2, <2>2, <2>3 DEF Fits
    <2>5. m \in Staged /\ (m # Nothing => q.kind # "stream")
      BY <2>2, StagedThings DEF StagedIsFine
    <2>6. "open" \in Labels /\ q.allowance <= p.allowance
      BY <1>2, <2>2 DEF Labels
    <2> HIDE DEF m
    <2> QED BY <1>1, <2>1, <2>2, <2>4, <2>5, <2>6, JobGoesOn DEF p
  <1>5. ASSUME NEW items \in Seq(Items), job' = [job EXCEPT ![j].at = n + 1, ![j].items = items],
               Goes(j), UNCHANGED <<commit, pc, staging>>
        PROVE  ArchivesInv'
    <2> DEFINE q == [p EXCEPT !.at = n + 1, !.items = items]
               m == staging[j]
    <2>1. Becomes(j, q, "walk", m) /\ residue' = residue /\ budget' = budget
      BY <1>1, <1>5, AtWork DEF Becomes, Goes, share
    <2> HIDE DEF p
    <2>2. /\ q \in Job /\ q.kind = p.kind /\ q.out = p.out /\ q.charge = p.charge /\ q.tree = p.tree
          /\ q.allowance = p.allowance /\ q.whole = p.whole /\ q.target = p.target
      <3>1. n + 1 \in Nat \ {0} /\ p \in Job
        BY <1>2
      <3> QED BY <1>5, <3>1 DEF Job
    <2> HIDE DEF q
    <2>3. Fits(q, "walk")
      BY <1>2, <2>2 DEF Fits
    <2>4. m \in Staged /\ "walk" \in Labels /\ q.allowance <= p.allowance
      BY <1>2, <2>2, AtWork DEF Labels
    <2>5. m # Nothing => staging[j] # Nothing
      OBVIOUS
    <2> HIDE DEF m
    <2> QED BY <1>1, <2>1, <2>2, <2>3, <2>4, <2>5, JobGoesOn DEF p
  <1>6. CASE job' = [job EXCEPT ![j].at = n + 1] /\ Goes(j) /\ UNCHANGED <<commit, pc, staging>>
    <2>1. job' = [job EXCEPT ![j].at = n + 1, ![j].items = p.items]
      BY <1>2, <1>6, AtWork DEF Job
    <2> QED BY <1>2, <1>5, <1>6, <2>1
  <1>7. CASE /\ n <= Len(Sources) /\ length # -1
             /\ job' = [job EXCEPT ![j].at = n + 1, ![j].items = Append(@, [name |-> Sources[n], len |-> length])]
             /\ Goes(j) /\ UNCHANGED <<commit, pc, staging>>
    <2> DEFINE items == Append(p.items, [name |-> Sources[n], len |-> length])
    <2>1. Sources[n] \in Range(Sources) /\ length \in Nat
      <3>1. Sources \in Seq(STRING) /\ n \in 1 .. Len(Sources)
        BY <1>2, <1>7, ArchivesAssumption, LenProperties
      <3>2. Sources[n] \in Range(Sources)
        BY <3>1, RangeEquality
      <3>3. source[Sources[n]] \in Nat \cup {-1}
        BY <3>2 DEF ArchivesInv, ShelfInv
      <3> QED BY <1>7, <3>2, <3>3
    <2>2. items \in Seq(Items)
      <3>1. [name |-> Sources[n], len |-> length] \in Items
        BY <2>1 DEF Items
      <3> QED BY <1>2, <3>1, AppendProperties
    <2>3. job' = [job EXCEPT ![j].at = n + 1, ![j].items = items]
      BY <1>7
    <2> QED BY <1>5, <1>7, <2>2, <2>3
  <1> QED BY <1>3, <1>4, <1>6, <1>7 DEF Walk

LEMMA OpenKeeps ==
  ASSUME ArchivesInv, NEW j \in Jobs, Open(j)
  PROVE  ArchivesInv'
  <1> DEFINE p == job[j]
             m == staging[j]
  <1>1. pc[j] = "open" /\ up /\ p.at <= Len(p.items)
    BY DEF Open, At
  <1>2. CASE Stops(j) \/ Refuse(j)
    BY <1>2, StopsKeeps
  <1>3. CASE Goto(j, "copy") /\ Goes(j) /\ UNCHANGED <<commit, job, staging>>
    <2>1. p \in Job /\ Fits(p, "open") /\ m \in Staged /\ p.allowance \in Nat
      BY <1>1, AtWork DEF Job
    <2>2. Becomes(j, p, "copy", m) /\ residue' = residue /\ budget' = budget
      BY <1>3, AtWork DEF Becomes, Goto, Goes, share
    <2>3. Fits(p, "copy")
      <3> HIDE DEF p
      <3> QED BY <1>1, <2>1 DEF Fits
    <2>4. "copy" \in Labels /\ p.allowance <= p.allowance /\ (m # Nothing => staging[j] # Nothing)
      BY <2>1 DEF Labels
    <2> QED BY <1>1, <2>1, <2>2, <2>3, <2>4, JobGoesOn
  <1> QED BY <1>2, <1>3 DEF Open

LEMMA CopyKeeps ==
  ASSUME ArchivesInv, NEW j \in Jobs, Copy(j)
  PROVE  ArchivesInv'
  <1> DEFINE p == job[j]
             m == staging[j]
             item == p.items[p.at]
             fits == p.kind = "compress" => p.charge + item.len <= p.allowance
             q == [p EXCEPT !.at = @ + 1, !.charge = @ + item.len, !.out = Append(@, item)]
  <1>1. pc[j] = "copy" /\ up
    BY DEF Copy, At
  <1>2. CASE Stops(j) \/ Refuse(j)
    BY <1>2, StopsKeeps
  <1>3. CASE /\ fits
             /\ Goto(j, "open") /\ job' = [job EXCEPT ![j].at = @ + 1, ![j].charge = @ + item.len,
                                   ![j].out = Append(@, item)]
             /\ Goes(j) /\ UNCHANGED <<commit, staging>>
    <2>1. /\ p \in Job /\ Fits(p, "copy") /\ m \in Staged /\ p.allowance \in Nat /\ p.charge \in Nat
          /\ p.items \in Seq(Items) /\ p.out \in Seq(Items) /\ p.at \in Nat \ {0}
      BY <1>1, AtWork DEF Job
    <2>2. Becomes(j, q, "open", m) /\ residue' = residue /\ budget' = budget
      BY <1>3, AtWork DEF Becomes, Goto, Goes, share
    <2>3. p.at \in 1 .. Len(p.items) /\ Len(p.items) \in Nat /\ p.out = SubSeq(p.items, 1, p.at - 1)
      BY <2>1, LenProperties DEF Fits
    <2> HIDE DEF p
    <2>4. item \in Items /\ SubSeq(p.items, 1, p.at) = Append(p.out, item)
      <3>1. item \in Items /\ SubSeq(p.items, 1, p.at) = Append(SubSeq(p.items, 1, p.at - 1), item)
        <4>1. p.items \in Seq(Items) /\ p.at \in 1 .. Len(p.items)
          BY <2>1, <2>3
        <4> QED BY <4>1, OneMore
      <3> QED BY <2>3, <3>1
    <2>5. item.len \in Nat /\ Append(p.out, item) \in Seq(Items)
      BY <2>1, <2>4, AppendProperties DEF Items
    <2> HIDE DEF item
    <2>6. /\ q \in Job /\ q.kind = p.kind /\ q.items = p.items /\ q.out = Append(p.out, item) /\ q.at = p.at + 1
          /\ q.charge = p.charge + item.len /\ q.allowance = p.allowance /\ q.whole = p.whole /\ q.target = p.target
      <3>1. p.at + 1 \in Nat \ {0} /\ p.charge + item.len \in Nat /\ p \in Job
        <4>1. p.at \in Nat /\ p.charge \in Nat /\ item.len \in Nat
          BY <2>1, <2>5
        <4>2. p.at + 1 \in Nat \ {0}
          BY <4>1
        <4>3. p.charge + item.len \in Nat
          BY <4>1
        <4> QED BY <2>1, <4>2, <4>3
      <3> QED BY <2>5, <3>1 DEF Job
    <2> HIDE DEF q
    <2>7. q.at <= Len(q.items) + 1 /\ q.at - 1 = p.at
      <3>1. p.at <= Len(p.items) /\ p.at \in Nat /\ Len(p.items) \in Nat
        BY <2>1, <2>3
      <3> QED BY <2>6, <3>1
    <2>8. q.out = SubSeq(q.items, 1, q.at - 1)
      BY <2>4, <2>6, <2>7
    <2>9. q.kind \in {"stream", "compress"} /\ (q.kind # "stream" => q.charge <= q.allowance)
      BY <1>3, <2>1, <2>6 DEF Fits, Job
    <2>10. Fits(q, "open")
      BY <2>1, <2>6, <2>7, <2>8, <2>9 DEF Fits
    <2>11. "open" \in Labels /\ q.allowance <= p.allowance /\ (m # Nothing => staging[j] # Nothing)
      BY <2>1, <2>6 DEF Labels
    <2> HIDE DEF m, fits
    <2> QED BY <1>1, <2>1, <2>2, <2>6, <2>10, <2>11, JobGoesOn DEF p
  <1> QED BY <1>2, <1>3 DEF Copy

LEMMA FinishArchiveKeeps ==
  ASSUME ArchivesInv, NEW j \in Jobs, FinishArchive(j)
  PROVE  ArchivesInv'
  <1> DEFINE p == job[j]
             m == staging[j]
             l == IF p.kind = "stream" THEN "sent" ELSE "publish"
  <1>1. pc[j] = "open" /\ up /\ p.at > Len(p.items)
    BY DEF FinishArchive, At
  <1>2. CASE Stops(j)
    BY <1>2, StopsKeeps
  <1>3. CASE Goto(j, l) /\ Goes(j) /\ UNCHANGED <<commit, job, staging>>
    <2>1. p \in Job /\ Fits(p, "open") /\ m \in Staged /\ p.allowance \in Nat /\ p.items \in Seq(Items) /\ p.at \in Nat
      BY <1>1, AtWork DEF Job
    <2>2. Becomes(j, p, l, m) /\ residue' = residue /\ budget' = budget
      BY <1>3, AtWork DEF Becomes, Goto, Goes, share
    <2>3. p.out = p.items
      <3>1. p.out = SubSeq(p.items, 1, p.at - 1) /\ p.at <= Len(p.items) + 1 /\ Len(p.items) \in Nat
        BY <2>1, LenProperties DEF Fits
      <3>2. p.at - 1 = Len(p.items)
        BY <1>1, <2>1, <3>1
      <3> QED BY <2>1, <3>1, <3>2, SubSeqFull
    <2>4. Fits(p, l)
      <3> HIDE DEF p
      <3> QED BY <2>1, <2>3 DEF Fits, Job
    <2>5. l \in Labels /\ p.allowance <= p.allowance /\ (m # Nothing => staging[j] # Nothing)
      BY <2>1 DEF Labels
    <2> HIDE DEF l
    <2> QED BY <1>1, <2>1, <2>2, <2>4, <2>5, JobGoesOn
  <1> QED BY <1>2, <1>3 DEF FinishArchive

LEMMA EmptyTree ==
  /\ ChargeOf({}) = 0 /\ Tree({}) /\ \A s : Listed({}) = Contents(SubSeq(s, 1, 0))
  <1>1. ChargeOf({}) = 0
    BY ChargeIs, SumEmpty
  <1>2. Tree({})
    BY FS_EmptySet DEF Tree
  <1>3. \A s : SubSeq(s, 1, 0) = <<>>
    BY SubSeqEmpty
  <1>4. Named(<<>>) = {}
    BY DEF Named, Range
  <1>5. Contents(<<>>) = {}
    BY <1>4, ContentsAreSaid DEF Said
  <1> QED BY <1>1, <1>2, <1>3, <1>5 DEF Listed

LEMMA BeginSnapshotKeeps ==
  ASSUME ArchivesInv, NEW j \in Jobs, BeginSnapshot(j)
  PROVE  ArchivesInv'
  <1> DEFINE p == job[j]
  <1>1. pc[j] = "begin" /\ up
    BY DEF BeginSnapshot, At
  <1>2. CASE Stops(j) \/ Refuse(j)
    BY <1>2, StopsKeeps
  <1>3. CASE /\ Goto(j, "snapshot") /\ staging' = [staging EXCEPT ![j] = File]
             /\ Goes(j) /\ UNCHANGED <<commit, job>>
    <2>1. p \in Job /\ Fits(p, "begin") /\ p.allowance \in Nat
      BY <1>1, AtWork DEF Job
    <2>2. Becomes(j, p, "snapshot", File) /\ residue' = residue /\ budget' = budget
      BY <1>3, AtWork DEF Becomes, Goto, Goes, share
    <2>3. Fits(p, "snapshot") /\ p.kind # "stream"
      <3> HIDE DEF p
      <3> QED BY <2>1 DEF Fits, Job
    <2>4. "snapshot" \in Labels /\ p.allowance <= p.allowance /\ File \in Staged
      BY <2>1, StagedThings DEF Labels, StagedIsFine
    <2> QED BY <1>1, <2>1, <2>2, <2>3, <2>4, JobGoesOn
  <1> QED BY <1>2, <1>3 DEF BeginSnapshot

LEMMA SnapshotKeeps ==
  ASSUME ArchivesInv, NEW j \in Jobs, Snapshot(j)
  PROVE  ArchivesInv'
  <1> DEFINE p == job[j]
             q == [p EXCEPT !.at = 1, !.charge = DirCharge, !.allowance = @ - SnapshotLen]
             m == Both(File, TreeOf(0))
  <1>1. pc[j] = "snapshot" /\ up
    BY DEF Snapshot, At
  <1>2. CASE Stops(j) \/ Refuse(j)
    BY <1>2, StopsKeeps
  <1>3. CASE /\ SnapshotLen + DirCharge <= p.allowance
             /\ Goto(j, "entry") /\ job' = [job EXCEPT ![j].at = 1, ![j].charge = DirCharge,
                                    ![j].allowance = @ - SnapshotLen]
             /\ staging' = [staging EXCEPT ![j] = Both(File, TreeOf(0))]
             /\ Goes(j) /\ UNCHANGED commit
    <2>1. p \in Job /\ Fits(p, "snapshot") /\ p.allowance \in Nat /\ p.input \in Seq(Entries)
      BY <1>1, AtWork DEF Job
    <2>2. Becomes(j, q, "entry", m) /\ residue' = residue /\ budget' = budget
      BY <1>3, AtWork DEF Becomes, Goto, Goes, share
    <2>3. SnapshotLen \in Nat /\ DirCharge \in Nat
      BY ArchivesAssumption
    <2> HIDE DEF p
    <2>4. /\ p.allowance - SnapshotLen \in Nat /\ p.allowance - SnapshotLen <= p.allowance
          /\ DirCharge <= p.allowance - SnapshotLen
      BY <1>3, <2>1, <2>3
    <2>5. /\ q \in Job /\ q.kind = p.kind /\ q.at = 1 /\ q.charge = DirCharge /\ q.whole = p.whole
          /\ q.tree = p.tree /\ q.input = p.input /\ q.target = p.target /\ q.allowance = p.allowance - SnapshotLen
      <3>1. 1 \in Nat \ {0} /\ p \in Job
        BY <2>1
      <3> QED BY <2>3, <2>4, <3>1 DEF Job
    <2> HIDE DEF q
    <2>6. q.kind = "extract" /\ q.tree = {} /\ q.whole /\ q.target \in Names
      BY <2>1, <2>5 DEF Fits, Job
    <2>7. q.at <= Len(q.input) + 1 /\ q.at - 1 = 0
      <3>1. Len(p.input) \in Nat
        BY <2>1, LenProperties
      <3> QED BY <2>5, <3>1
    <2>8. Listed(q.tree) = Contents(SubSeq(q.input, 1, q.at - 1))
      BY <2>6, <2>7, EmptyTree
    <2>9. q.charge = DirCharge + ChargeOf(q.tree) /\ q.charge <= q.allowance
      <3>1. ChargeOf(q.tree) = 0
        BY <2>6, EmptyTree
      <3> QED BY <2>3, <2>4, <2>5, <3>1
    <2>10. IsFiniteSet(q.tree) /\ \A e \in q.tree : e.kind = "directory" => e.size = 0
      BY <2>6, EmptyTree DEF Tree
    <2>11. Fits(q, "entry")
      BY <2>6, <2>7, <2>8, <2>9, <2>10 DEF Fits
    <2>12. "entry" \in Labels /\ q.allowance <= p.allowance /\ (m # Nothing => q.kind # "stream")
      BY <2>4, <2>5, <2>6 DEF Labels
    <2>13. m \in Staged
      BY StagedThings DEF StagedIsFine
    <2> HIDE DEF m
    <2> QED BY <1>1, <2>2, <2>5, <2>11, <2>12, <2>13, JobGoesOn DEF p
  <1> QED BY <1>2, <1>3 DEF Snapshot

LEMMA ExtractEntryKeeps ==
  ASSUME ArchivesInv, NEW j \in Jobs, ExtractEntry(j)
  PROVE  ArchivesInv'
  <1> DEFINE p == job[j]
             n == p.at
             e == p.input[n]
             tree == Written(p.tree, e)
             new == NewFolders(p.tree, e)
             said == Contents(SubSeq(p.input, 1, n))
  <1>1. pc[j] = "entry" /\ up /\ n <= Len(p.input)
    BY DEF ExtractEntry, At
  <1>2. CASE Stops(j) \/ Refuse(j)
    BY <1>2, StopsKeeps
  <1>3. /\ p \in Job /\ Fits(p, "entry") /\ p.allowance \in Nat /\ p.input \in Seq(Entries) /\ n \in Nat \ {0}
        /\ p.bytes \in Nat /\ p.charge \in Nat /\ p.tree \in SUBSET Nodes
    BY <1>1, AtWork DEF Job
  <1> HIDE DEF p
  <1>4. n \in 1 .. Len(p.input) /\ Len(p.input) \in Nat
    BY <1>1, <1>3, LenProperties
  <1>5. e \in Entries
    BY <1>3, <1>4, OneMore
  <1>6. Tree(p.tree) /\ p.charge = DirCharge + ChargeOf(p.tree) /\ p.kind = "extract" /\ p.target \in Names /\ p.whole
        /\ Listed(p.tree) = Contents(SubSeq(p.input, 1, n - 1)) /\ p.charge <= p.allowance
    BY <1>3 DEF Fits, Tree, Job
  <1>7. n + 1 \in Nat \ {0} /\ n + 1 - 1 = n /\ n + 1 <= Len(p.input) + 1 /\ DirCharge \in Nat
    BY <1>3, <1>4, ArchivesAssumption
  <1>10. said = Contents(SubSeq(p.input, 1, n - 1)) \cup IF e.path = <<>> THEN {} ELSE Adds(e)
    <2>1. p.input \in Seq(Entries) /\ n \in 1 .. Len(p.input)
      BY <1>3, <1>4
    <2> HIDE DEF n
    <2> QED BY <2>1, ContentsGrow
  <1>8. CASE e.path = <<>> /\ job' = [job EXCEPT ![j].at = @ + 1] /\ Goes(j) /\ UNCHANGED <<commit, pc, staging>>
    <2> DEFINE q == [p EXCEPT !.at = n + 1]
               m == staging[j]
    <2>1. Becomes(j, q, "entry", m) /\ residue' = residue /\ budget' = budget
      BY <1>1, <1>8, AtWork DEF Becomes, Goes, share, p
    <2>2. said = Contents(SubSeq(p.input, 1, n - 1))
      BY <1>8, <1>10
    <2> HIDE DEF said, e
    <2>3. /\ q \in Job /\ q.kind = p.kind /\ q.at = n + 1 /\ q.charge = p.charge /\ q.whole = p.whole /\ q.tree = p.tree
          /\ q.input = p.input /\ q.target = p.target /\ q.allowance = p.allowance
      BY <1>3, <1>7 DEF Job
    <2> HIDE DEF q
    <2>4. Listed(q.tree) = Contents(SubSeq(q.input, 1, q.at - 1)) /\ q.at <= Len(q.input) + 1
      <3>1. q.at - 1 = n /\ q.input = p.input /\ q.tree = p.tree
        <4>1. n \in Nat /\ q.at = n + 1
          BY <1>3, <2>3
        <4> HIDE DEF n
        <4>2. q.at - 1 = n
          BY <4>1
        <4> QED BY <2>3, <4>2
      <3>2. Listed(p.tree) = said
        BY <1>6, <2>2
      <3>3. q.at <= Len(q.input) + 1
        BY <1>7, <2>3
      <3> QED BY <3>1, <3>2, <3>3 DEF said
    <2>5. Fits(q, "entry")
      BY <1>6, <2>3, <2>4 DEF Fits, Tree
    <2>6. "entry" \in Labels /\ q.allowance <= p.allowance /\ m \in Staged /\ (m # Nothing => staging[j] # Nothing)
      BY <1>3, <2>3, AtWork DEF Labels
    <2> HIDE DEF m
    <2> QED BY <1>1, <2>1, <2>3, <2>5, <2>6, JobGoesOn DEF p
  <1>9. CASE /\ e.path # <<>> /\ Admits(j, e)
             /\ job' = [job EXCEPT ![j].at = @ + 1, ![j].tree = tree,
                           ![j].bytes = @ + e.actual, ![j].charge = DirCharge + ChargeOf(tree)]
             /\ staging' = [staging EXCEPT ![j] = Both(File, TreeOf(Cardinality(tree)))]
             /\ Goes(j) /\ UNCHANGED <<commit, pc>>
    <2> DEFINE q == [p EXCEPT !.at = n + 1, !.tree = tree, !.bytes = @ + e.actual, !.charge = DirCharge + ChargeOf(tree)]
               m == Both(File, TreeOf(Cardinality(tree)))
    <2>1. Becomes(j, q, "entry", m) /\ residue' = residue /\ budget' = budget
      BY <1>1, <1>9, AtWork DEF Becomes, Goes, share, p
    <2>2. Fine(p.tree, e) /\ p.charge + DirCharge * Cardinality(new) + e.actual <= p.allowance
      BY <1>5, <1>9 DEF Admits, Fine, p
    <2>3. said = Contents(SubSeq(p.input, 1, n - 1)) \cup Adds(e)
      BY <1>9, <1>10
    <2> HIDE DEF said, e
    <2>4. Tree(tree) /\ Listed(tree) = said
      BY <1>6, <2>2, <2>3, WrittenIsATree, WrittenIsListed
    <2>5. /\ Cardinality(new) \in Nat /\ Cardinality(tree) \in Nat
          /\ ChargeOf(p.tree) \in Nat /\ ChargeOf(tree) \in Nat
          /\ ChargeOf(tree) <= ChargeOf(p.tree) + DirCharge * Cardinality(new) + e.actual
      BY <1>6, <2>2, WrittenIsCharged
    <2>6. e.actual \in Nat
      BY <1>5 DEF Entries
    <2>7. DirCharge + ChargeOf(tree) \in Nat /\ DirCharge + ChargeOf(tree) <= p.allowance
      <3> DEFINE a == DirCharge * Cardinality(new)
                 b == ChargeOf(tree)
                 c == ChargeOf(p.tree)
      <3>1. a \in Nat
        BY <1>7, <2>5
      <3>2. p.charge = DirCharge + c /\ p.charge + a + e.actual <= p.allowance /\ b <= c + a + e.actual /\ b \in Nat /\ c \in Nat
        BY <1>6, <2>2, <2>5
      <3> HIDE DEF a, b, c
      <3>3. DirCharge + b \in Nat /\ DirCharge + b <= p.allowance
        <4>1. p.charge \in Nat /\ p.allowance \in Nat /\ DirCharge \in Nat /\ e.actual \in Nat
          BY <1>3, <1>7, <2>6
        <4> QED BY <3>1, <3>2, <4>1
      <3> QED BY <3>3 DEF b
    <2>8. p.bytes + e.actual \in Nat /\ tree \in SUBSET Nodes /\ m \in Staged
      <3>1. p.bytes + e.actual \in Nat
        BY <1>3, <2>6
      <3>2. m \in Staged
        BY <2>5, StagedThings DEF StagedIsFine
      <3> QED BY <2>4, <3>1, <3>2 DEF Tree
    <2> HIDE DEF tree, m
    <2>9. /\ q \in Job /\ q.kind = p.kind /\ q.at = n + 1 /\ q.charge = DirCharge + ChargeOf(tree)
          /\ q.whole = p.whole /\ q.tree = tree
          /\ q.input = p.input /\ q.target = p.target /\ q.allowance = p.allowance
      <3>1. p \in Job /\ n + 1 \in Nat \ {0}
        BY <1>3, <1>7
      <3> QED BY <2>7, <2>8, <3>1 DEF Job
    <2> HIDE DEF q
    <2>10. Listed(q.tree) = Contents(SubSeq(q.input, 1, q.at - 1)) /\ q.at <= Len(q.input) + 1
      <3>1. q.at - 1 = n /\ q.input = p.input /\ q.tree = tree
        <4>1. n \in Nat /\ q.at = n + 1
          BY <1>3, <2>9
        <4> HIDE DEF n
        <4>2. q.at - 1 = n
          BY <4>1
        <4> QED BY <2>9, <4>2
      <3>2. q.at <= Len(q.input) + 1
        BY <1>7, <2>9
      <3> QED BY <2>4, <3>1, <3>2 DEF said
    <2>11. Fits(q, "entry")
      BY <1>6, <2>4, <2>7, <2>9, <2>10 DEF Fits, Tree
    <2>12. "entry" \in Labels /\ q.allowance <= p.allowance /\ (m # Nothing => q.kind # "stream")
      BY <1>3, <1>6, <2>9 DEF Labels
    <2> QED BY <1>1, <2>1, <2>8, <2>9, <2>11, <2>12, JobGoesOn DEF p
  <1> QED BY <1>2, <1>8, <1>9 DEF ExtractEntry, p

LEMMA EndExtractionKeeps ==
  ASSUME ArchivesInv, NEW j \in Jobs, EndExtraction(j)
  PROVE  ArchivesInv'
  <1> DEFINE p == job[j]
             m == TreeOf(Cardinality(p.tree))
  <1>1. pc[j] = "entry" /\ up /\ p.at > Len(p.input)
    BY DEF EndExtraction, At
  <1>2. CASE Stops(j)
    BY <1>2, StopsKeeps
  <1>3. CASE /\ Goto(j, "publish")
             /\ staging' = [staging EXCEPT ![j] = TreeOf(Cardinality(job[j].tree))]
             /\ \E left \in Remains(File) : Leaves(left)
             /\ UNCHANGED <<share, commit, job>>
    <2>1. p \in Job /\ Fits(p, "entry") /\ p.allowance \in Nat /\ p.input \in Seq(Entries) /\ p.at \in Nat
      BY <1>1, AtWork DEF Job
    <2>2. BudgetInv' /\ budget'.changes = budget.changes
      <3>1. PICK left \in Remains(File) : Leaves(left)
        BY <1>3
      <3>2. left \in Staged
        BY <3>1, StagedThings, RemainsAreStaged DEF StagedIsFine
      <3> QED BY <1>3, <3>1, <3>2, LeavesKeeps DEF ArchivesInv, share
    <2>6. Becomes(j, p, "publish", m)
      BY <1>3, <2>2, AtWork DEF Becomes, Goto, share
    <2>3. Listed(p.tree) = Contents(p.input)
      <3>1. p.at <= Len(p.input) + 1 /\ Len(p.input) \in Nat /\ Listed(p.tree) = Contents(SubSeq(p.input, 1, p.at - 1))
        BY <2>1, LenProperties DEF Fits
      <3>2. p.at - 1 = Len(p.input)
        BY <1>1, <2>1, <3>1
      <3> QED BY <2>1, <3>1, <3>2, SubSeqFull
    <2>4. Fits(p, "publish")
      <3> HIDE DEF p
      <3> QED BY <2>1, <2>3 DEF Fits, Job
    <2>5. p.kind = "extract" /\ commit = j /\ Measured(j)
      <3>1. p.kind = "extract"
        <4> HIDE DEF p
        <4> QED BY <2>1 DEF Fits, Job
      <3> QED BY <1>1, <3>1 DEF ArchivesInv, LockInv, Measured
    <2>7. m \in Staged
      <3>1. Cardinality(p.tree) \in Nat
        BY <2>1, FS_CardinalityType, <2>5 DEF Fits
      <3> QED BY <3>1, StagedThings DEF StagedIsFine
    <2>8. Steady => Usage + p.allowance <= Quota
      BY <2>5 DEF ArchivesInv, QuotaInv
    <2> HIDE DEF p, m
    <2>9. May(j, p, "publish", m)
      BY <2>1, <2>4, <2>5, <2>7, <2>8 DEF May, Labels
    <2> QED BY <2>2, <2>6, <2>9, JobMoves
  <1> QED BY <1>2, <1>3 DEF EndExtraction

\* What is published is whole, and has the room that was measured for it.
LEMMA PublishKeeps ==
  ASSUME ArchivesInv, NEW j \in Jobs, Publish(j)
  PROVE  ArchivesInv'
  <1> DEFINE p == job[j]
             n == p.target
             x == Published(j)
  <1>1. pc[j] = "publish"
    BY DEF Publish, At
  <1>2. CASE Stops(j) \/ Refuse(j)
    BY <1>2, StopsKeeps
  <1>3. CASE /\ shelf[n] = <<>>
             /\ shelf' = [shelf EXCEPT ![n] = x]
             /\ Goto(j, "idle") /\ job' = [job EXCEPT ![j] = NoJob] /\ commit' = 0
             /\ staging' = [staging EXCEPT ![j] = Nothing]
             /\ UNCHANGED <<mix, source, up, visited, residue, budget>>
    <2>1. /\ p \in Job /\ Fits(p, "publish") /\ p.kind \in {"compress", "extract"} /\ n \in Names
          /\ p.charge \in Nat /\ p.allowance \in Nat /\ p.charge <= p.allowance
      BY <1>1, AtWork DEF Job, Fits
    <2>2. /\ x # <<>> /\ x[1].charge = p.charge /\ x[1].kind = p.kind /\ x[1].tree = p.tree
          /\ x[1].out = p.out /\ x[1].items = p.items /\ x[1].input = p.input
      BY DEF Published
    <2>3. commit = j /\ Measured(j)
      BY <1>1, <2>1 DEF ArchivesInv, LockInv, Measured
    <2>4. /\ \A k \in Jobs : /\ pc'[k] = IF k = j THEN "idle" ELSE pc[k]
                             /\ job'[k] = IF k = j THEN NoJob ELSE job[k]
                             /\ staging'[k] = IF k = j THEN Nothing ELSE staging[k]
          /\ pc' \in [Jobs -> Labels] /\ job' \in [Jobs -> Job] /\ staging' \in [Jobs -> Staged]
      BY <1>3, IdleFits, StagedThings DEF ArchivesInv, JobsInv, LockInv, Goto, NoJobIsFine, Labels, StagedIsFine
    <2>5. JobsInv'
      <3>1. \A k \in Jobs : Fits(job'[k], pc'[k])
        BY <2>4, IdleFits DEF ArchivesInv, JobsInv, NoJobIsFine
      <3> QED BY <2>4, <3>1 DEF JobsInv
    <2>6. LockInv'
      <3>1. NoJob.kind = "stream"
        BY IdleFits DEF NoJobIsFine
      <3> QED BY <1>3, <2>3, <2>4, <3>1 DEF ArchivesInv, LockInv
    <2>7. QuotaInv'
      <3>1. \A k \in Jobs : ~Measured(k)'
        <4>1. NoJob.kind = "stream"
          BY IdleFits DEF NoJobIsFine
        <4> QED BY <2>3, <2>4, <4>1 DEF ArchivesInv, LockInv, Measured
      <3>2. Usage' = Usage + p.charge
        <4> HIDE DEF x
        <4>1. Usage' = Usage + x[1].charge
          BY <1>3, <2>1, <2>2, PublishedIsHeld DEF ArchivesInv
        <4> QED BY <2>2, <4>1
      <3>3. Steady' = Steady
        BY <1>3 DEF Steady
      <3>4. Steady => Usage + p.allowance <= Quota
        BY <2>3 DEF ArchivesInv, QuotaInv
      <3>5. Usage \in Nat /\ Quota \in Nat
        BY HoldingsAreNumbers, ArchivesAssumption DEF ArchivesInv
      <3> HIDE DEF p
      <3>6. Steady => Usage' <= Quota
        BY <2>1, <3>2, <3>4, <3>5
      <3> QED BY <3>1, <3>3, <3>6 DEF QuotaInv
    <2>8. ShelfInv'
      <3>1. IF x[1].kind = "extract" THEN Listed(x[1].tree) = Contents(x[1].input) ELSE x[1].out = x[1].items
        <4>1. p.kind = "extract" => Listed(p.tree) = Contents(p.input)
          BY <2>1 DEF Fits
        <4>2. p.kind = "compress" => p.out = p.items
          BY <2>1 DEF Fits
        <4> HIDE DEF x, p
        <4> QED BY <2>1, <2>2, <4>1, <4>2
      <3> HIDE DEF x
      <3>2. \A m \in Names : shelf'[m] = IF m = n THEN x ELSE shelf[m]
        BY <1>3 DEF ArchivesInv, ShelfInv
      <3>3. shelf' = [m \in Names |-> shelf'[m]]
        BY <1>3 DEF ArchivesInv, ShelfInv
      <3>4. source' = source
        BY <1>3
      <3> QED BY <2>1, <2>2, <3>1, <3>2, <3>3, <3>4 DEF ArchivesInv, ShelfInv
    <2>9. BudgetInv'
      BY <1>3 DEF ArchivesInv, BudgetInv, NothingLeftBehind
    <2> QED BY <2>5, <2>6, <2>7, <2>8, <2>9 DEF ArchivesInv
  <1> QED BY <1>2, <1>3 DEF Publish

LEMMA CancelKeeps ==
  ASSUME ArchivesInv, NEW j \in Jobs, Cancel(j)
  PROVE  ArchivesInv'
  <1> DEFINE p == job[j]
             q == IF pc[j] = "commit" THEN NoJob ELSE [p EXCEPT !.cancelled = TRUE]
             l == IF pc[j] = "commit" THEN "idle" ELSE pc[j]
             m == staging[j]
  <1>1. up /\ pc[j] # "idle" /\ Spend("cancels") /\ UNCHANGED <<share, commit, staging, residue>>
    BY DEF Cancel
  <1>2. p \in Job /\ Fits(p, pc[j]) /\ pc[j] \in Labels
    BY AtWork
  <1>3. m \in Staged /\ (m # Nothing => commit = j) /\ (p.kind # "stream" /\ pc[j] # "commit" => commit = j)
    BY DEF ArchivesInv, LockInv
  <1>4. budget'.changes = budget.changes /\ BudgetInv'
    BY <1>1 DEF share, ArchivesInv, BudgetInv, NothingLeftBehind, Spend
  <1>5. Becomes(j, q, l, m)
    BY <1>1, <1>4, AtWork DEF Cancel, Becomes, Goto, share
  <1>6. Steady /\ Measured(j) => Usage + p.allowance <= Quota
    BY DEF ArchivesInv, QuotaInv
  <1>7. CASE pc[j] = "commit"
    <2>1. May(j, NoJob, "idle", m)
      BY <1>3, IdleFits DEF May, NoJobIsFine, Labels
    <2>2. q = NoJob /\ l = "idle"
      BY <1>7
    <2> HIDE DEF q, l, m
    <2>3. May(j, q, l, m)
      BY <2>1, <2>2
    <2> QED BY <1>4, <1>5, <2>3, JobMoves
  <1>8. CASE pc[j] # "commit"
    <2> DEFINE r == [p EXCEPT !.cancelled = TRUE]
    <2>1. q = r /\ l = pc[j]
      BY <1>8
    <2> HIDE DEF p
    <2>2. /\ r \in Job /\ r.kind = p.kind /\ r.items = p.items /\ r.at = p.at /\ r.target = p.target
          /\ r.allowance = p.allowance /\ r.charge = p.charge /\ r.input = p.input /\ r.tree = p.tree
          /\ r.out = p.out /\ r.whole = p.whole
      BY <1>2 DEF Job
    <2> HIDE DEF r
    <2>3. Fits(r, pc[j])
      BY <1>1, <1>2, <2>2 DEF Fits
    <2>4. Steady /\ r.kind # "stream" /\ pc[j] \notin {"commit", "target"} => Usage + r.allowance <= Quota
      BY <1>6, <2>2 DEF Measured, p
    <2>5. May(j, r, pc[j], m)
      BY <1>2, <1>3, <1>8, <2>2, <2>3, <2>4 DEF May
    <2> HIDE DEF q, l, m
    <2>6. May(j, q, l, m)
      BY <2>1, <2>5
    <2> QED BY <1>4, <1>5, <2>6, JobMoves
  <1> QED BY <1>7, <1>8

LEMMA WorkKeeps ==
  ASSUME ArchivesInv, NEW j \in Jobs, Work(j)
  PROVE  ArchivesInv'
  <1>1. ASSUME Sent(j) PROVE ArchivesInv'
    BY <1>1, EndsKeeps DEF Sent
  <1> QED BY <1>1, TakeCommitKeeps, TargetKeeps, WalkKeeps, OpenKeeps, CopyKeeps, FinishArchiveKeeps,
             BeginSnapshotKeeps, SnapshotKeeps, ExtractEntryKeeps, EndExtractionKeeps, PublishKeeps DEF Work

\* Others change the share, and nothing more is asked of its quota.
LEMMA OthersKeep ==
  ASSUME ArchivesInv, (\E s \in Range(Sources), n \in Lengths \cup {-1} : ChangeSource(s, n))
                        \/ \E n \in Names : TakeName(n)
  PROVE  ArchivesInv'
  <1>1. Spend("changes") /\ UNCHANGED <<mix, commit, pc, job, staging, residue, up, visited>>
    BY DEF ChangeSource, TakeName
  <1>2. JobsInv' /\ LockInv'
    BY <1>1 DEF ArchivesInv, JobsInv, LockInv
  <1>3. BudgetInv' /\ ~Steady'
    BY SMTT(30), <1>1 DEF ArchivesInv, BudgetInv, NothingLeftBehind, Spend, Steady
  <1>4. ShelfInv'
    <2>1. ASSUME NEW s \in Range(Sources), NEW n \in Lengths \cup {-1}, ChangeSource(s, n) PROVE ShelfInv'
      <3>1. n \in Nat \cup {-1}
        BY ArchivesAssumption
      <3>2. source' \in [Range(Sources) -> Nat \cup {-1}] /\ shelf' = shelf
        BY <2>1, <3>1 DEF ChangeSource, ArchivesInv, ShelfInv
      <3> QED BY <3>2 DEF ArchivesInv, ShelfInv
    <2>2. ASSUME NEW n \in Names, TakeName(n) PROVE ShelfInv'
      <3> DEFINE x == <<[by |-> "other", charge |-> 1]>>
      <3>1. \A m \in Names : shelf'[m] = IF m = n THEN x ELSE shelf[m]
        BY <2>2 DEF TakeName, ArchivesInv, ShelfInv
      <3>2. shelf' = [m \in Names |-> shelf'[m]] /\ source' = source
        BY <2>2 DEF TakeName, ArchivesInv, ShelfInv
      <3>3. x[1].charge \in Nat /\ x[1].by # "job"
        OBVIOUS
      <3> HIDE DEF x
      <3> QED BY <3>1, <3>2, <3>3 DEF ArchivesInv, ShelfInv
    <2> QED BY <2>1, <2>2
  <1> QED BY <1>2, <1>3, <1>4 DEF ArchivesInv, QuotaInv

\* A fault adds a file and a tree at most to what is left, anything else nothing.
LEMMA BudgetKeeps ==
  ASSUME BudgetInv, mix' = mix, visited' \in Nat \cup {-1}, residue' \in Leftovers,
         NEW n \in {0, 1}, residue'.files <= residue.files + n, Len(residue'.trees) <= Len(residue.trees) + n,
         (n = 0 /\ budget' = budget) \/ Spend("faults")
  PROVE  BudgetInv' /\ budget'.changes = budget.changes
  <1>1. /\ residue.files \in Nat /\ Len(residue.trees) \in Nat
        /\ residue'.files \in Nat /\ Len(residue'.trees) \in Nat
    BY DEF BudgetInv, Leftovers
  <1>2. CASE n = 0 /\ budget' = budget
    BY SMTT(30), <1>1, <1>2 DEF BudgetInv, NothingLeftBehind
  <1>3. CASE Spend("faults")
    <2>2. /\ budget' \in [changes : 0 .. mix.changes, cancels : 0 .. mix.cancels, faults : 0 .. mix.faults]
          /\ budget'.faults = budget.faults - 1 /\ budget'.changes = budget.changes
          /\ mix.faults \in Nat /\ budget.faults \in Nat
      BY <1>3, FaultTaken
    <2>3. residue.files <= mix.faults - budget.faults /\ Len(residue.trees) <= mix.faults - budget.faults
      BY DEF BudgetInv, NothingLeftBehind
    <2>4. residue'.files <= mix.faults - budget'.faults /\ Len(residue'.trees) <= mix.faults - budget'.faults
      <3> DEFINE a == residue'.files
                 d == Len(residue'.trees)
                 x == residue.files
                 y == Len(residue.trees)
                 m == mix.faults
                 b == budget.faults
                 c == budget'.faults
      <3>1. a \in Nat /\ d \in Nat /\ x \in Nat /\ y \in Nat /\ a <= x + 1 /\ d <= y + 1
        BY <1>1
      <3>2. m \in Nat /\ b \in Nat /\ c = b - 1 /\ x <= m - b /\ y <= m - b
        BY <2>2, <2>3
      <3> HIDE DEF a, d, x, y, m, b, c
      <3>3. a <= m - c /\ d <= m - c
        BY ONLY <3>1, <3>2
      <3> QED BY <3>3 DEF a, d, m, c
    <2>5. NothingLeftBehind'
      BY <2>4 DEF NothingLeftBehind
    <2>6. /\ mix' \in Mixes /\ mix'.changes \in Nat /\ mix'.cancels \in Nat /\ mix'.faults \in Nat /\ mix'.retained \in Nat
          /\ budget' \in [changes : 0 .. mix'.changes, cancels : 0 .. mix'.cancels, faults : 0 .. mix'.faults]
      BY <2>2 DEF BudgetInv
    <2>7. residue' \in Leftovers /\ visited' \in Nat \cup {-1}
      BY <1>3 DEF BudgetInv
    <2> QED BY <2>2, <2>5, <2>6, <2>7 DEF BudgetInv
  <1> QED BY <1>2, <1>3

LEMMA CrashKeeps ==
  ASSUME ArchivesInv, Crash
  PROVE  ArchivesInv'
  <1>1. BudgetInv' /\ budget'.changes = budget.changes
    <2>1. BudgetInv /\ residue \in Leftovers /\ mix' = mix /\ visited' = visited /\ Spend("faults")
      BY DEF ArchivesInv, BudgetInv, Crash
    <2>2. residue.files \in Nat /\ Len(residue.trees) \in Nat
      BY <2>1 DEF Leftovers
    <2>3. CASE commit = 0
      <3>1. residue' = residue
        BY <2>3 DEF Crash
      <3>2. residue'.files <= residue.files + 1 /\ Len(residue'.trees) <= Len(residue.trees) + 1
        BY <2>2, <3>1
      <3> QED BY <2>1, <3>1, <3>2, BudgetKeeps DEF BudgetInv
    <2>4. CASE commit # 0
      <3> DEFINE left == staging[commit]
      <3>1. left \in Staged /\ residue' = Both(residue, left)
        BY <2>4 DEF Crash, ArchivesInv, LockInv
      <3> HIDE DEF left
      <3>2. left \in Leftovers /\ left.files <= 1 /\ Len(left.trees) <= 1 /\ left.files \in Nat /\ Len(left.trees) \in Nat
        <4>1. left \in Leftovers
          BY <3>1, StagedThings DEF StagedIsFine
        <4>2. left \in [files : {0, 1}, trees : Seq(Nat)] /\ Len(left.trees) <= 1
          BY <3>1 DEF Staged
        <4>3. left.files \in {0, 1} /\ left.trees \in Seq(Nat)
          BY <4>2
        <4>4. Len(left.trees) \in Nat
          BY <4>3
        <4> QED BY <4>1, <4>2, <4>3, <4>4
      <3>3. BothAreFine(residue, left)
        BY <2>1, <3>2, BothThings
      <3>4. residue' \in Leftovers /\ residue'.files <= residue.files + 1 /\ Len(residue'.trees) <= Len(residue.trees) + 1
        BY <2>2, <3>1, <3>2, <3>3 DEF BothAreFine
      <3> QED BY <2>1, <3>4, BudgetKeeps DEF BudgetInv
    <2> QED BY <2>3, <2>4
  <1>2. NoJob \in Job /\ Fits(NoJob, "idle") /\ NoJob.kind = "stream"
    BY IdleFits DEF NoJobIsFine
  <1>3. JobsInv' /\ LockInv'
    BY <1>2, StagedThings DEF Crash, JobsInv, LockInv, Labels, StagedIsFine
  <1>4. Steady' = Steady
    BY <1>1 DEF Crash, Steady
  <1>5. QuotaInv'
    <2>1. \A k \in Jobs : ~Measured(k)'
      BY <1>2 DEF Crash, Measured
    <2> QED BY <1>4, <2>1, UsageStays DEF Crash, ArchivesInv, QuotaInv
  <1>6. ShelfInv'
    BY DEF Crash, ArchivesInv, ShelfInv
  <1> QED BY <1>1, <1>3, <1>5, <1>6 DEF ArchivesInv

\* The steps of a start touch staging alone.
LEMMA RestingKeeps ==
  ASSUME ArchivesInv, Resting, up => up', BudgetInv', budget'.changes = budget.changes
  PROVE  ArchivesInv'
  <1>1. JobsInv' /\ LockInv' /\ ShelfInv'
    BY DEF Resting, ArchivesInv, JobsInv, LockInv, ShelfInv
  <1>2. QuotaInv'
    BY UsageStays DEF Resting, ArchivesInv, QuotaInv, Steady, Measured
  <1> QED BY <1>1, <1>2 DEF ArchivesInv

\* A sequence without one of its elements.
LEMMA OneLess ==
  ASSUME NEW s \in Seq(Nat), NEW i \in DOMAIN s
  PROVE  RemoveAt(s, i) \in Seq(Nat) /\ Len(RemoveAt(s, i)) <= Len(s)
  <1>1. Len(s) \in Nat /\ i \in 1 .. Len(s) /\ \A k \in 1 .. Len(s) : s[k] \in Nat
    BY LenProperties, ElementOfSeq
  <1> DEFINE a == SubSeq(s, 1, i - 1)
             b == SubSeq(s, i + 1, Len(s))
  <1>2. a \in Seq(Nat) /\ Len(a) = i - 1
    <2>1. 1 \in Int /\ i - 1 \in Int /\ \A k \in 1 .. i - 1 : s[k] \in Nat
      BY <1>1
    <2>2. a \in Seq(Nat) /\ Len(a) = IF 1 <= i - 1 THEN i - 1 - 1 + 1 ELSE 0
      BY <2>1, SubSeqProperties
    <2> HIDE DEF a
    <2> QED BY <1>1, <2>2
  <1>3. b \in Seq(Nat) /\ Len(b) = Len(s) - i
    <2>1. i + 1 \in Int /\ Len(s) \in Int /\ \A k \in i + 1 .. Len(s) : s[k] \in Nat
      BY <1>1
    <2>2. b \in Seq(Nat) /\ Len(b) = IF i + 1 <= Len(s) THEN Len(s) - (i + 1) + 1 ELSE 0
      BY <2>1, SubSeqProperties
    <2> HIDE DEF b
    <2> QED BY <1>1, <2>2
  <1>4. RemoveAt(s, i) = a \o b
    BY DEF RemoveAt
  <1> HIDE DEF a, b
  <1>5. a \o b \in Seq(Nat) /\ Len(a \o b) = Len(a) + Len(b)
    BY <1>2, <1>3, ConcatProperties
  <1> QED BY <1>1, <1>2, <1>3, <1>4, <1>5

\* A sequence with one of its elements changed.
LEMMA OneOther ==
  ASSUME NEW s \in Seq(Nat), NEW i \in DOMAIN s, NEW n \in Nat
  PROVE  [s EXCEPT ![i] = n] \in Seq(Nat) /\ Len([s EXCEPT ![i] = n]) = Len(s)
  BY ExceptSeq, LenProperties

LEMMA RecoverKeeps ==
  ASSUME ArchivesInv, Recover \/ StartFails
  PROVE  ArchivesInv'
  <1>1. /\ BudgetInv /\ residue \in Leftovers /\ visited \in Nat \cup {-1} /\ Budget \in Nat /\ mix.retained \in Nat
        /\ residue.files \in Nat /\ residue.trees \in Seq(Nat) /\ Len(residue.trees) \in Nat
    BY ArchivesAssumption, LenProperties DEF ArchivesInv, BudgetInv, Leftovers
  <1>2. CASE Start
    <2>1. visited' \in Nat
      BY <1>1, <1>2 DEF Start, Met
    <2>2. residue' = residue /\ budget' = budget /\ mix' = mix
      BY <1>2 DEF Start, Resting
    <2>3. BudgetInv' /\ budget'.changes = budget.changes
      BY <1>1, <2>1, <2>2 DEF BudgetInv, NothingLeftBehind
    <2> QED BY <1>2, <2>3, RestingKeeps DEF Start
  <1>3. ASSUME NEW i \in DOMAIN residue.trees, RecoverTree(i) PROVE ArchivesInv'
    <2> DEFINE n == residue.trees[i]
               room == Budget - visited
    <2>1. n \in Nat /\ visited \in Nat /\ mix' = mix /\ budget' = budget
      BY <1>1, <1>3, ElementOfSeq DEF RecoverTree, Resting
    <2>2. CASE n <= room
      <3>1. residue' = [residue EXCEPT !.trees = RemoveAt(@, i)] /\ visited' = visited + n
        BY <1>3, <2>2 DEF RecoverTree
      <3>2. RemoveAt(residue.trees, i) \in Seq(Nat) /\ Len(RemoveAt(residue.trees, i)) <= Len(residue.trees)
        BY <1>1, <1>3, OneLess
      <3>3. residue' \in Leftovers /\ residue'.files = residue.files /\ residue'.trees = RemoveAt(residue.trees, i)
        BY <1>1, <3>1, <3>2 DEF Leftovers
      <3>4. residue'.files <= residue.files + 0 /\ Len(residue'.trees) <= Len(residue.trees) + 0
        BY <1>1, <3>2, <3>3
      <3>5. BudgetInv' /\ budget'.changes = budget.changes
        BY <1>1, <2>1, <3>1, <3>3, <3>4, BudgetKeeps
      <3> QED BY <1>3, <3>5, RestingKeeps DEF RecoverTree
    <2>3. CASE ~(n <= room)
      <3>1. residue' = [residue EXCEPT !.trees[i] = n - room] /\ visited' = -1
        BY <1>3, <2>3 DEF RecoverTree
      <3>2. n - room \in Nat
        BY <1>1, <2>1, <2>3
      <3> DEFINE t == [residue.trees EXCEPT ![i] = n - room]
      <3>3. t \in Seq(Nat) /\ Len(t) = Len(residue.trees)
        <4> HIDE DEF n, room
        <4> QED BY <1>1, <1>3, <3>2, OneOther
      <3>4. residue' = [residue EXCEPT !.trees = t]
        BY <3>1
      <3> HIDE DEF t
      <3>5. residue' \in Leftovers /\ residue'.files = residue.files /\ residue'.trees = t
        BY <1>1, <3>3, <3>4 DEF Leftovers
      <3>6. residue'.files <= residue.files + 0 /\ Len(residue'.trees) <= Len(residue.trees) + 0
        BY <1>1, <3>3, <3>5
      <3>7. BudgetInv' /\ budget'.changes = budget.changes
        BY <1>1, <2>1, <3>1, <3>5, <3>6, BudgetKeeps
      <3> QED BY <1>3, <3>7, RestingKeeps DEF RecoverTree
    <2> QED BY <2>2, <2>3
  <1>4. CASE RecoverFile
    <2>1. residue' = [residue EXCEPT !.files = @ - 1] /\ residue.files > 0 /\ mix' = mix /\ budget' = budget /\ visited' = visited
      BY <1>4 DEF RecoverFile, Resting
    <2>2. residue' \in Leftovers /\ residue'.files = residue.files - 1 /\ residue'.trees = residue.trees
      BY <1>1, <2>1 DEF Leftovers
    <2>3. residue'.files <= residue.files + 0 /\ Len(residue'.trees) <= Len(residue.trees) + 0
      BY <1>1, <2>2
    <2>4. BudgetInv' /\ budget'.changes = budget.changes
      BY <1>1, <2>1, <2>2, <2>3, BudgetKeeps
    <2> QED BY <1>4, <2>4, RestingKeeps DEF RecoverFile
  <1>5. CASE Started
    <2>1. residue' = residue /\ budget' = budget /\ mix' = mix /\ visited' = -1
      BY <1>5 DEF Started, Resting
    <2>2. BudgetInv' /\ budget'.changes = budget.changes
      BY <1>1, <2>1 DEF BudgetInv, NothingLeftBehind
    <2> QED BY <1>5, <2>2, RestingKeeps DEF Started
  <1>6. CASE StartFails
    <2>1. mix' = mix /\ visited' = -1 /\ Spend("faults")
      BY <1>6 DEF StartFails, Resting
    <2>2. residue' \in Leftovers /\ residue'.files = residue.files /\ Len(residue'.trees) = Len(residue.trees)
      <3>1. CASE residue' = residue
        BY <1>1, <3>1
      <3>2. CASE \E i \in DOMAIN residue.trees : \E n \in 0 .. residue.trees[i] : residue' = [residue EXCEPT !.trees[i] = n]
        <4>1. PICK i \in DOMAIN residue.trees : \E n \in 0 .. residue.trees[i] : residue' = [residue EXCEPT !.trees[i] = n]
          BY <3>2
        <4>2. PICK n \in 0 .. residue.trees[i] : residue' = [residue EXCEPT !.trees[i] = n]
          BY <4>1
        <4>3. n \in Nat
          OBVIOUS
        <4> DEFINE t == [residue.trees EXCEPT ![i] = n]
        <4>4. t \in Seq(Nat) /\ Len(t) = Len(residue.trees)
          BY <1>1, <4>3, OneOther
        <4>5. residue' = [residue EXCEPT !.trees = t]
          BY <4>2
        <4> HIDE DEF t
        <4> QED BY <1>1, <4>4, <4>5 DEF Leftovers
      <3> QED BY <1>6, <3>1, <3>2 DEF StartFails
    <2>3. residue'.files <= residue.files + 0 /\ Len(residue'.trees) <= Len(residue.trees) + 0
      BY <1>1, <2>2
    <2>4. BudgetInv' /\ budget'.changes = budget.changes
      BY <1>1, <2>1, <2>2, <2>3, BudgetKeeps
    <2> QED BY <1>6, <2>4, RestingKeeps DEF StartFails
  <1> QED BY <1>2, <1>3, <1>4, <1>5, <1>6 DEF Recover

-----------------------------------------------------------------------------
(* The theorems                                                              *)

LEMMA InitArchives ==
  ASSUME Init
  PROVE  ArchivesInv
  <1>1. JobsInv
    <2>1. pc \in [Jobs -> Labels] /\ job \in [Jobs -> Job] /\ \A j \in Jobs : Fits(job[j], pc[j])
      BY IdleFits DEF Init, NoJobIsFine, Labels
    <2> QED BY <2>1 DEF JobsInv
  <1>2. LockInv
    BY IdleFits, StagedThings DEF Init, LockInv, NoJobIsFine, StagedIsFine
  <1>3. QuotaInv
    <2>1. \A j \in Jobs : ~Measured(j)
      BY IdleFits DEF Init, Measured, NoJobIsFine
    <2> QED BY <2>1, FirstUsage DEF QuotaInv
  <1>4. ShelfInv
    BY DEF Init, ShelfInv
  <1>5. BudgetInv
    <2>1. mix.changes \in Nat /\ mix.cancels \in Nat /\ mix.faults \in Nat /\ mix.retained \in Nat
      BY ArchivesAssumption DEF Init
    <2>2. residue = Nothing /\ Nothing.files = 0 /\ Len(Nothing.trees) = 0
      BY DEF Init, Nothing
    <2>3. residue \in Leftovers
      BY StagedThings, <2>2 DEF StagedIsFine
    <2> QED BY <2>1, <2>2, <2>3 DEF Init, BudgetInv, NothingLeftBehind
  <1> QED BY <1>1, <1>2, <1>3, <1>4, <1>5 DEF ArchivesInv

LEMMA NextKeeps ==
  ASSUME ArchivesInv, [Next]_vars
  PROVE  ArchivesInv'
  <1>1. CASE UNCHANGED vars
    <2>1. JobsInv' /\ LockInv' /\ ShelfInv' /\ BudgetInv'
      BY <1>1 DEF vars, ArchivesInv, JobsInv, LockInv, ShelfInv, BudgetInv, NothingLeftBehind
    <2>2. QuotaInv'
      BY <1>1, UsageStays DEF vars, ArchivesInv, QuotaInv, Steady, Measured
    <2> QED BY <2>1, <2>2 DEF ArchivesInv
  <1>2. ASSUME NEW j \in Jobs, Work(j) PROVE ArchivesInv'
    BY <1>2, WorkKeeps
  <1>3. ASSUME NEW j \in Jobs, Cancel(j) PROVE ArchivesInv'
    BY <1>3, CancelKeeps
  <1>4. ASSUME NEW j \in Jobs, NEW kind \in mix.kinds, NEW input \in Inputs, NEW target \in Names,
               Ask(j, kind, input, target)
        PROVE  ArchivesInv'
    BY <1>4, AskKeeps
  <1>5. ASSUME \E s \in Range(Sources), n \in Lengths \cup {-1} : ChangeSource(s, n) PROVE ArchivesInv'
    BY <1>5, OthersKeep
  <1>6. ASSUME \E n \in Names : TakeName(n) PROVE ArchivesInv'
    BY <1>6, OthersKeep
  <1> QED BY <1>1, <1>2, <1>3, <1>4, <1>5, <1>6, CrashKeeps, RecoverKeeps DEF Next

\* The invariant of the jobs, the lock, the quota, the share and what is staged
\* holds in every behaviour of the three kinds of job (browse.rs, archives.rs).
THEOREM InductiveInvariant == Spec => []ArchivesInv
  <1>1. Init => ArchivesInv
    BY InitArchives
  <1>2. ArchivesInv /\ [Next]_vars => ArchivesInv'
    BY NextKeeps
  <1> QED BY <1>1, <1>2, PTL DEF Spec

\* What jobs publish or send is whole, and jobs by themselves never bring the share
\* above its quota, for any jobs, archives, names and limits (archives.rs, extract and
\* compress; browse.rs, next_chunk; mutations.rs, local_archive).
THEOREM ArchivesAlwaysSound == Spec => []ArchivesSound
  <1>1. ArchivesInv => TypeOK
    BY DEF ArchivesInv, TypeOK, JobsInv, LockInv, ShelfInv, BudgetInv, Fits
  <1>2. ArchivesInv => OnlyWholeArchives
    <2>1. \A s : Listed(s) = {[path |-> e.path, kind |-> e.kind, size |-> e.size] : e \in s}
      BY DEF Listed, List
    <2>2. ASSUME ArchivesInv, NEW j \in Jobs, At(j, "sent") PROVE job[j].out = job[j].items /\ job[j].whole
      <3>1. Fits(job[j], "sent")
        BY <2>2, AtWork DEF At
      <3> QED BY <3>1 DEF Fits
    <2> QED BY <2>1, <2>2 DEF ArchivesInv, ShelfInv, OnlyWholeArchives
  <1>3. ArchivesInv => WithinQuota
    BY DEF ArchivesInv, QuotaInv, WithinQuota, Steady
  <1>4. ArchivesInv => ArchivesSound
    BY <1>1, <1>2, <1>3 DEF ArchivesSound
  <1> QED BY <1>4, InductiveInvariant, PTL

\* Only a crash or a clean-up that failed leaves anything in the private staging
\* directory, one file and one tree at most; a job that is cancelled or refused takes
\* all it staged with it (filesystem/archive.rs, Drop; archives.rs, Cancellation).
THEOREM NothingIsLeftBehind == Spec => []NothingLeftBehind
  <1>1. ArchivesInv => NothingLeftBehind
    BY DEF ArchivesInv, BudgetInv
  <1> QED BY <1>1, InductiveInvariant, PTL

\* No job replaces what took its name after it had found the name free
\* (filesystem/archive.rs, publish).
THEOREM JobsNeverReplace == Spec => NeverReplaces
  <1>1. ArchivesInv /\ [Next]_vars => [\A n \in Names : shelf[n] # <<>> => shelf'[n] = shelf[n]]_shelf
    <2> SUFFICES ASSUME ArchivesInv, [Next]_vars, shelf' # shelf, NEW n \in Names, shelf[n] # <<>>
                 PROVE  shelf'[n] = shelf[n]
      OBVIOUS
    <2>1. \A k \in Names : shelf[k] = shelf[k] /\ shelf = [m \in Names |-> shelf[m]]
      BY DEF ArchivesInv, ShelfInv
    <2>2. CASE \E j \in Jobs : Publish(j)
      <3>1. PICK j \in Jobs : Publish(j)
        BY <2>2
      <3>2. CASE Stops(j) \/ Refuse(j)
        BY <3>2 DEF Stops, Refuse, share
      <3>3. CASE shelf[job[j].target] = <<>> /\ shelf' = [shelf EXCEPT ![job[j].target] = Published(j)]
        BY <2>1, <3>3
      <3> QED BY <3>1, <3>2, <3>3 DEF Publish
    <2>3. CASE \E k \in Names : TakeName(k)
      BY <2>1, <2>3 DEF TakeName
    <2>4. CASE ~((\E j \in Jobs : Publish(j)) \/ \E k \in Names : TakeName(k))
      <3>1. ASSUME NEW j \in Jobs,
                   \/ TakeCommit(j) \/ Target(j) \/ Walk(j) \/ Open(j) \/ Copy(j) \/ FinishArchive(j)
                   \/ Sent(j) \/ BeginSnapshot(j) \/ Snapshot(j) \/ ExtractEntry(j) \/ EndExtraction(j) \/ Cancel(j)
            PROVE  shelf' = shelf
        <4>1. Stops(j) \/ Refuse(j) \/ Goes(j) => shelf' = shelf
          BY DEF Stops, Refuse, Goes, share
        <4>2. TakeCommit(j) \/ Sent(j) \/ Cancel(j) => shelf' = shelf
          BY DEF TakeCommit, Sent, Cancel, share
        <4>3. Target(j) => Stops(j) \/ Refuse(j) \/ Goes(j)
          BY DEF Target
        <4>4. Walk(j) => Stops(j) \/ Refuse(j) \/ Goes(j)
          BY DEF Walk
        <4>5. Open(j) \/ FinishArchive(j) \/ BeginSnapshot(j) => Stops(j) \/ Refuse(j) \/ Goes(j)
          BY DEF Open, FinishArchive, BeginSnapshot
        <4>8. EndExtraction(j) => shelf' = shelf
          BY <4>1 DEF EndExtraction, share
        <4>6. Copy(j) \/ Snapshot(j) => Stops(j) \/ Refuse(j) \/ Goes(j)
          BY DEF Copy, Snapshot
        <4>7. ExtractEntry(j) => Stops(j) \/ Refuse(j) \/ Goes(j)
          BY DEF ExtractEntry
        <4> QED BY <3>1, <4>1, <4>2, <4>3, <4>4, <4>5, <4>6, <4>7, <4>8
      <3>2. ASSUME NEW j \in Jobs, NEW kind, NEW input, NEW target, Ask(j, kind, input, target) PROVE shelf' = shelf
        BY <3>2 DEF Ask, share
      <3>3. ASSUME \E s \in Range(Sources), k \in Lengths \cup {-1} : ChangeSource(s, k) PROVE shelf' = shelf
        BY <3>3 DEF ChangeSource
      <3>4. Crash \/ Recover \/ StartFails \/ UNCHANGED vars => shelf' = shelf
        BY DEF Crash, Recover, Start, RecoverTree, RecoverFile, Started, StartFails, Resting, vars
      <3> QED BY <2>4, <3>1, <3>2, <3>3, <3>4 DEF Next, Work
    <2> QED BY <2>2, <2>3, <2>4
  <1> QED BY <1>1, InductiveInvariant, PTL DEF Spec, NeverReplaces
=============================================================================
