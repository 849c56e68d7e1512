---------------------------- MODULE UploadProofs ----------------------------
(* Proofs about Upload, for any requests, names, files, sizes and limits.  *)
EXTENDS Upload, FiniteSetTheorems, WellFoundedInduction, TLAPS

(* Sums over finite sets.  SumFunction is defined by a recursive function on *)
(* subsets: what is shown of it is shown of a smallest counterexample.       *)

\* Naturals that index a set have a least one.
LEMMA SmallestExists ==
  ASSUME NEW S, S # {}, NEW f \in [S -> Nat]
  PROVE  \E x \in S : \A y \in S : f[x] <= f[y]
  <1> DEFINE R == OpToRel(<, Nat)
             T == {f[x] : x \in S}
  <1>1. IsWellFoundedOn(R, Nat)
    BY NatLessThanWellFounded
  <1>2. \A a, b \in Nat : a < b => <<a, b>> \in R
    BY DEF OpToRel
  <1> HIDE DEF R
  <1>3. T \subseteq Nat /\ T # {}
    OBVIOUS
  <1>4. PICK m \in T : \A n \in T : <<n, m>> \notin R
    <2> HIDE DEF T
    <2> QED BY <1>1, <1>3, WFMin
  <1>5. \A n \in T : m <= n
    <2>1. \A n \in T : ~(n < m)
      BY <1>2, <1>3, <1>4
    <2> QED BY <1>3, <2>1
  <1> QED BY <1>5

First(s) == CHOOSE x \in s : TRUE
Rest(s) == s \ {First(s)}

\* Such a sum is what SumFunction(f) takes at DOMAIN f.
Sums(sum, f) == sum = [s \in SUBSET DOMAIN f |->
                          IF s = {} THEN 0 ELSE f[First(s)] + sum[s \ {First(s)}]]

LEMMA SumIsChosen ==
  ASSUME NEW f
  PROVE  SumFunction(f) = (CHOOSE sum : Sums(sum, f))[DOMAIN f]
  BY DEF SumFunction, SumFunctionOnSet, FoldFunctionOnSet, MapThenFoldSet, Sums, First

\* A set that is not empty has a first element, without which it is smaller.
LEMMA RestIsSmaller ==
  ASSUME NEW D, IsFiniteSet(D), NEW s \in SUBSET D
  PROVE  /\ Cardinality(s) \in Nat /\ Cardinality(s) <= Cardinality(D)
         /\ (s = {} <=> Cardinality(s) = 0)
         /\ s # {} => /\ First(s) \in s /\ Rest(s) \in SUBSET D
                      /\ Cardinality(Rest(s)) = Cardinality(s) - 1
  <1>1. IsFiniteSet(s) /\ Cardinality(s) <= Cardinality(D)
    BY FS_Subset
  <1>2. Cardinality(s) \in Nat /\ (s = {} <=> Cardinality(s) = 0)
    BY <1>1, FS_CardinalityType, FS_EmptySet
  <1>3. s # {} => First(s) \in s
    BY DEF First
  <1>4. s # {} => Cardinality(Rest(s)) = Cardinality(s) - 1
    BY <1>1, <1>3, FS_RemoveElement DEF Rest
  <1> QED BY <1>1, <1>2, <1>3, <1>4 DEF Rest

\* The recursive definition has a solution.
LEMMA SumExists ==
  ASSUME NEW f, IsFiniteSet(DOMAIN f)
  PROVE  \E sum : Sums(sum, f)
  <1> DEFINE D == DOMAIN f
             Small(n) == {s \in SUBSET D : Cardinality(s) <= n}
             Solves(g, n) == g = [s \in Small(n) |-> IF s = {} THEN 0 ELSE f[First(s)] + g[Rest(s)]]
             Bad == {n \in Nat : ~\E g : Solves(g, n)}
  <1>1. ASSUME Bad # {} PROVE FALSE
    <2> DEFINE id == [n \in Bad |-> n]
    <2>1. PICK n \in Bad : \A m \in Bad : n <= m
      <3>1. id \in [Bad -> Nat]
        OBVIOUS
      <3>2. \E n \in Bad : \A m \in Bad : id[n] <= id[m]
        <4> HIDE DEF id, Bad
        <4> QED BY <1>1, <3>1, SmallestExists
      <3> QED BY <3>2
    <2>2. CASE n = 0
      <3> DEFINE g == [s \in Small(0) |-> 0]
      <3>1. \A s \in Small(0) : s = {}
        <4> TAKE s \in Small(0)
        <4>1. Cardinality(s) \in Nat /\ (s = {} <=> Cardinality(s) = 0)
          BY RestIsSmaller
        <4> QED BY <4>1
      <3>2. Solves(g, 0)
        BY <3>1
      <3> QED BY <2>1, <2>2, <3>2
    <2>3. CASE n # 0
      <3>1. n \in Nat /\ n - 1 \in Nat /\ n - 1 \notin Bad
        <4>1. n \in Nat
          OBVIOUS
        <4> HIDE DEF Bad
        <4>2. n - 1 \in Nat /\ ~(n <= n - 1)
          BY <2>3, <4>1
        <4> QED BY <2>1, <4>1, <4>2
      <3>2. PICK g : Solves(g, n - 1)
        BY <3>1
      <3> DEFINE h == [s \in Small(n) |-> IF s = {} THEN 0 ELSE f[First(s)] + g[Rest(s)]]
      <3>3. \A s \in Small(n) : s # {} => Rest(s) \in Small(n - 1)
        <4> TAKE s \in Small(n)
        <4> HAVE s # {}
        <4>1. Cardinality(s) \in Nat /\ Rest(s) \in SUBSET D /\ Cardinality(Rest(s)) = Cardinality(s) - 1
          BY RestIsSmaller
        <4> QED BY <3>1, <4>1
      <3>4. Small(n - 1) \subseteq Small(n)
        <4>1. \A s \in Small(n - 1) : Cardinality(s) \in Nat
          BY RestIsSmaller
        <4> QED BY <3>1, <4>1
      <3>5. \A s \in Small(n - 1) : h[s] = g[s]
        <4> HIDE DEF Small
        <4> QED BY <3>2, <3>4
      <3>6. Solves(h, n)
        <4> HIDE DEF Small
        <4>1. \A s \in Small(n) : s # {} => h[Rest(s)] = g[Rest(s)]
          BY <3>3, <3>5
        <4> QED BY <4>1
      <3> HIDE DEF Solves, h
      <3> QED BY <2>1, <3>6
    <2> QED BY <2>2, <2>3
  <1>2. Cardinality(D) \in Nat
    BY FS_CardinalityType
  <1>3. PICK g : Solves(g, Cardinality(D))
    BY <1>1, <1>2
  <1>4. Small(Cardinality(D)) = SUBSET D
    BY RestIsSmaller
  <1> HIDE DEF Small
  <1> QED BY <1>3, <1>4 DEF Sums, Rest

\* A sum, step by step.
LEMMA SumStep ==
  ASSUME NEW f, NEW sum, Sums(sum, f)
  PROVE  \A s \in SUBSET DOMAIN f : sum[s] = IF s = {} THEN 0 ELSE f[First(s)] + sum[Rest(s)]
  BY DEF Sums, Rest

\* A sum of naturals is a natural, no less than any of them; when one of them is
\* changed, so is the sum, by as much.
LEMMA SumChanged ==
  ASSUME NEW D, IsFiniteSet(D), NEW f \in [D -> Nat], NEW g \in [D -> Nat], NEW x \in D,
         \A y \in D \ {x} : f[y] = g[y]
  PROVE  /\ SumFunction(f) \in Nat /\ SumFunction(g) \in Nat
         /\ SumFunction(f) >= f[x]
         /\ SumFunction(g) + f[x] = SumFunction(f) + g[x]
  <1> DEFINE F == CHOOSE sum : Sums(sum, f)
             G == CHOOSE sum : Sums(sum, g)
             Good(s) == /\ F[s] \in Nat /\ G[s] \in Nat
                        /\ x \in s => F[s] >= f[x] /\ G[s] + f[x] = F[s] + g[x]
                        /\ x \notin s => G[s] = F[s]
             Bad == {s \in SUBSET D : ~Good(s)}
             size == [s \in Bad |-> Cardinality(s)]
  <1>1. Sums(F, f) /\ Sums(G, g)
    BY SumExists
  <1>2. DOMAIN f = D /\ DOMAIN g = D
    OBVIOUS
  <1> HIDE DEF F, G
  <1>3. \A s \in SUBSET D : /\ F[s] = IF s = {} THEN 0 ELSE f[First(s)] + F[Rest(s)]
                            /\ G[s] = IF s = {} THEN 0 ELSE g[First(s)] + G[Rest(s)]
    BY <1>1, <1>2, SumStep
  <1>4. ASSUME Bad # {} PROVE FALSE
    <2>1. size \in [Bad -> Nat]
      BY RestIsSmaller
    <2>2. PICK s \in Bad : \A t \in Bad : size[s] <= size[t]
      <3> HIDE DEF size, Bad
      <3> QED BY <1>4, <2>1, SmallestExists
    <2>3. s \in SUBSET D /\ ~Good(s) /\ \A t \in SUBSET D : ~Good(t) => Cardinality(s) <= Cardinality(t)
      BY <2>2
    <2> HIDE DEF Bad, size, Good
    <2>4. CASE s = {}
      <3>1. F[s] = 0 /\ G[s] = 0
        BY <1>3, <2>3, <2>4
      <3> QED BY <2>3, <2>4, <3>1 DEF Good
    <2>5. CASE s # {}
      <3>1. /\ Cardinality(s) \in Nat /\ First(s) \in s /\ Rest(s) \in SUBSET D
            /\ Cardinality(Rest(s)) = Cardinality(s) - 1
        BY <2>3, <2>5, RestIsSmaller
      <3>2. Good(Rest(s))
        BY <2>3, <3>1
      <3>3. F[s] = f[First(s)] + F[Rest(s)] /\ G[s] = g[First(s)] + G[Rest(s)]
        BY <1>3, <2>3, <2>5
      <3>4. First(s) \in D /\ f[First(s)] \in Nat /\ g[First(s)] \in Nat /\ f[x] \in Nat /\ g[x] \in Nat
        BY <2>3, <3>1
      <3>5. CASE First(s) = x
        <4>1. x \notin Rest(s) /\ x \in s
          BY <3>1, <3>5 DEF Rest
        <4>2. F[Rest(s)] \in Nat /\ G[Rest(s)] = F[Rest(s)]
          BY <3>2, <4>1 DEF Good
        <4>3. /\ F[s] \in Nat /\ G[s] \in Nat /\ F[s] >= f[x]
              /\ G[s] + f[x] = F[s] + g[x]
          BY <3>3, <3>4, <3>5, <4>2
        <4> QED BY <2>3, <4>1, <4>3 DEF Good
      <3>6. CASE First(s) # x
        <4>1. f[First(s)] = g[First(s)] /\ (x \in Rest(s) <=> x \in s)
          BY <3>4, <3>6 DEF Rest
        <4>2. F[Rest(s)] \in Nat /\ G[Rest(s)] \in Nat
          BY <3>2 DEF Good
        <4>3. F[s] \in Nat /\ G[s] \in Nat
          BY <3>3, <3>4, <4>2
        <4>4. x \in s => F[s] >= f[x] /\ G[s] + f[x] = F[s] + g[x]
          <5> HAVE x \in s
          <5>1. F[Rest(s)] >= f[x] /\ G[Rest(s)] + f[x] = F[Rest(s)] + g[x]
            BY <3>2, <4>1 DEF Good
          <5> QED BY <3>3, <3>4, <4>1, <4>2, <5>1
        <4>5. x \notin s => G[s] = F[s]
          BY <3>2, <3>3, <4>1 DEF Good
        <4> QED BY <2>3, <4>3, <4>4, <4>5 DEF Good
      <3> QED BY <3>5, <3>6
    <2> QED BY <2>4, <2>5
  <1>5. Good(D)
    BY <1>4
  <1>6. SumFunction(f) = F[D] /\ SumFunction(g) = G[D]
    BY <1>2, SumIsChosen DEF F, G
  <1> QED BY <1>5, <1>6

\* A sum of naturals is a natural, over an empty set too.
LEMMA SumIsNatural ==
  ASSUME NEW D, IsFiniteSet(D), NEW f \in [D -> Nat]
  PROVE  SumFunction(f) \in Nat
  <1>1. CASE D = {}
    <2>1. DOMAIN f = {}
      BY <1>1
    <2>2. Sums(CHOOSE sum : Sums(sum, f), f)
      BY SumExists
    <2>3. (CHOOSE sum : Sums(sum, f))[DOMAIN f] = 0
      BY <2>1, <2>2, SumStep
    <2> QED BY <2>3, SumIsChosen
  <1>2. CASE D # {}
    BY <1>2, SumChanged
  <1> QED BY <1>1, <1>2

-----------------------------------------------------------------------------
(* The inductive invariant                                                   *)

\* The commit lock is its holder's from the measurement to the last file, and
\* only then is there a verdict; a file that is received has its place.
WritersInv ==
    /\ \A r \in Requests :
          /\ pc[r] \in {"measure", "publish"} <=> lock = r
          /\ pc[r] = "chunk" => incoming[r] \in Staged /\ Len(staged[r]) < MaxFiles
          /\ pc[r] = "publish" => verdict # "none"
    /\ verdict # "none" => lock # None

Foreign(r, e) == e = None \/ e.by # r

\* What a request stages never replaces what it published itself: it publishes
\* only when all is staged.
StagedInv ==
    \A r \in Requests :
       /\ \A k \in DOMAIN staged[r] : Foreign(r, staged[r][k].expected)
       /\ incoming[r] \in Staged => Foreign(r, incoming[r].expected)
       /\ pc[r] \notin {"publish", "reply", "done"} =>
             \A n \in Names : Foreign(r, files[n]) /\ Foreign(r, trash[n])
       /\ pc[r] \notin {"publish", "reply"} => outcomes[r] = <<>>

\* What a request has left is still there while it publishes.
LeftInv ==
    \A r \in Requests : pc[r] = "publish" =>
       /\ Len(outcomes[r]) <= Len(staged[r])
       /\ \A n \in Names : LeftAt(r, n) # {} => ~Foreign(r, files[n])

\* A measurement that stopped past the headroom stopped past what any of the
\* files could give back.
RefusalInv ==
    \A r \in Requests : lock = r /\ verdict = "quota_exceeded" =>
        \A k \in DOMAIN staged[r] : UsedFor(r) > Limit + Charge(staged[r][k].expected)

UploadInv == QuotaSound /\ WritersInv /\ StagedInv /\ LeftInv /\ RefusalInv

-----------------------------------------------------------------------------
(* What the share holds                                                      *)

LEMMA ConstantsOK ==
  /\ None \notin Requests /\ None \notin Entry /\ None \notin Staged /\ IsFiniteSet(Names)
  /\ Limit \in Nat /\ DirBytes \in Nat /\ MaxFileBytes \in Nat /\ MaxFiles \in Nat /\ MaxFiles > 0
  /\ MaxFaults \in Nat
  BY UploadAssumption

LEMMA ChargeIsNatural ==
  ASSUME NEW e \in Entry \cup {None}
  PROVE  Charge(e) \in Nat
  BY ConstantsOK DEF Charge, Entry

LEMMA UsedIsNatural ==
  ASSUME TypeOK
  PROVE  Used \in Nat
  <1> DEFINE f == [n \in Names |-> Charge(files[n]) + Charge(trash[n])]
  <1>1. \A n \in Names : Charge(files[n]) \in Nat /\ Charge(trash[n]) \in Nat
    BY ChargeIsNatural DEF TypeOK
  <1>2. f \in [Names -> Nat]
    BY <1>1
  <1> HIDE DEF f
  <1>3. SumFunction(f) \in Nat
    BY <1>2, ConstantsOK, SumIsNatural
  <1> QED BY <1>3 DEF Used, f

LEMMA CountedIsEntry ==
  ASSUME TypeOK, NEW r \in Requests, NEW n \in Names, DOMAIN outcomes[r] \subseteq DOMAIN staged[r]
  PROVE  Charge(Counted(r, n)) \in Nat /\ Charge(trash[n]) \in Nat
  <1>1. CASE LeftAt(r, n) = {}
    BY <1>1, ChargeIsNatural DEF TypeOK, Counted
  <1>2. CASE LeftAt(r, n) # {}
    <2>1. PICK k \in LeftAt(r, n) : Counted(r, n) = staged[r][k].expected
      BY <1>2 DEF Counted
    <2>2. k \in DOMAIN staged[r] /\ staged[r] \in Seq(Staged)
      BY <2>1 DEF LeftAt, TypeOK
    <2>3. staged[r][k] \in Staged
      BY <2>2
    <2>4. staged[r][k].expected \in Entry \cup {None}
      BY <2>3 DEF Staged
    <2> QED BY <2>1, <2>4, ChargeIsNatural DEF TypeOK
  <1> QED BY <1>1, <1>2

\* A request that has left nothing counts what is there.
LEMMA NothingLeft ==
  ASSUME NEW r \in Requests, \A n \in Names : LeftAt(r, n) = {}
  PROVE  UsedFor(r) = Used
  BY DEF UsedFor, Used, Counted

\* Nothing that a request has staged gives back more than the headroom.
LEMMA HeadroomIsMost ==
  ASSUME NEW r \in Requests, staged[r] \in Seq(Staged), NEW k \in DOMAIN staged[r]
  PROVE  Headroom(r) \in Nat /\ Charge(staged[r][k].expected) <= Headroom(r)
  <1> DEFINE N == Len(staged[r])
             c == [j \in 1 .. N |-> Charge(staged[r][j].expected)]
             Top(i, n) == i \in 1 .. n /\ \A j \in 1 .. n : c[j] <= c[i]
             Bad == {n \in 1 .. N : ~\E i \in 1 .. N : Top(i, n)}
  <1>1. N \in Nat /\ DOMAIN staged[r] = 1 .. N /\ k \in 1 .. N
    OBVIOUS
  <1>2. c \in [1 .. N -> Nat]
    <2>1. \A j \in 1 .. N : staged[r][j] \in Staged
      OBVIOUS
    <2>2. \A j \in 1 .. N : staged[r][j].expected \in Entry \cup {None}
      BY <2>1 DEF Staged
    <2> QED BY <2>2, ChargeIsNatural
  <1> HIDE DEF N, c
  <1>3. ASSUME Bad # {} PROVE FALSE
    <2> DEFINE id == [n \in Bad |-> n]
    <2>1. id \in [Bad -> Nat]
      BY <1>1
    <2>2. PICK n \in Bad : \A m \in Bad : id[n] <= id[m]
      <3> HIDE DEF id, Bad
      <3> QED BY <1>3, <2>1, SmallestExists
    <2>3. n \in 1 .. N /\ \A m \in Bad : n <= m
      BY <2>2
    <2>4. CASE n = 1
      <3>1. Top(1, 1)
        BY <1>1, <1>2, <2>3, <2>4
      <3> QED BY <2>2, <2>3, <2>4, <3>1
    <2>5. CASE n # 1
      <3>1. n - 1 \in 1 .. N /\ ~(n <= n - 1)
        BY <1>1, <2>3, <2>5
      <3>2. n - 1 \notin Bad
        <4> HIDE DEF Bad
        <4> QED BY <2>3, <3>1
      <3>3. PICK i \in 1 .. N : Top(i, n - 1)
        BY <3>1, <3>2
      <3>4. Top(i, n) \/ Top(n, n)
        <4>1. \A j \in 1 .. n : j \in 1 .. n - 1 \/ j = n
          BY <1>1, <2>3
        <4>2. c[i] \in Nat /\ c[n] \in Nat /\ \A j \in 1 .. n : c[j] \in Nat
          BY <1>1, <1>2, <2>3
        <4>3. i \in 1 .. n /\ n \in 1 .. n
          BY <1>1, <2>3, <3>3
        <4> QED BY <3>3, <4>1, <4>2, <4>3
      <3> HIDE DEF Top
      <3> QED BY <2>2, <2>3, <3>4
    <2> QED BY <2>4, <2>5
  <1>4. N \in 1 .. N
    BY <1>1
  <1>5. PICK i \in 1 .. N : \A j \in 1 .. N : c[j] <= c[i]
    BY <1>3, <1>4
  <1> DEFINE sizes == {Charge(staged[r][j].expected) : j \in DOMAIN staged[r]}
  <1>6. sizes = {c[j] : j \in 1 .. N}
    BY <1>1 DEF c
  <1>7. Headroom(r) = CHOOSE s \in sizes : \A t \in sizes : t <= s
    BY DEF Headroom
  <1> HIDE DEF sizes
  <1>8. \E s \in sizes : \A t \in sizes : t <= s
    BY <1>5, <1>6
  <1>9. Headroom(r) \in sizes /\ \A t \in sizes : t <= Headroom(r)
    BY <1>7, <1>8
  <1>10. c[k] = Charge(staged[r][k].expected) /\ c[k] \in sizes
    BY <1>1, <1>6 DEF c
  <1> QED BY <1>2, <1>6, <1>9, <1>10

-----------------------------------------------------------------------------
(* The steps                                                                 *)

share == <<files, trash>>

\* What is counted depends on share and Trash, and on what the request has left.
LEMMA UsedForStays ==
  ASSUME UNCHANGED share, NEW r \in Requests, outcomes'[r] = outcomes[r], staged'[r] = staged[r]
  PROVE  UsedFor(r)' = UsedFor(r)
  BY DEF share, UsedFor, Counted, LeftAt

LEMMA Parts ==
  ASSUME UploadInv
  PROVE  TypeOK /\ UsageIsExact /\ WritersInv /\ StagedInv /\ LeftInv /\ RefusalInv
  BY DEF UploadInv, QuotaSound

\* A request that does not have the commit lock receives, or ends: whatever it
\* stages, and whatever becomes of its lease.
LEMMA Receives ==
  ASSUME UploadInv, UNCHANGED <<kind, share, quota, outcomes, gone, faults>>,
         NEW r \in Requests, pc[r] \in {"idle", "field", "chunk", "wait"},
         NEW label \in {"field", "chunk", "wait", "done"}, pc' = [pc EXCEPT ![r] = label],
         leases' \in SUBSET Requests,
         NEW q \in Seq(Staged), Len(q) <= MaxFiles, staged' = [staged EXCEPT ![r] = q],
         \A k \in DOMAIN q : Foreign(r, q[k].expected),
         NEW i \in Staged \cup {None}, incoming' = [incoming EXCEPT ![r] = i],
         i \in Staged => Foreign(r, i.expected),
         label = "chunk" => i \in Staged /\ Len(q) < MaxFiles
  PROVE  UploadInv'
  <1>1. TypeOK /\ UsageIsExact /\ WritersInv /\ StagedInv /\ LeftInv /\ RefusalInv
    BY Parts
  <1>2. lock # r
    BY <1>1 DEF WritersInv
  <1>3. TypeOK'
    BY <1>1 DEF TypeOK, quota, share, Labels
  <1>4. ASSUME NEW w \in Requests, w # r
        PROVE  UsedFor(w)' = UsedFor(w) /\ staged'[w] = staged[w] /\ pc'[w] = pc[w]
    <2>1. staged'[w] = staged[w] /\ pc'[w] = pc[w]
      BY <1>1, <1>4 DEF TypeOK
    <2> QED BY <2>1, UsedForStays
  <1>5. UsageIsExact'
    BY <1>1, <1>2, <1>4 DEF UsageIsExact, quota
  <1>6. WritersInv'
    BY <1>1, <1>2 DEF WritersInv, TypeOK, quota
  <1>7. StagedInv'
    <2> SUFFICES ASSUME NEW w \in Requests
                 PROVE  /\ \A k \in DOMAIN staged'[w] : Foreign(w, staged'[w][k].expected)
                        /\ incoming'[w] \in Staged => Foreign(w, incoming'[w].expected)
                        /\ pc'[w] \notin {"publish", "reply", "done"} =>
                              \A n \in Names : Foreign(w, files[n]) /\ Foreign(w, trash[n])
                        /\ pc'[w] \notin {"publish", "reply"} => outcomes[w] = <<>>
      BY DEF StagedInv, Foreign, share
    <2>1. CASE w = r
      <3>1. staged'[w] = q /\ incoming'[w] = i /\ pc[w] \in {"idle", "field", "chunk", "wait"}
        BY <1>1, <2>1 DEF TypeOK
      <3>2. outcomes[w] = <<>> /\ \A n \in Names : Foreign(w, files[n]) /\ Foreign(w, trash[n])
        BY <1>1, <3>1 DEF StagedInv
      <3> QED BY <2>1, <3>1, <3>2
    <2>2. CASE w # r
      <3>1. staged'[w] = staged[w] /\ incoming'[w] = incoming[w] /\ pc'[w] = pc[w]
        BY <1>1, <2>2 DEF TypeOK
      <3> QED BY <1>1, <3>1 DEF StagedInv
    <2> QED BY <2>1, <2>2
  <1>8. LeftInv'
    <2> SUFFICES ASSUME NEW w \in Requests, pc'[w] = "publish"
                 PROVE  /\ Len(outcomes[w]) <= Len(staged'[w])
                        /\ \A n \in Names : LeftAt(w, n)' # {} => ~Foreign(w, files[n])
      BY DEF LeftInv, Foreign, share
    <2>1. w # r
      BY <1>1 DEF TypeOK
    <2>2. \A n \in Names : LeftAt(w, n)' = LeftAt(w, n)
      BY <1>4, <2>1 DEF LeftAt
    <2> QED BY <1>1, <1>4, <2>1, <2>2 DEF LeftInv
  <1>9. RefusalInv'
    BY <1>1, <1>2, <1>4 DEF RefusalInv, quota
  <1> QED BY <1>3, <1>5, <1>6, <1>7, <1>8, <1>9 DEF UploadInv, QuotaSound

LEMMA Abandons ==
  ASSUME UploadInv, UNCHANGED kind, NEW r \in Requests,
         pc[r] \in {"idle", "field", "chunk", "wait"}, Abandon(r)
  PROVE  UploadInv'
  <1>1. <<>> \in Seq(Staged) /\ Len(<<>>) <= MaxFiles /\ DOMAIN <<>> = {}
    BY ConstantsOK
  <1>2. leases' \in SUBSET Requests
    BY DEF UploadInv, QuotaSound, TypeOK, Abandon
  <1> QED BY <1>1, <1>2, Receives, ConstantsOK DEF Abandon, Goto, share

\* What a request has staged and what it receives, to be kept as it is.
LEMMA HandsFull ==
  ASSUME UploadInv, NEW r \in Requests
  PROVE  /\ staged[r] \in Seq(Staged) /\ Len(staged[r]) <= MaxFiles
         /\ incoming[r] \in Staged \cup {None} /\ leases \in SUBSET Requests
         /\ staged = [staged EXCEPT ![r] = staged[r]]
         /\ incoming = [incoming EXCEPT ![r] = incoming[r]]
         /\ pc = [pc EXCEPT ![r] = pc[r]]
         /\ \A k \in DOMAIN staged[r] : Foreign(r, staged[r][k].expected)
         /\ incoming[r] \in Staged => Foreign(r, incoming[r].expected)
  BY DEF UploadInv, QuotaSound, TypeOK, StagedInv

\* What a new part or request names is there, or is not to be replaced.
LEMMA StagedAnew ==
  ASSUME UploadInv, NEW r \in Requests, NEW n \in Names, NEW size \in Nat, pc[r] = "field"
  PROVE  /\ [name |-> n, size |-> size, expected |-> Expected(r, n)] \in Staged
         /\ Foreign(r, Expected(r, n))
  <1>1. Expected(r, n) \in Entry \cup {None}
    BY DEF UploadInv, QuotaSound, TypeOK, Expected
  <1>2. Foreign(r, Expected(r, n))
    BY DEF UploadInv, StagedInv, Expected, Foreign
  <1> QED BY <1>1, <1>2 DEF Staged

LEMMA ReceiveKeeps ==
  ASSUME UploadInv, UNCHANGED kind, NEW r \in Requests,
         Admit(r) \/ Busy(r) \/ Receive(r) \/ Fail(r) \/ TimeOut(r)
  PROVE  UploadInv'
  <1>1. CASE Admit(r)
    <2>1. leases' \in SUBSET Requests
      BY <1>1, HandsFull DEF Admit
    <2> QED BY <1>1, <2>1, HandsFull, Receives DEF Admit, Goto, share
  <1>2. CASE Busy(r)
    BY <1>2, Abandons DEF Busy
  <1>3. CASE Fail(r) \/ TimeOut(r)
    BY <1>3, Abandons DEF Fail, TimeOut
  <1>4. CASE \E n \in Names : Field(r, n)
    <2>1. PICK n \in Names : Field(r, n)
      BY <1>4
    <2> DEFINE f == [name |-> n, size |-> 0, expected |-> Expected(r, n)]
    <2>2. f \in Staged /\ Foreign(r, f.expected)
      BY <2>1, StagedAnew DEF Field
    <2>3. CASE Len(staged[r]) < MaxFiles /\ Target(r, n)
      <3> HIDE DEF f
      <3>1. /\ pc[r] = "field" /\ pc' = [pc EXCEPT ![r] = "chunk"]
            /\ incoming' = [incoming EXCEPT ![r] = f]
            /\ UNCHANGED <<files, trash, leases, staged, quota, outcomes, gone, faults>>
        BY <2>1, <2>3 DEF Field, Goto, f
      <3> QED BY <2>2, <2>3, <3>1, HandsFull, Receives DEF share
    <2>4. CASE ~(Len(staged[r]) < MaxFiles /\ Target(r, n))
      BY <2>1, <2>4, Abandons DEF Field
    <2> QED BY <2>3, <2>4
  <1>5. CASE Chunk(r)
    <2>1. CASE Abandon(r)
      BY <1>5, <2>1, Abandons DEF Chunk
    <2>2. CASE ~Abandon(r)
      <3> DEFINE i == [incoming[r] EXCEPT !.size = @ + 1]
      <3>1. incoming[r] \in Staged /\ Len(staged[r]) < MaxFiles /\ pc[r] = "chunk"
        BY <1>5 DEF UploadInv, WritersInv, Chunk
      <3>2. i \in Staged /\ i.expected = incoming[r].expected
        BY <3>1 DEF Staged
      <3>4. Foreign(r, i.expected)
        <4> HIDE DEF i
        <4> QED BY <3>1, <3>2, HandsFull
      <3>3. incoming' = [incoming EXCEPT ![r] = i]
        BY <1>5, <2>2 DEF Chunk, UploadInv, QuotaSound, TypeOK
      <3> HIDE DEF i
      <3> QED BY <1>5, <2>2, <3>1, <3>2, <3>3, <3>4, HandsFull, Receives DEF Chunk, share
    <2> QED BY <2>1, <2>2
  <1>6. CASE EndFile(r)
    <2> DEFINE q == Append(staged[r], incoming[r])
    <2>1. incoming[r] \in Staged /\ Len(staged[r]) < MaxFiles /\ pc[r] = "chunk"
      BY <1>6 DEF UploadInv, WritersInv, EndFile
    <2>2. q \in Seq(Staged) /\ Len(q) <= MaxFiles
      BY <2>1, HandsFull, ConstantsOK
    <2>3. staged' = [staged EXCEPT ![r] = q]
      BY <1>6 DEF EndFile, UploadInv, QuotaSound, TypeOK
    <2>4. \A k \in DOMAIN q : Foreign(r, q[k].expected)
      <3>1. \A k \in DOMAIN q : q[k] = incoming[r] \/ (k \in DOMAIN staged[r] /\ q[k] = staged[r][k])
        BY <2>1, HandsFull
      <3> HIDE DEF q
      <3> QED BY <2>1, <3>1, HandsFull
    <2> HIDE DEF q
    <2> QED BY <1>6, <2>1, <2>2, <2>3, <2>4, HandsFull, Receives, ConstantsOK DEF EndFile, Goto, share
  <1>7. CASE EndBody(r)
    <2>1. CASE staged[r] = <<>>
      BY <1>7, <2>1, Abandons DEF EndBody
    <2>2. CASE staged[r] # <<>>
      <3>1. /\ pc[r] = "field" /\ pc' = [pc EXCEPT ![r] = "wait"]
            /\ UNCHANGED <<files, trash, leases, staged, incoming, quota, outcomes, gone, faults>>
        BY <1>7, <2>2 DEF EndBody, Goto
      <3> QED BY <3>1, HandsFull, Receives DEF share
    <2> QED BY <2>1, <2>2
  <1>8. CASE \E n \in Names : \E s \in Sizes(r) : Single(r, n, s)
    <2>1. PICK n \in Names : \E s \in Sizes(r) : Single(r, n, s)
      BY <1>8
    <2>2. PICK s \in Sizes(r) : Single(r, n, s)
      BY <2>1
    <2>3. s \in Nat
      <3>1. kind[r] = "save" => Sizes(r) = 0 .. MaxFileBytes
        BY DEF Sizes
      <3>2. kind[r] = "create" => Sizes(r) = {0}
        BY DEF Sizes
      <3>3. kind[r] \notin {"save", "create"} => Sizes(r) = {DirBytes}
        BY DEF Sizes
      <3> QED BY <2>2, <3>1, <3>2, <3>3, ConstantsOK
    <2> DEFINE f == [name |-> n, size |-> s, expected |-> Expected(r, n)]
               q == <<f>>
    <2>4. f \in Staged /\ Foreign(r, f.expected)
      BY <2>2, <2>3, StagedAnew DEF Single
    <2>5. q \in Seq(Staged) /\ Len(q) <= MaxFiles /\ \A k \in DOMAIN q : Foreign(r, q[k].expected)
      <3> HIDE DEF f
      <3> QED BY <2>4, ConstantsOK
    <2>6. CASE Target(r, n)
      <3>1. /\ pc[r] = "field" /\ pc' = [pc EXCEPT ![r] = "wait"]
            /\ staged' = [staged EXCEPT ![r] = q]
            /\ UNCHANGED <<files, trash, leases, incoming, quota, outcomes, gone, faults>>
        BY <2>2, <2>6 DEF Single, Goto
      <3> HIDE DEF q
      <3> QED BY <2>5, <3>1, HandsFull, Receives DEF share
    <2>7. CASE ~Target(r, n)
      BY <2>2, <2>7, Abandons DEF Single
    <2> QED BY <2>6, <2>7
  <1> QED BY <1>1, <1>2, <1>3, <1>4, <1>5, <1>6, <1>7, <1>8 DEF Receive

LEMMA LockKeeps ==
  ASSUME UploadInv, UNCHANGED kind, NEW r \in Requests, Lock(r)
  PROVE  UploadInv'
  <1>1. TypeOK /\ UsageIsExact /\ WritersInv /\ StagedInv /\ LeftInv /\ RefusalInv
    BY Parts
  <1>2. verdict = "none" /\ verdict' = "none"
    BY <1>1 DEF WritersInv, Lock
  <1>3. TypeOK'
    BY <1>1 DEF TypeOK, Lock, Goto, Labels
  <1>4. WritersInv'
    BY <1>1, <1>2, ConstantsOK DEF WritersInv, TypeOK, Lock, Goto
  <1>5. UsageIsExact' /\ RefusalInv'
    BY <1>2 DEF UsageIsExact, RefusalInv
  <1>6. \A w \in Requests : /\ pc'[w] = "publish" <=> pc[w] = "publish"
                            /\ pc'[w] \notin {"publish", "reply"} => pc[w] \notin {"publish", "reply"}
                            /\ pc'[w] \notin {"publish", "reply", "done"}
                                  => pc[w] \notin {"publish", "reply", "done"}
    BY <1>1 DEF TypeOK, Lock, Goto
  <1>7. StagedInv'
    BY <1>1, <1>6 DEF StagedInv, Lock, Foreign
  <1>8. LeftInv'
    BY <1>1, <1>6 DEF LeftInv, LeftAt, Lock, Foreign
  <1> QED BY <1>3, <1>4, <1>5, <1>7, <1>8 DEF UploadInv, QuotaSound

LEMMA MeasureKeeps ==
  ASSUME UploadInv, UNCHANGED kind, NEW r \in Requests, Measure(r)
  PROVE  UploadInv'
  <1>1. TypeOK /\ UsageIsExact /\ WritersInv /\ StagedInv /\ LeftInv /\ RefusalInv
    BY Parts
  <1>2. lock = r /\ lock' = r
    BY <1>1 DEF WritersInv, Measure
  <1>3. Used \in Nat /\ outcomes[r] = <<>> /\ \A n \in Names : LeftAt(r, n) = {}
    <2>1. outcomes[r] = <<>>
      BY <1>1 DEF StagedInv, Measure
    <2> QED BY <1>1, <2>1, UsedIsNatural DEF LeftAt
  <1>4. UsedFor(r)' = Used
    <2>1. UsedFor(r)' = UsedFor(r)
      BY UsedForStays DEF Measure, share
    <2> QED BY <1>3, <2>1, NothingLeft
  <1>5. TypeOK'
    <2>1. faults' \in 0 .. MaxFaults
      BY <1>1, ConstantsOK DEF TypeOK, Measure, Fault
    <2> QED BY <1>1, <1>3, <2>1 DEF TypeOK, Measure, Goto, Labels
  <1>6. WritersInv'
    BY <1>1, <1>2, ConstantsOK DEF WritersInv, TypeOK, Measure, Goto
  <1>7. UsageIsExact'
    BY <1>2, <1>4 DEF UsageIsExact, Measure
  <1>8. RefusalInv'
    <2> SUFFICES ASSUME verdict' = "quota_exceeded", NEW k \in DOMAIN staged[r]
                 PROVE  Used > Limit + Charge(staged[r][k].expected)
      BY <1>2, <1>4 DEF RefusalInv, Measure
    <2>1. Used > Limit + Headroom(r)
      BY DEF Measure
    <2>2. staged[r] \in Seq(Staged)
      BY <1>1 DEF TypeOK
    <2>3. Headroom(r) \in Nat /\ Charge(staged[r][k].expected) <= Headroom(r)
      BY <2>2, HeadroomIsMost
    <2>4. Charge(staged[r][k].expected) \in Nat
      <3>1. staged[r][k] \in Staged
        BY <2>2
      <3>2. staged[r][k].expected \in Entry \cup {None}
        BY <3>1 DEF Staged
      <3> QED BY <3>2, ChargeIsNatural
    <2> QED BY <1>3, <2>1, <2>3, <2>4, ConstantsOK
  <1>9. \A w \in Requests : w # r => pc'[w] = pc[w]
    BY <1>1 DEF TypeOK, Measure, Goto
  <1>10. StagedInv'
    BY <1>1, <1>3, <1>9 DEF StagedInv, Measure, Foreign, TypeOK, Goto
  <1>11. LeftInv'
    <2>1. Len(outcomes[r]) = 0 /\ Len(staged[r]) \in Nat
      BY <1>1, <1>3 DEF TypeOK
    <2> QED BY <1>1, <1>3, <1>9, <2>1 DEF LeftInv, LeftAt, Measure, Foreign
  <1> QED BY <1>5, <1>6, <1>7, <1>8, <1>10, <1>11 DEF UploadInv, QuotaSound

\* One file is published, refused, or fails with or without its file: what comes of
\* it, of the running figure and of what the request counts.
Success == {"created", "replaced"}

ComesOf(r, f, o) ==
    /\ outcomes' = [outcomes EXCEPT ![r] = Append(outcomes[r], o)]
    /\ o \in {"created", "replaced", "left"} =>
          /\ files[f.name] = f.expected /\ LeftAt(r, f.name) = {}
          /\ files' = [files EXCEPT ![f.name] = [size |-> f.size, by |-> r]]
    /\ o \notin {"created", "replaced", "left"} => files' = files
    /\ o \in Success => verdict = "measured" /\ Fits(usage, f) /\ usage' = Projected(usage, f)
    /\ o \notin Success => usage' = usage
    /\ o = "quota_exceeded" => \/ verdict = "measured" /\ ~Fits(usage, f)
                               \/ verdict = "quota_exceeded"

LEMMA OnePublished ==
  ASSUME UploadInv, NEW r \in Requests, Publish(r),
         NEW f, f = staged[r][Len(outcomes[r]) + 1]
  PROVE  /\ f \in Staged /\ Len(outcomes[r]) + 1 \in DOMAIN staged[r] /\ lock = r
         /\ outcomes[r] \in Seq(Outcomes) /\ faults' \in 0 .. MaxFaults
         /\ files' \in [Names -> Entry \cup {None}]
         /\ \E o \in Outcomes : ComesOf(r, f, o)
  <1> DEFINE o == Outcome(r, f)
  <1>1. TypeOK /\ UsageIsExact /\ WritersInv /\ StagedInv /\ LeftInv /\ RefusalInv
    BY Parts
  <1>2. outcomes[r] \in Seq(Outcomes) /\ staged[r] \in Seq(Staged)
    BY <1>1 DEF TypeOK
  <1>3. Len(outcomes[r]) + 1 \in DOMAIN staged[r] /\ f \in Staged
    BY <1>2 DEF Publish
  <1>4. lock = r /\ verdict # "none"
    BY <1>1 DEF WritersInv, Publish
  <1>5. o \in Outcomes
    BY <1>1, <1>4 DEF Outcome, Outcomes, TypeOK
  <1>6. faults' \in 0 .. MaxFaults
    BY <1>1, ConstantsOK DEF TypeOK, Publish, Fault
  <1>7. files' \in [Names -> Entry \cup {None}]
    <2>1. [size |-> f.size, by |-> r] \in Entry
      BY <1>3 DEF Entry, Staged
    <2>2. files' = files \/ files' = [files EXCEPT ![f.name] = [size |-> f.size, by |-> r]]
      BY DEF Publish, InPlace
    <2> QED BY <1>1, <2>1, <2>2 DEF TypeOK
  <1>8. ASSUME o \in Success
        PROVE  verdict = "measured" /\ Fits(usage, f) /\ files[f.name] = f.expected /\ LeftAt(r, f.name) = {}
    <2>1. verdict = "measured" /\ Fits(usage, f) /\ files[f.name] = f.expected
      BY <1>1, <1>8 DEF Outcome, TypeOK, Success
    <2>2. f.name \in Names /\ Foreign(r, f.expected)
      BY <1>1, <1>3 DEF Staged, StagedInv
    <2>3. pc[r] = "publish"
      BY DEF Publish
    <2> QED BY <1>1, <2>1, <2>2, <2>3 DEF LeftInv
  <1>9. CASE /\ o \in Success
             /\ outcomes' = [outcomes EXCEPT ![r] = Append(outcomes[r], o)]
             /\ InPlace(r, f) /\ usage' = Projected(usage, f)
    <2> HIDE DEF o
    <2> QED BY <1>2, <1>3, <1>4, <1>5, <1>6, <1>7, <1>8, <1>9 DEF Success, InPlace, ComesOf
  <1>10. CASE /\ o \notin Success
              /\ outcomes' = [outcomes EXCEPT ![r] = Append(outcomes[r], o)]
              /\ UNCHANGED <<files, usage>>
    <2>1. o # "left"
      BY <1>1, <1>4 DEF Outcome, TypeOK
    <2>2. o = "quota_exceeded" => \/ verdict = "measured" /\ ~Fits(usage, f)
                                  \/ verdict = "quota_exceeded"
      BY DEF Outcome
    <2> HIDE DEF o
    <2> QED BY <1>2, <1>3, <1>4, <1>5, <1>6, <1>7, <1>10, <2>1, <2>2 DEF Success, ComesOf
  <1>11. CASE /\ o \in Success /\ UNCHANGED usage
              /\ \/ /\ outcomes' = [outcomes EXCEPT ![r] = Append(outcomes[r], "failed")]
                    /\ UNCHANGED files
                 \/ /\ outcomes' = [outcomes EXCEPT ![r] = Append(outcomes[r], "left")]
                    /\ InPlace(r, f)
    <2>1. "failed" \in Outcomes /\ "left" \in Outcomes
      BY DEF Outcomes
    <2> HIDE DEF o
    <2> QED BY <1>2, <1>3, <1>4, <1>6, <1>7, <1>8, <1>11, <2>1 DEF Success, InPlace, ComesOf
  <1> QED BY <1>9, <1>10, <1>11 DEF Publish, Success

\* What the request counts then: nothing more of what was left, all of what was
\* published.
LEMMA CountedAfter ==
  ASSUME UploadInv, NEW r \in Requests, Publish(r), UNCHANGED trash,
         NEW f, f = staged[r][Len(outcomes[r]) + 1],
         NEW o \in Outcomes, ComesOf(r, f, o)
  PROVE  /\ UsedFor(r) \in Nat
         /\ o \notin Success => UsedFor(r)' = UsedFor(r)
         /\ o \in Success => UsedFor(r)' = Projected(UsedFor(r), f)
         /\ \A n \in Names : LeftAt(r, n)' # {} => LeftAt(r, n) # {} \/ (o = "left" /\ n = f.name)
  <1> DEFINE k == Len(outcomes[r]) + 1
             g == [n \in Names |-> Charge(Counted(r, n)) + Charge(trash[n])]
             h == [n \in Names |-> Charge(Counted(r, n)') + Charge(trash[n])]
  <1>0. /\ outcomes' = [outcomes EXCEPT ![r] = Append(outcomes[r], o)]
        /\ o \in {"created", "replaced", "left"} =>
              /\ files[f.name] = f.expected /\ LeftAt(r, f.name) = {}
              /\ files' = [files EXCEPT ![f.name] = [size |-> f.size, by |-> r]]
        /\ o \notin {"created", "replaced", "left"} => files' = files
    BY DEF ComesOf
  <1>1. TypeOK /\ staged' = staged
    BY Parts DEF Publish
  <1>2. /\ outcomes[r] \in Seq(Outcomes) /\ staged[r] \in Seq(Staged)
        /\ DOMAIN outcomes[r] \subseteq DOMAIN staged[r] /\ k \in DOMAIN staged[r]
        /\ k \notin DOMAIN outcomes[r]
    <2>1. outcomes[r] \in Seq(Outcomes) /\ staged[r] \in Seq(Staged)
      BY <1>1 DEF TypeOK
    <2>2. Len(outcomes[r]) < Len(staged[r])
      BY DEF Publish
    <2> QED BY <2>1, <2>2
  <1>3. f \in Staged /\ f.name \in Names /\ f.size \in Nat /\ Charge(f.expected) \in Nat
    <2>1. f \in Staged
      BY <1>2
    <2>2. f.name \in Names /\ f.size \in Nat /\ f.expected \in Entry \cup {None}
      BY <2>1 DEF Staged
    <2> QED BY <2>1, <2>2, ChargeIsNatural
  <1>4. /\ DOMAIN outcomes'[r] = DOMAIN outcomes[r] \cup {k} /\ outcomes'[r][k] = o
        /\ \A i \in DOMAIN outcomes[r] : outcomes'[r][i] = outcomes[r][i]
    <2>1. outcomes'[r] = Append(outcomes[r], o)
      BY <1>0, <1>1 DEF TypeOK
    <2> QED BY <1>2, <2>1
  <1>5. ASSUME NEW n \in Names
        PROVE  LeftAt(r, n)' = IF o = "left" /\ n = f.name THEN LeftAt(r, n) \cup {k} ELSE LeftAt(r, n)
    <2> HIDE DEF k
    <2>1. staged[r][k].name = f.name
      BY DEF k
    <2> QED BY <1>1, <1>2, <1>4, <2>1 DEF LeftAt
  <1>6. ASSUME NEW n \in Names, ~(o \in {"created", "replaced", "left"} /\ n = f.name)
        PROVE  Counted(r, n)' = Counted(r, n)
    <2>1. LeftAt(r, n)' = LeftAt(r, n)
      BY <1>5, <1>6
    <2>2. files'[n] = files[n]
      BY <1>0, <1>1, <1>3, <1>6 DEF TypeOK
    <2> QED BY <1>1, <2>1, <2>2 DEF Counted
  <1>7. ASSUME o = "left"
        PROVE  Counted(r, f.name)' = Counted(r, f.name)
    <2>1. LeftAt(r, f.name)' = {k} /\ LeftAt(r, f.name) = {}
      BY <1>0, <1>3, <1>5, <1>7
    <2>2. Counted(r, f.name) = f.expected
      BY <1>0, <1>7, <2>1 DEF Counted
    <2>3. Counted(r, f.name)' = staged[r][k].expected
      BY <1>1, <2>1 DEF Counted
    <2> QED BY <2>2, <2>3
  <1>8. ASSUME o \in Success
        PROVE  /\ Counted(r, f.name) = f.expected
               /\ Counted(r, f.name)' = [size |-> f.size, by |-> r]
    <2>1. LeftAt(r, f.name)' = {} /\ LeftAt(r, f.name) = {}
      BY <1>0, <1>3, <1>5, <1>8 DEF Success
    <2>2. files'[f.name] = [size |-> f.size, by |-> r] /\ files[f.name] = f.expected
      BY <1>0, <1>1, <1>3, <1>8 DEF TypeOK, Success
    <2> QED BY <2>1, <2>2 DEF Counted
  <1>9. g \in [Names -> Nat] /\ UsedFor(r) = SumFunction(g) /\ UsedFor(r)' = SumFunction(h)
    <2>1. \A n \in Names : Charge(Counted(r, n)) \in Nat /\ Charge(trash[n]) \in Nat
      BY <1>1, <1>2, CountedIsEntry
    <2> QED BY <2>1 DEF UsedFor
  <1>10. ASSUME o \notin Success PROVE g = h
    <2>1. ASSUME NEW n \in Names PROVE Counted(r, n)' = Counted(r, n)
      BY <1>6, <1>7, <1>10 DEF Success
    <2> QED BY <2>1
  <1>11. ASSUME o \in Success
         PROVE  UsedFor(r)' = Projected(UsedFor(r), f)
    <2>1. Charge(Counted(r, f.name)') = f.size
      <3>1. [size |-> f.size, by |-> r] \in Entry
        BY <1>3 DEF Entry
      <3> QED BY <1>8, <1>11, <3>1, ConstantsOK DEF Charge
    <2> DEFINE m == f.name
               c == Charge(f.expected)
               t == Charge(trash[m])
    <2>2. m \in Names /\ \A n \in Names \ {m} : g[n] = h[n]
      BY <1>3, <1>6
    <2>3. g[m] = c + t /\ h[m] = f.size + t
      BY <1>3, <1>8, <1>11, <2>1
    <2>4. c \in Nat /\ t \in Nat /\ f.size \in Nat
      BY <1>1, <1>3, ChargeIsNatural DEF TypeOK
    <2>5. h \in [Names -> Nat]
      <3>1. \A n \in Names : h[n] \in Nat
        <4> TAKE n \in Names
        <4>1. CASE n = m
          BY <2>3, <2>4, <4>1
        <4>2. CASE n # m
          <5>1. h[n] = g[n] /\ g[n] \in Nat
            BY <1>9, <2>2, <4>2
          <5> QED BY <5>1
        <4> QED BY <4>1, <4>2
      <3> QED BY <3>1
    <2>6. Projected(UsedFor(r), f) = Minus(UsedFor(r), c) + f.size
      BY DEF Projected
    <2> HIDE DEF g, h, m, c, t
    <2>7. /\ SumFunction(g) \in Nat /\ SumFunction(h) \in Nat /\ SumFunction(g) >= g[m]
          /\ SumFunction(h) + g[m] = SumFunction(g) + h[m]
      <3>1. g \in [Names -> Nat]
        BY <1>9
      <3> QED BY ONLY <2>2, <2>5, <3>1, ConstantsOK, SumChanged
    <2>8. SumFunction(h) = Minus(SumFunction(g), c) + f.size
      BY ONLY <2>3, <2>4, <2>7 DEF Minus
    <2> QED BY <1>9, <2>6, <2>8
  <1>12. UsedFor(r) \in Nat
    <2> HIDE DEF g
    <2> QED BY <1>9, ConstantsOK, SumIsNatural
  <1> HIDE DEF g, h, k
  <1>13. o \notin Success => UsedFor(r)' = UsedFor(r)
    BY <1>9, <1>10
  <1>14. \A n \in Names : LeftAt(r, n)' # {} => LeftAt(r, n) # {} \/ (o = "left" /\ n = f.name)
    BY <1>5
  <1> QED BY <1>11, <1>12, <1>13, <1>14

LEMMA PublishKeeps ==
  ASSUME UploadInv, UNCHANGED kind, NEW r \in Requests, Publish(r)
  PROVE  UploadInv'
  <1>0. PICK f : f = staged[r][Len(outcomes[r]) + 1]
    OBVIOUS
  <1>1. TypeOK /\ UsageIsExact /\ WritersInv /\ StagedInv /\ LeftInv /\ RefusalInv
    BY Parts
  <1>2. /\ f \in Staged /\ Len(outcomes[r]) + 1 \in DOMAIN staged[r] /\ lock = r
        /\ outcomes[r] \in Seq(Outcomes) /\ faults' \in 0 .. MaxFaults
        /\ files' \in [Names -> Entry \cup {None}]
    BY <1>0, OnePublished
  <1>2a. PICK o \in Outcomes : ComesOf(r, f, o)
    BY <1>0, OnePublished
  <1>3. /\ outcomes' = [outcomes EXCEPT ![r] = Append(outcomes[r], o)]
        /\ o \in {"created", "replaced", "left"} =>
              files' = [files EXCEPT ![f.name] = [size |-> f.size, by |-> r]]
        /\ o \notin {"created", "replaced", "left"} => files' = files
        /\ o \in Success => verdict = "measured" /\ usage' = Projected(usage, f)
        /\ o \notin Success => usage' = usage
    BY <1>2a DEF ComesOf
  <1>4. UNCHANGED <<kind, trash, pc, leases, staged, incoming, lock, verdict, gone>>
    BY DEF Publish
  <1>5. /\ UsedFor(r) \in Nat
        /\ o \notin Success => UsedFor(r)' = UsedFor(r)
        /\ o \in Success => UsedFor(r)' = Projected(UsedFor(r), f)
        /\ \A n \in Names : LeftAt(r, n)' # {} => LeftAt(r, n) # {} \/ (o = "left" /\ n = f.name)
    BY <1>0, <1>2a, <1>4, CountedAfter
  <1>6. pc[r] = "publish" /\ Len(outcomes[r]) < Len(staged[r])
    BY DEF Publish
  <1>7. f.name \in Names /\ f.size \in Nat /\ Charge(f.expected) \in Nat
    <2>1. f.name \in Names /\ f.size \in Nat /\ f.expected \in Entry \cup {None}
      BY <1>2 DEF Staged
    <2> QED BY <2>1, ChargeIsNatural
  <1>8. usage' \in Nat
    BY <1>1, <1>3, <1>7 DEF TypeOK, Projected, Minus
  <1>9. TypeOK'
    <2>1. Append(outcomes[r], o) \in Seq(Outcomes)
      BY <1>2
    <2>2. outcomes' \in [Requests -> Seq(Outcomes)]
      BY <1>1, <1>3, <2>1 DEF TypeOK
    <2> QED BY <1>1, <1>2, <1>4, <1>8, <2>2 DEF TypeOK
  <1>10. WritersInv'
    BY <1>1, <1>4 DEF WritersInv
  <1>11. UsageIsExact'
    <2> SUFFICES ASSUME verdict = "measured" PROVE usage' = UsedFor(r)'
      BY <1>2, <1>4 DEF UsageIsExact
    <2>1. usage = UsedFor(r)
      BY <1>1, <1>2 DEF UsageIsExact
    <2> QED BY <1>3, <1>5, <2>1
  <1>12. RefusalInv'
    <2> SUFFICES ASSUME verdict = "quota_exceeded", NEW k \in DOMAIN staged[r]
                 PROVE  UsedFor(r)' > Limit + Charge(staged[r][k].expected)
      BY <1>2, <1>4 DEF RefusalInv
    <2>1. UsedFor(r)' = UsedFor(r)
      BY <1>3, <1>5
    <2> QED BY <1>1, <1>2, <2>1 DEF RefusalInv
  <1>13. ASSUME NEW w \in Requests, w # r PROVE pc[w] # "publish" /\ outcomes'[w] = outcomes[w]
    <2>1. pc[w] # "publish"
      BY <1>1, <1>2, <1>13 DEF WritersInv
    <2> QED BY <1>1, <1>3, <1>13, <2>1 DEF TypeOK
  <1>14. StagedInv'
    <2> SUFFICES ASSUME NEW w \in Requests, pc[w] \notin {"publish", "reply", "done"},
                        NEW n \in Names
                 PROVE  Foreign(w, files'[n]) /\ Foreign(w, trash[n])
      BY <1>1, <1>4, <1>6, <1>13 DEF StagedInv, Foreign
    <2>1. w # r /\ Foreign(w, files[n]) /\ Foreign(w, trash[n])
      BY <1>1, <1>6 DEF StagedInv
    <2>2. files'[n] = files[n] \/ files'[n] = [size |-> f.size, by |-> r]
      BY <1>1, <1>3 DEF TypeOK
    <2> QED BY <2>1, <2>2 DEF Foreign
  <1>15. LeftInv'
    <2>1. Len(outcomes'[r]) <= Len(staged[r])
      <3>1. outcomes'[r] = Append(outcomes[r], o) /\ Len(staged[r]) \in Nat
        BY <1>1, <1>3 DEF TypeOK
      <3>2. Len(outcomes'[r]) = Len(outcomes[r]) + 1
        BY <1>2, <3>1
      <3> QED BY <1>2, <1>6, <3>1, <3>2
    <2>2. ASSUME NEW n \in Names, LeftAt(r, n)' # {} PROVE ~Foreign(r, files'[n])
      <3>1. [size |-> f.size, by |-> r] # None
        <4>1. [size |-> f.size, by |-> r] \in Entry
          BY <1>7 DEF Entry
        <4> QED BY <4>1, ConstantsOK
      <3>2. CASE o \in {"created", "replaced", "left"} /\ n = f.name
        <4>1. files'[n] = [size |-> f.size, by |-> r]
          BY <1>1, <1>3, <3>2 DEF TypeOK
        <4> QED BY <3>1, <4>1 DEF Foreign
      <3>3. CASE ~(o \in {"created", "replaced", "left"} /\ n = f.name)
        <4>1. files'[n] = files[n] /\ LeftAt(r, n) # {}
          BY <1>1, <1>3, <1>5, <2>2, <3>3 DEF TypeOK
        <4>2. ~Foreign(r, files[n])
          BY <1>1, <1>6, <4>1 DEF LeftInv
        <4> QED BY <4>1, <4>2 DEF Foreign
      <3> QED BY <3>2, <3>3
    <2> QED BY <1>4, <1>13, <2>1, <2>2 DEF LeftInv, Foreign
  <1> QED BY <1>9, <1>10, <1>11, <1>12, <1>14, <1>15 DEF UploadInv, QuotaSound

\* A request that ends has nothing more to account for.
LEMMA EndKeeps ==
  ASSUME UploadInv, UNCHANGED kind, NEW r \in Requests, Unlock(r) \/ Reply(r) \/ Disconnect(r)
  PROVE  UploadInv'
  <1>1. TypeOK /\ UsageIsExact /\ WritersInv /\ StagedInv /\ LeftInv /\ RefusalInv
    BY Parts
  <1>2. <<>> \in Seq(Outcomes) /\ <<>> \in Seq(Staged) /\ Len(<<>>) <= MaxFiles /\ DOMAIN <<>> = {}
    BY ConstantsOK
  <1>3. CASE Unlock(r)
    <2>1. lock = r
      BY <1>1, <1>3 DEF WritersInv, Unlock
    <2>2. TypeOK'
      <3>1. outcomes' \in [Requests -> Seq(Outcomes)] /\ pc' \in [Requests -> Labels]
        BY <1>1, <1>2, <1>3 DEF TypeOK, Unlock, Goto, Labels
      <3>2. staged' \in [Requests -> Seq(Staged)] /\ \A q \in Requests : Len(staged'[q]) <= MaxFiles
        BY <1>1, <1>2, <1>3 DEF TypeOK, Unlock
      <3> QED BY <1>1, <1>3, <3>1, <3>2 DEF TypeOK, Unlock
    <2>3. ASSUME NEW q \in Requests, q # r
          PROVE  /\ pc'[q] = pc[q] /\ staged'[q] = staged[q] /\ incoming'[q] = incoming[q]
                 /\ outcomes'[q] = outcomes[q] /\ pc[q] \notin {"measure", "publish"}
      BY <1>1, <1>3, <2>1, <2>3 DEF TypeOK, Unlock, Goto, WritersInv
    <2>4. pc'[r] \in {"done", "reply"} /\ lock' = None /\ verdict' = "none" /\ staged'[r] = <<>>
      BY <1>1, <1>3 DEF TypeOK, Unlock, Goto
    <2>5. WritersInv'
      BY <1>1, <2>3, <2>4, ConstantsOK DEF WritersInv
    <2>6. UsageIsExact' /\ RefusalInv'
      BY <2>4 DEF UsageIsExact, RefusalInv
    <2>7. pc'[r] = "done" => outcomes'[r] = <<>>
      BY <1>1, <1>3 DEF TypeOK, Unlock, Goto
    <2>8. UNCHANGED <<files, trash, incoming>>
      BY <1>3 DEF Unlock
    <2>9. StagedInv'
      <3> SUFFICES ASSUME NEW w \in Requests
                   PROVE  /\ \A k \in DOMAIN staged'[w] : Foreign(w, staged'[w][k].expected)
                          /\ incoming[w] \in Staged => Foreign(w, incoming[w].expected)
                          /\ pc'[w] \notin {"publish", "reply", "done"} =>
                                \A n \in Names : Foreign(w, files[n]) /\ Foreign(w, trash[n])
                          /\ pc'[w] \notin {"publish", "reply"} => outcomes'[w] = <<>>
        BY <2>8 DEF StagedInv, Foreign
      <3>1. CASE w = r
        BY <1>1, <1>2, <2>4, <2>7, <3>1 DEF StagedInv
      <3>2. CASE w # r
        BY <1>1, <2>3, <3>2 DEF StagedInv
      <3> QED BY <3>1, <3>2
    <2>10. LeftInv'
      BY <2>3, <2>4 DEF LeftInv
    <2> QED BY <2>2, <2>5, <2>6, <2>9, <2>10 DEF UploadInv, QuotaSound
  <1>4. CASE Reply(r) \/ Disconnect(r)
    <2>1. UNCHANGED <<files, trash, staged, incoming, lock, verdict, usage, faults>>
      BY <1>4 DEF Reply, Disconnect, quota
    <2>2. \/ pc' = pc /\ outcomes' = outcomes
          \/ /\ pc[r] = "reply" /\ pc' = [pc EXCEPT ![r] = "done"]
             /\ outcomes' = [outcomes EXCEPT ![r] = <<>>]
      BY <1>4 DEF Reply, Disconnect, Goto
    <2>3. TypeOK'
      <3>1. outcomes' \in [Requests -> Seq(Outcomes)]
        BY <1>1, <1>2, <2>2 DEF TypeOK
      <3>2. leases' \subseteq Requests /\ gone' \subseteq Requests
        BY <1>1, <1>4 DEF TypeOK, Reply, Disconnect
      <3>3. pc' \in [Requests -> Labels]
        BY <1>1, <2>2 DEF TypeOK, Labels
      <3> QED BY <1>1, <2>1, <3>1, <3>2, <3>3 DEF TypeOK
    <2>4. WritersInv'
      BY <1>1, <2>1, <2>2 DEF WritersInv, TypeOK
    <2>5. ASSUME NEW w \in Requests
          PROVE  \/ pc'[w] = pc[w] /\ outcomes'[w] = outcomes[w]
                 \/ pc[w] = "reply" /\ pc'[w] = "done" /\ outcomes'[w] = <<>> /\ lock # w
      <3>1. pc[w] = "reply" => lock # w
        BY <1>1 DEF WritersInv
      <3> QED BY <1>1, <2>2, <3>1 DEF TypeOK
    <2>6. ASSUME NEW w \in Requests, lock = w
          PROVE  UsedFor(w)' = UsedFor(w)
      BY <2>1, <2>5, <2>6, UsedForStays DEF share
    <2>7. UsageIsExact' /\ RefusalInv'
      BY <1>1, <2>1, <2>6 DEF UsageIsExact, RefusalInv
    <2>8. StagedInv'
      BY <1>1, <2>1, <2>5 DEF StagedInv, Foreign
    <2>9. LeftInv'
      BY <1>1, <2>1, <2>5 DEF LeftInv, LeftAt, Foreign
    <2> QED BY <2>3, <2>4, <2>7, <2>8, <2>9 DEF UploadInv, QuotaSound
  <1> QED BY <1>3, <1>4

\* The others change the share only while nobody has measured it.
LEMMA OthersKeep ==
  ASSUME UploadInv, UNCHANGED kind, NEW n \in Names, MoveToTrash(n) \/ Restore(n) \/ Purge(n)
  PROVE  UploadInv'
  <1>1. TypeOK /\ UsageIsExact /\ WritersInv /\ StagedInv /\ LeftInv /\ RefusalInv
    BY Parts
  <1>2. lock = None /\ Others
    BY DEF MoveToTrash, Restore, Purge
  <1>3. verdict = "none" /\ verdict' = "none"
    BY <1>1, <1>2 DEF WritersInv, Others, quota
  <1>4. files' \in [Names -> Entry \cup {None}] /\ trash' \in [Names -> Entry \cup {None}]
    BY <1>1 DEF MoveToTrash, Restore, Purge, TypeOK
  <1>5. TypeOK'
    BY <1>1, <1>2, <1>4 DEF TypeOK, Others, quota
  <1>6. WritersInv'
    BY <1>1, <1>2 DEF WritersInv, Others, quota
  <1>7. UsageIsExact' /\ RefusalInv'
    BY <1>3 DEF UsageIsExact, RefusalInv
  <1>8. \A w \in Requests : pc[w] # "publish"
    BY <1>1, <1>2, ConstantsOK DEF WritersInv
  <1>9. StagedInv'
    <2>1. \A m \in Names : files'[m] \in {None, files[m], trash[m]} /\ trash'[m] \in {None, files[m], trash[m]}
      BY <1>1 DEF MoveToTrash, Restore, Purge, TypeOK
    <2> QED BY <1>1, <1>2, <2>1 DEF StagedInv, Foreign, Others
  <1>10. LeftInv'
    BY <1>2, <1>8 DEF LeftInv, Others
  <1> QED BY <1>5, <1>6, <1>7, <1>9, <1>10 DEF UploadInv, QuotaSound

LEMMA StepKeeps ==
  ASSUME UploadInv, [Next]_vars
  PROVE  UploadInv'
  <1>1. CASE UNCHANGED vars
    <2>1. UNCHANGED vars /\ TypeOK /\ UsageIsExact /\ WritersInv /\ StagedInv /\ LeftInv /\ RefusalInv
      BY <1>1, Parts
    <2>2. TypeOK' /\ WritersInv' /\ StagedInv'
      BY <2>1 DEF vars, TypeOK, WritersInv, StagedInv, Foreign
    <2>3. \A r \in Requests : UsedFor(r)' = UsedFor(r)
      BY <2>1, UsedForStays DEF vars, share
    <2>4. UsageIsExact' /\ RefusalInv'
      BY <2>1, <2>3 DEF vars, UsageIsExact, RefusalInv
    <2>5. LeftInv'
      BY <2>1 DEF vars, LeftInv, LeftAt, Foreign
    <2> QED BY <2>2, <2>4, <2>5 DEF UploadInv, QuotaSound
  <1>2. CASE Next
    <2>1. UNCHANGED kind
      BY <1>2 DEF Next
    <2>2. CASE \E n \in Names : MoveToTrash(n) \/ Restore(n) \/ Purge(n)
      BY <2>1, <2>2, OthersKeep
    <2>3. ASSUME NEW r \in Requests,
                 \/ Admit(r) \/ Busy(r) \/ Receive(r) \/ Fail(r) \/ TimeOut(r)
                 \/ Lock(r) \/ Commit(r) \/ Disconnect(r)
          PROVE  UploadInv'
      BY <2>1, <2>3, ReceiveKeeps, LockKeeps, MeasureKeeps, PublishKeeps, EndKeeps DEF Commit
    <2> QED BY <1>2, <2>2, <2>3 DEF Next
  <1> QED BY <1>1, <1>2

LEMMA InitKeeps == Init => UploadInv
  <1> SUFFICES ASSUME Init PROVE UploadInv
    OBVIOUS
  <1>1. <<>> \in Seq(Outcomes) /\ <<>> \in Seq(Staged) /\ Len(<<>>) <= MaxFiles /\ DOMAIN <<>> = {}
    BY ConstantsOK
  <1>2. PICK start \in Starts : kind = start.kind /\ files = start.files
    BY DEF Init
  <1>3. kind \in [Requests -> Kinds] /\ files \in [Names -> [size : Nat, by : {None}] \cup {None}]
    BY <1>2, UploadAssumption
  <1>4. files \in [Names -> Entry \cup {None}] /\ \A r \in Requests : \A n \in Names : Foreign(r, files[n])
    BY <1>3, ConstantsOK DEF Entry, Foreign
  <1>5. TypeOK
    BY <1>1, <1>3, <1>4, ConstantsOK DEF Init, TypeOK, Labels
  <1>6. StagedInv
    BY <1>1, <1>4, ConstantsOK DEF Init, StagedInv, Foreign
  <1>7. WritersInv /\ RefusalInv /\ UsageIsExact /\ LeftInv
    BY ConstantsOK DEF Init, WritersInv, RefusalInv, UsageIsExact, LeftInv
  <1> QED BY <1>5, <1>6, <1>7 DEF UploadInv, QuotaSound

-----------------------------------------------------------------------------

\* While a request publishes its files (publish_staged), the figure that it carries
\* from file to file is what a new measurement of share and Trash would come to, if
\* the publications that failed had left in place what was there.
THEOREM QuotaAlwaysSound == Spec => []QuotaSound
  <1>1. UploadInv => QuotaSound
    BY DEF UploadInv
  <1> QED BY <1>1, InitKeeps, StepKeeps, PTL DEF Spec

\* Every file of an upload is judged as by a measurement of its own, but for what the
\* failed publications of the same upload left: within_quota refuses none that fits,
\* and what is published leaves the share within its limit.
THEOREM FilesAreJudgedAlone == Spec => JudgedAlone
  <1> DEFINE Fair(r, k) == /\ outcomes'[r][k] = "quota_exceeded" => ~ Fits(UsedFor(r), staged[r][k])
                           /\ outcomes'[r][k] \in {"created", "replaced"} => UsedFor(r)' <= Limit
             Judged == \A r \in Requests : \A k \in 1 .. MaxFiles : Published(r, k) => Fair(r, k)
  <1>1. ASSUME UploadInv, [Next]_vars PROVE [Judged]_vars
    <2> SUFFICES ASSUME Next, NEW r \in Requests, NEW k \in 1 .. MaxFiles, Published(r, k)
                 PROVE  Fair(r, k)
      BY <1>1
    <2>0. PICK f : f = staged[r][Len(outcomes[r]) + 1]
      OBVIOUS
    <2>1. TypeOK /\ UsageIsExact /\ WritersInv /\ StagedInv /\ LeftInv /\ RefusalInv
      BY <1>1, Parts
    <2>2. outcomes[r] \in Seq(Outcomes) /\ Len(outcomes'[r]) > Len(outcomes[r]) /\ k = Len(outcomes'[r])
      BY <2>1 DEF Published, TypeOK
    <2>3. outcomes' # outcomes /\ ~(outcomes'[r] = <<>>)
      BY <2>2
    <2>4. Publish(r)
      <3>1. ASSUME NEW q \in Requests,
                   Admit(q) \/ Busy(q) \/ Receive(q) \/ Fail(q) \/ TimeOut(q) \/ Lock(q) \/ Measure(q)
            PROVE  outcomes' = outcomes
        BY <3>1 DEF Admit, Busy, Receive, Fail, TimeOut, Lock, Measure, Abandon, Chunk, EndFile, EndBody,
                    Field, Single
      <3>2. ASSUME NEW q \in Requests, Unlock(q) \/ Reply(q) \/ Disconnect(q)
            PROVE  outcomes' = outcomes \/ outcomes' = [outcomes EXCEPT ![q] = <<>>]
        BY <3>2 DEF Unlock, Reply, Disconnect
      <3>3. ASSUME NEW n \in Names, MoveToTrash(n) \/ Restore(n) \/ Purge(n)
            PROVE  outcomes' = outcomes
        BY <3>3 DEF MoveToTrash, Restore, Purge, Others
      <3>4. ASSUME NEW q \in Requests, outcomes' = [outcomes EXCEPT ![q] = <<>>]
            PROVE  FALSE
        BY <2>1, <2>2, <2>3, <3>4 DEF TypeOK
      <3>5. PICK q \in Requests : Publish(q)
        BY <2>3, <3>1, <3>2, <3>3, <3>4 DEF Next, Commit
      <3>6. \E o : outcomes' = [outcomes EXCEPT ![q] = Append(outcomes[q], o)]
        BY <3>5 DEF Publish
      <3>7. q # r => outcomes'[r] = outcomes[r]
        BY <2>1, <3>6 DEF TypeOK
      <3> QED BY <2>2, <3>5, <3>7
    <2>5. f \in Staged /\ Len(outcomes[r]) + 1 \in DOMAIN staged[r] /\ lock = r
      BY <1>1, <2>0, <2>4, OnePublished
    <2>6. PICK o \in Outcomes : ComesOf(r, f, o)
      BY <1>1, <2>0, <2>4, OnePublished
    <2>7. k = Len(outcomes[r]) + 1 /\ outcomes'[r][k] = o /\ staged[r][k] = f
      <3>1. outcomes'[r] = Append(outcomes[r], o)
        BY <2>1, <2>6 DEF TypeOK, ComesOf
      <3>2. Len(outcomes'[r]) = Len(outcomes[r]) + 1
        BY <2>2, <3>1
      <3>3. k = Len(outcomes[r]) + 1
        BY <2>2, <3>2
      <3>4. outcomes'[r][k] = o
        BY <2>2, <3>1, <3>3
      <3> QED BY <2>0, <3>3, <3>4
    <2>8. UNCHANGED trash
      BY <2>4 DEF Publish
    <2>9. UsedFor(r) \in Nat /\ (o \in Success => UsedFor(r)' = Projected(UsedFor(r), f))
      BY <1>1, <2>0, <2>4, <2>6, <2>8, CountedAfter
    <2>10. verdict = "measured" => usage = UsedFor(r)
      BY <2>1, <2>5 DEF UsageIsExact
    <2>11. ASSUME o = "quota_exceeded" PROVE ~Fits(UsedFor(r), f)
      <3>1. CASE verdict = "measured"
        BY <2>6, <2>10, <2>11, <3>1 DEF ComesOf
      <3>2. CASE verdict = "quota_exceeded"
        <4>1. UsedFor(r) > Limit + Charge(f.expected)
          BY <2>1, <2>5, <2>7, <3>2 DEF RefusalInv
        <4>2. Charge(f.expected) \in Nat /\ f.size \in Nat
          <5>1. f.expected \in Entry \cup {None} /\ f.size \in Nat
            BY <2>5 DEF Staged
          <5> QED BY <5>1, ChargeIsNatural
        <4> QED BY <2>9, <4>1, <4>2, ConstantsOK DEF Fits, Projected, Minus
      <3> QED BY <2>6, <2>11, <3>1, <3>2 DEF ComesOf
    <2>12. ASSUME o \in Success PROVE UsedFor(r)' <= Limit
      BY <2>6, <2>9, <2>10, <2>12 DEF Fits, ComesOf
    <2> QED BY <2>7, <2>11, <2>12 DEF Success
  <1>2. JudgedAlone <=> [][Judged]_vars
    BY DEF JudgedAlone
  <1> HIDE DEF Judged
  <1> QED BY <1>1, <1>2, InitKeeps, StepKeeps, PTL DEF Spec
=============================================================================
