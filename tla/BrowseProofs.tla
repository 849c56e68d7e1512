----------------------------- MODULE BrowseProofs -----------------------------
(* Proofs about Browse, for any tree, files, walkers, limits and times, and  *)
(* about SubjectGate: the two parts of src/browse.rs that keep state.        *)
EXTENDS Browse, SubjectGate, FiniteSetTheorems, SequenceTheorems, WellFoundedInduction, TLAPS

(* Sums.  SumFunction is a fold, which is a choice of a recursive function on *)
(* subsets: what is shown of it is shown of a smallest counterexample.  The   *)
(* lemmas are those of ArchivesProofs, which cannot be shared: a module that  *)
(* holds them alone would be one more to prove.                               *)

\* Naturals that index a set have a least one.
LEMMA LeastIndexed ==
  ASSUME NEW S, S # {}, NEW f \in [S -> Nat]
  PROVE  \E x \in S : \A y \in S : f[x] <= f[y]
  <1> DEFINE R == OpToRel(<, Nat)
             T == {f[x] : x \in S}
  <1>1. IsWellFoundedOn(R, Nat)
    BY NatLessThanWellFounded
  <1>2. \A a, b \in Nat : a < b => <<a, b>> \in R
    BY DEF OpToRel
  <1> HIDE DEF R
  <1>3. T \subseteq Nat /\ T # {}
    OBVIOUS
  <1>4. PICK m \in T : \A n \in T : <<n, m>> \notin R
    <2> HIDE DEF T
    <2> QED BY <1>1, <1>3, WFMin
  <1>5. \A n \in T : m <= n
    <2>1. \A n \in T : ~(n < m)
      BY <1>2, <1>3, <1>4
    <2> QED BY <1>3, <2>1
  <1> QED BY <1>5

First(s) == CHOOSE x \in s : TRUE
Rest(s) == s \ {First(s)}

\* Such a sum, of what f is on D, is what SumFunction takes of it.
Sums(sum, f, D) == sum = [s \in SUBSET D |->
                             IF s = {} THEN 0 ELSE f[First(s)] + sum[s \ {First(s)}]]
SumOn(f, D) == (CHOOSE sum : Sums(sum, f, D))[D]

\* A set that is not empty has a first element, without which it is smaller.
LEMMA RestIsSmaller ==
  ASSUME NEW D, IsFiniteSet(D), NEW s \in SUBSET D
  PROVE  /\ Cardinality(s) \in Nat /\ Cardinality(s) <= Cardinality(D)
         /\ (s = {} <=> Cardinality(s) = 0)
         /\ s # {} => /\ First(s) \in s /\ Rest(s) \in SUBSET D
                      /\ Cardinality(Rest(s)) = Cardinality(s) - 1
  <1>1. IsFiniteSet(s) /\ Cardinality(s) <= Cardinality(D)
    BY FS_Subset
  <1>2. Cardinality(s) \in Nat /\ (s = {} <=> Cardinality(s) = 0)
    BY <1>1, FS_CardinalityType, FS_EmptySet
  <1>3. s # {} => First(s) \in s
    BY DEF First
  <1>4. s # {} => Cardinality(Rest(s)) = Cardinality(s) - 1
    BY <1>1, <1>3, FS_RemoveElement DEF Rest
  <1> QED BY <1>1, <1>2, <1>3, <1>4 DEF Rest

\* The recursive definition has a solution.
LEMMA SumExists ==
  ASSUME NEW f, NEW D, IsFiniteSet(D)
  PROVE  \E sum : Sums(sum, f, D)
  <1> DEFINE Small(n) == {s \in SUBSET D : Cardinality(s) <= n}
             Solves(g, n) == g = [s \in Small(n) |-> IF s = {} THEN 0 ELSE f[First(s)] + g[Rest(s)]]
             Bad == {n \in Nat : ~\E g : Solves(g, n)}
  <1>1. ASSUME Bad # {} PROVE FALSE
    <2> DEFINE id == [n \in Bad |-> n]
    <2>1. PICK n \in Bad : \A m \in Bad : n <= m
      <3>1. id \in [Bad -> Nat]
        OBVIOUS
      <3>2. \E n \in Bad : \A m \in Bad : id[n] <= id[m]
        <4> HIDE DEF id, Bad
        <4> QED BY <1>1, <3>1, LeastIndexed
      <3> QED BY <3>2
    <2>2. CASE n = 0
      <3> DEFINE g == [s \in Small(0) |-> 0]
      <3>1. \A s \in Small(0) : s = {}
        <4> TAKE s \in Small(0)
        <4>1. Cardinality(s) \in Nat /\ (s = {} <=> Cardinality(s) = 0)
          BY RestIsSmaller
        <4> QED BY <4>1
      <3>2. Solves(g, 0)
        BY <3>1
      <3> QED BY <2>1, <2>2, <3>2
    <2>3. CASE n # 0
      <3>1. n \in Nat /\ n - 1 \in Nat /\ n - 1 \notin Bad
        <4>1. n \in Nat
          OBVIOUS
        <4> HIDE DEF Bad
        <4>2. n - 1 \in Nat /\ ~(n <= n - 1)
          BY <2>3, <4>1
        <4> QED BY <2>1, <4>1, <4>2
      <3>2. PICK g : Solves(g, n - 1)
        BY <3>1
      <3> DEFINE h == [s \in Small(n) |-> IF s = {} THEN 0 ELSE f[First(s)] + g[Rest(s)]]
      <3>3. \A s \in Small(n) : s # {} => Rest(s) \in Small(n - 1)
        <4> TAKE s \in Small(n)
        <4> HAVE s # {}
        <4>1. Cardinality(s) \in Nat /\ Rest(s) \in SUBSET D /\ Cardinality(Rest(s)) = Cardinality(s) - 1
          BY RestIsSmaller
        <4> QED BY <3>1, <4>1
      <3>4. Small(n - 1) \subseteq Small(n)
        <4>1. \A s \in Small(n - 1) : Cardinality(s) \in Nat
          BY RestIsSmaller
        <4> QED BY <3>1, <4>1
      <3>5. \A s \in Small(n - 1) : h[s] = g[s]
        <4> HIDE DEF Small
        <4> QED BY <3>2, <3>4
      <3>6. Solves(h, n)
        <4> HIDE DEF Small
        <4>1. \A s \in Small(n) : s # {} => h[Rest(s)] = g[Rest(s)]
          BY <3>3, <3>5
        <4> QED BY <4>1
      <3> HIDE DEF Solves, h
      <3> QED BY <2>1, <3>6
    <2> QED BY <2>2, <2>3
  <1>2. Cardinality(D) \in Nat
    BY FS_CardinalityType
  <1>3. PICK g : Solves(g, Cardinality(D))
    BY <1>1, <1>2
  <1>4. Small(Cardinality(D)) = SUBSET D
    BY RestIsSmaller
  <1> HIDE DEF Small
  <1> QED BY <1>3, <1>4 DEF Sums, Rest

\* Two sums of what is the same on S are the same on S.
LEMMA SumsAgree ==
  ASSUME NEW D, IsFiniteSet(D), NEW S \in SUBSET D, NEW f, NEW g, \A x \in S : f[x] = g[x],
         NEW F, Sums(F, f, D), NEW G, Sums(G, g, S)
  PROVE  F[S] = G[S]
  <1> DEFINE Bad == {s \in SUBSET S : F[s] # G[s]}
             size == [s \in Bad |-> Cardinality(s)]
  <1>1. \A s \in SUBSET S : /\ F[s] = IF s = {} THEN 0 ELSE f[First(s)] + F[Rest(s)]
                            /\ G[s] = IF s = {} THEN 0 ELSE g[First(s)] + G[Rest(s)]
    BY DEF Sums, Rest
  <1>2. IsFiniteSet(S)
    BY FS_Subset
  <1>3. ASSUME Bad # {} PROVE FALSE
    <2>1. size \in [Bad -> Nat]
      BY <1>2, RestIsSmaller
    <2>2. PICK s \in Bad : \A t \in Bad : size[s] <= size[t]
      <3> HIDE DEF size, Bad
      <3> QED BY <1>3, <2>1, LeastIndexed
    <2>3. s \in SUBSET S /\ F[s] # G[s] /\ \A t \in SUBSET S : F[t] # G[t] => Cardinality(s) <= Cardinality(t)
      BY <2>2
    <2> HIDE DEF Bad, size
    <2>4. s # {}
      BY <1>1, <2>3
    <2>5. /\ Cardinality(s) \in Nat /\ First(s) \in s /\ Rest(s) \in SUBSET S
          /\ Cardinality(Rest(s)) = Cardinality(s) - 1
      BY <1>2, <2>3, <2>4, RestIsSmaller
    <2>6. F[Rest(s)] = G[Rest(s)]
      BY <2>3, <2>5
    <2>7. f[First(s)] = g[First(s)]
      BY <2>3, <2>5
    <2> QED BY <1>1, <2>3, <2>4, <2>6, <2>7
  <1> QED BY <1>3

\* So the sum depends on what is summed only.
LEMMA SumOnAgrees ==
  ASSUME NEW S, IsFiniteSet(S), NEW f, NEW g, \A x \in S : f[x] = g[x]
  PROVE  SumOn(f, S) = SumOn(g, S)
  <1>1. Sums(CHOOSE sum : Sums(sum, f, S), f, S) /\ Sums(CHOOSE sum : Sums(sum, g, S), g, S)
    BY SumExists
  <1> QED BY SMTT(30), <1>1, SumsAgree DEF SumOn

\* Whatever order the elements are taken in, one more adds itself.
LEMMA SumInserts ==
  ASSUME NEW D, IsFiniteSet(D), NEW f, \A x \in D : f[x] \in Nat
  PROVE  \A S \in SUBSET D : SumOn(f, S) \in Nat /\ \A x \in D \ S : SumOn(f, S \cup {x}) = SumOn(f, S) + f[x]
  <1> DEFINE F == CHOOSE sum : Sums(sum, f, D)
             Good(s) == F[s] \in Nat /\ \A x \in D \ s : F[s \cup {x}] = F[s] + f[x]
             Bad == {s \in SUBSET D : ~Good(s)}
             size == [s \in Bad |-> Cardinality(s)]
  <1>1. Sums(F, f, D)
    BY SumExists
  <1> HIDE DEF F
  <1>2. \A s \in SUBSET D : F[s] = IF s = {} THEN 0 ELSE f[First(s)] + F[Rest(s)]
    BY <1>1 DEF Sums, Rest
  <1>3. ASSUME Bad # {} PROVE FALSE
    <2>1. size \in [Bad -> Nat]
      BY RestIsSmaller
    <2>2. PICK s \in Bad : \A t \in Bad : size[s] <= size[t]
      <3> HIDE DEF size, Bad
      <3> QED BY <1>3, <2>1, LeastIndexed
    <2>3. s \in SUBSET D /\ ~Good(s) /\ \A t \in SUBSET D : ~Good(t) => Cardinality(s) <= Cardinality(t)
      BY <2>2
    <2> HIDE DEF Bad, size, Good
    <2>4. F[s] \in Nat
      <3>1. CASE s = {}
        <4>1. F[s] = 0
          BY <1>2, <2>3, <3>1
        <4> QED BY <4>1
      <3>2. CASE s # {}
        <4>1. /\ Cardinality(s) \in Nat /\ First(s) \in s /\ Rest(s) \in SUBSET D
              /\ Cardinality(Rest(s)) = Cardinality(s) - 1
          BY <2>3, <3>2, RestIsSmaller
        <4>2. F[Rest(s)] \in Nat /\ f[First(s)] \in Nat
          BY <2>3, <4>1 DEF Good
        <4> QED BY <1>2, <2>3, <3>2, <4>2
      <3> QED BY <3>1, <3>2
    <2>5. ASSUME NEW x \in D \ s PROVE F[s \cup {x}] = F[s] + f[x]
      <3> DEFINE t == s \cup {x}
                 y == First(t)
      <3>1. t \in SUBSET D /\ t # {} /\ y \in t
        <4>1. t \in SUBSET D /\ t # {}
          BY <2>3
        <4> QED BY <4>1, RestIsSmaller
      <3>2. F[t] = f[y] + F[t \ {y}]
        BY <1>2, <3>1 DEF Rest
      <3> HIDE DEF y
      <3>3. CASE y = x
        <4>1. t \ {y} = s
          BY <3>3
        <4>2. f[x] \in Nat
          BY <2>5
        <4> HIDE DEF t
        <4>3. F[t \ {y}] = F[s] /\ f[y] = f[x]
          BY <3>3, <4>1
        <4>4. F[t] = f[x] + F[s]
          BY <3>2, <4>3
        <4>5. f[x] + F[s] = F[s] + f[x]
          BY <2>4, <4>2
        <4>6. F[t] = F[s] + f[x]
          BY <4>4, <4>5
        <4> QED BY <4>6 DEF t
      <3>4. CASE y # x
        <4> DEFINE u == s \ {y}
        <4>1. y \in s /\ t \ {y} = u \cup {x} /\ s = u \cup {y} /\ x \in D \ u /\ y \in D \ u /\ u \in SUBSET D
          BY <2>3, <2>5, <3>1, <3>4
        <4>2. Cardinality(u) = Cardinality(s) - 1 /\ Cardinality(s) \in Nat
          <5>1. IsFiniteSet(s)
            BY <2>3, FS_Subset
          <5> QED BY <4>1, <5>1, FS_RemoveElement, FS_CardinalityType
        <4>3. Good(u)
          BY <2>3, <4>1, <4>2
        <4>4. F[u] \in Nat /\ F[u \cup {x}] = F[u] + f[x] /\ F[u \cup {y}] = F[u] + f[y]
          BY <4>1, <4>3 DEF Good
        <4>5. F[t] = f[y] + (F[u] + f[x]) /\ F[s] = F[u] + f[y]
          BY <3>2, <4>1, <4>4
        <4>6. f[x] \in Nat /\ f[y] \in Nat
          BY <4>1
        <4> HIDE DEF t, u
        <4>7. F[t] = F[s] + f[x]
          BY <4>4, <4>5, <4>6
        <4> QED BY <4>7 DEF t
      <3> QED BY <3>3, <3>4
    <2> QED BY <2>3, <2>4, <2>5 DEF Good
  <1>4. \A S \in SUBSET D : SumOn(f, S) = F[S]
    <2> TAKE S \in SUBSET D
    <2>1. IsFiniteSet(S)
      BY FS_Subset
    <2>2. Sums(CHOOSE sum : Sums(sum, f, S), f, S)
      BY <2>1, SumExists
    <2> QED BY <1>1, <2>2, SumsAgree DEF SumOn
  <1>5. \A S \in SUBSET D : Good(S)
    BY <1>3
  <1> QED BY ZenonT(60), <1>4, <1>5

\* The sum of nothing is 0.
LEMMA SumEmpty ==
  ASSUME NEW f
  PROVE  SumOn(f, {}) = 0
  <1>1. Sums(CHOOSE sum : Sums(sum, f, {}), f, {})
    BY SumExists, FS_EmptySet
  <1> QED BY <1>1 DEF Sums, SumOn

\* A sum over two parts that have nothing in common is the sum of both.
LEMMA SumUnion ==
  ASSUME NEW D, IsFiniteSet(D), NEW f, \A x \in D : f[x] \in Nat,
         NEW A \in SUBSET D, NEW B \in SUBSET D, A \cap B = {}
  PROVE  /\ SumOn(f, A) \in Nat /\ SumOn(f, B) \in Nat
         /\ SumOn(f, A \cup B) = SumOn(f, A) + SumOn(f, B)
  <1> DEFINE Bad == {s \in SUBSET B : SumOn(f, A \cup s) # SumOn(f, A) + SumOn(f, s)}
             size == [s \in Bad |-> Cardinality(s)]
  <1>1. \A S \in SUBSET D : SumOn(f, S) \in Nat /\ \A x \in D \ S : SumOn(f, S \cup {x}) = SumOn(f, S) + f[x]
    BY SumInserts
  <1>2. IsFiniteSet(B)
    BY FS_Subset
  <1>3. ASSUME Bad # {} PROVE FALSE
    <2>1. size \in [Bad -> Nat]
      BY <1>2, RestIsSmaller
    <2>2. PICK s \in Bad : \A t \in Bad : size[s] <= size[t]
      <3> HIDE DEF size, Bad
      <3> QED BY <1>3, <2>1, LeastIndexed
    <2>3. /\ s \in SUBSET B /\ SumOn(f, A \cup s) # SumOn(f, A) + SumOn(f, s)
          /\ \A t \in SUBSET B : Cardinality(s) <= Cardinality(t) \/ SumOn(f, A \cup t) = SumOn(f, A) + SumOn(f, t)
      BY <2>2
    <2> HIDE DEF Bad, size
    <2>4. s # {}
      <3> SUFFICES ASSUME s = {} PROVE FALSE
        OBVIOUS
      <3>1. A \cup s = A /\ SumOn(f, s) = 0
        BY SumEmpty
      <3>2. SumOn(f, A) \in Nat
        BY <1>1
      <3> QED BY <2>3, <3>1, <3>2
    <2> DEFINE x == First(s)
               t == Rest(s)
    <2>5. x \in s /\ t \in SUBSET B /\ Cardinality(t) = Cardinality(s) - 1 /\ Cardinality(s) \in Nat
      BY <1>2, <2>3, <2>4, RestIsSmaller
    <2>6. s = t \cup {x} /\ A \cup s = (A \cup t) \cup {x} /\ x \in D \ t /\ x \in D \ (A \cup t)
          /\ t \in SUBSET D /\ A \cup t \in SUBSET D
      BY <2>3, <2>5 DEF Rest
    <2> HIDE DEF x, t
    <2>7. SumOn(f, A \cup t) = SumOn(f, A) + SumOn(f, t)
      BY <2>3, <2>5
    <2>8. SumOn(f, s) = SumOn(f, t) + f[x] /\ SumOn(f, A \cup s) = SumOn(f, A \cup t) + f[x]
      BY <1>1, <2>6
    <2>9. SumOn(f, A) \in Nat /\ SumOn(f, t) \in Nat /\ f[x] \in Nat
      BY <1>1, <2>6
    <2> QED BY <2>3, <2>7, <2>8, <2>9
  <1>4. SumOn(f, A \cup B) = SumOn(f, A) + SumOn(f, B)
    BY <1>3
  <1> QED BY <1>1, <1>4

\* A part sums up to no more than the whole.
LEMMA SumOfPart ==
  ASSUME NEW D, IsFiniteSet(D), NEW f, \A x \in D : f[x] \in Nat, NEW A \in SUBSET D
  PROVE  SumOn(f, A) \in Nat /\ SumOn(f, D) \in Nat /\ SumOn(f, A) <= SumOn(f, D)
  <1> DEFINE B == D \ A
  <1>1. B \in SUBSET D /\ A \cap B = {} /\ A \cup B = D
    OBVIOUS
  <1> HIDE DEF B
  <1>2. SumOn(f, A) \in Nat /\ SumOn(f, B) \in Nat /\ SumOn(f, A \cup B) = SumOn(f, A) + SumOn(f, B)
    BY <1>1, SumUnion
  <1>3. SumOn(f, A \cup B) = SumOn(f, D)
    BY <1>1, Zenon
  <1> QED BY <1>2, <1>3

-----------------------------------------------------------------------------
(* The inductive invariant                                                   *)

\* The clock, the share and the event stream: what goes out was let through by the last
\* check of the session, which began before the session ended, or is not due before.
Phases == {"new", "opening", "open", "awake", "check", "answer", "read", "closed"}
Streams == [pc : Phases, deadline : Nat, nextCheck : Nat, queue : Seq(Nat), active : BOOLEAN,
            looked : Nat, opened : Nat, took : Nat, judged : Int, sent : Int]
Limit == (IF signedOut > stream.opened THEN signedOut ELSE stream.opened) + Interval + stream.took
FilesOf(d) == DOMAIN d \subseteq Files /\ \A x \in DOMAIN d : d[x] \in [size : Nat, id : Nat, open : BOOLEAN]
Checked ==
    /\ stream.nextCheck <= now + Interval
    /\ stream.opened \in 0 .. now /\ stream.looked \in 0 .. now
    /\ stream.sent \in -1 .. now /\ stream.judged \in -1 .. now
    /\ stream.pc = "answer" => stream.sent <= stream.looked
    /\ signedOut # -1 =>
          /\ stream.sent < Limit
          /\ stream.pc \in Listening => stream.nextCheck <= Limit
          /\ stream.pc = "read" => stream.judged < Limit
          /\ stream.pc = "answer" /\ stream.active => stream.looked <= signedOut
StreamInv ==
    /\ mix \in Mixes /\ now \in Nat /\ changes \in Nat /\ owing \in 0 .. changes /\ gen \in Nat
    /\ FilesOf(disk)
    /\ signedOut \in -1 .. now
    /\ stream \in Streams
    /\ Len(stream.queue) <= MaxQueue
    /\ stream.pc \notin Listening => stream.queue = <<>>
    /\ stream.queue # <<>> => \E f \in Files : Parent(f) = Watched
    /\ Checked

\* What a size, walked over S so far, must be; and when nobody promises it.
Sized(d) == [f \in Files |-> SizeAt(d, f)]
Agrees(d, s, S) == IF s.complete THEN s.bytes = SumOn(Sized(d), S)
                   ELSE s.bytes <= SumOn(Sized(d), S)
Grown(d, p) == \E f \in DOMAIN d : d[f].open /\ IsPrefix(p, f)
Honest(d, o, q, s, p, S) ==
    o > 0 \/ (q # <<>> /\ IsPrefix(p, Watched)) \/ s.excused \/ Grown(d, p) \/ Agrees(d, s, S)

Entry == [bytes : Nat, complete : BOOLEAN, stored : Nat, excused : BOOLEAN]
CacheInv ==
    /\ IsFiniteSet(DOMAIN cache) /\ DOMAIN cache \subseteq Folders
    /\ Cardinality(DOMAIN cache) <= Capacity
    /\ \A p \in DOMAIN cache :
          /\ cache[p] \in Entry /\ cache[p].stored <= now
          /\ Honest(disk, owing, stream.queue, cache[p], p, Beneath(p))
          /\ Beneath(p) = {} => cache[p].bytes = 0

Request == [pc : {"idle", "begin", "walk", "store"}, path : Folders, left : SUBSET Files, bytes : Nat,
            complete : BOOLEAN, started : Nat, waited : BOOLEAN, excused : BOOLEAN]

\* A walk that no invalidation has overtaken agrees with the files it has passed.
Fits(d, o, q, g, s) ==
    /\ s.left \subseteq Beneath(s.path) /\ s.started <= g
    /\ s.pc = "begin" => s.bytes = 0 /\ s.complete
    /\ s.pc = "store" => s.left = {}
    /\ s.pc \in {"walk", "store"} =>
          /\ Beneath(s.path) = {} => s.bytes = 0
          /\ s.started = g => Honest(d, o, q, s, s.path, Beneath(s.path) \ s.left)
WalksInv ==
    /\ walk \in [Walkers -> Request]
    /\ \A r \in Walkers : Fits(disk, owing, stream.queue, gen, walk[r])
    /\ Cardinality(InWalk) <= Slots

SizesInv == CacheInv /\ WalksInv

\* The pages that a client has are the beginning of the listing that its cursor names,
\* which has what is stable once each.
Child == [kind : {0, 1}, path : Children, id : Nat]
Tagged == [kind : {0, 1}, path : Children, id : Nat, at : Nat]
EntriesIn(d, p) ==
    IF p \in Folders THEN {[kind |-> 0, path |-> p, id |-> Name(p)]}
    ELSE IF p \in DOMAIN d THEN {[kind |-> 1, path |-> p, id |-> d[p].id]} ELSE {}
Single(s, e) == e \in Range(s) /\ \A i, j \in DOMAIN s : s[i].path = e.path /\ s[j].path = e.path => i = j
Steady(S, s) == \A e \in S : Single(s, e)
CursorFits(g, c) ==
    /\ c.offset <= Len(c.fingerprint)
    /\ g.pages = SubSeq(c.fingerprint, 1, c.offset)
    /\ Steady(g.stable, c.fingerprint)
Cursors == [offset : Nat, fingerprint : Seq(Child)]
Pages == [pc : {"idle", "scan", "more", "done"}, left : SUBSET (Children \cup Unlisted), scanned : Nat,
          got : SUBSET Tagged, cursor : Seq(Cursors), pages : Seq(Child),
          hidden : BOOLEAN, stable : SUBSET Child]

\* What is stable is yet to be read, or was read once; no two names were read at once.
Sole(S, e) == \E o \in S : Plain(o) = e /\ \A a \in S : a.path = e.path => a = o
Awaits(d, g, e) == e.path \in g.left /\ e \in EntriesIn(d, e.path) /\ \A o \in g.got : o.path # e.path
Gathers(d, g) ==
    /\ IsFiniteSet(g.got)
    /\ \A e \in g.got : e.at < g.scanned
    /\ \A e, o \in g.got : e.at = o.at => e = o
    /\ g.pc = "scan" /\ g.cursor = <<>> => \A e \in g.stable :
          /\ Awaits(d, g, e) \/ (e.path \notin g.left /\ Sole(g.got, e))
          /\ g.hidden \/ Name(e.path) \notin Hidden
Reads(g) ==
    /\ IF g.cursor = <<>> THEN g.pages = <<>> ELSE CursorFits(g, g.cursor[1])
    /\ g.pc \in {"more", "done"} => g.cursor # <<>>
    /\ g.pc = "done" => g.cursor[1].offset = Len(g.cursor[1].fingerprint)
    /\ g.pc = "idle" => g.cursor = <<>>
PageInv == page \in Pages /\ Gathers(disk, page) /\ Reads(page)

-----------------------------------------------------------------------------
(* Paths and queues                                                          *)

\* What the assumptions say of paths: a file has a name in a folder.
LEMMA PathsAreSequences ==
  /\ Files \subseteq Seq(Nat) /\ Folders \subseteq Seq(Nat) /\ Watched \in Seq(Nat) /\ Watched \in Folders
  /\ \A f \in Files : f # <<>> /\ Len(f) \in Nat \ {0} /\ Name(f) \in Nat
  <1>1. /\ Files \subseteq Seq(Nat) /\ Folders \subseteq Seq(Nat) /\ Watched \in Seq(Nat) /\ Watched \in Folders
    BY BrowseAssumption
  <1>2. ASSUME NEW f \in Files PROVE f # <<>> /\ Len(f) \in Nat \ {0} /\ Name(f) \in Nat
    <2>1. f # <<>>
      BY BrowseAssumption
    <2>2. f \in Seq(Nat) /\ Len(f) \in Nat \ {0}
      BY <1>1, <2>1, EmptySeq
    <2>3. f[Len(f)] \in Nat
      BY <2>2, ElementOfSeq
    <2> QED BY <2>1, <2>2, <2>3 DEF Name
  <1> QED BY <1>1, <1>2

\* The names of a sequence are finite in number.
LEMMA RangeIsFinite ==
  ASSUME NEW q \in Seq(Nat)
  PROVE  /\ IsFiniteSet(Range(q)) /\ Cardinality(Range(q)) \in Nat /\ Range(q) \subseteq Nat
         /\ q # <<>> => Range(q) # {} /\ Cardinality(Range(q)) > 0
  <1>1. Len(q) \in Nat /\ DOMAIN q = 1 .. Len(q) /\ q \in [1 .. Len(q) -> Nat]
    BY LenProperties
  <1>2. Range(q) = {q[i] : i \in 1 .. Len(q)}
    BY <1>1 DEF Range
  <1> DEFINE n == Len(q)
             S == Range(q)
  <1>3. q \in Surjection(1 .. n, S)
    BY <1>1, <1>2 DEF Surjection
  <1>4. IsFiniteSet(1 .. n)
    BY <1>1, FS_Interval
  <1>5. S \subseteq Nat
    BY <1>1, <1>2
  <1>6. q # <<>> => S # {}
    <2> SUFFICES ASSUME q # <<>> PROVE S # {}
      OBVIOUS
    <2>1. 1 \in 1 .. n
      BY <1>1, EmptySeq
    <2> QED BY <1>2, <2>1
  <1> HIDE DEF S, n
  <1>7. IsFiniteSet(S) /\ Cardinality(S) \in Nat
    BY <1>3, <1>4, FS_Surjection, FS_CardinalityType
  <1>8. S # {} => Cardinality(S) # 0
    BY <1>7, FS_EmptySet
  <1> QED BY <1>5, <1>6, <1>7, <1>8 DEF S

\* An event that is heard stays in the queue, if only as one that stands for many.
LEMMA QueueGrows ==
  ASSUME NEW q \in Seq(Nat), Len(q) <= MaxQueue, NEW e \in Nat
  PROVE  Queued(q, e) \in Seq(Nat) /\ Len(Queued(q, e)) <= MaxQueue /\ Queued(q, e) # <<>>
  <1>1. Len(q) \in Nat /\ MaxQueue \in Nat /\ MaxQueue > 0
    BY BrowseAssumption
  <1>2. \A x \in Nat : Append(q, x) \in Seq(Nat) /\ Len(Append(q, x)) = Len(q) + 1 /\ Append(q, x) # <<>>
    OBVIOUS
  <1>3. Len(q) >= MaxQueue => q # <<>>
    BY <1>1
  <1> QED BY <1>1, <1>2, <1>3 DEF Queued

\* The queue grows by what is reported, within its bound, and by nothing else.
LEMMA ToldGrows ==
  ASSUME NEW q \in Seq(Nat), Len(q) <= MaxQueue, NEW f \in Files
  PROVE  /\ Told(q, f) \in Seq(Nat) /\ Len(Told(q, f)) <= MaxQueue
         /\ Told(q, f) = <<>> => q = <<>>
         /\ Reported(f) => Told(q, f) # <<>>
         /\ ~Reported(f) => Told(q, f) = q
  <1>1. Name(f) \in Nat
    BY PathsAreSequences
  <1> QED BY <1>1, QueueGrows DEF Told

\* What a change does to the stream.
LEMMA StreamIsTold ==
  ASSUME StreamInv, NEW f \in Files, NEW g \in Files, stream' = Notified(f, g)
  PROVE  /\ stream' = [stream EXCEPT !.queue = stream'.queue]
         /\ stream'.queue \in Seq(Nat) /\ Len(stream'.queue) <= MaxQueue
         /\ stream'.queue = <<>> => stream.queue = <<>> /\ ~Reported(f) /\ ~Reported(g)
         /\ ~Reported(f) /\ ~Reported(g) => stream'.queue = stream.queue
  <1> DEFINE q == stream.queue
  <1>1. q \in Seq(Nat) /\ Len(q) <= MaxQueue
    BY DEF StreamInv, Streams
  <1>2. stream'.queue = (IF f = g THEN Told(q, f) ELSE Told(Told(q, f), g))
        /\ stream' = [stream EXCEPT !.queue = stream'.queue]
    BY DEF StreamInv, Streams, Notified
  <1> HIDE DEF q
  <1>3. CASE f = g
    BY <1>1, <1>2, <1>3, ToldGrows DEF q
  <1>4. CASE f # g
    <2>1. Told(q, f) \in Seq(Nat) /\ Len(Told(q, f)) <= MaxQueue
      BY <1>1, ToldGrows
    <2> QED BY <1>1, <1>2, <1>4, <2>1, ToldGrows DEF q
  <1> QED BY <1>3, <1>4

\* A change of the share is one of the files at f and g.
Elsewhere(d, f, g) == \A x \in Files \ {f, g} :
    (x \in DOMAIN d <=> x \in DOMAIN disk) /\ (x \in DOMAIN d => d[x] = disk[x])
Changes(d, f, g, ours) == FilesOf(d) /\ Elsewhere(d, f, g) /\ Change(d, f, g, ours)
Announced == \E f \in Files, ours \in BOOLEAN :
    \/ \E n \in Sizes : Write(f, n, ours)
    \/ Delete(f, ours)
    \/ \E g \in Files : Rename(f, g, ours)

\* Files that are written, deleted and moved by name change it so.
LEMMA ChangesAre ==
  ASSUME StreamInv, Announced
  PROVE  \E f \in Files, g \in Files, ours \in BOOLEAN : \E d : Changes(d, f, g, ours)
  <1> USE DEF StreamInv, Changes, FilesOf, Elsewhere
  <1>1. ASSUME NEW f \in Files, NEW n \in Sizes, NEW ours \in BOOLEAN, Write(f, n, ours)
        PROVE  \E d : Changes(d, f, f, ours)
    <2> DEFINE d == With(disk, f, [size |-> n, id |-> 100 + changes, open |-> FALSE])
    <2>1. n \in Nat
      BY BrowseAssumption
    <2>2. DOMAIN d = DOMAIN disk \cup {f}
          /\ \A x \in DOMAIN d : d[x] = IF x = f THEN [size |-> n, id |-> 100 + changes, open |-> FALSE]
                                   ELSE disk[x]
      BY DEF With
    <2>3. Change(d, f, f, ours)
      BY <1>1 DEF Write
    <2>r. [size |-> n, id |-> 100 + changes, open |-> FALSE] \in [size : Nat, id : Nat, open : BOOLEAN]
      <3>1. 100 + changes \in Nat
        OBVIOUS
      <3>2. FALSE \in BOOLEAN
        OBVIOUS
      <3> QED BY <2>1, <3>1, <3>2
    <2>s. DOMAIN d \subseteq Files
      BY <2>2
    <2>t. ASSUME NEW x \in DOMAIN d PROVE d[x] \in [size : Nat, id : Nat, open : BOOLEAN]
      <3>1. CASE x = f
        BY <2>2, <2>r, <3>1
      <3>2. CASE x # f
        <4>1. d[x] = disk[x] /\ x \in DOMAIN disk
          BY <2>2, <3>2
        <4> QED BY <4>1
      <3> QED BY <3>1, <3>2
    <2> HIDE DEF d
    <2>4. FilesOf(d)
      BY <2>s, <2>t
    <2> QED BY <2>2, <2>3, <2>4
  <1>2. ASSUME NEW f \in Files, NEW ours \in BOOLEAN, Delete(f, ours)
        PROVE  \E d : Changes(d, f, f, ours)
    <2> DEFINE d == Only(disk, DOMAIN disk \ {f})
    <2>1. DOMAIN d = DOMAIN disk \ {f} /\ \A x \in DOMAIN d : d[x] = disk[x]
      BY DEF Only
    <2>2. Change(d, f, f, ours)
      BY <1>2 DEF Delete
    <2> HIDE DEF d
    <2> QED BY <2>1, <2>2
  <1>3. ASSUME NEW f \in Files, NEW g \in Files, NEW ours \in BOOLEAN, Rename(f, g, ours)
        PROVE  \E d : Changes(d, f, g, ours)
    <2> DEFINE c == Only(disk, DOMAIN disk \ {f})
               d == With(c, g, disk[f])
    <2>1. DOMAIN c = DOMAIN disk \ {f} /\ \A x \in DOMAIN c : c[x] = disk[x]
      BY DEF Only
    <2>2. DOMAIN d = DOMAIN c \cup {g} /\ \A x \in DOMAIN d : d[x] = IF x = g THEN disk[f] ELSE c[x]
      BY DEF With
    <2>3. Change(d, f, g, ours) /\ f \in DOMAIN disk
      BY <1>3 DEF Rename
    <2> HIDE DEF c, d
    <2> QED BY <2>1, <2>2, <2>3
  <1> HIDE DEF StreamInv, Changes, FilesOf, Elsewhere
  <1> QED BY <1>1, <1>2, <1>3 DEF Announced

\* A file that grows, is closed or is truncated is one of those that are there, and only its
\* size and its being open change.
Resized(d, f) == FilesOf(d) /\ Elsewhere(d, f, f) /\ f \in DOMAIN disk
                 /\ DOMAIN d = DOMAIN disk /\ \A x \in DOMAIN d : d[x].id = disk[x].id
LEMMA ResizedFiles ==
  ASSUME StreamInv, NEW f \in Files, NEW n \in Sizes
  PROVE  /\ Grow(f, n) => Resized(disk', f) /\ disk'[f].open
         /\ Truncate(f, n) => Resized(disk', f)
  <1> USE DEF StreamInv, FilesOf, Elsewhere, Resized
  <1> DEFINE R == [size : Nat, id : Nat, open : BOOLEAN]
  <1>1. n \in Nat
    BY BrowseAssumption
  <1>2. ASSUME NEW e \in R
        PROVE  /\ \A y : y = [e EXCEPT !.size = n, !.open = TRUE] => y \in R /\ y.id = e.id /\ y.open
               /\ \A y : y = [e EXCEPT !.size = n] => y \in R /\ y.id = e.id
    BY <1>1
  <1>3. ASSUME Grow(f, n) PROVE Resized(disk', f) /\ disk'[f].open
    <2>1. f \in DOMAIN disk /\ DOMAIN disk' = DOMAIN disk /\ (\A x \in DOMAIN disk \ {f} : disk'[x] = disk[x])
          /\ disk'[f] = [disk[f] EXCEPT !.size = n, !.open = TRUE]
      BY <1>3 DEF Grow
    <2>2. disk[f] \in R
      BY <2>1
    <2>3. disk'[f] \in R /\ disk'[f].id = disk[f].id /\ disk'[f].open
      BY <1>2, <2>1, <2>2
    <2> QED BY <2>1, <2>3
  <1>5. ASSUME Truncate(f, n) PROVE Resized(disk', f)
    <2>1. f \in DOMAIN disk /\ DOMAIN disk' = DOMAIN disk /\ (\A x \in DOMAIN disk \ {f} : disk'[x] = disk[x])
          /\ disk'[f] = [disk[f] EXCEPT !.size = n]
      BY <1>5 DEF Truncate
    <2>2. disk[f] \in R
      BY <2>1
    <2>3. disk'[f] \in R /\ disk'[f].id = disk[f].id
      BY <1>2, <2>1, <2>2
    <2> QED BY <2>1, <2>3
  <1> QED BY <1>3, <1>5

LEMMA ClosedFiles ==
  ASSUME StreamInv, NEW f \in Files, Close(f)
  PROVE  Resized(disk', f) /\ \A x \in DOMAIN disk : disk'[x].size = disk[x].size
  <1> USE DEF StreamInv, FilesOf, Elsewhere, Resized
  <1>1. f \in DOMAIN disk /\ DOMAIN disk' = DOMAIN disk /\ (\A x \in DOMAIN disk \ {f} : disk'[x] = disk[x])
        /\ disk'[f] = [disk[f] EXCEPT !.open = FALSE]
    BY DEF Close
  <1>2. disk'[f] \in [size : Nat, id : Nat, open : BOOLEAN] /\ disk'[f].id = disk[f].id
        /\ disk'[f].size = disk[f].size
    BY <1>1
  <1> QED BY <1>1, <1>2

-----------------------------------------------------------------------------
(* The event stream                                                          *)

\* Streams that are told something, close, are awoken, let a poll through, ask whether the
\* session is active and take the answer.
ToldOf(s, q) == [s EXCEPT !.queue = q]
ClosedOf(s) == [s EXCEPT !.pc = "closed", !.queue = <<>>]
PhaseOf(s, c) == [s EXCEPT !.pc = c]
ReadyOf(s, n) == [s EXCEPT !.pc = "read", !.judged = n]
LookedOf(s, n, a) == [s EXCEPT !.pc = "answer", !.looked = n, !.active = a]
AnsweredOf(s, n) == [s EXCEPT !.pc = "read", !.judged = n, !.nextCheck = n + Interval, !.took = n - s.looked]

\* What a step of the stream leaves as it was.
Kept(s, x) == x.opened = s.opened /\ x.sent = s.sent

LEMMA RecordTold ==
  ASSUME NEW s \in Streams, NEW q \in Seq(Nat), NEW x, x = ToldOf(s, q)
  PROVE  /\ x \in Streams /\ Kept(s, x) /\ x.queue = q /\ x.pc = s.pc /\ x.nextCheck = s.nextCheck
         /\ x.active = s.active /\ x.looked = s.looked /\ x.took = s.took /\ x.judged = s.judged
  BY DEF Streams, Kept, ToldOf

LEMMA RecordClosed ==
  ASSUME NEW s \in Streams, NEW x, x = ClosedOf(s)
  PROVE  /\ x \in Streams /\ Kept(s, x) /\ x.queue = <<>> /\ x.pc = "closed" /\ x.nextCheck = s.nextCheck
         /\ x.active = s.active /\ x.looked = s.looked /\ x.took = s.took /\ x.judged = s.judged
  <1> <<>> \in Seq(Nat)
    BY EmptySeq
  <1> QED BY DEF Streams, Kept, Phases, ClosedOf

LEMMA RecordPhase ==
  ASSUME NEW s \in Streams, NEW c \in Phases, NEW x, x = PhaseOf(s, c)
  PROVE  /\ x \in Streams /\ Kept(s, x) /\ x.queue = s.queue /\ x.pc = c /\ x.nextCheck = s.nextCheck
         /\ x.active = s.active /\ x.looked = s.looked /\ x.took = s.took /\ x.judged = s.judged
  BY DEF Streams, Kept, PhaseOf

LEMMA RecordReady ==
  ASSUME NEW s \in Streams, NEW n \in Nat, NEW x, x = ReadyOf(s, n)
  PROVE  /\ x \in Streams /\ Kept(s, x) /\ x.queue = s.queue /\ x.pc = "read" /\ x.nextCheck = s.nextCheck
         /\ x.active = s.active /\ x.looked = s.looked /\ x.took = s.took /\ x.judged = n
  <1> n \in Int
    OBVIOUS
  <1> QED BY DEF Streams, Kept, Phases, ReadyOf

LEMMA RecordLooked ==
  ASSUME NEW s \in Streams, NEW n \in Nat, NEW a \in BOOLEAN, NEW x, x = LookedOf(s, n, a)
  PROVE  /\ x \in Streams /\ Kept(s, x) /\ x.queue = s.queue /\ x.pc = "answer" /\ x.nextCheck = s.nextCheck
         /\ x.active = a /\ x.looked = n /\ x.took = s.took /\ x.judged = s.judged
  BY DEF Streams, Kept, Phases, LookedOf

LEMMA RecordAnswered ==
  ASSUME NEW s \in Streams, NEW n \in Nat, s.looked <= n, NEW x, x = AnsweredOf(s, n)
  PROVE  /\ x \in Streams /\ Kept(s, x) /\ x.queue = s.queue /\ x.pc = "read" /\ x.nextCheck = n + Interval
         /\ x.active = s.active /\ x.looked = s.looked /\ x.took = n - s.looked /\ x.judged = n
  <1>1. s.looked \in Nat /\ Interval \in Nat
    BY BrowseAssumption DEF Streams
  <1>2. PICK a, b : a = n + Interval /\ b = n - s.looked
    OBVIOUS
  <1>3. a \in Nat /\ b \in Nat
    BY <1>1, <1>2
  <1>4. PICK y : y = ReadyOf(s, n)
    OBVIOUS
  <1>5. /\ y \in Streams /\ Kept(s, y) /\ y.queue = s.queue /\ y.pc = "read"
        /\ y.active = s.active /\ y.looked = s.looked /\ y.judged = n
    BY <1>4, RecordReady
  <1>6. x = [y EXCEPT !.nextCheck = a, !.took = b]
    BY <1>2, <1>4 DEF AnsweredOf, ReadyOf
  <1> QED BY <1>2, <1>3, <1>5, <1>6 DEF Streams, Kept

\* A change only adds to the events of the stream.
LEMMA StreamHearsOf ==
  ASSUME StreamInv, NEW f \in Files, NEW g \in Files, stream' = Notified(f, g), FilesOf(disk'),
         changes' \in Nat, owing' \in 0 .. changes', UNCHANGED <<mix, now, gen, signedOut>>
  PROVE  StreamInv'
  <1> DEFINE q == stream'.queue
  <1>1. q \in Seq(Nat) /\ Len(q) <= MaxQueue /\ (q = <<>> => stream.queue = <<>>)
        /\ (~Reported(f) /\ ~Reported(g) => q = stream.queue)
        /\ stream' = ToldOf(stream, q)
    BY StreamIsTold DEF ToldOf
  <1> HIDE DEF q
  <1>2. stream \in Streams
    BY DEF StreamInv
  <1>3. PICK x : x = stream'
    OBVIOUS
  <1>4. /\ x \in Streams /\ Kept(stream, x) /\ x.queue = q /\ x.pc = stream.pc /\ x.nextCheck = stream.nextCheck
        /\ x.active = stream.active /\ x.looked = stream.looked /\ x.took = stream.took /\ x.judged = stream.judged
    BY <1>1, <1>2, <1>3, RecordTold
  <1>5. stream'.pc \notin Listening => stream'.queue = <<>>
    BY <1>1, <1>3, <1>4 DEF StreamInv, Reported, q
  <1>6. stream'.queue # <<>> => \E y \in Files : Parent(y) = Watched
    BY <1>1, <1>3, <1>4 DEF StreamInv, Reported, q
  <1>7. Limit' = Limit
    BY <1>3, <1>4 DEF Limit, Kept
  <1>8. Checked'
    BY <1>3, <1>4, <1>7 DEF StreamInv, Checked, Kept
  <1> QED BY <1>1, <1>3, <1>4, <1>5, <1>6, <1>8 DEF StreamInv, q

LEMMA StreamChange ==
  ASSUME StreamInv, NEW f \in Files, NEW g \in Files, NEW ours \in BOOLEAN, NEW d, Changes(d, f, g, ours)
  PROVE  StreamInv'
  <1>1. /\ stream' = Notified(f, g) /\ changes' = changes + 1 /\ disk' = d
        /\ owing' \in 0 .. changes' /\ UNCHANGED <<mix, now, gen, signedOut>>
    BY DEF Changes, Change, StreamInv, Excuse
  <1>2. changes' \in Nat /\ FilesOf(disk')
    BY <1>1 DEF StreamInv, Changes
  <1> QED BY <1>1, <1>2, StreamHearsOf

\* A step that leaves the clock, the session and the events alone need only keep to the times.
LEMMA StreamSteps ==
  ASSUME StreamInv, UNCHANGED <<mix, now, disk, changes, owing, signedOut>>, gen' \in Nat,
         stream' \in Streams, stream'.queue \in {<<>>, stream.queue},
         stream'.pc \in Listening => stream.pc \in Listening \/ stream'.queue = <<>>,
         stream'.pc \notin Listening => stream'.queue = <<>>,
         Checked'
  PROVE  StreamInv'
  <1>1. Len(stream'.queue) <= MaxQueue
    BY SMTT(30), BrowseAssumption, EmptySeq DEF StreamInv
  <1> QED BY <1>1 DEF StreamInv

\* Closing it only empties the queue.
LEMMA StreamCloses ==
  ASSUME StreamInv, CloseStream, UNCHANGED <<mix, now, disk, changes, owing, signedOut>>
  PROVE  StreamInv'
  <1>1. PICK x : x = stream'
    OBVIOUS
  <1>2. x = ClosedOf(stream) /\ gen' = gen /\ stream \in Streams
    BY <1>1 DEF CloseStream, ClosedOf, StreamInv
  <1>3. /\ x \in Streams /\ Kept(stream, x) /\ x.queue = <<>> /\ x.pc = "closed" /\ x.nextCheck = stream.nextCheck
        /\ x.active = stream.active /\ x.looked = stream.looked /\ x.took = stream.took /\ x.judged = stream.judged
    BY <1>2, RecordClosed
  <1>4. Limit' = Limit
    BY <1>1, <1>3 DEF Limit, Kept
  <1>5. Checked'
    BY <1>1, <1>3, <1>4 DEF StreamInv, Checked, Kept, Listening
  <1>6. gen' \in Nat /\ "closed" \notin Listening
    BY <1>2 DEF StreamInv, Listening
  <1> QED BY <1>1, <1>3, <1>5, <1>6, StreamSteps

\* What reading does to the record of a stream.
SentOf(s, n) == [s EXCEPT !.pc = "open", !.sent = n]
RestOf(s, n, rest) == [SentOf(s, n) EXCEPT !.queue = rest]
FailedOf(s, n, t) == [SentOf(s, n) EXCEPT !.queue = <<>>, !.deadline = t]
Heard(x, s, n, q) ==
    /\ x \in Streams /\ x.opened = s.opened /\ x.sent = n /\ x.queue = q /\ x.pc = "open"
    /\ x.nextCheck = s.nextCheck /\ x.active = s.active /\ x.looked = s.looked /\ x.took = s.took
    /\ x.judged = s.judged

\* A stream that has said something and has read part of its events,
LEMMA RecordRest ==
  ASSUME NEW s \in Streams, NEW n \in Int, NEW rest \in Seq(Nat), NEW x, x = RestOf(s, n, rest)
  PROVE  Heard(x, s, n, rest)
  <1>1. PICK y : y = SentOf(s, n)
    OBVIOUS
  <1>2. /\ y \in Streams /\ y.opened = s.opened /\ y.sent = n /\ y.queue = s.queue /\ y.pc = "open"
        /\ y.nextCheck = s.nextCheck /\ y.active = s.active /\ y.looked = s.looked /\ y.took = s.took
        /\ y.judged = s.judged
    BY <1>1 DEF Streams, Phases, SentOf
  <1>3. x = [y EXCEPT !.queue = rest]
    BY <1>1 DEF RestOf
  <1> QED BY <1>2, <1>3 DEF Streams, Heard

\* or lost them and has to close.
LEMMA RecordFailed ==
  ASSUME NEW s \in Streams, NEW n, n \in Int, NEW t, t \in Nat, NEW x, x = FailedOf(s, n, t)
  PROVE  Heard(x, s, n, <<>>)
  <1>1. PICK y, rest : y = RestOf(s, n, rest) /\ rest = <<>>
    OBVIOUS
  <1>2. rest \in Seq(Nat)
    BY <1>1, EmptySeq
  <1>3. Heard(y, s, n, rest)
    BY <1>1, <1>2, RecordRest
  <1>4. x = [y EXCEPT !.deadline = t]
    BY <1>1 DEF FailedOf, RestOf
  <1> QED BY <1>1, <1>3, <1>4 DEF Streams, Heard

\* What is read of the events.
LEMMA DrainedIs ==
  ASSUME StreamInv
  PROVE  /\ Drained(stream.queue) \in Seq(Nat)
         /\ stream.queue # <<>> => Drained(stream.queue) # <<>>
  <1> DEFINE s == stream.queue
  <1>1. s \in Seq(Nat) /\ MaxNames \in Nat /\ Len(s) \in Nat
    BY BrowseAssumption DEF StreamInv, Streams
  <1> HIDE DEF s
  <1>2. CASE Len(s) >= MaxNames
    <2>1. \A i \in 1 .. MaxNames : s[i] \in Nat
      BY <1>1, <1>2, ElementOfSeq
    <2>2. SubSeq(s, 1, MaxNames) \in Seq(Nat)
      BY <1>1, <2>1, SubSeqProperties
    <2> DEFINE a == SubSeq(s, 1, MaxNames)
    <2> HIDE DEF a
    <2>3. a \in Seq(Nat) /\ 0 \in Nat
      BY <2>2 DEF a
    <2>4. Append(a, 0) \in Seq(Nat) /\ Append(a, 0) # <<>>
      BY <2>3, AppendProperties
    <2> QED BY <1>1, <1>2, <2>4 DEF Drained, s, a
  <1>3. CASE Len(s) < MaxNames
    BY <1>1, <1>3 DEF Drained, s
  <1> QED BY <1>1, <1>2, <1>3

\* What is read goes out as it was let through.
LEMMA StreamHears ==
  ASSUME StreamInv, Read, UNCHANGED <<mix, now, disk, changes, owing, signedOut>>
  PROVE  StreamInv'
  <1> DEFINE s == stream.queue
             q == stream'.queue
             n == stream.judged
  <1>s. /\ s \in Seq(Nat) /\ Len(s) <= MaxQueue /\ Len(s) \in Nat /\ MaxNames \in Nat /\ MaxQueue \in Nat
        /\ <<>> \in Seq(Nat) /\ Len(<<>>) = 0 /\ now \in Nat /\ stream \in Streams /\ n \in Int
        /\ "open" \in Phases
    BY BrowseAssumption, EmptySeq DEF StreamInv, Streams, Phases
  <1>t. stream.pc = "read" /\ "read" \in Listening /\ "open" \in Listening
    BY DEF Read, Listening
  <1> DEFINE R == /\ stream' \in Streams /\ stream'.opened = stream.opened /\ stream'.sent \in {stream.sent, n}
                  /\ stream'.pc = "open" /\ stream'.nextCheck = stream.nextCheck /\ stream'.active = stream.active
                  /\ stream'.looked = stream.looked /\ stream'.took = stream.took /\ stream'.judged = stream.judged
                  /\ Len(q) <= MaxQueue /\ (q # <<>> => s # <<>>)
  <1>1. R
    <2>1. CASE s = <<>> /\ stream' = PhaseOf(stream, "open")
      <3>1. PICK x : x = stream'
        OBVIOUS
      <3>2. /\ x \in Streams /\ Kept(stream, x) /\ x.queue = s /\ x.pc = "open"
            /\ x.nextCheck = stream.nextCheck /\ x.active = stream.active /\ x.looked = stream.looked
            /\ x.took = stream.took /\ x.judged = stream.judged
        BY <1>s, <2>1, <3>1, RecordPhase
      <3> QED BY <1>s, <3>1, <3>2 DEF Kept
    <2>2. ASSUME s # <<>>, NEW rest \in Remainders(s), stream' = RestOf(stream, n, rest)
          PROVE  R
      <3> HIDE DEF s, n
      <3>1. rest \in Seq(Nat) /\ Len(rest) <= MaxQueue
        <4>1. CASE Len(s) < MaxNames
          BY <1>s, <2>2, <4>1 DEF Remainders
        <4>2. CASE ~(Len(s) < MaxNames)
          <5>1. PICK m \in MaxNames + 1 .. Len(s) + 1 : rest = SubSeq(s, m, Len(s))
            BY <2>2, <4>2 DEF Remainders
          <5>2. ASSUME NEW i \in m .. Len(s) PROVE s[i] \in Nat
            <6>1. i \in 1 .. Len(s)
              BY <1>s, <5>1
            <6> QED BY <1>s, <6>1, ElementOfSeq
          <5>3. m \in Int /\ Len(s) \in Int /\ m >= 1
            BY <1>s, <5>1
          <5>4. rest \in Seq(Nat) /\ Len(rest) = IF m <= Len(s) THEN Len(s) - m + 1 ELSE 0
            BY <5>1, <5>2, <5>3, SubSeqProperties
          <5> QED BY <1>s, <5>3, <5>4
        <4> QED BY <4>1, <4>2
      <3>2. PICK x : x = stream'
        OBVIOUS
      <3>3. Heard(x, stream, n, rest)
        BY <1>s, <2>2, <3>1, <3>2, RecordRest
      <3> QED BY <2>2, <3>1, <3>2, <3>3 DEF Heard
    <2>3. CASE stream' = FailedOf(stream, n, now)
      <3> HIDE DEF n
      <3>1. PICK x : x = stream'
        OBVIOUS
      <3>2. PICK t \in Nat : x = FailedOf(stream, n, t)
        BY <1>s, <2>3, <3>1
      <3>3. Heard(x, stream, n, <<>>)
        BY <1>s, <3>2, RecordFailed
      <3> QED BY <1>s, <3>1, <3>2, <3>3 DEF Heard
    <2> HIDE DEF R
    <2> QED BY <2>1, <2>2, <2>3 DEF Read, s, n, PhaseOf, RestOf, FailedOf, SentOf
  <1>2. gen' \in Nat
    <2>1. CASE gen' = gen
      BY <2>1 DEF StreamInv
    <2>2. CASE stream.queue # <<>> /\ gen' = gen + Cardinality(Range(Drained(stream.queue)))
      <3>1. Drained(stream.queue) \in Seq(Nat)
        BY DrainedIs
      <3>2. Cardinality(Range(Drained(stream.queue))) \in Nat
        BY <3>1, RangeIsFinite
      <3> QED BY SMTT(30), <2>2, <3>2 DEF StreamInv
    <2>3. CASE gen' = gen + Cardinality({0})
      <3>1. Cardinality({0}) = 1
        BY FS_Singleton
      <3> QED BY <2>3, <3>1 DEF StreamInv
    <2> QED BY <2>1, <2>2, <2>3 DEF Read, InvalidateAll
  <1> HIDE DEF q, s
  <1>3. Limit' = Limit
    BY <1>1 DEF Limit
  <1>4. Checked'
    <2> HIDE DEF R
    <2>1. /\ stream'.opened = stream.opened /\ stream'.sent \in {stream.sent, n}
          /\ stream'.pc = "open" /\ stream'.nextCheck = stream.nextCheck
          /\ stream'.looked = stream.looked /\ stream'.judged = stream.judged
      BY <1>1 DEF R
    <2> QED BY <1>3, <1>t, <2>1 DEF StreamInv, Checked
  <1> QED BY <1>1, <1>2, <1>4, <1>t DEF StreamInv, q, s

\* What a stream is before it has read anything.
FreshOf(c, d, e, o) == [pc |-> c, deadline |-> d, nextCheck |-> e, queue |-> <<>>, active |-> TRUE,
                        looked |-> 0, opened |-> o, took |-> 0, judged |-> -1, sent |-> -1]
Begun(s, c, e, o) == /\ s \in Streams /\ s.pc = c /\ s.nextCheck = e /\ s.queue = <<>> /\ s.opened = o
                     /\ s.sent = -1 /\ s.judged = -1 /\ s.looked = 0 /\ s.took = 0
LEMMA FreshStream ==
  ASSUME NEW c, NEW d, NEW e, NEW o, c \in Phases, d \in Nat, e \in Nat, o \in Nat, NEW s,
         s = FreshOf(c, d, e, o)
  PROVE  Begun(s, c, e, o)
  <1>1. <<>> \in Seq(Nat) /\ -1 \in Int /\ TRUE \in BOOLEAN
    BY EmptySeq
  <1>2. s \in Streams
    BY <1>1 DEF Streams, FreshOf
  <1>3. /\ s.pc = c /\ s.nextCheck = e /\ s.queue = <<>> /\ s.opened = o
        /\ s.sent = -1 /\ s.judged = -1 /\ s.looked = 0 /\ s.took = 0
    BY DEF FreshOf
  <1> QED BY <1>2, <1>3 DEF Begun

\* A stream that is being opened.
LEMMA NewStreamIs ==
  ASSUME NEW s, s = [NoStream EXCEPT !.pc = "opening"]
  PROVE  /\ s \in Streams /\ s.pc = "opening" /\ s.nextCheck = 0 /\ s.queue = <<>> /\ s.opened = 0
         /\ s.sent = -1 /\ s.judged = -1 /\ s.looked = 0 /\ s.took = 0
  <1>1. s = FreshOf("opening", 0, 0, 0)
    BY DEF NoStream, FreshOf
  <1>2. PICK c, o : c = "opening" /\ o = 0
    OBVIOUS
  <1>3. c \in Phases /\ o \in Nat /\ s = FreshOf(c, o, o, o)
    BY <1>1, <1>2 DEF Phases
  <1>4. Begun(s, c, o, o)
    BY <1>3, FreshStream
  <1> QED BY <1>2, <1>4 DEF Begun

OpenOf(n) == [NoStream EXCEPT !.pc = "open", !.deadline = n + Lifetime, !.nextCheck = n + Interval, !.opened = n]

\* A stream that was opened at n checks its session after an interval.
LEMMA OpenStreamIs ==
  ASSUME NEW n, n \in Nat, NEW s, s = OpenOf(n)
  PROVE  /\ s \in Streams /\ s.pc = "open" /\ s.nextCheck = n + Interval /\ s.queue = <<>> /\ s.opened = n
         /\ s.sent = -1 /\ s.judged = -1 /\ s.looked = 0 /\ s.took = 0
  <1>1. PICK c, a, b : c = "open" /\ a = n + Lifetime /\ b = n + Interval
    OBVIOUS
  <1>2. c \in Phases /\ a \in Nat /\ b \in Nat
    BY SMTT(30), <1>1, BrowseAssumption DEF Phases
  <1>3. s = FreshOf(c, a, b, n)
    BY <1>1 DEF NoStream, OpenOf, FreshOf
  <1>4. Begun(s, c, b, n)
    BY <1>2, <1>3, FreshStream
  <1> QED BY <1>1, <1>4 DEF Begun

\* No stream is open at the start.
LEMMA StreamInit == Init => StreamInv
  <1> SUFFICES ASSUME Init PROVE StreamInv
    OBVIOUS
  <1>1. FilesOf(disk)
    <2>1. disk = [f \in Start |-> [size |-> 1, id |-> Len(f) * 10 + Name(f), open |-> FALSE]]
          /\ Start \subseteq Files
      BY BrowseAssumption DEF Init
    <2>2. ASSUME NEW f \in Start PROVE Len(f) * 10 + Name(f) \in Nat
      BY <2>1, PathsAreSequences
    <2> QED BY <2>1, <2>2 DEF FilesOf
  <1>2. stream = [pc |-> "new", deadline |-> 0, nextCheck |-> 0, queue |-> <<>>, active |-> TRUE,
                  looked |-> 0, opened |-> 0, took |-> 0, judged |-> -1, sent |-> -1]
    BY DEF Init, NoStream
  <1>3. <<>> \in Seq(Nat) /\ Len(<<>>) = 0 /\ MaxQueue \in Nat /\ Interval \in Nat
    BY BrowseAssumption, EmptySeq
  <1> QED BY <1>1, <1>2, <1>3 DEF Init, StreamInv, Checked, Streams, Phases, Listening

\* The steps of the stream keep its next check in time.
LEMMA StreamListens == ASSUME StreamInv, EventStream PROVE StreamInv'
  <1>0. /\ UNCHANGED <<mix, now, disk, changes, owing, signedOut>> /\ Interval \in Nat /\ Interval > 0
        /\ now \in Nat /\ gen \in Nat /\ stream \in Streams /\ signedOut \in -1 .. now
    BY BrowseAssumption DEF EventStream, StreamInv
  <1>s. PICK x : x = stream'
    OBVIOUS
  <1>1. CASE OpenStream
    <2>1. /\ x \in Streams /\ x.pc = "opening" /\ x.nextCheck = 0 /\ x.queue = <<>> /\ x.opened = 0
          /\ x.sent = -1 /\ x.judged = -1 /\ x.looked = 0 /\ x.took = 0
      BY <1>1, <1>s, NewStreamIs DEF OpenStream
    <2>2. gen' = gen /\ signedOut = -1
      BY <1>1 DEF OpenStream
    <2>3. Checked'
      BY <1>0, <1>s, <2>1, <2>2 DEF Checked
    <2>4. "opening" \notin Listening
      BY DEF Listening
    <2> QED BY <1>0, <1>s, <2>1, <2>2, <2>3, <2>4, StreamSteps
  <1>2. CASE WatchDirectory
    <2>1. CASE CloseStream
      BY <1>0, <2>1, StreamCloses
    <2>2. CASE stream' = OpenOf(now) /\ UNCHANGED <<cache, gen, walk>>
      <3>1. /\ x \in Streams /\ x.pc = "open" /\ x.nextCheck = now + Interval /\ x.queue = <<>> /\ x.opened = now
            /\ x.sent = -1 /\ x.judged = -1 /\ x.looked = 0 /\ x.took = 0
        BY <1>0, <1>s, <2>2, OpenStreamIs
      <3>2. Limit' = now + Interval
        BY <1>0, <1>s, <3>1 DEF Limit
      <3>3. Checked'
        BY <1>0, <1>s, <3>1, <3>2 DEF Checked
      <3>4. "open" \in Listening
        BY DEF Listening
      <3> QED BY <1>0, <1>s, <2>2, <3>1, <3>3, <3>4, StreamSteps
    <2> QED BY <1>2, <2>1, <2>2 DEF WatchDirectory, OpenOf
  <1>3. CASE Sleep
    <2>1. CASE CloseStream
      BY <1>0, <2>1, StreamCloses
    <2>2. CASE stream' = PhaseOf(stream, "awake") /\ UNCHANGED <<cache, gen, walk>>
      <3>1. "awake" \in Phases /\ "awake" \in Listening /\ stream.pc = "open" /\ "open" \in Listening
        BY <1>3 DEF Phases, Listening, Sleep
      <3>2. /\ x \in Streams /\ Kept(stream, x) /\ x.queue = stream.queue /\ x.pc = "awake"
            /\ x.nextCheck = stream.nextCheck /\ x.active = stream.active /\ x.looked = stream.looked
            /\ x.took = stream.took /\ x.judged = stream.judged
        BY <1>0, <1>s, <2>2, <3>1, RecordPhase
      <3>3. Limit' = Limit
        BY <1>0, <1>s, <3>2 DEF Limit, Kept
      <3>4. Checked'
        BY <1>0, <1>s, <3>1, <3>2, <3>3 DEF StreamInv, Checked, Kept
      <3> QED BY <1>0, <1>s, <2>2, <3>1, <3>2, <3>4, StreamSteps
    <2> QED BY <1>3, <2>1, <2>2 DEF Sleep, PhaseOf
  <1>4. CASE Poll
    <2>1. stream.pc = "awake" /\ "awake" \in Listening /\ gen' = gen
      BY <1>4 DEF Poll, Listening
    <2>2. CASE now < stream.nextCheck /\ stream' = ReadyOf(stream, now)
      <3>1. /\ x \in Streams /\ Kept(stream, x) /\ x.queue = stream.queue /\ x.pc = "read"
            /\ x.nextCheck = stream.nextCheck /\ x.active = stream.active /\ x.looked = stream.looked
            /\ x.took = stream.took /\ x.judged = now
        BY <1>0, <1>s, <2>2, RecordReady
      <3>2. Limit' = Limit /\ Limit \in Int /\ stream.nextCheck \in Int
        BY <1>0, <1>s, <3>1 DEF Limit, Kept, Streams
      <3>3. Checked'
        BY SMTT(30), <1>0, <1>s, <2>1, <2>2, <3>1, <3>2 DEF StreamInv, Checked, Kept
      <3>4. "read" \in Listening
        BY DEF Listening
      <3> QED BY <1>0, <1>s, <2>1, <3>1, <3>3, <3>4, StreamSteps
    <2>3. CASE stream' = PhaseOf(stream, "check")
      <3>1. "check" \in Phases /\ "check" \in Listening
        BY DEF Phases, Listening
      <3>2. /\ x \in Streams /\ Kept(stream, x) /\ x.queue = stream.queue /\ x.pc = "check"
            /\ x.nextCheck = stream.nextCheck /\ x.active = stream.active /\ x.looked = stream.looked
            /\ x.took = stream.took /\ x.judged = stream.judged
        BY <1>0, <1>s, <2>3, <3>1, RecordPhase
      <3>3. Limit' = Limit
        BY <1>0, <1>s, <3>2 DEF Limit, Kept
      <3>4. Checked'
        BY <1>0, <1>s, <2>1, <3>1, <3>2, <3>3 DEF StreamInv, Checked, Kept
      <3> QED BY <1>0, <1>s, <2>1, <3>1, <3>2, <3>4, StreamSteps
    <2> QED BY <1>4, <2>2, <2>3 DEF Poll, ReadyOf, PhaseOf
  <1>5. CASE LookUp
    <2>1. stream.pc = "check" /\ {"check", "answer"} \subseteq Listening /\ gen' = gen
      BY <1>5 DEF LookUp, Listening
    <2>2. PICK a \in BOOLEAN : (a => signedOut = -1) /\ stream' = LookedOf(stream, now, a)
      <3>1. PICK answers \in BOOLEAN : stream' = LookedOf(stream, now, answers /\ signedOut = -1)
        BY <1>5 DEF LookUp, LookedOf
      <3> QED BY <3>1
    <2>3. /\ x \in Streams /\ Kept(stream, x) /\ x.queue = stream.queue /\ x.pc = "answer"
          /\ x.nextCheck = stream.nextCheck /\ x.active = a /\ x.looked = now
          /\ x.took = stream.took /\ x.judged = stream.judged
      BY <1>0, <1>s, <2>2, RecordLooked
    <2>4. Limit' = Limit
      BY <1>0, <1>s, <2>3 DEF Limit, Kept
    <2>5. Checked'
      BY <1>0, <1>s, <2>1, <2>2, <2>3, <2>4 DEF StreamInv, Checked, Kept
    <2> QED BY <1>0, <1>s, <2>1, <2>3, <2>5, StreamSteps
  <1>6. CASE Answered
    <2>1. stream.pc = "answer" /\ {"answer", "read"} \subseteq Listening
      BY <1>6 DEF Answered, Listening
    <2>2. CASE CloseStream
      BY <1>0, <2>2, StreamCloses
    <2>3. CASE stream.active /\ stream' = AnsweredOf(stream, now) /\ gen' = gen
      <3>1. stream.looked \in 0 .. now /\ stream.sent <= stream.looked /\ stream.sent \in -1 .. now
            /\ stream.opened \in 0 .. now /\ (signedOut # -1 => stream.looked <= signedOut)
        BY <2>1, <2>3 DEF StreamInv, Checked
      <3>2. /\ x \in Streams /\ Kept(stream, x) /\ x.queue = stream.queue /\ x.pc = "read"
            /\ x.nextCheck = now + Interval /\ x.active = stream.active /\ x.looked = stream.looked
            /\ x.took = now - stream.looked /\ x.judged = now
        <4>1. PICK n \in Nat : n = now
          BY <1>0
        <4>2. stream.looked <= n /\ x = AnsweredOf(stream, n)
          BY <1>s, <2>3, <3>1, <4>1
        <4>3. /\ x \in Streams /\ Kept(stream, x) /\ x.queue = stream.queue /\ x.pc = "read"
              /\ x.nextCheck = n + Interval /\ x.active = stream.active /\ x.looked = stream.looked
              /\ x.took = n - stream.looked /\ x.judged = n
          BY <1>0, <4>2, RecordAnswered
        <4> QED BY <4>1, <4>3
      <3>3. signedOut # -1 => now + Interval <= Limit' /\ stream.sent < Limit' /\ now < Limit'
        BY <1>0, <1>s, <3>1, <3>2 DEF Limit, Kept
      <3>4. Checked'
        BY <1>0, <1>s, <3>1, <3>2, <3>3 DEF Checked, Kept
      <3> QED BY <1>0, <1>s, <2>1, <2>3, <3>2, <3>4, StreamSteps
    <2> QED BY <1>6, <2>2, <2>3 DEF Answered, AnsweredOf
  <1>7. CASE Read
    BY <1>0, <1>7, StreamHears
  <1>8. CASE DropStream
    BY <1>0, <1>8, StreamCloses DEF DropStream
  <1> QED BY <1>1, <1>2, <1>3, <1>4, <1>5, <1>6, <1>7, <1>8 DEF EventStream

\* The times of a stream are numbers.
StreamTimes(s) == /\ {s.looked, s.opened, s.took, s.nextCheck} \subseteq Nat
                  /\ {s.sent, s.judged} \subseteq Int
LEMMA StreamFields == StreamInv => StreamTimes(stream)
  BY DEF StreamInv, Streams, StreamTimes

\* So does every step.
LEMMA StreamNext == ASSUME StreamInv, [Next]_vars PROVE StreamInv'
  <1> Interval \in Nat /\ Interval > 0
    BY BrowseAssumption
  <1>1. CASE Announced
    <2>1. PICK f \in Files, g \in Files, ours \in BOOLEAN : \E d : Changes(d, f, g, ours)
      BY <1>1, ChangesAre
    <2> QED BY <2>1, StreamChange
  <1>1a. ASSUME NEW f \in Files, NEW n \in Sizes, Grow(f, n) \/ Truncate(f, n) PROVE StreamInv'
    <2>1. Resized(disk', f)
      BY <1>1a, ResizedFiles
    <2>2. FilesOf(disk') /\ changes' = changes + 1 /\ UNCHANGED <<mix, now, owing, gen, stream, signedOut>>
      BY <1>1a, <2>1 DEF Grow, Truncate, Resized
    <2> QED BY <2>2 DEF StreamInv, Checked, Limit
  <1>1b. ASSUME NEW f \in Files, Close(f) PROVE StreamInv'
    <2>1. FilesOf(disk')
      BY <1>1b, ClosedFiles DEF Resized
    <2>2. stream' = Notified(f, f) /\ UNCHANGED <<mix, now, changes, owing, gen, signedOut>>
      BY <1>1b DEF Close
    <2>3. changes' \in Nat /\ owing' \in 0 .. changes'
      BY <2>2 DEF StreamInv
    <2> QED BY <2>1, <2>2, <2>3, StreamHearsOf
  <1>2. CASE EndMutation
    BY <1>2 DEF EndMutation, StreamInv, Checked, Limit
  <1>3. CASE CutMutation
    BY <1>3 DEF CutMutation, StreamInv, Checked, Limit
  <1>4. CASE Tick
    <2>1. now' = now + 1 /\ UNCHANGED <<mix, disk, changes, owing, gen, stream, signedOut>>
      BY <1>4 DEF Tick
    <2>2. now \in Nat /\ StreamTimes(stream)
      BY StreamFields DEF StreamInv
    <2>3. Limit' = Limit
      BY <2>1 DEF Limit
    <2>4. Checked'
      BY SMTT(30), <2>1, <2>2, <2>3 DEF StreamInv, Checked, StreamTimes
    <2> QED BY <2>1, <2>2, <2>4 DEF StreamInv
  <1>5. CASE UNCHANGED <<mix, now, disk, changes, owing, gen, stream, signedOut>>
    BY <1>5 DEF StreamInv, Checked, Limit
  <1>6. CASE SizeRequest
    BY <1>5, <1>6 DEF SizeRequest, AskSize, PassOver, BeginWalk, SpendBudget, CutWalk, EndWalk, StoreSize, Visit,
                      UNCHANGEDbutSizes
  <1>7. CASE EventStream
    BY <1>7, StreamListens
  <1>8. CASE SignOut
    <2>1. signedOut = -1 /\ signedOut' = now
          /\ UNCHANGED <<mix, now, disk, changes, owing, gen, stream>>
      BY <1>8 DEF SignOut
    <2>2. now \in Nat /\ StreamTimes(stream)
      BY StreamFields DEF StreamInv
    <2>3. Limit' >= now + Interval /\ Limit' \in Int
      BY <2>1, <2>2 DEF Limit, StreamTimes
    <2>4. Checked'
      BY <2>1, <2>2, <2>3 DEF StreamInv, Checked, StreamTimes
    <2> QED BY <2>1, <2>2, <2>4 DEF StreamInv
  <1>9. CASE Listing
    BY <1>5, <1>9 DEF Listing
  <1>10. CASE UNCHANGED vars
    BY <1>5, <1>10 DEF vars
  <1> QED BY <1>1, <1>1a, <1>1b, <1>2, <1>3, <1>4, <1>6, <1>7, <1>8, <1>9, <1>10 DEF Next, Changing, Announced

\* And so the stream's invariant holds in every reachable state.
LEMMA StreamAlways == Spec => []StreamInv
  BY StreamInit, StreamNext, PTL DEF Spec

\* The greater of two integers.
LEMMA GreaterOf ==
  ASSUME NEW a \in Int, NEW b \in Int
  PROVE  Max({a, b}) = IF a > b THEN a ELSE b
  <1> DEFINE m == IF a > b THEN a ELSE b
  <1>1. m \in {a, b} /\ \A y \in {a, b} : m >= y
    OBVIOUS
  <1>2. \A x \in {a, b} : (\A y \in {a, b} : x >= y) => x = m
    OBVIOUS
  <1> QED BY <1>1, <1>2 DEF Max

(* A stream says nothing once its session has been over for the interval      *)
(* between two checks and the time that the last check took (browse.rs,       *)
(* directory_events): a check that lets it go on began before the sign-out,   *)
(* and the next one is due an interval after it was answered.                 *)
THEOREM StreamsFallSilent == Spec => []SilentOnceSignedOut
  <1>1. StreamInv => SilentOnceSignedOut
    <2> SUFFICES ASSUME StreamInv PROVE SilentOnceSignedOut
      OBVIOUS
    <2>1. signedOut \in Int /\ stream.opened \in Int
      BY DEF StreamInv, Streams
    <2>2. Max({signedOut, stream.opened}) = IF signedOut > stream.opened THEN signedOut ELSE stream.opened
      BY <2>1, GreaterOf
    <2> QED BY <2>2 DEF StreamInv, Checked, SilentOnceSignedOut, Limit
  <1> QED BY <1>1, StreamAlways, PTL

-----------------------------------------------------------------------------
(* Folders and what is beneath them                                          *)

\* One path is the beginning of another when it agrees with it as far as it goes.
LEMMA PrefixIs ==
  ASSUME NEW p \in Seq(Nat), NEW q \in Seq(Nat)
  PROVE  IsPrefix(p, q) <=> Len(p) <= Len(q) /\ \A i \in 1 .. Len(p) : p[i] = q[i]
  <1>1. Len(p) \in Nat /\ Len(q) \in Nat
    OBVIOUS
  <1>2. CASE Len(p) <= Len(q)
    <2>1. /\ \A i \in 1 .. Len(p) : p[i] \in Nat /\ q[i] \in Nat
      BY <1>1, <1>2, ElementOfSeq
    <2>2. /\ SubSeq(p, 1, Len(p)) \in Seq(Nat) /\ Len(SubSeq(p, 1, Len(p))) = Len(p)
          /\ \A i \in 1 .. Len(p) : SubSeq(p, 1, Len(p))[i] = p[i]
      BY <1>1, <2>1, SubSeqProperties
    <2>3. /\ SubSeq(q, 1, Len(p)) \in Seq(Nat) /\ Len(SubSeq(q, 1, Len(p))) = Len(p)
          /\ \A i \in 1 .. Len(p) : SubSeq(q, 1, Len(p))[i] = q[i]
      BY <1>1, <2>1, SubSeqProperties
    <2> DEFINE a == SubSeq(p, 1, Len(p))
               b == SubSeq(q, 1, Len(p))
    <2>4. IsPrefix(p, q) <=> a = b
      BY <1>2 DEF IsPrefix
    <2> HIDE DEF a, b
    <2>5. (\A i \in 1 .. Len(p) : a[i] = b[i]) => a = b
      BY <2>2, <2>3, SeqEqual DEF a, b
    <2> QED BY <1>2, <2>2, <2>3, <2>4, <2>5 DEF a, b
  <1>3. CASE ~(Len(p) <= Len(q))
    BY <1>3 DEF IsPrefix
  <1> QED BY <1>2, <1>3

\* A file of the watched folder is beneath the folders that contain that one, and only
\* those.
LEMMA BeneathWatched ==
  ASSUME NEW p \in Folders, NEW f \in Files, Parent(f) = Watched
  PROVE  IsPrefix(p, f) <=> IsPrefix(p, Watched)
  <1>1. /\ p \in Seq(Nat) /\ f \in Seq(Nat) /\ Watched \in Seq(Nat) /\ Len(f) \in Nat \ {0} /\ p # f
        /\ Len(p) \in Nat
    <2>1. p # f
      BY BrowseAssumption
    <2> QED BY <2>1, PathsAreSequences
  <1>2. Len(Watched) = Len(f) - 1 /\ \A i \in 1 .. Len(f) - 1 : Watched[i] = f[i]
    <2>1. \A i \in 1 .. Len(f) - 1 : f[i] \in Nat
      BY <1>1, ElementOfSeq
    <2> QED BY <1>1, <2>1, SubSeqProperties DEF Parent
  <1>3. ~(Len(p) = Len(f) /\ \A i \in 1 .. Len(p) : p[i] = f[i])
    BY <1>1, SeqEqual
  <1>4. IsPrefix(p, f) <=> Len(p) <= Len(f) /\ \A i \in 1 .. Len(p) : p[i] = f[i]
    BY <1>1, PrefixIs
  <1>5. IsPrefix(p, Watched) <=> Len(p) <= Len(Watched) /\ \A i \in 1 .. Len(p) : p[i] = Watched[i]
    BY <1>1, PrefixIs
  <1> QED BY SMTT(30), <1>1, <1>2, <1>3, <1>4, <1>5

\* What contains the watched folder contains each entry of it.
LEMMA PrefixOfName ==
  ASSUME NEW p \in Seq(Nat), NEW n \in Nat, IsPrefix(p, Watched)
  PROVE  IsPrefix(p, WhereOf(n))
  <1> DEFINE w == Append(Watched, n)
  <1>1. Watched \in Seq(Nat) /\ w \in Seq(Nat) /\ Len(w) = Len(Watched) + 1
        /\ Len(p) \in Nat /\ Len(Watched) \in Nat
        /\ \A i \in 1 .. Len(Watched) : w[i] = Watched[i]
    BY PathsAreSequences, AppendProperties
  <1> HIDE DEF w
  <1>2. Len(p) <= Len(Watched) /\ \A i \in 1 .. Len(p) : p[i] = Watched[i]
    BY <1>1, PrefixIs
  <1>3. IsPrefix(p, w) <=> Len(p) <= Len(w) /\ \A i \in 1 .. Len(p) : p[i] = w[i]
    BY <1>1, PrefixIs
  <1>4. IsPrefix(p, w)
    BY <1>1, <1>2, <1>3
  <1> QED BY <1>4 DEF WhereOf, w

\* The root contains everything.
LEMMA RootContains ==
  ASSUME NEW p \in Seq(Nat)
  PROVE  IsPrefix(<<>>, p)
  <1> DEFINE e == <<>>
  <1>1. e \in Seq(Nat) /\ Len(e) = 0 /\ Len(p) \in Nat
    BY EmptySeq
  <1> HIDE DEF e
  <1>2. IsPrefix(e, p) <=> Len(e) <= Len(p) /\ \A i \in 1 .. Len(e) : e[i] = p[i]
    BY <1>1, PrefixIs
  <1>3. IsPrefix(e, p)
    BY <1>1, <1>2
  <1> QED BY <1>3 DEF e

\* Files have sizes, and finitely many files a sum of them.
LEMMA SizesAre ==
  ASSUME NEW d, FilesOf(d)
  PROVE  /\ \A f \in Files : Sized(d)[f] \in Nat /\ Sized(d)[f] = SizeAt(d, f)
         /\ IsFiniteSet(Files)
         /\ \A p : Beneath(p) \in SUBSET Files /\ IsFiniteSet(Beneath(p))
         /\ \A S \in SUBSET Files : IsFiniteSet(S) /\ SumOn(Sized(d), S) \in Nat
  <1>1. \A f \in Files : Sized(d)[f] \in Nat /\ Sized(d)[f] = SizeAt(d, f)
    BY DEF Sized, SizeAt, FilesOf
  <1>2. IsFiniteSet(Files)
    BY BrowseAssumption
  <1>3. \A p : Beneath(p) \in SUBSET Files
    BY DEF Beneath
  <1>4. \A S \in SUBSET Files : IsFiniteSet(S)
    BY <1>2, FS_Subset
  <1>5. \A S \in SUBSET Files : SumOn(Sized(d), S) \in Nat
    BY <1>1, <1>2, SumInserts
  <1> QED BY <1>1, <1>2, <1>3, <1>4, <1>5

\* The size of a folder is the sum over the files beneath it.
LEMMA ActualIs ==
  ASSUME StreamInv, NEW p
  PROVE  Actual(p) = SumOn(Sized(disk), Beneath(p))
  <1> DEFINE f == [x \in Beneath(p) |-> SizeAt(disk, x)]
  <1>1. Actual(p) = SumOn(f, Beneath(p))
    BY DEF Actual, SumFunction, SumFunctionOnSet, FoldFunctionOnSet, MapThenFoldSet, SumOn, Sums, First
  <1>2. \A x \in Beneath(p) : f[x] = Sized(disk)[x]
    BY DEF Sized, Beneath
  <1>3. IsFiniteSet(Beneath(p))
    BY SizesAre DEF StreamInv, FilesOf
  <1> HIDE DEF f
  <1> QED BY <1>1, <1>2, <1>3, SumOnAgrees

\* A change leaves the size of what it does not touch.
LEMMA AgreesElsewhere ==
  ASSUME NEW f, NEW g, NEW d, Elsewhere(d, f, g), NEW S \in SUBSET Files, f \notin S, g \notin S, NEW s
  PROVE  Agrees(d, s, S) <=> Agrees(disk, s, S)
  <1>1. \A x \in S : Sized(d)[x] = Sized(disk)[x]
    BY DEF Sized, SizeAt, Elsewhere
  <1>2. IsFiniteSet(S)
    BY BrowseAssumption, FS_Subset
  <1>3. SumOn(Sized(d), S) = SumOn(Sized(disk), S)
    BY <1>1, <1>2, SumOnAgrees
  <1> QED BY <1>3 DEF Agrees

\* Where there are no files there is nothing to be right about.
LEMMA AgreesOnNothing ==
  ASSUME NEW d, NEW s, s.bytes = 0
  PROVE  Agrees(d, s, {})
  <1>1. SumOn(Sized(d), {}) = 0
    BY SumEmpty
  <1> QED BY <1>1 DEF Agrees

-----------------------------------------------------------------------------
(* What excuses sizes                                                        *)

\* The step from d, o, q to e, n, m keeps honest what is excused as fs says.
Excuses(fs, d, o, q, e, n, m) ==
    \A p \in Folders : \A S \in SUBSET Beneath(p) : \A s, x :
        /\ x.bytes = s.bytes /\ x.complete = s.complete
        /\ s.excused => x.excused
        /\ (\E f \in fs : IsPrefix(p, f)) => x.excused
        /\ Beneath(p) = {} => s.bytes = 0
        /\ Honest(d, o, q, s, p, S)
        => Honest(e, n, m, x, p, S)

EntryFor(e, p, fs) == [e EXCEPT !.excused = @ \/ \E f \in fs : IsPrefix(p, f)]
RequestFor(e, fs) == [e EXCEPT !.excused = @ \/ (e.pc # "idle" /\ \E f \in fs : IsPrefix(e.path, f))]

\* An excuse changes nothing of an entry of the cache but its being excused,
LEMMA EntryExcused ==
  ASSUME NEW e \in Entry, NEW fs, NEW p, NEW x, x = EntryFor(e, p, fs)
  PROVE  /\ x \in Entry /\ x.bytes = e.bytes /\ x.complete = e.complete /\ x.stored = e.stored
         /\ (e.excused => x.excused) /\ ((\E f \in fs : IsPrefix(p, f)) => x.excused)
  BY DEF Entry, EntryFor

\* nor anything else of a walk.
LEMMA RequestExcused ==
  ASSUME NEW e \in Request, NEW fs, NEW x, x = RequestFor(e, fs)
  PROVE  /\ x \in Request /\ x.bytes = e.bytes /\ x.complete = e.complete /\ x.started = e.started
         /\ x.pc = e.pc /\ x.path = e.path /\ x.left = e.left
         /\ (e.excused => x.excused)
         /\ (e.pc # "idle" /\ (\E f \in fs : IsPrefix(e.path, f)) => x.excused)
  BY DEF Request, RequestFor

\* A walk that fits the share still does after a change that excuses what it touches.
LEMMA FitsExcused ==
  ASSUME NEW r \in Request, NEW fs, NEW x, x = RequestFor(r, fs), NEW d, NEW o, NEW q, NEW e, NEW n, NEW m, NEW g,
         Excuses(fs, d, o, q, e, n, m), Fits(d, o, q, g, r)
  PROVE  Fits(e, n, m, g, x)
  <1>1. /\ x \in Request /\ x.bytes = r.bytes /\ x.complete = r.complete /\ x.started = r.started
        /\ x.pc = r.pc /\ x.path = r.path /\ x.left = r.left
        /\ (r.excused => x.excused)
        /\ (r.pc # "idle" /\ (\E f \in fs : IsPrefix(r.path, f)) => x.excused)
    BY RequestExcused
  <1>2. CASE r.pc \in {"walk", "store"} /\ r.started = g
    <2> DEFINE S == Beneath(r.path) \ r.left
    <2>1. S \in SUBSET Beneath(r.path) /\ r.path \in Folders
      BY DEF Request
    <2>2. Honest(d, o, q, r, r.path, S) /\ (Beneath(r.path) = {} => r.bytes = 0)
      BY <1>2 DEF Fits
    <2> HIDE DEF S
    <2>3. Honest(e, n, m, x, r.path, S)
      BY <1>1, <1>2, <2>1, <2>2 DEF Excuses
    <2>4. Honest(e, n, m, x, x.path, Beneath(x.path) \ x.left)
      BY <1>1, <2>3 DEF S
    <2> QED BY <1>1, <1>2, <2>4 DEF Fits
  <1>3. CASE ~(r.pc \in {"walk", "store"} /\ r.started = g)
    BY <1>1, <1>3 DEF Fits
  <1> QED BY <1>2, <1>3

\* So a change that excuses what it touches keeps the sizes honest.
LEMMA ExcuseKeeps ==
  ASSUME SizesInv, NEW fs, Excuse(fs), gen' = gen, now' = now,
         Excuses(fs, disk, owing, stream.queue, disk', owing', stream'.queue)
  PROVE  SizesInv'
  <1>1. CacheInv'
    <2>1. DOMAIN cache' = DOMAIN cache
      BY DEF Excuse
    <2>2. ASSUME NEW p \in DOMAIN cache
          PROVE  /\ cache'[p] \in Entry /\ cache'[p].stored <= now
                 /\ Honest(disk', owing', stream'.queue, cache'[p], p, Beneath(p))
                 /\ Beneath(p) = {} => cache'[p].bytes = 0
      <3> DEFINE e == cache[p]
                 x == cache'[p]
      <3>1. x = EntryFor(e, p, fs)
        BY DEF Excuse, EntryFor
      <3>2. e \in Entry /\ e.stored <= now /\ Honest(disk, owing, stream.queue, e, p, Beneath(p))
            /\ (Beneath(p) = {} => e.bytes = 0) /\ p \in Folders
        BY DEF SizesInv, CacheInv
      <3> HIDE DEF e, x
      <3>3. /\ x \in Entry /\ x.bytes = e.bytes /\ x.complete = e.complete /\ x.stored = e.stored
            /\ (e.excused => x.excused) /\ ((\E f \in fs : IsPrefix(p, f)) => x.excused)
        BY <3>1, <3>2, EntryExcused
      <3>4. Honest(disk', owing', stream'.queue, x, p, Beneath(p))
        <4> DEFINE S == Beneath(p)
        <4>1. S \in SUBSET Beneath(p)
          OBVIOUS
        <4> HIDE DEF S
        <4>2. Honest(disk, owing, stream.queue, e, p, S)
          BY <3>2 DEF S
        <4>3. Honest(disk', owing', stream'.queue, x, p, S)
          BY <3>2, <3>3, <4>1, <4>2 DEF Excuses
        <4> QED BY <4>3 DEF S
      <3> QED BY <3>2, <3>3, <3>4 DEF x
    <2> QED BY <2>1, <2>2 DEF SizesInv, CacheInv, Beneath
  <1>2. WalksInv'
    <2>1. ASSUME NEW r \in Walkers
          PROVE  /\ walk'[r] \in Request /\ walk'[r].pc = walk[r].pc
                 /\ Fits(disk', owing', stream'.queue, gen, walk'[r])
      <3> DEFINE e == walk[r]
                 x == walk'[r]
      <3>1. x = RequestFor(e, fs)
        BY DEF Excuse, RequestFor
      <3>2. e \in Request /\ Fits(disk, owing, stream.queue, gen, e)
        BY DEF SizesInv, WalksInv
      <3> HIDE DEF e, x
      <3>3. Fits(disk', owing', stream'.queue, gen, x)
        BY <3>1, <3>2, FitsExcused
      <3>4. x \in Request /\ x.pc = e.pc
        BY <3>1, <3>2, RequestExcused
      <3> QED BY <3>3, <3>4 DEF x, e
    <2>2. walk' \in [Walkers -> Request]
      BY <2>1 DEF Excuse
    <2>3. InWalk' = InWalk
      BY <2>1 DEF InWalk
    <2> QED BY <2>1, <2>2, <2>3 DEF SizesInv, WalksInv
  <1> QED BY <1>1, <1>2 DEF SizesInv

\* A change from outside excuses the files that no stream reports, and the others queue.
LEMMA ChangeExcuses ==
  ASSUME StreamInv, NEW f \in Files, NEW g \in Files, NEW d, Elsewhere(d, f, g), disk' = d,
         stream' = Notified(f, g), owing' = owing
  PROVE  Excuses({x \in {f, g} : ~Reported(x)}, disk, owing, stream.queue, disk', owing', stream'.queue)
  <1> DEFINE E == {x \in {f, g} : ~Reported(x)}
  <1>1. disk' = d /\ stream' = Notified(f, g) /\ owing' = owing /\ Elsewhere(d, f, g)
    OBVIOUS
  <1>2. (stream'.queue = <<>> => stream.queue = <<>> /\ ~Reported(f) /\ ~Reported(g))
    BY <1>1, StreamIsTold
  <1> SUFFICES ASSUME NEW p \in Folders, NEW S \in SUBSET Beneath(p), NEW s, NEW x,
                      x.bytes = s.bytes, x.complete = s.complete, s.excused => x.excused,
                      (\E e \in E : IsPrefix(p, e)) => x.excused,
                      Honest(disk, owing, stream.queue, s, p, S)
               PROVE  Honest(disk', owing', stream'.queue, x, p, S)
    BY DEF Excuses
  <1>3. CASE x.excused \/ owing' > 0 \/ (stream'.queue # <<>> /\ IsPrefix(p, Watched))
    BY <1>3 DEF Honest
  <1>4. CASE ~(x.excused \/ owing' > 0 \/ (stream'.queue # <<>> /\ IsPrefix(p, Watched)))
    <2>1. ~IsPrefix(p, f)
      <3> SUFFICES ASSUME IsPrefix(p, f) PROVE FALSE
        OBVIOUS
      <3>1. Reported(f)
        BY <1>4
      <3>2. Parent(f) = Watched
        BY <3>1 DEF Reported
      <3> QED BY <1>2, <1>4, <3>1, <3>2, BeneathWatched
    <2>2. ~IsPrefix(p, g)
      <3> SUFFICES ASSUME IsPrefix(p, g) PROVE FALSE
        OBVIOUS
      <3>1. Reported(g)
        BY <1>4
      <3>2. Parent(g) = Watched
        BY <3>1 DEF Reported
      <3> QED BY <1>2, <1>4, <3>1, <3>2, BeneathWatched
    <2>3. S \in SUBSET Files /\ f \notin S /\ g \notin S
      BY <2>1, <2>2 DEF Beneath
    <2>4. Grown(disk, p) \/ Agrees(disk, s, S)
      BY <1>1, <1>2, <1>4 DEF Honest
    <2>5. Grown(disk, p) => Grown(d, p)
      BY <1>1, <2>1, <2>2 DEF StreamInv, FilesOf, Grown, Elsewhere
    <2>6. Agrees(disk, s, S) => Agrees(d, s, S)
      BY <1>1, <2>3, AgreesElsewhere
    <2>7. Agrees(d, s, S) => Agrees(d, x, S)
      BY DEF Agrees
    <2> QED BY <1>1, <2>4, <2>5, <2>6, <2>7 DEF Honest
  <1> QED BY <1>3, <1>4

\* A file that grows is open, which is known of the sizes that it makes wrong.
LEMMA GrowKeeps ==
  ASSUME StreamInv, NEW f \in Files, NEW d, Elsewhere(d, f, f), f \in DOMAIN d, d[f].open,
         NEW o, NEW q, NEW s, NEW p, NEW S \in SUBSET Beneath(p), Honest(disk, o, q, s, p, S)
  PROVE  Honest(d, o, q, s, p, S)
  <1>1. CASE IsPrefix(p, f)
    BY <1>1 DEF Honest, Grown
  <1>2. CASE ~IsPrefix(p, f)
    <2>1. S \in SUBSET Files /\ f \notin S
      BY <1>2 DEF Beneath
    <2>2. Grown(disk, p) => Grown(d, p)
      BY <1>2 DEF StreamInv, FilesOf, Grown, Elsewhere
    <2>3. Agrees(disk, s, S) => Agrees(d, s, S)
      BY <2>1, AgreesElsewhere
    <2> QED BY <2>2, <2>3 DEF Honest
  <1> QED BY <1>1, <1>2

LEMMA GrowSizes ==
  ASSUME StreamInv, SizesInv, NEW f \in Files, NEW n \in Sizes, Grow(f, n)
  PROVE  SizesInv'
  <1>1. Elsewhere(disk', f, f) /\ f \in DOMAIN disk' /\ disk'[f].open
    BY ResizedFiles DEF Resized
  <1>2. UNCHANGED <<now, owing, cache, gen, walk, stream>>
    BY DEF Grow
  <1> DEFINE d == disk'
  <1> HIDE DEF d
  <1>3. CacheInv'
    <2>1. ASSUME NEW p \in DOMAIN cache PROVE Honest(d, owing, stream.queue, cache[p], p, Beneath(p))
      <3> DEFINE S == Beneath(p)
      <3>1. S \in SUBSET Beneath(p) /\ Honest(disk, owing, stream.queue, cache[p], p, S)
        BY DEF SizesInv, CacheInv
      <3> HIDE DEF S
      <3>2. Honest(d, owing, stream.queue, cache[p], p, S)
        BY <1>1, <3>1, GrowKeeps DEF d
      <3> QED BY <3>2 DEF S
    <2> QED BY <1>2, <2>1 DEF SizesInv, CacheInv, Beneath, d
  <1>4. WalksInv'
    <2>1. ASSUME NEW r \in Walkers PROVE Fits(d, owing, stream.queue, gen, walk[r])
      <3> DEFINE s == walk[r]
                 S == Beneath(s.path) \ s.left
      <3>1. S \in SUBSET Beneath(s.path) /\ Fits(disk, owing, stream.queue, gen, s)
        BY DEF SizesInv, WalksInv
      <3> HIDE DEF s, S
      <3>2. Honest(disk, owing, stream.queue, s, s.path, S) => Honest(d, owing, stream.queue, s, s.path, S)
        BY <1>1, <3>1, GrowKeeps DEF d
      <3>3. Fits(d, owing, stream.queue, gen, s)
        BY <3>1, <3>2 DEF Fits, S
      <3> QED BY <3>3 DEF s
    <2> QED BY <1>2, <2>1 DEF SizesInv, WalksInv, InWalk, d
  <1> QED BY <1>3, <1>4 DEF SizesInv

\* A file that is closed is announced, or excused,
LEMMA CloseFileSizes ==
  ASSUME StreamInv, SizesInv, NEW f \in Files, Close(f)
  PROVE  SizesInv'
  <1> DEFINE E == {x \in {f} : ~Reported(x)}
             d == disk'
  <1>1. Excuse(E) /\ stream' = Notified(f, f) /\ UNCHANGED <<now, owing, gen>>
    BY DEF Close
  <1>2. Elsewhere(d, f, f)
    BY ClosedFiles DEF Resized
  <1>3. E = {x \in {f, f} : ~Reported(x)}
    OBVIOUS
  <1> HIDE DEF E, d
  <1>4. disk' = d
    BY DEF d
  <1>5. Excuses(E, disk, owing, stream.queue, disk', owing', stream'.queue)
    <2> DEFINE F == {x \in {f, f} : ~Reported(x)}
    <2>1. Excuses(F, disk, owing, stream.queue, disk', owing', stream'.queue)
      BY <1>1, <1>2, <1>4, ChangeExcuses
    <2> HIDE DEF F
    <2>2. E = F
      BY <1>3 DEF F
    <2> QED BY <2>1, <2>2
  <1> QED BY <1>1, <1>5, ExcuseKeeps

\* and so is one that is truncated, which nobody announces.
LEMMA TruncateSizes ==
  ASSUME StreamInv, SizesInv, NEW f \in Files, NEW n \in Sizes, Truncate(f, n)
  PROVE  SizesInv'
  <1> DEFINE d == disk'
  <1>1. Excuse({f}) /\ UNCHANGED <<now, owing, gen, stream>>
    BY DEF Truncate
  <1>2. Elsewhere(d, f, f)
    BY ResizedFiles DEF Resized
  <1> HIDE DEF d
  <1>3. Excuses({f}, disk, owing, stream.queue, disk', owing', stream'.queue)
    <2> SUFFICES ASSUME NEW p \in Folders, NEW S \in SUBSET Beneath(p), NEW s, NEW x,
                        x.bytes = s.bytes, x.complete = s.complete, s.excused => x.excused,
                        IsPrefix(p, f) => x.excused,
                        Honest(disk, owing, stream.queue, s, p, S)
                 PROVE  Honest(d, owing, stream.queue, x, p, S)
      BY <1>1 DEF Excuses, d
    <2>1. CASE IsPrefix(p, f)
      BY <2>1 DEF Honest
    <2>2. CASE ~IsPrefix(p, f)
      <3>1. S \in SUBSET Files /\ f \notin S
        BY <2>2 DEF Beneath
      <3>2. Grown(disk, p) => Grown(d, p)
        BY <1>2, <2>2 DEF StreamInv, FilesOf, Grown, Elsewhere
      <3>3. Agrees(disk, s, S) => Agrees(d, s, S)
        BY <1>2, <3>1, AgreesElsewhere
      <3>4. Agrees(d, s, S) => Agrees(d, x, S)
        BY DEF Agrees
      <3> QED BY <3>2, <3>3, <3>4 DEF Honest
    <2> QED BY <2>1, <2>2
  <1> QED BY <1>1, <1>3, ExcuseKeeps

\* Every change by name keeps the sizes honest: one from outside by what it excuses
\* and queues, one of the server's own by the invalidation that it owes.
LEMMA ChangeSizes ==
  ASSUME StreamInv, SizesInv, NEW f \in Files, NEW g \in Files, NEW ours \in BOOLEAN, NEW d, Changes(d, f, g, ours)
  PROVE  SizesInv'
  <1>1. UNCHANGED <<mix, now, gen, signedOut>>
    BY DEF Changes, Change
  <1>2. CASE ours
    <2>1. owing' > 0 /\ UNCHANGED <<cache, walk>>
      BY <1>2 DEF Changes, Change, StreamInv
    <2>2. \A s, p, S : Honest(disk', owing', stream'.queue, s, p, S)
      BY <2>1 DEF Honest
    <2>3. CacheInv'
      BY <1>1, <2>1, <2>2 DEF SizesInv, CacheInv
    <2>4. \A r \in Walkers : Fits(disk', owing', stream'.queue, gen, walk[r])
      BY <2>2 DEF SizesInv, WalksInv, Fits
    <2>5. WalksInv'
      BY <1>1, <2>1, <2>4 DEF SizesInv, WalksInv, InWalk
    <2> QED BY <2>3, <2>5 DEF SizesInv
  <1>3. CASE ~ours
    <2> DEFINE E == {x \in {f, g} : ~Reported(x)}
    <2>1. ours = FALSE
      BY <1>3
    <2>2. Excuse(E)
      BY <2>1 DEF Changes, Change
    <2>3. Excuses(E, disk, owing, stream.queue, disk', owing', stream'.queue)
      <3>1. disk' = d /\ stream' = Notified(f, g) /\ owing' = owing /\ Elsewhere(d, f, g)
        BY <2>1 DEF Changes, Change
      <3> HIDE DEF E
      <3> QED BY <3>1, ChangeExcuses DEF E
    <2> HIDE DEF E
    <2> QED BY <1>1, <2>2, <2>3, ExcuseKeeps
  <1> QED BY <1>2, <1>3

\* A mutation that is cut short excuses every folder in which there is a file at all.
LEMMA CutSizes == ASSUME StreamInv, SizesInv, CutMutation PROVE SizesInv'
  <1>1. Excuse(Files) /\ UNCHANGED <<now, disk, gen, stream>>
    BY DEF CutMutation
  <1>2. Excuses(Files, disk, owing, stream.queue, disk', owing', stream'.queue)
    <2> SUFFICES ASSUME NEW p \in Folders, NEW S \in SUBSET Beneath(p), NEW s, NEW x,
                        x.bytes = s.bytes, (\E e \in Files : IsPrefix(p, e)) => x.excused,
                        Beneath(p) = {} => s.bytes = 0
                 PROVE  Honest(disk', owing', stream'.queue, x, p, S)
      BY DEF Excuses
    <2>1. CASE Beneath(p) = {}
      <3>1. S = {} /\ x.bytes = 0
        BY <2>1
      <3> QED BY <3>1, AgreesOnNothing DEF Honest
    <2>2. CASE Beneath(p) # {}
      BY <2>2 DEF Beneath, Honest
    <2> QED BY <2>1, <2>2
  <1> QED BY <1>1, <1>2, ExcuseKeeps

\* A walk that an invalidation has overtaken promises nothing any more.
LEMMA FitsOvertaken ==
  ASSUME NEW s \in Request, NEW g \in Nat, NEW h \in Nat, g < h,
         NEW d, NEW o, NEW q, NEW e, NEW n, NEW m, Fits(d, o, q, g, s)
  PROVE  Fits(e, n, m, h, s)
  <1>1. s.started \in Nat
    BY DEF Request
  <1> QED BY <1>1 DEF Fits

\* A mutation that ends forgets every size its paths touch and overtakes every walk.
LEMMA EndSizes == ASSUME StreamInv, SizesInv, EndMutation PROVE SizesInv'
  <1>1. cache' = Invalidated({<<>>}) /\ gen' = gen + 1 /\ UNCHANGED <<now, disk, walk, stream>>
    BY DEF EndMutation
  <1>2. CacheInv'
    <2>1. \A p \in DOMAIN cache : IsPrefix(<<>>, p)
      BY PathsAreSequences, RootContains DEF SizesInv, CacheInv
    <2>2. DOMAIN cache' = {}
      BY <1>1, <2>1 DEF Invalidated, Only
    <2>3. IsFiniteSet({}) /\ Cardinality({}) = 0
      BY FS_EmptySet
    <2> QED BY <2>2, <2>3, BrowseAssumption DEF CacheInv
  <1>3. \A r \in Walkers : Fits(disk', owing', stream'.queue, gen', walk'[r])
    <2> TAKE r \in Walkers
    <2>1. gen \in Nat /\ gen + 1 \in Nat /\ gen < gen + 1 /\ walk[r] \in Request
          /\ Fits(disk, owing, stream.queue, gen, walk[r])
      BY DEF SizesInv, WalksInv, StreamInv
    <2> QED BY <1>1, <2>1, FitsOvertaken
  <1> QED BY <1>1, <1>2, <1>3 DEF SizesInv, WalksInv, InWalk

\* A stream that closes loses its events, and excuses what they concern.
LEMMA CloseSizes == ASSUME StreamInv, SizesInv, CloseStream, UNCHANGED <<now, disk, owing>> PROVE SizesInv'
  <1> DEFINE E == IF stream.queue = <<>> THEN {} ELSE {f \in Files : Parent(f) = Watched}
  <1>1. Excuse(E) /\ gen' = gen
    BY DEF CloseStream
  <1>2. stream' = ClosedOf(stream) /\ stream \in Streams
    BY DEF CloseStream, ClosedOf, StreamInv
  <1>3. stream'.queue = <<>>
    BY <1>2, RecordClosed
  <1>4. Excuses(E, disk, owing, stream.queue, disk', owing', stream'.queue)
    <2> SUFFICES ASSUME NEW p \in Folders, NEW S \in SUBSET Beneath(p), NEW s, NEW x,
                        x.bytes = s.bytes, x.complete = s.complete, s.excused => x.excused,
                        (\E e \in E : IsPrefix(p, e)) => x.excused,
                        Honest(disk, owing, stream.queue, s, p, S)
                 PROVE  Honest(disk', owing', stream'.queue, x, p, S)
      BY DEF Excuses
    <2>1. CASE stream.queue # <<>> /\ IsPrefix(p, Watched)
      <3>1. PICK f \in Files : Parent(f) = Watched
        BY <2>1 DEF StreamInv
      <3>2. IsPrefix(p, f)
        BY <2>1, <3>1, BeneathWatched
      <3>3. x.excused
        BY <2>1, <3>1, <3>2
      <3> QED BY <3>3 DEF Honest
    <2>2. CASE ~(stream.queue # <<>> /\ IsPrefix(p, Watched))
      BY <2>2 DEF Honest, Agrees
    <2> QED BY <2>1, <2>2
  <1> HIDE DEF E
  <1> QED BY <1>1, <1>4, ExcuseKeeps

\* What the stream reads is forgotten with every folder that contains the watched one, and
\* every walk under way is overtaken.
LEMMA ForgetSizes ==
  ASSUME StreamInv, SizesInv, NEW names \in SUBSET Nat, names # {}, IsFiniteSet(names), InvalidateAll(names),
         UNCHANGED <<now, disk, owing>>
  PROVE  SizesInv'
  <1>1. /\ cache' = Invalidated({WhereOf(n) : n \in names}) /\ walk' = walk
        /\ gen' = gen + Cardinality(names)
    BY DEF InvalidateAll
  <1>2. Cardinality(names) \in Nat /\ Cardinality(names) # 0
    BY FS_CardinalityType, FS_EmptySet
  <1>3. ASSUME NEW p \in DOMAIN cache'
        PROVE  p \in DOMAIN cache /\ cache'[p] = cache[p] /\ ~IsPrefix(p, Watched)
    <2>1. /\ p \in DOMAIN cache /\ cache'[p] = cache[p]
          /\ ~\E q \in {WhereOf(n) : n \in names} : IsPrefix(p, q) \/ IsPrefix(q, p)
      BY <1>1 DEF Invalidated, Only
    <2>2. p \in Seq(Nat)
      BY <2>1, PathsAreSequences DEF SizesInv, CacheInv
    <2>3. PICK n \in names : TRUE
      OBVIOUS
    <2>4. ~IsPrefix(p, WhereOf(n))
      BY <2>1, <2>3
    <2> QED BY <2>1, <2>2, <2>4, PrefixOfName
  <1>4. CacheInv'
    <2>1. IsFiniteSet(DOMAIN cache') /\ Cardinality(DOMAIN cache') <= Capacity
      <3>1. DOMAIN cache' \in SUBSET DOMAIN cache
        BY <1>3
      <3>2. Cardinality(DOMAIN cache') <= Cardinality(DOMAIN cache) /\ IsFiniteSet(DOMAIN cache')
        BY <3>1, FS_Subset DEF SizesInv, CacheInv
      <3>3. Cardinality(DOMAIN cache') \in Nat /\ Cardinality(DOMAIN cache) \in Nat /\ Capacity \in Nat
        BY <3>2, FS_CardinalityType, BrowseAssumption DEF SizesInv, CacheInv
      <3> QED BY <3>2, <3>3 DEF SizesInv, CacheInv
    <2>2. ASSUME NEW p \in DOMAIN cache'
          PROVE  Honest(disk', owing', stream'.queue, cache'[p], p, Beneath(p))
      <3>1. Honest(disk, owing, stream.queue, cache[p], p, Beneath(p))
        BY <1>3 DEF SizesInv, CacheInv
      <3> QED BY <1>3, <3>1 DEF Honest
    <2> QED BY <1>3, <2>1, <2>2 DEF SizesInv, CacheInv, Beneath
  <1>5. \A r \in Walkers : Fits(disk', owing', stream'.queue, gen', walk'[r])
    <2> TAKE r \in Walkers
    <2>1. gen \in Nat /\ gen' \in Nat /\ gen < gen' /\ walk[r] \in Request
          /\ Fits(disk, owing, stream.queue, gen, walk[r])
      BY <1>1, <1>2 DEF SizesInv, WalksInv, StreamInv
    <2> QED BY <1>1, <2>1, FitsOvertaken
  <1> QED BY <1>1, <1>4, <1>5 DEF SizesInv, WalksInv, InWalk

\* Nothing happens to a size that is left alone, or forgotten.
LEMMA LeftCache ==
  ASSUME CacheInv, NEW S, cache' = cache \/ cache' = Only(cache, S), S \subseteq DOMAIN cache,
         UNCHANGED <<disk, owing>>, stream'.queue = stream.queue, now \in Nat, now' \in Nat, now <= now'
  PROVE  CacheInv'
  <1>1. DOMAIN cache' \in SUBSET DOMAIN cache /\ \A p \in DOMAIN cache' : cache'[p] = cache[p]
    BY DEF Only
  <1>2. IsFiniteSet(DOMAIN cache') /\ Cardinality(DOMAIN cache') <= Capacity
    <2>1. Cardinality(DOMAIN cache') <= Cardinality(DOMAIN cache) /\ IsFiniteSet(DOMAIN cache')
      BY <1>1, FS_Subset DEF CacheInv
    <2>2. Cardinality(DOMAIN cache') \in Nat /\ Cardinality(DOMAIN cache) \in Nat /\ Capacity \in Nat
      BY <2>1, FS_CardinalityType, BrowseAssumption DEF CacheInv
    <2> QED BY <2>1, <2>2 DEF CacheInv
  <1>3. \A p \in DOMAIN cache' : cache'[p].stored <= now'
    BY <1>1 DEF CacheInv, Entry
  <1> QED BY <1>1, <1>2, <1>3 DEF CacheInv, Beneath

\* A step that only forgets sizes and lets time pass keeps them honest.
LEMMA LeftSizes ==
  ASSUME SizesInv, NEW S, cache' = cache \/ cache' = Only(cache, S), S \subseteq DOMAIN cache, walk' = walk,
         UNCHANGED <<disk, owing, gen>>, stream'.queue = stream.queue, now \in Nat, now' \in Nat, now <= now'
  PROVE  SizesInv'
  <1>1. CacheInv'
    BY LeftCache DEF SizesInv
  <1>2. WalksInv'
    BY DEF SizesInv, WalksInv, InWalk
  <1> QED BY <1>1, <1>2 DEF SizesInv

\* A stream that reads its events forgets what they concern before it goes on.
LEMMA HearSizes ==
  ASSUME StreamInv, SizesInv, Read, UNCHANGED <<now, disk, owing>>
  PROVE  SizesInv'
  <1>1. CASE stream' = PhaseOf(stream, "open") /\ UNCHANGED <<cache, gen, walk>>
    <2>1. stream \in Streams /\ "open" \in Phases
      BY DEF StreamInv, Phases
    <2>2. stream'.queue = stream.queue
      BY <1>1, <2>1, RecordPhase
    <2>3. now \in Nat
      BY DEF StreamInv
    <2> DEFINE S == DOMAIN cache
    <2>4. S \subseteq DOMAIN cache
      OBVIOUS
    <2> QED BY <1>1, <2>2, <2>3, <2>4, LeftSizes
  <1>2. CASE stream.queue # <<>> /\ InvalidateAll(Range(Drained(stream.queue)))
    <2> DEFINE q == Drained(stream.queue)
               names == Range(q)
    <2>1. q \in Seq(Nat) /\ q # <<>>
      BY <1>2, DrainedIs
    <2> HIDE DEF q
    <2>2. names \in SUBSET Nat /\ names # {} /\ IsFiniteSet(names)
      BY <2>1, RangeIsFinite
    <2> HIDE DEF names
    <2>3. InvalidateAll(names)
      BY <1>2 DEF names, q
    <2> QED BY <2>2, <2>3, ForgetSizes
  <1>3. CASE InvalidateAll({0})
    <2>1. {0} \in SUBSET Nat /\ {0} # {} /\ IsFiniteSet({0})
      <3>1. {0} \in SUBSET Nat /\ {0} # {}
        OBVIOUS
      <3>2. IsFiniteSet({0})
        BY FS_Singleton
      <3> QED BY <3>1, <3>2
    <2> QED BY <1>3, <2>1, ForgetSizes
  <1> QED BY <1>1, <1>2, <1>3 DEF Read, PhaseOf

\* No step of the stream makes a size wrong.
LEMMA ListenSizes == ASSUME StreamInv, SizesInv, EventStream PROVE SizesInv'
  <1>0. UNCHANGED <<mix, now, disk, changes, owing, signedOut>> /\ now \in Nat
    BY DEF EventStream, StreamInv
  <1>1. ASSUME UNCHANGED <<cache, gen, walk>>, stream'.queue = stream.queue PROVE SizesInv'
    <2> DEFINE S == DOMAIN cache
    <2>1. S \subseteq DOMAIN cache
      OBVIOUS
    <2> QED BY <1>0, <1>1, <2>1, LeftSizes
  <1>2. CASE OpenStream
    <2>1. stream' = [NoStream EXCEPT !.pc = "opening"] /\ stream.queue = <<>> /\ UNCHANGED <<cache, gen, walk>>
      BY <1>2 DEF OpenStream, StreamInv, Listening
    <2>2. stream'.queue = <<>>
      BY <2>1, NewStreamIs
    <2> QED BY <1>1, <2>1, <2>2
  <1>3. CASE WatchDirectory
    <2>1. CASE stream' = OpenOf(now) /\ UNCHANGED <<cache, gen, walk>>
      <3>1. stream'.queue = <<>>
        BY <1>0, <2>1, OpenStreamIs
      <3>2. stream.queue = <<>>
        BY <1>3 DEF WatchDirectory, StreamInv, Listening
      <3> QED BY <1>1, <2>1, <3>1, <3>2
    <2>2. CASE CloseStream
      BY <1>0, <2>2, CloseSizes
    <2> QED BY <1>3, <2>1, <2>2 DEF WatchDirectory, OpenOf
  <1>4. CASE \E c \in {"awake", "check"} : stream' = PhaseOf(stream, c) /\ UNCHANGED <<cache, gen, walk>>
    <2>1. PICK c \in {"awake", "check"} : stream' = PhaseOf(stream, c)
      BY <1>4
    <2>2. c \in Phases /\ stream \in Streams
      BY DEF Phases, StreamInv
    <2>3. stream'.queue = stream.queue
      BY <2>1, <2>2, RecordPhase
    <2> QED BY <1>1, <1>4, <2>3
  <1>5. CASE Sleep
    BY <1>0, <1>4, <1>5, CloseSizes DEF Sleep, PhaseOf
  <1>6. CASE Poll
    <2>1. CASE stream' = ReadyOf(stream, now) /\ UNCHANGED <<cache, gen, walk>>
      <3>1. stream \in Streams
        BY DEF StreamInv
      <3>2. stream'.queue = stream.queue
        BY <1>0, <2>1, <3>1, RecordReady
      <3> QED BY <1>1, <2>1, <3>2
    <2> QED BY <1>4, <1>6, <2>1 DEF Poll, ReadyOf, PhaseOf
  <1>7. CASE LookUp
    <2>1. PICK a \in BOOLEAN : stream' = LookedOf(stream, now, a)
      <3>1. PICK answers \in BOOLEAN : stream' = LookedOf(stream, now, answers /\ signedOut = -1)
        BY <1>7 DEF LookUp, LookedOf
      <3> QED BY <3>1
    <2>2. stream \in Streams
      BY DEF StreamInv
    <2>3. stream'.queue = stream.queue
      BY <1>0, <2>1, <2>2, RecordLooked
    <2> QED BY <1>1, <1>7, <2>3 DEF LookUp
  <1>8. CASE Answered
    <2>1. CASE CloseStream
      BY <1>0, <2>1, CloseSizes
    <2>2. CASE stream' = AnsweredOf(stream, now) /\ UNCHANGED <<cache, gen, walk>>
      <3>1. stream \in Streams /\ stream.looked <= now
        BY DEF StreamInv, Checked
      <3>2. stream'.queue = stream.queue
        BY <1>0, <2>2, <3>1, RecordAnswered
      <3> QED BY <1>1, <2>2, <3>2
    <2> QED BY <1>8, <2>1, <2>2 DEF Answered, AnsweredOf
  <1>9. CASE Read
    BY <1>0, <1>9, HearSizes
  <1>10. CASE DropStream
    BY <1>0, <1>10, CloseSizes DEF DropStream
  <1> QED BY <1>2, <1>3, <1>5, <1>6, <1>7, <1>8, <1>9, <1>10 DEF EventStream

-----------------------------------------------------------------------------
(* Requests for a size                                                       *)

Stepped(w, r, x) == [w EXCEPT ![r] = x]

\* A step of one request leaves the walks of the others as they are.
LEMMA OneWalk ==
  ASSUME WalksInv, UNCHANGED <<disk, owing, gen, stream>>, NEW r \in Walkers, NEW x \in Request,
         walk' = Stepped(walk, r, x), Fits(disk, owing, stream.queue, gen, x),
         x.pc \in {"begin", "walk"} => r \in InWalk \/ Cardinality(InWalk) < Slots
  PROVE  WalksInv'
  <1>1. walk' \in [Walkers -> Request] /\ walk'[r] = x /\ \A o \in Walkers \ {r} : walk'[o] = walk[o]
    BY DEF WalksInv, Stepped
  <1>2. Cardinality(InWalk') <= Slots
    <2>1. IsFiniteSet(InWalk) /\ Cardinality(InWalk) \in Nat /\ Slots \in Nat /\ Cardinality(InWalk) <= Slots
      <3>1. InWalk \in SUBSET Walkers /\ IsFiniteSet(Walkers) /\ Slots \in Nat
        BY BrowseAssumption DEF InWalk
      <3> QED BY <3>1, FS_Subset, FS_CardinalityType DEF WalksInv
    <2>2. CASE x.pc \in {"begin", "walk"} /\ r \notin InWalk
      <3>1. InWalk' = InWalk \cup {r}
        BY <1>1, <2>2 DEF InWalk
      <3>2. Cardinality(InWalk') = Cardinality(InWalk) + 1
        BY <2>1, <2>2, <3>1, FS_AddElement
      <3> QED BY <2>1, <2>2, <3>2
    <2>3. CASE ~(x.pc \in {"begin", "walk"} /\ r \notin InWalk)
      <3>1. InWalk' \in SUBSET InWalk
        BY <1>1, <2>3 DEF InWalk
      <3>2. Cardinality(InWalk') <= Cardinality(InWalk) /\ Cardinality(InWalk') \in Nat
        BY <2>1, <3>1, FS_Subset, FS_CardinalityType
      <3> QED BY <2>1, <3>2
    <2> QED BY <2>2, <2>3
  <1>3. \A o \in Walkers : Fits(disk', owing', stream'.queue, gen', walk'[o])
    BY <1>1 DEF WalksInv
  <1> QED BY <1>1, <1>2, <1>3 DEF WalksInv

AskedOf(p) == [NoWalk EXCEPT !.pc = "begin", !.path = p]
BegunOf(s, g, B) == [s EXCEPT !.pc = "walk", !.started = g, !.left = B, !.excused = FALSE]
VisitedOf(s, f, n) == [s EXCEPT !.left = @ \ {f}, !.bytes = @ + n]
PassedOf(s, B) == [s EXCEPT !.left = @ \ B, !.complete = FALSE]
CutOf(s) == IF s.pc = "walk" THEN [s EXCEPT !.waited = FALSE] ELSE NoWalk
EndedOf(s) == IF s.waited THEN [s EXCEPT !.pc = "store"] ELSE NoWalk

\* Requests that wait, that ask for a size and that begin to walk.
LEMMA RequestsAre ==
  ASSUME NEW s \in Request
  PROVE  /\ NoWalk \in Request /\ NoWalk.pc = "idle" /\ NoWalk.left = {} /\ NoWalk.started = 0
         /\ \A p \in Folders : \A x : x = AskedOf(p) =>
               /\ x \in Request /\ x.pc = "begin" /\ x.path = p /\ x.left = {} /\ x.bytes = 0
               /\ x.complete /\ x.started = 0
         /\ \A g \in Nat, B \in SUBSET Files : \A x : x = BegunOf(s, g, B) =>
               /\ x \in Request /\ x.pc = "walk" /\ x.path = s.path /\ x.left = B /\ x.bytes = s.bytes
               /\ x.complete = s.complete /\ x.started = g
  <1>1. NoWalk \in Request /\ NoWalk.pc = "idle" /\ NoWalk.left = {} /\ NoWalk.started = 0
    BY BrowseAssumption DEF NoWalk, Request
  <1>2. ASSUME NEW p \in Folders, NEW x, x = AskedOf(p)
        PROVE  /\ x \in Request /\ x.pc = "begin" /\ x.path = p /\ x.left = {} /\ x.bytes = 0
               /\ x.complete /\ x.started = 0
    BY <1>2 DEF AskedOf, NoWalk, Request
  <1>3. ASSUME NEW g \in Nat, NEW B \in SUBSET Files, NEW x, x = BegunOf(s, g, B)
        PROVE  /\ x \in Request /\ x.pc = "walk" /\ x.path = s.path /\ x.left = B /\ x.bytes = s.bytes
               /\ x.complete = s.complete /\ x.started = g
    BY <1>3 DEF BegunOf, Request
  <1> QED BY <1>1, <1>2, <1>3

\* Walks that visit a file, and that pass some over.
LEMMA WalksAre ==
  ASSUME NEW s \in Request
  PROVE  /\ \A f \in Files, n \in Nat : \A x : x = VisitedOf(s, f, n) =>
               /\ x \in Request /\ x.pc = s.pc /\ x.path = s.path /\ x.left = s.left \ {f}
               /\ x.bytes = s.bytes + n /\ x.complete = s.complete /\ x.started = s.started
               /\ (s.excused => x.excused)
         /\ \A B : \A x : x = PassedOf(s, B) =>
               /\ x \in Request /\ x.pc = s.pc /\ x.path = s.path /\ x.left = s.left \ B
               /\ x.bytes = s.bytes /\ ~x.complete /\ x.started = s.started
               /\ (s.excused => x.excused)
  <1>1. ASSUME NEW f \in Files, NEW n \in Nat, NEW x, x = VisitedOf(s, f, n)
        PROVE  /\ x \in Request /\ x.pc = s.pc /\ x.path = s.path /\ x.left = s.left \ {f}
               /\ x.bytes = s.bytes + n /\ x.complete = s.complete /\ x.started = s.started
               /\ (s.excused => x.excused)
    <2> DEFINE l == s.left \ {f}
               b == s.bytes + n
    <2>1. l \in SUBSET Files /\ b \in Nat
      BY DEF Request
    <2>2. x = [s EXCEPT !.left = l, !.bytes = b]
      BY <1>1 DEF VisitedOf
    <2> HIDE DEF l, b
    <2>3. /\ x \in Request /\ x.pc = s.pc /\ x.path = s.path /\ x.left = l
          /\ x.bytes = b /\ x.complete = s.complete /\ x.started = s.started
          /\ (s.excused => x.excused)
      BY <2>1, <2>2 DEF Request
    <2> QED BY <2>3 DEF l, b
  <1>2. ASSUME NEW B, NEW x, x = PassedOf(s, B)
        PROVE  /\ x \in Request /\ x.pc = s.pc /\ x.path = s.path /\ x.left = s.left \ B
               /\ x.bytes = s.bytes /\ ~x.complete /\ x.started = s.started
               /\ (s.excused => x.excused)
    BY <1>2 DEF PassedOf, Request
  <1> QED BY <1>1, <1>2

\* A request that ends, or whose client went, is either a walk without one or nothing.
LEMMA EndsAre ==
  ASSUME NEW s \in Request, NEW x, x = CutOf(s) \/ (s.left = {} /\ s.pc = "walk" /\ x = EndedOf(s))
  PROVE  \/ x = NoWalk
         \/ /\ x \in Request /\ x.path = s.path /\ x.left = s.left /\ x.bytes = s.bytes
            /\ x.complete = s.complete /\ x.started = s.started /\ (s.excused => x.excused)
            /\ s.pc = "walk" /\ x.pc \in {"walk", "store"} /\ (x.pc = "store" => s.left = {})
  <1>1. CASE x = CutOf(s)
    BY <1>1 DEF CutOf, Request
  <1>2. CASE s.left = {} /\ s.pc = "walk" /\ x = EndedOf(s)
    BY <1>2 DEF EndedOf, Request
  <1> QED BY <1>1, <1>2

\* A request takes a slot when there is one.
LEMMA AskFits ==
  ASSUME StreamInv, WalksInv, NEW r \in Walkers, NEW p \in Folders,
         walk' = Stepped(walk, r, AskedOf(p)), Cardinality(InWalk) < Slots, UNCHANGED <<disk, owing, gen, stream>>
  PROVE  WalksInv'
  <1> DEFINE x == AskedOf(p)
  <1>1. walk[r] \in Request
    BY DEF WalksInv
  <1>2. /\ x \in Request /\ x.pc = "begin" /\ x.path = p /\ x.left = {} /\ x.bytes = 0
        /\ x.complete /\ x.started = 0
    BY <1>1, RequestsAre
  <1>3. walk' = Stepped(walk, r, x)
    OBVIOUS
  <1> HIDE DEF x
  <1>4. Fits(disk, owing, stream.queue, gen, x)
    BY <1>2 DEF Fits, StreamInv
  <1> QED BY <1>2, <1>3, <1>4, OneWalk

\* A walk begins with everything before it, and with the generation of that moment.
LEMMA BeginFits ==
  ASSUME StreamInv, WalksInv, NEW r \in Walkers, walk[r].pc = "begin",
         walk' = Stepped(walk, r, BegunOf(walk[r], gen, Beneath(walk[r].path))), UNCHANGED <<disk, owing, gen, stream>>
  PROVE  WalksInv'
  <1> DEFINE s == walk[r]
             x == BegunOf(s, gen, Beneath(s.path))
  <1>1. s \in Request /\ Fits(disk, owing, stream.queue, gen, s) /\ s.pc = "begin" /\ r \in InWalk
    BY DEF WalksInv, InWalk
  <1>2. walk' = Stepped(walk, r, x) /\ x = BegunOf(s, gen, Beneath(s.path))
    OBVIOUS
  <1> HIDE DEF x, s
  <1>3. gen \in Nat /\ Beneath(s.path) \in SUBSET Files
    BY DEF StreamInv, Beneath
  <1>4. /\ x \in Request /\ x.pc = "walk" /\ x.path = s.path /\ x.left = Beneath(s.path) /\ x.bytes = s.bytes
        /\ x.complete = s.complete /\ x.started = gen
    BY <1>1, <1>2, <1>3, RequestsAre
  <1>5. s.bytes = 0
    BY <1>1 DEF Fits
  <1>6. Agrees(disk, x, {}) /\ Beneath(x.path) \ x.left = {}
    BY <1>4, <1>5, AgreesOnNothing
  <1>7. Honest(disk, owing, stream.queue, x, x.path, Beneath(x.path) \ x.left)
    BY <1>6 DEF Honest
  <1>8. Fits(disk, owing, stream.queue, gen, x)
    BY <1>3, <1>4, <1>5, <1>7 DEF Fits
  <1> QED BY <1>1, <1>2, <1>4, <1>8, OneWalk

\* A walk that visits a file agrees with one file more.
LEMMA VisitFits ==
  ASSUME StreamInv, WalksInv, NEW r \in Walkers, NEW f \in Files, walk[r].pc = "walk", f \in walk[r].left,
         walk' = Stepped(walk, r, VisitedOf(walk[r], f, SizeAt(disk, f))), UNCHANGED <<disk, owing, gen, stream>>
  PROVE  WalksInv'
  <1> DEFINE s == walk[r]
             n == SizeAt(disk, f)
             x == VisitedOf(s, f, n)
             B == Beneath(s.path)
  <1>1. s \in Request /\ Fits(disk, owing, stream.queue, gen, s) /\ s.pc = "walk" /\ r \in InWalk /\ f \in s.left
    BY DEF WalksInv, InWalk
  <1>2. walk' = Stepped(walk, r, x) /\ x = VisitedOf(s, f, n)
    OBVIOUS
  <1> HIDE DEF x, s
  <1>3. /\ \A o \in Files : Sized(disk)[o] \in Nat /\ Sized(disk)[o] = SizeAt(disk, o)
        /\ IsFiniteSet(Files) /\ B \in SUBSET Files
    BY SizesAre DEF StreamInv, FilesOf
  <1>4. n \in Nat /\ n = Sized(disk)[f]
    BY <1>3
  <1> HIDE DEF n, B
  <1>5. /\ x \in Request /\ x.pc = s.pc /\ x.path = s.path /\ x.left = s.left \ {f}
        /\ x.bytes = s.bytes + n /\ x.complete = s.complete /\ x.started = s.started
        /\ (s.excused => x.excused)
    BY <1>1, <1>2, <1>4, WalksAre
  <1>6. s.left \subseteq B /\ s.started <= gen /\ f \in B /\ B # {} /\ s.bytes \in Nat
    BY <1>1 DEF Fits, B, Request
  <1>7. ASSUME Honest(disk, owing, stream.queue, s, s.path, B \ s.left)
        PROVE  Honest(disk, owing, stream.queue, x, x.path, B \ x.left)
    <2> DEFINE S == B \ s.left
               a == SumOn(Sized(disk), S)
               c == SumOn(Sized(disk), S \cup {f})
    <2>1. S \in SUBSET Files /\ f \in Files \ S /\ B \ x.left = S \cup {f}
      BY <1>1, <1>3, <1>5, <1>6
    <2> HIDE DEF S
    <2>2. a \in Nat /\ c = a + n
      BY <1>3, <1>4, <2>1, SumInserts
    <2> HIDE DEF a, c
    <2>3. CASE Agrees(disk, s, S)
      <3>1. IF s.complete THEN s.bytes = a ELSE s.bytes <= a
        BY <2>3 DEF Agrees, a
      <3>2. IF x.complete THEN x.bytes = c ELSE x.bytes <= c
        BY <1>4, <1>5, <1>6, <2>2, <3>1
      <3>3. Agrees(disk, x, S \cup {f})
        BY <3>2 DEF Agrees, c
      <3> QED BY <2>1, <3>3 DEF Honest
    <2>4. CASE ~Agrees(disk, s, S)
      BY <1>5, <1>7, <2>4 DEF Honest, S
    <2> QED BY <2>3, <2>4
  <1>8. Fits(disk, owing, stream.queue, gen, x)
    BY <1>1, <1>5, <1>6, <1>7 DEF Fits, B
  <1> QED BY <1>1, <1>2, <1>5, <1>8, OneWalk

\* A walk that passes files over is not complete, and then promises no more than it saw.
LEMMA PassFits ==
  ASSUME StreamInv, WalksInv, NEW r \in Walkers, NEW P, walk[r].pc = "walk",
         walk' = Stepped(walk, r, PassedOf(walk[r], P)), UNCHANGED <<disk, owing, gen, stream>>
  PROVE  WalksInv'
  <1> DEFINE s == walk[r]
             x == PassedOf(s, P)
             B == Beneath(s.path)
  <1>1. s \in Request /\ Fits(disk, owing, stream.queue, gen, s) /\ s.pc = "walk" /\ r \in InWalk
    BY DEF WalksInv, InWalk
  <1>2. walk' = Stepped(walk, r, x) /\ x = PassedOf(s, P)
    OBVIOUS
  <1> HIDE DEF x, s
  <1>3. /\ \A o \in Files : Sized(disk)[o] \in Nat /\ Sized(disk)[o] = SizeAt(disk, o)
        /\ IsFiniteSet(Files) /\ B \in SUBSET Files
    BY SizesAre DEF StreamInv, FilesOf
  <1> HIDE DEF B
  <1>4. /\ x \in Request /\ x.pc = s.pc /\ x.path = s.path /\ x.left = s.left \ P
        /\ x.bytes = s.bytes /\ ~x.complete /\ x.started = s.started
        /\ (s.excused => x.excused)
    BY <1>1, <1>2, WalksAre
  <1>5. s.left \subseteq B /\ s.started <= gen /\ s.bytes \in Nat
    BY <1>1 DEF Fits, B, Request
  <1>6. ASSUME Honest(disk, owing, stream.queue, s, s.path, B \ s.left)
        PROVE  Honest(disk, owing, stream.queue, x, x.path, B \ x.left)
    <2> DEFINE S == B \ s.left
               T == B \ x.left
               a == SumOn(Sized(disk), S)
               c == SumOn(Sized(disk), T)
    <2>1. T \in SUBSET Files /\ S \in SUBSET T /\ IsFiniteSet(T) /\ \A o \in T : Sized(disk)[o] \in Nat
      BY <1>3, <1>4, FS_Subset
    <2> HIDE DEF S, T
    <2>2. a \in Nat /\ c \in Nat /\ a <= c
      BY <2>1, SumOfPart
    <2> HIDE DEF a, c
    <2>3. CASE Agrees(disk, s, S)
      <3>1. s.bytes <= a
        BY <1>5, <2>2, <2>3 DEF Agrees, a
      <3>2. Agrees(disk, x, T)
        BY <1>4, <1>5, <2>2, <3>1 DEF Agrees, c
      <3> QED BY <3>2 DEF Honest, T
    <2>4. CASE ~Agrees(disk, s, S)
      BY <1>4, <1>6, <2>4 DEF Honest, S
    <2> QED BY <2>3, <2>4
  <1>7. Fits(disk, owing, stream.queue, gen, x)
    BY <1>1, <1>4, <1>5, <1>6 DEF Fits, B
  <1> QED BY <1>1, <1>2, <1>4, <1>7, OneWalk

\* A request that is over promises nothing.
LEMMA IdleFits ==
  ASSUME StreamInv, WalksInv, NEW r \in Walkers, walk' = Stepped(walk, r, NoWalk),
         UNCHANGED <<disk, owing, gen, stream>>
  PROVE  WalksInv'
  <1> DEFINE x == NoWalk
  <1>1. walk[r] \in Request
    BY DEF WalksInv
  <1>2. x \in Request /\ x.pc = "idle" /\ x.left = {} /\ x.started = 0
    BY <1>1, RequestsAre
  <1>3. walk' = Stepped(walk, r, x)
    OBVIOUS
  <1> HIDE DEF x
  <1>4. Fits(disk, owing, stream.queue, gen, x)
    BY <1>2 DEF Fits, StreamInv
  <1> QED BY <1>2, <1>3, <1>4, OneWalk

\* A walk that ends, or is cut short, has nothing left to pass.
LEMMA EndFits ==
  ASSUME StreamInv, WalksInv, NEW r \in Walkers, NEW x, walk' = Stepped(walk, r, x),
         x = CutOf(walk[r]) \/ (walk[r].left = {} /\ walk[r].pc = "walk" /\ x = EndedOf(walk[r])),
         UNCHANGED <<disk, owing, gen, stream>>
  PROVE  WalksInv'
  <1> DEFINE s == walk[r]
  <1>1. s \in Request /\ Fits(disk, owing, stream.queue, gen, s) /\ (s.pc = "walk" => r \in InWalk)
    BY DEF WalksInv, InWalk
  <1>2. x = CutOf(s) \/ (s.left = {} /\ s.pc = "walk" /\ x = EndedOf(s))
    OBVIOUS
  <1> HIDE DEF s
  <1>3. CASE x = NoWalk
    BY <1>3, IdleFits
  <1>4. CASE /\ x \in Request /\ x.path = s.path /\ x.left = s.left /\ x.bytes = s.bytes
             /\ x.complete = s.complete /\ x.started = s.started /\ (s.excused => x.excused)
             /\ s.pc = "walk" /\ x.pc \in {"walk", "store"} /\ (x.pc = "store" => s.left = {})
    <2>1. Fits(disk, owing, stream.queue, gen, x)
      BY <1>1, <1>4 DEF Fits, Honest, Agrees
    <2> QED BY <1>1, <1>4, <2>1, OneWalk
  <1> QED BY <1>1, <1>2, <1>3, <1>4, EndsAre

-----------------------------------------------------------------------------
(* The cache                                                                 *)

\* Whatever has to go for it, there is room for one more.
LEMMA RoomIs ==
  ASSUME CacheInv, NEW p, NEW room \in Room(p)
  PROVE  /\ DOMAIN room \in SUBSET DOMAIN cache /\ \A q \in DOMAIN room : room[q] = cache[q]
         /\ IsFiniteSet(DOMAIN room \cup {p}) /\ Cardinality(DOMAIN room \cup {p}) <= Capacity
  <1>1. IsFiniteSet(DOMAIN cache) /\ Cardinality(DOMAIN cache) <= Capacity /\ Capacity \in Nat
        /\ Cardinality(DOMAIN cache) \in Nat
    BY BrowseAssumption, FS_CardinalityType DEF CacheInv
  <1>2. CASE p \in DOMAIN cache /\ room = cache
    <2>1. DOMAIN room \cup {p} = DOMAIN cache
      BY <1>2
    <2> QED BY <1>1, <1>2, <2>1
  <1>3. ASSUME NEW S \in SUBSET DOMAIN cache, Cardinality(S) < Capacity, room = Only(cache, S)
        PROVE  /\ DOMAIN room \in SUBSET DOMAIN cache /\ \A q \in DOMAIN room : room[q] = cache[q]
               /\ IsFiniteSet(DOMAIN room \cup {p}) /\ Cardinality(DOMAIN room \cup {p}) <= Capacity
    <2>1. DOMAIN room = S /\ \A q \in S : room[q] = cache[q]
      BY <1>3 DEF Only
    <2>2. IsFiniteSet(S) /\ Cardinality(S) \in Nat
      BY <1>1, FS_Subset, FS_CardinalityType
    <2>3. IsFiniteSet(S \cup {p}) /\ Cardinality(S \cup {p}) <= Cardinality(S) + 1
      <3>1. IsFiniteSet(S \cup {p})
            /\ Cardinality(S \cup {p}) = IF p \in S THEN Cardinality(S) ELSE Cardinality(S) + 1
        BY <2>2, FS_AddElement
      <3> QED BY <2>2, <3>1
    <2>4. Cardinality(S \cup {p}) \in Nat
      BY <2>3, FS_CardinalityType
    <2> QED BY <1>1, <1>3, <2>1, <2>2, <2>3, <2>4
  <1>4. CASE Cardinality(DOMAIN cache) < Capacity /\ room = cache
    <2>1. IsFiniteSet(DOMAIN cache \cup {p}) /\ Cardinality(DOMAIN cache \cup {p}) <= Cardinality(DOMAIN cache) + 1
      BY SMTT(30), <1>1, FS_AddElement
    <2>2. Cardinality(DOMAIN cache \cup {p}) \in Nat
      BY <2>1, FS_CardinalityType
    <2> QED BY <1>1, <1>4, <2>1, <2>2
  <1> DEFINE kept == {q \in DOMAIN cache : Fresh(q)}
  <1>5. CASE Cardinality(kept) < Capacity /\ room = Only(cache, kept)
    <2>1. kept \in SUBSET DOMAIN cache
      OBVIOUS
    <2> HIDE DEF kept
    <2> QED BY <1>3, <1>5, <2>1
  <1>6. ASSUME ~(Cardinality(kept) < Capacity), NEW q \in kept, room = Only(cache, kept \ {q})
        PROVE  /\ DOMAIN room \in SUBSET DOMAIN cache /\ \A o \in DOMAIN room : room[o] = cache[o]
               /\ IsFiniteSet(DOMAIN room \cup {p}) /\ Cardinality(DOMAIN room \cup {p}) <= Capacity
    <2> DEFINE S == kept \ {q}
    <2>1. kept \in SUBSET DOMAIN cache
      OBVIOUS
    <2> HIDE DEF kept
    <2>2. IsFiniteSet(kept) /\ Cardinality(kept) <= Cardinality(DOMAIN cache) /\ Cardinality(kept) \in Nat
      BY <1>1, <2>1, FS_Subset, FS_CardinalityType
    <2>3. Cardinality(S) = Cardinality(kept) - 1 /\ S \in SUBSET DOMAIN cache
      BY <1>6, <2>1, <2>2, FS_RemoveElement
    <2>4. Cardinality(S) < Capacity
      BY <1>1, <2>2, <2>3
    <2>5. room = Only(cache, S)
      BY <1>6
    <2> HIDE DEF S
    <2> QED BY <1>3, <2>3, <2>4, <2>5
  <1>7. \/ p \in DOMAIN cache /\ room = cache
        \/ Cardinality(DOMAIN cache) < Capacity /\ room = cache
        \/ Cardinality(kept) < Capacity /\ room = Only(cache, kept)
        \/ ~(Cardinality(kept) < Capacity) /\ \E q \in kept : room = Only(cache, kept \ {q})
    BY DEF Room
  <1> HIDE DEF kept
  <1> QED BY <1>2, <1>4, <1>5, <1>6, <1>7

\* The entry that is made of a walk.
LEMMA EntryStored ==
  ASSUME NEW s \in Request, now \in Nat
  PROVE  /\ Stored(s) \in Entry /\ Stored(s).stored = now /\ Stored(s).bytes = s.bytes
         /\ Stored(s).complete = s.complete /\ Stored(s).excused = s.excused
  BY DEF Stored, Entry, Request

\* A walk that no invalidation overtook can be stored.
LEMMA StoreKeeps ==
  ASSUME StreamInv, SizesInv, NEW r \in Walkers, walk[r].pc = "store", Insert(walk[r]),
         UNCHANGED <<now, disk, owing, gen, stream>>
  PROVE  CacheInv'
  <1> DEFINE s == walk[r]
             p == s.path
             e == Stored(s)
  <1>1. s \in Request /\ Fits(disk, owing, stream.queue, gen, s) /\ s.pc = "store" /\ now \in Nat
    BY DEF SizesInv, WalksInv, StreamInv
  <1>2. CASE cache' = cache
    BY <1>2 DEF SizesInv, CacheInv
  <1>3. ASSUME gen = s.started, NEW room \in Room(p), cache' = With(room, p, e) PROVE CacheInv'
    <2>1. /\ e \in Entry /\ e.stored = now /\ e.bytes = s.bytes
          /\ e.complete = s.complete /\ e.excused = s.excused
      BY <1>1, EntryStored
    <2>2. /\ DOMAIN room \in SUBSET DOMAIN cache /\ \A q \in DOMAIN room : room[q] = cache[q]
          /\ IsFiniteSet(DOMAIN room \cup {p}) /\ Cardinality(DOMAIN room \cup {p}) <= Capacity
      BY RoomIs DEF SizesInv
    <2>3. DOMAIN cache' = DOMAIN room \cup {p} /\ \A q \in DOMAIN cache' : cache'[q] = IF q = p THEN e ELSE room[q]
      BY <1>3 DEF With
    <2>4. p \in Folders
      BY <1>1 DEF Request
    <2> HIDE DEF e, p, s
    <2>5. Honest(disk, owing, stream.queue, s, p, Beneath(p)) /\ (Beneath(p) = {} => s.bytes = 0)
      <3>1. s.left = {} /\ Honest(disk, owing, stream.queue, s, p, Beneath(p) \ s.left)
            /\ (Beneath(p) = {} => s.bytes = 0)
        BY <1>1, <1>3 DEF Fits, p
      <3>2. Beneath(p) \ {} = Beneath(p)
        OBVIOUS
      <3> QED BY <3>1, <3>2
    <2>6. Honest(disk, owing, stream.queue, e, p, Beneath(p)) /\ (Beneath(p) = {} => e.bytes = 0)
      BY <2>1, <2>5 DEF Honest, Agrees
    <2>7. ASSUME NEW q \in DOMAIN cache'
          PROVE  /\ cache'[q] \in Entry /\ cache'[q].stored <= now
                 /\ Honest(disk, owing, stream.queue, cache'[q], q, Beneath(q))
                 /\ Beneath(q) = {} => cache'[q].bytes = 0
      <3>1. CASE q = p
        BY <1>1, <2>1, <2>3, <2>6, <3>1
      <3>2. CASE q # p
        BY <2>2, <2>3, <3>2 DEF SizesInv, CacheInv
      <3> QED BY <3>1, <3>2
    <2> QED BY <2>2, <2>3, <2>4, <2>7 DEF SizesInv, CacheInv, Beneath
  <1> QED BY <1>2, <1>3 DEF Insert

\* No step of a request for a size makes a size wrong.
LEMMA RequestSizes == ASSUME StreamInv, SizesInv, SizeRequest PROVE SizesInv'
  <1>0. UNCHANGED <<mix, now, disk, changes, owing, gen, stream, signedOut, page>> /\ now \in Nat
    BY DEF SizeRequest, AskSize, PassOver, BeginWalk, SpendBudget, CutWalk, EndWalk, StoreSize, Visit,
           UNCHANGEDbutSizes, StreamInv
  <1>1. ASSUME cache' = cache, WalksInv' PROVE SizesInv'
    <2> DEFINE S == DOMAIN cache
    <2>1. S \subseteq DOMAIN cache
      OBVIOUS
    <2>2. CacheInv'
      BY <1>0, <1>1, <2>1, LeftCache DEF SizesInv
    <2> QED BY <1>1, <2>2 DEF SizesInv
  <1>2. ASSUME NEW r \in Walkers, NEW p \in mix.asked, AskSize(r, p) PROVE SizesInv'
    <2>1. p \in Folders
      BY BrowseAssumption DEF StreamInv
    <2>2. CacheInv'
      <3> DEFINE S == DOMAIN cache \ {p}
      <3>1. cache' = cache \/ cache' = Only(cache, S)
        BY <1>2 DEF AskSize, Looked
      <3>2. S \subseteq DOMAIN cache
        OBVIOUS
      <3> HIDE DEF S
      <3> QED BY <1>0, <3>1, <3>2, LeftCache DEF SizesInv
    <2>3. WalksInv'
      <3>1. CASE walk' = walk
        BY <1>0, <3>1 DEF SizesInv, WalksInv, InWalk
      <3>2. CASE walk' = Stepped(walk, r, AskedOf(p)) /\ ~(Cardinality(InWalk) >= Slots)
        <4>1. Cardinality(InWalk) < Slots
          <5>1. InWalk \in SUBSET Walkers /\ IsFiniteSet(Walkers) /\ Slots \in Nat
            BY BrowseAssumption DEF InWalk
          <5>2. Cardinality(InWalk) \in Nat
            BY <5>1, FS_Subset, FS_CardinalityType
          <5> QED BY <3>2, <5>1, <5>2
        <4> QED BY <1>0, <2>1, <3>2, <4>1, AskFits DEF SizesInv
      <3> QED BY <1>2, <3>1, <3>2 DEF AskSize, Stepped, AskedOf
    <2> QED BY <2>2, <2>3 DEF SizesInv
  <1>3. ASSUME NEW r \in Walkers, NEW p \in Folders, PassOver(r, p) PROVE SizesInv'
    <2> DEFINE B == Beneath(p)
    <2>1. walk' = Stepped(walk, r, PassedOf(walk[r], B)) /\ walk[r].pc = "walk" /\ cache' = cache
      BY <1>3 DEF PassOver, Stepped, PassedOf, SizesInv, WalksInv, Request
    <2> HIDE DEF B
    <2> QED BY <1>0, <1>1, <2>1, PassFits DEF SizesInv
  <1>4. ASSUME NEW r \in Walkers, BeginWalk(r) PROVE SizesInv'
    <2>1. walk' = Stepped(walk, r, BegunOf(walk[r], gen, Beneath(walk[r].path))) /\ walk[r].pc = "begin"
          /\ cache' = cache
      BY <1>4 DEF BeginWalk, Stepped, BegunOf, SizesInv, WalksInv, Request
    <2> QED BY <1>0, <1>1, <2>1, BeginFits DEF SizesInv
  <1>5. ASSUME NEW r \in Walkers, SpendBudget(r) PROVE SizesInv'
    <2> DEFINE B == walk[r].left
    <2>1. walk' = Stepped(walk, r, PassedOf(walk[r], B)) /\ walk[r].pc = "walk" /\ cache' = cache
      BY <1>5 DEF SpendBudget, Stepped, PassedOf, SizesInv, WalksInv, Request
    <2> HIDE DEF B
    <2> QED BY <1>0, <1>1, <2>1, PassFits DEF SizesInv
  <1>6. ASSUME NEW r \in Walkers, CutWalk(r) PROVE SizesInv'
    <2>1. walk' = Stepped(walk, r, CutOf(walk[r])) /\ cache' = cache
      BY <1>6 DEF CutWalk, Stepped, CutOf, SizesInv, WalksInv
    <2> QED BY <1>0, <1>1, <2>1, EndFits DEF SizesInv
  <1>7. ASSUME NEW r \in Walkers, EndWalk(r) PROVE SizesInv'
    <2>1. walk' = Stepped(walk, r, EndedOf(walk[r])) /\ cache' = cache /\ walk[r].left = {} /\ walk[r].pc = "walk"
      BY <1>7 DEF EndWalk, Stepped, EndedOf, SizesInv, WalksInv
    <2> QED BY <1>0, <1>1, <2>1, EndFits DEF SizesInv
  <1>8. ASSUME NEW r \in Walkers, StoreSize(r) PROVE SizesInv'
    <2>1. walk' = Stepped(walk, r, NoWalk) /\ walk[r].pc = "store" /\ Insert(walk[r])
      BY <1>8 DEF StoreSize, Stepped
    <2>2. CacheInv'
      BY <1>0, <2>1, StoreKeeps
    <2>3. WalksInv'
      BY <1>0, <2>1, IdleFits DEF SizesInv
    <2> QED BY <2>2, <2>3 DEF SizesInv
  <1>9. ASSUME NEW r \in Walkers, NEW f \in Files, Visit(r, f) PROVE SizesInv'
    <2>1. walk' = Stepped(walk, r, VisitedOf(walk[r], f, SizeAt(disk, f))) /\ walk[r].pc = "walk" /\ cache' = cache
          /\ f \in walk[r].left
      BY <1>9 DEF Visit, Stepped, VisitedOf, SizesInv, WalksInv, Request
    <2> QED BY <1>0, <1>1, <2>1, VisitFits DEF SizesInv
  <1> QED BY <1>2, <1>3, <1>4, <1>5, <1>6, <1>7, <1>8, <1>9 DEF SizeRequest

\* Nor does reading a listing.
LEMMA ListSizes == ASSUME StreamInv, SizesInv, Listing PROVE SizesInv'
  <1>1. UNCHANGED <<now, disk, owing, gen, walk, stream>> /\ now \in Nat
    BY DEF Listing, StreamInv
  <1>2. \E S : S \subseteq DOMAIN cache /\ (cache' = cache \/ cache' = Only(cache, S))
    <2>1. CASE AnswerPage
      BY <2>1 DEF AnswerPage
    <2>2. CASE ~AnswerPage
      BY <2>2 DEF Listing, AskPage, Scan, Miss, ForgetPage
    <2> QED BY <2>1, <2>2
  <1> QED BY <1>1, <1>2, LeftSizes

\* No size is known at the start.
LEMMA SizesInit == Init => SizesInv
  <1> SUFFICES ASSUME Init PROVE SizesInv
    OBVIOUS
  <1>1. CacheInv
    <2>1. DOMAIN cache = {}
      BY DEF Init
    <2>2. IsFiniteSet({}) /\ Cardinality({}) = 0
      BY FS_EmptySet
    <2> QED BY <2>1, <2>2, BrowseAssumption DEF CacheInv
  <1>2. WalksInv
    <2> DEFINE x == NoWalk
    <2>1. x \in Request /\ x.pc = "idle" /\ x.left = {} /\ x.started = 0
      BY BrowseAssumption DEF NoWalk, Request
    <2>2. walk = [r \in Walkers |-> x] /\ gen = 0
      BY DEF Init
    <2> HIDE DEF x
    <2>3. Fits(disk, owing, stream.queue, gen, x)
      BY <2>1, <2>2 DEF Fits
    <2>4. InWalk = {}
      BY <2>1, <2>2 DEF InWalk
    <2>5. Cardinality({}) = 0 /\ 0 <= Slots
      BY FS_EmptySet, BrowseAssumption
    <2> QED BY <2>1, <2>2, <2>3, <2>4, <2>5 DEF WalksInv
  <1> QED BY <1>1, <1>2 DEF SizesInv

\* Every step keeps the sizes honest.
LEMMA SizesNext == ASSUME StreamInv, SizesInv, [Next]_vars PROVE SizesInv'
  <1>1. ASSUME UNCHANGED <<disk, owing, gen, stream, cache, walk>>, now' \in Nat, now <= now' PROVE SizesInv'
    <2> DEFINE S == DOMAIN cache
    <2>1. S \subseteq DOMAIN cache /\ now \in Nat
      BY DEF StreamInv
    <2> QED BY <1>1, <2>1, LeftSizes
  <1>2. CASE Announced
    <2>1. PICK f \in Files, g \in Files, ours \in BOOLEAN : \E d : Changes(d, f, g, ours)
      BY <1>2, ChangesAre
    <2> QED BY <2>1, ChangeSizes
  <1>2a. CASE \E f \in Files : Close(f) \/ \E n \in Sizes : Grow(f, n) \/ Truncate(f, n)
    BY <1>2a, CloseFileSizes, GrowSizes, TruncateSizes
  <1>3. CASE EndMutation
    BY <1>3, EndSizes
  <1>4. CASE CutMutation
    BY <1>4, CutSizes
  <1>5. CASE Tick
    BY <1>1, <1>5 DEF Tick, StreamInv
  <1>6. CASE SizeRequest
    BY <1>6, RequestSizes
  <1>7. CASE EventStream
    BY <1>7, ListenSizes
  <1>8. CASE SignOut
    BY <1>1, <1>8 DEF SignOut, StreamInv
  <1>9. CASE Listing
    BY <1>9, ListSizes
  <1>10. CASE UNCHANGED vars
    BY <1>1, <1>10 DEF vars, StreamInv
  <1> QED BY <1>2, <1>2a, <1>3, <1>4, <1>5, <1>6, <1>7, <1>8, <1>9, <1>10 DEF Next, Changing, Announced

\* So they are honest in every reachable state.
LEMMA SizesAlways == Spec => [](StreamInv /\ SizesInv)
  <1>1. Init => StreamInv /\ SizesInv
    BY StreamInit, SizesInit
  <1>2. StreamInv /\ SizesInv /\ [Next]_vars => (StreamInv /\ SizesInv)'
    BY StreamNext, SizesNext
  <1> QED BY <1>1, <1>2, PTL DEF Spec

(* A size that the cache holds is right unless it is known to be old: a walk  *)
(* that a change overtook is never stored past the change's invalidation, and *)
(* the cache and the walks stay within their limits (folder_sizes.rs).        *)
THEOREM FolderSizesAreSound == Spec => []SizesSound
  <1>1. StreamInv /\ SizesInv => SizesSound
    <2> SUFFICES ASSUME StreamInv, SizesInv PROVE SizesSound
      OBVIOUS
    <2>1. TypeOK
      <3>1. \A p \in DOMAIN cache : cache[p].stored \in 0 .. now
        BY DEF SizesInv, CacheInv, Entry, StreamInv
      <3>2. \A r \in Walkers : walk[r].started \in 0 .. gen
        <4> TAKE r \in Walkers
        <4>1. walk[r] \in Request /\ walk[r].started <= gen /\ gen \in Nat
          BY DEF SizesInv, WalksInv, Fits, StreamInv
        <4>2. walk[r].started \in Nat
          BY <4>1 DEF Request
        <4> QED BY <4>1, <4>2
      <3> QED BY <3>1, <3>2 DEF TypeOK, StreamInv, Checked, FilesOf, SizesInv, CacheInv
    <2>2. SizesAreRight
      <3> SUFFICES ASSUME NEW p \in DOMAIN cache
                   PROVE  \/ owing > 0
                          \/ stream.queue # <<>> /\ IsPrefix(p, Watched)
                          \/ cache[p].excused
                          \/ \E f \in DOMAIN disk : disk[f].open /\ IsPrefix(p, f)
                          \/ cache[p].complete /\ cache[p].bytes = Actual(p)
                          \/ ~cache[p].complete /\ cache[p].bytes <= Actual(p)
        BY DEF SizesAreRight
      <3>1. Honest(disk, owing, stream.queue, cache[p], p, Beneath(p))
        BY DEF SizesInv, CacheInv
      <3>2. Actual(p) = SumOn(Sized(disk), Beneath(p))
        BY ActualIs
      <3> QED BY <3>1, <3>2 DEF Honest, Agrees, Grown
    <2>3. WithinLimits
      BY DEF WithinLimits, SizesInv, CacheInv, WalksInv
    <2> QED BY <2>1, <2>2, <2>3 DEF SizesSound
  <1> QED BY <1>1, SizesAlways, PTL

-----------------------------------------------------------------------------
(* Listings                                                                  *)

\* The entries of one folder have different names.
LEMMA ChildrenDiffer ==
  /\ \A p \in Children : Name(p) \in Nat /\ p # <<>>
  /\ \A p, q \in Children : Name(p) = Name(q) => p = q
  <1>1. \A p \in Children : p \in Seq(Nat) /\ p # <<>> /\ Parent(p) = Listed
    BY PathsAreSequences DEF Children
  <1>2. \A p \in Children : Len(p) \in Nat \ {0} /\ Name(p) \in Nat /\ Name(p) = p[Len(p)]
    <2> TAKE p \in Children
    <2>1. p \in Seq(Nat) /\ Len(p) \in Nat \ {0}
      BY <1>1, EmptySeq
    <2>2. p[Len(p)] \in Nat
      BY <2>1, ElementOfSeq
    <2> QED BY <2>1, <2>2 DEF Name
  <1>3. ASSUME NEW p \in Children, NEW q \in Children, Name(p) = Name(q) PROVE p = q
    <2>1. ASSUME NEW x \in Children
          PROVE  Len(Listed) = Len(x) - 1 /\ \A i \in 1 .. Len(x) - 1 : Listed[i] = x[i]
      <3>1. x \in Seq(Nat) /\ Len(x) \in Nat \ {0} /\ Listed = SubSeq(x, 1, Len(x) - 1)
        BY <1>1, <1>2 DEF Parent
      <3>2. \A i \in 1 .. Len(x) - 1 : x[i] \in Nat
        BY <3>1, ElementOfSeq
      <3> DEFINE m == Len(x) - 1
      <3>3. m \in Nat /\ \A i \in 1 .. m : x[i] \in Nat
        <4> DEFINE l == Len(x)
        <4>1. l \in Nat \ {0}
          BY <3>1
        <4> HIDE DEF l
        <4>2. l - 1 \in Nat
          BY <4>1
        <4> QED BY <3>2, <4>2 DEF l
      <3> HIDE DEF m
      <3>4. Len(SubSeq(x, 1, m)) = m /\ \A i \in 1 .. m : SubSeq(x, 1, m)[i] = x[i]
        BY <3>3, SubSeqProperties
      <3> QED BY <3>1, <3>4 DEF m
    <2>2. p \in Seq(Nat) /\ q \in Seq(Nat) /\ Len(p) \in Nat \ {0} /\ Len(q) \in Nat \ {0}
          /\ Len(p) = Len(q)
      BY <1>1, <1>2, <2>1
    <2>3. \A i \in 1 .. Len(p) : p[i] = q[i]
      <3> TAKE i \in 1 .. Len(p)
      <3>1. CASE i = Len(p)
        BY <1>2, <1>3, <2>2, <3>1
      <3>2. CASE i # Len(p)
        <4>1. i \in 1 .. Len(p) - 1 /\ i \in 1 .. Len(q) - 1
          BY <2>2, <3>2
        <4> QED BY <2>1, <4>1
      <3> QED BY <3>1, <3>2
    <2> QED BY <2>2, <2>3, SeqEqual
  <1> QED BY <1>1, <1>2, <1>3

\* The entries of a directory are in one order.
LEMMA BeforeIs ==
  ASSUME NEW S \in SUBSET Tagged, \A d, e \in S : d.at = e.at => d = e
  PROVE  /\ \A d \in S : ~Before(d, d)
         /\ \A d, e \in S : d # e => Before(d, e) \/ Before(e, d)
         /\ \A d, e, o \in S : Before(d, e) /\ Before(e, o) => Before(d, o)
  <1>1. \A d \in S : d.kind \in {0, 1} /\ Name(d.path) \in Nat /\ d.path \in Children /\ d.at \in Nat
    BY ChildrenDiffer DEF Tagged
  <1>2. \A d, e \in S : /\ d.path = e.path => Name(d.path) = Name(e.path)
                       /\ d # e => Name(d.path) # Name(e.path) \/ (d.path = e.path /\ d.at # e.at)
    BY <1>1, ChildrenDiffer
  <1>3. \A d, e \in S : Before(d, e) <=>
            \/ d.kind < e.kind
            \/ d.kind = e.kind /\ Name(d.path) < Name(e.path)
            \/ d.kind = e.kind /\ d.path = e.path /\ d.at < e.at
    BY DEF Before
  <1>4. \A d \in S : ~Before(d, d)
    BY <1>1, <1>3
  <1>5. \A d, e \in S : d # e => Before(d, e) \/ Before(e, d)
    BY <1>1, <1>2, <1>3
  <1>6. \A d, e, o \in S : Before(d, e) /\ Before(e, o) => Before(d, o)
    BY <1>1, <1>2, <1>3
  <1> QED BY <1>4, <1>5, <1>6

\* So they can be sorted: each goes to the place that the number of those before it gives.
LEMMA SortedExists ==
  ASSUME NEW S \in SUBSET Tagged, IsFiniteSet(S), \A d, e \in S : d.at = e.at => d = e
  PROVE  \E s \in SetToSeqs(S) : \A i, j \in DOMAIN s : i < j => Before(s[i], s[j])
  <1> DEFINE n == Cardinality(S)
             Under(e) == {d \in S : Before(d, e)}
             rank == [e \in S |-> Cardinality(Under(e)) + 1]
  <1>1. n \in Nat /\ IsFiniteSet(1 .. n) /\ Cardinality(1 .. n) = n
    <2>1. n \in Nat
      BY FS_CardinalityType
    <2> HIDE DEF n
    <2> QED BY <2>1, FS_Interval
  <1>2. /\ \A d \in S : ~Before(d, d)
        /\ \A d, e \in S : d # e => Before(d, e) \/ Before(e, d)
        /\ \A d, e, o \in S : Before(d, e) /\ Before(e, o) => Before(d, o)
    BY BeforeIs
  <1>3. \A e \in S : Under(e) \in SUBSET S /\ e \notin Under(e) /\ IsFiniteSet(Under(e))
                    /\ Cardinality(Under(e)) \in Nat /\ Cardinality(Under(e)) < n
    <2> TAKE e \in S
    <2> DEFINE U == Under(e)
    <2>1. U \in SUBSET S /\ e \notin U
      BY <1>2
    <2> HIDE DEF U
    <2>2. IsFiniteSet(U) /\ Cardinality(U) <= Cardinality(S) /\ (Cardinality(S) = Cardinality(U) => S = U)
      BY <2>1, FS_Subset
    <2>3. Cardinality(U) \in Nat /\ Cardinality(U) # Cardinality(S)
      BY <2>1, <2>2, FS_CardinalityType
    <2> HIDE DEF Under
    <2>4. Cardinality(U) < n
      BY <1>1, <2>2, <2>3
    <2> QED BY <2>1, <2>2, <2>3, <2>4 DEF U
  <1>4. \A d, e \in S : Before(d, e) => Cardinality(Under(d)) < Cardinality(Under(e))
    <2> SUFFICES ASSUME NEW d \in S, NEW e \in S, Before(d, e)
                 PROVE  Cardinality(Under(d)) < Cardinality(Under(e))
      OBVIOUS
    <2>1. Under(d) \in SUBSET Under(e) /\ d \in Under(e) /\ d \notin Under(d)
      BY <1>2
    <2> HIDE DEF Under, n
    <2>2. IsFiniteSet(Under(e)) /\ Cardinality(Under(d)) \in Nat /\ Cardinality(Under(e)) \in Nat
      BY <1>3
    <2>3. Cardinality(Under(d)) <= Cardinality(Under(e))
          /\ (Cardinality(Under(e)) = Cardinality(Under(d)) => Under(e) = Under(d))
      BY <2>1, <2>2, FS_Subset
    <2> QED BY <2>1, <2>2, <2>3
  <1>5. \A e \in S : rank[e] = Cardinality(Under(e)) + 1
    OBVIOUS
  <1> HIDE DEF Under
  <1>6. rank \in [S -> 1 .. n] /\ \A d, e \in S : d # e => rank[d] # rank[e]
    <2>1. \A e \in S : Cardinality(Under(e)) + 1 \in 1 .. n
      BY <1>1, <1>3
    <2>2. \A d, e \in S : d # e => rank[d] # rank[e]
      BY <1>2, <1>3, <1>4, <1>5
    <2> QED BY <2>1, <2>2
  <1> HIDE DEF rank, n
  <1>7. \A i \in 1 .. n : \E e \in S : rank[e] = i
    <2>1. rank \in Injection(S, 1 .. n)
      BY <1>6 DEF Injection, IsInjective
    <2>2. rank \in Surjection(S, 1 .. n)
      BY <1>1, <2>1, FS_Injection DEF n
    <2> QED BY <2>2 DEF Surjection
  <1> DEFINE s == [i \in 1 .. n |-> CHOOSE e \in S : rank[e] = i]
  <1>8. \A i \in 1 .. n : s[i] \in S /\ rank[s[i]] = i
    BY <1>7
  <1>9. s \in [1 .. n -> S] /\ DOMAIN s = 1 .. n
    BY <1>8
  <1> HIDE DEF s
  <1>10. s \in SetToSeqs(S)
    BY <1>8, <1>9 DEF SetToSeqs, n
  <1>11. \A i, j \in 1 .. n : i < j => Before(s[i], s[j])
    <2> SUFFICES ASSUME NEW i \in 1 .. n, NEW j \in 1 .. n, i < j, ~Before(s[i], s[j]) PROVE FALSE
      OBVIOUS
    <2>1. s[i] \in S /\ s[j] \in S /\ rank[s[i]] = i /\ rank[s[j]] = j /\ i # j
      BY <1>1, <1>8
    <2>2. Before(s[j], s[i])
      BY <1>2, <2>1
    <2>3. Cardinality(Under(s[j])) < Cardinality(Under(s[i]))
      BY <1>4, <2>1, <2>2
    <2>4. Cardinality(Under(s[i])) + 1 = i /\ Cardinality(Under(s[j])) + 1 = j
          /\ Cardinality(Under(s[i])) \in Nat /\ Cardinality(Under(s[j])) \in Nat
      BY <1>3, <1>5, <2>1
    <2> QED BY <1>1, <2>3, <2>4
  <1> QED BY <1>9, <1>10, <1>11

\* A sorted listing is of the entries given, each once.
LEMMA SortedIs ==
  ASSUME NEW S \in SUBSET Tagged, IsFiniteSet(S), \A d, e \in S : d.at = e.at => d = e
  PROVE  /\ Cardinality(S) \in Nat /\ Sorted(S) \in [1 .. Cardinality(S) -> S]
         /\ \A e \in S : \E i \in 1 .. Cardinality(S) : Sorted(S)[i] = e
         /\ \A i, j \in 1 .. Cardinality(S) : Sorted(S)[i] = Sorted(S)[j] => i = j
  <1> DEFINE s == Sorted(S)
             n == Cardinality(S)
  <1>1. s \in SetToSeqs(S)
    BY SortedExists DEF Sorted
  <1> HIDE DEF s
  <1>2. n \in Nat /\ IsFiniteSet(1 .. n) /\ Cardinality(1 .. n) = n
    <2>1. n \in Nat
      BY FS_CardinalityType
    <2> HIDE DEF n
    <2> QED BY <2>1, FS_Interval
  <1>3. s \in [1 .. n -> S] /\ \A i, j \in 1 .. n : i # j => s[i] # s[j]
    BY <1>1 DEF SetToSeqs
  <1> HIDE DEF n
  <1>4. s \in Injection(1 .. n, S)
    BY <1>3 DEF Injection, IsInjective
  <1>5. s \in Surjection(1 .. n, S)
    BY <1>2, <1>4, FS_Injection DEF n
  <1>6. \A e \in S : \E i \in 1 .. n : s[i] = e
    BY <1>5 DEF Surjection
  <1> QED BY <1>2, <1>3, <1>6 DEF s, n

\* So a listing has once each entry whose name was read once.
LEMMA OrderedIs ==
  ASSUME NEW S \in SUBSET Tagged, IsFiniteSet(S), \A d, e \in S : d.at = e.at => d = e
  PROVE  /\ Ordered(S) \in Seq(Child)
         /\ \A e : Sole(S, e) => Single(Ordered(S), e)
  <1> DEFINE t == Sorted(S)
             n == Cardinality(S)
             s == Ordered(S)
  <1>1. /\ n \in Nat /\ t \in [1 .. n -> S]
        /\ \A e \in S : \E i \in 1 .. n : t[i] = e
        /\ \A i, j \in 1 .. n : t[i] = t[j] => i = j
    BY SortedIs
  <1>2. s = [i \in DOMAIN t |-> Plain(t[i])]
    BY DEF Ordered
  <1> HIDE DEF t, n, s
  <1>3. DOMAIN s = 1 .. n /\ \A i \in 1 .. n : s[i] = Plain(t[i]) /\ t[i] \in S
    BY <1>1, <1>2
  <1>4. \A o \in S : Plain(o) \in Child /\ Plain(o).path = o.path
    BY DEF Plain, Child, Tagged
  <1>5. s \in Seq(Child)
    <2>1. s \in [1 .. n -> Child]
      BY <1>2, <1>3, <1>4
    <2> QED BY <1>1, <2>1, SeqDef
  <1>6. ASSUME NEW e, Sole(S, e) PROVE Single(s, e)
    <2>1. PICK o \in S : Plain(o) = e /\ \A a \in S : a.path = e.path => a = o
      BY <1>6 DEF Sole
    <2>2. PICK k \in 1 .. n : t[k] = o
      BY <1>1, <2>1
    <2>3. e \in Range(s)
      BY <1>3, <2>1, <2>2 DEF Range
    <2>4. ASSUME NEW i \in 1 .. n, s[i].path = e.path PROVE i = k
      <3>1. t[i] \in S /\ t[i].path = e.path
        BY <1>3, <1>4, <2>4
      <3>2. t[i] = o
        BY <2>1, <3>1
      <3> QED BY <1>1, <2>2, <3>2
    <2> QED BY <1>3, <2>3, <2>4 DEF Single
  <1> QED BY <1>5, <1>6 DEF s

AskedPage(g, hidden, left, stable) ==
    [g EXCEPT !.pc = "scan", !.scanned = 0, !.got = {}, !.hidden = hidden, !.left = left, !.stable = stable]
ScannedPage(g, p, E) == [g EXCEPT !.left = @ \ {p}, !.scanned = @ + 1, !.got = @ \cup E]
AnsweredPage(g, ps, phase, cs) == [g EXCEPT !.pages = ps, !.got = {}, !.pc = phase, !.cursor = cs]
ChangedPage(g, stable, left) == [g EXCEPT !.stable = stable, !.left = left]
MissedPage(g, left) == [g EXCEPT !.left = left]

\* A client that asks for a page,
AskedIs(x, g, hidden, left, stable) ==
    /\ x \in Pages /\ x.pc = "scan" /\ x.left = left /\ x.scanned = 0 /\ x.got = {} /\ x.hidden = hidden
    /\ x.stable = stable /\ x.cursor = g.cursor /\ x.pages = g.pages
LEMMA PageAsked ==
  ASSUME NEW g \in Pages, NEW hidden \in BOOLEAN, NEW left \in SUBSET (Children \cup Unlisted),
         NEW stable \in SUBSET Child, NEW x, x = AskedPage(g, hidden, left, stable)
  PROVE  AskedIs(x, g, hidden, left, stable)
  BY DEF Pages, AskedPage, AskedIs

\* the entries gathered for it so far,
LEMMA PageScanned ==
  ASSUME NEW g \in Pages, NEW p, NEW E \in SUBSET Tagged, NEW x, x = ScannedPage(g, p, E)
  PROVE  /\ x \in Pages /\ x.pc = g.pc /\ x.left = g.left \ {p} /\ x.scanned = g.scanned + 1
         /\ x.got = g.got \cup E /\ x.hidden = g.hidden
         /\ x.stable = g.stable /\ x.cursor = g.cursor /\ x.pages = g.pages
  <1> DEFINE G == g.got \cup E
             L == g.left \ {p}
             N == g.scanned + 1
  <1>1. G \in SUBSET Tagged /\ L \in SUBSET (Children \cup Unlisted) /\ N \in Nat
    BY DEF Pages
  <1>2. x = [g EXCEPT !.left = L, !.scanned = N, !.got = G]
    BY DEF ScannedPage
  <1> HIDE DEF G, L, N
  <1>3. /\ x \in Pages /\ x.pc = g.pc /\ x.left = L /\ x.scanned = N
        /\ x.got = G /\ x.hidden = g.hidden
        /\ x.stable = g.stable /\ x.cursor = g.cursor /\ x.pages = g.pages
    BY <1>1, <1>2 DEF Pages
  <1> QED BY <1>3 DEF G, L, N

\* the page that it gets,
LEMMA PageAnswered ==
  ASSUME NEW g \in Pages, NEW ps \in Seq(Child), NEW phase \in {"more", "done"}, NEW cs \in Seq(Cursors),
         NEW x, x = AnsweredPage(g, ps, phase, cs)
  PROVE  /\ x \in Pages /\ x.pc = phase /\ x.left = g.left /\ x.got = {} /\ x.hidden = g.hidden
         /\ x.stable = g.stable /\ x.cursor = cs /\ x.pages = ps
  BY DEF Pages, AnsweredPage

\* what it may still expect after a change, with the names that come up again,
LEMMA PageChanged ==
  ASSUME NEW g \in Pages, NEW stable \in SUBSET Child, NEW left \in SUBSET (Children \cup Unlisted),
         NEW x, x = ChangedPage(g, stable, left)
  PROVE  /\ x \in Pages /\ x.pc = g.pc /\ x.left = left /\ x.scanned = g.scanned /\ x.got = g.got
         /\ x.hidden = g.hidden /\ x.stable = stable /\ x.cursor = g.cursor /\ x.pages = g.pages
  BY DEF Pages, ChangedPage

\* and without those that have gone.
LEMMA PageMissed ==
  ASSUME NEW g \in Pages, NEW left \in SUBSET (Children \cup Unlisted), NEW x, x = MissedPage(g, left)
  PROVE  /\ x \in Pages /\ x.pc = g.pc /\ x.left = left /\ x.scanned = g.scanned /\ x.got = g.got
         /\ x.hidden = g.hidden /\ x.stable = g.stable /\ x.cursor = g.cursor /\ x.pages = g.pages
  BY DEF Pages, MissedPage

\* A client that reads no listing has nothing and is promised nothing.
LEMMA NoPageIs ==
  ASSUME NEW d
  PROVE  /\ NoPage \in Pages /\ Gathers(d, NoPage) /\ Reads(NoPage)
         /\ NoPage.pc = "idle" /\ NoPage.cursor = <<>> /\ NoPage.pages = <<>>
  <1> DEFINE x == NoPage
  <1>1. /\ x \in Pages /\ x.pc = "idle" /\ x.left = {} /\ x.scanned = 0 /\ x.got = {} /\ x.hidden
        /\ x.stable = {} /\ x.cursor = <<>> /\ x.pages = <<>>
    <2>1. <<>> \in Seq(Child) /\ <<>> \in Seq(Cursors)
      BY EmptySeq
    <2> QED BY <2>1 DEF NoPage, Pages
  <1> HIDE DEF x
  <1>2. IsFiniteSet({})
    BY FS_EmptySet
  <1>3. Gathers(d, x)
    BY <1>1, <1>2 DEF Gathers
  <1>4. Reads(x)
    BY <1>1 DEF Reads
  <1> QED BY <1>1, <1>3, <1>4 DEF x

\* The entries of a name: at most one.
LEMMA EntriesAre ==
  ASSUME NEW d, FilesOf(d), NEW p \in Children
  PROVE  /\ EntriesIn(d, p) \in SUBSET Child /\ IsFiniteSet(EntriesIn(d, p))
         /\ \A e \in EntriesIn(d, p) : e.path = p
         /\ \A e, o \in EntriesIn(d, p) : e = o
  <1>1. Name(p) \in Nat
    BY ChildrenDiffer
  <1>2. p \in DOMAIN d => d[p].id \in Nat
    BY DEF FilesOf
  <1>3. EntriesIn(d, p) = {} \/ \E e \in Child : e.path = p /\ EntriesIn(d, p) = {e}
    BY <1>1, <1>2 DEF EntriesIn, Child
  <1>4. CASE EntriesIn(d, p) = {}
    BY <1>4, FS_EmptySet
  <1>5. ASSUME NEW e \in Child, e.path = p, EntriesIn(d, p) = {e}
        PROVE  /\ EntriesIn(d, p) \in SUBSET Child /\ IsFiniteSet(EntriesIn(d, p))
               /\ \A a \in EntriesIn(d, p) : a.path = p
               /\ \A a, o \in EntriesIn(d, p) : a = o
    BY <1>5, FS_Singleton
  <1> QED BY <1>3, <1>4, <1>5

\* What a name shows depends on the disk alone.
LEMMA EntriesAtIn == \A p : EntriesAt(p) = EntriesIn(disk, p)
  BY DEF EntriesAt, EntriesIn

\* Asking begins with the entries that are there, or goes on with those still stable.
LEMMA AskKeeps ==
  ASSUME StreamInv, PageInv, NEW hidden \in BOOLEAN, AskPage(hidden)
  PROVE  page' \in Pages /\ Gathers(disk, page') /\ Reads(page')
  <1> DEFINE there == Visible(UNION {EntriesAt(p) : p \in Children}, hidden)
             names == {p \in Children : EntriesAt(p) # {}} \cup Unlisted
             stable == IF page.pc = "more" THEN page.stable ELSE there
             g == page
             x == page'
  <1>1. x = AskedPage(g, hidden, names, stable) /\ g.pc \in {"idle", "more"}
    BY DEF AskPage, AskedPage, PageInv, Pages
  <1>2. g \in Pages /\ Gathers(disk, g) /\ Reads(g)
    BY DEF PageInv
  <1>n. names \in SUBSET (Children \cup Unlisted)
    OBVIOUS
  <1>3. \A e \in there : e \in Child /\ e.path \in names /\ e \in EntriesIn(disk, e.path)
    <2> TAKE e \in there
    <2>1. PICK p \in Children : e \in EntriesIn(disk, p)
      BY EntriesAtIn DEF Visible
    <2>2. FilesOf(disk)
      BY DEF StreamInv
    <2>3. e \in Child /\ e.path = p
      BY <2>1, <2>2, EntriesAre
    <2>4. p \in names
      BY <2>1, EntriesAtIn
    <2> QED BY <2>1, <2>3, <2>4
  <1>s. ASSUME hidden = FALSE, NEW e \in there PROVE Name(e.path) \notin Hidden
    BY <1>s DEF Visible
  <1>4. stable \in SUBSET Child
    <2>1. g.stable \in SUBSET Child
      BY <1>2 DEF Pages
    <2>2. stable = g.stable \/ stable = there
      OBVIOUS
    <2> HIDE DEF there, stable
    <2> QED BY <1>3, <2>1, <2>2
  <1>5. g.pc = "more" => stable = g.stable /\ g.cursor # <<>>
    BY <1>2 DEF Reads
  <1>6. g.pc = "idle" => stable = there /\ g.cursor = <<>>
    BY <1>2 DEF Reads
  <1> HIDE DEF there, stable, g, x, names
  <1>7. /\ x \in Pages /\ x.pc = "scan" /\ x.left = names /\ x.got = {} /\ x.hidden = hidden
        /\ x.stable = stable /\ x.cursor = g.cursor /\ x.pages = g.pages
    <2>1. PICK h : h = hidden
      OBVIOUS
    <2>2. h \in BOOLEAN /\ x = AskedPage(g, h, names, stable)
      BY <1>1, <2>1
    <2>3. AskedIs(x, g, h, names, stable)
      BY <1>2, <1>4, <1>n, <2>2, PageAsked
    <2> QED BY <2>1, <2>3 DEF AskedIs
  <1>8. Gathers(disk, x)
    <2>1. IsFiniteSet(x.got)
      BY <1>7, FS_EmptySet
    <2>2. ASSUME x.cursor = <<>>, NEW e \in x.stable
          PROVE  Awaits(disk, x, e) /\ (x.hidden \/ Name(e.path) \notin Hidden)
      <3>1. e \in there
        BY <1>1, <1>5, <1>6, <1>7, <2>2
      <3>a. Awaits(disk, x, e)
        BY <1>3, <1>7, <3>1 DEF Awaits
      <3>2. CASE hidden = TRUE
        BY <1>7, <3>a, <3>2
      <3>3. CASE hidden = FALSE
        BY <1>s, <1>7, <3>a, <3>1, <3>3
      <3> QED BY <3>2, <3>3
    <2> QED BY <1>7, <2>1, <2>2 DEF Gathers
  <1>9. Reads(x)
    BY <1>1, <1>2, <1>5, <1>6, <1>7 DEF Reads, CursorFits
  <1> QED BY <1>7, <1>8, <1>9 DEF x

\* A name that is read adds what it shows, which is what it showed while it was stable.
TaggedAs(E, n) == {[kind |-> e.kind, path |-> e.path, id |-> e.id, at |-> n] : e \in E}
LEMMA TagsAre ==
  ASSUME NEW d, FilesOf(d), NEW p \in Children \cup Unlisted, NEW n \in Nat
  PROVE  /\ TaggedAs(EntriesIn(d, p), n) \in SUBSET Tagged /\ IsFiniteSet(TaggedAs(EntriesIn(d, p), n))
         /\ \A e \in TaggedAs(EntriesIn(d, p), n) : e.at = n /\ e.path = p
         /\ \A e, o \in TaggedAs(EntriesIn(d, p), n) : e = o
         /\ \A e \in EntriesIn(d, p) : Sole(TaggedAs(EntriesIn(d, p), n), e)
  <1> DEFINE E == EntriesIn(d, p)
             T == TaggedAs(E, n)
  <1>1. E \in SUBSET Child /\ IsFiniteSet(E) /\ (\A e \in E : e.path = p) /\ (\A e, o \in E : e = o)
    <2>1. CASE p \in Children
      BY <2>1, EntriesAre
    <2>2. CASE p \in Unlisted
      <3>1. E = {}
        BY <2>2, BrowseAssumption DEF EntriesIn, FilesOf
      <3> QED BY <3>1, FS_EmptySet
    <2> QED BY <2>1, <2>2
  <1> HIDE DEF E
  <1>2. T \in SUBSET Tagged /\ (\A e \in T : e.at = n /\ e.path = p) /\ (\A e, o \in T : e = o)
    BY <1>1 DEF TaggedAs, Tagged, Child
  <1>3. IsFiniteSet(T)
    <2> HIDE DEF T
    <2>1. CASE T = {}
      BY <2>1, FS_EmptySet
    <2>2. CASE T # {}
      <3>1. PICK e : e \in T
        BY <2>2
      <3>2. T = {e}
        BY <1>2, <3>1
      <3> QED BY <3>2, FS_Singleton
    <2> QED BY <2>1, <2>2
  <1>4. ASSUME NEW e \in E PROVE Sole(T, e)
    <2> DEFINE o == [kind |-> e.kind, path |-> e.path, id |-> e.id, at |-> n]
    <2>1. o \in T
      BY DEF TaggedAs
    <2>2. Plain(o) = e
      <3>1. e \in Child
        BY <1>1
      <3> QED BY <3>1 DEF Plain, Child
    <2> HIDE DEF o, T
    <2> QED BY <1>2, <2>1, <2>2 DEF Sole
  <1> HIDE DEF T
  <1> QED BY <1>2, <1>3, <1>4 DEF E, T

LEMMA ScanKeeps ==
  ASSUME StreamInv, PageInv, NEW p \in Children \cup Unlisted, Scan(p)
  PROVE  page' \in Pages /\ Gathers(disk, page') /\ Reads(page')
  <1> DEFINE g == page
             x == page'
             E == TaggedAs(EntriesIn(disk, p), g.scanned)
  <1>1. g.pc = "scan" /\ p \in g.left /\ (x = NoPage \/ x = ScannedPage(g, p, E))
    BY EntriesAtIn DEF Scan, ScannedPage, TaggedAs
  <1>2. g \in Pages /\ Gathers(disk, g) /\ Reads(g) /\ g.scanned \in Nat
    BY DEF PageInv, Pages
  <1> HIDE DEF g, x
  <1>3. /\ E \in SUBSET Tagged /\ IsFiniteSet(E) /\ (\A e \in E : e.at = g.scanned /\ e.path = p)
        /\ (\A e, o \in E : e = o) /\ (\A e \in EntriesIn(disk, p) : Sole(E, e))
    <2>1. FilesOf(disk)
      BY DEF StreamInv
    <2> QED BY <1>2, <2>1, TagsAre
  <1>4. CASE x = NoPage
    BY <1>4, NoPageIs DEF x
  <1>5. CASE x = ScannedPage(g, p, E)
    <2> HIDE DEF E
    <2>1. /\ x \in Pages /\ x.pc = g.pc /\ x.left = g.left \ {p} /\ x.scanned = g.scanned + 1
          /\ x.got = g.got \cup E /\ x.hidden = g.hidden
          /\ x.stable = g.stable /\ x.cursor = g.cursor /\ x.pages = g.pages
      BY <1>2, <1>3, <1>5, PageScanned
    <2>2. IsFiniteSet(x.got)
      <3>1. IsFiniteSet(g.got)
        BY <1>2 DEF Gathers
      <3>2. IsFiniteSet(g.got \cup E)
        BY <1>3, <3>1, FS_Union
      <3> QED BY <2>1, <3>2
    <2>t. \A e \in g.got : e.at \in Nat
      BY <1>2 DEF Pages, Tagged
    <2>3. \A e \in x.got : e.at < x.scanned
      BY <1>2, <1>3, <2>1, <2>t DEF Gathers
    <2>4. \A e, o \in x.got : e.at = o.at => e = o
      BY <1>2, <1>3, <2>1, <2>t DEF Gathers
    <2>5. ASSUME x.cursor = <<>>, NEW e \in x.stable
          PROVE  /\ Awaits(disk, x, e) \/ (e.path \notin x.left /\ Sole(x.got, e))
                 /\ x.hidden \/ Name(e.path) \notin Hidden
      <3>1. /\ Awaits(disk, g, e) \/ (e.path \notin g.left /\ Sole(g.got, e))
            /\ g.hidden \/ Name(e.path) \notin Hidden
        BY <1>1, <1>2, <2>1, <2>5 DEF Gathers
      <3>2. CASE e.path = p
        <4>1. Awaits(disk, g, e)
          BY <1>1, <3>1, <3>2
        <4>2. e \in EntriesIn(disk, p) /\ \A o \in g.got : o.path # p
          BY <3>2, <4>1 DEF Awaits
        <4>3. Sole(E, e)
          BY <1>3, <4>2
        <4>4. Sole(x.got, e)
          BY <2>1, <3>2, <4>2, <4>3 DEF Sole
        <4> QED BY <2>1, <3>1, <3>2, <4>4
      <3>3. CASE e.path # p
        <4>1. CASE Awaits(disk, g, e)
          BY <1>3, <2>1, <3>1, <3>3, <4>1 DEF Awaits
        <4>2. CASE e.path \notin g.left /\ Sole(g.got, e)
          <5>1. Sole(x.got, e)
            BY <1>3, <2>1, <3>3, <4>2 DEF Sole
          <5> QED BY <2>1, <3>1, <4>2, <5>1
        <4> QED BY <3>1, <4>1, <4>2
      <3> QED BY <3>2, <3>3
    <2>6. Gathers(disk, x)
      BY <2>2, <2>3, <2>4, <2>5 DEF Gathers
    <2>7. Reads(x)
      BY <1>1, <1>2, <2>1 DEF Reads, CursorFits
    <2> QED BY <2>1, <2>6, <2>7 DEF x
  <1> QED BY <1>1, <1>4, <1>5

\* A name that has gone was not stable.
LEMMA MissKeeps ==
  ASSUME StreamInv, PageInv, NEW p \in Children \cup Unlisted, Miss(p)
  PROVE  page' \in Pages /\ Gathers(disk, page') /\ Reads(page')
  <1> DEFINE g == page
             x == page'
             left == g.left \ {p}
  <1>1. g.pc = "scan" /\ p \in g.left /\ EntriesIn(disk, p) = {} /\ x = MissedPage(g, left)
    BY EntriesAtIn DEF Miss, MissedPage
  <1>2. g \in Pages /\ Gathers(disk, g) /\ Reads(g) /\ left \in SUBSET (Children \cup Unlisted)
    BY DEF PageInv, Pages
  <1> HIDE DEF g, x, left
  <1>3. /\ x \in Pages /\ x.pc = g.pc /\ x.left = left /\ x.scanned = g.scanned /\ x.got = g.got
        /\ x.hidden = g.hidden /\ x.stable = g.stable /\ x.cursor = g.cursor /\ x.pages = g.pages
    BY <1>1, <1>2, PageMissed
  <1>4. ASSUME x.cursor = <<>>, NEW e \in x.stable
        PROVE  /\ Awaits(disk, x, e) \/ (e.path \notin x.left /\ Sole(x.got, e))
               /\ x.hidden \/ Name(e.path) \notin Hidden
    <2>1. /\ Awaits(disk, g, e) \/ (e.path \notin g.left /\ Sole(g.got, e))
          /\ g.hidden \/ Name(e.path) \notin Hidden
      BY <1>1, <1>2, <1>3, <1>4 DEF Gathers
    <2>2. Awaits(disk, g, e) => e.path # p
      BY <1>1 DEF Awaits
    <2> QED BY <1>3, <2>1, <2>2 DEF Awaits, left
  <1>5. Gathers(disk, x)
    BY <1>2, <1>3, <1>4 DEF Gathers
  <1>6. Reads(x)
    BY <1>1, <1>2, <1>3 DEF Reads, CursorFits
  <1> QED BY <1>3, <1>5, <1>6 DEF x

\* Pages that follow one another are the beginning of the listing.
LEMMA PartsJoin ==
  ASSUME NEW s \in Seq(Child), NEW a \in Nat, NEW b \in Nat, a <= b, b <= Len(s)
  PROVE  /\ SubSeq(s, 1, a) \o SubSeq(s, a + 1, b) = SubSeq(s, 1, b)
         /\ SubSeq(s, a + 1, b) \in Seq(Child) /\ SubSeq(s, 1, b) \in Seq(Child)
  <1>1. Len(s) \in Nat /\ \A i \in 1 .. Len(s) : s[i] \in Child
    BY ElementOfSeq
  <1> DEFINE u == SubSeq(s, 1, a)
             v == SubSeq(s, a + 1, b)
             w == SubSeq(s, 1, b)
             z == u \o v
  <1>2. u \in Seq(Child) /\ Len(u) = a /\ \A i \in 1 .. a : u[i] = s[i]
    <2>1. \A i \in 1 .. a : s[i] \in Child
      BY <1>1
    <2> QED BY <2>1, SubSeqProperties
  <1>3. v \in Seq(Child) /\ Len(v) = b - a /\ \A i \in 1 .. b - a : v[i] = s[a + i]
    <2>1. \A i \in a + 1 .. b : s[i] \in Child
      BY <1>1
    <2>2. a + 1 \in Int
      OBVIOUS
    <2>3. /\ v \in Seq(Child) /\ Len(v) = (IF a + 1 <= b THEN b - (a + 1) + 1 ELSE 0)
          /\ \A i \in 1 .. b - (a + 1) + 1 : v[i] = s[(a + 1) + i - 1]
      BY <2>1, <2>2, SubSeqProperties
    <2> HIDE DEF v
    <2>4. Len(v) = b - a
      BY <2>3
    <2>5. ASSUME NEW i \in 1 .. b - a PROVE v[i] = s[a + i]
      <3>1. i \in 1 .. b - (a + 1) + 1 /\ (a + 1) + i - 1 = a + i
        OBVIOUS
      <3> QED BY <2>3, <3>1
    <2> QED BY <2>3, <2>4, <2>5
  <1>4. w \in Seq(Child) /\ Len(w) = b /\ \A i \in 1 .. b : w[i] = s[i]
    <2>1. \A i \in 1 .. b : s[i] \in Child
      BY <1>1
    <2> QED BY <2>1, SubSeqProperties
  <1> HIDE DEF u, v, w
  <1>5. /\ z \in Seq(Child) /\ Len(z) = Len(u) + Len(v)
        /\ \A i \in 1 .. Len(u) + Len(v) : z[i] = IF i <= Len(u) THEN u[i] ELSE v[i - Len(u)]
    BY <1>2, <1>3, ConcatProperties
  <1> HIDE DEF z
  <1>6. ASSUME NEW i \in 1 .. b PROVE z[i] = w[i]
    <2>0. i \in 1 .. Len(u) + Len(v) /\ i \in Nat
      BY <1>2, <1>3
    <2>1. CASE i <= a
      <3>1. z[i] = u[i]
        BY <1>2, <1>5, <2>0, <2>1
      <3>2. u[i] = s[i]
        BY <1>2, <2>1
      <3> QED BY <1>4, <3>1, <3>2
    <2>2. CASE i > a
      <3>1. i - a \in 1 .. b - a /\ a + (i - a) = i
        BY <2>2
      <3>2. v[i - a] = s[i]
        BY <1>3, <3>1
      <3>3. z[i] = v[i - a]
        BY <1>2, <1>3, <1>5, <2>2
      <3> QED BY <1>4, <3>2, <3>3
    <2> QED BY <2>1, <2>2
  <1>7. Len(z) = b
    BY <1>2, <1>3, <1>5
  <1>8. z = w
    BY <1>4, <1>5, <1>6, <1>7, SeqEqual
  <1> QED BY <1>3, <1>4, <1>8 DEF u, v, w, z

\* The whole of a sequence is the sequence.
LEMMA WholeIs ==
  ASSUME NEW s \in Seq(Child)
  PROVE  SubSeq(s, 1, Len(s)) = s
  <1>1. Len(s) \in Nat /\ \A i \in 1 .. Len(s) : s[i] \in Child
    BY ElementOfSeq
  <1> DEFINE w == SubSeq(s, 1, Len(s))
  <1>2. w \in Seq(Child) /\ Len(w) = Len(s) /\ \A i \in 1 .. Len(s) : w[i] = s[i]
    BY <1>1, SubSeqProperties
  <1> HIDE DEF w
  <1>3. w = s
    BY <1>2, SeqEqual
  <1> QED BY <1>3 DEF w

\* The first none of its elements are none.
LEMMA NothingOf ==
  ASSUME NEW s
  PROVE  SubSeq(s, 1, 0) = <<>>
  BY SubSeqEmpty

\* What goes out is the next part of the listing, which is the one that was begun.
LEMMA AnswerKeeps ==
  ASSUME StreamInv, PageInv, AnswerPage
  PROVE  page' \in Pages /\ Gathers(disk, page') /\ Reads(page')
  <1> DEFINE g == page
             x == page'
             seen == Visible(g.got, g.hidden)
             s == Ordered(seen)
             o == Decode(s, g.cursor)
             end == IF o + PageSize > Len(s) THEN Len(s) ELSE o + PageSize
             part == SubSeq(s, o + 1, end)
             c == [offset |-> end, fingerprint |-> s]
             phase == IF end < Len(s) THEN "more" ELSE "done"
             ps == g.pages \o part
             cs == <<c>>
  <1>1. /\ g.pc = "scan" /\ g.left = {}
        /\ (o = -1 /\ x = NoPage) \/ (o # -1 /\ x = AnsweredPage(g, ps, phase, cs))
    BY DEF AnswerPage, AnsweredPage
  <1>2. g \in Pages /\ Gathers(disk, g) /\ Reads(g)
    BY DEF PageInv
  <1> HIDE DEF g, x
  <1>3. s \in Seq(Child) /\ \A e : Sole(seen, e) => Single(s, e)
    <2>1. seen \in SUBSET g.got
      BY DEF Visible
    <2>2. g.got \in SUBSET Tagged /\ IsFiniteSet(g.got) /\ \A e, a \in g.got : e.at = a.at => e = a
      BY <1>2 DEF Pages, Gathers
    <2> HIDE DEF seen
    <2>3. seen \in SUBSET Tagged /\ IsFiniteSet(seen) /\ \A e, a \in seen : e.at = a.at => e = a
      BY <2>1, <2>2, FS_Subset
    <2> QED BY <2>3, OrderedIs
  <1>4. CASE o = -1
    BY <1>1, <1>4, NoPageIs DEF x
  <1>5. CASE o # -1
    <2>1. x = AnsweredPage(g, ps, phase, cs)
      BY <1>1, <1>5
    <2>2. phase \in {"more", "done"} /\ (phase = "done" => ~(end < Len(s)))
      OBVIOUS
    <2> HIDE DEF phase
    <2>3. \/ g.cursor = <<>> /\ o = 0
          \/ g.cursor # <<>> /\ o = g.cursor[1].offset /\ g.cursor[1].fingerprint = s
      BY <1>5 DEF Decode
    <2> HIDE DEF s, o, seen
    <2>4. o \in Nat /\ o <= Len(s) /\ Len(s) \in Nat
      <3>1. CASE g.cursor = <<>>
        BY <1>3, <2>3, <3>1
      <3>2. CASE g.cursor # <<>>
        <4>1. CursorFits(g, g.cursor[1])
          BY <1>2, <3>2 DEF Reads
        <4>2. g.cursor[1] \in Cursors
          <5> DEFINE held == g.cursor
          <5>1. held \in Seq(Cursors) /\ held # <<>>
            BY <1>2, <3>2 DEF Pages
          <5> HIDE DEF held
          <5>2. 1 \in 1 .. Len(held)
            BY <5>1, EmptySeq
          <5>3. held[1] \in Cursors
            BY <5>1, <5>2, ElementOfSeq
          <5> QED BY <5>3 DEF held
        <4>3. g.cursor[1].offset \in Nat
          BY <4>2 DEF Cursors
        <4> QED BY <1>3, <2>3, <3>2, <4>1, <4>3 DEF CursorFits
      <3> QED BY <3>1, <3>2
    <2>5. end \in Nat /\ o <= end /\ end <= Len(s) /\ (~(end < Len(s)) => end = Len(s))
      <3>1. PageSize \in Nat
        BY BrowseAssumption
      <3> QED BY <2>4, <3>1
    <2> HIDE DEF end
    <2>6. /\ SubSeq(s, 1, o) \o part = SubSeq(s, 1, end)
          /\ part \in Seq(Child) /\ SubSeq(s, 1, end) \in Seq(Child)
      BY <1>3, <2>4, <2>5, PartsJoin
    <2>7. c \in Cursors /\ c.offset = end /\ c.fingerprint = s
      BY <1>3, <2>5 DEF Cursors
    <2> HIDE DEF part, c
    <2>8. ps = g.pages \o part /\ ps \in Seq(Child) /\ cs \in Seq(Cursors) /\ cs # <<>> /\ cs[1] = c
      <3>1. g.pages \in Seq(Child)
        BY <1>2 DEF Pages
      <3>2. ps \in Seq(Child)
        BY <2>6, <3>1, ConcatProperties
      <3> QED BY <2>7, <3>2
    <2> HIDE DEF ps, cs
    <2>a. /\ x \in Pages /\ x.pc = phase /\ x.left = g.left /\ x.got = {} /\ x.hidden = g.hidden
          /\ x.stable = g.stable /\ x.cursor = cs /\ x.pages = ps
      <3>1. \A G \in Pages, P \in Seq(Child), PC \in {"more", "done"}, CS \in Seq(Cursors) : \A X :
                 X = AnsweredPage(G, P, PC, CS) =>
                   /\ X \in Pages /\ X.pc = PC /\ X.left = G.left /\ X.got = {} /\ X.hidden = G.hidden
                   /\ X.stable = G.stable /\ X.cursor = CS /\ X.pages = P
        BY PageAnswered
      <3>2. g \in Pages
        BY <1>2
      <3>3. ps \in Seq(Child) /\ cs \in Seq(Cursors)
        BY <2>8
      <3>4. phase \in {"more", "done"}
        BY <2>2
      <3>5. x = AnsweredPage(g, ps, phase, cs)
        BY <2>1
      <3> QED BY <3>1, <3>2, <3>3, <3>4, <3>5
    <2>9. g.pages = SubSeq(s, 1, o) /\ Steady(g.stable, s)
      <3>1. CASE g.cursor = <<>>
        <4>1. g.pages = SubSeq(s, 1, o)
          BY <1>2, <2>3, <3>1, NothingOf DEF Reads
        <4>2. ASSUME NEW e \in g.stable PROVE Single(s, e)
          <5>1. Sole(g.got, e) /\ (g.hidden \/ Name(e.path) \notin Hidden)
            BY <1>1, <1>2, <3>1 DEF Gathers, Awaits
          <5>2. PICK a \in g.got : Plain(a) = e /\ \A b \in g.got : b.path = e.path => b = a
            BY <5>1 DEF Sole
          <5>3. a.path = e.path
            BY <5>2 DEF Plain
          <5>4. Sole(seen, e)
            BY <5>1, <5>2, <5>3 DEF Sole, seen, Visible
          <5> QED BY <1>3, <5>4
        <4> QED BY <4>1, <4>2 DEF Steady
      <3>2. CASE g.cursor # <<>>
        <4>1. CursorFits(g, g.cursor[1])
          BY <1>2, <3>2 DEF Reads
        <4> QED BY <2>3, <3>2, <4>1 DEF CursorFits
      <3> QED BY <3>1, <3>2
    <2>10. CursorFits(x, c)
      BY <1>3, <2>5, <2>6, <2>7, <2>8, <2>9, <2>a DEF CursorFits
    <2>11. Reads(x)
      <3>1. IF x.cursor = <<>> THEN x.pages = <<>> ELSE CursorFits(x, x.cursor[1])
        BY <2>8, <2>10, <2>a
      <3>2. x.pc = "done" => x.cursor[1].offset = Len(x.cursor[1].fingerprint)
        BY <2>2, <2>5, <2>7, <2>8, <2>a
      <3> QED BY <2>2, <2>8, <2>a, <3>1, <3>2 DEF Reads
    <2>12. Gathers(disk, x)
      BY <2>2, <2>a, FS_EmptySet DEF Gathers
    <2> QED BY <2>a, <2>11, <2>12 DEF x
  <1> QED BY <1>4, <1>5

\* A change takes back what a listing under way promised of the files it touches.
LEMMA ChangeKeepsPage ==
  ASSUME StreamInv, PageInv, NEW f \in Files, NEW g \in Files, NEW ours \in BOOLEAN, NEW d, Changes(d, f, g, ours)
  PROVE  PageInv'
  <1> DEFINE h == page
             x == page'
             stable == {e \in h.stable : e.path \notin {f, g}}
  <1>0. PICK new \in SUBSET {q \in {g} \cap DOMAIN d : page.pc = "scan" /\ Parent(q) = Listed} :
            page' = [page EXCEPT !.stable = {e \in @ : e.path \notin {f, g}}, !.left = @ \cup new]
    BY DEF Changes, Change
  <1> DEFINE left == h.left \cup new
  <1>1. disk' = d /\ x = ChangedPage(h, stable, left) /\ Elsewhere(d, f, g)
    BY <1>0 DEF Changes, Change, ChangedPage, PageInv, Pages
  <1>2. h \in Pages /\ Gathers(disk, h) /\ Reads(h)
    BY DEF PageInv
  <1>n. new \subseteq Children /\ new \subseteq {g}
    <2>1. \A q \in new : q = g /\ q \in Files /\ q # <<>> /\ Parent(q) = Listed
      BY <1>0, PathsAreSequences
    <2> QED BY <2>1 DEF Children
  <1>3. stable \in SUBSET Child /\ stable \subseteq h.stable /\ (\A e \in stable : e.path \notin {f, g})
        /\ left \in SUBSET (Children \cup Unlisted)
        /\ \A q : q # g => (q \in left <=> q \in h.left)
    BY <1>2, <1>n DEF Pages
  <1> HIDE DEF h, x, stable, left
  <1>4. /\ x \in Pages /\ x.pc = h.pc /\ x.left = left /\ x.scanned = h.scanned /\ x.got = h.got
        /\ x.hidden = h.hidden /\ x.stable = stable /\ x.cursor = h.cursor /\ x.pages = h.pages
    BY <1>1, <1>2, <1>3, PageChanged
  <1>5. \A p \in Children : p \notin {f, g} => EntriesIn(d, p) = EntriesIn(disk, p)
    BY <1>1 DEF EntriesIn, Elsewhere, Children
  <1>6. ASSUME x.pc = "scan", x.cursor = <<>>, NEW e \in x.stable
        PROVE  /\ Awaits(d, x, e) \/ (e.path \notin x.left /\ Sole(x.got, e))
               /\ x.hidden \/ Name(e.path) \notin Hidden
    <2>1. /\ Awaits(disk, h, e) \/ (e.path \notin h.left /\ Sole(h.got, e))
          /\ h.hidden \/ Name(e.path) \notin Hidden
      BY <1>2, <1>3, <1>4, <1>6 DEF Gathers
    <2>2. e.path \in Children /\ e.path \notin {f, g} /\ (e.path \in left <=> e.path \in h.left)
      BY <1>3, <1>4, <1>6 DEF Child
    <2>3. EntriesIn(d, e.path) = EntriesIn(disk, e.path)
      BY <1>5, <2>2
    <2> QED BY <1>4, <2>1, <2>2, <2>3 DEF Awaits
  <1>7. Gathers(d, x)
    BY <1>2, <1>4, <1>6 DEF Gathers
  <1>8. Reads(x)
    BY <1>2, <1>3, <1>4 DEF Reads, CursorFits, Steady
  <1> QED BY <1>1, <1>4, <1>7, <1>8 DEF PageInv, x

\* A file that is resized stays the entry that it was.
LEMMA ResizedKeepsPage ==
  ASSUME StreamInv, PageInv, NEW f \in Files, Resized(disk', f), page' = page
  PROVE  PageInv'
  <1> DEFINE d == disk'
             g == page
  <1>1. g \in Pages /\ Gathers(disk, g) /\ Reads(g)
    BY DEF PageInv
  <1>2. \A p : EntriesIn(d, p) = EntriesIn(disk, p)
    BY DEF Resized, EntriesIn
  <1> HIDE DEF d, g
  <1>3. Gathers(d, g)
    BY <1>1, <1>2 DEF Gathers, Awaits
  <1> QED BY <1>1, <1>3 DEF PageInv, d, g

\* Every step keeps what the pages promise.
LEMMA PageNext == ASSUME StreamInv, PageInv, [Next]_vars PROVE PageInv'
  <1>1. ASSUME UNCHANGED <<disk, page>> PROVE PageInv'
    BY <1>1 DEF PageInv
  <1>2. CASE Announced
    <2>1. PICK f \in Files, g \in Files, ours \in BOOLEAN : \E d : Changes(d, f, g, ours)
      BY <1>2, ChangesAre
    <2> QED BY <2>1, ChangeKeepsPage
  <1>2a. ASSUME NEW f \in Files, NEW n \in Sizes, Grow(f, n) \/ Truncate(f, n) PROVE PageInv'
    BY <1>2a, ResizedFiles, ResizedKeepsPage DEF Grow, Truncate
  <1>2b. ASSUME NEW f \in Files, Close(f) PROVE PageInv'
    BY <1>2b, ClosedFiles, ResizedKeepsPage DEF Close
  <1>3. CASE Listing
    <2>1. disk' = disk
      BY <1>3 DEF Listing
    <2>2. page' \in Pages /\ Gathers(disk, page') /\ Reads(page')
      <3>1. CASE \E hidden \in BOOLEAN : AskPage(hidden)
        BY <3>1, AskKeeps
      <3>2. CASE \E p \in Children \cup Unlisted : Scan(p) \/ Miss(p)
        BY <3>2, ScanKeeps, MissKeeps
      <3>3. CASE AnswerPage
        BY <3>3, AnswerKeeps
      <3>4. CASE ForgetPage
        BY <3>4, NoPageIs DEF ForgetPage
      <3> QED BY <1>3, <3>1, <3>2, <3>3, <3>4 DEF Listing
    <2> QED BY <2>1, <2>2 DEF PageInv
  <1>4. CASE EndMutation
    BY <1>1, <1>4 DEF EndMutation
  <1>5. CASE CutMutation
    BY <1>1, <1>5 DEF CutMutation
  <1>6. CASE Tick
    BY <1>1, <1>6 DEF Tick
  <1>7. CASE SizeRequest
    BY <1>1, <1>7 DEF SizeRequest, AskSize, PassOver, BeginWalk, SpendBudget, CutWalk, EndWalk, StoreSize, Visit,
                      UNCHANGEDbutSizes
  <1>8. CASE EventStream
    <2>1. UNCHANGED disk /\ page' = page
      BY <1>8 DEF EventStream
    <2> QED BY <1>1, <2>1
  <1>9. CASE SignOut
    BY <1>1, <1>9 DEF SignOut
  <1>10. CASE UNCHANGED vars
    BY <1>1, <1>10 DEF vars
  <1> QED BY <1>2, <1>2a, <1>2b, <1>3, <1>4, <1>5, <1>6, <1>7, <1>8, <1>9, <1>10 DEF Next, Changing, Announced

(* The pages of a listing read to its end have every entry that was there     *)
(* unchanged from the first request to the last, and have it once, whatever    *)
(* came or went meanwhile, or came twice: a cursor holds only for the listing  *)
(* that it was made from (browse.rs, decode_cursor).                           *)
THEOREM PagesAreOneListing == Spec => []PagesAgree
  <1>1. Init => StreamInv /\ PageInv
    <2>1. Init => PageInv
      BY NoPageIs DEF Init, PageInv
    <2> QED BY <2>1, StreamInit
  <1>2. StreamInv /\ PageInv /\ [Next]_vars => (StreamInv /\ PageInv)'
    BY StreamNext, PageNext
  <1>3. StreamInv /\ PageInv => PagesAgree
    <2> SUFFICES ASSUME PageInv, page.pc = "done"
                 PROVE  Steady(page.stable, page.pages)
      BY DEF PagesAgree, Steady, Single
    <2> DEFINE c == page.cursor[1]
               s == c.fingerprint
    <2>1. page.cursor # <<>> /\ CursorFits(page, c) /\ c.offset = Len(s)
      BY DEF PageInv, Reads
    <2>2. s \in Seq(Child)
      <3> DEFINE cs == page.cursor
      <3>1. cs \in Seq(Cursors) /\ cs # <<>>
        BY <2>1 DEF PageInv, Pages
      <3> HIDE DEF cs
      <3>2. 1 \in 1 .. Len(cs)
        BY <3>1, EmptySeq
      <3>3. cs[1] \in Cursors
        BY <3>1, <3>2, ElementOfSeq
      <3> QED BY <3>3 DEF cs, Cursors
    <2>3. page.pages = SubSeq(s, 1, Len(s)) /\ Steady(page.stable, s)
      BY <2>1 DEF CursorFits
    <2> HIDE DEF c, s
    <2>4. page.pages = s
      BY <2>2, <2>3, WholeIs
    <2> QED BY <2>3, <2>4
  <1> QED BY <1>1, <1>2, <1>3, PTL DEF Spec

-----------------------------------------------------------------------------
(* SubjectGate: one gate, for any number of requests and any caps.          *)

\* WithinCaps rests on the caps being kept by the counts.
Counted == \A s \in Subjects : active[s] <= PerSubject

\* The inductive invariant.
GateInv == GateTypeOK /\ Accounting /\ Counted

\* The sets of requests that the gate counts are finite.
LEMMA FiniteHolders ==
  /\ IsFiniteSet(Holding) /\ Cardinality(Holding) \in Nat
  /\ \A s \in Subjects : IsFiniteSet(Admitted(s)) /\ Cardinality(Admitted(s)) \in Nat
  <1>1. Holding \in SUBSET Requests /\ \A s \in Subjects : Admitted(s) \in SUBSET Requests
    BY DEF Holding, Admitted
  <1> QED BY <1>1, GateAssumption, FS_Subset, FS_CardinalityType

\* When a request moves on, the requests that hold a permit gain it, lose it or
\* stay the same.
LEMMA HoldingMoves ==
  ASSUME GateTypeOK, NEW r \in Requests, NEW l \in Labels, Goto(r, l)
  PROVE  Holding' = IF l \in {"permit", "lease", "return"} THEN Holding \cup {r} ELSE Holding \ {r}
  BY DEF Holding, Goto, GateTypeOK

\* Likewise the requests that the gate has admitted for a subject.
LEMMA AdmittedMoves ==
  ASSUME GateTypeOK, NEW r \in Requests, NEW l \in Labels, Goto(r, l), NEW s \in Subjects
  PROVE  Admitted(s)' = IF l = "lease" /\ SubjectOf[r] = s THEN Admitted(s) \cup {r} ELSE Admitted(s) \ {r}
  BY DEF Admitted, Goto, GateTypeOK

\* A permit's move between the semaphore and a request keeps their sum.
LEMMA PermitsKept ==
  ASSUME GateInv, NEW r \in Requests, NEW l \in Labels, Goto(r, l),
         \/ r \in Holding /\ l \in {"permit", "lease", "return"} /\ permits' = permits
         \/ r \notin Holding /\ l \notin {"permit", "lease", "return"} /\ permits' = permits
         \/ r \notin Holding /\ l \in {"permit", "lease", "return"} /\ permits > 0 /\ permits' = permits - 1
         \/ r \in Holding /\ l \notin {"permit", "lease", "return"} /\ permits' = permits + 1
  PROVE  /\ permits' + Cardinality(Holding)' = Process
         /\ permits' \in 0 .. Process
  <1>1. Cardinality(Holding') =
           IF l \in {"permit", "lease", "return"}
           THEN IF r \in Holding THEN Cardinality(Holding) ELSE Cardinality(Holding) + 1
           ELSE IF r \in Holding THEN Cardinality(Holding) - 1 ELSE Cardinality(Holding)
    BY HoldingMoves, FiniteHolders, FS_AddElement, FS_RemoveElement DEF GateInv
  <1>2. Cardinality(Holding') \in Nat
    <2>1. IsFiniteSet(Holding')
      BY HoldingMoves, FiniteHolders, FS_AddElement, FS_RemoveElement DEF GateInv
    <2> QED BY <2>1, FS_CardinalityType
  <1>3. permits \in Nat /\ Process \in Nat /\ Cardinality(Holding) \in Nat
        /\ permits + Cardinality(Holding) = Process
    BY FiniteHolders, GateAssumption DEF GateInv, GateTypeOK, Accounting
  <1>4. permits' + Cardinality(Holding') = Process
    BY <1>1, <1>3
  <1>5. permits' \in Nat
    BY <1>3
  <1> QED BY <1>2, <1>3, <1>4, <1>5

\* The count of each subject follows its leases: the step of r counts up when r is
\* admitted, down when its lease is dropped, and not otherwise.
LEMMA CountsKept ==
  ASSUME GateInv, NEW r \in Requests, NEW l \in Labels, Goto(r, l),
         \/ pc[r] # "lease" /\ l # "lease" /\ active' = active
         \/ /\ pc[r] # "lease" /\ l = "lease"
            /\ active' = [active EXCEPT ![SubjectOf[r]] = @ + 1]
         \/ /\ pc[r] = "lease" /\ l # "lease"
            /\ active' = [active EXCEPT ![SubjectOf[r]] = IF @ > 0 THEN @ - 1 ELSE 0],
         NEW s \in Subjects
  PROVE  active'[s] = Cardinality(Admitted(s)') /\ active' \in [Subjects -> Nat]
  <1>1. r \in Admitted(s) <=> pc[r] = "lease" /\ SubjectOf[r] = s
    BY DEF Admitted
  <1>2. Cardinality(Admitted(s)') =
           IF l = "lease" /\ SubjectOf[r] = s
           THEN IF r \in Admitted(s) THEN Cardinality(Admitted(s)) ELSE Cardinality(Admitted(s)) + 1
           ELSE IF r \in Admitted(s) THEN Cardinality(Admitted(s)) - 1 ELSE Cardinality(Admitted(s))
    <2>1. IsFiniteSet(Admitted(s))
      BY FiniteHolders
    <2>2. CASE l = "lease" /\ SubjectOf[r] = s
      <3>1. Admitted(s)' = Admitted(s) \cup {r}
        BY <2>2, AdmittedMoves DEF GateInv
      <3> QED BY <2>1, <2>2, <3>1, FS_AddElement
    <2>3. CASE ~(l = "lease" /\ SubjectOf[r] = s)
      <3>1. Admitted(s)' = Admitted(s) \ {r}
        BY <2>3, AdmittedMoves DEF GateInv
      <3> QED BY <2>1, <2>3, <3>1, FS_RemoveElement
    <2> QED BY <2>2, <2>3
  <1>3. active \in [Subjects -> Nat] /\ SubjectOf[r] \in Subjects
        /\ active[s] = Cardinality(Admitted(s)) /\ Cardinality(Admitted(s)) \in Nat
    BY FiniteHolders, GateAssumption DEF GateInv, GateTypeOK, Accounting
  <1>4. r \in Admitted(s) => Cardinality(Admitted(s)) > 0
    BY FiniteHolders, FS_EmptySet
  <1>5. active' \in [Subjects -> Nat]
    BY <1>3
  <1>6. active'[s] = Cardinality(Admitted(s)')
    BY <1>1, <1>2, <1>3, <1>4
  <1> QED BY <1>5, <1>6

\* Every step of a request keeps the invariant.
LEMMA GateStep == GateInv /\ [GateNext]_gate => GateInv'
  <1> SUFFICES ASSUME GateInv, [GateNext]_gate PROVE GateInv'
    OBVIOUS
  <1>1. CASE UNCHANGED gate
    BY <1>1 DEF gate, GateInv, GateTypeOK, Accounting, Counted, Holding, Admitted
  <1>2. ASSUME NEW r \in Requests,
               TryProcess(r) \/ TrySubject(r) \/ Drop(r) \/ ReturnPermit(r) \/ Again(r)
        PROVE  GateInv'
    <2>0. r \in Holding <=> pc[r] \in {"permit", "lease", "return"}
      BY DEF Holding
    <2>t. permits \in Nat /\ active \in [Subjects -> Nat] /\ pc \in [Requests -> Labels]
          /\ SubjectOf[r] \in Subjects
      BY GateAssumption DEF GateInv, GateTypeOK
    <2>1. pc' \in [Requests -> Labels]
      BY <1>2, <2>t DEF TryProcess, TrySubject, Drop, ReturnPermit, Again, Goto, Labels
    <2>2. permits' + Cardinality(Holding)' = Process /\ permits' \in 0 .. Process
      <3>1. CASE TryProcess(r)
        BY <3>1, <2>0, <2>t, PermitsKept DEF TryProcess, Labels
      <3>2. CASE TrySubject(r)
        BY <3>2, <2>0, PermitsKept DEF TrySubject, Labels
      <3>3. CASE Drop(r)
        BY <3>3, <2>0, PermitsKept DEF Drop, Labels
      <3>4. CASE ReturnPermit(r)
        BY <3>4, <2>0, PermitsKept DEF ReturnPermit, Labels
      <3>5. CASE Again(r)
        BY <3>5, <2>0, PermitsKept DEF Again, Labels
      <3> QED BY <1>2, <3>1, <3>2, <3>3, <3>4, <3>5
    <2>3. active' \in [Subjects -> Nat]
      BY <1>2, <2>t DEF TryProcess, TrySubject, Drop, ReturnPermit, Again
    <2>4. ASSUME NEW s \in Subjects PROVE active'[s] = Cardinality(Admitted(s)')
      <3>1. CASE TryProcess(r)
        BY <3>1, CountsKept DEF TryProcess, Labels
      <3>2. CASE TrySubject(r)
        BY <3>2, CountsKept DEF TrySubject, Labels
      <3>3. CASE Drop(r)
        BY <3>3, CountsKept DEF Drop, Labels
      <3>4. CASE ReturnPermit(r)
        BY <3>4, CountsKept DEF ReturnPermit, Labels
      <3>5. CASE Again(r)
        BY <3>5, CountsKept DEF Again, Labels
      <3> QED BY <1>2, <3>1, <3>2, <3>3, <3>4, <3>5
    <2>5. ASSUME NEW s \in Subjects PROVE active'[s] <= PerSubject
      <3>1. active[s] <= PerSubject /\ PerSubject \in Nat
        BY GateAssumption DEF GateInv, Counted
      <3> QED BY <1>2, <2>t, <3>1 DEF TryProcess, TrySubject, Drop, ReturnPermit, Again
    <2> QED BY <2>1, <2>2, <2>3, <2>4, <2>5 DEF GateInv, GateTypeOK, Accounting, Counted
  <1> QED BY <1>1, <1>2 DEF GateNext

\* A gate starts with all its permits and no lease.
LEMMA GateStarts == GateInit => GateInv
  <1> SUFFICES ASSUME GateInit PROVE GateInv
    OBVIOUS
  <1>1. Holding = {} /\ \A s \in Subjects : Admitted(s) = {}
    BY DEF GateInit, Holding, Admitted
  <1>2. GateTypeOK /\ Counted
    BY GateAssumption DEF GateInit, GateTypeOK, Labels, Counted
  <1>3. Accounting
    BY <1>1, FS_EmptySet, GateAssumption DEF GateInit, Accounting
  <1> QED BY <1>2, <1>3 DEF GateInv

\* The invariant holds in every reachable state.
LEMMA GateAlways == GateSpec => []GateInv
  BY GateStarts, GateStep, PTL DEF GateSpec

\* No permit and no count ever leaks, in any interleaving of acquisitions,
\* refusals and drops.
THEOREM NothingLeaks == GateSpec => []Accounting
  <1>1. GateInv => Accounting
    BY DEF GateInv
  <1> QED BY <1>1, GateAlways, PTL

\* The gate never admits more than the process's or a subject's cap.
THEOREM CapsHold == GateSpec => []WithinCaps
  <1>1. ASSUME GateInv PROVE WithinCaps
    <2>1. {r \in Requests : pc[r] = "lease"} \in SUBSET Holding
      BY DEF Holding
    <2>2. Cardinality({r \in Requests : pc[r] = "lease"}) <= Cardinality(Holding)
      BY <2>1, FiniteHolders, FS_Subset
    <2>3. Cardinality({r \in Requests : pc[r] = "lease"}) \in Nat
      BY <2>1, FiniteHolders, FS_Subset, FS_CardinalityType
    <2>4. Cardinality(Holding) <= Process
      BY <1>1, FiniteHolders, GateAssumption DEF GateInv, GateTypeOK, Accounting
    <2>5. Cardinality({r \in Requests : pc[r] = "lease"}) <= Process
      BY <2>2, <2>3, <2>4, FiniteHolders, GateAssumption
    <2>6. \A s \in Subjects : Cardinality(Admitted(s)) <= PerSubject
      BY <1>1 DEF GateInv, Accounting, Counted
    <2> QED BY <2>5, <2>6 DEF WithinCaps
  <1> QED BY <1>1, GateAlways, PTL

\* What the run checks for five requests, for any number of them.
THEOREM GateIsSound == GateSpec => []GateSound
  BY NothingLeaks, CapsHold, PTL DEF GateSound
=============================================================================
