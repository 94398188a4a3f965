--------------------------- MODULE ProductsProofs ---------------------------
(***************************************************************************)
(* Proofs about Products, for any listings, names, grades, barcodes and    *)
(* bounds: what Match makes of the listings on sale, what products Regroup *)
(* plans for it, and what of both outlasts changes and edits.              *)
(***************************************************************************)
EXTENDS Products, NaturalOrder

-----------------------------------------------------------------------------
(* Numbers.                                                                *)

\* A finite set of natural numbers has an upper bound.
LEMMA FiniteIsBounded ==
  ASSUME NEW S \in SUBSET Nat, IsFiniteSet(S)
  PROVE  \E n \in Nat : \A i \in S : i <= n
<1> DEFINE Unbounded(T) == ~ \E n \in Nat : \A i \in T : i <= n
           Sizes == {k \in Nat : \E T \in SUBSET S : IsFiniteSet(T) /\ Cardinality(T) = k /\ Unbounded(T)}
<1>1. SUFFICES ASSUME Sizes # {} PROVE FALSE
  BY <1>1, FS_CardinalityType
<1>2. PICK k \in Sizes : \A j \in Sizes : k <= j
  BY <1>1, NatHasLeast
<1>3. PICK T \in SUBSET S : IsFiniteSet(T) /\ Cardinality(T) = k /\ Unbounded(T)
  OBVIOUS
<1>4. PICK x \in T : TRUE
  BY <1>3
<1>5. IsFiniteSet(T \ {x}) /\ Cardinality(T \ {x}) = k - 1 /\ Cardinality(T \ {x}) \in Nat
  BY <1>3, <1>4, FS_RemoveElement, FS_CardinalityType
<1>6. ~ Unbounded(T \ {x})
  <2> SUFFICES ASSUME Unbounded(T \ {x}) PROVE FALSE
    OBVIOUS
  <2>1. k - 1 \in Sizes
    BY <1>5
  <2> QED
    BY <1>2, <2>1
<1>7. PICK n \in Nat : \A i \in T \ {x} : i <= n
  BY <1>6
<1>8. x \in Nat
  BY <1>4
<1>9. \A i \in T : i <= n + x
  BY <1>7, <1>8
<1> QED
  BY <1>3, <1>8, <1>9

LEMMA FiniteHasGreatest ==
  ASSUME NEW S \in SUBSET Nat, IsFiniteSet(S), S # {}
  PROVE  \E p \in S : \A q \in S : q <= p
<1>1. PICK n \in Nat : \A i \in S : i <= n
  BY FiniteIsBounded
<1>2. S \in SUBSET (0 .. n)
  BY <1>1
<1> QED
  BY <1>1, <1>2, BoundedHasGreatest

LEMMA LeastIsLeast ==
  ASSUME NEW S \in SUBSET Nat, S # {}
  PROVE  Least(S) \in S /\ \A j \in S : Least(S) <= j
  BY NatHasLeast DEF Least

LEMMA LastIdBounds == LastId \in Nat /\ \A i \in Listings : i <= LastId
<1>1. Listings \cup {0} \in SUBSET Nat /\ IsFiniteSet(Listings \cup {0})
  BY IdsAssumption, FS_AddElement DEF IdsAssumption
<1>2. PICK p \in Listings \cup {0} : \A q \in Listings \cup {0} : q <= p
  BY <1>1, FiniteHasGreatest
<1>3. \E x \in Listings \cup {0} : \A y \in Listings \cup {0} : x >= y
  BY <1>1, <1>2
<1> QED
  BY <1>1, <1>3 DEF LastId, Max

LEMMA StepsType == Steps \in Nat /\ LastId <= Steps
<1>1. IsFiniteSet(Listings \X Listings)
  BY FS_Product, IdsAssumption DEF IdsAssumption
<1>2. IsFiniteSet(NearPairs)
  BY <1>1, FS_Subset DEF NearPairs
<1> QED
  BY <1>2, FS_CardinalityType, LastIdBounds DEF Steps
-----------------------------------------------------------------------------
(* The steps of Match.                                                     *)

LEMMA RootsAreJoined ==
  ASSUME NEW es
  PROVE  /\ Roots(es)[0] = ManualRoots(es)
         /\ \A n \in 1 .. Steps : Roots(es)[n] = Join(es, Roots(es)[n - 1], n)
<1> DEFINE Upto(f, N) ==
             f = [n \in 0 .. N |-> IF n = 0 THEN ManualRoots(es) ELSE Join(es, f[n - 1], n)]
           Bad == {N \in Nat : ~ \E f : Upto(f, N)}
<1>1. Bad = {}
  <2> SUFFICES ASSUME Bad # {} PROVE FALSE
    OBVIOUS
  <2>1. PICK N \in Bad : \A k \in Bad : N <= k
    BY NatHasLeast
  <2>2. N # 0
    <3>1. Upto([n \in 0 .. 0 |-> ManualRoots(es)], 0)
      OBVIOUS
    <3> QED
      BY <3>1
  <2>3. N - 1 \in Nat /\ N - 1 \notin Bad
    <3>1. N \in Nat /\ N - 1 \in Nat /\ ~ (N <= N - 1)
      BY <2>2
    <3> HIDE DEF Bad
    <3> QED
      BY <2>1, <3>1
  <2>4. PICK f : Upto(f, N - 1)
    BY <2>3
  <2> DEFINE g == [n \in 0 .. N |-> IF n = N THEN Join(es, f[N - 1], N) ELSE f[n]]
  <2>5. \A n \in 0 .. N : n # 0 => n - 1 \in 0 .. N - 1 /\ g[n - 1] = f[n - 1]
    BY <2>1
  <2>6. \A n \in 0 .. N - 1 : f[n] = IF n = 0 THEN ManualRoots(es) ELSE Join(es, f[n - 1], n)
    BY <2>4
  <2>7. \A n \in 0 .. N : g[n] = IF n = 0 THEN ManualRoots(es) ELSE Join(es, g[n - 1], n)
    <3> TAKE n \in 0 .. N
    <3>1. CASE n = N
      BY <2>2, <2>5, <3>1
    <3>2. CASE n # N
      <4>1. n \in 0 .. N - 1 /\ g[n] = f[n]
        BY <3>2
      <4> QED
        BY <2>5, <2>6, <4>1
    <3> QED
      BY <3>1, <3>2
  <2>8. Upto(g, N)
    BY <2>7
  <2> QED
    BY <2>8
<1>2. \E f : Upto(f, Steps)
  BY <1>1, StepsType
<1>3. Upto(Roots(es), Steps)
  BY <1>2 DEF Roots
<1> QED
  BY <1>3, StepsType

-----------------------------------------------------------------------------
(* What Match keeps, from step to step.                                    *)

Matchable(es) == DOMAIN es \subseteq Listings

\* Listings linked by hand are together just when they share a product, and
\* with nothing else; no automatic group has two listings of one shop.
Sound(es, root) ==
  /\ root \in [DOMAIN es -> DOMAIN es]
  /\ \A i, j \in DOMAIN es :
       es[i].manual => (root[i] = root[j] <=> es[j].manual /\ es[j].product = es[i].product)
  /\ \A i, j \in DOMAIN es :
       i # j /\ ~es[i].manual /\ root[i] = root[j] => Shop[i] # Shop[j]

\* What is together stays together.
Coarser(es, root, new) ==
  \A i, j \in DOMAIN es : root[i] = root[j] => new[i] = new[j]

LEMMA ManualRootsSound ==
  ASSUME NEW es, Matchable(es)
  PROVE  Sound(es, ManualRoots(es))
<1> DEFINE D == DOMAIN es
           Together(i) == {j \in D : es[j].manual /\ es[j].product = es[i].product}
           root == ManualRoots(es)
<1>1. \A i \in D : es[i].manual => root[i] = Least(Together(i))
  BY DEF ManualRoots
<1>2. \A i \in D : ~es[i].manual => root[i] = i
  BY DEF ManualRoots
<1>3. \A i \in D : es[i].manual => Least(Together(i)) \in Together(i)
  <2> SUFFICES ASSUME NEW i \in D, es[i].manual PROVE Least(Together(i)) \in Together(i)
    OBVIOUS
  <2>1. Together(i) \in SUBSET Nat /\ Together(i) # {}
    BY IdsAssumption DEF IdsAssumption, Matchable
  <2> QED
    BY <2>1, LeastIsLeast
<1>4. root \in [D -> D]
  <2>1. \A i \in D : root[i] \in D
    BY <1>1, <1>2, <1>3
  <2> QED
    BY <2>1 DEF ManualRoots
<1>5. ASSUME NEW i \in D, NEW j \in D, es[i].manual, es[j].manual, es[j].product = es[i].product
      PROVE  root[i] = root[j]
  <2>1. Together(i) = Together(j)
    BY <1>5
  <2> QED
    BY <1>1, <1>5, <2>1
<1>6. ASSUME NEW i \in D, NEW j \in D, es[i].manual, root[i] = root[j]
      PROVE  es[j].manual /\ es[j].product = es[i].product
  <2>1. es[root[i]].manual /\ es[root[i]].product = es[i].product
    BY <1>1, <1>3, <1>6
  <2>2. CASE es[j].manual
    <3>1. es[root[j]].product = es[j].product
      BY <1>1, <1>3, <2>2
    <3> QED
      BY <1>6, <2>1, <2>2, <3>1
  <2>3. CASE ~es[j].manual
    <3>1. root[j] = j
      BY <1>2, <2>3
    <3> QED
      BY <1>6, <2>1, <2>3, <3>1
  <2> QED
    BY <2>2, <2>3
<1>7. ASSUME NEW i \in D, NEW j \in D, ~es[i].manual, root[i] = root[j]
      PROVE  i = j
  BY <1>1, <1>2, <1>3, <1>7
<1> QED
  BY <1>4, <1>5, <1>6, <1>7 DEF Sound

LEMMA UnionSound ==
  ASSUME NEW es, NEW root, Sound(es, root), NEW i \in DOMAIN es, NEW j \in DOMAIN es
  PROVE  Sound(es, Union(es, root, i, j)) /\ Coarser(es, root, Union(es, root, i, j))
<1> DEFINE D == DOMAIN es
           new == Union(es, root, i, j)
<1>1. D = DOMAIN root
  BY DEF Sound
<1>2. CASE ~ (root[i] # root[j] /\ MayMerge(es, root, i, j))
  BY <1>2 DEF Union, Coarser
<1>3. CASE root[i] # root[j] /\ MayMerge(es, root, i, j)
  <2>1. new = [k \in D |-> IF root[k] = root[j] THEN root[i] ELSE root[k]]
    BY <1>1, <1>3 DEF Union
  <2>2. \A k \in D : (root[k] = root[i] \/ root[k] = root[j]) => ~es[k].manual
    BY <1>1, <1>3 DEF MayMerge, Locked, GroupOf
  <2>3. \A a, b \in D : root[a] = root[i] /\ root[b] = root[j] => Shop[a] # Shop[b]
    BY <1>1, <1>3 DEF MayMerge, ShopsOf, GroupOf
  <2>4. new \in [D -> D]
    BY <2>1 DEF Sound
  <2>5. ASSUME NEW a \in D, NEW b \in D, es[a].manual
        PROVE  new[a] = new[b] <=> root[a] = root[b]
    BY <2>1, <2>2, <2>5
  <2>6. ASSUME NEW a \in D, NEW b \in D, a # b, ~es[a].manual, new[a] = new[b]
        PROVE  Shop[a] # Shop[b]
    <3>1. CASE root[a] = root[j] /\ root[b] # root[j]
      <4>1. root[b] = root[i]
        BY <2>1, <2>6, <3>1
      <4> QED
        BY <2>3, <3>1, <4>1
    <3>2. CASE root[a] # root[j] /\ root[b] = root[j]
      <4>1. root[a] = root[i]
        BY <2>1, <2>6, <3>2
      <4> QED
        BY <2>3, <3>2, <4>1
    <3>3. CASE (root[a] = root[j]) = (root[b] = root[j])
      <4>1. root[a] = root[b]
        BY <2>1, <2>6, <3>3
      <4> QED
        BY <2>6, <4>1 DEF Sound
    <3> QED
      BY <3>1, <3>2, <3>3
  <2>7. \A a, b \in D :
          es[a].manual => (new[a] = new[b] <=> es[b].manual /\ es[b].product = es[a].product)
    BY <2>5 DEF Sound
  <2>8. Coarser(es, root, new)
    BY <2>1 DEF Coarser
  <2>9. Sound(es, new)
    BY <2>4, <2>6, <2>7 DEF Sound
  <2> QED
    BY <2>8, <2>9
<1> QED
  BY <1>2, <1>3

LEMMA JoinSound ==
  ASSUME NEW es, Matchable(es), NEW root, Sound(es, root), NEW n
  PROVE  Sound(es, Join(es, root, n)) /\ Coarser(es, root, Join(es, root, n))
<1>1. Coarser(es, root, root)
  BY DEF Coarser
<1>2. ASSUME n \in DOMAIN es, n \in Barcoded(es, n)
      PROVE  Least(Barcoded(es, n)) \in DOMAIN es
  <2>1. Barcoded(es, n) \in SUBSET Nat /\ Barcoded(es, n) # {}
    BY <1>2, IdsAssumption DEF IdsAssumption, Matchable, Barcoded
  <2> QED
    BY <2>1, LeastIsLeast DEF Barcoded
<1>3. Sound(es, JoinBarcode(es, root, n)) /\ Coarser(es, root, JoinBarcode(es, root, n))
  BY <1>1, <1>2, UnionSound DEF JoinBarcode
<1>4. ASSUME NEW p
      PROVE  Sound(es, JoinNames(es, root, p)) /\ Coarser(es, root, JoinNames(es, root, p))
  BY <1>1, UnionSound DEF JoinNames, Comparable
<1> QED
  BY <1>3, <1>4 DEF Join

LEMMA RootsSound ==
  ASSUME NEW es, Matchable(es), NEW n \in 0 .. Steps
  PROVE  Sound(es, Roots(es)[n])
<1> DEFINE S == {k \in 0 .. Steps : Sound(es, Roots(es)[k])}
<1>1. 0 \in S
  BY StepsType, RootsAreJoined, ManualRootsSound
<1>2. \A k \in 1 .. Steps : k - 1 \in S => k \in S
  BY RootsAreJoined, JoinSound
<1>3. 0 .. Steps \subseteq S
  <2> HIDE DEF S
  <2> QED
    BY <1>1, <1>2, StepsType, StepByStep
<1> QED
  BY <1>3

-----------------------------------------------------------------------------
(* Barcodes.                                                               *)

\* i is with the first listing that has its barcode, unless another one of its
\* shop is.
JoinsFirst(es, root, i) ==
  LET first == Least(Barcoded(es, i))
  IN  \/ root[i] = root[first]
      \/ \E k \in Barcoded(es, i) : Shop[k] = Shop[i] /\ root[k] = root[first]

\* After the steps of the listings up to n.
OnlyBarcodes(es, root) ==
  \A i, j \in DOMAIN es :
    i # j /\ ~es[i].manual /\ root[i] = root[j] => es[i].ean # NoBarcode /\ es[i].ean = es[j].ean

StillAlone(es, root, n) ==
  \A i, j \in DOMAIN es : i > n /\ ~es[i].manual /\ root[i] = root[j] => i = j

HaveJoined(es, root, n) ==
  \A i \in DOMAIN es : i <= n /\ i \in Barcoded(es, i) => JoinsFirst(es, root, i)

BarcodesDone(es, root, n) == OnlyBarcodes(es, root) /\ StillAlone(es, root, n) /\ HaveJoined(es, root, n)

LEMMA FirstBarcoded ==
  ASSUME NEW es, Matchable(es), NEW i \in DOMAIN es, i \in Barcoded(es, i)
  PROVE  /\ Least(Barcoded(es, i)) \in Barcoded(es, i)
         /\ \A j \in Barcoded(es, i) : Least(Barcoded(es, i)) <= j
<1>1. Barcoded(es, i) \in SUBSET Nat /\ Barcoded(es, i) # {}
  BY IdsAssumption DEF IdsAssumption, Matchable, Barcoded
<1> QED
  BY <1>1, LeastIsLeast

LEMMA JoiningIsKept ==
  ASSUME NEW es, Matchable(es), NEW root, NEW new, Coarser(es, root, new),
         NEW i \in DOMAIN es, i \in Barcoded(es, i), JoinsFirst(es, root, i)
  PROVE  JoinsFirst(es, new, i)
<1>1. Least(Barcoded(es, i)) \in DOMAIN es /\ \A k \in Barcoded(es, i) : k \in DOMAIN es
  BY FirstBarcoded DEF Barcoded
<1> QED
  BY <1>1 DEF Coarser, JoinsFirst

LEMMA BarcodeStep ==
  ASSUME NEW es, Matchable(es), NEW root, Sound(es, root), NEW n \in Nat \ {0},
         BarcodesDone(es, root, n - 1)
  PROVE  BarcodesDone(es, JoinBarcode(es, root, n), n)
<1> DEFINE D == DOMAIN es
           new == JoinBarcode(es, root, n)
           m == Least(Barcoded(es, n))
<1>1. D \subseteq Nat /\ D = DOMAIN root
  BY IdsAssumption DEF IdsAssumption, Matchable, Sound
<1>2. \A i \in D : (i > n => i > n - 1) /\ (i <= n => i = n \/ i <= n - 1) /\ (i = n => i > n - 1)
  BY <1>1
<1>3. CASE ~ (n \in D /\ n \in Barcoded(es, n))
  <2>1. new = root
    BY <1>3 DEF JoinBarcode
  <2>2. StillAlone(es, root, n)
    BY <1>2 DEF StillAlone, BarcodesDone
  <2>3. HaveJoined(es, root, n)
    BY <1>2, <1>3 DEF HaveJoined, BarcodesDone
  <2> QED
    BY <2>1, <2>2, <2>3 DEF BarcodesDone
<1>4. CASE n \in D /\ n \in Barcoded(es, n)
  <2>1. m \in Barcoded(es, n) /\ m \in D /\ m <= n
    BY <1>4, FirstBarcoded DEF Barcoded
  <2>2. new = Union(es, root, m, n)
    BY <1>4 DEF JoinBarcode
  <2>3. /\ ~es[n].manual /\ ~es[m].manual
        /\ es[n].ean # NoBarcode /\ es[m].ean = es[n].ean
    BY <1>4, <2>1 DEF Barcoded
  <2>4. \A j \in D : root[j] = root[n] => j = n
    BY <1>2, <1>4, <2>3 DEF StillAlone, BarcodesDone
  <2>5. \A j \in D : root[j] = root[m] => j \in Barcoded(es, n) /\ ~es[j].manual
    <3> SUFFICES ASSUME NEW j \in D, root[j] = root[m]
                 PROVE  j \in Barcoded(es, n) /\ ~es[j].manual
      OBVIOUS
    <3>1. ~es[j].manual
      BY <2>1, <2>3 DEF Sound
    <3>2. j = m \/ es[j].ean = es[m].ean
      BY <2>1, <2>3 DEF OnlyBarcodes, BarcodesDone
    <3> QED
      BY <2>3, <3>1, <3>2 DEF Barcoded
  <2>6. Coarser(es, root, new)
    BY <1>4, <2>1, <2>2, UnionSound
  <2>7. \A i \in D : i # n => new[i] = root[i]
    BY <1>1, <2>2, <2>4 DEF Union
  <2>8. new[n] = root[n] \/ new[n] = root[m]
    BY <1>1, <1>4, <2>2 DEF Union
  <2>9. JoinsFirst(es, new, n)
    <3>1. CASE root[m] = root[n]
      BY <1>4, <2>1, <2>6, <3>1 DEF Coarser, JoinsFirst
    <3>2. CASE root[m] # root[n] /\ MayMerge(es, root, m, n)
      <4>1. new[n] = root[m] /\ new[m] = root[m]
        BY <1>1, <1>4, <2>1, <2>2, <3>2 DEF Union
      <4> QED
        BY <4>1 DEF JoinsFirst
    <3>3. CASE ~ MayMerge(es, root, m, n)
      <4>1. ~ Locked(es, root, m) /\ ~ Locked(es, root, n)
        BY <1>1, <2>3, <2>4, <2>5 DEF Locked, GroupOf
      <4>2. PICK a \in D, b \in D : root[a] = root[m] /\ root[b] = root[n] /\ Shop[a] = Shop[b]
        BY <1>1, <3>3, <4>1 DEF MayMerge, ShopsOf, GroupOf
      <4>3. Shop[a] = Shop[n] /\ a \in Barcoded(es, n) /\ new[a] = new[m]
        BY <2>1, <2>4, <2>5, <2>6, <4>2 DEF Coarser
      <4> QED
        BY <4>3 DEF JoinsFirst
    <3> QED
      BY <3>1, <3>2, <3>3
  <2>10. HaveJoined(es, new, n)
    <3> SUFFICES ASSUME NEW i \in D, i <= n, i \in Barcoded(es, i)
                 PROVE  JoinsFirst(es, new, i)
      BY DEF HaveJoined
    <3>1. CASE i = n
      BY <2>9, <3>1
    <3>2. CASE i <= n - 1
      <4>1. JoinsFirst(es, root, i)
        BY <3>2 DEF HaveJoined, BarcodesDone
      <4> QED
        BY <2>6, <4>1, JoiningIsKept
    <3> QED
      BY <1>2, <3>1, <3>2
  <2>11. OnlyBarcodes(es, new)
    <3> SUFFICES ASSUME NEW i \in D, NEW j \in D, i # j, ~es[i].manual, new[i] = new[j]
                 PROVE  es[i].ean # NoBarcode /\ es[i].ean = es[j].ean
      BY DEF OnlyBarcodes
    <3>1. CASE root[i] = root[j]
      BY <3>1 DEF OnlyBarcodes, BarcodesDone
    <3>2. CASE root[i] # root[j] /\ i = n
      BY <1>4, <2>3, <2>5, <2>7, <2>8, <3>2 DEF Barcoded
    <3>3. CASE root[i] # root[j] /\ j = n
      BY <1>4, <2>3, <2>5, <2>7, <2>8, <3>3 DEF Barcoded
    <3> QED
      BY <2>7, <3>1, <3>2, <3>3
  <2>12. StillAlone(es, new, n)
    <3> SUFFICES ASSUME NEW i \in D, NEW j \in D, i > n, ~es[i].manual, new[i] = new[j]
                 PROVE  i = j
      BY DEF StillAlone
    <3>1. i # n /\ i # m /\ i > n - 1
      BY <1>1, <2>1
    <3>2. \A k \in D : root[i] = root[k] => i = k
      BY <3>1 DEF StillAlone, BarcodesDone
    <3>3. new[i] = root[i]
      BY <2>7, <3>1
    <3>4. new[n] # root[i]
      BY <1>4, <2>1, <2>8, <3>1, <3>2
    <3> QED
      BY <2>7, <3>2, <3>3, <3>4
  <2> QED
    BY <2>10, <2>11, <2>12 DEF BarcodesDone
<1> QED
  BY <1>3, <1>4

\* Names come after barcodes and part nothing.
LEMMA MatchJoinsBarcodes ==
  ASSUME NEW es, Matchable(es), NEW i \in DOMAIN es, i \in Barcoded(es, i)
  PROVE  JoinsFirst(es, MatchRoots(es), i)
<1> DEFINE Done(k) == BarcodesDone(es, Roots(es)[k], k)
           S == {k \in 0 .. LastId : Done(k)}
           T == {k \in 0 .. Steps : k >= LastId => JoinsFirst(es, Roots(es)[k], i)}
<1>1. 0 \in S
  <2> DEFINE root == ManualRoots(es)
  <2>1. \A j, k \in DOMAIN es : ~es[j].manual /\ root[j] = root[k] => j = k
    <3> SUFFICES ASSUME NEW j \in DOMAIN es, NEW k \in DOMAIN es, ~es[j].manual, root[j] = root[k]
                 PROVE  j = k
      OBVIOUS
    <3>1. ~es[k].manual
      BY ManualRootsSound DEF Sound
    <3> QED
      BY <3>1 DEF ManualRoots
  <2>2. \A j \in DOMAIN es : ~ (j <= 0)
    <3>1. \A j \in DOMAIN es : j \in Nat \ {0}
      BY IdsAssumption DEF IdsAssumption, Matchable
    <3>2. \A j \in Nat \ {0} : ~ (j <= 0)
      OBVIOUS
    <3> QED
      BY <3>1, <3>2
  <2>3. BarcodesDone(es, root, 0)
    BY <2>1, <2>2 DEF BarcodesDone, OnlyBarcodes, StillAlone, HaveJoined
  <2> QED
    BY <2>3, RootsAreJoined, LastIdBounds
<1>2. \A k \in 1 .. LastId : k - 1 \in S => k \in S
  <2> SUFFICES ASSUME NEW k \in 1 .. LastId, k - 1 \in S PROVE k \in S
    OBVIOUS
  <2>1. k \in 1 .. Steps /\ k \in Nat \ {0} /\ k - 1 \in 0 .. Steps /\ k <= LastId
    BY LastIdBounds, StepsType
  <2>2. Roots(es)[k] = JoinBarcode(es, Roots(es)[k - 1], k)
    BY <2>1, RootsAreJoined DEF Join
  <2> QED
    BY <2>1, <2>2, RootsSound, BarcodeStep
<1>3. Done(LastId)
  <2> HIDE DEF S
  <2>1. LastId \in S
    BY <1>1, <1>2, LastIdBounds, StepByStep
  <2> QED
    BY <2>1 DEF S
<1>4. JoinsFirst(es, Roots(es)[LastId], i)
  BY <1>3, LastIdBounds DEF BarcodesDone, HaveJoined, Matchable
<1>5. 0 \in T
  <2>1. 0 >= LastId => LastId = 0
    BY LastIdBounds
  <2> QED
    BY <1>4, <2>1, StepsType
<1>6. \A k \in 1 .. Steps : k - 1 \in T => k \in T
  <2> SUFFICES ASSUME NEW k \in 1 .. Steps, k - 1 \in T, k >= LastId
               PROVE  JoinsFirst(es, Roots(es)[k], i)
    OBVIOUS
  <2>1. CASE k = LastId
    BY <1>4, <2>1
  <2>2. CASE k # LastId
    <3>1. k - 1 \in 0 .. Steps /\ k - 1 >= LastId
      BY <2>2, StepsType, LastIdBounds
    <3>2. Coarser(es, Roots(es)[k - 1], Roots(es)[k])
      BY <3>1, RootsSound, RootsAreJoined, JoinSound
    <3> QED
      BY <3>1, <3>2, JoiningIsKept
  <2> QED
    BY <2>1, <2>2
<1>7. Steps \in T
  <2> HIDE DEF T
  <2> QED
    BY <1>5, <1>6, StepsType, StepByStep
<1> QED
  BY <1>7, StepsType DEF MatchRoots

-----------------------------------------------------------------------------
(* The ids Regroup plans.                                                  *)

\* What the tables must be for the plan to make sense.
Numbered == /\ product \in [Listings -> Nat]
            /\ DOMAIN products = {product[i] : i \in Listings} \ {0}

\* Groups of known listings.
Grouping(root) == \E D \in SUBSET Listings : root \in [D -> D]

LEMMA ImageIsFinite ==
  ASSUME NEW S, IsFiniteSet(S), NEW f
  PROVE  IsFiniteSet({f[x] : x \in S})
<1> DEFINE T == {f[x] : x \in S}
           g == [x \in S |-> f[x]]
<1>1. g \in Surjection(S, T)
  BY DEF Surjection
<1> HIDE DEF g, T
<1>2. IsFiniteSet(T)
  BY <1>1, FS_Surjection
<1> QED
  BY <1>2 DEF T

LEMMA RowsAreFinite ==
  ASSUME Numbered
  PROVE  DOMAIN products \subseteq Nat \ {0} /\ IsFiniteSet(DOMAIN products)
<1>1. IsFiniteSet({product[i] : i \in Listings})
  BY ImageIsFinite, IdsAssumption DEF IdsAssumption
<1>2. IsFiniteSet({product[i] : i \in Listings} \ {0})
  BY <1>1, FS_Subset
<1> QED
  BY <1>2 DEF Numbered

LEMMA NextIdIsNew ==
  ASSUME NEW rows \in SUBSET Nat, IsFiniteSet(rows)
  PROVE  NextId(rows) \in Nat \ {0} /\ NextId(rows) \notin rows
<1>1. CASE rows = {}
  BY <1>1 DEF NextId
<1>2. CASE rows # {}
  <2> DEFINE g == CHOOSE p \in rows : \A q \in rows : q <= p
  <2>1. g \in rows /\ \A q \in rows : q <= g
    BY <1>2, FiniteHasGreatest
  <2>2. NextId(rows) = 1 + g
    BY <1>2 DEF NextId
  <2> HIDE DEF g
  <2>3. g \in Nat /\ ~ (1 + g <= g)
    BY <2>1
  <2> QED
    BY <2>1, <2>2, <2>3
<1> QED
  BY <1>1, <1>2

\* A claimed id is one of the group's or a new one, and no earlier group has it.
LEMMA ClaimIsNew ==
  ASSUME Numbered, NEW root, Grouping(root), NEW i \in DOMAIN root,
         NEW used \in SUBSET Nat, IsFiniteSet(used)
  PROVE  /\ Claim(root, i, used) \in Nat \ {0}
         /\ Claim(root, i, used) \notin used
         /\ Claim(root, i, used) \in Ids(root, i) \/ Claim(root, i, used) \notin DOMAIN products
<1>1. Ids(root, i) \subseteq Nat \ {0}
  BY DEF Numbered, Grouping, Ids, GroupOf
<1>2. CASE Ids(root, i) \ used = {}
  <2>1. Claim(root, i, used) = NextId(DOMAIN products \cup used)
    BY <1>2 DEF Claim, ChooseId
  <2>2. IsFiniteSet(DOMAIN products \cup used) /\ DOMAIN products \cup used \in SUBSET Nat
    BY RowsAreFinite, FS_Union
  <2> QED
    BY <2>1, <2>2, NextIdIsNew
<1>3. CASE Ids(root, i) \ used # {}
  <2>1. Claim(root, i, used) = Least(Ids(root, i) \ used)
    BY <1>3 DEF Claim, ChooseId
  <2>2. Least(Ids(root, i) \ used) \in Ids(root, i) \ used
    BY <1>1, <1>3, LeastIsLeast
  <2> QED
    BY <1>1, <2>1, <2>2
<1> QED
  BY <1>2, <1>3

\* The ids of the groups before the one of i.
Used(root, i) == {Claims(root)[j] : j \in {k \in Firsts(root) : k < i}}

LEMMA FirstsAreIds ==
  ASSUME NEW root, Grouping(root)
  PROVE  Firsts(root) \subseteq DOMAIN root /\ DOMAIN root \subseteq Listings
         /\ Firsts(root) \subseteq Nat \ {0} /\ IsFiniteSet(Firsts(root))
<1>1. Firsts(root) \subseteq DOMAIN root /\ DOMAIN root \subseteq Listings
  BY DEF Firsts, Grouping
<1> QED
  BY <1>1, IdsAssumption, FS_Subset DEF IdsAssumption

LEMMA ClaimsAreMade ==
  ASSUME NEW root, Grouping(root)
  PROVE  \A i \in Firsts(root) : Claims(root)[i] = Claim(root, i, Used(root, i))
<1> DEFINE F == Firsts(root)
           Upto(N) == {k \in F : k <= N}
           Before(f, i) == {f[j] : j \in {k \in F : k < i}}
           Made(f, N) == f = [i \in Upto(N) |-> Claim(root, i, Before(f, i))]
           Bad == {N \in Nat : ~ \E f : Made(f, N)}
<1>1. F \subseteq Nat \ {0} /\ \A i \in F : i <= LastId
  BY FirstsAreIds, LastIdBounds
<1>2. Bad = {}
  <2> SUFFICES ASSUME Bad # {} PROVE FALSE
    OBVIOUS
  <2>1. PICK N \in Bad : \A k \in Bad : N <= k
    BY NatHasLeast
  <2>2. N # 0
    <3> DEFINE f == [i \in Upto(0) |-> 0]
    <3>1. Upto(0) = {}
      BY <1>1
    <3>2. Made(f, 0)
      BY <3>1
    <3> QED
      BY <3>2
  <2>3. N - 1 \in Nat /\ N - 1 \notin Bad
    <3>1. N \in Nat /\ N - 1 \in Nat /\ ~ (N <= N - 1)
      BY <2>2
    <3> HIDE DEF Bad
    <3> QED
      BY <2>1, <3>1
  <2>4. PICK f : Made(f, N - 1)
    BY <2>3
  <2> DEFINE g == [i \in Upto(N) |-> IF i = N THEN Claim(root, N, Before(f, N)) ELSE f[i]]
  <2>5. \A i \in Upto(N) : i # N => i \in Upto(N - 1)
    BY <1>1
  <2>6. \A i \in Upto(N) : \A k \in F : k < i => k \in Upto(N) /\ k # N
    BY <1>1
  <2>7. \A i \in Upto(N) : Before(g, i) = Before(f, i)
    <3> TAKE i \in Upto(N)
    <3>1. \A k \in {j \in F : j < i} : g[k] = f[k]
      BY <2>6
    <3> QED
      BY <3>1
  <2>8. \A i \in Upto(N - 1) : f[i] = Claim(root, i, Before(f, i))
    BY <2>4
  <2>9. \A i \in Upto(N) : g[i] = Claim(root, i, Before(g, i))
    <3> TAKE i \in Upto(N)
    <3>1. g[i] = Claim(root, i, Before(f, i))
      <4>1. CASE i = N
        BY <4>1
      <4>2. CASE i # N
        <5>1. g[i] = f[i]
          BY <4>2
        <5> QED
          BY <2>5, <2>8, <4>2, <5>1
      <4> QED
        BY <4>1, <4>2
    <3>2. Before(g, i) = Before(f, i)
      BY <2>7
    <3> HIDE DEF g, Before
    <3> QED
      BY <3>1, <3>2
  <2>10. Made(g, N)
    BY <2>9
  <2> QED
    BY <2>10
<1>3. PICK f : Made(f, LastId)
  BY <1>2, LastIdBounds
<1>4. Upto(LastId) = F
  BY <1>1
<1>5. f = [i \in F |-> Claim(root, i, Before(f, i))]
  BY <1>3, <1>4
<1>6. Claims(root) = [i \in F |-> Claim(root, i, Before(Claims(root), i))]
  BY <1>5 DEF Claims
<1> QED
  BY <1>6 DEF Used

LEMMA UsedIsFinite ==
  ASSUME NEW root, Grouping(root), NEW i
  PROVE  IsFiniteSet(Used(root, i))
<1>1. IsFiniteSet({k \in Firsts(root) : k < i})
  BY FirstsAreIds, FS_Subset
<1> QED
  BY <1>1, ImageIsFinite DEF Used

LEMMA ClaimsAreIds ==
  ASSUME Numbered, NEW root, Grouping(root)
  PROVE  \A i \in Firsts(root) : Claims(root)[i] \in Nat \ {0}
<1> DEFINE F == Firsts(root)
           Bad == {i \in F : Claims(root)[i] \notin Nat \ {0}}
<1>1. SUFFICES ASSUME Bad # {} PROVE FALSE
  BY <1>1
<1>2. PICK i \in Bad : \A k \in Bad : i <= k
  <2>1. Bad \in SUBSET Nat
    BY FirstsAreIds
  <2> QED
    BY <1>1, <2>1, NatHasLeast
<1>3. \A k \in F : k < i => Claims(root)[k] \in Nat \ {0}
  <2>1. \A k \in F : k < i => ~ (i <= k)
    BY FirstsAreIds
  <2> QED
    BY <1>2, <2>1
<1>4. Used(root, i) \in SUBSET Nat /\ IsFiniteSet(Used(root, i))
  BY <1>3, UsedIsFinite DEF Used
<1>5. Claims(root)[i] \in Nat \ {0}
  BY <1>4, ClaimsAreMade, ClaimIsNew, FirstsAreIds
<1> QED
  BY <1>2, <1>5

LEMMA ClaimsDiffer ==
  ASSUME Numbered, NEW root, Grouping(root), NEW i \in Firsts(root)
  PROVE  /\ \A j \in Firsts(root) : i # j => Claims(root)[i] # Claims(root)[j]
         /\ Claims(root)[i] \in Ids(root, i) \/ Claims(root)[i] \notin DOMAIN products
<1>1. \A j \in Firsts(root) :
        /\ Used(root, j) \in SUBSET Nat /\ IsFiniteSet(Used(root, j))
        /\ Claims(root)[j] = Claim(root, j, Used(root, j))
  BY ClaimsAreIds, UsedIsFinite, ClaimsAreMade DEF Used
<1>2. \A j \in Firsts(root) : Claims(root)[j] \notin Used(root, j)
  BY <1>1, ClaimIsNew, FirstsAreIds
<1>3. \A j, k \in Firsts(root) : k < j => Claims(root)[k] # Claims(root)[j]
  BY <1>2 DEF Used
<1>4. \A j \in Firsts(root) : i # j => i < j \/ j < i
  BY FirstsAreIds
<1> QED
  BY <1>1, <1>3, <1>4, ClaimIsNew, FirstsAreIds

\* Every group has a first member, and it is the group's.
LEMMA GroupsHaveFirsts ==
  ASSUME NEW root, Grouping(root), NEW i \in DOMAIN root
  PROVE  /\ Least(GroupOf(root, i)) \in Firsts(root)
         /\ root[Least(GroupOf(root, i))] = root[i]
         /\ i \in Firsts(root) => Least(GroupOf(root, i)) = i
<1> DEFINE f == Least(GroupOf(root, i))
<1>1. GroupOf(root, i) \in SUBSET Nat /\ GroupOf(root, i) # {}
  BY FirstsAreIds, IdsAssumption DEF GroupOf, IdsAssumption
<1>2. f \in GroupOf(root, i) /\ \A j \in GroupOf(root, i) : f <= j
  BY <1>1, LeastIsLeast
<1>3. f \in DOMAIN root /\ root[f] = root[i]
  BY <1>2 DEF GroupOf
<1>4. GroupOf(root, f) = GroupOf(root, i)
  BY <1>3 DEF GroupOf
<1>5. i \in Firsts(root) => i <= f
  BY <1>2 DEF Firsts
<1>6. f \in Nat /\ i \in Nat /\ f <= i
  BY <1>1, <1>2 DEF GroupOf
<1> HIDE DEF f
<1>7. i \in Firsts(root) => f = i
  BY <1>5, <1>6
<1> QED
  BY <1>2, <1>3, <1>4, <1>7 DEF f, Firsts

\* The plan gives each group an id of its own: one that a member has, or a new one.
LEMMA PlanFits ==
  ASSUME Numbered, NEW root, Grouping(root)
  PROVE  /\ Plan(root) \in [DOMAIN root -> Nat \ {0}]
         /\ \A i, j \in DOMAIN root : Plan(root)[i] = Plan(root)[j] <=> root[i] = root[j]
         /\ \A i \in DOMAIN root : Plan(root)[i] \in Ids(root, i) \/ Plan(root)[i] \notin DOMAIN products
<1> DEFINE D == DOMAIN root
           Leader(i) == Least(GroupOf(root, i))
<1>1. \A i \in D : Leader(i) \in Firsts(root) /\ root[Leader(i)] = root[i] /\ Leader(i) \in D
  BY GroupsHaveFirsts, FirstsAreIds
<1>2. \A i \in D : Plan(root)[i] = Claims(root)[Leader(i)]
  BY DEF Plan
<1>3. Plan(root) \in [D -> Nat \ {0}]
  BY <1>1, <1>2, ClaimsAreIds DEF Plan
<1>4. ASSUME NEW i \in D, NEW j \in D, root[i] = root[j]
      PROVE  Plan(root)[i] = Plan(root)[j]
  <2>1. GroupOf(root, i) = GroupOf(root, j)
    BY <1>4 DEF GroupOf
  <2> QED
    BY <1>2, <2>1
<1>5. ASSUME NEW i \in D, NEW j \in D, Plan(root)[i] = Plan(root)[j]
      PROVE  root[i] = root[j]
  <2>1. Leader(i) = Leader(j)
    BY <1>1, <1>2, <1>5, ClaimsDiffer
  <2> QED
    BY <1>1, <2>1
<1>6. ASSUME NEW i \in D
      PROVE  Plan(root)[i] \in Ids(root, i) \/ Plan(root)[i] \notin DOMAIN products
  <2>1. Ids(root, Leader(i)) = Ids(root, i)
    BY <1>1 DEF Ids, GroupOf
  <2>2. Leader(i) \in Firsts(root) /\ Plan(root)[i] = Claims(root)[Leader(i)]
    BY <1>1, <1>2
  <2> HIDE DEF Leader
  <2> QED
    BY <2>1, <2>2, ClaimsDiffer
<1> QED
  BY <1>3, <1>4, <1>5, <1>6

\* Products that are the groups already stay what they are.
LEMMA PlanStays ==
  ASSUME Numbered, NEW root, Grouping(root),
         \A i, j \in DOMAIN root : product[i] = product[j] <=> root[i] = root[j],
         \A i \in DOMAIN root : product[i] # 0
  PROVE  \A i \in DOMAIN root : Plan(root)[i] = product[i]
<1> DEFINE D == DOMAIN root
           F == Firsts(root)
           Bad == {i \in F : Claims(root)[i] # product[i]}
<1>1. \A i \in D : Ids(root, i) = {product[i]}
  BY DEF Ids, GroupOf
<1>2. \A i, j \in F : i # j => root[i] # root[j]
  <2> SUFFICES ASSUME NEW i \in F, NEW j \in F, root[i] = root[j] PROVE i = j
    OBVIOUS
  <2>1. i \in D /\ j \in D /\ GroupOf(root, i) = GroupOf(root, j)
    BY FirstsAreIds DEF GroupOf
  <2> QED
    BY <2>1, GroupsHaveFirsts
<1>3. Bad = {}
  <2> SUFFICES ASSUME Bad # {} PROVE FALSE
    OBVIOUS
  <2>1. PICK i \in Bad : \A k \in Bad : i <= k
    <3>1. Bad \in SUBSET Nat
      BY FirstsAreIds
    <3> QED
      BY <3>1, NatHasLeast
  <2>2. \A k \in F : k < i => Claims(root)[k] = product[k] /\ k # i
    <3>1. \A k \in F : k < i => ~ (i <= k) /\ k # i
      BY FirstsAreIds
    <3> QED
      BY <2>1, <3>1
  <2>3. product[i] \notin Used(root, i)
    BY <1>2, <2>2, FirstsAreIds DEF Used
  <2>4. Ids(root, i) \ Used(root, i) = {product[i]}
    BY <1>1, <2>3, FirstsAreIds
  <2>5. Least({product[i]}) = product[i]
    BY FirstsAreIds, LeastIsLeast DEF Numbered
  <2>6. Claims(root)[i] = product[i]
    <3>1. Claims(root)[i] = ChooseId({product[i]}, Used(root, i))
      BY <2>4, ClaimsAreMade DEF Claim
    <3>2. {product[i]} # {}
      OBVIOUS
    <3> QED
      BY <2>5, <3>1, <3>2 DEF ChooseId
  <2> QED
    BY <2>1, <2>6
<1>4. ASSUME NEW i \in D PROVE Plan(root)[i] = product[i]
  <2> DEFINE f == Least(GroupOf(root, i))
  <2>1. f \in F /\ f \in D /\ root[f] = root[i]
    BY GroupsHaveFirsts, FirstsAreIds
  <2>2. product[f] = product[i]
    BY <2>1
  <2>3. Plan(root)[i] = Claims(root)[f]
    BY DEF Plan
  <2> QED
    BY <1>3, <2>1, <2>2, <2>3
<1> QED
  BY <1>4

-----------------------------------------------------------------------------
(* What a Regroup leaves behind.                                           *)

\* Match asks no more of the products than who shares one by hand.
LEMMA SameMatch ==
  ASSUME NEW es, Matchable(es), NEW fs, DOMAIN fs = DOMAIN es,
         \A i \in DOMAIN es : fs[i].ean = es[i].ean /\ fs[i].manual = es[i].manual,
         ManualRoots(fs) = ManualRoots(es)
  PROVE  /\ \A n \in 0 .. Steps : Roots(fs)[n] = Roots(es)[n]
         /\ \A root : \A i \in DOMAIN es : Method(fs, root, i) = Method(es, root, i)
<1> DEFINE S == {n \in 0 .. Steps : Roots(fs)[n] = Roots(es)[n]}
<1>1. 0 \in S
  BY RootsAreJoined, StepsType
<1>2. \A root, n : Sound(es, root) => Join(fs, root, n) = Join(es, root, n)
  <2> SUFFICES ASSUME NEW root, NEW n, Sound(es, root) PROVE Join(fs, root, n) = Join(es, root, n)
    OBVIOUS
  <2>1. \A i : Locked(fs, root, i) <=> Locked(es, root, i)
    BY DEF Locked, GroupOf, Sound
  <2>2. \A i, j : Union(fs, root, i, j) = Union(es, root, i, j)
    BY <2>1 DEF Union, MayMerge
  <2>3. \A i \in DOMAIN es : Barcoded(fs, i) = Barcoded(es, i)
    BY DEF Barcoded
  <2>4. JoinBarcode(fs, root, n) = JoinBarcode(es, root, n)
    BY <2>2, <2>3 DEF JoinBarcode
  <2>5. \A p : Comparable(fs, p) <=> Comparable(es, p)
    BY DEF Comparable
  <2>6. \A p : JoinNames(fs, root, p) = JoinNames(es, root, p)
    BY <2>2, <2>5 DEF JoinNames
  <2> QED
    BY <2>4, <2>6 DEF Join
<1>3. \A n \in 1 .. Steps : n - 1 \in S => n \in S
  BY <1>2, RootsAreJoined, RootsSound
<1>4. 0 .. Steps \subseteq S
  <2> HIDE DEF S
  <2> QED
    BY <1>1, <1>3, StepsType, StepByStep
<1>5. BarcodeRoots(fs) = BarcodeRoots(es)
  BY <1>4, LastIdBounds, StepsType DEF BarcodeRoots
<1> QED
  BY <1>4, <1>5 DEF Method

\* Who shares a product by hand is all that the first step asks.
LEMMA SameManualRoots ==
  ASSUME NEW es, NEW fs, DOMAIN fs = DOMAIN es,
         \A i \in DOMAIN es : fs[i].manual = es[i].manual,
         \A i, j \in DOMAIN es :
           es[i].manual /\ es[j].manual => (fs[i].product = fs[j].product <=> es[i].product = es[j].product)
  PROVE  ManualRoots(fs) = ManualRoots(es)
<1>1. \A i \in DOMAIN es : es[i].manual =>
        {j \in DOMAIN fs : fs[j].manual /\ fs[j].product = fs[i].product}
        = {j \in DOMAIN es : es[j].manual /\ es[j].product = es[i].product}
  OBVIOUS
<1> QED
  BY <1>1 DEF ManualRoots

\* Products are the groups of the last Regroup.
Current ==
  \E es \in {Entries} : \E root \in {MatchRoots(es)} :
    /\ \A i, j \in Active : product[i] = product[j] <=> root[i] = root[j]
    /\ \A i \in Active : /\ product[i] # 0
                         /\ method[i] = Method(es, root, i)
                         /\ products[product[i]] = Canonical({j \in Active : product[j] = product[i]})

FreshIsCurrent == fresh => Current

\* What was linked or pinned is marked so.
ByHand ==
  /\ linked \subseteq SUBSET Listings /\ pinned \subseteq Listings
  /\ \A i \in pinned \cup UNION linked : method[i] = "manual"

Tables == DOMAIN ean = Listings /\ products = [p \in DOMAIN products |-> products[p]]

\* The inductive invariant.
ProductsInv == TypeOK /\ Tables /\ ByHand /\ EditsHold /\ FreshIsCurrent

LEMMA EntriesMatchable ==
  /\ Matchable(Entries) /\ DOMAIN Entries = Active
  /\ \A i \in Active : /\ Entries[i].manual <=> method[i] = "manual"
                       /\ Entries[i].product = product[i]
                       /\ Entries[i].ean = NormalizeEAN(ean[i])
  BY DEF Matchable, Entries, Active

LEMMA TypeOKNumbered == TypeOK => Numbered
  BY ProductsAssumption DEF ProductsAssumption, TypeOK, Numbered

LEMMA RootsAreGroupings ==
  /\ Sound(Entries, MatchRoots(Entries))
  /\ Grouping(MatchRoots(Entries)) /\ DOMAIN MatchRoots(Entries) = Active
<1>1. Sound(Entries, MatchRoots(Entries))
  BY EntriesMatchable, RootsSound, StepsType DEF MatchRoots
<1>2. MatchRoots(Entries) \in [Active -> Active] /\ Active \subseteq Listings
  BY <1>1, EntriesMatchable DEF Sound, Active
<1> QED
  BY <1>1, <1>2 DEF Grouping

LEMMA InitProductsInv == Init => ProductsInv
<1> SUFFICES ASSUME Init PROVE ProductsInv
  OBVIOUS
<1>1. PICK S \in SUBSET Listings : listing = [i \in Listings |-> IF i \in S THEN "active" ELSE "unknown"]
  BY DEF Init
<1>2. DOMAIN products = {}
  BY DEF Init
<1>3. TypeOK
  <2>1. listing \in [Listings -> {"unknown", "active", "removed"}]
    BY <1>1
  <2>2. {product[i] : i \in Listings} \ {0} = {}
    BY DEF Init
  <2>3. \A i \in Listings : method[i] = None /\ ean[i] = <<>>
    BY DEF Init
  <2>4. product \in [Listings -> 0 .. MaxProduct] /\ method \in [Listings -> {"ean", "name", "manual", None}]
    BY ProductsAssumption DEF ProductsAssumption, Init
  <2> QED
    BY <1>2, <2>1, <2>2, <2>3, <2>4 DEF TypeOK, Init
<1>4. Tables
  BY <1>2 DEF Tables, Init
<1>5. ByHand /\ EditsHold /\ FreshIsCurrent
  BY DEF ByHand, EditsHold, LinkHolds, UnlinkHolds, FreshIsCurrent, Init
<1> QED
  BY <1>3, <1>4, <1>5 DEF ProductsInv

\* Changes of what shops list, and of what the review hides.
LEMMA ShopChangeKeepsInv ==
  ASSUME ProductsInv, NEW i \in Listings, Appears(i) \/ Disappears(i) \/ RecordEAN(i)
  PROVE  ProductsInv'
<1>1. UNCHANGED <<table, linked, parted, pinned, dismissed>> /\ fresh' = FALSE
  BY DEF Appears, Disappears, RecordEAN
<1>2. TypeOK' /\ Tables'
  <2>1. listing' \in [Listings -> {"unknown", "active", "removed"}]
    BY DEF ProductsInv, TypeOK, Appears, Disappears, RecordEAN
  <2>2. DOMAIN ean' = Listings /\ \A j \in Listings : ean'[j] \in {<<>>, Barcode[j]}
    BY DEF ProductsInv, Tables, TypeOK, Appears, Disappears, RecordEAN
  <2> QED
    BY <1>1, <2>1, <2>2 DEF ProductsInv, TypeOK, Tables, table
<1>3. ByHand' /\ EditsHold'
  BY <1>1 DEF ProductsInv, ByHand, EditsHold, LinkHolds, UnlinkHolds, table
<1> QED
  BY <1>1, <1>2, <1>3 DEF ProductsInv, FreshIsCurrent

LEMMA ReviewKeepsInv ==
  ASSUME ProductsInv,
         \/ \E p \in Judged : DismissMatch(p) \/ RestoreMatch(p)
         \/ UNCHANGED vars
  PROVE  ProductsInv'
<1>1. UNCHANGED <<table, shopVars, fresh, linked, parted, pinned>>
  BY DEF DismissMatch, RestoreMatch, vars, history
<1>2. dismissed' \subseteq {p \in Listings \X Listings : p[1] < p[2]}
  <2>1. ASSUME NEW p \in Judged, DismissMatch(p)
        PROVE  Sorted(p) \in {q \in Listings \X Listings : q[1] < q[2]}
    <3>1. PICK a \in Listings, b \in Listings : p = <<a, b>>
      BY ProductsAssumption DEF ProductsAssumption
    <3>2. a # b /\ a \in Nat /\ b \in Nat
      BY <2>1, <3>1, IdsAssumption DEF DismissMatch, IdsAssumption
    <3> QED
      BY <3>1, <3>2 DEF Sorted
  <2> QED
    BY <2>1 DEF ProductsInv, TypeOK, DismissMatch, RestoreMatch, vars
<1>3. TypeOK' /\ Tables' /\ ByHand' /\ EditsHold'
  BY <1>1, <1>2 DEF ProductsInv, TypeOK, Tables, ByHand, EditsHold, LinkHolds, UnlinkHolds, table, shopVars
<1>4. FreshIsCurrent'
  <2>1. Entries' = Entries /\ Active' = Active
    BY <1>1 DEF Entries, Active, table, shopVars
  <2> QED
    BY <1>1, <2>1 DEF ProductsInv, FreshIsCurrent, Current, table
<1> QED
  BY <1>3, <1>4 DEF ProductsInv

-----------------------------------------------------------------------------
(* Edits by hand.                                                          *)

\* Pruning leaves a row for each product that is in use, and no other.
LEMMA PrunedTables ==
  ASSUME NEW rows, NEW prod \in [Listings -> 0 .. MaxProduct],
         \A i \in Listings : prod[i] # 0 => prod[i] \in DOMAIN rows,
         0 \notin DOMAIN rows
  PROVE  /\ DOMAIN Pruned(rows, prod) = {prod[i] : i \in Listings} \ {0}
         /\ Pruned(rows, prod) = [p \in DOMAIN Pruned(rows, prod) |-> Pruned(rows, prod)[p]]
         /\ \A p \in DOMAIN Pruned(rows, prod) : Pruned(rows, prod)[p] = rows[p]
  BY DEF Pruned

LEMMA TablesKept ==
  ASSUME TypeOK, Tables, UNCHANGED <<listing, ean, dismissed>>,
         product' \in [Listings -> 0 .. MaxProduct],
         method' \in [Listings -> {"ean", "name", "manual", None}],
         \A i \in Listings : method'[i] # None => product'[i] # 0,
         NEW rows, products' = Pruned(rows, product'),
         \A i \in Listings : product'[i] # 0 => product'[i] \in DOMAIN rows,
         0 \notin DOMAIN rows
  PROVE  TypeOK' /\ Tables'
<1>1. /\ DOMAIN products' = {product'[i] : i \in Listings} \ {0}
      /\ products' = [p \in DOMAIN products' |-> products'[p]]
  BY PrunedTables
<1>2. TypeOK'
  BY <1>1 DEF TypeOK
<1> QED
  BY <1>1, <1>2 DEF Tables

LEMMA LinkKeepsInv ==
  ASSUME ProductsInv, NEW a \in Listings, NEW b \in Listings, Link(a, b)
  PROVE  ProductsInv'
<1> DEFINE prod == [product EXCEPT ![b] = product[a]]
<1>1. /\ product' = prod
      /\ method' = [method EXCEPT ![a] = "manual", ![b] = "manual"]
      /\ products' = Pruned(products, prod)
      /\ UNCHANGED <<listing, ean, dismissed>> /\ fresh' = FALSE
      /\ product[a] # 0
  BY DEF Link, Grouped, shopVars
<1>2. prod \in [Listings -> 0 .. MaxProduct] /\ \A i \in Listings : prod[i] = IF i = b THEN product[a] ELSE product[i]
  BY DEF ProductsInv, TypeOK
<1> HIDE DEF prod
<1>3. /\ \A i \in Listings : prod[i] # 0 => prod[i] \in DOMAIN products
      /\ 0 \notin DOMAIN products
  BY <1>2 DEF ProductsInv, TypeOK
<1>4. /\ method' \in [Listings -> {"ean", "name", "manual", None}]
      /\ \A i \in Listings : method'[i] = IF i \in {a, b} THEN "manual" ELSE method[i]
  BY <1>1 DEF ProductsInv, TypeOK
<1>5. \A i \in Listings : method'[i] # None => product'[i] # 0
  BY <1>1, <1>2, <1>4 DEF ProductsInv, TypeOK
<1>6. TypeOK' /\ Tables'
  BY <1>1, <1>2, <1>3, <1>4, <1>5, TablesKept DEF ProductsInv
<1>7. CASE a = b
  <2>1. UNCHANGED <<linked, parted, pinned>>
    BY <1>7 DEF Link
  <2>2. \A i \in Listings : product'[i] = product[i]
    BY <1>1, <1>2, <1>7
  <2>3. LinkHolds'
    BY <2>1, <2>2 DEF ProductsInv, ByHand, EditsHold, LinkHolds
  <2>4. UnlinkHolds'
    BY <2>1, <2>2 DEF ProductsInv, ByHand, EditsHold, UnlinkHolds
  <2>5. ByHand'
    BY <1>4, <2>1 DEF ProductsInv, ByHand
  <2> QED
    BY <1>1, <1>6, <2>3, <2>4, <2>5 DEF ProductsInv, EditsHold, FreshIsCurrent
<1>8. CASE a # b
  <2>1. /\ linked' = {p \in linked : b \notin p} \cup {{a, b}}
        /\ parted' = {p \in parted : b \notin p}
        /\ pinned' = pinned \ {a, b}
    BY <1>8 DEF Link
  <2>2. LinkHolds'
    <3> SUFFICES ASSUME NEW p \in linked' \ parted', NEW i \in p, NEW j \in p
                 PROVE  product'[i] = product'[j]
      BY DEF LinkHolds
    <3>1. CASE p = {a, b}
      BY <1>1, <1>2, <3>1
    <3>2. CASE p # {a, b}
      <4>1. p \in linked \ parted /\ b \notin p /\ i \in Listings /\ j \in Listings
        BY <2>1, <3>2 DEF ProductsInv, ByHand
      <4> QED
        BY <1>1, <1>2, <4>1 DEF ProductsInv, EditsHold, LinkHolds
    <3> QED
      BY <3>1, <3>2
  <2>3. UnlinkHolds'
    <3> SUFFICES ASSUME NEW i \in pinned', NEW j \in Listings \ {i}
                 PROVE  product'[j] # product'[i]
      BY DEF UnlinkHolds
    <3>1. i \in pinned /\ i \in Listings /\ i # a /\ i # b
      BY <2>1 DEF ProductsInv, ByHand
    <3> QED
      BY <1>1, <1>2, <3>1 DEF ProductsInv, EditsHold, UnlinkHolds
  <2>4. ByHand'
    <3>1. linked' \subseteq SUBSET Listings /\ pinned' \subseteq Listings
      BY <2>1 DEF ProductsInv, ByHand
    <3>2. ASSUME NEW i \in pinned' \cup UNION linked' PROVE method'[i] = "manual"
      <4>1. i \in Listings /\ (i \in {a, b} \/ i \in pinned \cup UNION linked)
        BY <2>1, <3>1
      <4> QED
        BY <1>4, <4>1 DEF ProductsInv, ByHand
    <3> QED
      BY <3>1, <3>2 DEF ByHand
  <2> QED
    BY <1>1, <1>6, <2>2, <2>3, <2>4 DEF ProductsInv, EditsHold, FreshIsCurrent
<1> QED
  BY <1>7, <1>8

LEMMA UnlinkKeepsInv ==
  ASSUME ProductsInv, NEW i \in Listings, Unlink(i)
  PROVE  ProductsInv'
<1> DEFINE pid == NextId(DOMAIN products)
           prod == [product EXCEPT ![i] = pid]
           rows == [p \in DOMAIN products \cup {pid} |->
                       IF p = pid THEN [name |-> i, grade |-> Grade[i]] ELSE products[p]]
<1>1. /\ product' = prod /\ pid <= MaxProduct
      /\ method' = [method EXCEPT ![i] = "manual"]
      /\ products' = Pruned(rows, prod)
      /\ linked' = {p \in linked : i \notin p} /\ parted' = {p \in parted : i \notin p}
      /\ pinned' = pinned \cup {i}
      /\ UNCHANGED <<listing, ean, dismissed>> /\ fresh' = FALSE
  BY DEF Unlink, Pin, shopVars
<1>2. pid \in Nat \ {0} /\ pid \notin DOMAIN products
  BY TypeOKNumbered, RowsAreFinite, NextIdIsNew DEF ProductsInv
<1> HIDE DEF pid
<1>3. /\ prod \in [Listings -> 0 .. MaxProduct]
      /\ \A j \in Listings : prod[j] = IF j = i THEN pid ELSE product[j]
  BY <1>1, <1>2, ProductsAssumption DEF ProductsAssumption, ProductsInv, TypeOK
<1>4. DOMAIN rows = DOMAIN products \cup {pid}
  OBVIOUS
<1> HIDE DEF prod, rows
<1>5. /\ \A j \in Listings : prod[j] # 0 => prod[j] \in DOMAIN rows
      /\ 0 \notin DOMAIN rows
  BY <1>2, <1>3, <1>4 DEF ProductsInv, TypeOK
<1>6. \A j \in Listings : product[j] # pid
  BY <1>2 DEF ProductsInv, TypeOK
<1>7. /\ method' \in [Listings -> {"ean", "name", "manual", None}]
      /\ \A j \in Listings : method'[j] = IF j = i THEN "manual" ELSE method[j]
  BY <1>1 DEF ProductsInv, TypeOK
<1>8. \A j \in Listings : method'[j] # None => product'[j] # 0
  BY <1>1, <1>2, <1>3, <1>7 DEF ProductsInv, TypeOK
<1>9. TypeOK' /\ Tables'
  BY <1>1, <1>3, <1>5, <1>7, <1>8, TablesKept DEF ProductsInv
<1>10. LinkHolds'
  <2> SUFFICES ASSUME NEW p \in linked' \ parted', NEW j \in p, NEW k \in p
               PROVE  product'[j] = product'[k]
    BY DEF LinkHolds
  <2>1. p \in linked \ parted /\ i \notin p /\ j \in Listings /\ k \in Listings
    BY <1>1 DEF ProductsInv, ByHand
  <2> QED
    BY <1>1, <1>3, <2>1 DEF ProductsInv, EditsHold, LinkHolds
<1>11. UnlinkHolds'
  <2> SUFFICES ASSUME NEW j \in pinned', NEW k \in Listings \ {j}
               PROVE  product'[k] # product'[j]
    BY DEF UnlinkHolds
  <2>1. j \in Listings /\ (j = i \/ j \in pinned)
    BY <1>1 DEF ProductsInv, ByHand
  <2> QED
    BY <1>1, <1>3, <1>6, <2>1 DEF ProductsInv, EditsHold, UnlinkHolds
<1>12. ByHand'
  <2>1. linked' \subseteq SUBSET Listings /\ pinned' \subseteq Listings
    BY <1>1 DEF ProductsInv, ByHand
  <2>2. ASSUME NEW j \in pinned' \cup UNION linked' PROVE method'[j] = "manual"
    <3>1. j \in Listings /\ (j = i \/ j \in pinned \cup UNION linked)
      BY <1>1, <2>1
    <3> QED
      BY <1>7, <3>1 DEF ProductsInv, ByHand
  <2> QED
    BY <2>1, <2>2 DEF ByHand
<1> QED
  BY <1>1, <1>9, <1>10, <1>11, <1>12 DEF ProductsInv, EditsHold, FreshIsCurrent

-----------------------------------------------------------------------------
(* Regroup.                                                                *)

\* The groups and the ids a Regroup works with.
GroupsNow == MatchRoots(Entries)
PlanNow == Plan(GroupsNow)

LEMMA RegroupWrites ==
  ASSUME ProductsInv, Regroup
  PROVE  /\ \A i \in Active : product'[i] = PlanNow[i] /\ method'[i] = Method(Entries, GroupsNow, i)
         /\ \A i \in Listings \ Active : product'[i] = product[i] /\ method'[i] = method[i]
         /\ product' \in [Listings -> 0 .. MaxProduct]
         /\ DOMAIN method' = Listings
         /\ \A i \in Active : products'[product'[i]] = Canonical({j \in Active : product'[j] = product'[i]})
         /\ \A i \in Listings \ Active :
              product[i] # 0 /\ (\A j \in Active : product'[j] # product[i])
                => products'[product[i]] = products[product[i]]
         /\ fresh' = TRUE
         /\ parted' = parted \cup {p \in linked : ~ (p \subseteq Active)}
         /\ UNCHANGED <<shopVars, dismissed, linked, pinned>>
         /\ TypeOK' /\ Tables'
<1> DEFINE plan == PlanNow
           planned == {plan[i] : i \in Active}
           prod == [i \in Listings |-> IF i \in Active THEN plan[i] ELSE product[i]]
           rows == [p \in DOMAIN products \cup planned |->
                       IF p \in planned THEN Canonical({i \in Active : plan[i] = p}) ELSE products[p]]
<1>1. /\ planned \subseteq 1 .. MaxProduct
      /\ product' = prod
      /\ method' = [i \in Listings |-> IF i \in Active THEN Method(Entries, GroupsNow, i) ELSE method[i]]
      /\ products' = Pruned(rows, prod)
      /\ fresh' = TRUE
      /\ parted' = parted \cup {p \in linked : ~ (p \subseteq Active)}
      /\ UNCHANGED <<shopVars, dismissed, linked, pinned>>
  BY DEF Regroup, GroupsNow, PlanNow
<1>2. Active \subseteq Listings
  BY DEF Active
<1> HIDE DEF plan
<1>3. \A i \in Active : plan[i] \in 1 .. MaxProduct
  BY <1>1
<1>4. /\ \A i \in Active : prod[i] = plan[i] /\ prod[i] \in planned
      /\ \A i \in Listings \ Active : prod[i] = product[i]
      /\ prod \in [Listings -> 0 .. MaxProduct]
  BY <1>2, <1>3, ProductsAssumption DEF ProductsAssumption, ProductsInv, TypeOK
<1>5. /\ DOMAIN rows = DOMAIN products \cup planned
      /\ \A p \in planned : rows[p] = Canonical({i \in Active : plan[i] = p})
      /\ \A p \in DOMAIN products \ planned : rows[p] = products[p]
  OBVIOUS
<1>6. \A i \in Active : {j \in Active : plan[j] = plan[i]} = {j \in Active : prod[j] = prod[i]}
  BY <1>4
<1>7. DOMAIN products \subseteq Nat \ {0} /\ \A i \in Listings : product[i] # 0 => product[i] \in DOMAIN products
  BY ProductsAssumption DEF ProductsAssumption, ProductsInv, TypeOK
<1> HIDE DEF rows, prod
<1>8. /\ \A i \in Listings : prod[i] # 0 => prod[i] \in DOMAIN rows
      /\ 0 \notin DOMAIN rows
  BY <1>1, <1>2, <1>3, <1>4, <1>5, <1>7
<1>9. /\ \A i \in Active : method'[i] = Method(Entries, GroupsNow, i)
      /\ \A i \in Listings \ Active : method'[i] = method[i]
      /\ method' \in [Listings -> {"ean", "name", "manual", None}]
  BY <1>1, <1>2 DEF ProductsInv, TypeOK, Method
<1>10. \A i \in Listings : method'[i] # None => product'[i] # 0
  BY <1>1, <1>3, <1>4, <1>9 DEF ProductsInv, TypeOK
<1>11. TypeOK' /\ Tables'
  BY <1>1, <1>4, <1>8, <1>9, <1>10, TablesKept DEF ProductsInv, shopVars
<1>12. /\ DOMAIN products' = {prod[i] : i \in Listings} \ {0}
       /\ \A p \in DOMAIN products' : products'[p] = rows[p]
  <2>1. prod \in [Listings -> 0 .. MaxProduct]
    BY <1>4
  <2>2. /\ DOMAIN Pruned(rows, prod) = {prod[i] : i \in Listings} \ {0}
        /\ \A p \in DOMAIN Pruned(rows, prod) : Pruned(rows, prod)[p] = rows[p]
    BY <1>8, <2>1, PrunedTables
  <2> QED
    BY <1>1, <2>2
<1>13. ASSUME NEW i \in Active
       PROVE  products'[product'[i]] = Canonical({j \in Active : product'[j] = product'[i]})
  <2>1. prod[i] \in DOMAIN products' /\ prod[i] \in planned
    BY <1>2, <1>3, <1>4, <1>12
  <2>2. products'[prod[i]] = Canonical({j \in Active : plan[j] = plan[i]})
    BY <1>4, <1>5, <1>12, <2>1
  <2> QED
    BY <1>1, <1>6, <2>2
<1>14. ASSUME NEW i \in Listings \ Active, product[i] # 0, \A j \in Active : product'[j] # product[i]
       PROVE  products'[product[i]] = products[product[i]]
  <2>1. product[i] \in DOMAIN products /\ product[i] \notin planned
    BY <1>1, <1>4, <1>7, <1>14
  <2>2. product[i] \in DOMAIN products'
    BY <1>4, <1>12, <1>14
  <2> QED
    BY <1>5, <1>12, <2>1, <2>2
<1> QED
  BY <1>1, <1>4, <1>9, <1>11, <1>13, <1>14 DEF plan

\* The plan, as far as it concerns the listings on sale.
LEMMA PlanNowFits ==
  ASSUME ProductsInv
  PROVE  /\ \A i \in Active : PlanNow[i] \in Nat \ {0}
         /\ \A i, j \in Active : PlanNow[i] = PlanNow[j] <=> GroupsNow[i] = GroupsNow[j]
         /\ \A i \in Active : \/ PlanNow[i] \notin DOMAIN products
                              \/ \E j \in Active : GroupsNow[j] = GroupsNow[i] /\ PlanNow[i] = product[j]
<1>1. Grouping(GroupsNow) /\ DOMAIN GroupsNow = Active /\ Numbered
  BY RootsAreGroupings, TypeOKNumbered DEF GroupsNow, ProductsInv
<1>2. ASSUME NEW i \in Active, PlanNow[i] \in Ids(GroupsNow, i)
      PROVE  \E j \in Active : GroupsNow[j] = GroupsNow[i] /\ PlanNow[i] = product[j]
  BY <1>1, <1>2 DEF Ids, GroupOf
<1> QED
  BY <1>1, <1>2, PlanFits DEF PlanNow

LEMMA ManualGroups ==
  /\ \A i, j \in Active : method[i] = "manual" =>
       (GroupsNow[i] = GroupsNow[j] <=> method[j] = "manual" /\ product[j] = product[i])
  /\ \A i, j \in Active : i # j /\ method[i] # "manual" /\ GroupsNow[i] = GroupsNow[j] => Shop[i] # Shop[j]
<1> DEFINE es == Entries
<1>1. /\ \A i, j \in Active : es[i].manual =>
           (GroupsNow[i] = GroupsNow[j] <=> es[j].manual /\ es[j].product = es[i].product)
      /\ \A i, j \in Active : i # j /\ ~es[i].manual /\ GroupsNow[i] = GroupsNow[j] => Shop[i] # Shop[j]
  BY RootsAreGroupings, EntriesMatchable DEF Sound, GroupsNow
<1> HIDE DEF es
<1>2. \A i \in Active : (es[i].manual <=> method[i] = "manual") /\ es[i].product = product[i]
  BY EntriesMatchable DEF es
<1> QED
  BY <1>1, <1>2

\* A Regroup changes nothing that is manual into something that is not, or back.
LEMMA RegroupKeepsManual ==
  ASSUME ProductsInv, Regroup
  PROVE  \A i \in Listings : method'[i] = "manual" <=> method[i] = "manual"
<1>1. \A i \in Active : method'[i] = Method(Entries, GroupsNow, i)
  BY RegroupWrites
<1>2. \A i \in Active : Method(Entries, GroupsNow, i) = "manual" <=> method[i] = "manual"
  BY EntriesMatchable DEF Method, None
<1>3. \A i \in Listings \ Active : method'[i] = method[i]
  BY RegroupWrites
<1> QED
  BY <1>1, <1>2, <1>3

LEMMA RegroupKeepsEdits ==
  ASSUME ProductsInv, Regroup
  PROVE  ByHand' /\ EditsHold'
<1>1. ByHand'
  <2>1. UNCHANGED <<linked, pinned>>
    BY RegroupWrites
  <2>2. ByHand
    BY DEF ProductsInv
  <2>3. pinned \cup UNION linked \subseteq Listings
    BY <2>2 DEF ByHand
  <2> QED
    BY <2>1, <2>2, <2>3, RegroupKeepsManual DEF ByHand
<1>2. LinkHolds'
  <2> SUFFICES ASSUME NEW p \in linked' \ parted', NEW i \in p, NEW j \in p
               PROVE  product'[i] = product'[j]
    BY DEF LinkHolds
  <2>1. p \in linked \ parted /\ p \subseteq Active
    BY RegroupWrites
  <2>2. i \in Active /\ j \in Active /\ method[i] = "manual" /\ method[j] = "manual" /\ product[i] = product[j]
    BY <2>1 DEF ProductsInv, ByHand, EditsHold, LinkHolds
  <2>3. PlanNow[i] = PlanNow[j]
    BY <2>2, ManualGroups, PlanNowFits
  <2> QED
    BY <2>2, <2>3, RegroupWrites
<1>3. UnlinkHolds'
  <2> SUFFICES ASSUME NEW i \in pinned', NEW j \in Listings \ {i}
               PROVE  product'[j] # product'[i]
    BY DEF UnlinkHolds
  <2>1. /\ i \in pinned /\ i \in Listings /\ method[i] = "manual"
        /\ \A k \in Listings \ {i} : product[k] # product[i]
    BY RegroupWrites DEF ProductsInv, ByHand, EditsHold, UnlinkHolds
  <2>2. product[i] # 0 /\ \A k \in Listings : product[k] # 0 => product[k] \in DOMAIN products
    BY <2>1 DEF ProductsInv, TypeOK, None
  <2>3. \A k \in Active : k # i /\ i \in Active => GroupsNow[i] # GroupsNow[k]
    BY <2>1, ManualGroups DEF Active
  <2>4. CASE i \in Active /\ j \in Active
    BY <2>3, <2>4, PlanNowFits, RegroupWrites
  <2>5. CASE i \in Active /\ j \notin Active
    <3>1. PlanNow[i] # 0 /\ (PlanNow[i] \notin DOMAIN products \/ PlanNow[i] = product[i])
      BY <2>3, <2>5, PlanNowFits
    <3>2. product'[j] = product[j] /\ product'[i] = PlanNow[i]
      BY <2>5, RegroupWrites
    <3> QED
      BY <2>1, <2>2, <3>1, <3>2
  <2>6. CASE i \notin Active /\ j \in Active
    <3>1. PlanNow[j] \notin DOMAIN products \/ \E k \in Active : PlanNow[j] = product[k]
      BY <2>6, PlanNowFits
    <3>2. product'[i] = product[i] /\ product'[j] = PlanNow[j]
      BY <2>1, <2>6, RegroupWrites
    <3>3. \A k \in Active : k \in Listings /\ k # i
      BY <2>6 DEF Active
    <3> QED
      BY <2>1, <2>2, <3>1, <3>2, <3>3
  <2>7. CASE i \notin Active /\ j \notin Active
    BY <2>1, <2>7, RegroupWrites
  <2> QED
    BY <2>4, <2>5, <2>6, <2>7
<1> QED
  BY <1>1, <1>2, <1>3 DEF EditsHold

\* After a Regroup the products are the groups, and matching again gives the same.
LEMMA RegroupIsCurrent ==
  ASSUME ProductsInv, Regroup
  PROVE  Current'
<1> DEFINE es == Entries
           fs == Entries'
<1>1. Active' = Active /\ ean' = ean
  BY RegroupWrites DEF Active, shopVars
<1>2. DOMAIN fs = Active
  BY <1>1 DEF Entries
<1>3. \A i \in Active : /\ fs[i].ean = NormalizeEAN(ean[i])
                        /\ fs[i].product = product'[i]
                        /\ fs[i].manual = (method'[i] = "manual")
  BY <1>1 DEF Entries
<1>4. \A i \in Active : /\ es[i].ean = NormalizeEAN(ean[i])
                        /\ es[i].product = product[i]
                        /\ es[i].manual = (method[i] = "manual")
  BY DEF Entries
<1>5. DOMAIN es = Active /\ Matchable(es)
  BY EntriesMatchable
<1> HIDE DEF es, fs
<1>6. \A i \in Active : fs[i].ean = es[i].ean /\ fs[i].manual = es[i].manual
  BY <1>3, <1>4, RegroupKeepsManual DEF Active
<1>7. \A i, j \in Active : product'[i] = product'[j] <=> GroupsNow[i] = GroupsNow[j]
  BY PlanNowFits, RegroupWrites
<1>8. \A i, j \in Active :
        es[i].manual /\ es[j].manual => (fs[i].product = fs[j].product <=> es[i].product = es[j].product)
  <2> SUFFICES ASSUME NEW i \in Active, NEW j \in Active, es[i].manual, es[j].manual
               PROVE  fs[i].product = fs[j].product <=> es[i].product = es[j].product
    OBVIOUS
  <2>1. method[i] = "manual" /\ method[j] = "manual"
    BY <1>4
  <2>2. GroupsNow[i] = GroupsNow[j] <=> product[i] = product[j]
    BY <2>1, ManualGroups
  <2>3. product'[i] = product'[j] <=> GroupsNow[i] = GroupsNow[j]
    BY <1>7
  <2>4. fs[i].product = product'[i] /\ fs[j].product = product'[j]
    BY <1>3
  <2>5. es[i].product = product[i] /\ es[j].product = product[j]
    BY <1>4
  <2> QED
    BY <2>2, <2>3, <2>4, <2>5
<1>9. ManualRoots(fs) = ManualRoots(es)
  BY <1>2, <1>5, <1>6, <1>8, SameManualRoots
<1>10. /\ \A n \in 0 .. Steps : Roots(fs)[n] = Roots(es)[n]
       /\ \A root : \A i \in Active : Method(fs, root, i) = Method(es, root, i)
  BY <1>2, <1>5, <1>6, <1>9, SameMatch
<1>11. MatchRoots(fs) = GroupsNow
  BY <1>10, StepsType DEF MatchRoots, GroupsNow, es
<1>12. \A i \in Active : /\ product'[i] # 0
                         /\ method'[i] = Method(fs, GroupsNow, i)
                         /\ products'[product'[i]] = Canonical({j \in Active : product'[j] = product'[i]})
  BY <1>10, PlanNowFits, RegroupWrites DEF es
<1> QED
  BY <1>1, <1>7, <1>11, <1>12 DEF Current, fs

-----------------------------------------------------------------------------
(* The theorems.                                                           *)

LEMMA StepKeepsProductsInv == ProductsInv /\ [Next]_vars => ProductsInv'
<1> SUFFICES ASSUME ProductsInv, [Next]_vars PROVE ProductsInv'
  OBVIOUS
<1>1. CASE Regroup
  <2>1. TypeOK' /\ Tables' /\ ByHand' /\ EditsHold' /\ Current'
    BY <1>1, RegroupWrites, RegroupKeepsEdits, RegroupIsCurrent
  <2> QED
    BY <2>1 DEF ProductsInv, FreshIsCurrent
<1>2. ASSUME NEW i \in Listings, Appears(i) \/ Disappears(i) \/ RecordEAN(i)
      PROVE  ProductsInv'
  BY <1>2, ShopChangeKeepsInv
<1>3. ASSUME NEW i \in Listings, Unlink(i) PROVE ProductsInv'
  BY <1>3, UnlinkKeepsInv
<1>4. ASSUME NEW a \in Listings, NEW b \in Listings, Link(a, b) PROVE ProductsInv'
  BY <1>4, LinkKeepsInv
<1>5. CASE \/ \E p \in Judged : DismissMatch(p) \/ RestoreMatch(p)
           \/ UNCHANGED vars
  BY <1>5, ReviewKeepsInv
<1> QED
  BY <1>1, <1>2, <1>3, <1>4, <1>5 DEF Next

LEMMA AlwaysProductsInv == Spec => []ProductsInv
  BY InitProductsInv, StepKeepsProductsInv, PTL DEF Spec

\* Every variable keeps its type, and products are those that have a listing
\* (Link, Unlink, Regroup, PruneProducts).
THEOREM TypeCorrect == Spec => []TypeOK
<1>1. ProductsInv => TypeOK
  BY DEF ProductsInv
<1> QED
  BY <1>1, AlwaysProductsInv, PTL

\* What was linked by hand stays together while it is on sale, and what was
\* unlinked stays alone, whatever Regroup makes of the rest (assign.go).
THEOREM EditsOutlastRegroup == Spec => []EditsHold
<1>1. ProductsInv => EditsHold
  BY DEF ProductsInv
<1> QED
  BY <1>1, AlwaysProductsInv, PTL

LEMMA FreshProducts ==
  ASSUME ProductsInv, fresh
  PROVE  /\ \A i, j \in Active : product[i] = product[j] <=> GroupsNow[i] = GroupsNow[j]
         /\ \A i \in Active : /\ product[i] # 0
                              /\ method[i] = Method(Entries, GroupsNow, i)
                              /\ products[product[i]] = Canonical({j \in Active : product[j] = product[i]})
  BY DEF ProductsInv, FreshIsCurrent, Current, GroupsNow

\* No automatic group has two listings of one shop (dsu.union).
THEOREM ShopsStayApart == Spec => []OneListingPerShop
<1>1. ProductsInv => OneListingPerShop
  <2> SUFFICES ASSUME ProductsInv, fresh, NEW i \in Active, NEW j \in Active,
                      i # j, product[i] = product[j], Automatic(i) \/ Automatic(j)
               PROVE  Shop[i] # Shop[j] /\ Automatic(i) /\ Automatic(j)
    BY DEF OneListingPerShop
  <2>1. GroupsNow[i] = GroupsNow[j]
    BY FreshProducts
  <2>2. method[i] # "manual" /\ method[j] # "manual"
    BY <2>1, ManualGroups DEF Automatic
  <2> QED
    BY <2>1, <2>2, ManualGroups DEF Automatic
<1> QED
  BY <1>1, AlwaysProductsInv, PTL

\* Equal barcodes meet, however many shops and listings share one (Match).
THEOREM BarcodesMeet == Spec => []BarcodesJoin
<1>1. ProductsInv => BarcodesJoin
  <2> SUFFICES ASSUME ProductsInv, fresh PROVE BarcodesJoin
    BY DEF BarcodesJoin
  <2> DEFINE same(i) == {j \in Active : Automatic(j) /\ NormalizeEAN(ean[j]) = NormalizeEAN(ean[i])}
  <2> SUFFICES ASSUME NEW i \in Active, i \in same(i), NormalizeEAN(ean[i]) # NoBarcode
               PROVE  \/ product[i] = product[Least(same(i))]
                      \/ \E k \in same(i) : Shop[k] = Shop[i] /\ product[k] = product[Least(same(i))]
    BY DEF BarcodesJoin
  <2>1. Barcoded(Entries, i) = same(i)
    BY EntriesMatchable DEF Barcoded, Automatic
  <2>2. JoinsFirst(Entries, GroupsNow, i)
    BY <2>1, EntriesMatchable, MatchJoinsBarcodes DEF GroupsNow
  <2>3. Least(same(i)) \in Active
    BY <2>1, EntriesMatchable, FirstBarcoded
  <2>4. \A k \in same(i) : k \in Active
    OBVIOUS
  <2> HIDE DEF same
  <2> QED
    BY <2>1, <2>2, <2>3, <2>4, FreshProducts DEF JoinsFirst
<1> QED
  BY <1>1, AlwaysProductsInv, PTL

\* The review page and match list only what is in two products (Review, Match).
THEOREM ReviewListsWhatIsApart == Spec => []ReviewIsApart
<1>1. ProductsInv => ReviewIsApart
  <2> SUFFICES ASSUME ProductsInv, fresh PROVE ReviewIsApart
    BY DEF ReviewIsApart
  <2>1. ASSUME NEW it \in NearMisses(TRUE) PROVE product[it.a] # product[it.b]
    <3>1. it \in ReviewItems(Entries)
      BY DEF NearMisses
    <3>2. PICK p \in (DOMAIN Entries) \X (DOMAIN Entries) :
            it.a = p[1] /\ it.b = p[2] /\ Reviewable(Entries, MatchRoots(Entries), p[1], p[2])
      BY <3>1 DEF ReviewItems
    <3>3. GroupsNow[it.a] # GroupsNow[it.b] /\ it.a \in Active /\ it.b \in Active
      BY <3>2, EntriesMatchable DEF Reviewable, GroupsNow
    <3> QED
      BY <3>3, FreshProducts
  <2>2. ASSUME NEW p \in Suggestions(Entries) PROVE product[p[1]] # product[p[2]]
    <3>1. /\ Comparable(Entries, p)
          /\ GroupsNow[p[1]] # GroupsNow[p[2]]
      <4>1. PICK k \in 1 .. Cardinality(NearPairs) : p = AllPairs[k] /\ Suggested(Entries, GroupsNow, k)
        BY DEF Suggestions, GroupsNow
      <4> QED
        BY <4>1 DEF Suggested, Declined
    <3>2. p[1] \in Active /\ p[2] \in Active
      BY <3>1, EntriesMatchable DEF Comparable
    <3> QED
      BY <3>1, <3>2, FreshProducts
  <2> QED
    BY <2>1, <2>2 DEF ReviewIsApart
<1> QED
  BY <1>1, AlwaysProductsInv, PTL

\* A second Regroup with nothing new writes what is there: ids that pages and
\* links hold do not drift (plan).
THEOREM RegroupingIsStable == Spec => RegroupIsStable
<1>1. ASSUME ProductsInv, [Next]_vars, fresh, fresh'
      PROVE  UNCHANGED table
  <2>1. CASE Regroup
    <3>1. \A i \in Active : PlanNow[i] = product[i]
      <4>1. Grouping(GroupsNow) /\ DOMAIN GroupsNow = Active /\ Numbered
        BY <1>1, RootsAreGroupings, TypeOKNumbered DEF GroupsNow, ProductsInv
      <4> QED
        BY <1>1, <4>1, FreshProducts, PlanStays DEF PlanNow
    <3>2. \A i \in Listings : product'[i] = product[i] /\ method'[i] = method[i]
      BY <1>1, <2>1, <3>1, RegroupWrites, FreshProducts
    <3>3. product' = product
      BY <1>1, <2>1, <3>2, RegroupWrites DEF ProductsInv, TypeOK
    <3>4. method' = method
      <4>1. method' \in [Listings -> {"ean", "name", "manual", None}]
        BY <1>1, <2>1, RegroupWrites DEF TypeOK
      <4> QED
        BY <1>1, <3>2, <4>1 DEF ProductsInv, TypeOK
    <3>5. DOMAIN products' = DOMAIN products /\ products' = [p \in DOMAIN products' |-> products'[p]]
      BY <1>1, <2>1, <3>3, RegroupWrites DEF ProductsInv, TypeOK, Tables
    <3>6. ASSUME NEW p \in DOMAIN products PROVE products'[p] = products[p]
      <4>1. PICK i \in Listings : p = product[i] /\ product[i] # 0
        BY <1>1 DEF ProductsInv, TypeOK
      <4>2. CASE \E j \in Active : product[j] = p
        <5>1. PICK j \in Active : product[j] = p
          BY <4>2
        <5>2. products'[p] = Canonical({k \in Active : product[k] = p})
          BY <1>1, <2>1, <3>3, <5>1, RegroupWrites
        <5>3. products[p] = Canonical({k \in Active : product[k] = p})
          BY <1>1, <5>1, FreshProducts
        <5> QED
          BY <5>2, <5>3
      <4>3. CASE \A j \in Active : product[j] # p
        BY <1>1, <2>1, <3>3, <4>1, <4>3, RegroupWrites
      <4> QED
        BY <4>2, <4>3
    <3>7. products' = products
      BY <1>1, <3>5, <3>6 DEF ProductsInv, Tables
    <3> QED
      BY <3>3, <3>4, <3>7 DEF table
  <2>2. CASE \E p \in Judged : DismissMatch(p) \/ RestoreMatch(p)
    BY <2>2 DEF DismissMatch, RestoreMatch
  <2>3. CASE UNCHANGED vars
    BY <2>3 DEF vars
  <2>4. ASSUME NEW i \in Listings, NEW j \in Listings,
               Appears(i) \/ Disappears(i) \/ RecordEAN(i) \/ Unlink(i) \/ Link(i, j)
        PROVE  FALSE
    BY <1>1, <2>4 DEF Appears, Disappears, RecordEAN, Unlink, Link
  <2> QED
    BY <1>1, <2>1, <2>2, <2>3, <2>4 DEF Next
<1> QED
  BY <1>1, AlwaysProductsInv, PTL DEF Spec, RegroupIsStable

=============================================================================
