---------------------------- MODULE PricesProofs ----------------------------
(***************************************************************************)
(* Proofs about Prices: what a EUR value was stored as it stays, the rate  *)
(* a collect falls back on is the one last used, and search, chart and     *)
(* watch wizard agree, for any shops, listings, prices, rates and number   *)
(* of runs.                                                                *)
(*                                                                         *)
(* The readers never see how the rows came to be, so the invariants relate *)
(* the price rows to the runs that wrote them: each row is what its run    *)
(* listed, each successful run has left all its rows, rows come in the     *)
(* order of their runs, and what is active is what the shop's newest       *)
(* successful run listed.                                                  *)
(***************************************************************************)
EXTENDS Prices, NaturalOrder, SequenceTheorems

-----------------------------------------------------------------------------
(* The inductive invariant.                                                *)

Shops == {Shop[i] : i \in Listings}
Listed == [cents : Nat, stock : STRING]
Lists == UNION {[D -> Listed] : D \in SUBSET Listings}
Run == [shop : Shops, status : {"running", "success", "failed"}, catalog : Lists]
Row == [set : Listings, run : Nat, cents : Nat, stock : STRING, eur : Nat, rate : Nat]

TypeInv ==
    /\ runs \in Seq(Run)
    /\ history \in Seq(Row)
    /\ active \in SUBSET Listings
    /\ answer \in Nat /\ readable \in BOOLEAN /\ rate \in Nat /\ lastUsed \in Nat
    /\ at \in 1 .. Len(ShopOrder) + 1
    /\ current \in 0 .. Len(runs)

Done(k) == runs[k].status = "success"

\* The run that is being written is the newest.
CurrentIsNewest ==
    current # 0 =>
        /\ rate # 0 /\ at <= Len(ShopOrder) /\ current = Len(runs)
        /\ runs[current].status = "running" /\ runs[current].shop = ShopOrder[at]

\* A row is what its run found, and a run finds a listing once.
Written(row) ==
    /\ row.run \in 1 .. Len(runs) /\ runs[row.run].status = "success" /\ runs[row.run].shop = Shop[row.set]
    /\ row.set \in DOMAIN runs[row.run].catalog
    /\ row.cents = runs[row.run].catalog[row.set].cents /\ row.stock = runs[row.run].catalog[row.set].stock
RowsAreListed == \A r \in RowIds : Written(history[r])
OneRowEach ==
    \A r, q \in RowIds : history[r].set = history[q].set /\ history[r].run = history[q].run => r = q

\* What a successful run found has its row.
AllIsStored ==
    \A k \in 1 .. Len(runs) : Done(k) =>
        /\ DOMAIN runs[k].catalog \subseteq OfShop(runs[k].shop)
        /\ \A i \in DOMAIN runs[k].catalog : \E r \in RowIds : history[r].set = i /\ history[r].run = k

RowsInOrder == \A r, q \in RowIds : r <= q => history[r].run <= history[q].run

IsLast(k, s) == k \in SuccessfulRuns(s) /\ \A j \in SuccessfulRuns(s) : j <= k

\* What is on sale is what the shop's last successful run found.
ActiveIsLatest ==
    \A i \in Listings : i \in active <=> \E k \in 1 .. Len(runs) : IsLast(k, Shop[i]) /\ i \in DOMAIN runs[k].catalog

\* The rate last used is that of the last row in kroner.
LastUsedIsLast ==
    lastUsed # 0 => \E r \in RowIds : /\ CurrencyOf(history[r]) = "DKK" /\ history[r].rate = lastUsed
                                      /\ \A q \in RowIds : r < q => CurrencyOf(history[q]) # "DKK"

RowsInv == RowsAreListed /\ OneRowEach /\ AllIsStored /\ RowsInOrder

PricesInv == TypeInv /\ CurrentIsNewest /\ RowsInv /\ ActiveIsLatest /\ LastUsedIsLast

-----------------------------------------------------------------------------
(* The rows of a catalog.                                                  *)

\* SetToSeq lists each element of a finite set once.
LEMMA ListOfSet ==
  ASSUME NEW S, IsFiniteSet(S)
  PROVE  /\ Cardinality(S) \in Nat
         /\ SetToSeq(S) \in [1 .. Cardinality(S) -> S]
         /\ \A k, l \in 1 .. Cardinality(S) : SetToSeq(S)[k] = SetToSeq(S)[l] => k = l
         /\ \A x \in S : \E k \in 1 .. Cardinality(S) : SetToSeq(S)[k] = x
<1> DEFINE n == Cardinality(S)
           f == SetToSeq(S)
<1>1. n \in Nat /\ ExistsBijection(1 .. n, S)
  BY FS_CardinalityType
<1>2. PICK b : b \in Bijection(1 .. n, S)
  BY <1>1 DEF ExistsBijection
<1>3. b \in [1 .. n -> S] /\ IsInjective(b)
  BY <1>2 DEF Bijection, Injection
<1>4. f \in [1 .. n -> S] /\ IsInjective(f)
  BY <1>3 DEF SetToSeq
<1>5. f \in Injection(1 .. n, S)
  BY <1>4 DEF Injection
<1>6. IsFiniteSet(1 .. n) /\ Cardinality(1 .. n) = n
  BY <1>1, FS_Interval
<1>7. f \in Surjection(1 .. n, S)
  BY <1>5, <1>6, FS_Injection
<1>8. \A x \in S : \E k \in 1 .. n : f[k] = x
  BY <1>7 DEF Surjection
<1> QED
  BY <1>1, <1>4, <1>8 DEF IsInjective

\* A value converted to euros is one that can be stored.
LEMMA EURIsNatural ==
  ASSUME NEW cents \in Nat, NEW r \in Nat
  PROVE  InEUR(cents, r) \in Nat
<1>1. cents * r \in Nat
  OBVIOUS
<1>2. 2 * cents * r = 2 * (cents * r)
  OBVIOUS
<1>3. \A n \in Nat : (2 * n + 100) \div 200 \in Nat
  OBVIOUS
<1> QED
  BY <1>1, <1>2, <1>3 DEF InEUR

\* One row for each listing of a catalog that run k of shop s stores, as it was
\* listed, at rate r.
Fit(rows, cat, s, k, r) ==
    /\ rows \in Seq(Row)
    /\ \A n \in 1 .. Len(rows) :
          /\ rows[n].run = k /\ rows[n].set \in DOMAIN cat
          /\ rows[n].cents = cat[rows[n].set].cents /\ rows[n].stock = cat[rows[n].set].stock
          /\ rows[n].rate = IF Currency[s] = "EUR" THEN 100 ELSE r
    /\ \A m, n \in 1 .. Len(rows) : rows[m].set = rows[n].set => m = n
    /\ \A i \in DOMAIN cat : \E n \in 1 .. Len(rows) : rows[n].set = i

LEMMA RowsOfCatalog ==
  ASSUME NEW s \in Shops, NEW cat, MayList(s, cat), NEW k \in Nat, NEW r \in Nat
  PROVE  Fit(RowsOf(cat, k, s, r), cat, s, k, r)
<1> DEFINE D == DOMAIN cat
           c == Cardinality(D)
           ids == SetToSeq(D)
           Priced(i) == ToEUR(cat[i].cents, Currency[s], r)
           Line(i) == [set |-> i, run |-> k, cents |-> cat[i].cents, stock |-> cat[i].stock,
                       eur |-> Priced(i).eur, rate |-> Priced(i).rate]
           rows == RowsOf(cat, k, s, r)
<1>1. D \subseteq Listings /\ IsFiniteSet(D)
  BY IdsAssumption, FS_Subset DEF IdsAssumption, MayList, OfShop
<1>2. /\ c \in Nat /\ ids \in [1 .. c -> D]
      /\ \A m, n \in 1 .. c : ids[m] = ids[n] => m = n
      /\ \A i \in D : \E n \in 1 .. c : ids[n] = i
  BY <1>1, ListOfSet
<1>3. Len(ids) = c
  BY <1>2
<1>4. rows = [n \in 1 .. c |-> Line(ids[n])]
  BY <1>3 DEF RowsOf
<1>5. ASSUME NEW i \in D
      PROVE  Line(i) \in Row /\ Line(i).set = i /\ Line(i).run = k /\ Line(i).cents = cat[i].cents
             /\ Line(i).stock = cat[i].stock /\ Line(i).rate = IF Currency[s] = "EUR" THEN 100 ELSE r
  <2>1. cat[i] \in Listed
    BY DEF MayList, Listed
  <2>2. cat[i].cents \in Nat /\ cat[i].stock \in STRING /\ i \in Listings
    BY <2>1, <1>1 DEF Listed
  <2>3. InEUR(cat[i].cents, r) \in Nat
    BY <2>2, EURIsNatural
  <2>4. /\ Priced(i).eur \in Nat /\ Priced(i).rate \in Nat
        /\ Priced(i).rate = IF Currency[s] = "EUR" THEN 100 ELSE r
    BY <2>2, <2>3 DEF ToEUR
  <2> HIDE DEF Priced
  <2> QED
    BY <2>2, <2>4 DEF Row
<1> HIDE DEF Line, ids, c, rows
<1>6. \A n \in 1 .. c : rows[n] = Line(ids[n]) /\ ids[n] \in D
  BY <1>2, <1>4
<1>7. rows \in Seq(Row) /\ Len(rows) = c
  BY <1>2, <1>4, <1>5, <1>6
<1>8. \A n \in 1 .. c : rows[n].set = ids[n]
  BY <1>5, <1>6
<1>9. \A m, n \in 1 .. Len(rows) : rows[m].set = rows[n].set => m = n
  BY <1>2, <1>7, <1>8
<1>10. \A i \in D : \E n \in 1 .. Len(rows) : rows[n].set = i
  BY <1>2, <1>7, <1>8
<1>11. ASSUME NEW n \in 1 .. Len(rows)
       PROVE  /\ rows[n].run = k /\ rows[n].set \in D
              /\ rows[n].cents = cat[rows[n].set].cents /\ rows[n].stock = cat[rows[n].set].stock
              /\ rows[n].rate = IF Currency[s] = "EUR" THEN 100 ELSE r
  BY <1>5, <1>6, <1>7
<1> QED
  BY <1>7, <1>9, <1>10, <1>11 DEF rows, Fit

-----------------------------------------------------------------------------
(* Small facts.                                                            *)

LEMMA ShopsVisited ==
  /\ Len(ShopOrder) \in Nat \ {0}
  /\ \A n \in 1 .. Len(ShopOrder) : ShopOrder[n] \in Shops
<1>1. ShopOrder \in Seq(Shops) /\ ShopOrder # <<>>
  BY ShopsAssumption DEF ShopsAssumption, Shops
<1> QED
  BY <1>1

LEMMA NewestIsGreatest ==
  ASSUME NEW n \in Nat, NEW S \in SUBSET (0 .. n), S # {}
  PROVE  Newest(S) \in S /\ \A q \in S : q <= Newest(S)
<1>1. \E p \in S : \A q \in S : q <= p
  BY BoundedHasGreatest
<1> QED
  BY <1>1 DEF Newest

LEMMA LeastIsLeast ==
  ASSUME NEW S \in SUBSET Nat, S # {}
  PROVE  Least(S) \in S /\ \A q \in S : Least(S) <= q
<1>1. \E p \in S : \A q \in S : p <= q
  BY NatHasLeast
<1> QED
  BY <1>1 DEF Least

\* What a shop may list is a catalog.
LEMMA CatalogType ==
  ASSUME NEW s, NEW cat, MayList(s, cat)
  PROVE  cat \in Lists /\ DOMAIN cat \in SUBSET Listings
<1>1. DOMAIN cat \in SUBSET Listings
  BY DEF MayList, OfShop
<1>2. cat \in [DOMAIN cat -> Listed]
  BY DEF MayList, Listed
<1> QED
  BY <1>1, <1>2 DEF Lists

LEMMA RowType ==
  ASSUME TypeInv, NEW r \in RowIds
  PROVE  /\ history[r] \in Row /\ r \in Nat
         /\ history[r].set \in Listings /\ history[r].run \in Nat /\ history[r].cents \in Nat
         /\ history[r].stock \in STRING /\ history[r].eur \in Nat /\ history[r].rate \in Nat
<1>1. history[r] \in Row /\ r \in Nat
  BY DEF TypeInv, RowIds
<1> QED
  BY <1>1 DEF Row

LEMMA RunType ==
  ASSUME TypeInv, NEW k \in 1 .. Len(runs)
  PROVE  /\ runs[k] \in Run /\ k \in Nat
         /\ runs[k].shop \in Shops /\ runs[k].status \in {"running", "success", "failed"}
         /\ runs[k].catalog \in Lists /\ DOMAIN runs[k].catalog \in SUBSET Listings
<1>1. runs[k] \in Run /\ k \in Nat
  BY DEF TypeInv
<1>2. \A c \in Lists : DOMAIN c \in SUBSET Listings
  BY DEF Lists
<1> QED
  BY <1>1, <1>2 DEF Run

\* The rate a collect starts with is never 0.
LEMMA ChosenIsPositive ==
  ASSUME TypeInv, NEW a \in Nat, NEW read \in BOOLEAN
  PROVE  LastRate \in Nat /\ Chosen(a, read) \in Nat \ {0}
<1> DEFINE used == {r \in RowIds : CurrencyOf(history[r]) = "DKK" /\ history[r].rate # 0}
<1>1. LastRate \in Nat
  <2>1. CASE used = {}
    BY <2>1 DEF LastRate
  <2>2. CASE used # {}
    <3>1. Len(history) \in Nat /\ used \in SUBSET (0 .. Len(history))
      BY DEF TypeInv, RowIds
    <3>2. Newest(used) \in used
      BY <2>2, <3>1, NewestIsGreatest
    <3>3. history[Newest(used)].rate \in Nat
      BY <3>2, RowType
    <3> QED
      BY <2>2, <3>3 DEF LastRate
  <2> QED
    BY <2>1, <2>2
<1> QED
  BY <1>1, RatesAssumption DEF RatesAssumption, Chosen, Plausible

\* Filling in what has no EUR value leaves everything else alone.
LEMMA BackfillFills ==
  ASSUME TypeInv, NEW r \in Nat
  PROVE  /\ BackfillEUR(r) \in Seq(Row) /\ Len(BackfillEUR(r)) = Len(history)
         /\ \A k \in RowIds :
              /\ BackfillEUR(r)[k].set = history[k].set /\ BackfillEUR(r)[k].run = history[k].run
              /\ BackfillEUR(r)[k].cents = history[k].cents /\ BackfillEUR(r)[k].stock = history[k].stock
              /\ history[k].rate # 0 => BackfillEUR(r)[k] = history[k]
<1>1. ASSUME NEW k \in RowIds
      PROVE  /\ BackfillEUR(r)[k] \in Row
             /\ BackfillEUR(r)[k].set = history[k].set /\ BackfillEUR(r)[k].run = history[k].run
             /\ BackfillEUR(r)[k].cents = history[k].cents /\ BackfillEUR(r)[k].stock = history[k].stock
             /\ history[k].rate # 0 => BackfillEUR(r)[k] = history[k]
  <2>1. history[k] \in Row /\ InEUR(history[k].cents, r) \in Nat
    BY RowType, EURIsNatural
  <2> QED
    BY <2>1 DEF BackfillEUR, Row
<1>2. Len(history) \in Nat /\ BackfillEUR(r) = [k \in 1 .. Len(history) |-> BackfillEUR(r)[k]]
  BY DEF TypeInv, BackfillEUR, RowIds
<1>3. BackfillEUR(r) \in Seq(Row) /\ Len(BackfillEUR(r)) = Len(history)
  BY <1>1, <1>2 DEF RowIds
<1> QED
  BY <1>1, <1>3
-----------------------------------------------------------------------------
(* Initial states: nothing, or one run whose rows have no EUR value.       *)

LEMMA InitEmpty ==
  ASSUME Init, runs = <<>>, history = <<>>, active = {}
  PROVE  PricesInv
<1>1. answer = 0 /\ readable = TRUE /\ rate = 0 /\ at = 1 /\ current = 0 /\ lastUsed = 0
  BY DEF Init
<1>2. Len(runs) = 0 /\ Len(history) = 0 /\ RowIds = {}
  BY DEF RowIds
<1>3. runs \in Seq(Run) /\ history \in Seq(Row)
  OBVIOUS
<1>4. TypeInv
  BY <1>1, <1>2, <1>3, ShopsVisited DEF TypeInv
<1>5. \A i \in Listings : i \notin active /\ ~ \E k \in 1 .. Len(runs) : IsLast(k, Shop[i]) /\ i \in DOMAIN runs[k].catalog
  BY <1>2
<1> QED
  BY <1>1, <1>2, <1>4, <1>5
     DEF PricesInv, CurrentIsNewest, RowsInv, RowsAreListed, OneRowEach, AllIsStored, RowsInOrder,
         ActiveIsLatest, LastUsedIsLast

LEMMA WithoutEUR ==
  ASSUME NEW row \in Row
  PROVE  LET old == [row EXCEPT !.eur = 0, !.rate = 0] IN
         /\ old \in Row /\ old.set = row.set /\ old.run = row.run
         /\ old.cents = row.cents /\ old.stock = row.stock
  BY DEF Row

LEMMA OneRun ==
  ASSUME NEW run \in Run
  PROVE  <<run>> \in Seq(Run) /\ Len(<<run>>) = 1 /\ <<run>>[1] = run
  OBVIOUS

LEMMA InitLegacy ==
  ASSUME Init, ~ (runs = <<>> /\ history = <<>> /\ active = {})
  PROVE  PricesInv
<1> DEFINE s == ShopOrder[Len(ShopOrder)]
           rows == RowsOf(Legacy, 1, s, 0)
           run == [shop |-> s, status |-> "success", catalog |-> Legacy]
<1>1. /\ answer = 0 /\ readable = TRUE /\ rate = 0 /\ at = 1 /\ current = 0 /\ lastUsed = 0
      /\ runs = <<run>> /\ active = DOMAIN Legacy
      /\ history = [k \in DOMAIN rows |-> [rows[k] EXCEPT !.eur = 0, !.rate = 0]]
  BY DEF Init
<1>2. s \in Shops /\ MayList(s, Legacy)
  BY ShopsVisited, ShopsAssumption DEF ShopsAssumption
<1>3. /\ rows \in Seq(Row)
      /\ \A n \in 1 .. Len(rows) :
           /\ rows[n].run = 1 /\ rows[n].set \in DOMAIN Legacy
           /\ rows[n].cents = Legacy[rows[n].set].cents /\ rows[n].stock = Legacy[rows[n].set].stock
      /\ \A m, n \in 1 .. Len(rows) : rows[m].set = rows[n].set => m = n
      /\ \A i \in DOMAIN Legacy : \E n \in 1 .. Len(rows) : rows[n].set = i
  <2>1. Fit(rows, Legacy, s, 1, 0)
    BY <1>2, RowsOfCatalog
  <2> HIDE DEF rows
  <2> QED
    BY <2>1 DEF Fit
<1> HIDE DEF rows
<1>4. ASSUME NEW n \in 1 .. Len(rows)
      PROVE  /\ history[n] \in Row /\ history[n].set = rows[n].set /\ history[n].run = 1
             /\ history[n].cents = rows[n].cents /\ history[n].stock = rows[n].stock
  <2>1. rows[n] \in Row /\ n \in DOMAIN rows
    BY <1>3
  <2>2. history[n] = [rows[n] EXCEPT !.eur = 0, !.rate = 0]
    BY <1>1, <2>1
  <2>3. rows[n].run = 1
    BY <1>3
  <2> QED
    BY <2>1, <2>2, <2>3, WithoutEUR
<1>5. DOMAIN rows = 1 .. Len(rows) /\ Len(rows) \in Nat
  BY <1>3
<1>6. history \in Seq(Row) /\ Len(history) = Len(rows) /\ RowIds = 1 .. Len(rows)
  <2>1. history = [n \in 1 .. Len(rows) |-> history[n]]
    BY <1>1, <1>5
  <2> QED
    BY <1>4, <1>5, <2>1 DEF RowIds
<1>7. Legacy \in Lists /\ DOMAIN Legacy \in SUBSET Listings
  BY <1>2, CatalogType
<1>8. run \in Run
  BY <1>2, <1>7 DEF Run
<1>9. /\ runs \in Seq(Run) /\ Len(runs) = 1 /\ runs[1] = run
      /\ run.shop = s /\ run.status = "success" /\ run.catalog = Legacy
  BY <1>1, <1>8, OneRun
<1> HIDE DEF run
<1>10. TypeInv
  <2>1. at = 1 /\ current = 0 /\ Len(ShopOrder) \in Nat
    BY <1>1, ShopsVisited
  <2>2. at \in 1 .. Len(ShopOrder) + 1 /\ current \in 0 .. Len(runs)
    BY <1>9, <2>1
  <2> QED
    BY <1>1, <1>6, <1>7, <1>9, <2>1, <2>2 DEF TypeInv
<1>11. DOMAIN Legacy \subseteq OfShop(s)
  BY <1>2 DEF MayList
<1>12. RowsAreListed
  <2> SUFFICES ASSUME NEW r \in RowIds
               PROVE  Written(history[r])
    BY DEF RowsAreListed
  <2>1. history[r].run = 1 /\ history[r].set \in DOMAIN Legacy
    BY <1>3, <1>4, <1>6
  <2>2. Shop[history[r].set] = s
    BY <2>1, <1>11 DEF OfShop
  <2>3. history[r].cents = Legacy[history[r].set].cents /\ history[r].stock = Legacy[history[r].set].stock
    BY <1>3, <1>4, <1>6
  <2> QED
    BY <1>9, <2>1, <2>2, <2>3 DEF Written
<1>13. OneRowEach /\ RowsInOrder
  BY <1>3, <1>4, <1>6 DEF OneRowEach, RowsInOrder
<1>14. AllIsStored
  <2> SUFFICES ASSUME NEW k \in 1 .. Len(runs)
               PROVE  /\ DOMAIN runs[k].catalog \subseteq OfShop(runs[k].shop)
                      /\ \A i \in DOMAIN runs[k].catalog : \E r \in RowIds : history[r].set = i /\ history[r].run = k
    BY DEF AllIsStored
  <2>1. k = 1 /\ runs[k].catalog = Legacy /\ runs[k].shop = s
    BY <1>9
  <2> QED
    BY <1>3, <1>4, <1>6, <1>11, <2>1
<1>15. ActiveIsLatest
  <2> SUFFICES ASSUME NEW i \in Listings
               PROVE  i \in DOMAIN Legacy <=>
                        \E k \in 1 .. Len(runs) : IsLast(k, Shop[i]) /\ i \in DOMAIN runs[k].catalog
    BY <1>1 DEF ActiveIsLatest
  <2>1. 1 \in 1 .. Len(runs) /\ \A k \in 1 .. Len(runs) : k = 1
    BY <1>9
  <2>2. DOMAIN runs = 1 .. Len(runs)
    BY <1>9
  <2>3. SuccessfulRuns(Shop[i]) = IF Shop[i] = s THEN {1} ELSE {}
    BY <1>9, <2>1, <2>2 DEF SuccessfulRuns
  <2>4. i \in DOMAIN Legacy => Shop[i] = s
    BY <1>11 DEF OfShop
  <2> QED
    BY <1>9, <2>1, <2>3, <2>4 DEF IsLast
<1> QED
  BY <1>1, <1>10, <1>12, <1>13, <1>14, <1>15 DEF PricesInv, CurrentIsNewest, RowsInv, LastUsedIsLast

LEMMA InitInv == Init => PricesInv
BY InitEmpty, InitLegacy
-----------------------------------------------------------------------------
(* Steps that store no price: rows and successful runs stay what they are. *)

SameRows ==
    /\ Len(history') = Len(history)
    /\ \A r \in RowIds : /\ history'[r].set = history[r].set /\ history'[r].run = history[r].run
                         /\ history'[r].cents = history[r].cents /\ history'[r].stock = history[r].stock
                         /\ history[r].rate # 0 => history'[r] = history[r]

SameSuccesses ==
    /\ Len(runs) <= Len(runs')
    /\ \A k \in 1 .. Len(runs) : Done(k) => runs'[k] = runs[k]
    /\ \A k \in 1 .. Len(runs') : runs'[k].status = "success" => k \in 1 .. Len(runs) /\ Done(k)

LEMMA RowsStay ==
  ASSUME PricesInv, TypeInv', SameRows, SameSuccesses, UNCHANGED <<active, lastUsed>>
  PROVE  RowsInv' /\ ActiveIsLatest' /\ LastUsedIsLast'
<1>0. TypeInv /\ RowsInv /\ ActiveIsLatest /\ LastUsedIsLast
  BY DEF PricesInv
<1>1. RowIds' = RowIds /\ \A r \in RowIds : r \in Nat
  BY DEF SameRows, RowIds
<1>2. \A k \in 1 .. Len(runs) : k \in 1 .. Len(runs') /\ (Done(k) => Done(k)' /\ runs'[k] = runs[k])
  BY <1>0 DEF SameSuccesses, TypeInv, Done
<1>3. \A k \in 1 .. Len(runs') : Done(k)' => k \in 1 .. Len(runs) /\ Done(k) /\ runs'[k] = runs[k]
  BY DEF SameSuccesses, Done
<1>4. RowsAreListed'
  <2> SUFFICES ASSUME NEW r \in RowIds
               PROVE  Written(history[r])'
    BY <1>1 DEF RowsAreListed
  <2>1. Written(history[r])
    BY <1>0 DEF RowsInv, RowsAreListed
  <2>2. runs'[history[r].run] = runs[history[r].run] /\ history[r].run \in 1 .. Len(runs')
    BY <1>2, <2>1 DEF Written, Done
  <2> QED
    BY <2>1, <2>2 DEF Written, SameRows
<1>5. OneRowEach' /\ RowsInOrder'
  BY <1>0, <1>1 DEF RowsInv, OneRowEach, RowsInOrder, SameRows
<1>6. AllIsStored'
  <2> SUFFICES ASSUME NEW k \in 1 .. Len(runs'), Done(k)'
               PROVE  /\ DOMAIN runs'[k].catalog \subseteq OfShop(runs'[k].shop)
                      /\ \A i \in DOMAIN runs'[k].catalog :
                            \E r \in RowIds : history'[r].set = i /\ history'[r].run = k
    BY <1>1 DEF AllIsStored
  <2>1. k \in 1 .. Len(runs) /\ Done(k) /\ runs'[k] = runs[k]
    BY <1>3
  <2>2. /\ DOMAIN runs[k].catalog \subseteq OfShop(runs[k].shop)
        /\ \A i \in DOMAIN runs[k].catalog : \E r \in RowIds : history[r].set = i /\ history[r].run = k
    BY <1>0, <2>1 DEF RowsInv, AllIsStored
  <2> QED
    BY <2>1, <2>2 DEF SameRows
<1>7. \A s \in Shops : SuccessfulRuns(s)' = SuccessfulRuns(s)
  <2>1. DOMAIN runs = 1 .. Len(runs) /\ DOMAIN runs' = 1 .. Len(runs')
    BY <1>0 DEF TypeInv
  <2> QED
    BY <1>2, <1>3, <2>1 DEF SuccessfulRuns, Done
<1>8. ActiveIsLatest'
  <2> SUFFICES ASSUME NEW i \in Listings
               PROVE  i \in active <=>
                        \E k \in 1 .. Len(runs') : IsLast(k, Shop[i])' /\ i \in DOMAIN runs'[k].catalog
    BY DEF ActiveIsLatest
  <2>1. SuccessfulRuns(Shop[i])' = SuccessfulRuns(Shop[i])
    BY <1>7 DEF Shops
  <2>2. \A k : IsLast(k, Shop[i])' <=> IsLast(k, Shop[i])
    BY <2>1 DEF IsLast
  <2>3. \A k \in 1 .. Len(runs) : IsLast(k, Shop[i]) => Done(k)
    BY DEF IsLast, SuccessfulRuns, Done
  <2>4. \A k \in 1 .. Len(runs') : IsLast(k, Shop[i])' => Done(k)'
    BY DEF IsLast, SuccessfulRuns, Done
  <2>5. i \in active <=> \E k \in 1 .. Len(runs) : IsLast(k, Shop[i]) /\ i \in DOMAIN runs[k].catalog
    BY <1>0 DEF ActiveIsLatest
  <2> QED
    BY <1>2, <1>3, <2>2, <2>3, <2>4, <2>5
<1>9. LastUsedIsLast'
  <2>1. \A r \in RowIds : CurrencyOf(history'[r]) = CurrencyOf(history[r])
    BY DEF SameRows, CurrencyOf
  <2> QED
    BY <1>0, <1>1, <2>1 DEF LastUsedIsLast, SameRows, CurrencyOf
<1> QED
  BY <1>4, <1>5, <1>6, <1>8, <1>9 DEF RowsInv

LEMMA LoadRatesInv == PricesInv /\ LoadRates => PricesInv'
<1> SUFFICES ASSUME PricesInv, LoadRates
             PROVE  PricesInv'
  OBVIOUS
<1>0. TypeInv /\ CurrentIsNewest
  BY DEF PricesInv
<1>1. /\ rate = 0 /\ at' = 1 /\ runs' = runs /\ active' = active /\ current' = current /\ lastUsed' = lastUsed
      /\ answer' \in Nat /\ readable' \in BOOLEAN /\ rate' = Chosen(answer', readable')
  BY RatesAssumption DEF RatesAssumption, LoadRates, Plausible
<1>2. rate' \in Nat
  BY <1>0, <1>1, ChosenIsPositive
<1>3. history' \in Seq(Row) /\ SameRows
  <2>1. CASE history' = history
    BY <1>0, <2>1 DEF TypeInv, SameRows
  <2>2. CASE history' = BackfillEUR(rate')
    BY <1>0, <1>2, <2>2, BackfillFills DEF SameRows
  <2> QED
    BY <2>1, <2>2 DEF LoadRates
<1>4. TypeInv'
  <2>1. 1 \in 1 .. Len(ShopOrder) + 1
    BY ShopsVisited
  <2> QED
    BY <1>0, <1>1, <1>2, <1>3, <2>1 DEF TypeInv
<1>5. SameSuccesses
  BY <1>0, <1>1 DEF SameSuccesses, TypeInv, Done
<1>6. CurrentIsNewest'
  BY <1>0, <1>1 DEF CurrentIsNewest
<1> QED
  BY <1>1, <1>3, <1>4, <1>5, <1>6, RowsStay DEF PricesInv

LEMMA StartRunInv == PricesInv /\ StartRun => PricesInv'
<1> SUFFICES ASSUME PricesInv, StartRun
             PROVE  PricesInv'
  OBVIOUS
<1> DEFINE run == [shop |-> ShopOrder[at], status |-> "running", catalog |-> NoListing]
<1>0. TypeInv /\ CurrentIsNewest
  BY DEF PricesInv
<1>1. /\ rate # 0 /\ current = 0 /\ at <= Len(ShopOrder)
      /\ runs' = Append(runs, run) /\ current' = Len(runs')
      /\ UNCHANGED <<history, active, answer, readable, rate, at, lastUsed>>
  BY DEF StartRun
<1>2. at \in 1 .. Len(ShopOrder) /\ ShopOrder[at] \in Shops
  BY <1>0, <1>1, ShopsVisited DEF TypeInv
<1>3. run \in Run /\ run.shop = ShopOrder[at] /\ run.status = "running"
  <2>1. NoListing \in [{} -> Listed] /\ {} \in SUBSET Listings
    BY DEF NoListing
  <2>2. NoListing \in Lists
    BY <2>1 DEF Lists
  <2> QED
    BY <1>2, <2>2 DEF Run
<1> HIDE DEF run
<1>4. /\ runs' \in Seq(Run) /\ Len(runs') = Len(runs) + 1 /\ Len(runs) \in Nat
      /\ runs'[Len(runs) + 1] = run /\ \A k \in 1 .. Len(runs) : runs'[k] = runs[k]
  BY <1>0, <1>1, <1>3 DEF TypeInv
<1>5. TypeInv'
  BY <1>0, <1>1, <1>4 DEF TypeInv
<1>6. SameRows
  BY <1>1 DEF SameRows
<1>7. SameSuccesses
  BY <1>3, <1>4 DEF SameSuccesses, Done
<1>8. CurrentIsNewest'
  BY <1>1, <1>3, <1>4 DEF CurrentIsNewest
<1> QED
  BY <1>1, <1>5, <1>6, <1>7, <1>8, RowsStay DEF PricesInv

LEMMA FailRunInv == PricesInv /\ FailRun => PricesInv'
<1> SUFFICES ASSUME PricesInv, FailRun
             PROVE  PricesInv'
  OBVIOUS
<1>0. TypeInv /\ CurrentIsNewest
  BY DEF PricesInv
<1>1. /\ current # 0 /\ runs' = [runs EXCEPT ![current].status = "failed"]
      /\ at' = at + 1 /\ current' = 0
      /\ UNCHANGED <<history, active, answer, readable, rate, lastUsed>>
  BY DEF FailRun, NextShop
<1>2. /\ at <= Len(ShopOrder) /\ current = Len(runs) /\ current \in 1 .. Len(runs)
      /\ runs[current].status = "running"
  BY <1>0, <1>1 DEF CurrentIsNewest, TypeInv
<1>3. runs[current] \in Run
  BY <1>0, <1>2, RunType
<1> DEFINE failed == [runs[current] EXCEPT !.status = "failed"]
<1>4. failed \in Run /\ failed.status = "failed"
  BY <1>3 DEF Run
<1>5. runs' = [runs EXCEPT ![current] = failed]
  BY <1>1
<1> HIDE DEF failed
<1>6. /\ runs' \in Seq(Run) /\ Len(runs') = Len(runs) /\ runs'[current] = failed
      /\ \A k \in 1 .. Len(runs) : k # current => runs'[k] = runs[k]
  BY <1>0, <1>2, <1>4, <1>5 DEF TypeInv
<1>7. TypeInv'
  BY <1>0, <1>1, <1>2, <1>6, ShopsVisited DEF TypeInv
<1>8. SameRows
  BY <1>1 DEF SameRows
<1>9. SameSuccesses
  BY <1>0, <1>2, <1>4, <1>6 DEF SameSuccesses, Done, TypeInv
<1>10. CurrentIsNewest'
  BY <1>1 DEF CurrentIsNewest
<1> QED
  BY <1>1, <1>7, <1>8, <1>9, <1>10, RowsStay DEF PricesInv

LEMMA LeaveInv == PricesInv /\ (Leave \/ UNCHANGED vars) => PricesInv'
<1> SUFFICES ASSUME PricesInv, Leave \/ UNCHANGED vars
             PROVE  PricesInv'
  OBVIOUS
<1>0. TypeInv /\ CurrentIsNewest
  BY DEF PricesInv
<1>1. UNCHANGED <<runs, history, active, answer, readable, lastUsed>>
  BY DEF Leave, vars
<1>2. \/ rate' = 0 /\ current' = 0 /\ at' = 1
      \/ UNCHANGED <<rate, current, at>>
  BY DEF Leave, vars
<1>3. TypeInv'
  BY <1>0, <1>1, <1>2, ShopsVisited DEF TypeInv
<1>4. SameRows /\ SameSuccesses
  BY <1>0, <1>1 DEF SameRows, SameSuccesses, TypeInv, Done
<1>5. CurrentIsNewest'
  BY <1>0, <1>1, <1>2 DEF CurrentIsNewest
<1> QED
  BY <1>1, <1>3, <1>4, <1>5, RowsStay DEF PricesInv
-----------------------------------------------------------------------------
(* The step that stores a catalog.                                         *)

LEMMA Joined ==
  ASSUME NEW h \in Seq(Row), NEW t \in Seq(Row)
  PROVE  /\ h \o t \in Seq(Row) /\ Len(h \o t) = Len(h) + Len(t) /\ Len(h) \in Nat /\ Len(t) \in Nat
         /\ \A r \in 1 .. Len(h) : (h \o t)[r] = h[r]
         /\ \A n \in 1 .. Len(t) : (h \o t)[Len(h) + n] = t[n]
         /\ \A r \in 1 .. Len(h \o t) : r \in 1 .. Len(h) \/ r - Len(h) \in 1 .. Len(t)
<1>1. /\ h \o t \in Seq(Row) /\ Len(h \o t) = Len(h) + Len(t) /\ Len(h) \in Nat /\ Len(t) \in Nat
  OBVIOUS
<1> QED
  BY <1>1

LEMMA FinishedRun ==
  ASSUME NEW run \in Run, NEW cat \in Lists
  PROVE  LET done == [run EXCEPT !.status = "success", !.catalog = cat] IN
         done \in Run /\ done.shop = run.shop /\ done.status = "success" /\ done.catalog = cat
  BY DEF Run

LEMMA ApplyRunInv == PricesInv /\ ApplyRun => PricesInv'
<1> SUFFICES ASSUME PricesInv, ApplyRun
             PROVE  PricesInv'
  OBVIOUS
<1>0. TypeInv /\ CurrentIsNewest /\ RowsInv /\ ActiveIsLatest /\ LastUsedIsLast
  BY DEF PricesInv
<1> DEFINE N == Len(history)
<1>1. current # 0 /\ at' = at + 1 /\ current' = 0 /\ UNCHANGED <<answer, readable, rate>>
  BY DEF ApplyRun, NextShop
<1>a. PICK s : s = ShopOrder[at]
  OBVIOUS
<1>2. PICK cat \in Catalogs[s] :
        /\ history' = history \o RowsOf(cat, current, s, rate)
        /\ active' = StillActive(cat, s)
        /\ runs' = [runs EXCEPT ![current].status = "success", ![current].catalog = cat]
        /\ lastUsed' = IF Currency[s] = "DKK" /\ DOMAIN cat # {} THEN rate ELSE lastUsed
  BY <1>a DEF ApplyRun
<1>3. /\ rate # 0 /\ at <= Len(ShopOrder) /\ current = Len(runs) /\ current \in 1 .. Len(runs)
      /\ runs[current].status = "running" /\ runs[current].shop = s
  BY <1>0, <1>1, <1>a DEF CurrentIsNewest, TypeInv
<1>4. at \in 1 .. Len(ShopOrder) /\ s \in Shops /\ MayList(s, cat)
  BY <1>0, <1>2, <1>3, <1>a, ShopsVisited, ShopsAssumption DEF TypeInv, ShopsAssumption
<1>5. cat \in Lists /\ DOMAIN cat \in SUBSET Listings /\ DOMAIN cat \subseteq OfShop(s)
  BY <1>4, CatalogType DEF MayList
<1> DEFINE rows == RowsOf(cat, current, s, rate)
<1>6. /\ rows \in Seq(Row)
      /\ \A n \in 1 .. Len(rows) :
           /\ rows[n].run = current /\ rows[n].set \in DOMAIN cat
           /\ rows[n].cents = cat[rows[n].set].cents /\ rows[n].stock = cat[rows[n].set].stock
           /\ rows[n].rate = IF Currency[s] = "EUR" THEN 100 ELSE rate
      /\ \A m, n \in 1 .. Len(rows) : rows[m].set = rows[n].set => m = n
      /\ \A i \in DOMAIN cat : \E n \in 1 .. Len(rows) : rows[n].set = i
  <2>1. current \in Nat /\ rate \in Nat
    BY <1>0 DEF TypeInv
  <2>2. Fit(rows, cat, s, current, rate)
    BY <1>4, <2>1, RowsOfCatalog
  <2> HIDE DEF rows
  <2> QED
    BY <2>2 DEF Fit
<1>7. history' = history \o rows
  BY <1>2
<1> HIDE DEF rows
<1>8. /\ history' \in Seq(Row) /\ Len(history') = N + Len(rows) /\ N \in Nat /\ Len(rows) \in Nat
      /\ \A r \in 1 .. N : history'[r] = history[r]
      /\ \A n \in 1 .. Len(rows) : history'[N + n] = rows[n]
      /\ \A r \in 1 .. Len(history') : r \in 1 .. N \/ r - N \in 1 .. Len(rows)
  BY <1>0, <1>6, <1>7, Joined DEF TypeInv
<1>9. /\ RowIds = 1 .. N /\ RowIds' = 1 .. N + Len(rows)
      /\ \A r \in RowIds' : \/ r \in RowIds
                            \/ r - N \in 1 .. Len(rows) /\ history'[r] = rows[r - N] /\ r > N
  <2>1. RowIds = 1 .. N /\ RowIds' = 1 .. N + Len(rows)
    BY <1>8 DEF RowIds
  <2>2. \A r \in RowIds' : N + (r - N) = r
    BY <1>8, <2>1
  <2> QED
    BY <1>8, <2>1, <2>2
<1>10. runs[current] \in Run
  BY <1>0, <1>3, RunType
<1> DEFINE done == [runs[current] EXCEPT !.status = "success", !.catalog = cat]
<1>11. done \in Run /\ done.shop = s /\ done.status = "success" /\ done.catalog = cat
  BY <1>3, <1>5, <1>10, FinishedRun
<1>12. runs' = [runs EXCEPT ![current] = done]
  BY <1>2
<1> HIDE DEF done
<1>13. /\ runs' \in Seq(Run) /\ Len(runs') = Len(runs) /\ runs'[current] = done
       /\ \A k \in 1 .. Len(runs) : k # current => runs'[k] = runs[k]
  BY <1>0, <1>3, <1>11, <1>12 DEF TypeInv
<1>14. TypeInv'
  <2>1. active' \in SUBSET Listings
    BY <1>0, <1>2, <1>5 DEF TypeInv, StillActive
  <2>2. lastUsed' \in Nat
    BY <1>0, <1>2 DEF TypeInv
  <2>3. at' \in 1 .. Len(ShopOrder) + 1 /\ current' \in 0 .. Len(runs')
    BY <1>0, <1>1, <1>4, <1>13 DEF TypeInv
  <2> QED
    BY <1>0, <1>1, <1>8, <1>13, <2>1, <2>2, <2>3 DEF TypeInv
<1>15. CurrentIsNewest'
  BY <1>1 DEF CurrentIsNewest
\* The rows there were belong to earlier runs.
<1>16. ASSUME NEW r \in RowIds
       PROVE  /\ history'[r] = history[r] /\ Written(history[r]) /\ history[r].run < current
              /\ runs'[history[r].run] = runs[history[r].run]
  <2>1. Written(history[r])
    BY <1>0 DEF RowsInv, RowsAreListed
  <2>2. history[r].run \in 1 .. Len(runs) /\ history[r].run # current
    BY <1>3, <2>1 DEF Written
  <2> QED
    BY <1>3, <1>8, <1>9, <1>13, <2>1, <2>2
<1>17. ASSUME NEW r \in RowIds', r \notin RowIds
       PROVE  /\ r - N \in 1 .. Len(rows) /\ history'[r] = rows[r - N] /\ r > N
              /\ history'[r].run = current /\ history'[r].set \in DOMAIN cat
              /\ history'[r].cents = cat[history'[r].set].cents /\ history'[r].stock = cat[history'[r].set].stock
              /\ history'[r].rate = IF Currency[s] = "EUR" THEN 100 ELSE rate
  <2>1. r - N \in 1 .. Len(rows) /\ history'[r] = rows[r - N] /\ r > N
    BY <1>9, <1>17
  <2>2. PICK n \in 1 .. Len(rows) : n = r - N
    BY <2>1
  <2>3. history'[r] = rows[n]
    BY <2>1, <2>2
  <2> QED
    BY <1>6, <2>1, <2>3
<1>18. RowsAreListed'
  <2> SUFFICES ASSUME NEW r \in RowIds'
               PROVE  Written(history[r])'
    BY DEF RowsAreListed
  <2>1. CASE r \in RowIds
    BY <1>13, <1>16, <2>1 DEF Written
  <2>2. CASE r \notin RowIds
    <3>1. Shop[history'[r].set] = s
      BY <1>5, <1>17, <2>2 DEF OfShop
    <3> QED
      BY <1>3, <1>11, <1>13, <1>17, <2>2, <3>1 DEF Written
  <2> QED
    BY <2>1, <2>2
<1>19. OneRowEach'
  <2> SUFFICES ASSUME NEW r \in RowIds', NEW q \in RowIds',
                      history'[r].set = history'[q].set, history'[r].run = history'[q].run
               PROVE  r = q
    BY DEF OneRowEach
  <2>1. CASE r \in RowIds /\ q \in RowIds
    BY <1>0, <1>16, <2>1 DEF RowsInv, OneRowEach
  <2>2. CASE r \notin RowIds /\ q \notin RowIds
    <3>1. /\ r - N \in 1 .. Len(rows) /\ history'[r] = rows[r - N]
          /\ q - N \in 1 .. Len(rows) /\ history'[q] = rows[q - N]
      BY <1>17, <2>2
    <3>2. \A m, n \in 1 .. Len(rows) : rows[m].set = rows[n].set => m = n
      BY <1>6
    <3>3. r - N = q - N
      BY <3>1, <3>2
    <3> QED
      BY <1>8, <1>9, <3>3
  <2>3. CASE (r \in RowIds) # (q \in RowIds)
    <3>1. current \in Nat /\ \A x \in RowIds : history[x].run \in Nat
      BY <1>0, RowType DEF TypeInv
    <3> QED
      BY <1>16, <1>17, <2>3, <3>1
  <2> QED
    BY <2>1, <2>2, <2>3
<1>20. RowsInOrder'
  <2> SUFFICES ASSUME NEW r \in RowIds', NEW q \in RowIds', r <= q
               PROVE  history'[r].run <= history'[q].run
    BY DEF RowsInOrder
  <2>1. current \in Nat /\ \A x \in RowIds : history[x].run \in Nat
    BY <1>0, RowType DEF TypeInv
  <2>2. CASE q \in RowIds
    <3>1. r \in RowIds
      BY <1>8, <1>9, <2>2
    <3> QED
      BY <1>0, <1>16, <2>2, <3>1 DEF RowsInv, RowsInOrder
  <2>3. CASE q \notin RowIds /\ r \in RowIds
    BY <1>16, <1>17, <2>1, <2>3
  <2>4. CASE q \notin RowIds /\ r \notin RowIds
    BY <1>17, <2>1, <2>4
  <2> QED
    BY <2>2, <2>3, <2>4
<1>21. AllIsStored'
  <2> SUFFICES ASSUME NEW k \in 1 .. Len(runs), runs'[k].status = "success"
               PROVE  /\ DOMAIN runs'[k].catalog \subseteq OfShop(runs'[k].shop)
                      /\ \A i \in DOMAIN runs'[k].catalog :
                            \E r \in RowIds' : history'[r].set = i /\ history'[r].run = k
    BY <1>13 DEF AllIsStored, Done
  <2>1. CASE k = current
    <3>1. ASSUME NEW i \in DOMAIN cat
          PROVE  \E r \in RowIds' : history'[r].set = i /\ history'[r].run = current
      <4>1. PICK n \in 1 .. Len(rows) : rows[n].set = i
        BY <1>6
      <4>2. N + n \in RowIds' /\ history'[N + n] = rows[n]
        BY <1>8, <1>9
      <4> QED
        BY <1>6, <4>1, <4>2
    <3> QED
      BY <1>5, <1>11, <1>13, <2>1, <3>1
  <2>2. CASE k # current
    <3>1. runs'[k] = runs[k] /\ Done(k)
      BY <1>13, <2>2 DEF Done
    <3>2. /\ DOMAIN runs[k].catalog \subseteq OfShop(runs[k].shop)
          /\ \A i \in DOMAIN runs[k].catalog : \E r \in RowIds : history[r].set = i /\ history[r].run = k
      BY <1>0, <3>1 DEF RowsInv, AllIsStored
    <3>3. RowIds \subseteq RowIds'
      BY <1>8, <1>9
    <3> QED
      BY <1>16, <3>1, <3>2, <3>3
  <2> QED
    BY <2>1, <2>2
<1>22. /\ SuccessfulRuns(s)' = SuccessfulRuns(s) \cup {current}
       /\ \A t : t # s => SuccessfulRuns(t)' = SuccessfulRuns(t)
  <2>1. DOMAIN runs = 1 .. Len(runs) /\ DOMAIN runs' = 1 .. Len(runs)
    BY <1>0, <1>13 DEF TypeInv
  <2> QED
    BY <1>3, <1>11, <1>13, <2>1 DEF SuccessfulRuns
<1>23. ActiveIsLatest'
  <2> SUFFICES ASSUME NEW i \in Listings
               PROVE  i \in active' <=>
                        \E k \in 1 .. Len(runs) : IsLast(k, Shop[i])' /\ i \in DOMAIN runs'[k].catalog
    BY <1>13 DEF ActiveIsLatest
  <2>1. CASE Shop[i] = s
    <3>1. i \in active' <=> i \in DOMAIN cat
      BY <1>2, <2>1 DEF StillActive, OfShop
    <3>2. \A k \in 1 .. Len(runs) : IsLast(k, s)' <=> k = current
      <4>1. \A k \in SuccessfulRuns(s)' : k \in 1 .. Len(runs) /\ k <= current
        BY <1>0, <1>3, <1>13, <1>22 DEF SuccessfulRuns, TypeInv
      <4> QED
        BY <1>0, <1>3, <1>22, <4>1 DEF IsLast, TypeInv
    <3> QED
      BY <1>3, <1>11, <1>13, <2>1, <3>1, <3>2
  <2>2. CASE Shop[i] # s
    <3>1. i \in active' <=> i \in active
      BY <1>2, <1>5, <2>2 DEF StillActive, OfShop
    <3>2. \A k : IsLast(k, Shop[i])' <=> IsLast(k, Shop[i])
      BY <1>22, <2>2 DEF IsLast
    <3>3. \A k \in 1 .. Len(runs) : IsLast(k, Shop[i]) => k # current
      BY <1>3, <2>2 DEF IsLast, SuccessfulRuns
    <3>4. i \in active <=> \E k \in 1 .. Len(runs) : IsLast(k, Shop[i]) /\ i \in DOMAIN runs[k].catalog
      BY <1>0 DEF ActiveIsLatest
    <3> QED
      BY <1>13, <3>1, <3>2, <3>3, <3>4
  <2> QED
    BY <2>1, <2>2
<1>24. LastUsedIsLast'
  <2> SUFFICES ASSUME lastUsed' # 0
               PROVE  \E r \in RowIds' : /\ CurrencyOf(history'[r]) = "DKK" /\ history'[r].rate = lastUsed'
                                         /\ \A q \in RowIds' : r < q => CurrencyOf(history'[q]) # "DKK"
    BY DEF LastUsedIsLast, CurrencyOf
  <2>0. \A r \in RowIds' : r \notin RowIds => CurrencyOf(history'[r]) = Currency[s]
    BY <1>5, <1>17 DEF CurrencyOf, OfShop
  <2>1. CASE Currency[s] = "DKK" /\ DOMAIN cat # {}
    <3>1. Len(rows) > 0
      BY <1>6, <1>8, <2>1
    <3>2. N + Len(rows) \in RowIds' /\ N + Len(rows) \notin RowIds
      BY <1>8, <1>9, <3>1
    <3>3. \A q \in RowIds' : ~ (N + Len(rows) < q)
      BY <1>8, <1>9
    <3>4. lastUsed' = rate
      BY <1>2, <2>1
    <3> QED
      BY <1>17, <2>0, <2>1, <3>2, <3>3, <3>4
  <2>2. CASE ~ (Currency[s] = "DKK" /\ DOMAIN cat # {})
    <3>1. lastUsed' = lastUsed
      BY <1>2, <2>2
    <3>2. PICK r \in RowIds : /\ CurrencyOf(history[r]) = "DKK" /\ history[r].rate = lastUsed
                              /\ \A q \in RowIds : r < q => CurrencyOf(history[q]) # "DKK"
      BY <1>0, <3>1 DEF LastUsedIsLast
    <3>3. r \in RowIds'
      BY <1>8, <1>9
    <3>4. \A q \in RowIds' : q \notin RowIds => CurrencyOf(history'[q]) # "DKK"
      BY <1>17, <2>0, <2>2
    <3>5. \A q \in RowIds : CurrencyOf(history'[q]) = CurrencyOf(history[q])
      BY <1>16
    <3> QED
      BY <1>16, <3>1, <3>2, <3>3, <3>4, <3>5
  <2> QED
    BY <2>1, <2>2
<1> QED
  BY <1>14, <1>15, <1>18, <1>19, <1>20, <1>21, <1>23, <1>24 DEF PricesInv, RowsInv

LEMMA StepInv == PricesInv /\ [Next]_vars => PricesInv'
BY LoadRatesInv, StartRunInv, ApplyRunInv, FailRunInv, LeaveInv DEF Next

LEMMA AlwaysPricesInv == Spec => []PricesInv
BY InitInv, StepInv, PTL DEF Spec
-----------------------------------------------------------------------------
(* Type correctness and the rates.                                         *)

\* Rows belong to successful runs, one row for each listing of a run; what is
\* on sale has a row; a collect that is at a shop has a rate and a running run.
THEOREM TypeCorrect == Spec => []TypeOK
<1>1. ASSUME PricesInv
      PROVE  TypeOK
  <2>0. TypeInv /\ CurrentIsNewest /\ RowsAreListed /\ OneRowEach /\ AllIsStored /\ ActiveIsLatest
    BY <1>1 DEF PricesInv, RowsInv
  <2>1. \A k \in 1 .. Len(runs) : runs[k].status \in {"running", "success", "failed"}
    BY <2>0, RunType
  <2>2. \A r \in RowIds : history[r].set \in Listings /\ runs[history[r].run].status = "success"
    BY <2>0, RowType DEF RowsAreListed, Written
  <2>3. ASSUME NEW i \in active
        PROVE  \E r \in RowIds : history[r].set = i
    <3>1. i \in Listings
      BY <2>0, <2>3 DEF TypeInv
    <3>2. PICK k \in 1 .. Len(runs) : IsLast(k, Shop[i]) /\ i \in DOMAIN runs[k].catalog
      BY <2>0, <2>3, <3>1 DEF ActiveIsLatest
    <3>3. Done(k)
      BY <3>2 DEF IsLast, SuccessfulRuns, Done
    <3> QED
      BY <2>0, <3>2, <3>3 DEF AllIsStored
  <2>4. at \in 1 .. Len(ShopOrder) + 1
    BY <2>0 DEF TypeInv
  <2>5. current # 0 => rate # 0 /\ runs[current].status = "running"
    BY <2>0 DEF CurrentIsNewest
  <2>6. \A r, q \in RowIds : history[r].set = history[q].set /\ history[r].run = history[q].run => r = q
    BY <2>0 DEF OneRowEach
  <2> QED
    BY <2>1, <2>2, <2>3, <2>4, <2>5, <2>6 DEF TypeOK
<1>2. PricesInv => TypeOK
  BY <1>1
<1> QED
  BY <1>2, AlwaysPricesInv, PTL

\* A run stores its rows after those there are.
LEMMA ApplyAppends ==
  ASSUME PricesInv, ApplyRun
  PROVE  \E t \in Seq(Row) : history' = history \o t
<1>1. PICK s : s = ShopOrder[at]
  OBVIOUS
<1>2. PICK cat \in Catalogs[s] : history' = history \o RowsOf(cat, current, s, rate)
  BY <1>1 DEF ApplyRun
<1>3. TypeInv /\ current # 0 /\ at <= Len(ShopOrder)
  BY DEF PricesInv, CurrentIsNewest, ApplyRun
<1>4. at \in 1 .. Len(ShopOrder) /\ current \in Nat /\ rate \in Nat
  BY <1>3, ShopsVisited DEF TypeInv
<1>5. s \in Shops /\ MayList(s, cat)
  BY <1>1, <1>2, <1>4, ShopsVisited, ShopsAssumption DEF ShopsAssumption
<1>6. PICK k \in Nat, r \in Nat : k = current /\ r = rate
  BY <1>4
<1>7. RowsOf(cat, k, s, r) \in Seq(Row)
  BY <1>5, RowsOfCatalog DEF Fit
<1> QED
  BY <1>2, <1>6, <1>7

LEMMA StoredStays == PricesInv /\ [Next]_vars => StoredEURStays
<1> SUFFICES ASSUME PricesInv, [Next]_vars
             PROVE  StoredEURStays
  OBVIOUS
<1>1. TypeInv
  BY DEF PricesInv
<1>2. Len(history) \in Nat
  BY <1>1 DEF TypeInv
<1>3. CASE UNCHANGED history
  BY <1>2, <1>3 DEF StoredEURStays
<1>4. CASE ApplyRun
  <2>1. PICK t \in Seq(Row) : history' = history \o t
    BY <1>4, ApplyAppends
  <2>2. /\ Len(history') = Len(history) + Len(t) /\ Len(t) \in Nat
        /\ \A r \in 1 .. Len(history) : history'[r] = history[r]
    BY <1>1, <2>1, Joined DEF TypeInv
  <2> QED
    BY <1>2, <2>2 DEF StoredEURStays, RowIds
<1>5. CASE LoadRates
  <2>1. answer' \in Nat /\ readable' \in BOOLEAN /\ rate' = Chosen(answer', readable')
    BY <1>5, RatesAssumption DEF RatesAssumption, LoadRates, Plausible
  <2>2. rate' \in Nat
    BY <1>1, <2>1, ChosenIsPositive
  <2>3. history' = history \/ history' = BackfillEUR(rate')
    BY <1>5 DEF LoadRates
  <2>4. PICK r \in Nat : r = rate'
    BY <2>2
  <2>5. CASE history' = BackfillEUR(r)
    BY <1>1, <1>2, <2>5, BackfillFills DEF StoredEURStays
  <2> QED
    BY <1>3, <2>3, <2>4, <2>5
<1> QED
  BY <1>3, <1>4, <1>5 DEF Next, StartRun, FailRun, Leave, vars

LEMMA FallbackIsLastUsed == PricesInv /\ [Next]_vars => RateIsLastUsed
<1> SUFFICES ASSUME PricesInv, [Next]_vars, rate = 0, rate' # 0, ~ Plausible(answer'), readable', lastUsed # 0
             PROVE  rate' = lastUsed
  BY DEF RateIsLastUsed
<1>1. LoadRates
  BY DEF Next, StartRun, ApplyRun, FailRun, NextShop, Leave, vars
<1> DEFINE used == {r \in RowIds : CurrencyOf(history[r]) = "DKK" /\ history[r].rate # 0}
<1>2. PICK r \in RowIds : /\ CurrencyOf(history[r]) = "DKK" /\ history[r].rate = lastUsed
                          /\ \A q \in RowIds : r < q => CurrencyOf(history[q]) # "DKK"
  BY DEF PricesInv, LastUsedIsLast
<1>3. Len(history) \in Nat /\ used \in SUBSET (0 .. Len(history)) /\ r \in used
  BY <1>2 DEF PricesInv, TypeInv, RowIds
<1>4. Newest(used) \in used /\ r <= Newest(used)
  BY <1>3, NewestIsGreatest
<1>5. Newest(used) = r
  BY <1>2, <1>3, <1>4
<1>6. LastRate = lastUsed
  BY <1>2, <1>3, <1>5 DEF LastRate
<1>7. rate' = Chosen(answer', readable')
  BY <1>1 DEF LoadRates
<1> QED
  BY <1>6, <1>7 DEF Chosen

\* No step changes a price or a EUR value once stored, and a collect without a
\* plausible answer converts with the rate last used.
THEOREM EURIsWhatItWas == Spec => EURIsKept
<1>1. PricesInv /\ [Next]_vars => [StoredEURStays /\ RateIsLastUsed]_vars
  BY StoredStays, FallbackIsLastUsed
<1> QED
  BY <1>1, AlwaysPricesInv, PTL DEF Spec, EURIsKept
-----------------------------------------------------------------------------
(* The chart of a listing: its records are what its shop's successful runs *)
(* found of it, one for each of them.                                      *)

Seen(i) == {k \in SuccessfulRuns(Shop[i]) : i \in DOMAIN runs[k].catalog}
RecordOf(i, k) == CHOOSE rec \in Records(i) : rec.run = k

LEMMA RecordsAreSeen ==
  ASSUME PricesInv, NEW i \in Listings
  PROVE  /\ Seen(i) = {rec.run : rec \in Records(i)}
         /\ SuccessfulRuns(Shop[i]) \in SUBSET (0 .. Len(runs)) /\ Len(runs) \in Nat
         /\ \A r \in RowIds : history[r].set = i => history[r].run \in Seen(i) /\ history[r] \in Records(i)
         /\ \A k \in Seen(i) : \E r \in RowIds : history[r].set = i /\ history[r].run = k
         /\ \A r \in RowIds : history[r].set = i => RecordOf(i, history[r].run) = history[r]
<1>0. TypeInv /\ RowsAreListed /\ OneRowEach /\ AllIsStored
  BY DEF PricesInv, RowsInv
<1>1. DOMAIN runs = 1 .. Len(runs) /\ Len(runs) \in Nat
  BY <1>0 DEF TypeInv
<1>2. ASSUME NEW r \in RowIds, history[r].set = i
      PROVE  history[r].run \in Seen(i) /\ history[r] \in Records(i)
  <2>1. Written(history[r])
    BY <1>0 DEF RowsAreListed
  <2> QED
    BY <1>1, <1>2, <2>1 DEF Seen, SuccessfulRuns, Written, Records
<1>3. ASSUME NEW k \in Seen(i)
      PROVE  \E r \in RowIds : history[r].set = i /\ history[r].run = k
  <2>1. k \in 1 .. Len(runs) /\ Done(k) /\ i \in DOMAIN runs[k].catalog
    BY <1>1 DEF Seen, SuccessfulRuns, Done
  <2> QED
    BY <1>0, <2>1 DEF AllIsStored
<1>4. \A rec \in Records(i) : \E r \in RowIds : history[r].set = i /\ rec = history[r]
  BY DEF Records
<1>5. Seen(i) = {rec.run : rec \in Records(i)}
  <2>1. \A k \in Seen(i) : k \in {rec.run : rec \in Records(i)}
    BY <1>2, <1>3
  <2>2. \A rec \in Records(i) : rec.run \in Seen(i)
    BY <1>2, <1>4
  <2> QED
    BY <2>1, <2>2
<1>6. ASSUME NEW r \in RowIds, history[r].set = i
      PROVE  RecordOf(i, history[r].run) = history[r]
  <2>1. history[r] \in Records(i)
    BY <1>2, <1>6
  <2>2. \A rec \in Records(i) : rec.run = history[r].run => rec = history[r]
    BY <1>0, <1>4, <1>6 DEF OneRowEach
  <2> QED
    BY <2>1, <2>2 DEF RecordOf
<1>7. SuccessfulRuns(Shop[i]) \in SUBSET (0 .. Len(runs))
  BY <1>1 DEF SuccessfulRuns
<1> QED
  BY <1>1, <1>2, <1>3, <1>5, <1>6, <1>7

LEMMA EntriesAre ==
  ASSUME PricesInv, NEW i \in Listings
  PROVE  /\ DOMAIN Entries(i) =
              {k \in SuccessfulRuns(Shop[i]) :
                 Seen(i) # {} /\ k >= Least(Seen(i)) /\ (k \in Seen(i) => RecordOf(i, k).rate # 0)}
         /\ \A k \in DOMAIN Entries(i) :
              Entries(i)[k] = IF k \in Seen(i)
                              THEN [listed |-> TRUE, stock |-> RecordOf(i, k).stock,
                                    eur |-> RecordOf(i, k).eur, cents |-> RecordOf(i, k).cents]
                              ELSE [listed |-> FALSE]
<1> DEFINE recorded == {rec.run : rec \in Records(i)}
<1>1. recorded = Seen(i)
  BY RecordsAreSeen
<1> DEFINE Rec(k) == CHOOSE rec \in Records(i) : rec.run = k
           shown == {k \in SuccessfulRuns(Shop[i]) :
                       recorded # {} /\ k >= Least(recorded) /\ (k \in recorded => Rec(k).rate # 0)}
           Entry(k) == IF k \in recorded
                       THEN [listed |-> TRUE, stock |-> Rec(k).stock, eur |-> Rec(k).eur, cents |-> Rec(k).cents]
                       ELSE [listed |-> FALSE]
<1>2. Entries(i) = [k \in shown |-> Entry(k)]
  BY DEF Entries
<1>3. \A k : Rec(k) = RecordOf(i, k)
  BY DEF RecordOf
<1> HIDE DEF recorded, Rec
<1> QED
  BY <1>1, <1>2, <1>3

\* The chart has a gap for each successful run since the listing was first
\* seen that did not find it, and for no other; a point shows the price its
\* run found; and only a price without a EUR value has no point.
THEOREM ChartShowsRuns == Spec => []ChartIsWhatWasListed
<1>1. ASSUME PricesInv
      PROVE  ChartIsWhatWasListed
  <2> SUFFICES ASSUME NEW i \in Listings
               PROVE  LET done == {k \in 1 .. Len(runs) : runs[k].shop = Shop[i] /\ runs[k].status = "success"}
                          seen == {k \in done : i \in DOMAIN runs[k].catalog}
                          due == {k \in done : \E j \in seen : j <= k}
                          es == Entries(i)
                      IN  /\ {k \in DOMAIN es : ~es[k].listed} = due \ seen
                          /\ \A k \in DOMAIN es : es[k].listed =>
                                k \in seen /\ es[k].cents = runs[k].catalog[i].cents
                          /\ \A k \in seen \ DOMAIN es : \E rec \in Records(i) : rec.run = k /\ rec.rate = 0
    BY DEF ChartIsWhatWasListed
  <2> DEFINE S == SuccessfulRuns(Shop[i])
             G == Seen(i)
             es == Entries(i)
  <2>1. DOMAIN runs = 1 .. Len(runs)
    BY <1>1 DEF PricesInv, TypeInv
  <2>2. S = {k \in 1 .. Len(runs) : runs[k].shop = Shop[i] /\ runs[k].status = "success"}
    BY <2>1 DEF SuccessfulRuns
  <2>3. G = {k \in S : i \in DOMAIN runs[k].catalog}
    BY DEF Seen
  <2>4. /\ S \in SUBSET Nat /\ G \in SUBSET S
    BY <1>1, <2>3, RecordsAreSeen
  <2>5. ASSUME NEW k \in G
        PROVE  /\ \E rec \in Records(i) : rec = RecordOf(i, k) /\ rec.run = k
               /\ RecordOf(i, k).cents = runs[k].catalog[i].cents
    <3>1. PICK r \in RowIds : history[r].set = i /\ history[r].run = k
      BY <1>1, RecordsAreSeen
    <3>2. history[r] \in Records(i) /\ RecordOf(i, k) = history[r]
      BY <1>1, <3>1, RecordsAreSeen
    <3>3. Written(history[r])
      BY <1>1 DEF PricesInv, RowsInv, RowsAreListed
    <3> QED
      BY <3>1, <3>2, <3>3 DEF Written
  <2>6. /\ DOMAIN es = {k \in S : G # {} /\ k >= Least(G) /\ (k \in G => RecordOf(i, k).rate # 0)}
        /\ \A k \in DOMAIN es : es[k].listed <=> k \in G
        /\ \A k \in DOMAIN es : k \in G => es[k].cents = RecordOf(i, k).cents
    BY <1>1, EntriesAre
  <2>7. G # {} => Least(G) \in G /\ \A k \in G : Least(G) <= k
    BY <2>4, LeastIsLeast
  <2> HIDE DEF S, G, es
  <2>8. \A k \in S : (G # {} /\ k >= Least(G)) <=> \E j \in G : j <= k
    <3>1. \A k \in S, j \in G : k \in Nat /\ j \in Nat
      BY <2>4
    <3>2. ASSUME NEW k \in S, NEW j \in G, j <= k
          PROVE  k >= Least(G)
      <4>1. Least(G) \in G /\ Least(G) <= j
        BY <2>7
      <4> QED
        BY <3>1, <3>2, <4>1
    <3>3. ASSUME NEW k \in S, G # {}, k >= Least(G)
          PROVE  \E j \in G : j <= k
      BY <2>7, <3>1, <3>3
    <3> QED
      BY <3>2, <3>3
  <2>9. {k \in DOMAIN es : ~es[k].listed} = {k \in S : \E j \in G : j <= k} \ G
    BY <2>6, <2>8
  <2>10. \A k \in DOMAIN es : es[k].listed => k \in G /\ es[k].cents = runs[k].catalog[i].cents
    BY <2>5, <2>6
  <2>11. ASSUME NEW k \in G, k \notin DOMAIN es
         PROVE  \E rec \in Records(i) : rec.run = k /\ rec.rate = 0
    <3>1. k \in S /\ G # {} /\ k >= Least(G)
      BY <2>4, <2>7
    <3>2. RecordOf(i, k).rate = 0
      BY <2>6, <2>11, <3>1
    <3> QED
      BY <2>5, <3>2
  <2> QED
    BY <2>2, <2>3, <2>9, <2>10, <2>11 DEF es
<1>2. PricesInv => ChartIsWhatWasListed
  BY <1>1
<1> QED
  BY <1>2, AlwaysPricesInv, PTL
-----------------------------------------------------------------------------
(* Search.                                                                 *)

\* What a search shows of a listing: its newest row, and prices not above it.
LEMMA SearchRowIsNewest ==
  ASSUME PricesInv, NEW i \in Listings, \E r \in RowIds : history[r].set = i
  PROVE  \E m \in RowIds :
           /\ history[m].set = i /\ \A q \in RowIds : history[q].set = i => q <= m
           /\ SearchRow(i).set = i /\ SearchRow(i).stock = history[m].stock
           /\ SearchRow(i).cents = history[m].cents /\ SearchRow(i).eur = history[m].eur
           /\ SearchRow(i).hasEUR = (history[m].rate # 0)
           /\ SearchRow(i).lowest <= SearchRow(i).cents
           /\ SearchRow(i).hasEUR => SearchRow(i).lowestEUR <= SearchRow(i).eur
<1> DEFINE ids == {r \in RowIds : history[r].set = i}
           m == Newest(ids)
           centsOf == {history[r].cents : r \in ids}
           eurOf == {history[r].eur : r \in {q \in ids : history[q].rate # 0}}
<1>0. TypeInv
  BY DEF PricesInv
<1>1. Len(history) \in Nat /\ ids \in SUBSET (0 .. Len(history)) /\ ids # {}
  BY <1>0 DEF TypeInv, RowIds
<1>2. m \in ids /\ \A q \in ids : q <= m
  BY <1>1, NewestIsGreatest
<1>3. SearchRow(i) = [set |-> i, cents |-> history[m].cents, stock |-> history[m].stock, eur |-> history[m].eur,
                      hasEUR |-> history[m].rate # 0, lowest |-> LowestOf(centsOf), lowestEUR |-> LowestOf(eurOf)]
  BY DEF SearchRow
<1>4. \A r \in ids : history[r].cents \in Nat /\ history[r].eur \in Nat
  BY <1>0, RowType
<1> HIDE DEF m
<1>5. LowestOf(centsOf) <= history[m].cents
  <2>1. centsOf \in SUBSET Nat /\ history[m].cents \in centsOf
    BY <1>2, <1>4
  <2> QED
    BY <2>1, LeastIsLeast DEF LowestOf
<1>6. ASSUME history[m].rate # 0
      PROVE  LowestOf(eurOf) <= history[m].eur
  <2>1. eurOf \in SUBSET Nat /\ history[m].eur \in eurOf
    BY <1>2, <1>4, <1>6
  <2> QED
    BY <2>1, LeastIsLeast DEF LowestOf
<1> HIDE DEF centsOf, eurOf
<1>7. m \in RowIds /\ history[m].set = i /\ \A q \in RowIds : history[q].set = i => q <= m
  BY <1>2
<1>8. /\ SearchRow(i).set = i /\ SearchRow(i).stock = history[m].stock
      /\ SearchRow(i).cents = history[m].cents /\ SearchRow(i).eur = history[m].eur
      /\ SearchRow(i).hasEUR = (history[m].rate # 0)
      /\ SearchRow(i).lowest = LowestOf(centsOf) /\ SearchRow(i).lowestEUR = LowestOf(eurOf)
  BY <1>3
<1> QED
  BY <1>5, <1>6, <1>7, <1>8

LEMMA ChartEnds ==
  ASSUME PricesInv, NEW i \in Listings, DOMAIN Entries(i) # {}
  PROVE  LET e == Entries(i)[Newest(DOMAIN Entries(i))] IN
         IF i \in active
         THEN SearchRow(i).hasEUR => e.listed /\ e.eur = SearchRow(i).eur /\ e.stock = SearchRow(i).stock
         ELSE ~e.listed
<1> DEFINE S == SuccessfulRuns(Shop[i])
           G == Seen(i)
           es == Entries(i)
<1>0. TypeInv /\ OneRowEach /\ RowsInOrder /\ ActiveIsLatest
  BY DEF PricesInv, RowsInv
<1>1. /\ S \in SUBSET (0 .. Len(runs)) /\ Len(runs) \in Nat
      /\ G = {k \in S : i \in DOMAIN runs[k].catalog}
  BY RecordsAreSeen DEF Seen
<1>2. /\ DOMAIN es = {k \in S : G # {} /\ k >= Least(G) /\ (k \in G => RecordOf(i, k).rate # 0)}
      /\ \A k \in DOMAIN es :
           /\ es[k].listed <=> k \in G
           /\ k \in G => es[k].eur = RecordOf(i, k).eur /\ es[k].stock = RecordOf(i, k).stock
  BY EntriesAre
<1>3. G # {} /\ S # {}
  BY <1>2
<1>4. Least(G) \in G /\ \A k \in G : Least(G) <= k
  <2>1. G \in SUBSET Nat
    BY <1>1
  <2> HIDE DEF G
  <2> QED
    BY <1>3, <2>1, LeastIsLeast
<1>5. S = {k \in 1 .. Len(runs) : k \in S}
  BY <1>0 DEF SuccessfulRuns, TypeInv
<1>6. i \in active <=> \E k \in 1 .. Len(runs) : IsLast(k, Shop[i]) /\ i \in DOMAIN runs[k].catalog
  BY <1>0 DEF ActiveIsLatest
<1>7. PICK k \in S : \A j \in S : j <= k
  BY <1>1, <1>3, BoundedHasGreatest
<1> HIDE DEF S, G, es
<1>8. i \in active <=> k \in G
  <2>1. \A j \in 1 .. Len(runs) : IsLast(j, Shop[i]) => j = k
    BY <1>1, <1>7 DEF IsLast, S
  <2>2. IsLast(k, Shop[i]) /\ k \in 1 .. Len(runs)
    BY <1>5, <1>7 DEF IsLast, S
  <2> QED
    BY <1>1, <1>6, <2>1, <2>2
<1>9. k >= Least(G) /\ k \in Nat
  <2>1. Least(G) \in S /\ Least(G) <= k
    BY <1>1, <1>4, <1>7
  <2> QED
    BY <1>1, <2>1
<1>10. ASSUME k \in DOMAIN es
       PROVE  Newest(DOMAIN es) = k
  <2>1. DOMAIN es \in SUBSET (0 .. Len(runs)) /\ DOMAIN es # {} /\ \A j \in DOMAIN es : j <= k
    BY <1>1, <1>2, <1>7, <1>10
  <2>2. Newest(DOMAIN es) \in DOMAIN es /\ k <= Newest(DOMAIN es)
    BY <1>1, <1>10, <2>1, NewestIsGreatest
  <2> QED
    BY <1>1, <2>1, <2>2
<1>11. CASE i \in active
  <2>1. k \in G
    BY <1>8, <1>11
  <2>2. PICK r \in RowIds : history[r].set = i /\ history[r].run = k
    BY <2>1, RecordsAreSeen DEF G
  <2>3. RecordOf(i, k) = history[r]
    BY <2>2, RecordsAreSeen
  <2>4. PICK m \in RowIds :
          /\ history[m].set = i /\ \A q \in RowIds : history[q].set = i => q <= m
          /\ SearchRow(i).stock = history[m].stock /\ SearchRow(i).eur = history[m].eur
          /\ SearchRow(i).hasEUR = (history[m].rate # 0)
    BY <2>2, SearchRowIsNewest
  <2>5. r <= m
    BY <2>2, <2>4
  <2>6. history[r].run <= history[m].run
    BY <1>0, <2>5 DEF RowsInOrder
  <2>7. history[m].run \in G
    BY <2>4, RecordsAreSeen DEF G
  <2>8. history[m].run <= k /\ history[m].run \in Nat
    BY <1>1, <1>7, <2>7
  <2>9. m = r
    BY <1>0, <1>9, <2>2, <2>4, <2>6, <2>8 DEF OneRowEach
  <2>10. ASSUME SearchRow(i).hasEUR
         PROVE  es[Newest(DOMAIN es)].listed /\ es[Newest(DOMAIN es)].eur = SearchRow(i).eur
                /\ es[Newest(DOMAIN es)].stock = SearchRow(i).stock
    <3>1. RecordOf(i, k).rate # 0
      BY <2>3, <2>4, <2>9, <2>10
    <3>2. k \in DOMAIN es
      BY <1>2, <1>3, <1>7, <1>9, <3>1
    <3>3. Newest(DOMAIN es) = k
      BY <1>10, <3>2
    <3> QED
      BY <1>2, <2>1, <2>3, <2>4, <2>9, <3>2, <3>3
  <2> QED
    BY <1>11, <2>10 DEF es
<1>12. CASE i \notin active
  <2>1. k \notin G
    BY <1>8, <1>12
  <2>2. k \in DOMAIN es
    BY <1>2, <1>3, <1>7, <1>9, <2>1
  <2>3. Newest(DOMAIN es) = k
    BY <1>10, <2>2
  <2> QED
    BY <1>2, <1>12, <2>1, <2>2, <2>3 DEF es
<1> QED
  BY <1>11, <1>12

\* A listing that is on sale costs what its chart ends with, one that is not
\* has a chart that ends in a gap; the lowest price shown is not above the
\* current one.
THEOREM ChartAndSearchAgree == Spec => []SearchAgreesWithChart
<1>1. ASSUME PricesInv
      PROVE  SearchAgreesWithChart
  <2>0. TypeInv
    BY <1>1 DEF PricesInv
  <2>1. ASSUME NEW i \in {history[r].set : r \in RowIds}, DOMAIN Entries(i) # {}
        PROVE  LET e == Entries(i)[Newest(DOMAIN Entries(i))] IN
               IF i \in active
               THEN SearchRow(i).hasEUR => e.listed /\ e.eur = SearchRow(i).eur /\ e.stock = SearchRow(i).stock
               ELSE ~e.listed
    <3>1. i \in Listings
      BY <2>0, RowType
    <3> QED
      BY <1>1, <2>1, <3>1, ChartEnds
  <2>2. ASSUME NEW row \in SearchSets(None)
        PROVE  ResultJSON(row).lowest <= ResultJSON(row).current
    <3>1. PICK i \in active : row = SearchRow(i) /\ \E r \in RowIds : history[r].set = i
      BY DEF SearchSets
    <3>2. i \in Listings
      BY <2>0 DEF TypeInv
    <3>3. row.lowest <= row.cents /\ (row.hasEUR => row.lowestEUR <= row.eur)
      BY <1>1, <3>1, <3>2, SearchRowIsNewest
    <3> QED
      BY <3>3 DEF ResultJSON
  <2> QED
    BY <2>1, <2>2 DEF SearchAgreesWithChart
<1>2. PricesInv => SearchAgreesWithChart
  BY <1>1
<1> QED
  BY <1>2, AlwaysPricesInv, PTL
-----------------------------------------------------------------------------
(* The kits of a search.                                                   *)

\* Rows that differ are ordered, so that one comes first.
LEMMA SomeRowIsFirst ==
  ASSUME NEW rows, rows # {},
         \A p \in rows : Rank(p)[1] \in Nat /\ Rank(p)[2] \in Nat /\ p.set \in Nat,
         \A p, q \in rows : p.set = q.set => p = q
  PROVE  FirstOf(rows) \in rows /\ \A q \in rows \ {FirstOf(rows)} : Before(FirstOf(rows), q)
<1> DEFINE ranks == {Rank(p)[1] : p \in rows}
<1>1. PICK a \in rows : \A q \in rows : Rank(a)[1] <= Rank(q)[1]
  <2>1. ranks \in SUBSET Nat /\ ranks # {}
    OBVIOUS
  <2>2. PICK c \in ranks : \A d \in ranks : c <= d
    BY <2>1, NatHasLeast
  <2> QED
    BY <2>2
<1> DEFINE like == {p \in rows : Rank(p)[1] = Rank(a)[1]}
           costs == {Rank(p)[2] : p \in like}
<1>2. PICK b \in like : \A q \in like : Rank(b)[2] <= Rank(q)[2]
  <2>1. costs \in SUBSET Nat /\ costs # {}
    BY <1>1
  <2>2. PICK c \in costs : \A d \in costs : c <= d
    BY <2>1, NatHasLeast
  <2> QED
    BY <2>2
<1> DEFINE same == {p \in like : Rank(p)[2] = Rank(b)[2]}
           ids == {p.set : p \in same}
<1>3. PICK p \in same : \A q \in same : p.set <= q.set
  <2>1. ids \in SUBSET Nat /\ ids # {}
    BY <1>2
  <2>2. PICK c \in ids : \A d \in ids : c <= d
    BY <2>1, NatHasLeast
  <2> QED
    BY <2>2
<1>4. ASSUME NEW q \in rows \ {p}
      PROVE  Before(p, q)
  <2>1. p \in rows /\ Rank(p)[1] = Rank(a)[1] /\ Rank(p)[2] = Rank(b)[2] /\ p.set # q.set
    BY <1>3
  <2>2. /\ Rank(p)[1] \in Nat /\ Rank(p)[2] \in Nat /\ p.set \in Nat
        /\ Rank(q)[1] \in Nat /\ Rank(q)[2] \in Nat /\ q.set \in Nat
    BY <2>1
  <2>3. Rank(p)[1] <= Rank(q)[1]
    BY <1>1, <2>1
  <2>4. Rank(q)[1] = Rank(p)[1] => Rank(p)[2] <= Rank(q)[2]
    BY <1>2, <2>1
  <2>5. Rank(q)[1] = Rank(p)[1] /\ Rank(q)[2] = Rank(p)[2] => p.set <= q.set
    BY <1>3, <2>1
  <2> QED
    BY <2>1, <2>2, <2>3, <2>4, <2>5 DEF Before
<1>5. p \in rows
  BY <1>3
<1> QED
  BY <1>4, <1>5 DEF FirstOf

\* The rows of a search.
LEMMA FoundRows ==
  ASSUME PricesInv, NEW shop, NEW row \in SearchSets(shop)
  PROVE  /\ row.set \in Listings /\ row.set \in Nat /\ row = SearchRow(row.set)
         /\ row.cents \in Nat /\ row.eur \in Nat /\ row.hasEUR \in BOOLEAN
         /\ row \in SearchSets(None)
<1>0. TypeInv
  BY DEF PricesInv
<1>1. PICK i \in active : row = SearchRow(i) /\ \E r \in RowIds : history[r].set = i
  BY DEF SearchSets
<1>2. i \in Listings
  BY <1>0 DEF TypeInv
<1>3. PICK m \in RowIds : /\ SearchRow(i).set = i /\ SearchRow(i).hasEUR = (history[m].rate # 0)
                          /\ SearchRow(i).cents = history[m].cents /\ SearchRow(i).eur = history[m].eur
  BY <1>1, <1>2, SearchRowIsNewest
<1>4. history[m].cents \in Nat /\ history[m].eur \in Nat
  BY <1>0, RowType
<1>5. row \in SearchSets(None)
  BY <1>1 DEF SearchSets
<1>6. (history[m].rate # 0) \in BOOLEAN
  OBVIOUS
<1> QED
  BY <1>1, <1>2, <1>3, <1>4, <1>5, <1>6, IdsAssumption DEF IdsAssumption

\* Offers that can be bought and compared are ranked by their price in euros,
\* before all others.
LEMMA RankOfRow ==
  ASSUME NEW row, row.cents \in Nat, row.eur \in Nat
  PROVE  /\ Rank(row)[1] \in Nat /\ Rank(row)[2] \in Nat
         /\ Rank(row)[1] = 0 <=> BuyableEUR(row)
         /\ BuyableEUR(row) => Rank(row)[2] = row.eur
  BY DEF Rank, BuyableEUR

LEMMA FirstIsCheapest ==
  ASSUME PricesInv, NEW shop, NEW rows \in SUBSET SearchSets(shop), Cheapest(rows) # {}
  PROVE  FirstOf(rows) \in Cheapest(rows)
<1> DEFINE p == FirstOf(rows)
<1>1. PICK w \in rows : BuyableEUR(w) /\ \A q \in rows : BuyableEUR(q) => w.eur <= q.eur
  BY DEF Cheapest
<1>2. \A q \in rows : q.set \in Nat /\ q.cents \in Nat /\ q.eur \in Nat /\ q = SearchRow(q.set)
  BY FoundRows
<1>3. \A q \in rows : /\ Rank(q)[1] \in Nat /\ Rank(q)[2] \in Nat
                      /\ Rank(q)[1] = 0 <=> BuyableEUR(q)
                      /\ BuyableEUR(q) => Rank(q)[2] = q.eur
  BY <1>2, RankOfRow
<1>4. p \in rows /\ \A q \in rows \ {p} : Before(p, q)
  <2>1. \A q, r \in rows : q.set = r.set => q = r
    BY <1>2
  <2> QED
    BY <1>1, <1>2, <1>3, <2>1, SomeRowIsFirst
<1> HIDE DEF p
<1>5. p = w \/ Before(p, w)
  BY <1>1, <1>4
<1>6. BuyableEUR(p) /\ p.eur <= w.eur
  <2>1. CASE p = w
    BY <1>1, <1>2, <2>1
  <2>2. CASE Before(p, w)
    <3>1. Rank(w)[1] = 0 /\ Rank(w)[2] = w.eur
      BY <1>1, <1>3
    <3>2. Rank(p)[1] = 0
      BY <1>3, <1>4, <2>2, <3>1 DEF Before
    <3>3. Rank(p)[2] <= Rank(w)[2]
      BY <1>3, <1>4, <2>2, <3>1, <3>2 DEF Before
    <3> QED
      BY <1>3, <1>4, <3>1, <3>2, <3>3
  <2> QED
    BY <1>5, <2>1, <2>2
<1>7. \A q \in rows : BuyableEUR(q) => p.eur <= q.eur
  BY <1>1, <1>2, <1>4, <1>6
<1> QED
  BY <1>4, <1>6, <1>7 DEF Cheapest, p

\* A kit is rows of the search with one key.
LEMMA KitOfSearch ==
  ASSUME NEW f, NEW kit \in Products(f)
  PROVE  \E key : /\ kit.rows = {row \in Search(f) : Key(row) = key}
                  /\ kit.first = FirstOf(kit.rows) /\ kit.cheapest = Cheapest(kit.rows)
<1> DEFINE Rows(key) == {row \in Search(f) : Key(row) = key}
<1>1. PICK key \in {Key(row) : row \in Search(f)} :
         kit = [key |-> key, rows |-> Rows(key), first |-> FirstOf(Rows(key)), cheapest |-> Cheapest(Rows(key))]
  BY DEF Products
<1> HIDE DEF Rows
<1>2. kit.rows = Rows(key) /\ kit.first = FirstOf(Rows(key)) /\ kit.cheapest = Cheapest(Rows(key))
  BY <1>1
<1> QED
  BY <1>2 DEF Rows

\* In every search the offer marked cheapest is the one shown first.
THEOREM CheapestIsFirst == Spec => []CheapestComesFirst
<1>1. ASSUME PricesInv
      PROVE  CheapestComesFirst
  <2> SUFFICES ASSUME NEW f \in Filters, NEW kit \in Products(f), kit.cheapest # {}
               PROVE  kit.first \in kit.cheapest
    BY DEF CheapestComesFirst
  <2>1. PICK key : /\ kit.rows = {row \in Search(f) : Key(row) = key}
                   /\ kit.first = FirstOf(kit.rows) /\ kit.cheapest = Cheapest(kit.rows)
    BY KitOfSearch
  <2>2. kit.rows \in SUBSET SearchSets(f.shop)
    BY <2>1 DEF Search
  <2> QED
    BY <1>1, <2>1, <2>2, FirstIsCheapest
<1>2. PricesInv => CheapestComesFirst
  BY <1>1
<1> QED
  BY <1>2, AlwaysPricesInv, PTL
-----------------------------------------------------------------------------
(* The watch wizard.                                                       *)

LEMMA LiveRows ==
  ASSUME NEW spec
  PROVE  /\ Preview(spec).live =
              {row \in SearchSets(None) :
                 /\ \/ Follows(spec, row.set) /\ Selected(spec, row.set)
                    \/ row.set \in spec.include
                 /\ row.set \notin spec.exclude}
         /\ Preview(spec).best =
              {row \in Preview(spec).live :
                 Buyable(row) /\ \A q \in Preview(spec).live : Buyable(q) => row.eur <= q.eur}
<1> DEFINE rows == SearchSets(None)
           suit == {row \in rows : Follows(spec, row.set)}
           matches == {row \in suit : Selected(spec, row.set)} \cup {row \in rows : row.set \in spec.include}
           live == {row \in matches : row.set \notin spec.exclude}
           best == {row \in live : Buyable(row) /\ \A q \in live : Buyable(q) => row.eur <= q.eur}
           missing == spec.variants \ {VariantKey(row.set) : row \in suit}
<1>1. Preview(spec) = [live |-> live, excluded |-> matches \ live, best |-> best, missing |-> missing]
  BY DEF Preview
<1>2. live = {row \in rows : /\ \/ Follows(spec, row.set) /\ Selected(spec, row.set)
                                \/ row.set \in spec.include
                             /\ row.set \notin spec.exclude}
  OBVIOUS
<1>3. best = {row \in live : Buyable(row) /\ \A q \in live : Buyable(q) => row.eur <= q.eur}
  OBVIOUS
<1> HIDE DEF live, best, missing, matches
<1>4. Preview(spec).live = live /\ Preview(spec).best = best
  BY <1>1
<1> QED
  BY <1>2, <1>3, <1>4

\* A watch that follows its own listing has something to follow.
LEMMA FollowingIsSomething ==
  ASSUME NEW i, Follows(DefaultSpec(i), i)
  PROVE  FollowsSomething(DefaultSpec(i))
<1>1. SameSuit(DefaultSpec(i), NewKey(Name[i]), DefaultSpec(i).loose)
  BY DEF Follows
<1> QED
  BY <1>1 DEF SameSuit, BothModels, FollowsSomething

\* One version and no more than one listing are never too many.
LEMMA DefaultIsHeld ==
  ASSUME NEW i, NEW spec,
         LET k == NewKey(Name[i]) IN
         /\ spec.grade = Grade[i] /\ spec.model = k.model /\ spec.tokens = k.tokens
         /\ spec.variants = {k.distinct} /\ spec.include \in {{}, {i}} /\ spec.exclude = {}
  PROVE  Validate(spec) <=> FollowsSomething(spec) /\ CanBeHeld(i)
<1> DEFINE k == NewKey(Name[i])
<1>1. /\ spec.grade = Grade[i] /\ spec.model = k.model /\ spec.tokens = k.tokens
      /\ spec.variants = {k.distinct} /\ spec.include \in {{}, {i}} /\ spec.exclude = {}
  OBVIOUS
<1>2. Cardinality({k.distinct}) = 1 /\ Cardinality({i}) = 1 /\ Cardinality({}) = 0
  BY FS_Singleton, FS_EmptySet
<1> HIDE DEF k
<1>3. /\ Cardinality(spec.variants) <= MaxSpecWords
      /\ Cardinality(spec.include) <= MaxSpecPins /\ Cardinality(spec.exclude) <= MaxSpecPins
  BY <1>1, <1>2, SpecAssumption DEF SpecAssumption
<1>4. (\A v \in spec.variants : VariantLen(v) <= MaxWordLen) <=> VariantLen(k.distinct) <= MaxWordLen
  BY <1>1
<1>5. CanBeHeld(i) <=> /\ Cardinality(k.tokens) <= MaxSpecWords
                       /\ \A w \in k.tokens : Len(w) <= MaxWordLen
                       /\ ModelLen(k.model) <= MaxWordLen /\ Len(Grade[i]) <= MaxWordLen
                       /\ VariantLen(k.distinct) <= MaxWordLen
  BY DEF CanBeHeld, k
<1> QED
  BY <1>1, <1>3, <1>4, <1>5 DEF Validate

LEMMA WatchFollows ==
  ASSUME PricesInv, NEW row \in SearchSets(None)
  PROVE  LET spec == SpecFromSet(row.set)
             p == Preview(spec)
         IN  /\ Validate(spec) <=> CanBeHeld(row.set)
             /\ row \in p.live
             /\ \A q \in p.live : ~GradesConflict(Facts(q.set), Facts(row.set))
<1> DEFINE i == row.set
           spec == SpecFromSet(i)
<1>1. /\ DefaultSpec(i).grade = Grade[i] /\ DefaultSpec(i).variants = {VariantKey(i)}
      /\ DefaultSpec(i).include = {} /\ DefaultSpec(i).exclude = {}
  BY DEF DefaultSpec
<1>2. /\ spec.grade = Grade[i] /\ spec.variants = {VariantKey(i)} /\ spec.exclude = {}
      /\ IF Follows(DefaultSpec(i), i) THEN spec = DefaultSpec(i) ELSE spec.include = {i}
      /\ Follows(DefaultSpec(i), i) => spec.include = {}
  BY <1>1 DEF SpecFromSet, DefaultSpec
<1>3. Validate(spec) <=> CanBeHeld(i)
  <2>1. /\ spec.model = NewKey(Name[i]).model /\ spec.tokens = NewKey(Name[i]).tokens
        /\ spec.variants = {NewKey(Name[i]).distinct} /\ spec.include \in {{}, {i}}
    BY DEF SpecFromSet, DefaultSpec, VariantKey
  <2>2. Validate(spec) <=> FollowsSomething(spec) /\ CanBeHeld(i)
    BY <1>2, <2>1, DefaultIsHeld
  <2>3. FollowsSomething(spec)
    BY <1>2, FollowingIsSomething DEF FollowsSomething
  <2> QED
    BY <2>2, <2>3
<1> HIDE DEF spec
<1>4. Preview(spec).live =
         {q \in SearchSets(None) : (Follows(spec, q.set) /\ Selected(spec, q.set)) \/ q.set \in spec.include}
  BY <1>2, LiveRows
<1>5. row \in Preview(spec).live
  BY <1>2, <1>4 DEF Selected
<1>6. ASSUME NEW q \in Preview(spec).live
      PROVE  ~GradesConflict(Facts(q.set), Facts(i))
  <2>1. Follows(spec, q.set) \/ q.set = i
    BY <1>2, <1>4
  <2>2. Grade[i] = None \/ Grade[q.set] = None \/ Grade[i] = Grade[q.set]
    BY <1>2, <2>1 DEF Follows
  <2> QED
    BY <2>2 DEF GradesConflict, Facts
<1> QED
  BY <1>3, <1>5, <1>6 DEF spec

LEMMA ShopsAreFinite ==
  ASSUME NEW T \in SUBSET Shops
  PROVE  Cardinality(T) \in Nat
<1> DEFINE f == [i \in Listings |-> Shop[i]]
<1>1. f \in Surjection(Listings, Shops)
  BY DEF Surjection, Shops
<1>2. IsFiniteSet(Shops)
  BY <1>1, IdsAssumption, FS_Surjection DEF IdsAssumption
<1> QED
  BY <1>2, FS_Subset, FS_CardinalityType

LEMMA PinsAreTheKit ==
  ASSUME PricesInv,
         NEW kit \in Products([shop |-> None, grade |-> None, names |-> Listings, all |-> TRUE]),
         Cardinality({Shop[row.set] : row \in kit.rows}) > 1
  PROVE  LET pins == {row.set : row \in kit.rows} IN
         Preview([DefaultSpec(Least(pins)) EXCEPT !.include = pins, !.exclude = Listings \ pins]).best = kit.cheapest
<1> DEFINE f == [shop |-> None, grade |-> None, names |-> Listings, all |-> TRUE]
           pins == {row.set : row \in kit.rows}
           spec == [DefaultSpec(Least(pins)) EXCEPT !.include = pins, !.exclude = Listings \ pins]
           rows == kit.rows
<1>1. PICK key : kit.rows = {row \in Search(f) : Key(row) = key} /\ kit.cheapest = Cheapest(kit.rows)
  BY KitOfSearch
<1>2. f.shop = None
  OBVIOUS
<1>3. rows \in SUBSET SearchSets(None)
  BY <1>1, <1>2 DEF Search
<1>4. \A row \in SearchSets(None) : row.set \in Listings /\ row = SearchRow(row.set)
  BY FoundRows
<1>5. \A row \in SearchSets(None) : row.set \in pins <=> row \in rows
  BY <1>3, <1>4
<1>6. spec.include = pins /\ spec.exclude = Listings \ pins
  BY DEF DefaultSpec
<1> HIDE DEF spec, pins, f, rows
<1>7. Preview(spec).live = rows
  BY <1>3, <1>4, <1>5, <1>6, LiveRows
<1>8. Preview(spec).best = {row \in rows : Buyable(row) /\ \A q \in rows : Buyable(q) => row.eur <= q.eur}
  BY <1>7, LiveRows
<1>9. Cardinality({Shop[row.set] : row \in rows}) \in Nat
  <2>1. {Shop[row.set] : row \in rows} \in SUBSET Shops
    BY <1>3, <1>4 DEF Shops
  <2> QED
    BY <2>1, ShopsAreFinite
<1>10. Cheapest(rows) = {row \in rows : BuyableEUR(row) /\ \A q \in rows : BuyableEUR(q) => row.eur <= q.eur}
  BY <1>9 DEF Cheapest, rows
<1>11. \A row : Buyable(row) <=> BuyableEUR(row)
  BY DEF Buyable, BuyableEUR
<1>12. Preview(spec).best = Cheapest(rows)
  BY <1>8, <1>10, <1>11
<1> QED
  BY <1>1, <1>12 DEF spec, pins, rows

\* A watch made from a listing follows that listing and none of another grade,
\* and is refused just when a spec cannot hold what the name says; one made of
\* a kit's listings has the offers the search marks cheapest as its best.
THEOREM WatchAndSearchAgree == Spec => []WatchAgreesWithSearch
<1>1. ASSUME PricesInv
      PROVE  WatchAgreesWithSearch
  <2>1. BestIsCheapest
    BY <1>1, PinsAreTheKit DEF BestIsCheapest
  <2>2. WatchFollowsItsKit
    BY <1>1, WatchFollows DEF WatchFollowsItsKit
  <2> QED
    BY <2>1, <2>2 DEF WatchAgreesWithSearch
<1>2. PricesInv => WatchAgreesWithSearch
  BY <1>1
<1> QED
  BY <1>2, AlwaysPricesInv, PTL
=============================================================================
