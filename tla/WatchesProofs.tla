---------------------------- MODULE WatchesProofs ----------------------------
(***************************************************************************)
(* What a watch tells, for any listings, prices, watches and requests.     *)
(***************************************************************************)
EXTENDS Watches, NaturalOrder, TLAPS

-----------------------------------------------------------------------------
(* Lemmas about the data. *)

LEMMA FirstIsLeast ==
  ASSUME NEW S \in SUBSET Ids, S # {}
  PROVE  First(S) \in S
<1>1. \E i \in S : \A j \in S : i <= j
  BY NatHasLeast, LimitsAssumption DEF Ids
<1> QED
  BY <1>1 DEF First

LEMMA NoneIsNoRow == None \notin Watch /\ None \notin WatchState
<1>1. DOMAIN None = {"none"}
  BY DEF None
<1>2. \A w \in Watch : DOMAIN w = {"spec", "target", "options", "enabled"}
  BY DEF Watch
<1>3. \A st \in WatchState : DOMAIN st = {"last", "buyable", "known"}
  BY DEF WatchState
<1> QED
  BY <1>1, <1>2, <1>3

\* A listing in the catalog has one of its offers.
LEMMA ListedHasOffer ==
  ASSUME NEW w \in Watch, NEW cat \in Catalogs, NEW s \in Live(w, cat)
  PROVE  /\ s \in Sets
         /\ cat[s].price \in Prices /\ cat[s].price \in Nat
         /\ cat[s].buyable \in BOOLEAN
<1>1. s \in Sets /\ cat[s] \in Offers[s]
  BY SetsAssumption DEF Live, Watch, Catalogs
<1>2. cat[s] \in [price : Nat, buyable : BOOLEAN] /\ cat[s] \in AnyOffer
  BY <1>1, OffersAssumption DEF AnyOffer
<1> QED
  BY <1>1, <1>2 DEF Prices

LEMMA PricesAreNaturals == Prices \subseteq Nat
  BY OffersAssumption DEF Prices, AnyOffer

LEMMA StateHasPrice == \A st \in WatchState : st.last \in Nat /\ st.known \in SUBSET Sets
<1>1. \A st \in WatchState : st.last \in Prices \cup {0} /\ st.known \in SUBSET Sets
  BY DEF WatchState
<1>2. \A p \in Prices \cup {0} : p \in Nat
  BY PricesAreNaturals
<1> QED
  BY <1>1, <1>2

LEMMA BestPriceIsLeast ==
  ASSUME NEW w \in Watch, NEW cat \in Catalogs, Buyable(w, cat) # {}
  PROVE  BestPrice(w, cat) \in Prices /\ BestPrice(w, cat) \in Nat
<1> DEFINE P == {cat[s].price : s \in Buyable(w, cat)}
<1>1. \A s \in Buyable(w, cat) : cat[s].price \in Prices /\ cat[s].price \in Nat
  BY ListedHasOffer DEF Buyable
<1>2. P \in SUBSET Nat /\ P # {}
  BY <1>1
<1>3. PICK p \in P : \A q \in P : p <= q
  BY <1>2, NatHasLeast
<1>4. \E s \in Buyable(w, cat) :
        cat[s].price = p /\ \A t \in Buyable(w, cat) : p <= cat[t].price
  BY <1>3
<1>5. p \in Prices
  BY <1>1, <1>3
<1> QED
  BY <1>4, <1>5, PricesAreNaturals DEF BestPrice

\* What an evaluation finds, and the state it saves.
Found == [next : WatchState, seen : BOOLEAN, target : BOOLEAN,
          restock : BOOLEAN, new : SUBSET Sets]

LEMMA LiveIsListed ==
  ASSUME NEW w \in Watch, NEW cat \in Catalogs
  PROVE  Live(w, cat) \in SUBSET Sets /\ Buyable(w, cat) \subseteq Live(w, cat)
  BY SetsAssumption DEF Live, Buyable, Watch

LEMMA NextStateType ==
  ASSUME NEW prev \in WatchState, NEW w \in Watch, NEW cat \in Catalogs
  PROVE  NextState(prev, w, cat) \in WatchState
<1>1. Last(prev.last, w, cat) \in Prices \cup {0}
  BY BestPriceIsLeast DEF Last, Hit, WatchState
<1>2. (Buyable(w, cat) # {}) \in BOOLEAN
  OBVIOUS
<1>3. prev.known \cup Live(w, cat) \in SUBSET Sets
  BY LiveIsListed DEF WatchState
<1> QED
  BY <1>1, <1>2, <1>3 DEF NextState, WatchState

LEMMA EvaluationType ==
  ASSUME NEW prev \in WatchState, NEW seen \in BOOLEAN, NEW w \in Watch, NEW cat \in Catalogs
  PROVE  LET ev == Evaluation(prev, seen, w, cat) IN
         /\ ev \in Found
         /\ ev.target => ev.next.last \in Prices
<1> DEFINE ev == Evaluation(prev, seen, w, cat)
<1>1. NextState(prev, w, cat) \in WatchState
  BY NextStateType
<1> DEFINE target == Hit(w, cat) /\ Drop(prev.last, BestPrice(w, cat))
           restock == /\ seen /\ w.options.onRestock /\ ~target
                      /\ Buyable(w, cat) # {} /\ ~prev.buyable
           new == IF seen /\ w.options.onNew THEN Live(w, cat) \ prev.known ELSE {}
<1>2. target \in BOOLEAN /\ restock \in BOOLEAN
  OBVIOUS
<1>3. new \in SUBSET Sets
  BY LiveIsListed
<1>4. ev = [next |-> NextState(prev, w, cat), seen |-> seen, target |-> target,
            restock |-> restock, new |-> new]
  BY DEF Evaluation
<1>5. \A n \in WatchState : \A a, b, c \in BOOLEAN : \A k \in SUBSET Sets :
        [next |-> n, seen |-> a, target |-> b, restock |-> c, new |-> k] \in Found
  BY DEF Found
<1>6. ev.target => target
  BY DEF Evaluation
<1>7. ev \in Found
  <2> HIDE DEF ev, target, restock, new
  <2> QED
    BY <1>1, <1>2, <1>3, <1>4, <1>5, Zenon
<1>8. ASSUME ev.target PROVE ev.next.last \in Prices
  <2>1. target
    BY <1>6, <1>8
  <2>2. ev.next.last = Last(prev.last, w, cat)
    BY DEF Evaluation, NextState
  <2>3. BestPrice(w, cat) \in Prices
    BY <2>1, BestPriceIsLeast DEF Hit
  <2> QED
    BY <2>1, <2>2, <2>3 DEF Last
<1> QED
  BY <1>7, <1>8

-----------------------------------------------------------------------------
(* What the reader is told, and what is saved. *)

Greatest(S) == S # {} => \E p \in S : \A q \in S : q <= p

LEMMA ReferenceOfOne ==
  ASSUME NEW p \in Nat
  PROVE  Reference({p}) = p /\ Greatest({p})
  BY DEF Reference, Greatest

\* One more price.
LEMMA ReferenceGrows ==
  ASSUME NEW S \in SUBSET Nat, S # {}, Greatest(S), NEW p \in Nat
  PROVE  /\ Greatest(S \cup {p})
         /\ Reference(S) \in S
         /\ Reference(S \cup {p}) = IF p > Reference(S) THEN p ELSE Reference(S)
<1>1. PICK m \in S : \A q \in S : q <= m
  BY DEF Greatest
<1>2. Reference(S) = m
  <2>1. \A k \in S : (\A q \in S : q <= k) => k = m
    BY <1>1
  <2> QED
    BY <1>1, <2>1 DEF Reference
<1> DEFINE n == IF p > m THEN p ELSE m
<1>3. n \in S \cup {p} /\ \A q \in S \cup {p} : q <= n
  BY <1>1
<1>4. Reference(S \cup {p}) = n
  <2>1. \A k \in S \cup {p} : (\A q \in S \cup {p} : q <= k) => k = n
    BY <1>3
  <2> QED
    BY <1>3, <2>1 DEF Reference
<1> QED
  BY <1>1, <1>2, <1>3, <1>4 DEF Greatest

\* Raising the same catalog's alerts again, once its state is saved.
Silent(ev) == IsAlert(ev) => ev.target /\ ev.next.last = 0 /\ ev.new = {}

LEMMA SavedIsSilent ==
  ASSUME NEW prev \in WatchState, NEW w \in Watch, NEW cat \in Catalogs
  PROVE  Silent(Evaluation(NextState(prev, w, cat), TRUE, w, cat))
<1> DEFINE next == NextState(prev, w, cat)
           ev == Evaluation(next, TRUE, w, cat)
           best == BestPrice(w, cat)
<1>1. /\ next.last = Last(prev.last, w, cat)
      /\ next.buyable = (Buyable(w, cat) # {})
      /\ next.known = prev.known \cup Live(w, cat)
  BY DEF NextState
<1>2. ev.new = {}
  BY <1>1 DEF Evaluation
<1>3. ~ev.restock
  BY <1>1 DEF Evaluation
<1>4. ASSUME ev.target PROVE ev.next.last = 0
  <2>1. Hit(w, cat) /\ Drop(next.last, best)
    BY <1>4 DEF Evaluation
  <2>2. best \in Nat /\ prev.last \in Nat
    BY <2>1, BestPriceIsLeast, StateHasPrice DEF Hit
  <2>3. next.last = IF Drop(prev.last, best) \/ best > prev.last THEN best ELSE prev.last
    BY <1>1, <2>1 DEF Last
  <2>4. next.last = best
    BY <2>1, <2>3
  <2>5. best = 0
    BY <2>1, <2>2, <2>4 DEF Drop
  <2>6. ev.next.last = Last(next.last, w, cat)
    BY DEF Evaluation, NextState
  <2> QED
    BY <2>1, <2>5, <2>6 DEF Last
<1> QED
  BY <1>2, <1>3, <1>4 DEF Silent, IsAlert

\* A saved state that follows from the last one, without an alert in between,
\* leaves what the reader was told in step with it.
LEMMA SaveStaysInStep ==
  ASSUME NEW prev \in WatchState, NEW seen \in BOOLEAN, NEW w \in Watch, NEW cat \in Catalogs,
         NEW t \in Told, Greatest(t.prices), InStep(t, prev),
         ~IsAlert(Evaluation(prev, seen, w, cat))
  PROVE  LET ev == Evaluation(prev, seen, w, cat) IN InStep(Take(t, ev, w, cat), ev.next)
<1> DEFINE ev == Evaluation(prev, seen, w, cat)
           best == BestPrice(w, cat)
           taken == Take(t, ev, w, cat)
<1>1. /\ ev.next.last = Last(prev.last, w, cat)
      /\ ev.next.known = prev.known \cup Live(w, cat)
      /\ ev.target = (Hit(w, cat) /\ Drop(prev.last, best))
  BY DEF Evaluation, NextState
<1>2. ~ev.target
  BY DEF IsAlert
<1>3. taken.sets \subseteq ev.next.known
  BY <1>1 DEF Take, InStep
<1>4. ev.next.last = Reference(taken.prices)
  <2>1. CASE ~Hit(w, cat)
    <3>1. taken.prices = {}
      BY <2>1 DEF Take
    <3> QED
      BY <1>1, <2>1, <3>1 DEF Last, Reference
  <2>2. CASE Hit(w, cat)
    <3>1. ~Drop(prev.last, best)
      BY <1>1, <1>2, <2>2
    <3>2. ev.next.last = IF best > prev.last THEN best ELSE prev.last
      BY <1>1, <2>2, <3>1 DEF Last
    <3>3. prev.last # 0
      BY <3>1 DEF Drop
    <3>4. prev.last = Reference(t.prices) /\ t.prices # {}
      BY <3>3 DEF InStep, Reference
    <3>5. taken.prices = t.prices \cup {best}
      BY <1>2, <2>2, <3>4 DEF Take
    <3>6. t.prices \in SUBSET Nat
      BY PricesAreNaturals DEF Told
    <3>7. best \in Nat
      BY <2>2, BestPriceIsLeast DEF Hit
    <3> HIDE DEF ev, taken, best
    <3> QED
      BY <3>2, <3>4, <3>5, <3>6, <3>7, ReferenceGrows
  <2> QED
    BY <2>1, <2>2
<1> QED
  BY <1>3, <1>4 DEF InStep

\* What a state claims, and the reader was told.
Covers(t, st) ==
  /\ st.last # 0 => t.prices # {}
  /\ st.buyable => t.buyable
  /\ st.known \subseteq t.sets

\* A saved state claims nothing more, when its alert was heard.
LEMMA SaveStaysCovered ==
  ASSUME NEW prev \in WatchState, NEW seen \in BOOLEAN, NEW w \in Watch, NEW cat \in Catalogs,
         NEW t \in Told, NEW ev, ev = Evaluation(prev, seen, w, cat), Covers(t, prev),
         ev.target => t.prices # {} /\ t.buyable,
         ev.restock => t.buyable,
         ev.new \subseteq t.sets
  PROVE  Covers(Take(t, ev, w, cat), ev.next)
<1> DEFINE best == BestPrice(w, cat)
           taken == Take(t, ev, w, cat)
<1>1. /\ ev.next.last = Last(prev.last, w, cat)
      /\ ev.next.buyable = (Buyable(w, cat) # {})
      /\ ev.next.known = prev.known \cup Live(w, cat)
      /\ ev.seen = seen
  BY DEF Evaluation, NextState
<1>2. ev.target = (Hit(w, cat) /\ Drop(prev.last, best))
  BY DEF Evaluation
<1>3. ASSUME ev.next.last # 0 PROVE taken.prices # {}
  <2>1. Hit(w, cat)
    BY <1>1, <1>3 DEF Last
  <2>2. CASE ev.target
    BY <2>1, <2>2 DEF Take
  <2>3. CASE ~ev.target
    <3>1. prev.last # 0
      BY <1>2, <2>1, <2>3 DEF Drop
    <3>2. t.prices # {}
      BY <3>1 DEF Covers
    <3> QED
      BY <2>1, <2>3, <3>2 DEF Take
  <2> QED
    BY <2>2, <2>3
<1>4. ASSUME ev.next.buyable PROVE taken.buyable
  <2>1. taken.buyable = (ev.next.buyable /\ (t.buyable \/ ~ev.seen \/ ~w.options.onRestock))
    BY DEF Take
  <2>2. ASSUME seen, w.options.onRestock PROVE t.buyable
    <3>1. ev.restock = (/\ seen /\ w.options.onRestock /\ ~ev.target
                        /\ Buyable(w, cat) # {} /\ ~prev.buyable)
      BY DEF Evaluation
    <3> QED
      BY <1>1, <1>4, <2>2, <3>1 DEF Covers
  <2> QED
    BY <1>1, <1>4, <2>1, <2>2
<1>5. ev.next.known \subseteq taken.sets
  <2>1. CASE seen /\ w.options.onNew
    <3>1. ev.new = Live(w, cat) \ prev.known
      BY <2>1 DEF Evaluation
    <3>2. taken.sets = t.sets \cup {}
      BY <1>1, <2>1 DEF Take
    <3> QED
      BY <1>1, <3>1, <3>2 DEF Covers
  <2>2. CASE ~(seen /\ w.options.onNew)
    BY <1>1, <2>2 DEF Take
  <2> QED
    BY <2>1, <2>2
<1> QED
  BY <1>3, <1>4, <1>5 DEF Covers

LEMMA TakeType ==
  ASSUME NEW t \in Told, NEW ev \in Found, NEW w \in Watch, NEW cat \in Catalogs
  PROVE  Take(t, ev, w, cat) \in Told
<1>1. \A n \in SUBSET Prices : \A b \in BOOLEAN : \A k \in SUBSET Sets :
        [prices |-> n, buyable |-> b, sets |-> k] \in Told
  BY DEF Told
<1>2. /\ t.prices \in SUBSET Prices /\ t.sets \in SUBSET Sets
      /\ ev.next.known \in SUBSET Sets
  BY StateHasPrice DEF Told, Found
<1>3. (ev.next.buyable /\ (t.buyable \/ ~ev.seen \/ ~w.options.onRestock)) \in BOOLEAN
  OBVIOUS
<1>4. (IF ~Hit(w, cat) THEN {}
       ELSE IF ev.target \/ t.prices = {} THEN t.prices
       ELSE t.prices \cup {BestPrice(w, cat)}) \in SUBSET Prices
  BY <1>2, BestPriceIsLeast DEF Hit
<1>5. (t.sets \cup (IF ev.seen /\ w.options.onNew THEN {} ELSE ev.next.known)) \in SUBSET Sets
  BY <1>2
<1> QED
  BY <1>1, <1>3, <1>4, <1>5, Zenon DEF Take

LEMMA HearType ==
  ASSUME NEW t \in Told, NEW ev \in Found, ev.target => ev.next.last \in Prices
  PROVE  Hear(t, ev) \in Told
<1>1. \A n \in SUBSET Prices : \A b \in BOOLEAN : \A k \in SUBSET Sets :
        [prices |-> n, buyable |-> b, sets |-> k] \in Told
  BY DEF Told
<1>2. (IF ev.target THEN {ev.next.last} ELSE t.prices) \in SUBSET Prices
  BY DEF Told
<1>3. (t.buyable \/ ev.target \/ ev.restock) \in BOOLEAN
  OBVIOUS
<1>4. (t.sets \cup ev.new) \in SUBSET Sets
  BY DEF Told, Found
<1> QED
  BY <1>1, <1>2, <1>3, <1>4, Zenon DEF Hear

-----------------------------------------------------------------------------
(* Types, whatever overlaps. *)

CatalogOK == catalog \in Catalogs /\ snap \in Catalogs
RowsOK ==
  /\ watches \in [Ids -> Watch \cup {None}]
  /\ state \in [Ids -> WatchState \cup {None}]
  /\ \A i \in Ids : state[i] # None => watches[i] # None
PassOK ==
  /\ pc \in {"idle", "snapshot", "evaluate", "send", "commit"}
  /\ listed \in [Ids -> Watch \cup {None}]
  /\ todo \subseteq {i \in Ids : listed[i] # None}
  /\ DOMAIN pending \subseteq {i \in Ids : listed[i] # None}
  /\ \A i \in DOMAIN pending :
       pending[i] \in Found /\ (pending[i].target => pending[i].next.last \in Prices)
  /\ pc \in {"idle", "snapshot"} => todo = {} /\ DOMAIN pending = {}
EditOK ==
  /\ epc \in [Editors -> {"idle", "loaded", "counted"}]
  /\ DOMAIN edit = Editors
  /\ \A e \in Editors :
       /\ (epc[e] = "idle") <=> (edit[e] = None)
       /\ epc[e] = "loaded" =>
            edit[e].id \in Ids /\ edit[e].new \in Watch /\ edit[e].old \in Watch
       /\ epc[e] = "counted" => edit[e].new \in Watch
HistoryOK ==
  told \in [Ids -> Told] /\ owed \subseteq Ids /\ fresh \in BOOLEAN /\ settled \in BOOLEAN

TypeInv == CatalogOK /\ RowsOK /\ PassOK /\ EditOK /\ HistoryOK

LEMMA TypeInvTypes == TypeInv => TypeOK
<1> SUFFICES ASSUME TypeInv PROVE TypeOK
  OBVIOUS
<1>1. \A i \in DOMAIN pending :
        pending[i] \in [next : WatchState, seen : BOOLEAN, target : BOOLEAN,
                        restock : BOOLEAN, new : SUBSET Sets]
  BY DEF TypeInv, PassOK, Found
<1> QED
  BY <1>1, Zenon DEF TypeInv, TypeOK, CatalogOK, RowsOK, PassOK, EditOK, HistoryOK

LEMMA NothingTypes ==
  /\ NothingTold \in Told /\ NoState \in WatchState
  /\ [s \in Sets |-> Unlisted] \in Catalogs
  /\ DOMAIN <<>> = {}
<1>1. NothingTold \in Told
  BY DEF NothingTold, Told
<1>2. NoState \in WatchState
  BY DEF NoState, WatchState
<1>3. [s \in Sets |-> Unlisted] \in Catalogs
  BY DEF Catalogs
<1> QED
  BY <1>1, <1>2, <1>3

LEMMA InitTypes == Init => TypeInv
<1> SUFFICES ASSUME Init PROVE TypeInv
  OBVIOUS
<1>1. CatalogOK
  BY NothingTypes DEF Init, CatalogOK
<1>2. RowsOK
  BY DEF Init, RowsOK
<1>3. PassOK
  BY NothingTypes DEF Init, PassOK
<1>4. EditOK
  BY DEF Init, EditOK
<1>5. HistoryOK
  BY NothingTypes DEF Init, HistoryOK
<1> QED
  BY <1>1, <1>2, <1>3, <1>4, <1>5 DEF TypeInv

LEMMA StopTypes ==
  ASSUME TypeInv, Stop
  PROVE  PassOK' /\ snap' \in Catalogs
<1>1. PassOK'
  BY NothingTypes DEF Stop, PassOK
<1> QED
  BY <1>1, NothingTypes DEF Stop

LEMMA HeardTypes ==
  ASSUME TypeInv, NEW ids \in SUBSET Alerts(pending), Heard(ids)
  PROVE  told' \in [Ids -> Told] /\ owed' \subseteq Ids
<1>1. ids \subseteq DOMAIN pending /\ ids \subseteq Ids
  BY DEF Alerts, TypeInv, PassOK
<1>2. \A i \in ids : Hear(told[i], pending[i]) \in Told
  BY <1>1, HearType DEF TypeInv, PassOK, HistoryOK
<1> QED
  BY <1>1, <1>2 DEF Heard, TypeInv, HistoryOK

LEMMA ForgetTypes ==
  ASSUME TypeInv, NEW i \in Ids, Forget(i)
  PROVE  told' \in [Ids -> Told] /\ owed' \subseteq Ids
  BY NothingTypes DEF TypeInv, HistoryOK, Forget

\* What a step leaves alone keeps its type.
LEMMA UnchangedTypes ==
  ASSUME TypeInv
  PROVE  /\ UNCHANGED <<catalog, snap>> => CatalogOK'
         /\ UNCHANGED <<watches, state>> => RowsOK'
         /\ UNCHANGED <<pc, listed, todo, pending>> => PassOK'
         /\ UNCHANGED <<epc, edit>> => EditOK'
         /\ UNCHANGED <<told, owed, fresh, settled>> => HistoryOK'
<1> USE DEF TypeInv
<1>1. UNCHANGED <<catalog, snap>> => CatalogOK'
  BY DEF CatalogOK
<1>2. UNCHANGED <<watches, state>> => RowsOK'
  BY DEF RowsOK
<1>3. UNCHANGED <<pc, listed, todo, pending>> => PassOK'
  BY DEF PassOK
<1>4. UNCHANGED <<epc, edit>> => EditOK'
  BY DEF EditOK
<1>5. UNCHANGED <<told, owed, fresh, settled>> => HistoryOK'
  BY DEF HistoryOK
<1> QED
  BY <1>1, <1>2, <1>3, <1>4, <1>5

LEMMA PassTypes ==
  ASSUME TypeInv, Pass
  PROVE  TypeInv'
<1> USE DEF passVars, editVars, historyVars
<1>1. CASE ListWatches
  <2>1. PassOK'
    BY <1>1 DEF ListWatches, TypeInv, PassOK, RowsOK
  <2>2. HistoryOK'
    BY <1>1 DEF ListWatches, TypeInv, HistoryOK
  <2> QED
    BY <1>1, <2>1, <2>2, UnchangedTypes DEF ListWatches, TypeInv
<1>2. CASE Snapshot
  <2>1. PassOK'
    BY <1>2 DEF Snapshot, TypeInv, PassOK
  <2>2. CatalogOK'
    BY <1>2 DEF Snapshot, TypeInv, CatalogOK
  <2> QED
    BY <1>2, <2>1, <2>2, UnchangedTypes DEF Snapshot, TypeInv
<1>3. CASE EvaluateDone
  <2>1. PassOK'
    BY <1>3 DEF EvaluateDone, TypeInv, PassOK
  <2> QED
    BY <1>3, <2>1, UnchangedTypes DEF EvaluateDone, TypeInv
<1>4. CASE SendAlerts
  <2>1. HistoryOK'
    BY <1>4, HeardTypes DEF SendAlerts, TypeInv, HistoryOK
  <2>2. PassOK'
    BY <1>4 DEF SendAlerts, TypeInv, PassOK
  <2> QED
    BY <1>4, <2>1, <2>2, UnchangedTypes DEF SendAlerts, TypeInv
<1>5. CASE SendAlertsFail
  <2>1. PICK ids \in SUBSET Alerts(pending) : Heard(ids)
    BY <1>5 DEF SendAlertsFail
  <2>2. HistoryOK'
    BY <1>5, <2>1, HeardTypes DEF SendAlertsFail, TypeInv, HistoryOK
  <2>3. PassOK' /\ CatalogOK'
    BY <1>5, StopTypes DEF SendAlertsFail, TypeInv, CatalogOK
  <2> QED
    BY <1>5, <2>2, <2>3, UnchangedTypes DEF SendAlertsFail, TypeInv
<1>6. CASE CommitDone
  <2>1. PassOK' /\ CatalogOK'
    BY <1>6, StopTypes DEF CommitDone, TypeInv, CatalogOK
  <2>2. HistoryOK'
    BY <1>6 DEF CommitDone, TypeInv, HistoryOK
  <2> QED
    BY <1>6, <2>1, <2>2, UnchangedTypes DEF CommitDone, TypeInv
<1>7. CASE PassAbort
  <2>1. PassOK' /\ CatalogOK'
    BY <1>7, StopTypes DEF PassAbort, TypeInv, CatalogOK
  <2> QED
    BY <1>7, <2>1, UnchangedTypes DEF PassAbort, TypeInv
<1>8. ASSUME NEW i \in Ids, EvaluateWatch(i) PROVE TypeInv'
  <2> DEFINE seen == state[i] # None
             prev == IF seen THEN state[i] ELSE NoState
             ev == Evaluation(prev, seen, listed[i], snap)
  <2>1. i \in todo
    BY <1>8, FirstIsLeast DEF EvaluateWatch, TypeInv, PassOK
  <2>2. prev \in WatchState /\ seen \in BOOLEAN /\ listed[i] \in Watch /\ snap \in Catalogs
    BY <2>1, NothingTypes DEF TypeInv, RowsOK, PassOK, CatalogOK
  <2>3. ev \in Found /\ (ev.target => ev.next.last \in Prices)
    BY <2>2, EvaluationType
  <2>4. pending' = IF ~listed[i].enabled THEN pending
                   ELSE [j \in DOMAIN pending \cup {i} |-> IF j = i THEN ev ELSE pending[j]]
    BY <1>8 DEF EvaluateWatch
  <2> HIDE DEF ev
  <2>5. DOMAIN pending' \subseteq {j \in Ids : listed[j] # None}
    BY <2>1, <2>4 DEF TypeInv, PassOK
  <2>6. \A j \in DOMAIN pending' :
          pending'[j] \in Found /\ (pending'[j].target => pending'[j].next.last \in Prices)
    BY <2>3, <2>4 DEF TypeInv, PassOK
  <2>7. PassOK'
    BY <1>8, <2>5, <2>6 DEF EvaluateWatch, TypeInv, PassOK
  <2> QED
    BY <1>8, <2>7, UnchangedTypes DEF EvaluateWatch, TypeInv
<1>9. ASSUME NEW i \in Ids, pending' = Without(pending, i),
             pc = "commit", UNCHANGED <<pc, listed, todo>>
      PROVE  PassOK'
  BY <1>9 DEF Without, TypeInv, PassOK
<1>10. ASSUME NEW i \in Ids, SaveWatchState(i) PROVE TypeInv'
  <2> DEFINE ev == pending[i]
             t == Take(told[i], ev, listed[i], snap)
  <2>1. i \in DOMAIN pending
    BY <1>10, FirstIsLeast DEF SaveWatchState, TypeInv, PassOK
  <2>2. ev \in Found /\ listed[i] \in Watch /\ told[i] \in Told /\ snap \in Catalogs
    BY <2>1 DEF TypeInv, PassOK, HistoryOK, CatalogOK
  <2>3. t \in Told
    BY <2>2, TakeType
  <2>4. ev.next \in WatchState
    BY <2>2 DEF Found
  <2>5. RowsOK'
    BY <1>10, <2>4 DEF SaveWatchState, TypeInv, RowsOK
  <2>6. /\ told' = [told EXCEPT ![i] = t] /\ UNCHANGED <<fresh, settled>>
        /\ owed' \subseteq owed
    BY <1>10 DEF SaveWatchState
  <2> HIDE DEF t
  <2>7. HistoryOK'
    BY <2>3, <2>6 DEF TypeInv, HistoryOK
  <2>8. PassOK'
    BY <1>9, <1>10 DEF SaveWatchState
  <2> QED
    BY <1>10, <2>5, <2>7, <2>8, UnchangedTypes DEF SaveWatchState, TypeInv
<1>11. ASSUME NEW i \in Ids, SaveWatchStateFails(i) PROVE TypeInv'
  <2>1. PassOK'
    BY <1>9, <1>11 DEF SaveWatchStateFails
  <2>2. HistoryOK'
    BY <1>11 DEF SaveWatchStateFails, TypeInv, HistoryOK
  <2> QED
    BY <1>11, <2>1, <2>2, UnchangedTypes DEF SaveWatchStateFails, TypeInv
<1> QED
  BY <1>1, <1>2, <1>3, <1>4, <1>5, <1>6, <1>7, <1>8, <1>10, <1>11 DEF Pass

LEMMA EndRequestTypes ==
  ASSUME TypeInv, NEW e \in Editors, EndRequest(e)
  PROVE  EditOK'
  BY DEF EndRequest, TypeInv, EditOK

LEMMA EditTypes ==
  ASSUME TypeInv, Edit
  PROVE  TypeInv'
<1> USE DEF passVars, editVars, historyVars
<1>1. CASE DeleteWatch
  <2>1. PICK i \in Ids : /\ watches' = [watches EXCEPT ![i] = None]
                         /\ state' = [state EXCEPT ![i] = None]
                         /\ Forget(i)
    BY <1>1 DEF DeleteWatch, Existing
  <2>2. RowsOK'
    BY <2>1 DEF TypeInv, RowsOK
  <2>3. HistoryOK'
    BY <1>1, <2>1, ForgetTypes DEF DeleteWatch, Disturb, TypeInv, HistoryOK
  <2> QED
    BY <1>1, <2>2, <2>3, UnchangedTypes DEF DeleteWatch, TypeInv
<1>2. ASSUME NEW e \in Editors, LoadWatch(e) PROVE TypeInv'
  <2>1. PICK i \in Existing, w \in Watch :
          edit' = [edit EXCEPT ![e] = [id |-> i, new |-> w, old |-> watches[i]]]
    BY <1>2 DEF LoadWatch
  <2>2. i \in Ids /\ watches[i] \in Watch
    BY DEF Existing, TypeInv, RowsOK
  <2>3. epc' = [epc EXCEPT ![e] = "loaded"]
    BY <1>2 DEF LoadWatch
  <2>4. DOMAIN [id |-> i, new |-> w, old |-> watches[i]] # DOMAIN None
    BY DEF None
  <2>5. EditOK'
    BY <2>1, <2>2, <2>3, <2>4 DEF TypeInv, EditOK
  <2> QED
    BY <1>2, <2>5, UnchangedTypes DEF LoadWatch, TypeInv
<1>3. ASSUME NEW e \in Editors, UpdateWatch(e) PROVE TypeInv'
  <2> DEFINE r == edit[e]
  <2>1. EditOK'
    BY <1>3, EndRequestTypes DEF UpdateWatch
  <2>2. CASE watches[r.id] = None
    BY <1>3, <2>1, <2>2, UnchangedTypes DEF UpdateWatch, TypeInv
  <2>3. CASE watches[r.id] # None
    <3>1. r.id \in Ids /\ r.new \in Watch
      BY <1>3 DEF UpdateWatch, TypeInv, EditOK
    <3>2. /\ watches' = [watches EXCEPT ![r.id] = r.new]
          /\ \/ state' = [state EXCEPT ![r.id] = None] /\ Forget(r.id)
             \/ UNCHANGED <<state, told, owed, stateFor>>
          /\ Disturb
      BY <1>3, <2>3 DEF UpdateWatch
    <3>3. RowsOK'
      BY <3>1, <3>2, NoneIsNoRow DEF TypeInv, RowsOK
    <3>4. told' \in [Ids -> Told] /\ owed' \subseteq Ids
      BY <3>1, <3>2, ForgetTypes DEF TypeInv, HistoryOK
    <3>5. HistoryOK'
      BY <3>2, <3>4 DEF Disturb, HistoryOK
    <3> QED
      BY <1>3, <2>1, <3>3, <3>5, UnchangedTypes DEF UpdateWatch, TypeInv
  <2> QED
    BY <2>2, <2>3
<1>4. ASSUME NEW e \in Editors, CountWatches(e) PROVE TypeInv'
  <2>1. PICK w \in Watch :
          edit' = [edit EXCEPT ![e] = [id |-> 0, new |-> w, old |-> None]]
    BY <1>4 DEF CountWatches
  <2>2. epc' = [epc EXCEPT ![e] = "counted"]
    BY <1>4 DEF CountWatches
  <2>3. DOMAIN [id |-> 0, new |-> w, old |-> None] # DOMAIN None
    BY DEF None
  <2>4. EditOK'
    BY <2>1, <2>2, <2>3 DEF TypeInv, EditOK
  <2> QED
    BY <1>4, <2>4, UnchangedTypes DEF CountWatches, TypeInv
<1>5. ASSUME NEW e \in Editors, CreateWatch(e) PROVE TypeInv'
  <2>1. EditOK'
    BY <1>5, EndRequestTypes DEF CreateWatch
  <2>2. edit[e].new \in Watch
    BY <1>5 DEF CreateWatch, TypeInv, EditOK
  <2>3. PICK i \in Ids : watches' = [watches EXCEPT ![i] = edit[e].new]
    BY <1>5 DEF CreateWatch
  <2>4. RowsOK'
    BY <1>5, <2>2, <2>3, NoneIsNoRow DEF CreateWatch, TypeInv, RowsOK
  <2>5. HistoryOK'
    BY <1>5 DEF CreateWatch, Disturb, TypeInv, HistoryOK
  <2> QED
    BY <1>5, <2>1, <2>4, <2>5, UnchangedTypes DEF CreateWatch, TypeInv
<1>6. ASSUME NEW e \in Editors, RequestFails(e) PROVE TypeInv'
  BY <1>6, EndRequestTypes, UnchangedTypes DEF RequestFails, TypeInv
<1> QED
  BY <1>1, <1>2, <1>3, <1>4, <1>5, <1>6 DEF Edit

LEMMA StepTypes == TypeInv /\ [Next]_vars => TypeInv'
<1> SUFFICES ASSUME TypeInv, [Next]_vars PROVE TypeInv'
  OBVIOUS
<1> USE DEF passVars, editVars, historyVars
<1>1. CASE CatalogChanges
  <2>1. CatalogOK'
    BY <1>1 DEF CatalogChanges, TypeInv, CatalogOK
  <2>2. HistoryOK'
    BY <1>1 DEF CatalogChanges, Disturb, TypeInv, HistoryOK
  <2> QED
    BY <1>1, <2>1, <2>2, UnchangedTypes DEF CatalogChanges, TypeInv
<1>2. CASE UNCHANGED vars
  BY <1>2, UnchangedTypes DEF vars, TypeInv
<1> QED
  BY <1>1, <1>2, PassTypes, EditTypes DEF Next

\* Every variable keeps its type, whatever overlaps, and no alert state
\* outlives its watch (watchlist.Save, Delete, Evaluate, Commit).
THEOREM TypeCorrect == Spec => []TypeOK
<1>1. Spec => []TypeInv
  BY InitTypes, StepTypes, PTL DEF Spec
<1> QED
  BY <1>1, TypeInvTypes, PTL

-----------------------------------------------------------------------------
(* Without races: a request never overlaps a report, or another request.   *)

Exclusive ==
  /\ pc = "idle" \/ Calm
  /\ \A e, f \in Editors : epc[e] # "idle" /\ epc[f] # "idle" => e = f

\* What was read before is what is there now.
ReadsAreCurrent ==
  /\ \A e \in Editors : epc[e] = "loaded" => edit[e].old = watches[edit[e].id]
  /\ pc # "idle" => listed = watches
  /\ pc # "evaluate" => todo = {}

AloneInv == TypeInv /\ Exclusive /\ ReadsAreCurrent

LEMMA InitAlone == Init => AloneInv
<1> SUFFICES ASSUME Init PROVE AloneInv
  OBVIOUS
<1>1. Exclusive /\ ReadsAreCurrent
  BY DEF Init, Exclusive, ReadsAreCurrent
<1> QED
  BY <1>1, InitTypes DEF AloneInv

LEMMA PassAlone ==
  ASSUME ~Races, AloneInv, CatalogChanges \/ Pass
  PROVE  Exclusive' /\ ReadsAreCurrent'
<1> USE DEF passVars, editVars, historyVars, AloneInv, Exclusive, ReadsAreCurrent, Calm
<1>1. CASE CatalogChanges
  BY <1>1 DEF CatalogChanges
<1>2. CASE ListWatches
  BY <1>2 DEF ListWatches
<1>3. CASE Snapshot
  BY <1>3 DEF Snapshot
<1>4. CASE EvaluateDone
  BY <1>4 DEF EvaluateDone
<1>5. CASE SendAlerts
  BY <1>5 DEF SendAlerts
<1>6. CASE SendAlertsFail
  BY <1>6 DEF SendAlertsFail, Stop
<1>7. CASE CommitDone
  BY <1>7 DEF CommitDone, Stop
<1>8. CASE PassAbort
  BY <1>8 DEF PassAbort, Stop
<1>9. ASSUME NEW i \in Ids, EvaluateWatch(i) PROVE Exclusive' /\ ReadsAreCurrent'
  BY <1>9 DEF EvaluateWatch
<1>10. ASSUME NEW i \in Ids, SaveWatchState(i) PROVE Exclusive' /\ ReadsAreCurrent'
  BY <1>10 DEF SaveWatchState
<1>11. ASSUME NEW i \in Ids, SaveWatchStateFails(i) PROVE Exclusive' /\ ReadsAreCurrent'
  BY <1>11 DEF SaveWatchStateFails
<1> QED
  BY <1>1, <1>2, <1>3, <1>4, <1>5, <1>6, <1>7, <1>8, <1>9, <1>10, <1>11 DEF Pass

\* A request that is under way is the only one, and no report runs.
LEMMA RequestIsAlone ==
  ASSUME AloneInv, NEW e \in Editors, epc[e] # "idle"
  PROVE  pc = "idle" /\ \A f \in Editors \ {e} : epc[f] = "idle"
  BY DEF AloneInv, Exclusive, Calm

LEMMA EndRequestAlone ==
  ASSUME AloneInv, NEW e \in Editors, epc[e] # "idle", EndRequest(e)
  PROVE  \A f \in Editors : epc'[f] = "idle"
  BY RequestIsAlone DEF EndRequest, AloneInv, TypeInv, EditOK

LEMMA EditAlone ==
  ASSUME ~Races, AloneInv, Edit
  PROVE  Exclusive' /\ ReadsAreCurrent'
<1> USE DEF passVars, editVars, historyVars
<1>1. CASE DeleteWatch
  BY <1>1 DEF DeleteWatch, MayEdit, AloneInv, Exclusive, ReadsAreCurrent, Calm
<1>2. ASSUME NEW e \in Editors, epc[e] # "idle", EndRequest(e), UNCHANGED passVars
      PROVE  Exclusive' /\ ReadsAreCurrent'
  <2>1. pc = "idle" /\ \A f \in Editors : epc'[f] = "idle"
    BY <1>2, RequestIsAlone, EndRequestAlone
  <2> QED
    BY <1>2, <2>1 DEF AloneInv, Exclusive, ReadsAreCurrent
<1>3. ASSUME NEW e \in Editors, LoadWatch(e) PROVE Exclusive' /\ ReadsAreCurrent'
  <2>1. pc = "idle" /\ \A f \in Editors : epc[f] = "idle"
    BY <1>3 DEF LoadWatch, MayEdit, Calm
  <2>2. PICK i \in Existing, w \in Watch :
          edit' = [edit EXCEPT ![e] = [id |-> i, new |-> w, old |-> watches[i]]]
    BY <1>3 DEF LoadWatch
  <2>3. edit'[e].old = watches[edit'[e].id]
    BY <2>2 DEF AloneInv, TypeInv, EditOK
  <2>4. \A f \in Editors : epc'[f] = IF f = e THEN "loaded" ELSE "idle"
    BY <1>3, <2>1 DEF LoadWatch, AloneInv, TypeInv, EditOK
  <2> QED
    BY <1>3, <2>1, <2>3, <2>4 DEF LoadWatch, AloneInv, Exclusive, ReadsAreCurrent
<1>4. ASSUME NEW e \in Editors, CountWatches(e) PROVE Exclusive' /\ ReadsAreCurrent'
  <2>1. pc = "idle" /\ \A f \in Editors : epc[f] = "idle"
    BY <1>4 DEF CountWatches, MayEdit, Calm
  <2>2. \A f \in Editors : epc'[f] = IF f = e THEN "counted" ELSE "idle"
    BY <1>4, <2>1 DEF CountWatches, AloneInv, TypeInv, EditOK
  <2> QED
    BY <1>4, <2>1, <2>2 DEF CountWatches, AloneInv, Exclusive, ReadsAreCurrent
<1>5. ASSUME NEW e \in Editors, UpdateWatch(e) PROVE Exclusive' /\ ReadsAreCurrent'
  BY <1>2, <1>5 DEF UpdateWatch
<1>6. ASSUME NEW e \in Editors, CreateWatch(e) PROVE Exclusive' /\ ReadsAreCurrent'
  BY <1>2, <1>6 DEF CreateWatch
<1>7. ASSUME NEW e \in Editors, RequestFails(e) PROVE Exclusive' /\ ReadsAreCurrent'
  BY <1>2, <1>7 DEF RequestFails
<1> QED
  BY <1>1, <1>3, <1>4, <1>5, <1>6, <1>7 DEF Edit

LEMMA StepAlone ==
  ASSUME ~Races
  PROVE  AloneInv /\ [Next]_vars => AloneInv'
<1> SUFFICES ASSUME AloneInv, [Next]_vars PROVE AloneInv'
  OBVIOUS
<1>1. TypeInv'
  BY StepTypes DEF AloneInv
<1>2. ASSUME UNCHANGED vars PROVE Exclusive' /\ ReadsAreCurrent'
  <2>1. UNCHANGED <<watches, pc, listed, todo, epc, edit>>
    BY <1>2 DEF vars, passVars, editVars
  <2> QED
    BY <2>1 DEF AloneInv, Exclusive, ReadsAreCurrent, Calm
<1>3. Exclusive' /\ ReadsAreCurrent'
  BY <1>2, PassAlone, EditAlone DEF Next, AloneInv
<1> QED
  BY <1>1, <1>3 DEF AloneInv

LEMMA AlwaysAlone ==
  ASSUME ~Races
  PROVE  Spec => []AloneInv
<1>1. AloneInv /\ [Next]_vars => AloneInv'
  BY StepAlone
<1> QED
  BY <1>1, InitAlone, PTL DEF Spec

-----------------------------------------------------------------------------
(* Without races: what the reader was told, and what the state claims.     *)

Prev(i) == IF state[i] = None THEN NoState ELSE state[i]

\* What the report found is what it would find now.
PendingIsCurrent ==
  \A i \in DOMAIN pending :
    /\ listed[i].enabled
    /\ pending[i] = Evaluation(Prev(i), state[i] # None, listed[i], snap)

\* Nothing is saved before its alert was heard.
HeardBeforeSaved ==
  pc = "commit" => \A i \in DOMAIN pending :
    /\ IsAlert(pending[i]) => i \in owed
    /\ pending[i].target => told[i].prices # {} /\ told[i].buyable
    /\ pending[i].restock => told[i].buyable
    /\ pending[i].new \subseteq told[i].sets

\* The reader and the state agree, unless an alert was heard and not saved.
InStepUnlessOwed == \A i \in Ids \ owed : InStep(told[i], Prev(i))
ToldHasGreatest == \A i \in Ids : Greatest(told[i].prices)
StateIsCovered == \A i \in Ids : Covers(told[i], Prev(i))

ToldInv ==
  /\ PendingIsCurrent /\ HeardBeforeSaved
  /\ InStepUnlessOwed /\ ToldHasGreatest /\ StateIsCovered

LEMMA NothingIsInStep ==
  InStep(NothingTold, NoState) /\ Covers(NothingTold, NoState) /\ Greatest(NothingTold.prices)
  BY DEF InStep, Covers, Greatest, NothingTold, NoState, Reference

LEMMA PrevTypes ==
  ASSUME TypeInv, NEW i \in Ids
  PROVE  Prev(i) \in WatchState
  BY NothingTypes DEF Prev, TypeInv, RowsOK

LEMMA InitTold == Init => ToldInv
<1> SUFFICES ASSUME Init PROVE ToldInv
  OBVIOUS
<1>1. \A i \in Ids : told[i] = NothingTold /\ Prev(i) = NoState
  BY DEF Init, Prev
<1>2. DOMAIN pending = {}
  BY NothingTypes DEF Init
<1> QED
  BY <1>1, <1>2, NothingIsInStep
  DEF ToldInv, PendingIsCurrent, HeardBeforeSaved, InStepUnlessOwed, ToldHasGreatest, StateIsCovered

\* A step that leaves the state and what was told alone, and only takes away
\* from what is pending, or ends the pass.
LEMMA QuietStepTold ==
  ASSUME ToldInv, UNCHANGED <<state, told, owed>>,
         pc' = "commit" => pc = "commit" \/ Alerts(pending) = {},
         \/ DOMAIN pending' = {}
         \/ /\ UNCHANGED <<listed, snap>>
            /\ \A i \in DOMAIN pending' : i \in DOMAIN pending /\ pending'[i] = pending[i]
  PROVE  ToldInv'
<1> USE DEF ToldInv
<1>1. InStepUnlessOwed' /\ ToldHasGreatest' /\ StateIsCovered'
  BY DEF InStepUnlessOwed, ToldHasGreatest, StateIsCovered, Prev
<1>2. PendingIsCurrent'
  BY DEF PendingIsCurrent, Prev
<1>3. HeardBeforeSaved'
  <2>1. CASE pc = "commit"
    BY <2>1 DEF HeardBeforeSaved
  <2>2. CASE Alerts(pending) = {}
    <3>1. \A i \in DOMAIN pending : ~IsAlert(pending[i])
      BY <2>2 DEF Alerts
    <3>2. \A i \in DOMAIN pending :
            ~pending[i].target /\ ~pending[i].restock /\ pending[i].new = {}
      BY <3>1 DEF IsAlert
    <3> QED
      BY <3>1, <3>2 DEF HeardBeforeSaved
  <2> QED
    BY <2>1, <2>2 DEF HeardBeforeSaved
<1> QED
  BY <1>1, <1>2, <1>3

\* Hearing an alert.
LEMMA HearCovers ==
  ASSUME NEW t \in Told, NEW st \in WatchState, NEW ev \in Found, Covers(t, st),
         ev.target => ev.next.last \in Prices, Greatest(t.prices)
  PROVE  /\ Covers(Hear(t, ev), st) /\ Greatest(Hear(t, ev).prices)
         /\ ev.target => Hear(t, ev).prices # {} /\ Hear(t, ev).buyable
         /\ ev.restock => Hear(t, ev).buyable
         /\ ev.new \subseteq Hear(t, ev).sets
<1>1. /\ Hear(t, ev).prices = IF ev.target THEN {ev.next.last} ELSE t.prices
      /\ Hear(t, ev).buyable = (t.buyable \/ ev.target \/ ev.restock)
      /\ Hear(t, ev).sets = t.sets \cup ev.new
  BY DEF Hear
<1>2. Greatest(Hear(t, ev).prices)
  BY <1>1, ReferenceOfOne, PricesAreNaturals
<1>3. Covers(Hear(t, ev), st)
  BY <1>1 DEF Covers
<1> QED
  BY <1>1, <1>2, <1>3

LEMMA HeardTold ==
  ASSUME TypeInv, ToldInv, NEW ids \in SUBSET Alerts(pending), Heard(ids), UNCHANGED state
  PROVE  /\ InStepUnlessOwed' /\ ToldHasGreatest' /\ StateIsCovered'
         /\ \A i \in ids :
              /\ i \in owed'
              /\ pending[i].target => told'[i].prices # {} /\ told'[i].buyable
              /\ pending[i].restock => told'[i].buyable
              /\ pending[i].new \subseteq told'[i].sets
<1>1. ids \subseteq DOMAIN pending /\ ids \subseteq Ids
  BY DEF Alerts, TypeInv, PassOK
<1>2. /\ \A i \in ids : told'[i] = Hear(told[i], pending[i])
      /\ \A i \in Ids \ ids : told'[i] = told[i]
      /\ owed' = owed \cup ids
  BY <1>1 DEF Heard
<1>3. \A i \in Ids : Prev(i)' = Prev(i) /\ Prev(i) \in WatchState
  BY PrevTypes DEF Prev
<1>4. \A i \in ids :
        /\ told[i] \in Told /\ pending[i] \in Found
        /\ pending[i].target => pending[i].next.last \in Prices
        /\ Greatest(told[i].prices) /\ Covers(told[i], Prev(i))
  BY <1>1 DEF TypeInv, PassOK, HistoryOK, ToldInv, ToldHasGreatest, StateIsCovered
<1>5. \A i \in ids :
        /\ Covers(told'[i], Prev(i)) /\ Greatest(told'[i].prices)
        /\ pending[i].target => told'[i].prices # {} /\ told'[i].buyable
        /\ pending[i].restock => told'[i].buyable
        /\ pending[i].new \subseteq told'[i].sets
  BY <1>1, <1>2, <1>3, <1>4, HearCovers
<1>6. InStepUnlessOwed'
  BY <1>2, <1>3 DEF ToldInv, InStepUnlessOwed
<1>7. ToldHasGreatest'
  BY <1>2, <1>5 DEF ToldInv, ToldHasGreatest
<1>8. StateIsCovered'
  BY <1>2, <1>3, <1>5 DEF ToldInv, StateIsCovered
<1> QED
  BY <1>2, <1>5, <1>6, <1>7, <1>8

LEMMA EvaluateWatchTold ==
  ASSUME TypeInv, ToldInv, NEW i \in Ids, EvaluateWatch(i)
  PROVE  ToldInv'
<1> USE DEF ToldInv
<1> DEFINE ev == Evaluation(Prev(i), state[i] # None, listed[i], snap)
<1>1. UNCHANGED <<state, listed, snap, told, owed, pc>>
  BY DEF EvaluateWatch, historyVars
<1>2. InStepUnlessOwed' /\ ToldHasGreatest' /\ StateIsCovered'
  BY <1>1 DEF InStepUnlessOwed, ToldHasGreatest, StateIsCovered, Prev
<1>3. HeardBeforeSaved'
  BY <1>1 DEF EvaluateWatch, HeardBeforeSaved
<1>4. pending' = IF ~listed[i].enabled THEN pending
                 ELSE [j \in DOMAIN pending \cup {i} |-> IF j = i THEN ev ELSE pending[j]]
  BY DEF EvaluateWatch, Prev
<1>5. \A j \in Ids : Prev(j)' = Prev(j)
  BY <1>1 DEF Prev
<1> HIDE DEF ev
<1>6. \A j \in DOMAIN pending' :
        \/ j = i /\ pending'[j] = ev /\ listed[j].enabled
        \/ j \in DOMAIN pending /\ pending'[j] = pending[j]
  BY <1>4
<1>7. PendingIsCurrent'
  <2>1. SUFFICES ASSUME NEW j \in DOMAIN pending'
        PROVE /\ listed[j].enabled
              /\ pending'[j] = Evaluation(Prev(j), state[j] # None, listed[j], snap)
    <3>1. DOMAIN pending' \subseteq Ids
      BY <1>6 DEF TypeInv, PassOK
    <3> QED
      BY <1>1, <1>5, <2>1, <3>1 DEF PendingIsCurrent
  <2> QED
    BY <1>6 DEF PendingIsCurrent, ev
<1> QED
  BY <1>2, <1>3, <1>7

\* The step that saves a state.
LEMMA SaveWatchStateTold ==
  ASSUME TypeInv, ToldInv, NEW i \in Ids, SaveWatchState(i)
  PROVE  ToldInv'
<1> DEFINE ev == pending[i]
           t == Take(told[i], ev, listed[i], snap)
<1>1. i \in DOMAIN pending /\ pc = "commit"
  BY FirstIsLeast DEF SaveWatchState, TypeInv, PassOK
<1>2. /\ ev = Evaluation(Prev(i), state[i] # None, listed[i], snap)
      /\ ev \in Found /\ ev.next \in WatchState
      /\ Prev(i) \in WatchState /\ listed[i] \in Watch /\ told[i] \in Told /\ snap \in Catalogs
  <2>1. ev = Evaluation(Prev(i), state[i] # None, listed[i], snap)
    BY <1>1 DEF ToldInv, PendingIsCurrent
  <2>2. ev \in Found /\ listed[i] \in Watch /\ told[i] \in Told /\ snap \in Catalogs
    BY <1>1 DEF TypeInv, PassOK, HistoryOK, CatalogOK
  <2>3. ev.next \in WatchState
    BY <2>2 DEF Found
  <2> QED
    BY <2>1, <2>2, <2>3, PrevTypes
<1>3. /\ state' = [state EXCEPT ![i] = ev.next]
      /\ told' = [told EXCEPT ![i] = t]
      /\ owed' = IF InStep(t, ev.next) THEN owed \ {i} ELSE owed
      /\ pending' = Without(pending, i)
      /\ UNCHANGED <<pc, listed, snap>>
  BY DEF SaveWatchState
<1>4. Covers(t, ev.next)
  <2>1. /\ ev.target => told[i].prices # {} /\ told[i].buyable
        /\ ev.restock => told[i].buyable
        /\ ev.new \subseteq told[i].sets
    BY <1>1 DEF ToldInv, HeardBeforeSaved
  <2>2. Covers(told[i], Prev(i))
    BY DEF ToldInv, StateIsCovered
  <2>3. (state[i] # None) \in BOOLEAN
    OBVIOUS
  <2> QED
    BY <1>2, <2>1, <2>2, <2>3, SaveStaysCovered
<1>5. i \notin owed => InStep(t, ev.next)
  <2>1. SUFFICES ASSUME i \notin owed PROVE InStep(t, ev.next)
    OBVIOUS
  <2>2. ~IsAlert(ev)
    BY <1>1, <2>1 DEF ToldInv, HeardBeforeSaved
  <2>3. Greatest(told[i].prices) /\ InStep(told[i], Prev(i))
    BY <2>1 DEF ToldInv, ToldHasGreatest, InStepUnlessOwed
  <2>4. (state[i] # None) \in BOOLEAN
    OBVIOUS
  <2> QED
    BY <1>2, <2>2, <2>3, <2>4, SaveStaysInStep
<1>6. Greatest(t.prices)
  <2>1. Greatest(told[i].prices) /\ told[i].prices \in SUBSET Nat
    BY <1>2, PricesAreNaturals DEF ToldInv, ToldHasGreatest, Told
  <2>2. CASE Hit(listed[i], snap) /\ ~(ev.target \/ told[i].prices = {})
    <3>1. t.prices = told[i].prices \cup {BestPrice(listed[i], snap)}
      BY <2>2 DEF Take
    <3>2. BestPrice(listed[i], snap) \in Nat
      BY <1>2, <2>2, BestPriceIsLeast DEF Hit
    <3> QED
      BY <2>1, <2>2, <3>1, <3>2, ReferenceGrows
  <2>3. CASE ~(Hit(listed[i], snap) /\ ~(ev.target \/ told[i].prices = {}))
    <3>1. t.prices = {} \/ t.prices = told[i].prices
      BY <2>3 DEF Take
    <3> QED
      BY <2>1, <3>1 DEF Greatest
  <2> QED
    BY <2>2, <2>3
<1> HIDE DEF t, ev
<1>7. /\ told'[i] = t /\ Prev(i)' = ev.next
      /\ \A j \in Ids \ {i} : told'[j] = told[j] /\ Prev(j)' = Prev(j) /\ state'[j] = state[j]
  <2>1. told'[i] = t /\ state'[i] = ev.next /\ ev.next # None
    BY <1>2, <1>3, NoneIsNoRow DEF TypeInv, HistoryOK, RowsOK
  <2>2. \A j \in Ids \ {i} : told'[j] = told[j] /\ state'[j] = state[j]
    BY <1>3 DEF TypeInv, HistoryOK, RowsOK
  <2> QED
    BY <2>1, <2>2 DEF Prev
<1>8. InStepUnlessOwed'
  BY <1>3, <1>5, <1>7 DEF ToldInv, InStepUnlessOwed
<1>9. ToldHasGreatest' /\ StateIsCovered'
  BY <1>4, <1>6, <1>7 DEF ToldInv, ToldHasGreatest, StateIsCovered
<1>10. /\ DOMAIN pending' = DOMAIN pending \ {i} /\ DOMAIN pending \subseteq Ids
       /\ \A j \in DOMAIN pending' : pending'[j] = pending[j]
  BY <1>3 DEF Without, TypeInv, PassOK
<1>11. PendingIsCurrent'
  <2>1. SUFFICES ASSUME NEW j \in DOMAIN pending'
        PROVE /\ listed[j].enabled
              /\ pending[j] = Evaluation(Prev(j)', state'[j] # None, listed[j], snap)
    BY <1>3, <1>10 DEF PendingIsCurrent
  <2>2. Prev(j)' = Prev(j) /\ state'[j] = state[j] /\ j \in DOMAIN pending
    BY <1>7, <1>10
  <2> QED
    BY <2>2 DEF ToldInv, PendingIsCurrent
<1>12. HeardBeforeSaved'
  <2>1. \A j \in DOMAIN pending' :
          j \in DOMAIN pending /\ told'[j] = told[j] /\ (j \in owed => j \in owed')
    BY <1>3, <1>7, <1>10
  <2> QED
    BY <1>1, <1>10, <2>1 DEF ToldInv, HeardBeforeSaved
<1> QED
  BY <1>8, <1>9, <1>11, <1>12 DEF ToldInv

LEMMA PassTold ==
  ASSUME AloneInv, ToldInv, CatalogChanges \/ Pass
  PROVE  ToldInv'
<1> USE DEF passVars, editVars, historyVars, AloneInv
<1>1. CASE CatalogChanges
  BY <1>1, QuietStepTold DEF CatalogChanges
<1>2. CASE ListWatches
  <2>1. DOMAIN pending' = {}
    BY <1>2 DEF ListWatches, TypeInv, PassOK
  <2> QED
    BY <1>2, <2>1, QuietStepTold DEF ListWatches
<1>3. CASE Snapshot
  <2>1. DOMAIN pending' = {}
    BY <1>3 DEF Snapshot, TypeInv, PassOK
  <2> QED
    BY <1>3, <2>1, QuietStepTold DEF Snapshot
<1>4. CASE EvaluateDone
  BY <1>4, QuietStepTold DEF EvaluateDone
<1>5. CASE SendAlerts
  <2>1. Heard(Alerts(pending)) /\ UNCHANGED <<state, listed, snap, pending>>
    BY <1>5 DEF SendAlerts
  <2>2. /\ InStepUnlessOwed' /\ ToldHasGreatest' /\ StateIsCovered'
        /\ \A i \in Alerts(pending) :
             /\ i \in owed'
             /\ pending[i].target => told'[i].prices # {} /\ told'[i].buyable
             /\ pending[i].restock => told'[i].buyable
             /\ pending[i].new \subseteq told'[i].sets
    BY <2>1, HeardTold
  <2>3. PendingIsCurrent'
    BY <2>1 DEF ToldInv, PendingIsCurrent, Prev
  <2>4. \A i \in DOMAIN pending \ Alerts(pending) :
          ~pending[i].target /\ ~pending[i].restock /\ pending[i].new = {} /\ ~IsAlert(pending[i])
    BY DEF Alerts, IsAlert
  <2>5. HeardBeforeSaved'
    BY <2>1, <2>2, <2>4 DEF HeardBeforeSaved
  <2> QED
    BY <2>2, <2>3, <2>5 DEF ToldInv
<1>6. CASE SendAlertsFail
  <2>1. PICK ids \in SUBSET Alerts(pending) : Heard(ids)
    BY <1>6 DEF SendAlertsFail
  <2>2. InStepUnlessOwed' /\ ToldHasGreatest' /\ StateIsCovered'
    BY <1>6, <2>1, HeardTold DEF SendAlertsFail
  <2>3. DOMAIN pending' = {}
    BY <1>6, NothingTypes DEF SendAlertsFail, Stop
  <2> QED
    BY <2>2, <2>3 DEF ToldInv, PendingIsCurrent, HeardBeforeSaved
<1>7. CASE CommitDone \/ PassAbort
  <2>1. DOMAIN pending' = {} /\ pc' = "idle" /\ UNCHANGED <<state, told, owed>>
    BY <1>7, NothingTypes DEF CommitDone, PassAbort, Stop
  <2> QED
    BY <2>1, QuietStepTold
<1>8. ASSUME NEW i \in Ids, SaveWatchStateFails(i) PROVE ToldInv'
  <2>1. \A j \in DOMAIN pending' : j \in DOMAIN pending /\ pending'[j] = pending[j]
    BY <1>8 DEF SaveWatchStateFails, Without
  <2> QED
    BY <1>8, <2>1, QuietStepTold DEF SaveWatchStateFails
<1> QED
  BY <1>1, <1>2, <1>3, <1>4, <1>5, <1>6, <1>7, <1>8, EvaluateWatchTold, SaveWatchStateTold DEF Pass

\* A watch that starts afresh, between reports.
LEMMA ForgetTold ==
  ASSUME AloneInv, ToldInv, NEW i \in Ids, state' = [state EXCEPT ![i] = None], Forget(i),
         pc = "idle", UNCHANGED passVars
  PROVE  ToldInv'
<1>1. DOMAIN pending' = {} /\ pc' = "idle"
  BY DEF passVars, AloneInv, TypeInv, PassOK
<1>2. /\ told'[i] = NothingTold /\ Prev(i)' = NoState
      /\ \A j \in Ids \ {i} : told'[j] = told[j] /\ Prev(j)' = Prev(j)
      /\ owed' = owed \ {i}
  BY DEF Forget, Prev, AloneInv, TypeInv, RowsOK, HistoryOK
<1>3. InStepUnlessOwed'
  BY <1>2, NothingIsInStep DEF ToldInv, InStepUnlessOwed
<1>4. ToldHasGreatest' /\ StateIsCovered'
  BY <1>2, NothingIsInStep DEF ToldInv, ToldHasGreatest, StateIsCovered
<1> QED
  BY <1>1, <1>3, <1>4 DEF ToldInv, PendingIsCurrent, HeardBeforeSaved

LEMMA EditTold ==
  ASSUME ~Races, AloneInv, ToldInv, Edit
  PROVE  ToldInv'
<1> USE DEF historyVars
<1>1. CASE DeleteWatch
  <2>1. PICK i \in Ids : state' = [state EXCEPT ![i] = None] /\ Forget(i)
    BY <1>1 DEF DeleteWatch, Existing
  <2>2. pc = "idle" /\ UNCHANGED passVars
    BY <1>1 DEF DeleteWatch, MayEdit
  <2> QED
    BY <2>1, <2>2, ForgetTold
<1>2. ASSUME UNCHANGED <<state, told, owed, passVars>> PROVE ToldInv'
  BY <1>2, QuietStepTold DEF passVars
<1>3. ASSUME NEW e \in Editors, LoadWatch(e) PROVE ToldInv'
  BY <1>2, <1>3 DEF LoadWatch
<1>4. ASSUME NEW e \in Editors, CountWatches(e) PROVE ToldInv'
  BY <1>2, <1>4 DEF CountWatches
<1>5. ASSUME NEW e \in Editors, CreateWatch(e) PROVE ToldInv'
  BY <1>2, <1>5 DEF CreateWatch
<1>6. ASSUME NEW e \in Editors, RequestFails(e) PROVE ToldInv'
  BY <1>2, <1>6 DEF RequestFails
<1>7. ASSUME NEW e \in Editors, UpdateWatch(e) PROVE ToldInv'
  <2>1. pc = "idle" /\ UNCHANGED passVars
    BY <1>7, RequestIsAlone DEF UpdateWatch
  <2>2. CASE UNCHANGED <<state, told, owed>>
    BY <1>2, <2>1, <2>2
  <2>3. CASE /\ edit[e].id \in Ids
             /\ state' = [state EXCEPT ![edit[e].id] = None] /\ Forget(edit[e].id)
    BY <2>1, <2>3, ForgetTold
  <2>4. edit[e].id \in Ids
    BY <1>7 DEF UpdateWatch, AloneInv, TypeInv, EditOK
  <2> QED
    BY <1>7, <2>2, <2>3, <2>4 DEF UpdateWatch
<1> QED
  BY <1>1, <1>3, <1>4, <1>5, <1>6, <1>7 DEF Edit

LEMMA StepTold ==
  ASSUME ~Races
  PROVE  AloneInv /\ ToldInv /\ [Next]_vars => ToldInv'
<1> SUFFICES ASSUME AloneInv, ToldInv, [Next]_vars PROVE ToldInv'
  OBVIOUS
<1>1. ASSUME UNCHANGED vars PROVE ToldInv'
  <2>1. UNCHANGED <<state, told, owed, pc, listed, snap, pending>>
    BY <1>1 DEF vars, passVars, historyVars
  <2> QED
    BY <2>1, QuietStepTold
<1> QED
  BY <1>1, PassTold, EditTold DEF Next

LEMMA AlwaysTold ==
  ASSUME ~Races
  PROVE  Spec => []ToldInv
<1>1. AloneInv /\ ToldInv /\ [Next]_vars => ToldInv'
  BY StepTold
<1>2. Spec => []AloneInv
  BY AlwaysAlone
<1> QED
  BY <1>1, <1>2, InitTold, PTL DEF Spec

\* A watch's state claims nothing the reader was not told: an alert that was
\* not heard is raised again by the next report (RunWatches, Commit).
THEOREM NothingUntold ==
  ASSUME ~Races
  PROVE  Spec => []StateIsTold
<1>1. ToldInv => StateIsTold
  BY DEF ToldInv, StateIsCovered, Covers, Prev, StateIsTold, Existing
<1> QED
  BY <1>1, AlwaysTold, PTL

\* Small moves of a price cannot add up to a drop that was not alerted: the
\* saved reference is the highest price since the last alert (Evaluate).
THEOREM ReferenceFollowsRises ==
  ASSUME ~Races
  PROVE  Spec => []ReferenceIsHighest
<1>1. ToldInv => ReferenceIsHighest
  BY DEF ToldInv, InStepUnlessOwed, InStep, Prev, ReferenceIsHighest, Existing
<1> QED
  BY <1>1, AlwaysTold, PTL

\* No listing is announced twice to a watch, unless its announcement was not
\* saved (Evaluate: KnownSets only grows).
THEOREM AnnouncedOnce ==
  ASSUME ~Races
  PROVE  Spec => []NewOnce
<1>1. AloneInv /\ ToldInv => NewOnce
  <2> SUFFICES ASSUME AloneInv, ToldInv, NEW i \in DOMAIN pending, i \notin owed
               PROVE  pending[i].new \cap told[i].sets = {}
    BY DEF NewOnce
  <2>1. i \in Ids
    BY DEF AloneInv, TypeInv, PassOK
  <2>2. told[i].sets \subseteq Prev(i).known
    BY <2>1 DEF ToldInv, InStepUnlessOwed, InStep
  <2>3. pending[i] = Evaluation(Prev(i), state[i] # None, listed[i], snap)
    BY DEF ToldInv, PendingIsCurrent
  <2>4. pending[i].new \cap Prev(i).known = {}
    BY <2>3 DEF Evaluation
  <2> QED
    BY <2>2, <2>4
<1> QED
  BY <1>1, AlwaysAlone, AlwaysTold, PTL

-----------------------------------------------------------------------------
(* Without races: a state row fits its watch.                              *)

FitsInv ==
  /\ DOMAIN stateFor = Ids
  /\ \A i \in Ids : state[i] # None => stateFor[i] = Settings(watches[i])

LEMMA PassFits ==
  ASSUME AloneInv, FitsInv, CatalogChanges \/ Pass
  PROVE  FitsInv'
<1> USE DEF passVars, editVars, historyVars
<1>1. ASSUME UNCHANGED <<watches, state, stateFor>> PROVE FitsInv'
  BY <1>1 DEF FitsInv, Settings
<1>2. ASSUME NEW i \in Ids, SaveWatchState(i) PROVE FitsInv'
  <2>1. listed = watches
    BY <1>2 DEF SaveWatchState, AloneInv, ReadsAreCurrent
  <2>2. UNCHANGED watches
    BY <1>2 DEF SaveWatchState
  <2>3. \A j \in Ids \ {i} : state'[j] = state[j] /\ stateFor'[j] = stateFor[j]
    BY <1>2 DEF SaveWatchState, AloneInv, TypeInv, RowsOK, FitsInv
  <2>4. stateFor' = [stateFor EXCEPT ![i] = Settings(listed[i])]
    BY <1>2 DEF SaveWatchState
  <2> QED
    BY <2>1, <2>2, <2>3, <2>4 DEF FitsInv
<1>3. CASE \E i \in Ids : SaveWatchState(i)
  BY <1>2, <1>3
<1>4. CASE ~ \E i \in Ids : SaveWatchState(i)
  BY <1>1, <1>4 DEF CatalogChanges, Pass, ListWatches, Snapshot, EvaluateWatch, EvaluateDone,
     SendAlerts, SendAlertsFail, SaveWatchStateFails, CommitDone, PassAbort
<1> QED
  BY <1>3, <1>4

LEMMA ForgetFits ==
  ASSUME AloneInv, FitsInv, NEW i \in Ids, state' = [state EXCEPT ![i] = None], Forget(i),
         NEW w, watches' = [watches EXCEPT ![i] = w]
  PROVE  FitsInv'
<1>1. /\ state'[i] = None
      /\ \A j \in Ids \ {i} : /\ state'[j] = state[j] /\ watches'[j] = watches[j]
                              /\ stateFor'[j] = stateFor[j]
      /\ DOMAIN stateFor' = Ids
  BY DEF Forget, FitsInv, AloneInv, TypeInv, RowsOK
<1> QED
  BY <1>1 DEF FitsInv, Settings

LEMMA EditFits ==
  ASSUME ~Races, AloneInv, FitsInv, Edit
  PROVE  FitsInv'
<1> USE DEF historyVars
<1>1. CASE DeleteWatch
  BY <1>1, ForgetFits DEF DeleteWatch, Existing
<1>2. ASSUME UNCHANGED <<watches, state, stateFor>> PROVE FitsInv'
  BY <1>2 DEF FitsInv, Settings
<1>3. ASSUME NEW e \in Editors, LoadWatch(e) \/ CountWatches(e) \/ RequestFails(e) PROVE FitsInv'
  BY <1>2, <1>3 DEF LoadWatch, CountWatches, RequestFails
<1>4. ASSUME NEW e \in Editors, CreateWatch(e) PROVE FitsInv'
  <2>1. PICK i \in Ids : /\ \A j \in Existing : j < i
                         /\ watches' = [watches EXCEPT ![i] = edit[e].new]
    BY <1>4 DEF CreateWatch
  <2>2. ~ (i < i)
    BY LimitsAssumption DEF Ids
  <2>3. state[i] = None
    BY <2>1, <2>2 DEF Existing, AloneInv, TypeInv, RowsOK
  <2>4. UNCHANGED <<state, stateFor>>
    BY <1>4 DEF CreateWatch
  <2>5. \A j \in Ids \ {i} : watches'[j] = watches[j]
    BY <2>1 DEF AloneInv, TypeInv, RowsOK
  <2> QED
    BY <2>3, <2>4, <2>5 DEF FitsInv, Settings
<1>5. ASSUME NEW e \in Editors, UpdateWatch(e) PROVE FitsInv'
  <2> DEFINE r == edit[e]
  <2>1. epc[e] = "loaded" /\ r.id \in Ids
    BY <1>5 DEF UpdateWatch, AloneInv, TypeInv, EditOK
  <2>2. CASE watches[r.id] = None
    BY <1>2, <1>5, <2>2 DEF UpdateWatch
  <2>3. CASE watches[r.id] # None /\ Resets(r.old, r.new)
    <3>1. /\ watches' = [watches EXCEPT ![r.id] = r.new]
          /\ state' = [state EXCEPT ![r.id] = None] /\ Forget(r.id)
      BY <1>5, <2>3 DEF UpdateWatch
    <3> HIDE DEF r
    <3> QED
      BY <2>1, <3>1, ForgetFits
  <2>4. CASE watches[r.id] # None /\ ~Resets(r.old, r.new)
    <3>1. watches' = [watches EXCEPT ![r.id] = r.new] /\ UNCHANGED <<state, stateFor>>
      BY <1>5, <2>4 DEF UpdateWatch
    <3>2. Settings(watches[r.id]) = Settings(r.new)
      BY <2>1, <2>4 DEF Resets, AloneInv, ReadsAreCurrent
    <3>3. watches'[r.id] = r.new /\ \A j \in Ids \ {r.id} : watches'[j] = watches[j]
      BY <2>1, <3>1 DEF AloneInv, TypeInv, RowsOK
    <3> HIDE DEF r
    <3>4. \A j \in Ids : Settings(watches[j])' = Settings(watches[j])
      BY <2>1, <3>2, <3>3 DEF Settings
    <3> QED
      BY <3>1, <3>4 DEF FitsInv
  <2> QED
    BY <2>2, <2>3, <2>4
<1> QED
  BY <1>1, <1>3, <1>4, <1>5 DEF Edit

\* The alert state of a watch was made under its spec, target and enabled
\* setting of now (Save, UpdateWatch, Commit).
THEOREM StateIsForTheseSettings ==
  ASSUME ~Races
  PROVE  Spec => []StateFitsWatch
<1>1. Init => FitsInv
  BY DEF Init, FitsInv
<1>2. AloneInv /\ FitsInv /\ [Next]_vars => FitsInv'
  <2> SUFFICES ASSUME AloneInv, FitsInv, [Next]_vars PROVE FitsInv'
    OBVIOUS
  <2>1. ASSUME UNCHANGED vars PROVE FitsInv'
    <3>1. UNCHANGED <<watches, state, stateFor>>
      BY <2>1 DEF vars, historyVars
    <3> QED
      BY <3>1 DEF FitsInv, Settings
  <2> QED
    BY <2>1, PassFits, EditFits DEF Next
<1>3. FitsInv => StateFitsWatch
  BY DEF FitsInv, StateFitsWatch, Existing
<1>4. Spec => []AloneInv
  BY AlwaysAlone
<1> QED
  BY <1>1, <1>2, <1>3, <1>4, PTL DEF Spec

-----------------------------------------------------------------------------
(* Without races: quiet when nothing changed.                              *)

Watched(i) == watches[i] # None /\ watches[i].enabled

\* The state saved for a watch leaves nothing to say about the catalog.
Quiet(i) == state[i] # None /\ Silent(Evaluation(state[i], TRUE, watches[i], catalog))

SnapIsCatalog ==
  (fresh \/ settled) /\ pc \in {"evaluate", "send", "commit"} => snap = catalog

\* As long as nothing changed and nothing failed, a watch is still to be
\* evaluated, or saved, or has been.
FreshPass ==
  fresh => \A i \in Ids : Watched(i) =>
    /\ pc = "evaluate" => i \in todo \cup DOMAIN pending
    /\ pc = "send" => i \in DOMAIN pending
    /\ pc = "commit" => i \in DOMAIN pending \/ Quiet(i)

SettledIsQuiet == settled => \A i \in Ids : Watched(i) => Quiet(i)

QuietInv == SnapIsCatalog /\ FreshPass /\ SettledIsQuiet

\* A step that leaves the rows and the catalog alone.
LEMMA SameRowsQuiet ==
  ASSUME UNCHANGED <<catalog, watches, state>>
  PROVE  \A i \in Ids : Quiet(i)' = Quiet(i) /\ Watched(i)' = Watched(i)
  BY DEF Quiet, Watched

LEMMA DisturbedIsQuiet ==
  ASSUME Disturb
  PROVE  QuietInv'
  BY DEF Disturb, QuietInv, SnapIsCatalog, FreshPass, SettledIsQuiet

\* The end of a pass that did not save everything.
LEMMA StopQuiet ==
  ASSUME QuietInv, Stop, UNCHANGED <<catalog, watches, state, fresh, settled>>
  PROVE  QuietInv'
<1>1. pc' = "idle"
  BY DEF Stop
<1>2. SnapIsCatalog' /\ FreshPass'
  BY <1>1 DEF SnapIsCatalog, FreshPass
<1>3. SettledIsQuiet'
  BY DEF QuietInv, SettledIsQuiet, Quiet, Watched
<1> QED
  BY <1>2, <1>3 DEF QuietInv

\* What a request does without changing a row, and a stuttering step.
LEMMA IdleStepQuiet ==
  ASSUME QuietInv, UNCHANGED <<catalog, watches, state, passVars, fresh, settled>>
  PROVE  QuietInv'
<1> USE DEF passVars
<1>1. SnapIsCatalog'
  BY DEF QuietInv, SnapIsCatalog
<1>2. FreshPass'
  BY DEF QuietInv, FreshPass, Quiet, Watched
<1>3. SettledIsQuiet'
  BY DEF QuietInv, SettledIsQuiet, Quiet, Watched
<1> QED
  BY <1>1, <1>2, <1>3 DEF QuietInv

LEMMA SaveWatchStateQuiet ==
  ASSUME AloneInv, ToldInv, QuietInv, NEW i \in Ids, SaveWatchState(i)
  PROVE  QuietInv'
<1>1. i \in DOMAIN pending /\ pc = "commit"
  BY FirstIsLeast DEF SaveWatchState, AloneInv, TypeInv, PassOK
<1>2. /\ state' = [state EXCEPT ![i] = pending[i].next]
      /\ pending' = Without(pending, i)
      /\ UNCHANGED <<catalog, watches, pc, listed, snap, todo, fresh, settled>>
  BY DEF SaveWatchState
<1>3. state'[i] = pending[i].next /\ \A j \in Ids \ {i} : state'[j] = state[j]
  BY <1>2 DEF AloneInv, TypeInv, RowsOK
<1>4. DOMAIN pending' = DOMAIN pending \ {i}
  BY <1>2 DEF Without
<1>5. ASSUME fresh \/ settled PROVE Quiet(i)'
  <2>1. listed = watches /\ snap = catalog
    BY <1>1, <1>5 DEF AloneInv, ReadsAreCurrent, QuietInv, SnapIsCatalog
  <2>2. pending[i] = Evaluation(Prev(i), state[i] # None, listed[i], snap)
    BY <1>1 DEF ToldInv, PendingIsCurrent
  <2>3. state'[i] = NextState(Prev(i), watches[i], catalog)
    BY <1>3, <2>1, <2>2 DEF Evaluation
  <2>4. Prev(i) \in WatchState /\ watches[i] \in Watch /\ catalog \in Catalogs
    <3>1. listed[i] \in Watch
      BY <1>1 DEF AloneInv, TypeInv, PassOK
    <3> QED
      BY <2>1, <3>1, PrevTypes DEF AloneInv, TypeInv, CatalogOK
  <2>5. Silent(Evaluation(state'[i], TRUE, watches[i], catalog))
    BY <2>3, <2>4, SavedIsSilent
  <2>6. state'[i] # None
    BY <2>3, <2>4, NextStateType, NoneIsNoRow
  <2> QED
    BY <1>2, <2>5, <2>6 DEF Quiet
<1>6. \A j \in Ids \ {i} : Quiet(j)' = Quiet(j)
  BY <1>2, <1>3 DEF Quiet
<1>7. SnapIsCatalog'
  BY <1>2 DEF QuietInv, SnapIsCatalog
<1>8. FreshPass'
  BY <1>1, <1>2, <1>4, <1>5, <1>6 DEF QuietInv, FreshPass, Watched
<1>9. SettledIsQuiet'
  BY <1>2, <1>5, <1>6 DEF QuietInv, SettledIsQuiet, Watched
<1> QED
  BY <1>7, <1>8, <1>9 DEF QuietInv

LEMMA PassQuiet ==
  ASSUME AloneInv, ToldInv, QuietInv, Pass
  PROVE  QuietInv'
<1> USE DEF editVars, historyVars
<1>1. CASE ListWatches
  <2>1. pc' = "snapshot" /\ UNCHANGED <<catalog, watches, state, settled>>
    BY <1>1 DEF ListWatches
  <2> QED
    BY <2>1, SameRowsQuiet DEF QuietInv, SnapIsCatalog, FreshPass, SettledIsQuiet
<1>2. CASE Snapshot
  <2>1. /\ pc' = "evaluate" /\ snap' = catalog /\ todo' = {i \in Ids : watches[i] # None}
        /\ UNCHANGED <<catalog, watches, state, fresh, settled>>
    BY <1>2 DEF Snapshot, AloneInv, ReadsAreCurrent
  <2>2. FreshPass'
    BY <2>1 DEF FreshPass, Watched
  <2> QED
    BY <2>1, <2>2, SameRowsQuiet DEF QuietInv, SnapIsCatalog, SettledIsQuiet
<1>3. CASE EvaluateDone
  <2>1. /\ pc = "evaluate" /\ todo = {} /\ pc' \in {"send", "commit"}
        /\ UNCHANGED <<catalog, watches, state, snap, pending, fresh, settled>>
    BY <1>3 DEF EvaluateDone
  <2>2. FreshPass'
    BY <2>1, SameRowsQuiet DEF QuietInv, FreshPass
  <2> QED
    BY <2>1, <2>2, SameRowsQuiet DEF QuietInv, SnapIsCatalog, SettledIsQuiet
<1>4. CASE SendAlerts
  <2>1. /\ pc = "send" /\ pc' = "commit"
        /\ UNCHANGED <<catalog, watches, state, snap, pending, fresh, settled>>
    BY <1>4 DEF SendAlerts
  <2>2. FreshPass'
    BY <2>1, SameRowsQuiet DEF QuietInv, FreshPass
  <2> QED
    BY <2>1, <2>2, SameRowsQuiet DEF QuietInv, SnapIsCatalog, SettledIsQuiet
<1>5. CASE SendAlertsFail \/ PassAbort
  BY <1>5, StopQuiet DEF SendAlertsFail, PassAbort
<1>6. CASE CommitDone
  <2>1. /\ pc = "commit" /\ DOMAIN pending = {} /\ pc' = "idle" /\ settled' = fresh
        /\ UNCHANGED <<catalog, watches, state>>
    BY <1>6 DEF CommitDone, Stop
  <2>2. SettledIsQuiet'
    BY <2>1, SameRowsQuiet DEF QuietInv, FreshPass, SettledIsQuiet
  <2> QED
    BY <2>1, <2>2 DEF QuietInv, SnapIsCatalog, FreshPass
<1>7. ASSUME NEW i \in Ids, EvaluateWatch(i) PROVE QuietInv'
  <2>1. /\ pc = "evaluate" /\ listed = watches /\ todo' = todo \ {i}
        /\ UNCHANGED <<catalog, watches, state, snap, pc, fresh, settled>>
    BY <1>7 DEF EvaluateWatch, AloneInv, ReadsAreCurrent
  <2>2. /\ DOMAIN pending \subseteq DOMAIN pending'
        /\ listed[i].enabled => i \in DOMAIN pending'
    BY <1>7 DEF EvaluateWatch
  <2>3. FreshPass'
    BY <2>1, <2>2, SameRowsQuiet DEF QuietInv, FreshPass, Watched
  <2> QED
    BY <2>1, <2>3, SameRowsQuiet DEF QuietInv, SnapIsCatalog, SettledIsQuiet
<1>8. ASSUME NEW i \in Ids, SaveWatchStateFails(i) PROVE QuietInv'
  <2>1. ~fresh' /\ UNCHANGED <<catalog, watches, state, pc, snap, settled>>
    BY <1>8 DEF SaveWatchStateFails
  <2> QED
    BY <2>1, SameRowsQuiet DEF QuietInv, SnapIsCatalog, FreshPass, SettledIsQuiet
<1> QED
  BY <1>1, <1>2, <1>3, <1>4, <1>5, <1>6, <1>7, <1>8, SaveWatchStateQuiet DEF Pass

LEMMA EditQuiet ==
  ASSUME QuietInv, Edit
  PROVE  QuietInv'
<1> USE DEF historyVars
<1>1. CASE DeleteWatch
  BY <1>1, DisturbedIsQuiet DEF DeleteWatch
<1>2. ASSUME NEW e \in Editors, LoadWatch(e) \/ CountWatches(e) \/ RequestFails(e) PROVE QuietInv'
  BY <1>2, IdleStepQuiet DEF LoadWatch, CountWatches, RequestFails
<1>3. ASSUME NEW e \in Editors, CreateWatch(e) PROVE QuietInv'
  BY <1>3, DisturbedIsQuiet DEF CreateWatch
<1>4. ASSUME NEW e \in Editors, UpdateWatch(e) PROVE QuietInv'
  <2>1. CASE Disturb
    BY <2>1, DisturbedIsQuiet
  <2>2. CASE UNCHANGED <<watches, state, historyVars>>
    BY <1>4, <2>2, IdleStepQuiet DEF UpdateWatch
  <2> QED
    BY <1>4, <2>1, <2>2 DEF UpdateWatch
<1> QED
  BY <1>1, <1>2, <1>3, <1>4 DEF Edit

LEMMA QuietInvIsQuiet ==
  ASSUME AloneInv, ToldInv, QuietInv
  PROVE  QuietWhenNothingChanged
<1> SUFFICES ASSUME settled, NEW i \in Alerts(pending)
             PROVE  pending[i].target /\ pending[i].next.last = 0 /\ pending[i].new = {}
  BY DEF QuietWhenNothingChanged
<1>1. i \in DOMAIN pending /\ IsAlert(pending[i])
  BY DEF Alerts
<1>2. i \in Ids /\ pc \in {"evaluate", "send", "commit"} /\ listed[i] # None
  BY <1>1 DEF AloneInv, TypeInv, PassOK
<1>3. listed = watches /\ snap = catalog
  BY <1>2 DEF AloneInv, ReadsAreCurrent, QuietInv, SnapIsCatalog
<1>4. /\ watches[i].enabled
      /\ pending[i] = Evaluation(Prev(i), state[i] # None, watches[i], catalog)
  BY <1>1, <1>3 DEF ToldInv, PendingIsCurrent
<1>5. Quiet(i)
  BY <1>2, <1>3, <1>4 DEF QuietInv, SettledIsQuiet, Watched
<1>6. pending[i] = Evaluation(state[i], TRUE, watches[i], catalog)
  <2>1. (state[i] # None) = TRUE
    BY <1>5 DEF Quiet
  <2> QED
    BY <1>4, <1>5, <2>1 DEF Prev, Quiet
<1> QED
  BY <1>1, <1>5, <1>6 DEF Quiet, Silent

\* A report that has nothing new to look at sends nothing, but for a price of
\* 0 (RunWatches).
THEOREM SecondReportIsQuiet ==
  ASSUME ~Races
  PROVE  Spec => []QuietWhenNothingChanged
<1>1. Init => QuietInv
  BY DEF Init, QuietInv, SnapIsCatalog, FreshPass, SettledIsQuiet
<1>2. AloneInv /\ ToldInv /\ QuietInv /\ [Next]_vars => QuietInv'
  <2> SUFFICES ASSUME AloneInv, ToldInv, QuietInv, [Next]_vars PROVE QuietInv'
    OBVIOUS
  <2>1. ASSUME UNCHANGED vars PROVE QuietInv'
    <3>1. UNCHANGED <<catalog, watches, state, passVars, fresh, settled>>
      BY <2>1 DEF vars, historyVars
    <3> QED
      BY <3>1, IdleStepQuiet
  <2>2. CASE CatalogChanges
    BY <2>2, DisturbedIsQuiet DEF CatalogChanges
  <2> QED
    BY <2>1, <2>2, PassQuiet, EditQuiet DEF Next
<1>3. AloneInv /\ ToldInv /\ QuietInv => QuietWhenNothingChanged
  BY QuietInvIsQuiet
<1>4. Spec => []AloneInv /\ []ToldInv
  BY AlwaysAlone, AlwaysTold
<1> QED
  BY <1>1, <1>2, <1>3, <1>4, PTL DEF Spec
=============================================================================
