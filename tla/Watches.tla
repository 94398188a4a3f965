------------------------------- MODULE Watches -------------------------------
(***************************************************************************)
(* Watches: the report command's alert pass (watchlist.Evaluate,           *)
(* reporter.RunWatches, Pass.Commit) against the web UI's edits            *)
(* (watchlist.Save, Delete). Each step is one query, transaction or send.  *)
(*                                                                         *)
(* What a spec follows is a set of listings: the name facets, versions and *)
(* pins that decide it are left out.                                       *)
(***************************************************************************)
EXTENDS Integers, FiniteSets

CONSTANTS
  Sets,        \* listings
  Offers,      \* Offers[s]: EUR prices of listing s, with whether it can be bought
  Unlisted,    \* the mark of a listing that is not active
  Specs,       \* what a watch can follow: sets of listings
  Targets,     \* target prices a person chooses, 0 for none
  Options,     \* the restock and new-listing options a person chooses
  Editors,     \* requests the web UI serves at once
  MaxWatches,  \* limit on the number of watches
  MaxId,       \* bound on watch ids
  Races        \* may edits overlap a report, or each other?

ASSUME SetsAssumption == IsFiniteSet(Sets) /\ Specs \subseteq SUBSET Sets
ASSUME OffersAssumption ==
  /\ Offers \in [Sets -> SUBSET [price : Nat, buyable : BOOLEAN]]
  /\ Targets \subseteq Nat
ASSUME OptionsAssumption == Options \subseteq [onRestock : BOOLEAN, onNew : BOOLEAN]
ASSUME LimitsAssumption == MaxWatches \in Nat /\ MaxId \in Nat /\ Races \in BOOLEAN

VARIABLES
  catalog,   \* catalog[s]: a listing's newest price and whether it can be bought
  watches,   \* the watches rows
  state,     \* the watch_state rows
  pc,        \* where the report is
  listed,    \* the rows the report read
  snap,      \* the catalog the report read
  todo,      \* watches it has not evaluated yet
  pending,   \* what it found: the state to save and the alert to send
  epc,       \* epc[e]: where request e is
  edit,      \* edit[e]: the id, the new row and the row it read before
  told,      \* history: what the reader was told, or did not ask for
  owed,      \* history: watches with an alert that was heard and not saved
  stateFor,  \* history: the settings a state row was made under
  fresh,     \* history: nothing changed or failed since the report began
  settled    \* history: nothing changed since a report that saved everything

passVars == <<pc, listed, snap, todo, pending>>
editVars == <<epc, edit>>
historyVars == <<told, owed, stateFor, fresh, settled>>
vars == <<catalog, watches, state, passVars, editVars, historyVars>>

Ids == 1 .. MaxId
None == [none |-> TRUE]

AnyOffer == UNION {Offers[s] : s \in Sets}
Prices == {o.price : o \in AnyOffer}
Catalogs ==
  {c \in [Sets -> AnyOffer \cup {Unlisted}] :
     \A s \in Sets : c[s] = Unlisted \/ c[s] \in Offers[s]}
Watch == [spec : Specs, target : Targets, options : Options, enabled : BOOLEAN]
WatchState == [last : Prices \cup {0}, buyable : BOOLEAN, known : SUBSET Sets]
Told == [prices : SUBSET Prices, buyable : BOOLEAN, sets : SUBSET Sets]

NoState == [last |-> 0, buyable |-> FALSE, known |-> {}]
NothingTold == [prices |-> {}, buyable |-> FALSE, sets |-> {}]

Existing == {i \in Ids : watches[i] # None}

(* What an update must not change if the alert state is to be kept.        *)
Settings(w) == <<w.spec, w.target, w.enabled>>

(* Save's validation, as far as it concerns alerts: at least one is on.    *)
Valid(w) == w.target > 0 \/ w.options.onRestock \/ w.options.onNew

-----------------------------------------------------------------------------
(* What a watch sees in a catalog (preview, Live, Best). *)

Live(w, cat) == {s \in w.spec : cat[s] # Unlisted}
Buyable(w, cat) == {s \in Live(w, cat) : cat[s].buyable}
BestPrice(w, cat) ==
  CHOOSE p \in Prices :
    \E s \in Buyable(w, cat) :
      cat[s].price = p /\ \A t \in Buyable(w, cat) : p <= cat[t].price

Hit(w, cat) ==
  Buyable(w, cat) # {} /\ w.target > 0 /\ BestPrice(w, cat) <= w.target

(* Mutation of Drop: any price that is not higher.                         *)
DropAny(last, best) == last = 0 \/ best <= last

(* The target has news: the watch is armed (0), or the price fell another  *)
(* rearmDropPct.                                                           *)
Drop(last, best) == last = 0 \/ best * 100 <= last * 97

(* Mutations of Last: a rising price is not followed; a price over the     *)
(* target does not arm the watch.                                          *)
LastIgnoresRise(last, w, cat) ==
  IF ~Hit(w, cat) THEN 0
  ELSE IF Drop(last, BestPrice(w, cat)) THEN BestPrice(w, cat) ELSE last

LastStaysQuiet(last, w, cat) ==
  IF ~Hit(w, cat) THEN last
  ELSE IF Drop(last, BestPrice(w, cat)) \/ BestPrice(w, cat) > last
       THEN BestPrice(w, cat)
  ELSE last

(* The reference price to save. A price that rises under the target is     *)
(* followed, so that a later drop alerts; over the target the watch is     *)
(* armed again.                                                            *)
Last(last, w, cat) ==
  IF ~Hit(w, cat) THEN 0
  ELSE IF Drop(last, BestPrice(w, cat)) \/ BestPrice(w, cat) > last
       THEN BestPrice(w, cat)
  ELSE last

(* Mutation of NextState: only what is listed now is remembered.           *)
NextStateForgets(prev, w, cat) ==
  [last    |-> Last(prev.last, w, cat),
   buyable |-> Buyable(w, cat) # {},
   known   |-> Live(w, cat)]

NextState(prev, w, cat) ==
  [last    |-> Last(prev.last, w, cat),
   buyable |-> Buyable(w, cat) # {},
   known   |-> prev.known \cup Live(w, cat)]

(* The alert's reasons. seen: the watch was evaluated before. A target     *)
(* alert stands for a restock too.                                         *)
Evaluation(prev, seen, w, cat) ==
  LET target == Hit(w, cat) /\ Drop(prev.last, BestPrice(w, cat)) IN
  [next    |-> NextState(prev, w, cat),
   seen    |-> seen,
   target  |-> target,
   restock |-> /\ seen /\ w.options.onRestock /\ ~target
               /\ Buyable(w, cat) # {} /\ ~prev.buyable,
   new     |-> IF seen /\ w.options.onNew THEN Live(w, cat) \ prev.known ELSE {}]

IsAlert(ev) == ev.target \/ ev.restock \/ ev.new # {}
Alerts(found) == {i \in DOMAIN found : IsAlert(found[i])}
First(ids) == CHOOSE i \in ids : \A j \in ids : i <= j
Without(found, i) == [j \in DOMAIN found \ {i} |-> found[j]]

-----------------------------------------------------------------------------
(* History: what the reader knows. *)

(* prices: the best prices of the reports since the last target alert, {}  *)
(* when the reader has not been told that the target is hit.               *)
Hear(t, ev) ==
  [prices  |-> IF ev.target THEN {ev.next.last} ELSE t.prices,
   buyable |-> t.buyable \/ ev.target \/ ev.restock,
   sets    |-> t.sets \cup ev.new]

(* A saved state is a baseline for what the watch did not ask about, or    *)
(* had not been evaluated for.                                             *)
Take(t, ev, w, cat) ==
  [prices  |-> IF ~Hit(w, cat) THEN {}
               ELSE IF ev.target \/ t.prices = {} THEN t.prices
               ELSE t.prices \cup {BestPrice(w, cat)},
   buyable |-> ev.next.buyable /\ (t.buyable \/ ~ev.seen \/ ~w.options.onRestock),
   sets    |-> t.sets \cup (IF ev.seen /\ w.options.onNew THEN {} ELSE ev.next.known)]

(* The price a later one is compared with.                                 *)
Reference(prices) ==
  IF prices = {} THEN 0 ELSE CHOOSE p \in prices : \A q \in prices : q <= p

InStep(t, st) == t.sets \subseteq st.known /\ st.last = Reference(t.prices)

Forget(i) ==
  /\ told' = [told EXCEPT ![i] = NothingTold]
  /\ owed' = owed \ {i}
  /\ stateFor' = [stateFor EXCEPT ![i] = None]

Disturb == fresh' = FALSE /\ settled' = FALSE

-----------------------------------------------------------------------------
(* The report's pass. *)

Calm == \A e \in Editors : epc[e] = "idle"

Stop ==
  /\ pc' = "idle"
  /\ todo' = {}
  /\ pending' = <<>>
  /\ listed' = [i \in Ids |-> None]
  /\ snap' = [s \in Sets |-> Unlisted]

(* Collect, and the rates, change the catalog.                             *)
CatalogChanges ==
  /\ \E c \in Catalogs \ {catalog} : catalog' = c
  /\ Disturb
  /\ UNCHANGED <<watches, state, passVars, editVars, told, owed, stateFor>>

ListWatches ==
  /\ pc = "idle"
  /\ Races \/ Calm
  /\ Existing # {}
  /\ listed' = watches
  /\ pc' = "snapshot"
  /\ fresh' = TRUE
  /\ UNCHANGED <<catalog, watches, state, snap, todo, pending, editVars,
                 told, owed, stateFor, settled>>

Snapshot ==
  /\ pc = "snapshot"
  /\ snap' = catalog
  /\ todo' = {i \in Ids : listed[i] # None}
  /\ pc' = "evaluate"
  /\ UNCHANGED <<catalog, watches, state, listed, pending, editVars, historyVars>>

(* Watches are evaluated in the order of their ids, each against the state *)
(* row it has now. A disabled one is skipped.                              *)
EvaluateWatch(i) ==
  /\ pc = "evaluate"
  /\ todo # {}
  /\ i = First(todo)
  /\ LET seen == state[i] # None
         prev == IF seen THEN state[i] ELSE NoState
         ev == Evaluation(prev, seen, listed[i], snap)
     IN  /\ todo' = todo \ {i}
         /\ pending' = IF ~listed[i].enabled THEN pending
                       ELSE [j \in DOMAIN pending \cup {i} |->
                               IF j = i THEN ev ELSE pending[j]]
  /\ UNCHANGED <<catalog, watches, state, pc, listed, snap, editVars, historyVars>>

EvaluateDone ==
  /\ pc = "evaluate"
  /\ todo = {}
  /\ pc' = IF Alerts(pending) # {} THEN "send" ELSE "commit"
  /\ UNCHANGED <<catalog, watches, state, listed, snap, todo, pending, editVars, historyVars>>

Heard(ids) ==
  /\ told' = [i \in Ids |-> IF i \in ids THEN Hear(told[i], pending[i]) ELSE told[i]]
  /\ owed' = owed \cup ids

SendAlerts ==
  /\ pc = "send"
  /\ Heard(Alerts(pending))
  /\ pc' = "commit"
  /\ UNCHANGED <<catalog, watches, state, listed, snap, todo, pending, editVars,
                 stateFor, fresh, settled>>

(* Mutation of SendAlertsFail: the state is saved all the same.            *)
SendFailSaves ==
  /\ pc = "send"
  /\ \E n \in Ids \cup {MaxId + 1} : Heard({i \in Alerts(pending) : i < n})
  /\ pc' = "commit"
  /\ UNCHANGED <<catalog, watches, state, listed, snap, todo, pending, editVars,
                 stateFor, fresh, settled>>

(* One message in chunks: those that were sent before the failure are      *)
(* heard, and the last one may be although its answer got lost. Nothing is *)
(* saved.                                                                  *)
SendAlertsFail ==
  /\ pc = "send"
  /\ \E n \in Ids \cup {MaxId + 1} : Heard({i \in Alerts(pending) : i < n})
  /\ Stop
  /\ UNCHANGED <<catalog, watches, state, editVars, stateFor, fresh, settled>>

(* Commit saves one row after the other. The foreign key refuses the state *)
(* of a watch that was deleted meanwhile; the others are saved all the     *)
(* same.                                                                   *)
SaveWatchState(i) ==
  /\ pc = "commit"
  /\ DOMAIN pending # {}
  /\ i = First(DOMAIN pending)
  /\ watches[i] # None
  /\ LET ev == pending[i]
         t == Take(told[i], ev, listed[i], snap)
     IN  /\ state' = [state EXCEPT ![i] = ev.next]
         /\ told' = [told EXCEPT ![i] = t]
         /\ owed' = IF InStep(t, ev.next) THEN owed \ {i} ELSE owed
         /\ stateFor' = [stateFor EXCEPT ![i] = Settings(listed[i])]
  /\ pending' = Without(pending, i)
  /\ UNCHANGED <<catalog, watches, pc, listed, snap, todo, editVars, fresh, settled>>

SaveWatchStateFails(i) ==
  /\ pc = "commit"
  /\ DOMAIN pending # {}
  /\ i = First(DOMAIN pending)
  /\ pending' = Without(pending, i)
  /\ fresh' = FALSE
  /\ UNCHANGED <<catalog, watches, state, pc, listed, snap, todo, editVars,
                 told, owed, stateFor, settled>>

CommitDone ==
  /\ pc = "commit"
  /\ DOMAIN pending = {}
  /\ Stop
  /\ settled' = fresh
  /\ UNCHANGED <<catalog, watches, state, editVars, told, owed, stateFor, fresh>>

(* A query fails, or the process is killed.                                *)
PassAbort ==
  /\ pc # "idle"
  /\ Stop
  /\ UNCHANGED <<catalog, watches, state, editVars, historyVars>>

-----------------------------------------------------------------------------
(* The web UI. *)

MayEdit == Races \/ (pc = "idle" /\ Calm)

LoadWatch(e) ==
  /\ epc[e] = "idle"
  /\ MayEdit
  /\ \E i \in Existing, w \in Watch :
       /\ Valid(w)
       /\ edit' = [edit EXCEPT ![e] = [id |-> i, new |-> w, old |-> watches[i]]]
  /\ epc' = [epc EXCEPT ![e] = "loaded"]
  /\ UNCHANGED <<catalog, watches, state, passVars, historyVars>>

EndRequest(e) ==
  /\ epc' = [epc EXCEPT ![e] = "idle"]
  /\ edit' = [edit EXCEPT ![e] = None]

(* Mutation of Resets: a new target keeps the alert state.                 *)
ResetsOnSpec(old, new) == old.spec # new.spec \/ old.enabled # new.enabled
Resets(old, new) == Settings(old) # Settings(new)

(* One transaction; whether the state is dropped was decided before it, by *)
(* the row that was read then. A row that is gone: not found.              *)
UpdateWatch(e) ==
  /\ epc[e] = "loaded"
  /\ LET r == edit[e] IN
       IF watches[r.id] = None
       THEN UNCHANGED <<watches, state, historyVars>>
       ELSE /\ watches' = [watches EXCEPT ![r.id] = r.new]
            /\ IF Resets(r.old, r.new)
               THEN state' = [state EXCEPT ![r.id] = None] /\ Forget(r.id)
               ELSE UNCHANGED <<state, told, owed, stateFor>>
            /\ Disturb
  /\ EndRequest(e)
  /\ UNCHANGED <<catalog, passVars>>

HasRoom == Cardinality(Existing) < MaxWatches

CountWatches(e) ==
  /\ epc[e] = "idle"
  /\ MayEdit
  /\ HasRoom
  /\ \E w \in Watch :
       Valid(w) /\ edit' = [edit EXCEPT ![e] = [id |-> 0, new |-> w, old |-> None]]
  /\ epc' = [epc EXCEPT ![e] = "counted"]
  /\ UNCHANGED <<catalog, watches, state, passVars, historyVars>>

(* The new id is one more than the largest: that of a deleted watch can    *)
(* come back. MaxId bounds it.                                             *)
CreateWatch(e) ==
  /\ epc[e] = "counted"
  /\ \E i \in Ids :
       /\ \A j \in Existing : j < i
       /\ i = 1 \/ i - 1 \in Existing
       /\ watches' = [watches EXCEPT ![i] = edit[e].new]
  /\ Disturb
  /\ EndRequest(e)
  /\ UNCHANGED <<catalog, state, passVars, told, owed, stateFor>>

(* Mutation of DeleteWatch: no cascade.                                    *)
DeleteKeepsState ==
  /\ MayEdit
  /\ \E i \in Existing : watches' = [watches EXCEPT ![i] = None] /\ Forget(i)
  /\ Disturb
  /\ UNCHANGED <<catalog, state, passVars, editVars>>

DeleteWatch ==
  /\ MayEdit
  /\ \E i \in Existing :
       /\ watches' = [watches EXCEPT ![i] = None]
       /\ state' = [state EXCEPT ![i] = None]
       /\ Forget(i)
  /\ Disturb
  /\ UNCHANGED <<catalog, passVars, editVars>>

(* The request ends between its two queries.                               *)
RequestFails(e) ==
  /\ epc[e] # "idle"
  /\ EndRequest(e)
  /\ UNCHANGED <<catalog, watches, state, passVars, historyVars>>

-----------------------------------------------------------------------------
Init ==
  /\ catalog \in Catalogs
  /\ watches = [i \in Ids |-> None]
  /\ state = [i \in Ids |-> None]
  /\ pc = "idle" /\ todo = {} /\ pending = <<>>
  /\ listed = [i \in Ids |-> None]
  /\ snap = [s \in Sets |-> Unlisted]
  /\ epc = [e \in Editors |-> "idle"]
  /\ edit = [e \in Editors |-> None]
  /\ told = [i \in Ids |-> NothingTold]
  /\ owed = {}
  /\ stateFor = [i \in Ids |-> None]
  /\ fresh = FALSE /\ settled = FALSE

Pass ==
  \/ ListWatches \/ Snapshot \/ EvaluateDone
  \/ SendAlerts \/ SendAlertsFail \/ CommitDone \/ PassAbort
  \/ \E i \in Ids : EvaluateWatch(i) \/ SaveWatchState(i) \/ SaveWatchStateFails(i)

Edit ==
  \/ DeleteWatch
  \/ \E e \in Editors : LoadWatch(e) \/ UpdateWatch(e) \/ CountWatches(e)
                        \/ CreateWatch(e) \/ RequestFails(e)

Next == CatalogChanges \/ Pass \/ Edit

Spec == Init /\ [][Next]_vars

(* report is started every day, a pass cannot fail at the same step for    *)
(* ever, and a request ends.                                               *)
FairSpec ==
  /\ Spec
  /\ SF_vars(ListWatches)
  /\ SF_vars(Snapshot) /\ SF_vars(EvaluateDone)
  /\ SF_vars(SendAlerts) /\ WF_vars(CommitDone)
  /\ \A i \in Ids : SF_vars(EvaluateWatch(i)) /\ SF_vars(SaveWatchState(i))
  /\ \A e \in Editors : WF_vars(UpdateWatch(e) \/ CreateWatch(e) \/ RequestFails(e))
-----------------------------------------------------------------------------
(* Properties. *)

(* Every variable keeps its type, whatever overlaps, and no alert state    *)
(* outlives its watch, so that a watch which gets the id of a deleted one  *)
(* starts afresh (watch_state's foreign key).                              *)
TypeOK ==
  /\ catalog \in Catalogs /\ snap \in Catalogs
  /\ watches \in [Ids -> Watch \cup {None}]
  /\ state \in [Ids -> WatchState \cup {None}]
  /\ \A i \in Ids : state[i] # None => watches[i] # None
  /\ pc \in {"idle", "snapshot", "evaluate", "send", "commit"}
  /\ listed \in [Ids -> Watch \cup {None}]
  /\ todo \subseteq Ids
  /\ DOMAIN pending \subseteq {i \in Ids : listed[i] # None}
  /\ \A i \in DOMAIN pending :
       pending[i] \in [next : WatchState, seen : BOOLEAN, target : BOOLEAN,
                      restock : BOOLEAN, new : SUBSET Sets]
  /\ epc \in [Editors -> {"idle", "loaded", "counted"}]
  /\ \A e \in Editors : (epc[e] = "idle") <=> (edit[e] = None)
  /\ told \in [Ids -> Told] /\ owed \subseteq Ids
  /\ fresh \in BOOLEAN /\ settled \in BOOLEAN

(* A watch's state claims nothing the reader does not know: an alert that  *)
(* was not heard is raised again by the next report (RunWatches, Commit).  *)
StateIsTold ==
  \A i \in Existing : state[i] # None =>
    /\ state[i].last # 0 => told[i].prices # {}
    /\ state[i].buyable => told[i].buyable
    /\ state[i].known \subseteq told[i].sets

(* The price the next one is compared with is the highest of the reports   *)
(* since the last target alert, so that small moves cannot add up to an    *)
(* unsaid drop (Evaluate's switch). An alert that was heard and not saved  *)
(* may differ until it is repeated.                                        *)
ReferenceIsHighest ==
  \A i \in Existing \ owed :
    state[i] # None => state[i].last = Reference(told[i].prices)

(* A listing is announced to a watch once, also when it goes and comes     *)
(* back (known_sets only grows), unless its announcement was not saved.    *)
NewOnce ==
  \A i \in DOMAIN pending : pending[i].new \cap told[i].sets # {} => i \in owed

(* A report after one that saved everything, with no change in between,    *)
(* has nothing to send (RunWatches: "running it twice in a row sends       *)
(* nothing the second time"), but for a price of 0 under a target: saved   *)
(* as the last one alerted, it reads as an armed watch.                    *)
QuietWhenNothingChanged ==
  settled => \A i \in Alerts(pending) :
    pending[i].target /\ pending[i].next.last = 0 /\ pending[i].new = {}

(* A state row was made under the spec, target and enabled setting its     *)
(* watch has now; a change of one of them discards it (Save, UpdateWatch). *)
StateFitsWatch ==
  \A i \in Existing : state[i] # None => stateFor[i] = Settings(watches[i])

(* An offer under the target of a watch is told, or it ends, whatever      *)
(* fails on the way.                                                       *)
TargetIsTold ==
  \A i \in Ids :
    (/\ watches[i] # None /\ watches[i].enabled
     /\ Hit(watches[i], catalog) /\ told[i].prices = {})
    ~> (\/ watches[i] = None \/ ~watches[i].enabled
        \/ ~Hit(watches[i], catalog) \/ told[i].prices # {})
=============================================================================
