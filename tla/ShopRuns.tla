------------------------------ MODULE ShopRuns ------------------------------
(***************************************************************************)
(* What one shop has in the database: its scrape_runs rows, with the       *)
(* price_history rows each run stored, and the state of its sets rows.     *)
(* internal/store/store.go reads and writes them for collect and report.   *)
(*                                                                         *)
(* A run's id is its position in runs, because ids are handed out in the   *)
(* order the rows are inserted. Prices are those of a shop that sells in   *)
(* euros, so the price a report displays is the shop's own.                *)
(***************************************************************************)
EXTENDS Integers, FiniteSets, Sequences

CONSTANTS
  Kits,        \* external ids the shop can list
  Offers,      \* what a listing can say: [price : Nat, stock : Availability]
  Unlisted,    \* the mark of a kit a catalog does not have
  Collectors,  \* collect processes
  Reporters,   \* report processes
  Overlap,     \* may a process start while another one works on this shop?
  MaxRuns      \* bound on the number of runs

Availability == {"unknown", "in_stock", "out_of_stock", "preorder"}

ASSUME KitsAssumption == IsFiniteSet(Kits)
ASSUME OffersAssumption ==
  /\ Offers \subseteq [price : Nat, stock : Availability]
  /\ Unlisted \notin Offers
ASSUME OverlapAssumption == Overlap \in BOOLEAN
ASSUME MaxRunsAssumption == MaxRuns \in Nat

VARIABLES
  runs,     \* the scrape_runs rows, oldest first
  listing,  \* listing[k]: the sets row of k, "unseen" before there is one
  cpc,      \* cpc[c]: where collector c is
  rpc       \* rpc[r]: where reporter r is

(* The price_history rows of a run: the offer of each kit, or no row.      *)
Catalogs == [Kits -> Offers \cup {Unlisted}]
EmptyCatalog == [k \in Kits |-> Unlisted]
Listed(cat) == {k \in Kits : cat[k] # Unlisted}

Statuses == {"running", "success", "failed"}

(* forced and overdue stand for what the row does not say in a field: that *)
(* the run was made with --force, and that started_at is over two hours    *)
(* ago.                                                                    *)
Run == [status : Statuses, catalog : Catalogs, reported : BOOLEAN,
        forced : BOOLEAN, overdue : BOOLEAN]

NewRun(force) ==
  [status |-> "running", catalog |-> EmptyCatalog, reported |-> FALSE,
   forced |-> force, overdue |-> FALSE]

RunIds == 1 .. Len(runs)

Successes  == {i \in RunIds : runs[i].status = "success"}
Reported   == {i \in Successes : runs[i].reported}
Unreported == Successes \ Reported

(* ... ORDER BY id DESC LIMIT 1 *)
IsNewest(i, S) == i \in S /\ \A j \in S : j <= i

SetsFound(cat) == Cardinality(Listed(cat))

ListingStates == {"unseen", "active", "removed"}
Active == {k \in Kits : listing[k] = "active"}

ShopRunsTypeOK ==
  /\ runs \in Seq(Run)
  /\ listing \in [Kits -> ListingStates]

(* The crontab's promise: report starts after collect so the two never     *)
(* race, and nobody starts a second process by hand meanwhile. Overlap     *)
(* drops it: a slow collect is still running at 18:15, or somebody runs a  *)
(* command in the container.                                               *)
MayStart ==
  \/ Overlap
  \/ /\ \A c \in Collectors : cpc[c] = "idle"
     /\ \A r \in Reporters : rpc[r] = "idle"

(* Two hours after started_at a run that never finished counts as stuck.   *)
Overdue(i) ==
  /\ runs[i].status = "running"
  /\ ~runs[i].overdue
  /\ runs' = [runs EXCEPT ![i].overdue = TRUE]
=============================================================================
