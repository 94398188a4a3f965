------------------------------- MODULE Collect -------------------------------
(***************************************************************************)
(* The collect command's work on one shop (collector.Run): start a run,    *)
(* fetch the catalog, compare its size with the previous run's, apply it.  *)
(* Each step is one call into the store or one fetch; between two of them  *)
(* other processes use the database, the run's context can end, or the     *)
(* process can die.                                                        *)
(***************************************************************************)
EXTENDS ShopRuns

VARIABLES
  crun,     \* crun[c]: the id of the run c works on
  found,    \* found[c]: the catalog c fetched, non-kits already dropped
  expired   \* expired[c]: c's context is over (run timeout or SIGTERM)

collectVars == <<cpc, crun, found, expired>>

CollectSteps == {"idle", "fetch", "check", "apply", "failing"}

CollectTypeOK ==
  /\ cpc \in [Collectors -> CollectSteps]
  /\ crun \in [Collectors -> 0 .. Len(runs)]
  /\ found \in [Collectors -> Catalogs]
  /\ expired \in [Collectors -> BOOLEAN]

CollectInit ==
  /\ cpc = [c \in Collectors |-> "idle"]
  /\ crun = [c \in Collectors |-> 0]
  /\ found = [c \in Collectors |-> EmptyCatalog]
  /\ expired = [c \in Collectors |-> FALSE]

Goto(c, step) == cpc' = [cpc EXCEPT ![c] = step]

(* The process is gone, or has returned: only the database remembers.      *)
Leave(c) ==
  /\ Goto(c, "idle")
  /\ crun' = [crun EXCEPT ![c] = 0]
  /\ found' = [found EXCEPT ![c] = EmptyCatalog]
  /\ expired' = [expired EXCEPT ![c] = FALSE]

(* Mutation of StartRun: the row's id is taken to be one more than it is. *)
StartRunWrongId(c) ==
  /\ cpc[c] = "idle"
  /\ MayStart
  /\ Len(runs) < MaxRuns
  /\ \E force \in BOOLEAN : runs' = Append(runs, NewRun(force))
  /\ crun' = [crun EXCEPT ![c] = Len(runs') + 1]
  /\ Goto(c, "fetch")
  /\ UNCHANGED <<listing, found, expired>>

(* A context that is already over when the loop reaches this shop makes    *)
(* the INSERT fail: nothing happens then, so there is no such action.      *)
StartRun(c) ==
  /\ cpc[c] = "idle"
  /\ MayStart
  /\ Len(runs) < MaxRuns
  /\ \E force \in BOOLEAN : runs' = Append(runs, NewRun(force))
  /\ crun' = [crun EXCEPT ![c] = Len(runs')]
  /\ Goto(c, "fetch")
  /\ UNCHANGED <<listing, found, expired>>

FetchOk(c) ==
  /\ cpc[c] = "fetch"
  /\ ~expired[c]
  /\ \E cat \in Catalogs : found' = [found EXCEPT ![c] = cat]
  /\ Goto(c, "check")
  /\ UNCHANGED <<runs, listing, crun, expired>>

(* The shop answered with an error, or the context ended the fetch.        *)
FetchFail(c) ==
  /\ cpc[c] = "fetch"
  /\ Goto(c, "failing")
  /\ UNCHANGED <<runs, listing, crun, found, expired>>

(* Mutation of Shrunk: the run before this one, whatever became of it.     *)
ShrunkSincePreviousRun(cat) ==
  /\ Len(runs) > 1
  /\ 2 * SetsFound(cat) < SetsFound(runs[Len(runs) - 1].catalog)

(* LastSuccessfulRunSetsFound, and the sanity guard on what it returns:    *)
(* minSetsRatio is a half.                                                 *)
Shrunk(cat) ==
  \E i \in Successes :
    /\ IsNewest(i, Successes)
    /\ 2 * SetsFound(cat) < SetsFound(runs[i].catalog)

PassGuard(c) ==
  /\ cpc[c] = "check"
  /\ ~expired[c]
  /\ Shrunk(found[c]) => runs[crun[c]].forced
  /\ Goto(c, "apply")
  /\ UNCHANGED <<runs, listing, crun, found, expired>>

(* The guard refuses the catalog, or its query fails, whatever the catalog.*)
Refuse(c) ==
  /\ cpc[c] = "check"
  /\ Goto(c, "failing")
  /\ UNCHANGED <<runs, listing, crun, found, expired>>

(* Mutation of ApplyRun: DeactivateMissing is not called.                  *)
ApplyKeepsMissing(c) ==
  /\ cpc[c] = "apply"
  /\ ~expired[c]
  /\ runs' = [runs EXCEPT ![crun[c]].catalog = found[c],
                          ![crun[c]].status = "success"]
  /\ listing' = [k \in Kits |->
                   IF found[c][k] # Unlisted THEN "active" ELSE listing[k]]
  /\ Leave(c)

(* ApplyRun, one transaction: every fetched kit's row becomes active       *)
(* (UpsertSet) and gets a price row (InsertPriceHistory), the active rows  *)
(* with no price in this run become removed (DeactivateMissing), the run   *)
(* becomes a success.                                                      *)
ApplyRun(c) ==
  /\ cpc[c] = "apply"
  /\ ~expired[c]
  /\ runs' = [runs EXCEPT ![crun[c]].catalog = found[c],
                          ![crun[c]].status = "success"]
  /\ listing' = [k \in Kits |->
                   IF found[c][k] # Unlisted THEN "active"
                   ELSE IF listing[k] = "active" THEN "removed"
                   ELSE listing[k]]
  /\ Leave(c)

(* Mutation of ApplyFail: the upserts were not in a transaction.           *)
ApplyFailKeepsUpserts(c) ==
  /\ cpc[c] = "apply"
  /\ listing' = [k \in Kits |->
                   IF found[c][k] # Unlisted THEN "active" ELSE listing[k]]
  /\ Goto(c, "failing")
  /\ UNCHANGED <<runs, crun, found, expired>>

(* The transaction fails and rolls back.                                   *)
ApplyFail(c) ==
  /\ cpc[c] = "apply"
  /\ Goto(c, "failing")
  /\ UNCHANGED <<runs, listing, crun, found, expired>>

(* The UPDATE runs under the run's own context, so it does nothing once    *)
(* that is over, and its error is dropped.                                 *)
FinishRunFailed(c) ==
  /\ cpc[c] = "failing"
  /\ runs' = IF expired[c] THEN runs
             ELSE [runs EXCEPT ![crun[c]].status = "failed"]
  /\ Leave(c)
  /\ UNCHANGED listing

(* The 60 minute run timeout, or SIGTERM.                                  *)
Expire(c) ==
  /\ cpc[c] # "idle"
  /\ ~expired[c]
  /\ expired' = [expired EXCEPT ![c] = TRUE]
  /\ UNCHANGED <<runs, listing, cpc, crun, found>>

(* The process dies. An open transaction is rolled back by the database.   *)
CollectCrash(c) ==
  /\ cpc[c] # "idle"
  /\ Leave(c)
  /\ UNCHANGED <<runs, listing>>

CollectStep(c) ==
  \/ StartRun(c)
  \/ FetchOk(c)
  \/ FetchFail(c)
  \/ PassGuard(c)
  \/ Refuse(c)
  \/ ApplyRun(c)
  \/ ApplyFail(c)
  \/ FinishRunFailed(c)
  \/ Expire(c)
  \/ CollectCrash(c)
=============================================================================
