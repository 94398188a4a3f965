----------------------------- MODULE DailyCycle -----------------------------
(***************************************************************************)
(* Collect and report processes around one shop's rows in the shared       *)
(* database: the crontab's 18:00 and 18:15 jobs, day after day, and the    *)
(* same commands run by hand.                                              *)
(***************************************************************************)
EXTENDS Collect, Report

vars == <<runs, listing, collectVars, reportVars, toldVars>>

TypeOK ==
  /\ ShopRunsTypeOK
  /\ CollectTypeOK
  /\ ReportTypeOK

Init ==
  /\ runs = <<>>
  /\ listing = [k \in Kits |-> "unseen"]
  /\ CollectInit
  /\ ReportInit

TwoHoursPass ==
  /\ \E i \in RunIds : Overdue(i)
  /\ UNCHANGED <<listing, collectVars, reportVars, toldVars>>

Next ==
  \/ \E c \in Collectors : CollectStep(c) /\ UNCHANGED <<reportVars, toldVars>>
  \/ \E r \in Reporters : ReportStep(r) /\ UNCHANGED collectVars
  \/ TwoHoursPass

Spec == Init /\ [][Next]_vars

(***************************************************************************)
(* Fairness. A collect that started goes on until it returns or dies: its  *)
(* HTTP client and its context have timeouts. cron starts report every day *)
(* for ever, and no step of it fails on every day: a step that can be      *)
(* tried again and again succeeds some day. Nothing makes a collect start. *)
(***************************************************************************)
CollectGoesOn(c) ==
  \/ FetchOk(c) \/ FetchFail(c)
  \/ PassGuard(c) \/ Refuse(c)
  \/ ApplyRun(c) \/ ApplyFail(c)
  \/ FinishRunFailed(c)

Fairness ==
  /\ \A c \in Collectors :
       WF_vars(CollectGoesOn(c) /\ UNCHANGED <<reportVars, toldVars>>)
  /\ \A r \in Reporters :
       /\ WF_vars(StartReport(r) /\ UNCHANGED collectVars)
       /\ SF_vars(SendAlert(r) /\ UNCHANGED collectVars)
       /\ SF_vars(ReadCurrent(r) /\ UNCHANGED collectVars)
       /\ SF_vars(ReadPrevious(r) /\ UNCHANGED collectVars)
       /\ SF_vars(SendReport(r) /\ UNCHANGED collectVars)
       /\ SF_vars(MarkReported(r) /\ UNCHANGED collectVars)
  /\ WF_vars(TwoHoursPass)

FairSpec == Spec /\ Fairness

-----------------------------------------------------------------------------
(* Invariants *)

(* No run is written off as reported unless a report of it, or of a later  *)
(* run that stands for it, was sent or had nothing to say. MarkReported    *)
(* stamps whatever is unreported when it runs, so this rests on no run     *)
(* having slipped in since the report was read.                            *)
ReportedWasHandled ==
  \A i \in Reported : \E h \in handled : i <= h

(* While no report is under way, and unless one was heard that never got   *)
(* marked, the chat's reader knows exactly the kits of the newest reported *)
(* run: reading every diff in turn, however many collects failed or went   *)
(* unreported in between, adds up to the catalog. A report that failed     *)
(* half way is made good when the same run is reported again.              *)
BeliefIsReported ==
  (dangling = {} /\ \A r \in Reporters : rpc[r] = "idle") =>
    \A i \in Reported :
      IsNewest(i, Reported) => Listed(belief) = Listed(runs[i].catalog)

(* At rest, the reader is wrong about the price of a listed kit only when  *)
(* some report had a reason to hold a move back: the kit was out of stock, *)
(* or the price moved by less than 5 percent ("exactly five percent" is    *)
(* told). The price may then stay untold for good.                         *)
PriceMissedForAReason ==
  (dangling = {} /\ \A r \in Reporters : rpc[r] = "idle") =>
    \A i \in Reported, k \in Kits :
      LET price(j) == runs[j].catalog[k].price IN
      ( /\ IsNewest(i, Reported)
        /\ k \in Listed(runs[i].catalog)
        /\ belief[k].price # price(i) ) =>
        \E p, j \in {h \in Reported : k \in Listed(runs[h].catalog)} :
          /\ p < j /\ price(p) # price(j)
          /\ \/ runs[j].catalog[k].stock = "out_of_stock"
             \/ 100 * Distance(price(p), price(j)) < 5 * price(p)

(* The rows marked active are the kits of the newest successful run, the   *)
(* run that reports and the shrink guard take to be the shop's catalog.    *)
ActiveIsNewest ==
  \A i \in Successes :
    IsNewest(i, Successes) => Active = Listed(runs[i].catalog)

(* No unforced run was accepted with fewer than half the kits of the       *)
(* success before it, so a broken scraper never wipes the catalog. The     *)
(* count it was compared with was read before its transaction began.       *)
ShrinkGuard ==
  \A i, j \in Successes :
    (i < j /\ \A k \in Successes : k <= i \/ j <= k) =>
      runs[j].forced \/ SetsFound(runs[i].catalog) <= 2 * SetsFound(runs[j].catalog)

(* A report on its way goes forward in time: it describes a run newer than *)
(* every run the chat already had a report of.                             *)
ReportsGoForward ==
  \A r \in Reporters :
    rpc[r] = "send" => prev[r] < cur[r] /\ \A i \in Reported : i < cur[r]

-----------------------------------------------------------------------------
(* Action properties *)

(* All or nothing: listings change only together with a run becoming a     *)
(* success, a finished run never changes again except to be marked         *)
(* reported, and a run that failed or died left no price behind.           *)
AtomicStep ==
  /\ listing' # listing =>
       \E i \in RunIds : runs[i].status = "running" /\ runs'[i].status = "success"
  /\ \A i \in RunIds :
       /\ runs[i].status # "running" =>
            /\ runs'[i].status = runs[i].status
            /\ runs'[i].catalog = runs[i].catalog
       /\ runs'[i].status # "success" => runs'[i].catalog = EmptyCatalog

RunIsAtomic == [][AtomicStep]_vars

(* A collect that ends by its own error path, not by dying, leaves its run *)
(* marked failed: the collection spec's "end with a status of success or   *)
(* failed".                                                                *)
ErrorEndsRunFailed ==
  [][\A c \in Collectors :
       FinishRunFailed(c) => runs'[crun[c]].status = "failed"]_vars

-----------------------------------------------------------------------------
(* What the composition implements, and liveness *)

Sent == {i \in Successes : \E h \in handled : i <= h}

Promise == INSTANCE Outbox WITH
  published <- Successes, sent <- Sent, acknowledged <- Reported

KeepsPromise == Promise!Spec

(* Every successful run is reported in the end.                            *)
EverySuccessReported ==
  \A i \in 1 .. MaxRuns : (i \in Successes) ~> (i \in Reported)

(* A run that died without recording a failure gets a warning, unless a    *)
(* later run takes its place first.                                        *)
DeadRunIsNoticed ==
  \A i \in 1 .. MaxRuns :
    (i = Len(runs) /\ runs[i].status = "running")
      ~> \/ i < Len(runs)
         \/ i = Len(runs) /\ runs[i].status # "running"
         \/ \E r \in Reporters : rpc[r] = "alert"
=============================================================================
