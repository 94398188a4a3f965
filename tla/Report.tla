------------------------------- MODULE Report -------------------------------
(***************************************************************************)
(* The report command's work on one shop (reporter.Run): warn about a      *)
(* broken collect, find the newest unreported run and the newest reported  *)
(* one, send what differs, and only then mark runs reported. Each step is  *)
(* one query or one send. The three diff queries read the rows of two      *)
(* finished runs, which never change, so they are one step with the query  *)
(* before them.                                                            *)
(***************************************************************************)
EXTENDS ShopRuns

VARIABLES
  cur,       \* cur[r]: the run reporter r is reporting
  prev,      \* prev[r]: the run it compares with, 0 for a baseline
  handled,   \* history: runs whose report was sent, or had nothing to say
  belief,    \* history: the catalog the reader of the chat has been told of
  dangling   \* history: runs whose report was heard, if only in part, while
             \* the process never got to mark them

reportVars == <<rpc, cur, prev>>
toldVars == <<handled, belief, dangling>>

ReportSteps == {"idle", "alert", "current", "previous", "send", "mark"}

ReportTypeOK ==
  /\ rpc \in [Reporters -> ReportSteps]
  /\ cur \in [Reporters -> 0 .. Len(runs)]
  /\ prev \in [Reporters -> 0 .. Len(runs)]
  /\ handled \in SUBSET RunIds
  /\ belief \in Catalogs
  /\ dangling \in SUBSET RunIds

ReportInit ==
  /\ rpc = [r \in Reporters |-> "idle"]
  /\ cur = [r \in Reporters |-> 0]
  /\ prev = [r \in Reporters |-> 0]
  /\ handled = {}
  /\ belief = EmptyCatalog
  /\ dangling = {}

Step(r, step) == rpc' = [rpc EXCEPT ![r] = step]

Return(r) ==
  /\ Step(r, "idle")
  /\ cur' = [cur EXCEPT ![r] = 0]
  /\ prev' = [prev EXCEPT ![r] = 0]

-----------------------------------------------------------------------------
(* What a report says. *)

Distance(a, b) == IF a < b THEN b - a ELSE a - b

(* Mutation of SmallMove: a move of exactly 5 percent is small.            *)
SmallMoveOrFive(old, new) ==
  old.price # 0 /\ 100 * Distance(old.price, new.price) <= 5 * old.price

(* A move too small to report, when the percentage is defined at all.      *)
SmallMove(old, new) ==
  old.price # 0 /\ 100 * Distance(old.price, new.price) < 5 * old.price

(* PriceChanges and filterReportableChanges: the price differs, the kit    *)
(* can be bought, and the move is 5 percent or more.                       *)
ReportableMove(old, new) ==
  /\ old.price # new.price
  /\ new.stock # "out_of_stock"
  /\ ~SmallMove(old, new)

(* The kits a report on run j compared with run i mentions: NewSets,       *)
(* RemovedSets and the reportable price changes.                           *)
News(i, j) ==
  LET old == runs[i].catalog
      new == runs[j].catalog
  IN (Listed(new) \ Listed(old)) \cup (Listed(old) \ Listed(new))
       \cup {k \in Listed(old) \cap Listed(new) : ReportableMove(old[k], new[k])}

(* What the chat's reader believes after reading run j's report on kits.   *)
Hearing(j, kits) ==
  [k \in Kits |-> IF k \in kits THEN runs[j].catalog[k] ELSE belief[k]]

(* A baseline stands for the whole catalog.                                *)
Said(r) == IF prev[r] = 0 THEN Kits ELSE News(prev[r], cur[r])

-----------------------------------------------------------------------------
(* Mutation of Broken: a run that never finished is not looked for.        *)
BrokenIfFailed(i) == runs[i].status = "failed"

(* failureReason, for the run with the highest id. *)
Broken(i) ==
  \/ runs[i].status = "failed"
  \/ runs[i].status = "running" /\ runs[i].overdue

(* LatestRun. With no run at all the command fails and changes nothing.    *)
StartReport(r) ==
  /\ rpc[r] = "idle"
  /\ MayStart
  /\ runs # <<>>
  /\ Step(r, IF Broken(Len(runs)) THEN "alert" ELSE "current")
  /\ UNCHANGED <<runs, listing, cur, prev, toldVars>>

SendAlert(r) ==
  /\ rpc[r] = "alert"
  /\ Step(r, "current")
  /\ UNCHANGED <<runs, listing, cur, prev, toldVars>>

(* Mutation of ReadCurrent: the oldest unreported run.                     *)
ReadOldest(r) ==
  /\ rpc[r] = "current"
  /\ \/ /\ Unreported = {}
        /\ Return(r)
     \/ \E i \in Unreported :
          /\ \A j \in Unreported : i <= j
          /\ cur' = [cur EXCEPT ![r] = i]
          /\ Step(r, "previous")
          /\ UNCHANGED prev
  /\ UNCHANGED <<runs, listing, toldVars>>

(* LatestUnreportedRun's first query.                                      *)
ReadCurrent(r) ==
  /\ rpc[r] = "current"
  /\ \/ /\ Unreported = {}
        /\ Return(r)
     \/ \E i \in Unreported :
          /\ IsNewest(i, Unreported)
          /\ cur' = [cur EXCEPT ![r] = i]
          /\ Step(r, "previous")
          /\ UNCHANGED prev
  /\ UNCHANGED <<runs, listing, toldVars>>

(* Mutation of ReadPrevious: compare with the success just before, whether *)
(* or not it was reported.                                                 *)
ReadPreviousSuccess(r) ==
  /\ rpc[r] = "previous"
  /\ LET Earlier == {i \in Successes : i < cur[r]} IN
     \E i \in {0} \cup Earlier :
       /\ IF Earlier = {} THEN i = 0 ELSE IsNewest(i, Earlier)
       /\ prev' = [prev EXCEPT ![r] = i]
       /\ IF i # 0 /\ News(i, cur[r]) = {}
          THEN Step(r, "mark") /\ handled' = handled \cup {cur[r]}
          ELSE Step(r, "send") /\ UNCHANGED handled
  /\ UNCHANGED <<runs, listing, cur, belief, dangling>>

(* Mutation of ReadPrevious: with nothing to say, return at once.          *)
ReadPreviousSkips(r) ==
  /\ rpc[r] = "previous"
  /\ \E i \in {0} \cup Reported :
       /\ IF Reported = {} THEN i = 0 ELSE IsNewest(i, Reported)
       /\ IF i # 0 /\ News(i, cur[r]) = {}
          THEN Return(r)
          ELSE Step(r, "send") /\ prev' = [prev EXCEPT ![r] = i] /\ UNCHANGED cur
  /\ UNCHANGED <<runs, listing, toldVars>>

(* LatestUnreportedRun's second query, and the diff. A comparison with no  *)
(* news sends nothing (Unchanged) and goes on to mark the run.             *)
ReadPrevious(r) ==
  /\ rpc[r] = "previous"
  /\ \E i \in {0} \cup Reported :
       /\ IF Reported = {} THEN i = 0 ELSE IsNewest(i, Reported)
       /\ prev' = [prev EXCEPT ![r] = i]
       /\ IF i # 0 /\ News(i, cur[r]) = {}
          THEN Step(r, "mark") /\ handled' = handled \cup {cur[r]}
          ELSE Step(r, "send") /\ UNCHANGED handled
  /\ UNCHANGED <<runs, listing, cur, belief, dangling>>

SendReport(r) ==
  /\ rpc[r] = "send"
  /\ belief' = Hearing(cur[r], Said(r))
  /\ handled' = handled \cup {cur[r]}
  /\ Step(r, "mark")
  /\ UNCHANGED <<runs, listing, cur, prev, dangling>>

(* Mutation of SendReportFail: the error is logged and the run marked.     *)
SendFailMarks(r) ==
  /\ rpc[r] = "send"
  /\ Step(r, "mark")
  /\ UNCHANGED <<runs, listing, cur, prev, toldVars>>

(* SendLong fails, or the process dies in it. Nothing, some of the chunks  *)
(* or (the answer is lost) all of them reached the chat. A baseline is one *)
(* chunk.                                                                  *)
SendReportFail(r) ==
  /\ rpc[r] = "send"
  /\ \E kits \in IF prev[r] = 0 THEN {{}, Kits} ELSE SUBSET Said(r) :
       /\ belief' = Hearing(cur[r], kits)
       /\ dangling' = IF kits = {} THEN dangling ELSE dangling \cup {cur[r]}
  /\ Return(r)
  /\ UNCHANGED <<runs, listing, handled>>

(* Mutation of MarkReported: only the run that was diffed is stamped.      *)
MarkOnlyCurrent(r) ==
  /\ rpc[r] = "mark"
  /\ runs' = [runs EXCEPT ![cur[r]].reported = TRUE]
  /\ dangling' = dangling \ {cur[r]}
  /\ Return(r)
  /\ UNCHANGED <<listing, handled, belief>>

(* The UPDATE stamps every unreported success of the shop.                 *)
MarkReported(r) ==
  /\ rpc[r] = "mark"
  /\ runs' = [i \in RunIds |->
                IF i \in Unreported THEN [runs[i] EXCEPT !.reported = TRUE]
                ELSE runs[i]]
  /\ dangling' = dangling \ {cur[r]}
  /\ Return(r)
  /\ UNCHANGED <<listing, handled, belief>>

(* A query or the alert fails, the 5 minute timeout ends the context, or   *)
(* the process dies: the database is as the last step left it.             *)
ReportAbort(r) ==
  /\ rpc[r] \notin {"idle", "send"}
  /\ dangling' = IF rpc[r] = "mark" /\ Said(r) # {}
                 THEN dangling \cup {cur[r]} ELSE dangling
  /\ Return(r)
  /\ UNCHANGED <<runs, listing, handled, belief>>

ReportStep(r) ==
  \/ StartReport(r)
  \/ SendAlert(r)
  \/ ReadCurrent(r)
  \/ ReadPrevious(r)
  \/ SendReport(r)
  \/ SendReportFail(r)
  \/ MarkReported(r)
  \/ ReportAbort(r)
=============================================================================
