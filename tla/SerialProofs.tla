---------------------------- MODULE SerialProofs ----------------------------
(***************************************************************************)
(* What the crontab buys: while no two processes work on the shop at once  *)
(* (~Overlap), nothing is written off unreported, reports go forward, the  *)
(* shrink guard guards, and who reads the chat knows what is reported. For *)
(* any kits, offers, processes and number of runs, and whatever fails or   *)
(* dies on the way.                                                        *)
(***************************************************************************)
EXTENDS DailyCycleProofs, FiniteSetTheorems

-----------------------------------------------------------------------------
(* The inductive invariant. *)

Alone ==
  /\ \A c, d \in Collectors : cpc[c] # "idle" /\ cpc[d] # "idle" => c = d
  /\ \A r, q \in Reporters : rpc[r] # "idle" /\ rpc[q] # "idle" => r = q
  /\ \A c \in Collectors, r \in Reporters : cpc[c] = "idle" \/ rpc[r] = "idle"

(* The run being collected is the newest row.                              *)
OwnNewest ==
  \A c \in Collectors : cpc[c] # "idle" => \A i \in RunIds : i <= crun[c]

UnfinishedUnreported ==
  \A i \in RunIds : runs[i].status # "success" => ~runs[i].reported

ReportedFirst == \A i \in Reported, j \in Unreported : i < j

(* A reporter at work reports the newest success, and nobody has marked it.*)
CurNewest ==
  \A r \in Reporters :
    rpc[r] \in {"previous", "send", "mark"} =>
      cur[r] \in Unreported /\ \A j \in Successes : j <= cur[r]

PrevReported ==
  \A r \in Reporters : rpc[r] = "send" => prev[r] \in {0} \cup Reported

HandledSucceeded == handled \subseteq Successes

MarkHandled == \A r \in Reporters : rpc[r] = "mark" => cur[r] \in handled

ReportInv ==
  /\ ReportedFirst
  /\ CurNewest
  /\ PrevReported
  /\ HandledSucceeded
  /\ MarkHandled
  /\ ReportedWasHandled

SerialInv ==
  /\ Alone
  /\ OwnNewest
  /\ UnfinishedUnreported
  /\ ReportInv

-----------------------------------------------------------------------------
(* What the actions do to the sets of runs. *)

SameSets ==
  /\ Successes' = Successes
  /\ Reported' = Reported
  /\ Unreported' = Unreported

LEMMA SameFieldsSameSets ==
  ASSUME Len(runs') = Len(runs),
         \A i \in RunIds : /\ runs'[i].status = runs[i].status
                           /\ runs'[i].reported = runs[i].reported
  PROVE  SameSets
  BY DEF SameSets, Successes, Reported, Unreported, RunIds

LEMMA StartRunSets ==
  ASSUME CoreInv, NEW c \in Collectors, StartRun(c)
  PROVE  SameSets
  <1>1. /\ Len(runs) \in Nat
        /\ Len(runs') = Len(runs) + 1
        /\ \A i \in RunIds : runs'[i] = runs[i]
        /\ \E f \in BOOLEAN : runs'[Len(runs) + 1] = NewRun(f)
    BY StartRunRuns DEF CoreInv
  <1>2. runs'[Len(runs) + 1].status = "running"
    BY <1>1 DEF NewRun
  <1>3. Successes' = Successes
    BY <1>1, <1>2 DEF Successes, RunIds
  <1> QED
    BY <1>1, <1>3 DEF SameSets, Successes, Reported, Unreported

LEMMA ApplyRunSets ==
  ASSUME CoreInv, UnfinishedUnreported, NEW c \in Collectors, ApplyRun(c)
  PROVE  /\ crun[c] \in RunIds \ Successes
         /\ Successes' = Successes \cup {crun[c]}
         /\ Reported' = Reported
         /\ Unreported' = Unreported \cup {crun[c]}
         /\ \A i \in Successes : runs'[i] = runs[i]
  <1>1. crun[c] \in RunIds /\ runs[crun[c]].status = "running"
    BY DEF CoreInv, OwnRun, ApplyRun
  <1>2. /\ Len(runs') = Len(runs)
        /\ \A i \in RunIds : i # crun[c] => runs'[i] = runs[i]
        /\ runs'[crun[c]].status = "success"
        /\ runs'[crun[c]].reported = runs[crun[c]].reported
    BY <1>1, ApplyRunRuns DEF CoreInv
  <1>3. ~runs[crun[c]].reported
    BY <1>1 DEF UnfinishedUnreported
  <1>4. crun[c] \in RunIds \ Successes
    BY <1>1 DEF Successes
  <1>5. RunIds' = RunIds
    BY <1>2 DEF RunIds
  <1>6. Successes' = Successes \cup {crun[c]}
    BY <1>1, <1>2, <1>5 DEF Successes
  <1>7. Reported' = Reported
    BY <1>1, <1>2, <1>3, <1>4, <1>6 DEF Reported, Successes
  <1>8. Unreported' = Unreported \cup {crun[c]}
    BY <1>4, <1>6, <1>7 DEF Unreported, Reported
  <1>9. \A i \in Successes : runs'[i] = runs[i]
    BY <1>2, <1>4 DEF Successes
  <1> QED
    BY <1>4, <1>6, <1>7, <1>8, <1>9

LEMMA FinishRunFailedSets ==
  ASSUME CoreInv, NEW c \in Collectors, FinishRunFailed(c)
  PROVE  SameSets
  <1>1. crun[c] \in RunIds /\ runs[crun[c]].status = "running"
    BY DEF CoreInv, OwnRun, FinishRunFailed
  <1>2. /\ Len(runs') = Len(runs)
        /\ \A i \in RunIds : i # crun[c] => runs'[i] = runs[i]
        /\ runs'[crun[c]].status # "success"
    BY <1>1, FinishRunFailedRuns DEF CoreInv
  <1>3. Successes' = Successes
    BY <1>1, <1>2 DEF Successes, RunIds
  <1> QED
    BY <1>1, <1>2, <1>3 DEF SameSets, Successes, Reported, Unreported

LEMMA MarkReportedSets ==
  ASSUME CoreInv, NEW r \in Reporters, MarkReported(r)
  PROVE  /\ Successes' = Successes
         /\ Reported' = Successes
         /\ Unreported' = {}
  <1>1. /\ Len(runs') = Len(runs)
        /\ \A j \in RunIds :
              /\ runs'[j].status = runs[j].status
              /\ runs'[j].reported = (runs[j].reported \/ j \in Unreported)
    BY MarkReportedRuns DEF CoreInv
  <1>2. Successes' = Successes
    BY <1>1 DEF Successes, RunIds
  <1>3. Reported' = Successes
    BY <1>1, <1>2 DEF Reported, Unreported, Successes
  <1> QED
    BY <1>2, <1>3 DEF Unreported

(* A collector changes the sets of runs by adding its own run, or not at   *)
(* all.                                                                    *)
LEMMA CollectSets ==
  ASSUME CoreInv, UnfinishedUnreported, NEW c \in Collectors, CollectStep(c)
  PROVE  \/ /\ ApplyRun(c)
            /\ Successes' = Successes \cup {crun[c]}
            /\ Reported' = Reported
            /\ Unreported' = Unreported \cup {crun[c]}
         \/ SameSets
  <1>1. CASE ApplyRun(c)
    BY <1>1, ApplyRunSets
  <1>2. CASE StartRun(c)
    BY <1>2, StartRunSets
  <1>3. CASE FinishRunFailed(c)
    BY <1>3, FinishRunFailedSets
  <1>4. CASE runs' = runs
    BY <1>4, SameFieldsSameSets
  <1> QED
    BY <1>1, <1>2, <1>3, <1>4 DEF CollectStep, FetchOk, FetchFail, PassGuard,
       Refuse, ApplyFail, Expire, CollectCrash

-----------------------------------------------------------------------------
(* One process at a time. *)

LEMMA CollectKeepsAlone ==
  ASSUME ~Overlap, CoreInv, SerialInv, NEW c \in Collectors, CollectStep(c),
         UNCHANGED <<reportVars, toldVars>>
  PROVE  Alone' /\ OwnNewest' /\ UnfinishedUnreported'
  <1>1. cpc \in [Collectors -> CollectSteps] /\ crun \in [Collectors -> 0 .. Len(runs)]
    BY DEF CoreInv, TypeOK, CollectTypeOK
  <1>2. Alone /\ OwnNewest /\ UnfinishedUnreported /\ rpc' = rpc
    BY DEF SerialInv, reportVars
  <1>3. CASE StartRun(c)
    <2>1. /\ \A d \in Collectors : cpc[d] = "idle"
          /\ \A r \in Reporters : rpc[r] = "idle"
      BY <1>3 DEF StartRun, MayStart
    <2>2. /\ Len(runs) \in Nat
          /\ Len(runs') = Len(runs) + 1
          /\ \A i \in RunIds : runs'[i] = runs[i]
          /\ \E f \in BOOLEAN : runs'[Len(runs) + 1] = NewRun(f)
      BY <1>3, StartRunRuns DEF CoreInv
    <2>3. /\ cpc' = [cpc EXCEPT ![c] = "fetch"]
          /\ crun' = [crun EXCEPT ![c] = Len(runs')]
      BY <1>3 DEF StartRun, Goto
    <2>4. Alone'
      BY <1>1, <1>2, <2>1, <2>3 DEF Alone
    <2>5. OwnNewest'
      BY <1>1, <2>1, <2>2, <2>3 DEF OwnNewest, RunIds
    <2>6. UnfinishedUnreported'
      BY <1>2, <2>2 DEF UnfinishedUnreported, RunIds, NewRun
    <2> QED
      BY <2>4, <2>5, <2>6
  <1>4. CASE ~StartRun(c)
    <2>1. cpc[c] # "idle"
      BY <1>4 DEF CollectStep, FetchOk, FetchFail, PassGuard, Refuse, ApplyRun,
         ApplyFail, FinishRunFailed, Expire, CollectCrash
    <2>2. \E s \in CollectSteps : cpc' = [cpc EXCEPT ![c] = s]
      BY <1>1, <1>4 DEF CollectStep, FetchOk, FetchFail, PassGuard, Refuse, ApplyRun,
         ApplyFail, FinishRunFailed, Expire, CollectCrash, Leave, Goto, CollectSteps
    <2>3. crun' = crun \/ (cpc' = [cpc EXCEPT ![c] = "idle"] /\ crun' = [crun EXCEPT ![c] = 0])
      BY <1>4 DEF CollectStep, FetchOk, FetchFail, PassGuard, Refuse, ApplyRun,
         ApplyFail, FinishRunFailed, Expire, CollectCrash, Leave, Goto
    <2>4. Len(runs') = Len(runs) /\ UnfinishedUnreported'
      <3>1. CASE ApplyRun(c)
        <4>1. crun[c] \in RunIds
          BY <3>1 DEF CoreInv, OwnRun, ApplyRun
        <4>2. /\ Len(runs') = Len(runs)
              /\ \A i \in RunIds : i # crun[c] => runs'[i] = runs[i]
              /\ runs'[crun[c]].status = "success"
          BY <3>1, <4>1, ApplyRunRuns DEF CoreInv
        <4> QED
          BY <1>2, <4>1, <4>2 DEF UnfinishedUnreported, RunIds
      <3>2. CASE FinishRunFailed(c)
        <4>1. crun[c] \in RunIds /\ runs[crun[c]].status = "running"
          BY <3>2 DEF CoreInv, OwnRun, FinishRunFailed
        <4>2. /\ Len(runs') = Len(runs)
              /\ \A i \in RunIds : i # crun[c] => runs'[i] = runs[i]
              /\ runs'[crun[c]].reported = runs[crun[c]].reported
          BY <3>2, <4>1, FinishRunFailedRuns DEF CoreInv
        <4> QED
          BY <1>2, <4>1, <4>2 DEF UnfinishedUnreported, RunIds
      <3>3. CASE runs' = runs
        BY <1>2, <3>3 DEF UnfinishedUnreported, RunIds
      <3> QED
        BY <1>4, <3>1, <3>2, <3>3 DEF CollectStep, FetchOk, FetchFail, PassGuard,
           Refuse, ApplyFail, Expire, CollectCrash
    <2>5. Alone'
      BY <1>1, <1>2, <2>1, <2>2 DEF Alone
    <2>6. OwnNewest'
      BY <1>1, <1>2, <2>1, <2>2, <2>3, <2>4 DEF OwnNewest, RunIds
    <2> QED
      BY <2>4, <2>5, <2>6
  <1> QED
    BY <1>3, <1>4

LEMMA ReportKeepsAlone ==
  ASSUME ~Overlap, CoreInv, SerialInv, NEW r \in Reporters, ReportStep(r),
         UNCHANGED collectVars
  PROVE  Alone' /\ OwnNewest' /\ UnfinishedUnreported'
  <1>1. rpc \in [Reporters -> ReportSteps]
    BY DEF CoreInv, TypeOK, ReportTypeOK
  <1>2. Alone /\ OwnNewest /\ UnfinishedUnreported
    BY DEF SerialInv
  <1>3. \E s \in ReportSteps : rpc' = [rpc EXCEPT ![r] = s]
    BY DEF ReportStep, StartReport, SendAlert, ReadCurrent, ReadPrevious, SendReport,
       SendReportFail, MarkReported, ReportAbort, Step, Return, ReportSteps
  <1>4. rpc[r] = "idle" =>
          /\ \A d \in Collectors : cpc[d] = "idle"
          /\ \A q \in Reporters : rpc[q] = "idle"
    BY DEF ReportStep, StartReport, SendAlert, ReadCurrent, ReadPrevious, SendReport,
       SendReportFail, MarkReported, ReportAbort, MayStart
  <1>5. Alone'
    BY <1>1, <1>2, <1>3, <1>4 DEF Alone, collectVars
  <1>6. OwnNewest'
    BY <1>2, ReportRuns DEF OwnNewest, RunIds, collectVars, CoreInv
  <1>7. UnfinishedUnreported'
    <2>1. CASE MarkReported(r)
      BY <1>2, <2>1, MarkReportedRuns DEF UnfinishedUnreported, RunIds, Unreported,
         Successes, CoreInv
    <2>2. CASE runs' = runs
      BY <1>2, <2>2 DEF UnfinishedUnreported, RunIds
    <2> QED
      BY <2>1, <2>2 DEF ReportStep, StartReport, SendAlert, ReadCurrent,
         ReadPrevious, SendReport, SendReportFail, ReportAbort
  <1> QED
    BY <1>5, <1>6, <1>7

-----------------------------------------------------------------------------
(* Reports. *)

LEMMA CollectKeepsReport ==
  ASSUME ~Overlap, CoreInv, SerialInv, NEW c \in Collectors, CollectStep(c),
         UNCHANGED <<reportVars, toldVars>>
  PROVE  ReportInv'
  <1>1. /\ rpc' = rpc /\ cur' = cur /\ prev' = prev
        /\ handled' = handled
    BY DEF reportVars, toldVars
  <1>2. CASE SameSets
    BY <1>1, <1>2 DEF SameSets, SerialInv, ReportInv, ReportedFirst, CurNewest,
       PrevReported, HandledSucceeded, MarkHandled, ReportedWasHandled
  <1>3. CASE /\ ApplyRun(c)
             /\ Successes' = Successes \cup {crun[c]}
             /\ Reported' = Reported
             /\ Unreported' = Unreported \cup {crun[c]}
    <2>1. cpc[c] # "idle"
      BY <1>3 DEF ApplyRun
    <2>2. \A r \in Reporters : rpc[r] = "idle"
      BY <2>1 DEF SerialInv, Alone
    <2>3. \A i \in RunIds : i <= crun[c]
      BY <2>1 DEF SerialInv, OwnNewest
    <2>4. crun[c] \in RunIds \ Successes
      BY <1>3, ApplyRunSets DEF SerialInv
    <2>5. \A i \in Reported : i < crun[c]
      BY <2>3, <2>4 DEF Reported, Successes, RunIds
    <2> QED
      BY <1>1, <1>3, <2>2, <2>5 DEF SerialInv, ReportInv, ReportedFirst, CurNewest,
         PrevReported, HandledSucceeded, MarkHandled, ReportedWasHandled
  <1> QED
    BY <1>2, <1>3, CollectSets DEF SerialInv

LEMMA ReportKeepsReport ==
  ASSUME ~Overlap, CoreInv, SerialInv, NEW r \in Reporters, ReportStep(r),
         UNCHANGED collectVars
  PROVE  ReportInv'
  <1>1. /\ rpc \in [Reporters -> ReportSteps]
        /\ cur \in [Reporters -> 0 .. Len(runs)]
        /\ prev \in [Reporters -> 0 .. Len(runs)]
    BY DEF CoreInv, TypeOK, ReportTypeOK
  <1>2. ReportInv
    BY DEF SerialInv
  <1>3. \A q \in Reporters : q # r => rpc[q] = "idle"
    <2>1. rpc[r] = "idle" => \A q \in Reporters : rpc[q] = "idle"
      BY DEF ReportStep, StartReport, SendAlert, ReadCurrent, ReadPrevious, SendReport,
         SendReportFail, MarkReported, ReportAbort, MayStart
    <2> QED
      BY <2>1 DEF SerialInv, Alone
  <1> USE DEF ReportInv, ReportedFirst, CurNewest, PrevReported, HandledSucceeded,
              MarkHandled, ReportedWasHandled
  <1>4. CASE runs' = runs /\ handled' = handled /\ rpc'[r] \in {"idle", "alert", "current"}
    <2>1. SameSets
      BY <1>4, SameFieldsSameSets
    <2>2. rpc' = [rpc EXCEPT ![r] = rpc'[r]]
      BY <1>1 DEF ReportStep, StartReport, SendAlert, ReadCurrent, ReadPrevious,
         SendReport, SendReportFail, MarkReported, ReportAbort, Step, Return
    <2> QED
      BY <1>1, <1>2, <1>3, <1>4, <2>1, <2>2 DEF SameSets
  <1>5. CASE ReadCurrent(r) /\ rpc'[r] = "previous"
    <2>1. PICK i \in Unreported : /\ IsNewest(i, Unreported)
                                 /\ cur' = [cur EXCEPT ![r] = i]
                                 /\ Step(r, "previous")
                                 /\ prev' = prev
      BY <1>1, <1>5 DEF ReadCurrent, Return, Step
    <2>2. SameSets /\ handled' = handled
      BY <1>5, SameFieldsSameSets DEF ReadCurrent, toldVars
    <2>3. \A j \in Successes : j <= i
      BY <1>2, <2>1 DEF IsNewest, Unreported, Reported, Successes, RunIds
    <2> QED
      BY <1>1, <1>2, <1>3, <2>1, <2>2, <2>3 DEF SameSets, Step
  <1>6. CASE ReadPrevious(r)
    <2>1. PICK i \in {0} \cup Reported :
            /\ prev' = [prev EXCEPT ![r] = i]
            /\ \/ Step(r, "mark") /\ handled' = handled \cup {cur[r]}
               \/ Step(r, "send") /\ handled' = handled
      BY <1>6 DEF ReadPrevious
    <2>2. SameSets /\ cur' = cur
      BY <1>6, SameFieldsSameSets DEF ReadPrevious
    <2>3. rpc[r] = "previous" /\ cur[r] \in Successes
      BY <1>2, <1>6 DEF ReadPrevious, Unreported
    <2>4. CASE Step(r, "mark") /\ handled' = handled \cup {cur[r]}
      BY <1>1, <1>2, <1>3, <2>1, <2>2, <2>3, <2>4 DEF SameSets, Step
    <2>5. CASE Step(r, "send") /\ handled' = handled
      BY <1>1, <1>2, <1>3, <2>1, <2>2, <2>3, <2>5 DEF SameSets, Step
    <2> QED
      BY <2>1, <2>4, <2>5
  <1>7. CASE SendReport(r)
    <2>1. /\ rpc[r] = "send"
          /\ handled' = handled \cup {cur[r]}
          /\ Step(r, "mark")
          /\ cur' = cur /\ prev' = prev
      BY <1>7 DEF SendReport
    <2>2. SameSets
      BY <1>7, SameFieldsSameSets DEF SendReport
    <2>3. cur[r] \in Successes
      BY <1>2, <2>1 DEF Unreported
    <2> QED
      BY <1>1, <1>2, <1>3, <2>1, <2>2, <2>3 DEF SameSets, Step
  <1>8. CASE MarkReported(r)
    <2>1. /\ rpc[r] = "mark"
          /\ rpc' = [rpc EXCEPT ![r] = "idle"]
          /\ handled' = handled
      BY <1>8 DEF MarkReported, Return, Step
    <2>2. /\ Successes' = Successes
          /\ Reported' = Successes
          /\ Unreported' = {}
      BY <1>8, MarkReportedSets
    <2>3. cur[r] \in handled /\ \A j \in Successes : j <= cur[r]
      BY <1>2, <2>1
    <2> QED
      BY <1>1, <1>2, <1>3, <2>1, <2>2, <2>3
  <1> QED
    BY <1>1, <1>4, <1>5, <1>6, <1>7, <1>8 DEF ReportStep, StartReport, SendAlert,
       ReadCurrent, SendReportFail, ReportAbort, Step, Return, toldVars

LEMMA SerialInit == Init => SerialInv
  <1> SUFFICES ASSUME Init PROVE SerialInv
    OBVIOUS
  <1>1. RunIds = {} /\ Successes = {} /\ handled = {}
    BY EmptySeq DEF Init, ReportInit, RunIds, Successes
  <1>2. /\ \A c \in Collectors : cpc[c] = "idle"
        /\ \A r \in Reporters : rpc[r] = "idle"
    BY DEF Init, CollectInit, ReportInit
  <1> QED
    BY <1>1, <1>2 DEF SerialInv, Alone, OwnNewest, UnfinishedUnreported, ReportInv,
       ReportedFirst, CurNewest, PrevReported, HandledSucceeded, MarkHandled,
       ReportedWasHandled, Reported, Unreported

LEMMA SerialNext ==
  ASSUME ~Overlap
  PROVE  CoreInv /\ SerialInv /\ [Next]_vars => SerialInv'
  <1> SUFFICES ASSUME CoreInv, SerialInv, [Next]_vars PROVE SerialInv'
    OBVIOUS
  <1>1. CASE \E c \in Collectors : CollectStep(c) /\ UNCHANGED <<reportVars, toldVars>>
    BY <1>1, CollectKeepsAlone, CollectKeepsReport DEF SerialInv
  <1>2. CASE \E r \in Reporters : ReportStep(r) /\ UNCHANGED collectVars
    BY <1>2, ReportKeepsAlone, ReportKeepsReport DEF SerialInv
  <1>3. CASE TwoHoursPass \/ UNCHANGED vars
    <2>1. /\ Len(runs') = Len(runs)
          /\ \A i \in RunIds : /\ runs'[i].status = runs[i].status
                               /\ runs'[i].reported = runs[i].reported
      BY <1>3, OverdueRuns DEF TwoHoursPass, vars, CoreInv
    <2>2. UNCHANGED <<cpc, crun, rpc, cur, prev, handled>>
      BY <1>3 DEF TwoHoursPass, vars, collectVars, reportVars, toldVars
    <2>3. SameSets
      BY <2>1, SameFieldsSameSets
    <2>4. Alone' /\ OwnNewest' /\ UnfinishedUnreported'
      BY <2>1, <2>2 DEF SerialInv, Alone, OwnNewest, UnfinishedUnreported, RunIds
    <2>5. ReportInv'
      BY <2>2, <2>3 DEF SameSets, SerialInv, ReportInv, ReportedFirst, CurNewest,
         PrevReported, HandledSucceeded, MarkHandled, ReportedWasHandled
    <2> QED
      BY <2>4, <2>5 DEF SerialInv
  <1> QED
    BY <1>1, <1>2, <1>3 DEF Next

LEMMA SerialInvariant ==
  ASSUME ~Overlap
  PROVE  Spec => [](CoreInv /\ SerialInv)
  BY InitCore, NextKeepsCore, SerialInit, SerialNext, PTL DEF Spec

(* MarkReported stamps whatever is unreported when it runs. While nobody   *)
(* else works on the shop that is only what a report was sent of.          *)
THEOREM NothingLost ==
  ASSUME ~Overlap
  PROVE  Spec => []ReportedWasHandled
  <1>1. SerialInv => ReportedWasHandled
    BY DEF SerialInv, ReportInv
  <1> QED
    BY <1>1, SerialInvariant, PTL

(* LatestUnreportedRun's two queries agree on which run is the newer one.  *)
THEOREM ForwardReports ==
  ASSUME ~Overlap
  PROVE  Spec => []ReportsGoForward
  <1>1. CoreInv /\ SerialInv => ReportsGoForward
    BY DEF SerialInv, ReportInv, ReportsGoForward, CurNewest, PrevReported,
       ReportedFirst, Unreported, Reported, Successes, RunIds
  <1> QED
    BY <1>1, SerialInvariant, PTL

-----------------------------------------------------------------------------
(* The outbox. *)

LEMMA SameSetsSent ==
  ASSUME SameSets, handled' = handled
  PROVE  Sent' = Sent
  BY DEF SameSets, Sent

LEMMA CollectKeepsPromise ==
  ASSUME ~Overlap, CoreInv, SerialInv, NEW c \in Collectors, CollectStep(c),
         UNCHANGED <<reportVars, toldVars>>
  PROVE  [Promise!Next]_<<Successes, Sent, Reported>>
  <1>1. handled' = handled
    BY DEF toldVars
  <1>2. CASE SameSets
    BY <1>1, <1>2, SameSetsSent DEF SameSets
  <1>3. CASE /\ ApplyRun(c)
             /\ Successes' = Successes \cup {crun[c]}
             /\ Reported' = Reported
    <2>1. crun[c] \in RunIds \ Successes
      BY <1>3, ApplyRunSets DEF SerialInv
    <2>2. \A j \in Successes : j < crun[c]
      BY <1>3, <2>1 DEF ApplyRun, SerialInv, OwnNewest, Successes, RunIds
    <2>3. handled \subseteq Successes
      BY DEF SerialInv, ReportInv, HandledSucceeded
    <2>4. Sent' = Sent
      BY <1>1, <1>3, <2>1, <2>2, <2>3 DEF Sent, Successes, RunIds
    <2>5. Promise!Publish
      BY <1>3, <2>1, <2>2, <2>4 DEF Promise!Publish
    <2> QED
      BY <2>5 DEF Promise!Next
  <1> QED
    BY <1>2, <1>3, CollectSets DEF SerialInv

LEMMA ReportKeepsPromise ==
  ASSUME ~Overlap, CoreInv, SerialInv, NEW r \in Reporters, ReportStep(r),
         UNCHANGED collectVars
  PROVE  [Promise!Next]_<<Successes, Sent, Reported>>
  <1>1. CASE MarkReported(r)
    <2>1. /\ Successes' = Successes
          /\ Reported' = Successes
      BY <1>1, MarkReportedSets
    <2>2. cur[r] \in handled /\ \A j \in Successes : j <= cur[r]
      BY <1>1 DEF MarkReported, SerialInv, ReportInv, MarkHandled, CurNewest
    <2>3. Sent = Successes /\ Sent' = Successes
      BY <1>1, <2>1, <2>2 DEF MarkReported, Sent
    <2> QED
      BY <2>1, <2>3 DEF Promise!Acknowledge, Promise!Next
  <1>2. CASE runs' = runs /\ handled' = handled
    BY <1>2, SameFieldsSameSets, SameSetsSent DEF SameSets
  <1>3. CASE runs' = runs /\ rpc[r] \in {"previous", "send"} /\ handled' = handled \cup {cur[r]}
    <2>1. SameSets
      BY <1>3, SameFieldsSameSets
    <2>2. \A j \in Successes : j <= cur[r]
      BY <1>3 DEF SerialInv, ReportInv, CurNewest
    <2>3. Sent' = Successes
      BY <1>3, <2>1, <2>2 DEF SameSets, Sent
    <2> QED
      BY <2>1, <2>3 DEF SameSets, Promise!Send, Promise!Next
  <1> QED
    BY <1>1, <1>2, <1>3 DEF ReportStep, StartReport, SendAlert, ReadCurrent,
       ReadPrevious, SendReport, SendReportFail, ReportAbort, toldVars

(* collector.Run and reporter.Run together are an outbox: every success    *)
(* is told, in order, and written off only once told.                      *)
THEOREM ImplementsOutbox ==
  ASSUME ~Overlap
  PROVE  Spec => KeepsPromise
  <1>1. Init => Promise!Init
    <2> SUFFICES ASSUME Init PROVE Promise!Init
      OBVIOUS
    <2>1. Successes = {}
      BY EmptySeq DEF Init, Successes, RunIds
    <2> QED
      BY <2>1 DEF Promise!Init, Sent, Reported
  <1>2. CoreInv /\ SerialInv /\ [Next]_vars => [Promise!Next]_<<Successes, Sent, Reported>>
    <2> SUFFICES ASSUME CoreInv, SerialInv, [Next]_vars
                 PROVE  [Promise!Next]_<<Successes, Sent, Reported>>
      OBVIOUS
    <2>1. CASE \E c \in Collectors : CollectStep(c) /\ UNCHANGED <<reportVars, toldVars>>
      BY <2>1, CollectKeepsPromise
    <2>2. CASE \E r \in Reporters : ReportStep(r) /\ UNCHANGED collectVars
      BY <2>2, ReportKeepsPromise
    <2>3. CASE TwoHoursPass \/ UNCHANGED vars
      <3>1. /\ Len(runs') = Len(runs)
            /\ \A i \in RunIds : /\ runs'[i].status = runs[i].status
                                 /\ runs'[i].reported = runs[i].reported
        BY <2>3, OverdueRuns DEF TwoHoursPass, vars, CoreInv
      <3>2. handled' = handled
        BY <2>3 DEF TwoHoursPass, vars, toldVars
      <3> QED
        BY <3>1, <3>2, SameFieldsSameSets, SameSetsSent DEF SameSets
    <2> QED
      BY <2>1, <2>2, <2>3 DEF Next
  <1> QED
    BY <1>1, <1>2, SerialInvariant, PTL
       DEF Spec, KeepsPromise, Promise!Spec, Promise!outboxVars

-----------------------------------------------------------------------------
(* Listings. *)

(* UpsertSet and DeactivateMissing keep the active rows equal to the       *)
(* newest success's price rows, as long as runs are applied in id order.   *)
THEOREM ActiveIsTheNewestRun ==
  ASSUME ~Overlap
  PROVE  Spec => []ActiveIsNewest
  <1>1. Init => ActiveIsNewest
    BY EmptySeq DEF Init, ActiveIsNewest, Successes, RunIds
  <1>2. CoreInv /\ SerialInv /\ ActiveIsNewest /\ [Next]_vars => ActiveIsNewest'
    <2> SUFFICES ASSUME CoreInv, SerialInv, ActiveIsNewest, [Next]_vars
                 PROVE  ActiveIsNewest'
      OBVIOUS
    <2>1. CASE /\ listing' = listing
               /\ Successes' = Successes
               /\ \A i \in Successes : runs'[i].catalog = runs[i].catalog
      BY <2>1 DEF ActiveIsNewest, IsNewest, Active, Listed
    <2>2. ASSUME NEW c \in Collectors, CollectStep(c) PROVE ActiveIsNewest'
      <3>1. CASE ApplyRun(c)
        <4>1. /\ crun[c] \in RunIds \ Successes
              /\ Successes' = Successes \cup {crun[c]}
          BY <3>1, ApplyRunSets DEF SerialInv
        <4>2. \A i \in Successes : i <= crun[c]
          BY <3>1 DEF ApplyRun, SerialInv, OwnNewest, Successes
        <4>3. \A i \in Successes' : IsNewest(i, Successes)' => i = crun[c]
          BY <4>1, <4>2 DEF IsNewest, Successes, RunIds
        <4>4. runs'[crun[c]].catalog = found[c]
          BY <3>1, ApplyRunRuns DEF CoreInv, OwnRun, ApplyRun
        <4>5. Active' = Listed(found[c])
          BY <3>1 DEF ApplyRun, Active, Listed
        <4> QED
          BY <4>3, <4>4, <4>5 DEF ActiveIsNewest, Listed
      <3>2. CASE ~ApplyRun(c)
        <4>1. SameSets
          BY <2>2, <3>2, CollectSets DEF SerialInv
        <4>2. listing' = listing
          BY <2>2, <3>2 DEF CollectStep, StartRun, FetchOk, FetchFail, PassGuard,
             Refuse, ApplyFail, FinishRunFailed, Expire, CollectCrash
        <4>3. \A i \in Successes : runs'[i] = runs[i]
          BY <2>2, CollectRuns DEF Successes
        <4> QED
          BY <2>1, <4>1, <4>2, <4>3 DEF SameSets
      <3> QED
        BY <3>1, <3>2
    <2>3. ASSUME NEW r \in Reporters, ReportStep(r) PROVE ActiveIsNewest'
      <3>1. /\ listing' = listing
            /\ Len(runs') = Len(runs)
            /\ \A i \in RunIds : /\ runs'[i].status = runs[i].status
                                 /\ runs'[i].catalog = runs[i].catalog
        BY <2>3, ReportRuns, ReportKeepsType DEF CoreInv
      <3> QED
        BY <2>1, <3>1 DEF Successes, RunIds
    <2>4. CASE TwoHoursPass \/ UNCHANGED vars
      <3>1. /\ listing' = listing
            /\ Len(runs') = Len(runs)
            /\ \A i \in RunIds : /\ runs'[i].status = runs[i].status
                                 /\ runs'[i].catalog = runs[i].catalog
        BY <2>4, OverdueRuns DEF TwoHoursPass, vars, CoreInv
      <3> QED
        BY <2>1, <3>1 DEF Successes, RunIds
    <2> QED
      BY <2>2, <2>3, <2>4 DEF Next
  <1> QED
    BY <1>1, <1>2, SerialInvariant, PTL DEF Spec

-----------------------------------------------------------------------------
(* The shrink guard. *)

(* What the guard let pass may still be applied.                           *)
Guarded ==
  \A c \in Collectors :
    cpc[c] = "apply" => (Shrunk(found[c]) => runs[crun[c]].forced)

LEMMA SetsFoundType ==
  ASSUME NEW cat
  PROVE  SetsFound(cat) \in Nat
  <1>1. Listed(cat) \subseteq Kits
    BY DEF Listed
  <1>2. IsFiniteSet(Listed(cat))
    BY <1>1, KitsAssumption, FS_Subset
  <1> QED
    BY <1>2, FS_CardinalityType DEF SetsFound

(* A step that leaves the successes and their prices alone leaves the      *)
(* guard's comparison and what it established alone.                       *)
LEMMA SameSuccessesKeepGuard ==
  ASSUME ShrinkGuard, Successes' = Successes,
         \A i \in Successes : /\ runs'[i].catalog = runs[i].catalog
                             /\ runs'[i].forced = runs[i].forced
  PROVE  /\ ShrinkGuard'
         /\ \A cat : Shrunk(cat)' <=> Shrunk(cat)
  <1>1. \A i \in Successes : SetsFound(runs'[i].catalog) = SetsFound(runs[i].catalog)
    OBVIOUS
  <1>2. ShrinkGuard'
    BY <1>1 DEF ShrinkGuard
  <1>3. \A i : IsNewest(i, Successes)' <=> IsNewest(i, Successes)
    BY DEF IsNewest
  <1>4. ASSUME NEW cat
        PROVE  Shrunk(cat)' <=> Shrunk(cat)
    BY <1>1, <1>3 DEF Shrunk
  <1> QED
    BY <1>2, <1>4

LEMMA CollectKeepsGuard ==
  ASSUME ~Overlap, CoreInv, SerialInv, Guarded, ShrinkGuard,
         NEW c \in Collectors, CollectStep(c)
  PROVE  Guarded' /\ ShrinkGuard'
  <1>1. /\ cpc \in [Collectors -> CollectSteps]
        /\ crun \in [Collectors -> 0 .. Len(runs)]
        /\ found \in [Collectors -> Catalogs]
    BY DEF CoreInv, TypeOK, CollectTypeOK
  <1>2. \A d \in Collectors : d # c => cpc[d] = "idle"
    <2>1. cpc[c] = "idle" => \A d \in Collectors : cpc[d] = "idle"
      BY DEF CollectStep, StartRun, FetchOk, FetchFail, PassGuard, Refuse, ApplyRun,
         ApplyFail, FinishRunFailed, Expire, CollectCrash, MayStart
    <2> QED
      BY <2>1 DEF SerialInv, Alone
  <1>3. CASE ApplyRun(c)
    <2>1. /\ crun[c] \in RunIds \ Successes
          /\ Successes' = Successes \cup {crun[c]}
          /\ \A i \in Successes : runs'[i] = runs[i]
      BY <1>3, ApplyRunSets DEF SerialInv
    <2>2. \A i \in Successes : i < crun[c]
      <3>1. cpc[c] # "idle"
        BY <1>3 DEF ApplyRun
      <3>2. \A i \in RunIds : i <= crun[c]
        BY <3>1 DEF SerialInv, OwnNewest
      <3> QED
        BY <2>1, <3>2 DEF Successes, RunIds
    <2>3. /\ runs'[crun[c]].catalog = found[c]
          /\ runs'[crun[c]].forced = runs[crun[c]].forced
      BY <1>3, <2>1, ApplyRunRuns DEF CoreInv
    <2>4. Guarded'
      BY <1>1, <1>2, <1>3 DEF ApplyRun, Leave, Goto, Guarded
    <2>5. ASSUME NEW i \in Successes', NEW j \in Successes', i < j,
                 \A k \in Successes' : k <= i \/ j <= k
          PROVE  runs'[j].forced \/ SetsFound(runs'[i].catalog) <= 2 * SetsFound(runs'[j].catalog)
      <3>1. i \in Successes /\ runs'[i] = runs[i]
        BY <2>1, <2>2, <2>5 DEF Successes, RunIds
      <3>2. CASE j = crun[c]
        <4>1. IsNewest(i, Successes)
          BY <2>1, <2>2, <2>5, <3>1, <3>2 DEF IsNewest, Successes, RunIds
        <4>2. Shrunk(found[c]) => runs[crun[c]].forced
          BY <1>3 DEF ApplyRun, Guarded
        <4>3. runs[crun[c]].forced \/ ~(2 * SetsFound(found[c]) < SetsFound(runs[i].catalog))
          BY <3>1, <4>1, <4>2 DEF Shrunk
        <4> QED
          BY <2>3, <3>1, <3>2, <4>3, SetsFoundType
      <3>3. CASE j # crun[c]
        BY <2>1, <2>5, <3>1, <3>3 DEF ShrinkGuard
      <3> QED
        BY <3>2, <3>3
    <2>6. ShrinkGuard'
      BY <2>5 DEF ShrinkGuard, SetsFound, Listed
    <2> QED
      BY <2>4, <2>6
  <1>4. CASE ~ApplyRun(c)
    <2>1. Successes' = Successes
      BY <1>4, CollectSets DEF SameSets, SerialInv
    <2>2. \A i \in Successes : runs'[i] = runs[i]
      BY CollectRuns DEF Successes
    <2>3. ShrinkGuard' /\ \A cat : Shrunk(cat)' <=> Shrunk(cat)
      BY <2>1, <2>2, SameSuccessesKeepGuard
    <2>4. CASE PassGuard(c)
      BY <1>1, <1>2, <2>3, <2>4 DEF PassGuard, Goto, Guarded, Shrunk
    <2>5. CASE ~PassGuard(c)
      <3>1. cpc'[c] = "apply" =>
              /\ cpc[c] = "apply"
              /\ UNCHANGED <<runs, crun, found>>
        BY <1>1, <1>4, <2>5 DEF CollectStep, StartRun, FetchOk, FetchFail, Refuse,
           ApplyFail, FinishRunFailed, Expire, CollectCrash, Leave, Goto
      <3>2. \A d \in Collectors : d # c => cpc'[d] = "idle"
        BY <1>1, <1>2 DEF CollectStep, StartRun, FetchOk, FetchFail, PassGuard, Refuse,
           ApplyRun, ApplyFail, FinishRunFailed, Expire, CollectCrash, Leave, Goto
      <3> QED
        BY <2>3, <3>1, <3>2 DEF Guarded, Shrunk
    <2> QED
      BY <2>3, <2>4, <2>5
  <1> QED
    BY <1>3, <1>4

(* A collect compares its size with the run that is still the newest       *)
(* success when ApplyRun commits, so no unforced run shrinks the catalog   *)
(* by more than half.                                                      *)
THEOREM NoMassRemoval ==
  ASSUME ~Overlap
  PROVE  Spec => []ShrinkGuard
  <1>1. Init => Guarded /\ ShrinkGuard
    BY EmptySeq DEF Init, CollectInit, Guarded, ShrinkGuard, Successes, RunIds
  <1>2. CoreInv /\ SerialInv /\ Guarded /\ ShrinkGuard /\ [Next]_vars
          => Guarded' /\ ShrinkGuard'
    <2> SUFFICES ASSUME CoreInv, SerialInv, Guarded, ShrinkGuard, [Next]_vars
                 PROVE  Guarded' /\ ShrinkGuard'
      OBVIOUS
    <2>1. CASE \E c \in Collectors : CollectStep(c) /\ UNCHANGED <<reportVars, toldVars>>
      BY <2>1, CollectKeepsGuard
    <2>2. CASE \/ \E r \in Reporters : ReportStep(r) /\ UNCHANGED collectVars
               \/ TwoHoursPass
               \/ UNCHANGED vars
      <3>1. /\ Len(runs') = Len(runs)
            /\ \A i \in RunIds : /\ runs'[i].status = runs[i].status
                                 /\ runs'[i].catalog = runs[i].catalog
                                 /\ runs'[i].forced = runs[i].forced
        BY <2>2, ReportRuns, OverdueRuns DEF TwoHoursPass, vars, CoreInv
      <3>2. UNCHANGED <<cpc, crun, found>>
        BY <2>2 DEF TwoHoursPass, vars, collectVars
      <3>3. Successes' = Successes
        BY <3>1 DEF Successes, RunIds
      <3>4. ShrinkGuard' /\ \A cat : Shrunk(cat)' <=> Shrunk(cat)
        BY <3>1, <3>3, SameSuccessesKeepGuard DEF Successes
      <3>5. \A d \in Collectors : cpc[d] # "idle" => runs'[crun[d]].forced = runs[crun[d]].forced
        BY <3>1 DEF CoreInv, OwnRun
      <3> QED
        BY <3>2, <3>4, <3>5 DEF Guarded, Shrunk
    <2> QED
      BY <2>1, <2>2 DEF Next
  <1> QED
    BY <1>1, <1>2, SerialInvariant, PTL DEF Spec

-----------------------------------------------------------------------------
(* What the reader of the chat believes: a report that failed half way is  *)
(* made good by the next one.                                              *)

(* The reader's view of every kit is that of one of the runs in S.         *)
Known(S) ==
  \A k \in Kits : \E x \in S : k \in Listed(belief) <=> k \in Listed(runs[x].catalog)

NobodyMarks == \A r \in Reporters : rpc[r] # "mark"

PrevNewest ==
  \A r \in Reporters :
    rpc[r] \in {"send", "mark"} /\ prev[r] # 0 => IsNewest(prev[r], Reported)

KnownAtRest == NobodyMarks => \A i \in Reported :
                                IsNewest(i, Reported) => Known({i} \cup dangling)

KnownAtMark == \A r \in Reporters : rpc[r] = "mark" => Known({cur[r]} \cup dangling)

(* A heard report that was never marked leaves the belief between the      *)
(* newest reported run and the dangling ones.                              *)
BeliefInv ==
  /\ dangling \subseteq Successes
  /\ PrevNewest
  /\ KnownAtRest
  /\ KnownAtMark

-----------------------------------------------------------------------------
(* A kit a diff does not mention is listed in both runs or in neither.     *)
LEMMA NoNews ==
  ASSUME NEW i, NEW j, NEW k \in Kits, k \notin News(i, j)
  PROVE  k \in Listed(runs[i].catalog) <=> k \in Listed(runs[j].catalog)
  BY DEF News

LEMMA HeardKits ==
  ASSUME NEW j, NEW kits, belief' = Hearing(j, kits), NEW k \in Kits
  PROVE  k \in Listed(belief') <=> IF k \in kits THEN k \in Listed(runs[j].catalog)
                                   ELSE k \in Listed(belief)
  BY DEF Hearing, Listed

(* A step that keeps the successes' rows and the belief keeps what is known.*)
LEMMA KnownStays ==
  ASSUME belief' = belief, NEW S \in SUBSET Successes,
         \A i \in Successes : runs'[i].catalog = runs[i].catalog, Known(S)
  PROVE  \A k \in Kits : \E x \in S :
           k \in Listed(belief') <=> k \in Listed(runs'[x].catalog)
  BY DEF Known

LEMMA KnownGrows ==
  ASSUME NEW S, NEW T, S \subseteq T, Known(S)
  PROVE  Known(T)
  BY DEF Known

(* While nobody marks, a diff against the newest reported run, added to    *)
(* what is known, brings the reader to the current run.                    *)
LEMMA DiffBringsUpToDate ==
  ASSUME BeliefInv, NobodyMarks, NEW i \in Reported, IsNewest(i, Reported),
         NEW j, NEW k \in Kits,
         k \notin News(i, j)
  PROVE  \E x \in {j} \cup dangling :
           k \in Listed(belief) <=> k \in Listed(runs[x].catalog)
  <1>1. PICK x \in {i} \cup dangling :
          k \in Listed(belief) <=> k \in Listed(runs[x].catalog)
    BY DEF BeliefInv, KnownAtRest, Known
  <1>2. CASE x \in dangling
    BY <1>1, <1>2
  <1>3. CASE x = i
    BY <1>1, <1>3, NoNews
  <1> QED
    BY <1>1, <1>2, <1>3

-----------------------------------------------------------------------------
(* Steps that are not the reporter's, or tell the reader nothing.          *)
LEMMA QuietKeepsBelief ==
  ASSUME BeliefInv, CoreInv,
         UNCHANGED <<cur, prev, belief, dangling>>,
         Reported' = Reported, Successes \subseteq Successes',
         \A i \in Successes : runs'[i].catalog = runs[i].catalog,
         \A r \in Reporters : /\ rpc'[r] = "mark" <=> rpc[r] = "mark"
                              /\ rpc'[r] = "send" <=> rpc[r] = "send"
  PROVE  BeliefInv'
  <1>1. dangling \subseteq Successes
    BY DEF BeliefInv
  <1>2. PrevNewest'
    BY DEF BeliefInv, PrevNewest, IsNewest
  <1>3. KnownAtRest'
    <2> SUFFICES ASSUME NobodyMarks', NEW i \in Reported, IsNewest(i, Reported)
                 PROVE  \A k \in Kits : \E x \in {i} \cup dangling :
                          k \in Listed(belief') <=> k \in Listed(runs'[x].catalog)
      BY DEF KnownAtRest, Known, IsNewest
    <2>1. Known({i} \cup dangling)
      BY DEF BeliefInv, KnownAtRest, NobodyMarks
    <2>2. {i} \cup dangling \in SUBSET Successes
      BY <1>1 DEF Reported
    <2> HIDE DEF Known
    <2> QED
      BY <2>1, <2>2, KnownStays
  <1>4. KnownAtMark'
    <2> SUFFICES ASSUME NEW r \in Reporters, rpc[r] = "mark"
                 PROVE  \A k \in Kits : \E x \in {cur[r]} \cup dangling :
                          k \in Listed(belief') <=> k \in Listed(runs'[x].catalog)
      BY DEF KnownAtMark, Known
    <2>1. Known({cur[r]} \cup dangling)
      BY DEF BeliefInv, KnownAtMark
    <2>2. {cur[r]} \cup dangling \in SUBSET Successes
      BY <1>1 DEF CoreInv, CurSucceeded
    <2> QED
      BY <2>1, <2>2, KnownStays
  <1> QED
    BY <1>1, <1>2, <1>3, <1>4 DEF BeliefInv

LEMMA CollectKeepsBelief ==
  ASSUME ~Overlap, CoreInv, SerialInv, BeliefInv, NEW c \in Collectors,
         CollectStep(c), UNCHANGED <<reportVars, toldVars>>
  PROVE  BeliefInv'
  <1>1. Reported' = Reported /\ Successes \subseteq Successes'
    BY CollectSets DEF SerialInv, SameSets
  <1>2. \A i \in Successes : runs'[i].catalog = runs[i].catalog
    BY CollectRuns DEF Successes
  <1> QED
    BY <1>1, <1>2, QuietKeepsBelief DEF reportVars, toldVars

-----------------------------------------------------------------------------
(* The reporter's steps. *)

LEMMA OthersAreIdle ==
  ASSUME ~Overlap, CoreInv, SerialInv, NEW r \in Reporters, ReportStep(r)
  PROVE  \A q \in Reporters : q # r => rpc[q] = "idle" /\ rpc'[q] = "idle"
  <1>0. rpc \in [Reporters -> ReportSteps]
    BY DEF CoreInv, TypeOK, ReportTypeOK
  <1>1. rpc[r] = "idle" => \A q \in Reporters : rpc[q] = "idle"
    BY DEF ReportStep, StartReport, SendAlert, ReadCurrent, ReadPrevious, SendReport,
       SendReportFail, MarkReported, ReportAbort, MayStart
  <1>2. \A q \in Reporters : q # r => rpc[q] = "idle"
    BY <1>1 DEF SerialInv, Alone
  <1>3. \E s \in ReportSteps : rpc' = [rpc EXCEPT ![r] = s]
    BY DEF ReportStep, StartReport, SendAlert, ReadCurrent, ReadPrevious, SendReport,
       SendReportFail, MarkReported, ReportAbort, Step, Return, ReportSteps
  <1> QED
    BY <1>0, <1>2, <1>3

LEMMA ReportKeepsBelief ==
  ASSUME ~Overlap, CoreInv, SerialInv, BeliefInv, NEW r \in Reporters,
         ReportStep(r), UNCHANGED collectVars
  PROVE  BeliefInv'
  <1>1. /\ rpc \in [Reporters -> ReportSteps]
        /\ cur \in [Reporters -> 0 .. Len(runs)]
        /\ prev \in [Reporters -> 0 .. Len(runs)]
    BY DEF CoreInv, TypeOK, ReportTypeOK
  <1>2. \A q \in Reporters : q # r => rpc[q] = "idle" /\ rpc'[q] = "idle"
    BY OthersAreIdle
  <1>3. \A i \in Successes : runs'[i].catalog = runs[i].catalog
    BY ReportRuns DEF CoreInv, Successes
  <1>4. rpc[r] \in {"previous", "send", "mark"} =>
          cur[r] \in Unreported /\ \A j \in Successes : j <= cur[r]
    BY DEF SerialInv, ReportInv, CurNewest
  <1>5. CASE StartReport(r) \/ SendAlert(r)
    <2>1. SameSets
      BY <1>5, SameFieldsSameSets DEF StartReport, SendAlert
    <2> QED
      BY <1>1, <1>2, <1>3, <1>5, <2>1, QuietKeepsBelief
         DEF StartReport, SendAlert, Step, SameSets, toldVars
  <1>6. CASE ReadCurrent(r)
    <2>1. SameSets /\ UNCHANGED <<runs, belief, dangling>>
      BY <1>6, SameFieldsSameSets DEF ReadCurrent, toldVars
    <2>2. NobodyMarks /\ rpc'[r] \in {"idle", "previous"}
      BY <1>1, <1>2, <1>6 DEF ReadCurrent, Step, Return, NobodyMarks
    <2>3. KnownAtRest'
      BY <2>1, <2>2 DEF SameSets, BeliefInv, KnownAtRest, Known, IsNewest
    <2> QED
      BY <1>2, <2>1, <2>2, <2>3 DEF SameSets, BeliefInv, PrevNewest, KnownAtMark
  <1>7. CASE ReadPrevious(r)
    <2>1. PICK i \in {0} \cup Reported :
            /\ IF Reported = {} THEN i = 0 ELSE IsNewest(i, Reported)
            /\ prev' = [prev EXCEPT ![r] = i]
            /\ IF i # 0 /\ News(i, cur[r]) = {} THEN Step(r, "mark") ELSE Step(r, "send")
      BY <1>7 DEF ReadPrevious
    <2>2. SameSets /\ UNCHANGED <<runs, cur, belief, dangling>>
      BY <1>7, SameFieldsSameSets DEF ReadPrevious
    <2>3. NobodyMarks
      BY <1>2, <1>7 DEF ReadPrevious, NobodyMarks
    <2>4. PrevNewest'
      <3>1. rpc'[r] \in {"send", "mark"} /\ prev'[r] = i
        BY <1>1, <2>1 DEF Step
      <3>2. i # 0 => IsNewest(i, Reported)
        BY <2>1
      <3> QED
        BY <1>2, <2>2, <3>1, <3>2 DEF PrevNewest, IsNewest, SameSets
    <2>5. CASE Step(r, "mark") /\ i # 0 /\ News(i, cur[r]) = {}
      <3>1. i \in Reported /\ IsNewest(i, Reported)
        BY <2>1, <2>5
      <3>2. \A k \in Kits : \E x \in {cur[r]} \cup dangling :
              k \in Listed(belief) <=> k \in Listed(runs[x].catalog)
        BY <2>3, <2>5, <3>1, DiffBringsUpToDate
      <3>3. KnownAtMark'
        BY <1>2, <2>2, <3>2 DEF KnownAtMark, Known
      <3>4. KnownAtRest'
        BY <1>1, <2>5 DEF Step, KnownAtRest, NobodyMarks
      <3> QED
        BY <2>2, <2>4, <3>3, <3>4 DEF BeliefInv, SameSets
    <2>6. CASE Step(r, "send")
      <3>1. KnownAtMark'
        BY <1>1, <1>2, <2>6 DEF KnownAtMark, Step
      <3>2. KnownAtRest'
        BY <2>2, <2>3 DEF SameSets, BeliefInv, KnownAtRest, Known, IsNewest
      <3> QED
        BY <2>2, <2>4, <3>1, <3>2 DEF BeliefInv, SameSets
    <2> QED
      BY <2>1, <2>5, <2>6
  <1>8. CASE SendReport(r)
    <2>1. /\ rpc[r] = "send"
          /\ belief' = Hearing(cur[r], Said(r))
          /\ Step(r, "mark")
          /\ UNCHANGED <<runs, cur, prev, dangling>>
      BY <1>8 DEF SendReport
    <2>2. SameSets
      BY <2>1, SameFieldsSameSets
    <2>3. NobodyMarks
      BY <1>2, <2>1 DEF NobodyMarks
    <2>4. PrevNewest'
      BY <1>2, <2>1, <2>2 DEF PrevNewest, IsNewest, SameSets, BeliefInv
    <2>5. ASSUME NEW k \in Kits
          PROVE  \E x \in {cur[r]} \cup dangling :
                   k \in Listed(belief') <=> k \in Listed(runs[x].catalog)
      <3>1. CASE k \in Said(r)
        BY <2>1, <3>1, HeardKits
      <3>2. CASE k \notin Said(r)
        <4>1. prev[r] # 0 /\ k \notin News(prev[r], cur[r])
          BY <3>2 DEF Said
        <4>2. prev[r] \in Reported /\ IsNewest(prev[r], Reported)
          BY <2>1, <4>1 DEF BeliefInv, PrevNewest, IsNewest
        <4>3. k \in Listed(belief') <=> k \in Listed(belief)
          BY <2>1, <3>2, HeardKits
        <4> QED
          BY <2>3, <4>1, <4>2, <4>3, DiffBringsUpToDate
      <3> QED
        BY <3>1, <3>2
    <2>6. KnownAtMark'
      BY <1>2, <2>1, <2>5 DEF KnownAtMark, Known
    <2>7. KnownAtRest'
      BY <1>1, <2>1 DEF Step, KnownAtRest, NobodyMarks
    <2> QED
      BY <2>1, <2>2, <2>4, <2>6, <2>7 DEF BeliefInv, SameSets
  <1>9. CASE SendReportFail(r)
    <2>1. PICK kits : /\ belief' = Hearing(cur[r], kits)
                      /\ dangling' = IF kits = {} THEN dangling ELSE dangling \cup {cur[r]}
      BY <1>9 DEF SendReportFail
    <2>2. rpc[r] = "send" /\ runs' = runs /\ Return(r)
      BY <1>9 DEF SendReportFail
    <2>3. SameSets
      BY <2>2, SameFieldsSameSets
    <2>4. NobodyMarks /\ rpc'[r] = "idle"
      BY <1>1, <1>2, <2>2 DEF NobodyMarks, Return, Step
    <2>5. PrevNewest' /\ KnownAtMark'
      BY <1>2, <2>4 DEF PrevNewest, KnownAtMark
    <2>6. KnownAtRest'
      <3> SUFFICES ASSUME NEW i \in Reported, IsNewest(i, Reported), NEW k \in Kits
                   PROVE  \E x \in {i} \cup dangling' :
                            k \in Listed(belief') <=> k \in Listed(runs[x].catalog)
        BY <2>2, <2>3 DEF KnownAtRest, Known, IsNewest, SameSets
      <3>1. CASE k \in kits
        BY <2>1, <3>1, HeardKits
      <3>2. CASE k \notin kits
        <4>1. PICK x \in {i} \cup dangling :
                k \in Listed(belief) <=> k \in Listed(runs[x].catalog)
          BY <2>4 DEF BeliefInv, KnownAtRest, Known
        <4> QED
          BY <2>1, <3>2, <4>1, HeardKits
      <3> QED
        BY <3>1, <3>2
    <2>7. (dangling \subseteq Successes)'
      BY <1>4, <2>1, <2>2, <2>3 DEF BeliefInv, SameSets, Unreported
    <2> QED
      BY <2>5, <2>6, <2>7 DEF BeliefInv
  <1>10. CASE MarkReported(r)
    <2>1. /\ rpc[r] = "mark"
          /\ dangling' = dangling \ {cur[r]}
          /\ belief' = belief
          /\ Return(r)
      BY <1>10 DEF MarkReported
    <2>2. Successes' = Successes /\ Reported' = Successes
      BY <1>10, MarkReportedSets
    <2>3. rpc'[r] = "idle"
      BY <1>1, <2>1 DEF Return, Step
    <2>4. PrevNewest' /\ KnownAtMark'
      BY <1>2, <2>3 DEF PrevNewest, KnownAtMark
    <2>5. KnownAtRest'
      <3> SUFFICES ASSUME NEW i \in Successes, IsNewest(i, Successes)
                   PROVE  \A k \in Kits : \E x \in {i} \cup dangling' :
                            k \in Listed(belief') <=> k \in Listed(runs'[x].catalog)
        BY <2>2 DEF KnownAtRest, Known, IsNewest
      <3>1. i = cur[r]
        BY <1>4, <2>1 DEF IsNewest, Unreported, Successes, RunIds
      <3>2. {i} \cup dangling' = {cur[r]} \cup dangling
        BY <2>1, <3>1
      <3>3. Known({cur[r]} \cup dangling)
        BY <2>1 DEF BeliefInv, KnownAtMark
      <3>4. {cur[r]} \cup dangling \in SUBSET Successes
        BY <3>1 DEF BeliefInv
      <3> QED
        BY <1>3, <2>1, <3>2, <3>3, <3>4, KnownStays
    <2> QED
      BY <2>1, <2>2, <2>4, <2>5 DEF BeliefInv
  <1>11. CASE ReportAbort(r)
    <2>1. /\ rpc[r] \notin {"idle", "send"}
          /\ dangling' = IF rpc[r] = "mark" /\ Said(r) # {}
                         THEN dangling \cup {cur[r]} ELSE dangling
          /\ Return(r)
          /\ UNCHANGED <<runs, belief>>
      BY <1>11 DEF ReportAbort
    <2>2. SameSets
      BY <2>1, SameFieldsSameSets
    <2>3. rpc'[r] = "idle"
      BY <1>1, <2>1 DEF Return, Step
    <2>4. PrevNewest' /\ KnownAtMark'
      BY <1>2, <2>3 DEF PrevNewest, KnownAtMark
    <2>5. KnownAtRest'
      <3> SUFFICES ASSUME NEW i \in Reported, IsNewest(i, Reported), NEW k \in Kits
                   PROVE  \E x \in {i} \cup dangling' :
                            k \in Listed(belief) <=> k \in Listed(runs[x].catalog)
        BY <2>1, <2>2 DEF KnownAtRest, Known, IsNewest, SameSets
      <3>1. CASE rpc[r] # "mark"
        <4>1. NobodyMarks
          BY <1>2, <3>1 DEF NobodyMarks
        <4> QED
          BY <2>1, <3>1, <4>1 DEF BeliefInv, KnownAtRest, Known
      <3>2. CASE rpc[r] = "mark"
        <4>1. PICK x \in {cur[r]} \cup dangling :
                k \in Listed(belief) <=> k \in Listed(runs[x].catalog)
          BY <3>2 DEF BeliefInv, KnownAtMark, Known
        <4>2. CASE x \in dangling'
          BY <4>1, <4>2
        <4>3. CASE x \notin dangling'
          <5>1. x = cur[r] /\ Said(r) = {}
            BY <2>1, <3>2, <4>3
          <5>2. prev[r] # 0 /\ News(prev[r], cur[r]) = {}
            BY <5>1 DEF Said
          <5>3. IsNewest(prev[r], Reported)
            BY <3>2, <5>2 DEF BeliefInv, PrevNewest
          <5>4. prev[r] = i
            BY <5>3 DEF IsNewest, Reported, Successes, RunIds
          <5> QED
            BY <4>1, <5>1, <5>2, <5>4, NoNews
        <4> QED
          BY <4>2, <4>3
      <3> QED
        BY <3>1, <3>2
    <2>6. (dangling \subseteq Successes)'
      BY <1>4, <2>1, <2>2 DEF BeliefInv, SameSets, Unreported
    <2> QED
      BY <2>4, <2>5, <2>6 DEF BeliefInv
  <1> QED
    BY <1>5, <1>6, <1>7, <1>8, <1>9, <1>10, <1>11 DEF ReportStep

-----------------------------------------------------------------------------
LEMMA InitBelief == Init => BeliefInv
  <1> SUFFICES ASSUME Init PROVE BeliefInv
    OBVIOUS
  <1>1. Successes = {} /\ Reported = {}
    BY EmptySeq DEF Init, Reported, Successes, RunIds
  <1>2. dangling = {} /\ \A r \in Reporters : rpc[r] = "idle"
    BY DEF Init, ReportInit
  <1> QED
    BY <1>1, <1>2 DEF BeliefInv, PrevNewest, KnownAtRest, KnownAtMark

LEMMA NextKeepsBelief ==
  ASSUME ~Overlap
  PROVE  CoreInv /\ SerialInv /\ BeliefInv /\ [Next]_vars => BeliefInv'
  <1> SUFFICES ASSUME CoreInv, SerialInv, BeliefInv, [Next]_vars PROVE BeliefInv'
    OBVIOUS
  <1>1. CASE \E c \in Collectors : CollectStep(c) /\ UNCHANGED <<reportVars, toldVars>>
    BY <1>1, CollectKeepsBelief
  <1>2. CASE \E r \in Reporters : ReportStep(r) /\ UNCHANGED collectVars
    BY <1>2, ReportKeepsBelief
  <1>3. CASE TwoHoursPass \/ UNCHANGED vars
    <2>1. /\ Len(runs') = Len(runs)
          /\ \A i \in RunIds : /\ runs'[i].status = runs[i].status
                               /\ runs'[i].catalog = runs[i].catalog
                               /\ runs'[i].reported = runs[i].reported
      BY <1>3, OverdueRuns DEF TwoHoursPass, vars, CoreInv
    <2>2. UNCHANGED <<rpc, cur, prev, belief, dangling>>
      BY <1>3 DEF TwoHoursPass, vars, reportVars, toldVars
    <2>3. SameSets
      BY <2>1, SameFieldsSameSets
    <2> QED
      BY <2>1, <2>2, <2>3, QuietKeepsBelief DEF SameSets, Successes
  <1> QED
    BY <1>1, <1>2, <1>3 DEF Next

(* Reading every message reporter.Run sends, in turn, adds up to the       *)
(* newest reported catalog, however many collects failed or went           *)
(* unreported in between and however many sends failed half way.           *)
THEOREM ReadersAreUpToDate ==
  ASSUME ~Overlap
  PROVE  Spec => []BeliefIsReported
  <1>1. BeliefInv => BeliefIsReported
    <2> SUFFICES ASSUME BeliefInv, dangling = {}, \A r \in Reporters : rpc[r] = "idle",
                        NEW i \in Reported, IsNewest(i, Reported)
                 PROVE  Listed(belief) = Listed(runs[i].catalog)
      BY DEF BeliefIsReported
    <2>1. \A k \in Kits : k \in Listed(belief) <=> k \in Listed(runs[i].catalog)
      BY DEF BeliefInv, KnownAtRest, Known, NobodyMarks
    <2> QED
      BY <2>1 DEF Listed
  <1> QED
    BY <1>1, InitBelief, NextKeepsBelief, SerialInvariant, PTL DEF Spec
-----------------------------------------------------------------------------
(* Prices: a report may hold a move back, and it may stay untold.          *)

Price(j, k) == runs[j].catalog[k].price

(* Two runs of S differ in k's price, the later in stock but for a small   *)
(* move, or not in stock.                                                  *)
HeldBack(S, k) ==
  \E p \in S, j \in S :
    /\ k \in Listed(runs[p].catalog) /\ k \in Listed(runs[j].catalog)
    /\ p < j /\ Price(p, k) # Price(j, k)
    /\ \/ runs[j].catalog[k].stock = "out_of_stock"
       \/ 100 * Distance(Price(p, k), Price(j, k)) < 5 * Price(p, k)

PriceKnown(i, k) ==
  k \in Listed(runs[i].catalog) =>
    \/ belief[k].price = Price(i, k)
    \/ HeldBack(Reported, k)
    \/ \E x \in dangling : belief[k] = runs[x].catalog[k]

(* Between the sending and the mark the reader knows what was just said,   *)
(* and of the rest what was known before.                                  *)
PriceInv ==
  /\ \A r \in Reporters : rpc[r] = "mark" =>
       \A k \in Kits \cap Said(r) : belief[k] = runs[cur[r]].catalog[k]
  /\ \A i \in Reported, k \in Kits :
       \/ ~IsNewest(i, Reported)
       \/ \E r \in Reporters : rpc[r] = "mark" /\ k \in Said(r)
       \/ PriceKnown(i, k)

LEMMA HeldBackStays ==
  ASSUME NEW S \in SUBSET Successes, NEW T, S \subseteq T, NEW k,
         \A i \in Successes : runs'[i].catalog = runs[i].catalog, HeldBack(S, k)
  PROVE  \E p \in T, j \in T :
           /\ k \in Listed(runs'[p].catalog) /\ k \in Listed(runs'[j].catalog)
           /\ p < j /\ runs'[p].catalog[k].price # runs'[j].catalog[k].price
           /\ \/ runs'[j].catalog[k].stock = "out_of_stock"
              \/ 100 * Distance(runs'[p].catalog[k].price, runs'[j].catalog[k].price)
                   < 5 * runs'[p].catalog[k].price
  <1>1. PICK p \in S, j \in S :
          /\ k \in Listed(runs[p].catalog) /\ k \in Listed(runs[j].catalog)
          /\ p < j /\ Price(p, k) # Price(j, k)
          /\ \/ runs[j].catalog[k].stock = "out_of_stock"
             \/ 100 * Distance(Price(p, k), Price(j, k)) < 5 * Price(p, k)
    BY DEF HeldBack
  <1>2. /\ p \in T /\ j \in T
        /\ runs'[p].catalog = runs[p].catalog /\ runs'[j].catalog = runs[j].catalog
    BY <1>1
  <1> QED
    BY <1>1, <1>2 DEF Price

(* What is known of a price stays known while the belief, the reported     *)
(* runs' rows and the dangling runs stay, or more of them come.            *)
LEMMA PriceStaysKnown ==
  ASSUME NEW i \in Successes, NEW k \in Kits, PriceKnown(i, k), belief'[k] = belief[k],
         Reported \subseteq Reported', dangling \subseteq Successes, dangling \subseteq dangling',
         \A j \in Successes : runs'[j].catalog = runs[j].catalog
  PROVE  PriceKnown(i, k)'
  <1>1. runs'[i].catalog = runs[i].catalog /\ Price(i, k)' = Price(i, k)
    BY DEF Price
  <1>2. CASE HeldBack(Reported, k)
    <2>1. Reported \in SUBSET Successes
      BY DEF Reported
    <2>2. HeldBack(Reported, k)'
      BY <1>2, <2>1, HeldBackStays DEF HeldBack, Price
    <2> QED
      BY <2>2 DEF PriceKnown
  <1>3. CASE ~HeldBack(Reported, k)
    BY <1>1, <1>3 DEF PriceKnown
  <1> QED
    BY <1>2, <1>3

(* A diff that does not mention a kit had a reason not to tell its price.  *)
LEMMA UnmentionedPrice ==
  ASSUME NEW i, NEW j, NEW k \in Kits, k \notin News(i, j), k \in Listed(runs[j].catalog)
  PROVE  /\ k \in Listed(runs[i].catalog)
         /\ \/ Price(i, k) = Price(j, k)
            \/ runs[j].catalog[k].stock = "out_of_stock"
            \/ 100 * Distance(Price(i, k), Price(j, k)) < 5 * Price(i, k)
  BY DEF News, ReportableMove, SmallMove, Price

(* Steps after which nobody is in another place and the reader knows no    *)
(* more or less.                                                           *)
LEMMA QuietKeepsPrices ==
  ASSUME CoreInv, BeliefInv, PriceInv,
         UNCHANGED <<belief, dangling>>,
         Reported' = Reported, \A i \in Successes : runs'[i].catalog = runs[i].catalog,
         \A r \in Reporters : rpc[r] # "mark" /\ rpc'[r] # "mark"
  PROVE  PriceInv'
  <1>1. ASSUME NEW i \in Reported, NEW k \in Kits, IsNewest(i, Reported)
        PROVE  PriceKnown(i, k)'
    <2>1. i \in Successes /\ dangling \subseteq Successes
      BY DEF Reported, BeliefInv
    <2>2. PriceKnown(i, k)
      BY <1>1 DEF PriceInv
    <2> QED
      BY <2>1, <2>2, PriceStaysKnown
  <1> QED
    BY <1>1 DEF PriceInv, IsNewest

LEMMA ReportKeepsPrices ==
  ASSUME ~Overlap, CoreInv, SerialInv, BeliefInv, PriceInv, NEW r \in Reporters,
         ReportStep(r), UNCHANGED collectVars
  PROVE  PriceInv'
  <1>1. /\ rpc \in [Reporters -> ReportSteps]
        /\ cur \in [Reporters -> 0 .. Len(runs)]
        /\ prev \in [Reporters -> 0 .. Len(runs)]
    BY DEF CoreInv, TypeOK, ReportTypeOK
  <1>2. \A q \in Reporters : q # r => rpc[q] = "idle" /\ rpc'[q] = "idle"
    BY OthersAreIdle
  <1>3. \A i \in Successes : runs'[i].catalog = runs[i].catalog
    BY ReportRuns DEF CoreInv, Successes
  <1>4. rpc[r] \in {"previous", "send", "mark"} =>
          cur[r] \in Unreported /\ \A j \in Successes : j <= cur[r]
    BY DEF SerialInv, ReportInv, CurNewest
  <1>5. dangling \subseteq Successes /\ Reported \subseteq Successes
    BY DEF BeliefInv, Reported
  <1>6. ASSUME rpc[r] # "mark", NEW i \in Reported, IsNewest(i, Reported), NEW k \in Kits
        PROVE  PriceKnown(i, k)
    BY <1>2, <1>6 DEF PriceInv
  <1>7. CASE StartReport(r) \/ SendAlert(r) \/ ReadCurrent(r)
    <2>1. SameSets /\ UNCHANGED <<belief, dangling>>
      BY <1>7, SameFieldsSameSets DEF StartReport, SendAlert, ReadCurrent, toldVars
    <2>2. rpc[r] # "mark" /\ rpc'[r] # "mark"
      BY <1>1, <1>7 DEF StartReport, SendAlert, ReadCurrent, Step, Return
    <2>3. \A q \in Reporters : rpc[q] # "mark" /\ rpc'[q] # "mark"
      BY <1>2, <2>2
    <2> QED
      BY <1>3, <2>1, <2>3, QuietKeepsPrices DEF SameSets
  <1>8. CASE ReadPrevious(r)
    <2>1. PICK i \in {0} \cup Reported :
            /\ prev' = [prev EXCEPT ![r] = i]
            /\ IF i # 0 /\ News(i, cur[r]) = {} THEN Step(r, "mark") ELSE Step(r, "send")
      BY <1>8 DEF ReadPrevious
    <2>2. SameSets /\ UNCHANGED <<runs, cur, belief, dangling>> /\ rpc[r] = "previous"
      BY <1>8, SameFieldsSameSets DEF ReadPrevious
    <2>3. rpc'[r] = "mark" => i # 0 /\ News(i, cur[r]) = {}
      BY <1>1, <2>1 DEF Step
    <2>4. prev'[r] = i
      BY <1>1, <2>1
    <2>5. ASSUME rpc'[r] = "mark"
          PROVE  Said(r)' = {}
      BY <2>2, <2>3, <2>4, <2>5 DEF Said, News
    <2>6. \A q \in Reporters : rpc'[q] = "mark" => Said(q)' = {}
      BY <1>2, <2>5
    <2>7. ASSUME NEW j \in Reported, NEW k \in Kits, IsNewest(j, Reported)
          PROVE  PriceKnown(j, k)'
      BY <1>3, <1>5, <1>6, <2>2, <2>7, PriceStaysKnown DEF SameSets
    <2> QED
      BY <2>2, <2>6, <2>7 DEF PriceInv, IsNewest, SameSets
  <1>9. CASE SendReport(r)
    <2>1. /\ rpc[r] = "send" /\ belief' = Hearing(cur[r], Said(r)) /\ Step(r, "mark")
          /\ UNCHANGED <<runs, cur, prev, dangling>>
      BY <1>9 DEF SendReport
    <2>2. SameSets /\ rpc'[r] = "mark"
      BY <1>1, <2>1, SameFieldsSameSets DEF Step
    <2>3. Said(r)' = Said(r)
      BY <2>1 DEF Said, News
    <2>4. \A k \in Kits : belief'[k] = IF k \in Said(r) THEN runs[cur[r]].catalog[k] ELSE belief[k]
      BY <2>1 DEF Hearing
    <2>5. ASSUME NEW j \in Reported, NEW k \in Kits, IsNewest(j, Reported), k \notin Said(r)
          PROVE  PriceKnown(j, k)'
      BY <1>3, <1>5, <1>6, <2>1, <2>2, <2>4, <2>5, PriceStaysKnown DEF SameSets
    <2>6. \A q \in Reporters : rpc'[q] = "mark" =>
            \A k \in Kits \cap Said(q)' : belief'[k] = runs'[cur'[q]].catalog[k]
      BY <1>2, <2>1, <2>3, <2>4
    <2>7. \A j \in Reported', k \in Kits :
            \/ ~IsNewest(j, Reported')
            \/ \E q \in Reporters : rpc'[q] = "mark" /\ k \in Said(q)'
            \/ PriceKnown(j, k)'
      BY <2>2, <2>3, <2>5 DEF SameSets, IsNewest
    <2> QED
      BY <2>6, <2>7 DEF PriceInv, IsNewest
  <1>10. CASE SendReportFail(r)
    <2>1. PICK kits : /\ belief' = Hearing(cur[r], kits)
                      /\ dangling' = IF kits = {} THEN dangling ELSE dangling \cup {cur[r]}
      BY <1>10 DEF SendReportFail
    <2>2. rpc[r] = "send" /\ runs' = runs /\ Return(r)
      BY <1>10 DEF SendReportFail
    <2>3. SameSets /\ rpc'[r] = "idle"
      BY <1>1, <2>2, SameFieldsSameSets DEF Return, Step
    <2>4. \A q \in Reporters : rpc'[q] # "mark"
      BY <1>2, <2>3
    <2>5. ASSUME NEW j \in Reported, NEW k \in Kits, IsNewest(j, Reported)
          PROVE  PriceKnown(j, k)'
      <3>1. CASE k \in kits
        <4>1. belief'[k] = runs'[cur[r]].catalog[k] /\ cur[r] \in dangling'
          BY <2>1, <2>2, <3>1 DEF Hearing
        <4> QED
          BY <4>1 DEF PriceKnown
      <3>2. CASE k \notin kits
        <4>1. belief'[k] = belief[k] /\ dangling \subseteq dangling'
          BY <2>1, <3>2 DEF Hearing
        <4> QED
          BY <1>3, <1>5, <1>6, <2>2, <2>3, <2>5, <4>1, PriceStaysKnown DEF SameSets
      <3> QED
        BY <3>1, <3>2
    <2> QED
      BY <2>3, <2>4, <2>5 DEF PriceInv, IsNewest, SameSets
  <1>11. CASE MarkReported(r)
    <2>1. /\ rpc[r] = "mark" /\ dangling' = dangling \ {cur[r]} /\ belief' = belief /\ Return(r)
      BY <1>11 DEF MarkReported
    <2>2. Successes' = Successes /\ Reported' = Successes
      BY <1>11, MarkReportedSets
    <2>3. \A q \in Reporters : rpc'[q] # "mark"
      BY <1>1, <1>2, <2>1 DEF Return, Step
    <2>4. cur[r] \in Successes /\ \A j \in Successes : runs'[j].catalog = runs[j].catalog
      BY <1>3, <1>4, <2>1 DEF Unreported
    <2>5. ASSUME NEW j \in Successes, IsNewest(j, Successes), NEW k \in Kits
          PROVE  PriceKnown(j, k)'
      <3>1. j = cur[r]
        BY <1>4, <2>1, <2>4, <2>5 DEF IsNewest, Successes, RunIds
      <3>2. SUFFICES ASSUME k \in Listed(runs[j].catalog)
                     PROVE  \/ belief[k].price = Price(j, k)
                            \/ HeldBack(Reported, k)'
                            \/ \E x \in dangling' : belief[k] = runs[x].catalog[k]
        <4>1. runs'[j].catalog = runs[j].catalog /\ Price(j, k)' = Price(j, k)
          BY <2>4 DEF Price
        <4>2. \A x \in dangling' : runs'[x].catalog = runs[x].catalog
          BY <1>5, <2>1, <2>4
        <4> QED
          BY <2>1, <4>1, <4>2 DEF PriceKnown
      <3>3. CASE k \in Said(r)
        BY <2>1, <3>1, <3>3 DEF PriceInv, Price
      <3>4. CASE k \notin Said(r)
        <4>1. prev[r] # 0 /\ k \notin News(prev[r], cur[r])
          BY <3>4 DEF Said
        <4>2. PICK i \in Reported : i = prev[r] /\ IsNewest(i, Reported)
          BY <2>1, <4>1 DEF BeliefInv, PrevNewest, IsNewest
        <4>3. PriceKnown(i, k)
          BY <1>2, <2>1, <3>4, <4>2 DEF PriceInv
        <4>4. /\ k \in Listed(runs[i].catalog)
              /\ \/ Price(i, k) = Price(j, k)
                 \/ runs[j].catalog[k].stock = "out_of_stock"
                 \/ 100 * Distance(Price(i, k), Price(j, k)) < 5 * Price(i, k)
          BY <3>1, <3>2, <4>1, <4>2, UnmentionedPrice
        <4>5. i < j /\ i \in Successes
          BY <1>4, <1>5, <2>1, <3>1, <4>2 DEF Unreported, Successes, RunIds
        <4>6. CASE Price(i, k) # Price(j, k)
          <5>1. HeldBack(Successes, k)
            BY <3>2, <4>4, <4>5, <4>6 DEF HeldBack
          <5> QED
            BY <2>2, <2>4, <5>1, HeldBackStays DEF HeldBack, Price
        <4>7. CASE HeldBack(Reported, k)
          BY <1>5, <2>2, <2>4, <4>7, HeldBackStays DEF HeldBack, Price
        <4>8. CASE belief[k].price = Price(i, k) /\ Price(i, k) = Price(j, k)
          BY <4>8
        <4>9. CASE \E x \in dangling : belief[k] = runs[x].catalog[k]
          BY <2>1, <3>1, <4>9 DEF Price
        <4> QED
          BY <4>3, <4>4, <4>6, <4>7, <4>8, <4>9 DEF PriceKnown
      <3> QED
        BY <3>3, <3>4
    <2> QED
      BY <2>2, <2>3, <2>5 DEF PriceInv, IsNewest
  <1>12. CASE ReportAbort(r)
    <2>1. /\ rpc[r] \notin {"idle", "send"}
          /\ dangling' = IF rpc[r] = "mark" /\ Said(r) # {}
                         THEN dangling \cup {cur[r]} ELSE dangling
          /\ Return(r) /\ UNCHANGED <<runs, belief>>
      BY <1>12 DEF ReportAbort
    <2>2. SameSets
      BY <2>1, SameFieldsSameSets
    <2>3. \A q \in Reporters : rpc'[q] # "mark"
      BY <1>1, <1>2, <2>1 DEF Return, Step
    <2>4. ASSUME NEW j \in Reported, NEW k \in Kits, IsNewest(j, Reported)
          PROVE  PriceKnown(j, k)'
      <3>1. CASE rpc[r] = "mark" /\ k \in Said(r)
        <4>1. cur[r] \in dangling' /\ belief'[k] = runs'[cur[r]].catalog[k]
          BY <2>1, <3>1 DEF PriceInv
        <4> QED
          BY <4>1 DEF PriceKnown
      <3>2. CASE ~(rpc[r] = "mark" /\ k \in Said(r))
        <4>1. PriceKnown(j, k)
          BY <1>2, <2>4, <3>2 DEF PriceInv
        <4>2. dangling \subseteq dangling'
          BY <2>1
        <4> QED
          BY <1>3, <1>5, <2>1, <2>2, <4>1, <4>2, PriceStaysKnown DEF SameSets
      <3> QED
        BY <3>1, <3>2
    <2> QED
      BY <2>2, <2>3, <2>4 DEF PriceInv, IsNewest, SameSets
  <1> QED
    BY <1>7, <1>8, <1>9, <1>10, <1>11, <1>12 DEF ReportStep

LEMMA NextKeepsPrices ==
  ASSUME ~Overlap
  PROVE  CoreInv /\ SerialInv /\ BeliefInv /\ PriceInv /\ [Next]_vars => PriceInv'
  <1> SUFFICES ASSUME CoreInv, SerialInv, BeliefInv, PriceInv, [Next]_vars PROVE PriceInv'
    OBVIOUS
  <1>1. CASE \E c \in Collectors : CollectStep(c) /\ UNCHANGED <<reportVars, toldVars>>
    <2>1. PICK c \in Collectors : CollectStep(c) /\ UNCHANGED <<reportVars, toldVars>>
      BY <1>1
    <2>2. Reported' = Reported /\ \A i \in Successes : runs'[i].catalog = runs[i].catalog
      BY <2>1, CollectSets, CollectRuns DEF SerialInv, SameSets, Successes
    <2>3. \A r \in Reporters : rpc[r] # "mark"
      <3>1. \A r \in Reporters : cpc[c] = "idle" \/ rpc[r] = "idle"
        BY DEF SerialInv, Alone
      <3>2. cpc[c] = "idle" => \A r \in Reporters : rpc[r] = "idle"
        BY <2>1 DEF CollectStep, StartRun, FetchOk, FetchFail, PassGuard, Refuse, ApplyRun, ApplyFail,
           FinishRunFailed, Expire, CollectCrash, MayStart
      <3> QED
        BY <3>1, <3>2
    <2> QED
      BY <2>1, <2>2, <2>3, QuietKeepsPrices DEF reportVars, toldVars
  <1>2. CASE \E r \in Reporters : ReportStep(r) /\ UNCHANGED collectVars
    BY <1>2, ReportKeepsPrices
  <1>3. CASE TwoHoursPass \/ UNCHANGED vars
    <2>1. /\ Len(runs') = Len(runs)
          /\ \A i \in RunIds : /\ runs'[i].status = runs[i].status
                               /\ runs'[i].catalog = runs[i].catalog
                               /\ runs'[i].reported = runs[i].reported
      BY <1>3, OverdueRuns DEF TwoHoursPass, vars, CoreInv
    <2>2. UNCHANGED <<rpc, cur, prev, belief, dangling>>
      BY <1>3 DEF TwoHoursPass, vars, reportVars, toldVars
    <2>3. SameSets /\ \A i \in Successes : runs'[i].catalog = runs[i].catalog
      BY <2>1, SameFieldsSameSets DEF Successes
    <2>4. ASSUME NEW r \in Reporters, rpc[r] = "mark"
          PROVE  /\ prev[r] # 0 => prev[r] \in Successes
                 /\ cur[r] \in Successes /\ Said(r)' = Said(r)
      <3>1. prev[r] # 0 => prev[r] \in Successes
        BY <2>4 DEF BeliefInv, PrevNewest, IsNewest, Reported
      <3>2. cur[r] \in Successes
        BY <2>4 DEF CoreInv, CurSucceeded
      <3> QED
        BY <2>2, <2>3, <3>1, <3>2 DEF Said, News
    <2>5. \A r \in Reporters : rpc'[r] = "mark" =>
            \A k \in Kits \cap Said(r)' : belief'[k] = runs'[cur'[r]].catalog[k]
      BY <2>2, <2>3, <2>4 DEF PriceInv
    <2>6. ASSUME NEW j \in Reported, NEW k \in Kits, IsNewest(j, Reported), PriceKnown(j, k)
          PROVE  PriceKnown(j, k)'
      <3>1. j \in Successes /\ dangling \subseteq Successes
        BY DEF Reported, BeliefInv
      <3> QED
        BY <2>2, <2>3, <2>6, <3>1, PriceStaysKnown DEF SameSets
    <2>7. \A j \in Reported', k \in Kits :
            \/ ~IsNewest(j, Reported')
            \/ \E q \in Reporters : rpc'[q] = "mark" /\ k \in Said(q)'
            \/ PriceKnown(j, k)'
      BY <2>2, <2>3, <2>4, <2>6 DEF PriceInv, SameSets, IsNewest
    <2> QED
      BY <2>5, <2>7 DEF PriceInv, IsNewest
  <1> QED
    BY <1>1, <1>2, <1>3 DEF Next

(* The reader of every message is wrong about the price of a listed kit    *)
(* only when some report had a reason to hold a move back.                 *)
THEOREM PricesAreMissedForAReason ==
  ASSUME ~Overlap
  PROVE  Spec => []PriceMissedForAReason
  <1>1. Init => PriceInv
    <2> SUFFICES ASSUME Init PROVE PriceInv
      OBVIOUS
    <2>1. Reported = {}
      BY EmptySeq DEF Init, Reported, Successes, RunIds
    <2>2. \A r \in Reporters : rpc[r] = "idle"
      BY DEF Init, ReportInit
    <2> QED
      BY <2>1, <2>2 DEF PriceInv
  <1>2. PriceInv => PriceMissedForAReason
    <2> SUFFICES ASSUME PriceInv, dangling = {}, \A r \in Reporters : rpc[r] = "idle",
                        NEW i \in Reported, NEW k \in Kits, IsNewest(i, Reported),
                        k \in Listed(runs[i].catalog), belief[k].price # Price(i, k)
                 PROVE  \E p, j \in {h \in Reported : k \in Listed(runs[h].catalog)} :
                          /\ p < j /\ Price(p, k) # Price(j, k)
                          /\ \/ runs[j].catalog[k].stock = "out_of_stock"
                             \/ 100 * Distance(Price(p, k), Price(j, k)) < 5 * Price(p, k)
      BY DEF PriceMissedForAReason, Price
    <2>1. PriceKnown(i, k)
      BY DEF PriceInv
    <2>2. HeldBack(Reported, k)
      BY <2>1 DEF PriceKnown
    <2> QED
      BY <2>2 DEF HeldBack
  <1> QED
    BY <1>1, <1>2, InitBelief, NextKeepsBelief, NextKeepsPrices, SerialInvariant, PTL DEF Spec

=============================================================================
