-------------------------- MODULE DailyCycleProofs --------------------------
(***************************************************************************)
(* Proofs about DailyCycle, for any kits, offers, processes and number of  *)
(* runs.                                                                   *)
(***************************************************************************)
EXTENDS DailyCycle, SequenceTheorems, TLAPS

-----------------------------------------------------------------------------
(* What the actions do to the run rows. *)

LEMMA NewRunType ==
  ASSUME NEW f \in BOOLEAN
  PROVE  NewRun(f) \in Run
  BY DEF NewRun, Run, Statuses, Catalogs, EmptyCatalog

(* A row is updated in place: the others keep their ids and contents.      *)
LEMMA UpdateRun ==
  ASSUME NEW i \in RunIds, NEW e \in Run, runs \in Seq(Run),
         runs' = [runs EXCEPT ![i] = e]
  PROVE  /\ runs' \in Seq(Run)
         /\ Len(runs') = Len(runs)
         /\ \A j \in RunIds : runs'[j] = IF j = i THEN e ELSE runs[j]
  BY ExceptSeq DEF RunIds

LEMMA StartRunRuns ==
  ASSUME TypeOK, NEW c \in Collectors, StartRun(c)
  PROVE  /\ runs' \in Seq(Run)
         /\ Len(runs) \in Nat
         /\ Len(runs') = Len(runs) + 1
         /\ \A i \in RunIds : runs'[i] = runs[i]
         /\ \E f \in BOOLEAN : runs'[Len(runs) + 1] = NewRun(f)
  <1>1. PICK f \in BOOLEAN : runs' = Append(runs, NewRun(f))
    BY DEF StartRun
  <1>2. runs \in Seq(Run) /\ NewRun(f) \in Run
    BY NewRunType DEF TypeOK, ShopRunsTypeOK
  <1> QED
    BY <1>1, <1>2, AppendProperties DEF RunIds

LEMMA ApplyRunRuns ==
  ASSUME TypeOK, NEW c \in Collectors, ApplyRun(c), crun[c] \in RunIds
  PROVE  /\ runs' \in Seq(Run)
         /\ Len(runs') = Len(runs)
         /\ \A i \in RunIds : i # crun[c] => runs'[i] = runs[i]
         /\ runs'[crun[c]].status = "success"
         /\ runs'[crun[c]].catalog = found[c]
         /\ runs'[crun[c]].reported = runs[crun[c]].reported
         /\ runs'[crun[c]].forced = runs[crun[c]].forced
  <1> DEFINE i == crun[c]
             e == [runs[i] EXCEPT !.catalog = found[c], !.status = "success"]
  <1>1. runs \in Seq(Run) /\ runs[i] \in Run /\ found[c] \in Catalogs
    BY ElementOfSeq DEF TypeOK, ShopRunsTypeOK, CollectTypeOK, RunIds
  <1>2. e \in Run
    BY <1>1 DEF Run, Statuses
  <1>3. runs' = [runs EXCEPT ![i] = e]
    BY <1>1, LenProperties DEF ApplyRun, RunIds, Run
  <1>4. /\ e.status = "success"
        /\ e.catalog = found[c]
        /\ e.reported = runs[i].reported
        /\ e.forced = runs[i].forced
    BY <1>1 DEF Run
  <1> HIDE DEF e
  <1>5. /\ runs' \in Seq(Run)
        /\ Len(runs') = Len(runs)
        /\ \A j \in RunIds : runs'[j] = IF j = i THEN e ELSE runs[j]
    BY <1>1, <1>2, <1>3, UpdateRun
  <1> QED
    BY <1>4, <1>5

LEMMA FinishRunFailedRuns ==
  ASSUME TypeOK, NEW c \in Collectors, FinishRunFailed(c), crun[c] \in RunIds
  PROVE  /\ runs' \in Seq(Run)
         /\ Len(runs') = Len(runs)
         /\ \A i \in RunIds : i # crun[c] => runs'[i] = runs[i]
         /\ runs'[crun[c]].status \in {"failed", runs[crun[c]].status}
         /\ runs'[crun[c]].catalog = runs[crun[c]].catalog
         /\ runs'[crun[c]].reported = runs[crun[c]].reported
         /\ runs'[crun[c]].forced = runs[crun[c]].forced
  <1> DEFINE i == crun[c]
             e == [runs[i] EXCEPT !.status = "failed"]
  <1>1. runs \in Seq(Run) /\ runs[i] \in Run
    BY ElementOfSeq DEF TypeOK, ShopRunsTypeOK, CollectTypeOK, RunIds
  <1>2. CASE expired[c]
    BY <1>1, <1>2 DEF FinishRunFailed
  <1>3. CASE ~expired[c]
    <2>1. e \in Run
      BY <1>1 DEF Run, Statuses
    <2>2. runs' = [runs EXCEPT ![i] = e]
      BY <1>1, <1>3, LenProperties DEF FinishRunFailed, RunIds, Run
    <2>3. /\ e.status = "failed"
          /\ e.catalog = runs[i].catalog
          /\ e.reported = runs[i].reported
          /\ e.forced = runs[i].forced
      BY <1>1 DEF Run
    <2> HIDE DEF e
    <2>4. /\ runs' \in Seq(Run)
          /\ Len(runs') = Len(runs)
          /\ \A j \in RunIds : runs'[j] = IF j = i THEN e ELSE runs[j]
      BY <1>1, <2>1, <2>2, UpdateRun
    <2> QED
      BY <2>3, <2>4
  <1> QED
    BY <1>2, <1>3

LEMMA OverdueRuns ==
  ASSUME TypeOK, NEW i \in RunIds, Overdue(i)
  PROVE  /\ runs' \in Seq(Run)
         /\ Len(runs') = Len(runs)
         /\ \A j \in RunIds : /\ runs'[j].status = runs[j].status
                              /\ runs'[j].catalog = runs[j].catalog
                              /\ runs'[j].reported = runs[j].reported
                              /\ runs'[j].forced = runs[j].forced
  <1> DEFINE e == [runs[i] EXCEPT !.overdue = TRUE]
  <1>1. runs \in Seq(Run) /\ runs[i] \in Run
    BY ElementOfSeq DEF TypeOK, ShopRunsTypeOK, RunIds
  <1>2. e \in Run
    BY <1>1 DEF Run
  <1>3. runs' = [runs EXCEPT ![i] = e]
    BY <1>1, LenProperties DEF Overdue, RunIds, Run
  <1>4. /\ e.status = runs[i].status
        /\ e.catalog = runs[i].catalog
        /\ e.reported = runs[i].reported
        /\ e.forced = runs[i].forced
    BY <1>1 DEF Run
  <1> HIDE DEF e
  <1>5. /\ runs' \in Seq(Run)
        /\ Len(runs') = Len(runs)
        /\ \A j \in RunIds : runs'[j] = IF j = i THEN e ELSE runs[j]
    BY <1>1, <1>2, <1>3, UpdateRun
  <1> QED
    BY <1>4, <1>5

LEMMA MarkReportedRuns ==
  ASSUME TypeOK, NEW r \in Reporters, MarkReported(r)
  PROVE  /\ runs' \in Seq(Run)
         /\ Len(runs') = Len(runs)
         /\ \A j \in RunIds :
              /\ runs'[j].status = runs[j].status
              /\ runs'[j].catalog = runs[j].catalog
              /\ runs'[j].forced = runs[j].forced
              /\ runs'[j].reported = (runs[j].reported \/ j \in Unreported)
  <1> DEFINE e(j) == IF j \in Unreported THEN [runs[j] EXCEPT !.reported = TRUE]
                     ELSE runs[j]
  <1>1. runs \in Seq(Run) /\ Len(runs) \in Nat
    BY LenProperties DEF TypeOK, ShopRunsTypeOK
  <1>2. \A j \in RunIds : runs[j] \in Run
    BY <1>1, ElementOfSeq DEF RunIds
  <1>3. \A j \in RunIds : e(j) \in Run
    BY <1>2 DEF Run
  <1>4. runs' = [j \in 1 .. Len(runs) |-> e(j)]
    BY DEF MarkReported, RunIds
  <1>5. \A j \in RunIds : /\ e(j).status = runs[j].status
                          /\ e(j).catalog = runs[j].catalog
                          /\ e(j).forced = runs[j].forced
                          /\ e(j).reported = (runs[j].reported \/ j \in Unreported)
    BY <1>2 DEF Run
  <1> HIDE DEF e
  <1>6. runs' \in [1 .. Len(runs) -> Run]
    BY <1>3, <1>4 DEF RunIds
  <1>7. runs' \in Seq(Run) /\ Len(runs') = Len(runs)
    BY <1>1, <1>6, SeqDef, LenProperties
  <1> QED
    BY <1>4, <1>5, <1>7 DEF RunIds

-----------------------------------------------------------------------------
(* Type correctness. A collector at work owns a running row that nobody    *)
(* else works on, and only a success has price rows: the type of crun and  *)
(* the atomicity of a run rest on it.                                      *)

OwnRun ==
  \A c \in Collectors :
    cpc[c] # "idle" => crun[c] \in RunIds /\ runs[crun[c]].status = "running"

DistinctRuns ==
  \A c, d \in Collectors :
    cpc[c] # "idle" /\ cpc[d] # "idle" /\ c # d => crun[c] # crun[d]

UnfinishedIsEmpty ==
  \A i \in RunIds : runs[i].status # "success" => runs[i].catalog = EmptyCatalog

CurSucceeded ==
  \A r \in Reporters :
    rpc[r] \in {"previous", "send", "mark"} => cur[r] \in Successes

CoreInv ==
  /\ TypeOK
  /\ CurSucceeded
  /\ OwnRun
  /\ DistinctRuns
  /\ UnfinishedIsEmpty

LEMMA InitCore == Init => CoreInv
  <1> SUFFICES ASSUME Init PROVE CoreInv
    OBVIOUS
  <1>1. EmptyCatalog \in Catalogs
    BY DEF EmptyCatalog, Catalogs
  <1>2. runs = <<>> /\ runs \in Seq(Run) /\ Len(runs) = 0
    BY EmptySeq DEF Init
  <1>3. TypeOK
    BY <1>1, <1>2 DEF Init, CollectInit, ReportInit, TypeOK, ShopRunsTypeOK,
                      CollectTypeOK, ReportTypeOK, CollectSteps, ReportSteps,
                      ListingStates, RunIds
  <1>4. OwnRun /\ DistinctRuns /\ CurSucceeded
    BY DEF Init, CollectInit, ReportInit, OwnRun, DistinctRuns, CurSucceeded
  <1>5. UnfinishedIsEmpty
    BY <1>2 DEF UnfinishedIsEmpty, RunIds
  <1> QED
    BY <1>3, <1>4, <1>5 DEF CoreInv

(* The effect every collector step has on the rows, as far as the other    *)
(* processes can tell.                                                     *)
LEMMA CollectRuns ==
  ASSUME CoreInv, NEW c \in Collectors, CollectStep(c)
  PROVE  /\ runs' \in Seq(Run)
         /\ Len(runs) \in Nat
         /\ Len(runs') \in {Len(runs), Len(runs) + 1}
         /\ \A i \in RunIds :
              /\ i # crun[c] => runs'[i] = runs[i]
              /\ runs[i].status # "running" => runs'[i] = runs[i]
  <1>1. runs \in Seq(Run) /\ Len(runs) \in Nat
    BY LenProperties DEF CoreInv, TypeOK, ShopRunsTypeOK
  <1>2. CASE StartRun(c)
    BY <1>1, <1>2, StartRunRuns DEF CoreInv
  <1>3. CASE ApplyRun(c)
    <2>1. crun[c] \in RunIds /\ runs[crun[c]].status = "running"
      BY <1>3 DEF CoreInv, OwnRun, ApplyRun
    <2> QED
      BY <1>1, <1>3, <2>1, ApplyRunRuns DEF CoreInv
  <1>4. CASE FinishRunFailed(c)
    <2>1. crun[c] \in RunIds /\ runs[crun[c]].status = "running"
      BY <1>4 DEF CoreInv, OwnRun, FinishRunFailed
    <2> QED
      BY <1>1, <1>4, <2>1, FinishRunFailedRuns DEF CoreInv
  <1>5. CASE runs' = runs
    BY <1>1, <1>5
  <1> QED
    BY <1>2, <1>3, <1>4, <1>5 DEF CollectStep, FetchOk, FetchFail, PassGuard,
       Refuse, ApplyFail, Expire, CollectCrash

LEMMA ReportRuns ==
  ASSUME TypeOK, NEW r \in Reporters, ReportStep(r)
  PROVE  /\ runs' \in Seq(Run)
         /\ Len(runs) \in Nat
         /\ Len(runs') = Len(runs)
         /\ \A i \in RunIds :
              /\ runs'[i].status = runs[i].status
              /\ runs'[i].catalog = runs[i].catalog
              /\ runs'[i].forced = runs[i].forced
  <1>1. runs \in Seq(Run) /\ Len(runs) \in Nat
    BY LenProperties DEF TypeOK, ShopRunsTypeOK
  <1>2. CASE MarkReported(r)
    BY <1>1, <1>2, MarkReportedRuns
  <1>3. CASE runs' = runs
    BY <1>1, <1>3
  <1> QED
    BY <1>2, <1>3 DEF ReportStep, StartReport, SendAlert, ReadCurrent,
       ReadPrevious, SendReport, SendReportFail, ReportAbort

LEMMA LeaveType ==
  ASSUME CollectTypeOK, NEW c \in Collectors, Leave(c), Len(runs') = Len(runs)
  PROVE  CollectTypeOK'
  BY DEF Leave, Goto, CollectTypeOK, CollectSteps, EmptyCatalog, Catalogs

LEMMA CollectKeepsType ==
  ASSUME CoreInv, NEW c \in Collectors, CollectStep(c)
  PROVE  CollectTypeOK' /\ listing' \in [Kits -> ListingStates]
  <1> USE DEF CollectSteps, Goto
  <1>1. CollectTypeOK /\ listing \in [Kits -> ListingStates] /\ Len(runs) \in Nat
    BY LenProperties DEF CoreInv, TypeOK, ShopRunsTypeOK
  <1>2. CASE StartRun(c)
    <2>1. Len(runs') = Len(runs) + 1
      BY <1>2, StartRunRuns DEF CoreInv
    <2> QED
      BY <1>1, <1>2, <2>1 DEF StartRun, CollectTypeOK
  <1>3. CASE FetchOk(c)
    BY <1>1, <1>3 DEF FetchOk, CollectTypeOK
  <1>4. CASE FetchFail(c) \/ PassGuard(c) \/ Refuse(c) \/ ApplyFail(c) \/ Expire(c)
    BY <1>1, <1>4 DEF FetchFail, PassGuard, Refuse, ApplyFail, Expire, CollectTypeOK
  <1>5. CASE ApplyRun(c)
    <2>1. Len(runs') = Len(runs)
      BY <1>5, ApplyRunRuns DEF CoreInv, OwnRun, ApplyRun
    <2>2. listing' \in [Kits -> ListingStates]
      BY <1>1, <1>5 DEF ApplyRun, ListingStates
    <2> QED
      BY <1>1, <1>5, <2>1, <2>2, LeaveType DEF ApplyRun
  <1>6. CASE FinishRunFailed(c)
    <2>1. Len(runs') = Len(runs)
      BY <1>6, FinishRunFailedRuns DEF CoreInv, OwnRun, FinishRunFailed
    <2> QED
      BY <1>1, <1>6, <2>1, LeaveType DEF FinishRunFailed
  <1>7. CASE CollectCrash(c)
    BY <1>1, <1>7, LeaveType DEF CollectCrash
  <1> QED
    BY <1>2, <1>3, <1>4, <1>5, <1>6, <1>7 DEF CollectStep

(* The types of a process's own state survive the steps that only make the *)
(* table longer.                                                           *)
LEMMA ReportTypeGrows ==
  ASSUME TypeOK, UNCHANGED <<reportVars, toldVars>>, Len(runs) \in Nat,
         Len(runs') \in {Len(runs), Len(runs) + 1}
  PROVE  ReportTypeOK'
  BY DEF TypeOK, ReportTypeOK, reportVars, toldVars, RunIds

LEMMA CollectTypeStays ==
  ASSUME TypeOK, UNCHANGED collectVars, Len(runs') = Len(runs)
  PROVE  CollectTypeOK'
  BY DEF TypeOK, CollectTypeOK, collectVars

LEMMA HearingType ==
  ASSUME TypeOK, NEW j \in RunIds, NEW kits
  PROVE  Hearing(j, kits) \in Catalogs
  <1>1. runs[j] \in Run /\ belief \in Catalogs
    BY ElementOfSeq DEF TypeOK, ShopRunsTypeOK, ReportTypeOK, RunIds
  <1> QED
    BY <1>1 DEF Hearing, Catalogs, Run

LEMMA ReportKeepsType ==
  ASSUME TypeOK, CurSucceeded, NEW r \in Reporters, ReportStep(r)
  PROVE  ReportTypeOK' /\ listing' = listing
  <1> USE DEF ReportSteps, Step, toldVars
  <1>1. ReportTypeOK /\ Len(runs) \in Nat /\ Len(runs') = Len(runs) /\ runs \in Seq(Run)
    BY ReportRuns DEF TypeOK, ShopRunsTypeOK
  <1>2. rpc[r] \in {"previous", "send", "mark"} => cur[r] \in RunIds
    BY DEF CurSucceeded, Successes
  <1>3. CASE StartReport(r) \/ SendAlert(r)
    BY <1>1, <1>3 DEF StartReport, SendAlert, ReportTypeOK, RunIds
  <1>4. CASE ReadCurrent(r)
    <2>1. UNCHANGED <<runs, listing, handled, belief, dangling>>
      BY <1>4 DEF ReadCurrent
    <2>2. /\ rpc' \in [Reporters -> ReportSteps]
          /\ cur' \in [Reporters -> 0 .. Len(runs)]
          /\ prev' \in [Reporters -> 0 .. Len(runs)]
      <3>1. CASE Return(r)
        BY <1>1, <3>1 DEF Return, ReportTypeOK
      <3>2. CASE ~Return(r)
        <4>1. PICK i \in Unreported : /\ cur' = [cur EXCEPT ![r] = i]
                                      /\ Step(r, "previous")
                                      /\ UNCHANGED prev
          BY <1>4, <3>2 DEF ReadCurrent
        <4>2. i \in 0 .. Len(runs)
          BY <1>1 DEF Unreported, Successes, RunIds
        <4> QED
          BY <1>1, <4>1, <4>2 DEF ReportTypeOK
      <3> QED
        BY <3>1, <3>2
    <2> QED
      BY <1>1, <2>1, <2>2 DEF ReportTypeOK, RunIds
  <1>5. CASE ReadPrevious(r)
    <2>1. UNCHANGED <<runs, listing, cur, belief, dangling>>
      BY <1>5 DEF ReadPrevious
    <2>2. PICK i \in {0} \cup Reported :
            /\ prev' = [prev EXCEPT ![r] = i]
            /\ \/ Step(r, "mark") /\ handled' = handled \cup {cur[r]}
               \/ Step(r, "send") /\ UNCHANGED handled
      BY <1>5 DEF ReadPrevious
    <2>3. i \in 0 .. Len(runs) /\ cur[r] \in RunIds
      BY <1>1, <1>2, <1>5 DEF ReadPrevious, Reported, Successes, RunIds
    <2> QED
      BY <1>1, <2>1, <2>2, <2>3 DEF ReportTypeOK, RunIds
  <1>6. CASE SendReport(r)
    <2>1. Hearing(cur[r], Said(r)) \in Catalogs
      BY <1>2, <1>6, HearingType DEF SendReport
    <2> QED
      BY <1>1, <1>2, <1>6, <2>1 DEF SendReport, ReportTypeOK, RunIds
  <1>7. CASE SendReportFail(r)
    <2>1. belief' \in Catalogs
      BY <1>2, <1>7, HearingType DEF SendReportFail
    <2>2. /\ Return(r)
          /\ UNCHANGED <<runs, listing, handled>>
          /\ dangling' = dangling \/ dangling' = dangling \cup {cur[r]}
          /\ cur[r] \in RunIds
      BY <1>2, <1>7 DEF SendReportFail
    <2>3. dangling' \in SUBSET RunIds /\ RunIds' = RunIds
      <3>1. RunIds' = RunIds
        BY <1>1 DEF RunIds
      <3> QED
        BY <1>1, <2>2, <3>1 DEF ReportTypeOK
    <2> QED
      BY <1>1, <2>1, <2>2, <2>3 DEF Return, ReportTypeOK
  <1>8. CASE MarkReported(r)
    BY <1>1, <1>8 DEF MarkReported, Return, ReportTypeOK, RunIds
  <1>9. CASE ReportAbort(r)
    <2>1. /\ Return(r)
          /\ UNCHANGED <<runs, listing, handled, belief>>
          /\ \/ dangling' = dangling
             \/ rpc[r] = "mark" /\ dangling' = dangling \cup {cur[r]}
      BY <1>9 DEF ReportAbort
    <2>2. dangling' \in SUBSET RunIds /\ RunIds' = RunIds
      <3>1. RunIds' = RunIds
        BY <1>1 DEF RunIds
      <3> QED
        BY <1>1, <1>2, <2>1, <3>1 DEF ReportTypeOK
    <2> QED
      BY <1>1, <2>1, <2>2 DEF Return, ReportTypeOK
  <1> QED
    BY <1>3, <1>4, <1>5, <1>6, <1>7, <1>8, <1>9 DEF ReportStep

-----------------------------------------------------------------------------
(* CoreInv is inductive. *)

LEMMA CollectKeepsCore ==
  ASSUME CoreInv, NEW c \in Collectors, CollectStep(c),
         UNCHANGED <<reportVars, toldVars>>
  PROVE  CoreInv'
  <1>1. /\ runs' \in Seq(Run)
        /\ Len(runs) \in Nat
        /\ Len(runs') \in {Len(runs), Len(runs) + 1}
        /\ \A i \in RunIds :
             /\ i # crun[c] => runs'[i] = runs[i]
             /\ runs[i].status # "running" => runs'[i] = runs[i]
    BY CollectRuns
  <1>2. TypeOK'
    BY <1>1, CollectKeepsType, ReportTypeGrows DEF CoreInv, TypeOK, ShopRunsTypeOK
  <1>3. CurSucceeded'
    BY <1>1 DEF CoreInv, CurSucceeded, Successes, RunIds, reportVars
  <1>4. cpc \in [Collectors -> CollectSteps] /\ crun \in [Collectors -> 0 .. Len(runs)]
    BY DEF CoreInv, TypeOK, CollectTypeOK
  <1>5. OwnRun' /\ DistinctRuns' /\ UnfinishedIsEmpty'
    <2>1. CASE StartRun(c)
      <3>1. PICK f \in BOOLEAN : runs'[Len(runs) + 1] = NewRun(f)
        BY <2>1, StartRunRuns DEF CoreInv
      <3>2. Len(runs') = Len(runs) + 1 /\ \A i \in RunIds : runs'[i] = runs[i]
        BY <2>1, StartRunRuns DEF CoreInv
      <3>3. NewRun(f).status = "running" /\ NewRun(f).catalog = EmptyCatalog
        BY DEF NewRun
      <3> HIDE DEF NewRun
      <3>4. OwnRun' /\ DistinctRuns'
        BY <1>1, <1>4, <2>1, <3>1, <3>2, <3>3
           DEF StartRun, Goto, CoreInv, OwnRun, DistinctRuns, RunIds
      <3>5. UnfinishedIsEmpty'
        BY <1>1, <3>1, <3>2, <3>3 DEF CoreInv, UnfinishedIsEmpty, RunIds
      <3> QED
        BY <3>4, <3>5
    <2>2. CASE ApplyRun(c)
      BY <1>1, <1>4, <2>2, ApplyRunRuns
         DEF ApplyRun, Leave, Goto, CoreInv, OwnRun, DistinctRuns, UnfinishedIsEmpty, RunIds
    <2>3. CASE FinishRunFailed(c)
      BY <1>1, <1>4, <2>3, FinishRunFailedRuns
         DEF FinishRunFailed, Leave, Goto, CoreInv, OwnRun, DistinctRuns, UnfinishedIsEmpty, RunIds
    <2>4. CASE CollectCrash(c)
      BY <1>1, <1>4, <2>4
         DEF CollectCrash, Leave, Goto, CoreInv, OwnRun, DistinctRuns, UnfinishedIsEmpty, RunIds
    <2>5. CASE FetchOk(c) \/ FetchFail(c) \/ PassGuard(c) \/ Refuse(c) \/ ApplyFail(c) \/ Expire(c)
      BY <1>1, <1>4, <2>5
         DEF FetchOk, FetchFail, PassGuard, Refuse, ApplyFail, Expire, Goto,
             CoreInv, OwnRun, DistinctRuns, UnfinishedIsEmpty, RunIds
    <2> QED
      BY <2>1, <2>2, <2>3, <2>4, <2>5 DEF CollectStep
  <1> QED
    BY <1>2, <1>3, <1>5 DEF CoreInv

LEMMA ReportKeepsCore ==
  ASSUME CoreInv, NEW r \in Reporters, ReportStep(r), UNCHANGED collectVars
  PROVE  CoreInv'
  <1>1. /\ runs' \in Seq(Run)
        /\ Len(runs) \in Nat
        /\ Len(runs') = Len(runs)
        /\ \A i \in RunIds : /\ runs'[i].status = runs[i].status
                             /\ runs'[i].catalog = runs[i].catalog
    BY ReportRuns DEF CoreInv
  <1>2. TypeOK'
    BY <1>1, ReportKeepsType, CollectTypeStays DEF CoreInv, TypeOK, ShopRunsTypeOK
  <1>3. Successes' = Successes
    BY <1>1 DEF Successes, RunIds
  <1>4. rpc \in [Reporters -> ReportSteps] /\ cur \in [Reporters -> 0 .. Len(runs)]
    BY DEF CoreInv, TypeOK, ReportTypeOK
  <1>5. CurSucceeded'
    BY <1>3, <1>4
       DEF CoreInv, CurSucceeded, ReportStep, StartReport, SendAlert, ReadCurrent,
           ReadPrevious, SendReport, SendReportFail, MarkReported, ReportAbort,
           Step, Return, Unreported
  <1>6. OwnRun' /\ DistinctRuns' /\ UnfinishedIsEmpty'
    BY <1>1 DEF CoreInv, OwnRun, DistinctRuns, UnfinishedIsEmpty, RunIds, collectVars
  <1> QED
    BY <1>2, <1>5, <1>6 DEF CoreInv

LEMMA TimeKeepsCore ==
  ASSUME CoreInv, TwoHoursPass
  PROVE  CoreInv'
  <1>1. PICK i \in RunIds : Overdue(i)
    BY DEF TwoHoursPass
  <1>2. /\ runs' \in Seq(Run)
        /\ Len(runs) \in Nat
        /\ Len(runs') = Len(runs)
        /\ \A j \in RunIds : /\ runs'[j].status = runs[j].status
                             /\ runs'[j].catalog = runs[j].catalog
    BY <1>1, OverdueRuns, LenProperties DEF CoreInv, TypeOK, ShopRunsTypeOK
  <1>3. TypeOK'
    BY <1>2, ReportTypeGrows, CollectTypeStays
       DEF TwoHoursPass, CoreInv, TypeOK, ShopRunsTypeOK
  <1>4. CurSucceeded'
    BY <1>2 DEF TwoHoursPass, CoreInv, CurSucceeded, Successes, RunIds, reportVars
  <1>5. OwnRun' /\ DistinctRuns' /\ UnfinishedIsEmpty'
    BY <1>2 DEF TwoHoursPass, CoreInv, OwnRun, DistinctRuns, UnfinishedIsEmpty,
                RunIds, collectVars
  <1> QED
    BY <1>3, <1>4, <1>5 DEF CoreInv

LEMMA NextKeepsCore == CoreInv /\ [Next]_vars => CoreInv'
  <1> SUFFICES ASSUME CoreInv, [Next]_vars PROVE CoreInv'
    OBVIOUS
  <1>1. CASE \E c \in Collectors : CollectStep(c) /\ UNCHANGED <<reportVars, toldVars>>
    BY <1>1, CollectKeepsCore
  <1>2. CASE \E r \in Reporters : ReportStep(r) /\ UNCHANGED collectVars
    BY <1>2, ReportKeepsCore
  <1>3. CASE TwoHoursPass
    BY <1>3, TimeKeepsCore
  <1>4. CASE UNCHANGED vars
    BY <1>4 DEF vars, collectVars, reportVars, toldVars, CoreInv, TypeOK,
       ShopRunsTypeOK, CollectTypeOK, ReportTypeOK, OwnRun, DistinctRuns,
       UnfinishedIsEmpty, CurSucceeded, Successes, RunIds
  <1> QED
    BY <1>1, <1>2, <1>3, <1>4 DEF Next

LEMMA CoreInvariant == Spec => []CoreInv
  BY InitCore, NextKeepsCore, PTL DEF Spec

(* Every variable keeps its type, whatever overlaps: no process ever       *)
(* refers to a run that is not there (collector.Run, reporter.Run).        *)
THEOREM TypeCorrect == Spec => []TypeOK
  <1>1. CoreInv => TypeOK
    BY DEF CoreInv
  <1> QED
    BY <1>1, CoreInvariant, PTL

-----------------------------------------------------------------------------
(* A run is all or nothing. *)

LEMMA NextIsAtomic == CoreInv /\ CoreInv' /\ [Next]_vars => [AtomicStep]_vars
  <1> SUFFICES ASSUME CoreInv, CoreInv', Next PROVE AtomicStep
    OBVIOUS
  <1>1. CASE \E c \in Collectors : CollectStep(c) /\ UNCHANGED <<reportVars, toldVars>>
    <2>1. PICK c \in Collectors : CollectStep(c)
      BY <1>1
    <2>2. /\ Len(runs) \in Nat
          /\ Len(runs') \in {Len(runs), Len(runs) + 1}
          /\ \A i \in RunIds : runs[i].status # "running" => runs'[i] = runs[i]
      BY <2>1, CollectRuns
    <2>3. \A i \in RunIds : runs'[i].status # "success" => runs'[i].catalog = EmptyCatalog
      BY <2>2 DEF CoreInv, UnfinishedIsEmpty, RunIds, EmptyCatalog
    <2>4. CASE ApplyRun(c)
      <3>1. crun[c] \in RunIds /\ runs[crun[c]].status = "running"
        BY <2>4 DEF CoreInv, OwnRun, ApplyRun
      <3>2. runs'[crun[c]].status = "success"
        BY <2>4, <3>1, ApplyRunRuns DEF CoreInv
      <3> QED
        BY <2>2, <2>3, <3>1, <3>2 DEF AtomicStep
    <2>5. CASE UNCHANGED listing
      BY <2>2, <2>3, <2>5 DEF AtomicStep
    <2> QED
      BY <2>1, <2>4, <2>5 DEF CollectStep, StartRun, FetchOk, FetchFail, PassGuard,
         Refuse, ApplyFail, FinishRunFailed, Expire, CollectCrash
  <1>2. CASE \E r \in Reporters : ReportStep(r) /\ UNCHANGED collectVars
    <2>1. PICK r \in Reporters : ReportStep(r)
      BY <1>2
    <2>2. /\ listing' = listing
          /\ \A i \in RunIds : /\ runs'[i].status = runs[i].status
                               /\ runs'[i].catalog = runs[i].catalog
      BY <2>1, ReportRuns, ReportKeepsType DEF CoreInv
    <2> QED
      BY <2>2 DEF AtomicStep, CoreInv, UnfinishedIsEmpty
  <1>3. CASE TwoHoursPass
    <2>1. /\ listing' = listing
          /\ \A i \in RunIds : /\ runs'[i].status = runs[i].status
                               /\ runs'[i].catalog = runs[i].catalog
      BY <1>3, OverdueRuns DEF TwoHoursPass, CoreInv
    <2> QED
      BY <2>1 DEF AtomicStep, CoreInv, UnfinishedIsEmpty
  <1> QED
    BY <1>1, <1>2, <1>3 DEF Next

(* ApplyRun's promise, with any number of collects and reports at once:    *)
(* listings change only together with a run becoming a success, and a      *)
(* finished run's prices never change.                                     *)
THEOREM RunsAreAtomic == Spec => RunIsAtomic
  BY CoreInvariant, NextIsAtomic, PTL DEF Spec, RunIsAtomic
=============================================================================
