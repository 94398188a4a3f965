--------------------------- MODULE CommandsProofs ---------------------------
(***************************************************************************)
(* Proofs about Commands: what the version says of the schema, for any     *)
(* number of processes and migrations; and what a command's loop over any  *)
(* shops tells in the end, whatever fails on the way; and that the         *)
(* messages a text is split into say all of it, for any size of them.      *)
(***************************************************************************)
EXTENDS Commands, NaturalOrder, FiniteSetTheorems, SequenceTheorems, TLAPS

-----------------------------------------------------------------------------
(* Opening the database.                                                   *)

Migrating(o) == opener[o].step = "migrating"

\* Every migration before the one a process is at has been applied.
PastIsApplied ==
  \A o \in Openers : Migrating(o) => opener[o].next # 0 /\ 1 .. opener[o].next - 1 \subseteq schema

\* As long as no two have migrated at once, the one that migrates is where
\* the version is.
AloneIsCurrent ==
  ~raced => \A o \in Openers :
    Migrating(o) => /\ opener[o].next = version + 1
                    /\ \A p \in Openers : Migrating(p) => p = o

\* The inductive invariant.
OpeningInv == OpeningTypeOK /\ VersionTellsSchema /\ PastIsApplied /\ AloneIsCurrent

LEMMA InitOpeningInv == OpeningInit => OpeningInv
<1> USE OpeningAssumption DEF OpeningAssumption
<1> SUFFICES ASSUME OpeningInit PROVE OpeningInv
  OBVIOUS
<1>1. \A o \in Openers : opener[o] = Closed
  BY DEF OpeningInit
<1>2. Closed \in [step : {"closed", "migrating", "open"}, next : 0 .. Latest + 1] /\ Closed.step = "closed"
  BY DEF Closed
<1>3. OpeningTypeOK
  <2>1. opener \in [Openers -> [step : {"closed", "migrating", "open"}, next : 0 .. Latest + 1]]
    BY <1>2 DEF OpeningInit
  <2>2. version \in 0 .. Latest /\ schema \subseteq 1 .. Latest
    BY DEF OpeningInit
  <2>3. raced \in BOOLEAN
    BY DEF OpeningInit
  <2> QED
    BY <2>1, <2>2, <2>3 DEF OpeningTypeOK
<1>4. VersionTellsSchema
  BY DEF OpeningInit, VersionTellsSchema
<1>5. PastIsApplied /\ AloneIsCurrent
  BY <1>1, <1>2 DEF PastIsApplied, AloneIsCurrent, Migrating
<1> QED
  BY <1>3, <1>4, <1>5 DEF OpeningInv

\* A process reads the version.
LEMMA ReadVersionKeepsInv ==
  ASSUME OpeningInv, NEW o \in Openers, ReadVersion(o)
  PROVE  OpeningInv'
<1> USE OpeningAssumption DEF OpeningAssumption, OpeningInv, ReadVersion, Move
<1>1. OpeningTypeOK'
  BY DEF OpeningTypeOK
<1>2. VersionTellsSchema'
  BY DEF VersionTellsSchema
<1>3. \A p \in Openers : p # o => opener'[p] = opener[p]
  BY DEF OpeningTypeOK
<1>4. opener'[o] = [step |-> "migrating", next |-> version + 1]
  BY DEF OpeningTypeOK
<1>5. PastIsApplied'
  BY <1>3, <1>4 DEF PastIsApplied, Migrating, VersionTellsSchema, OpeningTypeOK
<1>6. AloneIsCurrent'
  BY <1>3, <1>4 DEF AloneIsCurrent, Migrating, OpeningTypeOK
<1> QED
  BY <1>1, <1>2, <1>5, <1>6

\* A migration and its number.
LEMMA ApplyMigrationKeepsInv ==
  ASSUME OpeningInv, NEW o \in Openers, ApplyMigration(o)
  PROVE  OpeningInv'
<1> DEFINE n == opener[o].next
<1> USE OpeningAssumption DEF OpeningAssumption, OpeningInv, ApplyMigration, Move
<1>1. n \in 1 .. Latest
  BY DEF OpeningTypeOK, PastIsApplied, Migrating
<1>2. 1 .. n - 1 \subseteq schema /\ schema' = schema \cup {n} /\ version' = n
  BY DEF PastIsApplied, Migrating
<1>3. \A p \in Openers : p # o => opener'[p] = opener[p]
  BY DEF OpeningTypeOK
<1>4. opener'[o].step = "migrating" /\ opener'[o].next = n + 1
  BY DEF OpeningTypeOK
<1>5. OpeningTypeOK'
  <2>1. opener'[o] \in [step : {"closed", "migrating", "open"}, next : 0 .. Latest + 1]
    BY <1>1 DEF OpeningTypeOK
  <2>2. opener' \in [Openers -> [step : {"closed", "migrating", "open"}, next : 0 .. Latest + 1]]
    BY <1>3, <2>1 DEF OpeningTypeOK
  <2> QED
    BY <1>1, <1>2, <2>2 DEF OpeningTypeOK
<1>6. 1 .. version' \subseteq schema'
  BY <1>1, <1>2
<1>7. ASSUME ~raced'
      PROVE  schema' = 1 .. version'
  <2>1. n = version + 1 /\ schema = 1 .. version
    BY <1>7 DEF AloneIsCurrent, Migrating, VersionTellsSchema
  <2> QED
    BY <1>1, <1>2, <2>1 DEF OpeningTypeOK
<1>8. VersionTellsSchema'
  BY <1>6, <1>7 DEF VersionTellsSchema
<1>9. PastIsApplied'
  BY <1>1, <1>2, <1>3, <1>4 DEF PastIsApplied, Migrating
<1>10. AloneIsCurrent'
  BY <1>2, <1>3, <1>4 DEF AloneIsCurrent, Migrating
<1> QED
  BY <1>5, <1>8, <1>9, <1>10

\* A process has applied them all, or ends.
LEMMA RestKeepsInv ==
  ASSUME OpeningInv, NEW o \in Openers, Opened(o) \/ CloseStore(o)
  PROVE  OpeningInv'
<1> USE OpeningAssumption DEF OpeningAssumption, OpeningInv, Opened, CloseStore, Move, Closed
<1>1. OpeningTypeOK'
  <2>1. PICK to \in [step : {"closed", "migrating", "open"}, next : 0 .. Latest + 1] :
          opener' = [opener EXCEPT ![o] = to]
    BY DEF OpeningTypeOK
  <2>2. opener' \in [Openers -> [step : {"closed", "migrating", "open"}, next : 0 .. Latest + 1]]
    BY <2>1 DEF OpeningTypeOK
  <2> QED
    BY <2>2 DEF OpeningTypeOK
<1>2. VersionTellsSchema'
  BY DEF VersionTellsSchema
<1>3. \A p \in Openers : Migrating(p)' => Migrating(p) /\ opener'[p] = opener[p]
  BY DEF OpeningTypeOK, Migrating
<1>4. PastIsApplied' /\ AloneIsCurrent'
  BY <1>3 DEF PastIsApplied, AloneIsCurrent
<1> QED
  BY <1>1, <1>2, <1>4

LEMMA OpeningStepKeepsInv == OpeningInv /\ [OpeningNext]_openingVars => OpeningInv'
<1> SUFFICES ASSUME OpeningInv, [OpeningNext]_openingVars
             PROVE  OpeningInv'
  OBVIOUS
<1>1. ASSUME NEW o \in Openers, ReadVersion(o) PROVE OpeningInv'
  BY <1>1, ReadVersionKeepsInv
<1>2. ASSUME NEW o \in Openers, ApplyMigration(o) PROVE OpeningInv'
  BY <1>2, ApplyMigrationKeepsInv
<1>3. ASSUME NEW o \in Openers, Opened(o) \/ CloseStore(o) PROVE OpeningInv'
  BY <1>3, RestKeepsInv
<1>4. CASE UNCHANGED openingVars
  BY <1>4 DEF openingVars, OpeningInv, OpeningTypeOK, VersionTellsSchema, PastIsApplied,
              AloneIsCurrent, Migrating
<1> QED
  BY <1>1, <1>2, <1>3, <1>4 DEF OpeningNext, OpenStep

\* Whichever processes open the database, at whatever times, and wherever they
\* die (store.Open, migrate): the version promises no migration the database
\* has not had, and tells exactly which it has until two migrate at once.
THEOREM VersionIsHonest == OpeningSpec => []VersionTellsSchema
<1>1. OpeningInv => VersionTellsSchema
  BY DEF OpeningInv
<1> QED
  BY InitOpeningInv, OpeningStepKeepsInv, <1>1, PTL DEF OpeningSpec
-----------------------------------------------------------------------------
(* The commands open it as any process does.                               *)

LEMMA CommandsOpen == [CommandNext]_commandVars => [OpeningNext]_openingVars
<1> SUFFICES ASSUME [CommandNext]_commandVars
             PROVE  [OpeningNext]_openingVars
  OBVIOUS
<1>1. cli \in Openers
  BY CommandsAssumption DEF CommandsAssumption
<1>2. Leave => [OpeningNext]_openingVars
  BY <1>1 DEF Leave, OpeningNext
<1>3. ASSUME NEW c, StartCommand(c) PROVE OpeningNext
  BY <1>1, <1>3 DEF StartCommand, OpeningNext
<1>4. MigrateStep => OpeningNext
  BY <1>1 DEF MigrateStep, OpeningNext
<1>5. OtherOpens => OpeningNext
  BY DEF OtherOpens, OpeningNext
<1>6. OpenFails \/ ResolveFails \/ RegroupFails \/ Regroup \/ NoChangesNotSent \/ RunWatches \/ Crash => Leave
  BY DEF OpenFails, ResolveFails, RegroupFails, Regroup, NoChangesNotSent, RunWatches, Crash, Return
<1>7. Resolve \/ CollectShop \/ CollectShopsDone \/ ReportQuietly \/ ReportSends \/ SendingStep
        \/ ReportSent \/ ReportNotSent \/ SayNoChanges \/ NoChangesSent \/ GoToWatches \/ CommandIsCut
      => UNCHANGED openingVars
  BY DEF Resolve, CollectShop, CollectShopsDone, ReportQuietly, ReportSends, SendingStep, ReportSent,
         ReportNotSent, SayNoChanges, NoChangesSent, GoToWatches, CommandIsCut
<1>8. UNCHANGED commandVars => UNCHANGED openingVars
  BY DEF commandVars
<1> QED
  BY <1>2, <1>3, <1>4, <1>5, <1>6, <1>7, <1>8 DEF CommandNext, CommandStep

\* Commands are processes that open the database: whatever run does between,
\* every step of it is one of theirs or leaves the database's version alone.
THEOREM CommandsAreOpeners == CommandSpec => OpeningSpec
<1>1. CommandInit => OpeningInit
  BY DEF CommandInit
<1> QED
  BY <1>1, CommandsOpen, PTL DEF CommandSpec, OpeningSpec

LEMMA AlwaysOpeningInv == CommandSpec => []OpeningInv
<1>1. OpeningSpec => []OpeningInv
  BY InitOpeningInv, OpeningStepKeepsInv, PTL DEF OpeningSpec
<1> QED
  BY <1>1, CommandsAreOpeners, PTL

\* The version stays honest beside commands that start, run and die at any time.
THEOREM CommandsKeepVersionHonest == CommandSpec => []VersionTellsSchema
  BY CommandsAreOpeners, VersionIsHonest, PTL

-----------------------------------------------------------------------------
(* Where a command is, and what it is sending.                             *)

Pcs == {"off", "open", "resolve", "shop", "send", "quiet", "watches", "match"}
Outcomes == {"none", "stored", "failed", "skipped", "unchanged", "reported"}

Shape ==
  /\ ctx \in ContextStates
  /\ TelegramTypeOK
  /\ pc \in Pcs
  /\ (opener[cli].step = "closed") <=> (pc = "off")
  /\ (sending # "no") <=> pc \in {"send", "quiet"}
  /\ cmd \in {"collect", "report", "match"}
  /\ rows \in [Slugs -> {"none", "active", "retired"}]
  /\ ungrouped \subseteq Slugs

\* The shops done so far.
Done == Len(selected) - Len(queue)

SelectionTypes ==
  /\ selected \in Seq(Slugs) /\ queue \in Seq(Slugs) /\ Len(queue) <= Len(selected)
  /\ \A i \in 1 .. Len(queue) : queue[i] = selected[Len(selected) - Len(queue) + i]
  /\ outcome \in [Slugs -> Outcomes]
  /\ unchanged \in Nat

Flags == failed \in BOOLEAN /\ alerted \in BOOLEAN

\* If every shop done so far counted as unchanged, each was.
CountsWhatIsUnchanged ==
  /\ unchanged <= Done
  /\ unchanged = Done => \A i \in 1 .. Done : outcome[selected[i]] = "unchanged"

\* A collect has an outcome for every shop done so far, and owns up to failures.
KeepsOutcomes ==
  cmd = "collect" => \A i \in 1 .. Done : /\ outcome[selected[i]] # "none"
                                          /\ outcome[selected[i]] = "failed" => failed

\* Shops are left only while the command is at one of them.
LoopIsOver ==
  /\ pc \in {"off", "open", "resolve"} => selected = <<>> /\ unchanged = 0
  /\ pc = "send" => queue # <<>>
  /\ pc \in {"quiet", "match", "watches"} => queue = <<>>
  /\ pc = "quiet" => AllQuiet

LoopInv == SelectionTypes /\ Flags /\ CountsWhatIsUnchanged /\ KeepsOutcomes /\ LoopIsOver

LEMMA InitShape == CommandInit => Shape
<1> SUFFICES ASSUME CommandInit PROVE Shape
  OBVIOUS
<1>1. opener[cli].step = "closed"
  BY CommandsAssumption DEF CommandsAssumption, CommandInit, OpeningInit, Closed
<1>2. rows \in [Slugs -> {"none", "active", "retired"}]
  BY CommandsAssumption DEF CommandsAssumption, CommandInit
<1> QED
  BY <1>1, <1>2 DEF CommandInit, Shape, TelegramTypeOK, ContextStates, Pcs

LEMMA OpenersKeep ==
  ASSUME OpeningInv, NEW o \in Openers, ReadVersion(o) \/ OpenStep(o) \/ CloseStore(o)
  PROVE  /\ \A p \in Openers : p # o => opener'[p] = opener[p]
         /\ ReadVersion(o) => opener'[o].step = "migrating"
         /\ OpenStep(o) => opener[o].step = "migrating" /\ opener'[o].step \in {"migrating", "open"}
         /\ CloseStore(o) => opener'[o].step = "closed"
  BY DEF OpeningInv, OpeningTypeOK, ReadVersion, OpenStep, ApplyMigration, Opened, CloseStore, Move, Closed

\* Rows are only added.
LEMMA CreateType ==
  ASSUME rows \in [Slugs -> {"none", "active", "retired"}], NEW slugs
  PROVE  Create(slugs) \in [Slugs -> {"none", "active", "retired"}]
  BY DEF Create

\* What a step of the sender does to its own variables.
LEMMA SenderKeeps ==
  ASSUME TelegramTypeOK
  PROVE  /\ \A t \in Texts : BeginSend(t) => TelegramTypeOK' /\ sending' # "no" /\ ctx' = ctx
         /\ Sent \/ SendFails => TelegramTypeOK' /\ sending' = "no" /\ ctx' = ctx
         /\ SendNothing => TelegramTypeOK' /\ sending' = "no"
         /\ SendStep => TelegramTypeOK' /\ sending # "no" /\ sending' # "no" /\ ctx' = ctx
  BY DEF TelegramTypeOK, BeginSend, Sent, SendFails, SendNothing, SendStep, SendMessage, RetryAfter,
         WaitIsOver, Trying

LEMMA ShapeStep == OpeningInv /\ SelectionTypes /\ Shape /\ [CommandNext]_commandVars => Shape'
<1> SUFFICES ASSUME OpeningInv, SelectionTypes, Shape, [CommandNext]_commandVars
             PROVE  Shape'
  OBVIOUS
<1>0. cli \in Openers /\ QuietText \in Texts /\ TelegramTypeOK
  BY CommandsAssumption DEF CommandsAssumption, Shape
<1>1. UNCHANGED telegramVars => TelegramTypeOK' /\ sending' = sending
  BY <1>0 DEF telegramVars, TelegramTypeOK
<1>2. Leave => pc' = "off" /\ opener'[cli].step = "closed"
  BY <1>0, OpenersKeep DEF Leave
<1>3. UNCHANGED openingVars => opener' = opener
  BY DEF openingVars
<1>4. Return => Leave /\ UNCHANGED <<ctx, telegramVars, cmd>>
  BY DEF Return
<1>5. ASSUME NEW c \in {"collect", "report", "match"}, StartCommand(c)
      PROVE  Shape'
  BY <1>0, <1>1, <1>5, OpenersKeep DEF Shape, StartCommand, ContextStates, Pcs
<1>6. CASE MigrateStep
  <2>1. opener'[cli].step \in {"migrating", "open"}
    BY <1>0, <1>6, OpenersKeep DEF MigrateStep
  <2> QED
    BY <1>1, <1>6, <2>1 DEF Shape, MigrateStep, Pcs
<1>7. CASE OpenFails \/ RegroupFails \/ RunWatches \/ Regroup
  BY <1>1, <1>2, <1>4, <1>7 DEF Shape, OpenFails, RegroupFails, RunWatches, Regroup, Pcs
<1>8. CASE Resolve
  BY <1>1, <1>3, <1>8, CreateType DEF Shape, Resolve, Choose, Pcs
<1>9. CASE ResolveFails
  BY <1>1, <1>2, <1>4, <1>9, CreateType DEF Shape, ResolveFails, Pcs
<1>10. CASE CollectShop
  <2>1. Head(queue) \in Slugs
    BY <1>10 DEF SelectionTypes, CollectShop
  <2> QED
    BY <1>1, <1>3, <1>10, <2>1 DEF Shape, CollectShop, ShopEnds, Pcs
<1>11. CASE CollectShopsDone \/ ReportQuietly \/ GoToWatches
  BY <1>1, <1>3, <1>11 DEF Shape, CollectShopsDone, ReportQuietly, GoToWatches, Reporting, ShopEnds, Pcs
<1>12. CASE ReportSends \/ SayNoChanges
  BY <1>0, <1>3, <1>12, SenderKeeps DEF Shape, ReportSends, SayNoChanges, Reporting, Pcs
<1>13. CASE SendingStep
  BY <1>0, <1>3, <1>13, SenderKeeps DEF Shape, SendingStep
<1>14. CASE ReportSent \/ ReportNotSent \/ NoChangesSent
  BY <1>0, <1>3, <1>14, SenderKeeps DEF Shape, ReportSent, ReportNotSent, NoChangesSent, ShopEnds, Pcs
<1>15. CASE NoChangesNotSent
  BY <1>0, <1>2, <1>15, SenderKeeps DEF Shape, NoChangesNotSent, Pcs
<1>16. CASE CommandIsCut
  BY <1>1, <1>3, <1>16 DEF Shape, CommandIsCut, Expire, Stop, ContextStates
<1>17. CASE Crash
  BY <1>0, <1>2, <1>17, SenderKeeps DEF Shape, Crash, Pcs
<1>18. CASE OtherOpens
  <2>1. opener'[cli] = opener[cli]
    BY <1>0, <1>18, OpenersKeep DEF OtherOpens
  <2> QED
    BY <1>1, <1>18, <2>1 DEF Shape, OtherOpens
<1>19. CASE UNCHANGED commandVars
  BY <1>1, <1>3, <1>19 DEF Shape, commandVars
<1> QED
  BY <1>5, <1>6, <1>7, <1>8, <1>9, <1>10, <1>11, <1>12, <1>13, <1>14, <1>15, <1>16, <1>17, <1>18, <1>19
     DEF CommandNext, CommandStep

-----------------------------------------------------------------------------
(* The loop over the shops.                                                *)

LEMMA NothingLeft == <<>> \in Seq(Slugs) /\ Len(<<>>) = 0
  OBVIOUS

LEMMA InitLoop == CommandInit => LoopInv
<1> SUFFICES ASSUME CommandInit PROVE LoopInv
  OBVIOUS
<1>1. selected = <<>> /\ queue = <<>> /\ outcome = NoOutcome /\ unchanged = 0 /\ pc = "off"
      /\ failed = FALSE /\ alerted = FALSE
  BY DEF CommandInit
<1>2. NoOutcome \in [Slugs -> Outcomes]
  BY DEF NoOutcome, Outcomes
<1>3. Done = 0
  BY <1>1 DEF Done
<1>4. SelectionTypes
  BY <1>1, <1>2, NothingLeft DEF SelectionTypes
<1>5. Flags
  BY <1>1 DEF Flags
<1> QED
  BY <1>1, <1>3, <1>4, <1>5 DEF LoopInv, CountsWhatIsUnchanged, KeepsOutcomes, LoopIsOver

LEMMA LeaveEndsLoop == Leave => LoopInv'
<1> SUFFICES ASSUME Leave PROVE LoopInv'
  OBVIOUS
<1>1. selected' = <<>> /\ queue' = <<>> /\ outcome' = NoOutcome /\ unchanged' = 0 /\ pc' = "off"
      /\ failed' = FALSE /\ alerted' = FALSE
  BY DEF Leave
<1>2. NoOutcome \in [Slugs -> Outcomes]
  BY DEF NoOutcome, Outcomes
<1>3. Done' = 0
  BY <1>1 DEF Done
<1>4. SelectionTypes'
  BY <1>1, <1>2, NothingLeft DEF SelectionTypes
<1>5. Flags'
  BY <1>1 DEF Flags
<1> QED
  BY <1>1, <1>3, <1>4, <1>5 DEF LoopInv, CountsWhatIsUnchanged, KeepsOutcomes, LoopIsOver

\* A shop is done: it moves from what is left to what has an outcome.
LEMMA ShopEndsKeepsLoop ==
  ASSUME LoopInv, NEW o \in Outcomes \ {"none"}, ShopEnds(o), queue # <<>>, cmd' = cmd
  PROVE  LoopInv'
<1> DEFINE s == Head(queue)
<1>1. /\ outcome' = [outcome EXCEPT ![s] = o] /\ failed' = (failed \/ o = "failed")
      /\ unchanged' = unchanged + (IF o = "unchanged" THEN 1 ELSE 0)
      /\ alerted' = FALSE /\ queue' = Tail(queue) /\ pc' = "shop" /\ selected' = selected
  BY DEF ShopEnds
<1>2. /\ selected \in Seq(Slugs) /\ queue \in Seq(Slugs) /\ Len(queue) <= Len(selected)
      /\ \A i \in 1 .. Len(queue) : queue[i] = selected[Len(selected) - Len(queue) + i]
      /\ outcome \in [Slugs -> Outcomes] /\ unchanged \in Nat
  BY DEF LoopInv, SelectionTypes
<1>3. /\ queue' \in Seq(Slugs) /\ Len(queue') = Len(queue) - 1 /\ Len(queue) \in Nat \ {0}
      /\ \A i \in 1 .. Len(queue') : queue'[i] = queue[i + 1]
      /\ s = queue[1] /\ s \in Slugs /\ Len(selected) \in Nat
  BY <1>1, <1>2
<1> HIDE DEF s
<1>4. Done \in Nat /\ Done' = Done + 1 /\ selected[Done + 1] = s
  BY <1>1, <1>2, <1>3 DEF Done
<1>5. \A i \in 1 .. Done : selected[i] \in Slugs
  BY <1>2, <1>4, <1>3 DEF Done
<1>6. SelectionTypes'
  <2>1. \A i \in 1 .. Len(queue') : queue'[i] = selected[Len(selected) - Len(queue') + i]
    <3>1. ASSUME NEW i \in 1 .. Len(queue')
          PROVE  queue'[i] = selected[Len(selected) - Len(queue') + i]
      <4>1. i + 1 \in 1 .. Len(queue)
        BY <1>3
      <4>2. queue[i + 1] = selected[Len(selected) - Len(queue) + (i + 1)]
        BY <1>2, <4>1
      <4>3. Len(selected) - Len(queue) + (i + 1) = Len(selected) - Len(queue') + i
        BY <1>3
      <4> QED
        BY <1>3, <4>2, <4>3
    <3> QED
      BY <3>1
  <2>2. outcome' \in [Slugs -> Outcomes]
    BY <1>1, <1>2
  <2>3. unchanged' \in Nat
    BY <1>1, <1>2
  <2> QED
    BY <1>1, <1>2, <1>3, <2>1, <2>2, <2>3 DEF SelectionTypes
<1>7. CountsWhatIsUnchanged'
  <2>1. unchanged <= Done /\ (unchanged = Done => \A i \in 1 .. Done : outcome[selected[i]] = "unchanged")
    BY DEF LoopInv, CountsWhatIsUnchanged
  <2>2. unchanged' <= Done'
    BY <1>1, <1>2, <1>4, <2>1
  <2>3. ASSUME unchanged' = Done', NEW i \in 1 .. Done'
        PROVE  outcome'[selected'[i]] = "unchanged"
    <3>1. o = "unchanged" /\ unchanged = Done
      BY <1>1, <1>2, <1>4, <2>1, <2>3
    <3>2. i \in 1 .. Done \/ i = Done + 1
      BY <1>4
    <3> QED
      BY <1>1, <1>2, <1>3, <1>4, <1>5, <2>1, <3>1, <3>2
  <2> QED
    BY <2>2, <2>3 DEF CountsWhatIsUnchanged
<1>8. KeepsOutcomes'
  <2> SUFFICES ASSUME cmd = "collect", NEW i \in 1 .. Done'
               PROVE  outcome'[selected'[i]] # "none" /\ (outcome'[selected'[i]] = "failed" => failed')
    BY DEF KeepsOutcomes
  <2>1. i \in 1 .. Done \/ i = Done + 1
    BY <1>4
  <2>2. i \in 1 .. Done => outcome[selected[i]] # "none" /\ (outcome[selected[i]] = "failed" => failed)
    BY DEF LoopInv, KeepsOutcomes
  <2>3. selected[i] \in Slugs
    BY <1>3, <1>4, <1>5, <2>1
  <2> QED
    BY <1>1, <1>2, <1>4, <2>1, <2>2, <2>3
<1>9. LoopIsOver'
  BY <1>1 DEF LoopIsOver
<1>10. Flags'
  BY <1>1 DEF Flags
<1> QED
  BY <1>6, <1>7, <1>8, <1>9, <1>10 DEF LoopInv

\* Steps that leave the selection alone.
LEMMA LoopStays ==
  ASSUME LoopInv, UNCHANGED <<cmd, selected, queue, outcome, failed, unchanged>>, Flags', LoopIsOver'
  PROVE  LoopInv'
<1>1. Done' = Done
  BY DEF Done
<1> QED
  BY <1>1 DEF LoopInv, SelectionTypes, CountsWhatIsUnchanged, KeepsOutcomes

\* Before the loop.
LEMMA LoopBegins ==
  ASSUME LoopInv, pc \in {"off", "open", "resolve"}
  PROVE  selected = <<>> /\ queue = <<>> /\ unchanged = 0 /\ Done = 0
<1>1. selected = <<>> /\ unchanged = 0
  BY DEF LoopInv, LoopIsOver
<1>2. queue \in Seq(Slugs) /\ Len(queue) <= 0
  BY <1>1 DEF LoopInv, SelectionTypes
<1> QED
  BY <1>1, <1>2 DEF Done

LEMMA StartKeepsLoop == LoopInv /\ (\E c \in {"collect", "report", "match"} : StartCommand(c)) => LoopInv'
<1> SUFFICES ASSUME LoopInv, NEW c, StartCommand(c)
             PROVE  LoopInv'
  OBVIOUS
<1>1. UNCHANGED <<selected, queue, outcome, failed, unchanged, alerted>> /\ pc = "off" /\ pc' = "open"
  BY DEF StartCommand, selectionVars
<1>2. selected = <<>> /\ queue = <<>> /\ unchanged = 0 /\ Done = 0 /\ Done' = 0
  BY <1>1, LoopBegins DEF Done
<1>3. Flags'
  BY <1>1 DEF LoopInv, Flags
<1>4. SelectionTypes' /\ CountsWhatIsUnchanged' /\ KeepsOutcomes'
  BY <1>1, <1>2 DEF LoopInv, SelectionTypes, CountsWhatIsUnchanged, KeepsOutcomes
<1> QED
  BY <1>1, <1>2, <1>3, <1>4 DEF LoopInv, LoopIsOver

LEMMA RegisteredAreSlugs ==
  Range(Registered) \subseteq Slugs /\ IsFiniteSet(Range(Registered))
<1>1. Registered \in Seq(Slugs)
  BY CommandsAssumption DEF CommandsAssumption
<1>2. Range(Registered) \subseteq Slugs
  BY <1>1 DEF Range
<1>3. Registered \in Surjection(1 .. Len(Registered), Range(Registered))
  BY <1>1 DEF Range, Surjection
<1>4. IsFiniteSet(1 .. Len(Registered))
  BY <1>1, FS_Interval
<1> QED
  BY <1>2, <1>3, <1>4, FS_Surjection

\* SetToSeq lists a finite set.
LEMMA ListOfSet ==
  ASSUME NEW S, IsFiniteSet(S)
  PROVE  SetToSeq(S) \in Seq(S)
<1> DEFINE n == Cardinality(S)
           f == SetToSeq(S)
<1>1. n \in Nat /\ ExistsBijection(1 .. n, S)
  BY FS_CardinalityType
<1>2. PICK b : b \in Bijection(1 .. n, S)
  BY <1>1 DEF ExistsBijection
<1>3. b \in [1 .. n -> S] /\ IsInjective(b)
  BY <1>2 DEF Bijection, Injection
<1>4. f \in [1 .. n -> S]
  BY <1>3 DEF SetToSeq
<1> QED
  BY <1>1, <1>4

LEMMA ResolveKeepsLoop == LoopInv /\ Resolve => LoopInv'
<1> SUFFICES ASSUME LoopInv, Resolve
             PROVE  LoopInv'
  OBVIOUS
<1> DEFINE active == {s \in Range(Registered) : IsActive(s)}
<1>1. PICK run : /\ selected' = run /\ queue' = run /\ pc' = "shop"
                 /\ \/ run \in Selections /\ Range(run) \subseteq Range(Registered)
                    \/ run = SetToSeq(active)
  BY DEF Resolve, Choose
<1>2. run \in Seq(Slugs)
  <2>1. CASE run \in Selections /\ Range(run) \subseteq Range(Registered)
    <3>1. run \in Seq(Range(run)) /\ Range(run) \subseteq Slugs
      BY <2>1, CommandsAssumption, RegisteredAreSlugs DEF CommandsAssumption
    <3> QED
      BY <3>1
  <2>2. CASE run = SetToSeq(active)
    <3>1. active \subseteq Range(Registered)
      OBVIOUS
    <3>2. IsFiniteSet(active) /\ active \subseteq Slugs
      BY <3>1, RegisteredAreSlugs, FS_Subset
    <3>3. run \in Seq(active)
      BY <2>2, <3>2, ListOfSet
    <3> QED
      BY <3>2, <3>3
  <2> QED
    BY <1>1, <2>1, <2>2
<1>3. /\ UNCHANGED <<cmd, outcome, failed, unchanged, alerted>> /\ pc = "resolve"
  BY DEF Resolve
<1>4. unchanged = 0
  BY <1>3, LoopBegins
<1>5. Done' = 0
  BY <1>1, <1>2 DEF Done
<1>6. SelectionTypes'
  BY <1>1, <1>2, <1>3 DEF LoopInv, SelectionTypes
<1>7. Flags'
  BY <1>3 DEF LoopInv, Flags
<1>8. CountsWhatIsUnchanged' /\ KeepsOutcomes'
  BY <1>3, <1>4, <1>5 DEF CountsWhatIsUnchanged, KeepsOutcomes
<1> QED
  BY <1>1, <1>6, <1>7, <1>8 DEF LoopInv, LoopIsOver

LEMMA LoopStep == LoopInv /\ [CommandNext]_commandVars => LoopInv'
<1> SUFFICES ASSUME LoopInv, [CommandNext]_commandVars
             PROVE  LoopInv'
  OBVIOUS
<1>1. UNCHANGED selectionVars =>
        UNCHANGED <<selected, queue, outcome, failed, unchanged>> /\ Flags'
  BY DEF LoopInv, Flags, selectionVars
<1>2. LoopIsOver
  BY DEF LoopInv
<1>3. Leave => LoopInv'
  BY LeaveEndsLoop
<1>4. CASE MigrateStep
  <2>1. pc = "open" /\ pc' \in {"open", "match", "resolve"} /\ UNCHANGED <<selectionVars, cmd>>
    BY <1>4 DEF MigrateStep
  <2>2. selected = <<>> /\ queue = <<>> /\ unchanged = 0
    BY <2>1, LoopBegins
  <2>3. LoopIsOver'
    BY <1>1, <2>1, <2>2 DEF LoopIsOver
  <2> QED
    BY <1>1, <2>1, <2>3, LoopStays
<1>5. CASE CollectShop
  <2>1. \E o \in {"stored", "failed"} : ShopEnds(o)
    BY <1>5 DEF CollectShop
  <2> QED
    BY <1>5, <2>1, ShopEndsKeepsLoop DEF CollectShop, Outcomes
<1>6. CASE ReportQuietly
  <2>1. \E o \in {"skipped", "unchanged", "failed"} : ShopEnds(o)
    BY <1>6 DEF ReportQuietly
  <2> QED
    BY <1>6, <2>1, ShopEndsKeepsLoop DEF ReportQuietly, Outcomes
<1>7. CASE ReportSent
  <2>1. pc = "send" /\ queue # <<>> /\ cmd' = cmd
    BY <1>2, <1>7 DEF ReportSent, LoopIsOver
  <2>2. CASE \E o \in {"reported", "failed"} : ShopEnds(o)
    BY <2>1, <2>2, ShopEndsKeepsLoop DEF Outcomes
  <2>3. CASE alerted' = TRUE /\ pc' = "shop" /\ UNCHANGED <<selected, queue, outcome, failed, unchanged>>
    <3>1. Flags'
      BY <2>3 DEF LoopInv, Flags
    <3>2. LoopIsOver'
      BY <2>3 DEF LoopIsOver
    <3> QED
      BY <2>1, <2>3, <3>1, <3>2, LoopStays
  <2> QED
    BY <1>7, <2>2, <2>3 DEF ReportSent
<1>8. CASE ReportNotSent
  <2>1. queue # <<>> /\ cmd' = cmd /\ ShopEnds("failed")
    BY <1>2, <1>8 DEF ReportNotSent, LoopIsOver
  <2> QED
    BY <2>1, ShopEndsKeepsLoop DEF Outcomes
<1>9. CASE ReportSends \/ SayNoChanges \/ CollectShopsDone \/ GoToWatches \/ NoChangesSent
  <2>1. UNCHANGED <<selectionVars, cmd>>
    BY <1>9 DEF ReportSends, SayNoChanges, CollectShopsDone, GoToWatches, NoChangesSent
  <2>2. LoopIsOver'
    BY <1>1, <1>2, <1>9, <2>1
       DEF ReportSends, SayNoChanges, CollectShopsDone, GoToWatches, NoChangesSent, LoopIsOver, AllQuiet, Reporting
  <2> QED
    BY <1>1, <2>1, <2>2, LoopStays
<1>10. CASE SendingStep \/ CommandIsCut \/ OtherOpens \/ UNCHANGED commandVars
  <2>1. UNCHANGED <<selectionVars, cmd, pc>>
    BY <1>10 DEF SendingStep, CommandIsCut, OtherOpens, commandVars
  <2>2. LoopIsOver'
    BY <1>1, <1>2, <2>1 DEF LoopIsOver, AllQuiet
  <2> QED
    BY <1>1, <2>1, <2>2, LoopStays
<1>11. OpenFails \/ ResolveFails \/ RegroupFails \/ Regroup \/ NoChangesNotSent \/ RunWatches \/ Crash => Leave
  BY DEF OpenFails, ResolveFails, RegroupFails, Regroup, NoChangesNotSent, RunWatches, Crash, Return
<1> QED
  BY <1>3, <1>4, <1>5, <1>6, <1>7, <1>8, <1>9, <1>10, <1>11, StartKeepsLoop, ResolveKeepsLoop
     DEF CommandNext, CommandStep

\* What the commands keep: types, the order of the steps, and that the message
\* of no changes and the exit status of a collect tell what became of every
\* selected shop (run's loops).
THEOREM CommandsTellAll == CommandSpec => []CommandInv
<1>1. CommandInit => Shape /\ LoopInv
  BY InitShape, InitLoop
<1>2. OpeningInv /\ Shape /\ LoopInv /\ [CommandNext]_commandVars => (Shape /\ LoopInv)'
  BY ShapeStep, LoopStep DEF LoopInv
<1>3. OpeningInv /\ Shape /\ LoopInv => CommandInv
  <2> SUFFICES ASSUME OpeningInv, Shape, LoopInv
               PROVE  CommandInv
    OBVIOUS
  <2>1. /\ selected \in Seq(Slugs) /\ queue \in Seq(Slugs) /\ Len(queue) <= Len(selected)
        /\ unchanged \in Nat /\ unchanged <= Done /\ Len(selected) \in Nat /\ Len(queue) \in Nat
    BY DEF LoopInv, SelectionTypes, CountsWhatIsUnchanged
  <2>2. unchanged \in 0 .. Len(selected)
    BY <2>1 DEF Done
  <2>3. CommandTypeOK
    BY <2>1, <2>2 DEF CommandTypeOK, OpeningInv, Shape, Pcs, LoopInv, SelectionTypes, Flags, Outcomes
  <2>4. queue = <<>> => Done = Len(selected)
    BY <2>1 DEF Done
  <2>5. \A s \in Range(selected) : \E i \in 1 .. Len(selected) : s = selected[i]
    BY <2>1 DEF Range
  <2>6. NoChangesOnlyIfAllCompared
    BY <2>4, <2>5 DEF NoChangesOnlyIfAllCompared, LoopInv, LoopIsOver, CountsWhatIsUnchanged, AllQuiet
  <2>7. CollectTriesAll
    BY <2>4, <2>5 DEF CollectTriesAll, LoopInv, LoopIsOver, KeepsOutcomes
  <2> QED
    BY <2>3, <2>6, <2>7 DEF CommandInv
<1> QED
  BY <1>1, <1>2, <1>3, AlwaysOpeningInv, PTL DEF CommandSpec

-----------------------------------------------------------------------------
(* Sequences of messages, one after the other.                             *)

\* FlattenSeq is the last value of a function that adds one after the other.
LEMMA FlattenIsLast ==
  ASSUME NEW S, NEW ss \in Seq(Seq(S)),
         NEW g \in [0 .. Len(ss) -> Seq(S)], g[0] = <<>>,
         \A i \in 1 .. Len(ss) : g[i] = g[i - 1] \o ss[i]
  PROVE  FlattenSeq(ss) = g[Len(ss)]
<1>1. CASE Len(ss) = 0
  <2>1. ss = <<>>
    BY <1>1
  <2> QED
    BY <1>1, <2>1 DEF FlattenSeq
<1>2. CASE Len(ss) # 0
  <2> DEFINE Adds(f) == f = [i \in 1 .. Len(ss) |-> IF i = 1 THEN ss[i] ELSE f[i - 1] \o ss[i]]
             flatten == CHOOSE f : Adds(f)
             gs == [i \in 1 .. Len(ss) |-> g[i]]
  <2>1. Len(ss) \in Nat /\ 1 \in 1 .. Len(ss) /\ Len(ss) \in 1 .. Len(ss)
    BY <1>2
  <2>2. g[1] = ss[1]
    <3>1. g[1] = g[0] \o ss[1]
      BY <2>1
    <3> QED
      BY <2>1, <3>1
  <2>3. \A i \in 1 .. Len(ss) : i # 1 => i - 1 \in 1 .. Len(ss)
    OBVIOUS
  <2>4. Adds(gs)
    BY <2>2, <2>3
  <2>5. Adds(flatten)
    BY <2>4
  <2>6. FlattenSeq(ss) = flatten[Len(ss)]
    BY <1>2 DEF FlattenSeq
  <2> DEFINE Same == {i \in 0 .. Len(ss) : i # 0 => flatten[i] = g[i]}
  <2>7. \A i \in 1 .. Len(ss) : flatten[i] = IF i = 1 THEN ss[i] ELSE flatten[i - 1] \o ss[i]
    <3> HIDE DEF flatten
    <3> QED
      BY <2>5
  <2>8. 0 \in Same
    OBVIOUS
  <2>9. \A i \in 1 .. Len(ss) : i - 1 \in Same => i \in Same
    <3> HIDE DEF flatten
    <3> SUFFICES ASSUME NEW i \in 1 .. Len(ss), i - 1 \in Same PROVE flatten[i] = g[i]
      OBVIOUS
    <3>1. CASE i = 1
      BY <2>2, <2>7, <3>1
    <3>2. CASE i # 1
      <4>1. flatten[i - 1] = g[i - 1]
        BY <3>2
      <4>2. flatten[i] = flatten[i - 1] \o ss[i] /\ g[i] = g[i - 1] \o ss[i]
        BY <2>7, <3>2
      <4> QED
        BY <4>1, <4>2
    <3> QED
      BY <3>1, <3>2
  <2>10. 0 .. Len(ss) \subseteq Same
    <3> HIDE DEF Same
    <3> QED
      BY <2>1, <2>8, <2>9, StepByStep
  <2>11. Len(ss) \in Same
    <3> HIDE DEF Same
    <3>1. Len(ss) \in 0 .. Len(ss)
      BY <2>1
    <3> QED
      BY <2>10, <3>1
  <2>12. flatten[Len(ss)] = g[Len(ss)]
    <3> HIDE DEF flatten
    <3> QED
      BY <2>1, <2>11
  <2> QED
    BY <2>6, <2>12
<1> QED
  BY <1>1, <1>2

\* There is such a function.
LEMMA FlattenSteps ==
  ASSUME NEW S, NEW ss \in Seq(Seq(S))
  PROVE  \E g \in [0 .. Len(ss) -> Seq(S)] :
           /\ g[0] = <<>>
           /\ \A i \in 1 .. Len(ss) : g[i] = g[i - 1] \o ss[i]
           /\ FlattenSeq(ss) = g[Len(ss)]
<1> DEFINE h == [i \in 1 .. Len(ss) |-> [s \in Seq(S) |-> s \o ss[i]]]
<1>1. Len(ss) \in Nat /\ <<>> \in Seq(S) /\ h \in [1 .. Len(ss) -> [Seq(S) -> Seq(S)]]
  OBVIOUS
<1>2. PICK g \in [0 .. Len(ss) -> Seq(S)] :
        g[0] = <<>> /\ \A i \in 1 .. Len(ss) : g[i] = h[i][g[i - 1]]
  <2> DEFINE X == Seq(S)
             n == Len(ss)
             a == <<>>
  <2>1. n \in Nat /\ a \in X /\ h \in [1 .. n -> [X -> X]]
    BY <1>1
  <2>2. \E g \in [0 .. n -> X] : Recursion(g, a, h, n)
    <3> HIDE DEF X, n, a, h
    <3> QED
      BY <2>1, RecursionHolds
  <2> QED
    BY <2>2 DEF Recursion
<1>3. \A i \in 1 .. Len(ss) : g[i] = g[i - 1] \o ss[i]
  <2> TAKE i \in 1 .. Len(ss)
  <2>1. i - 1 \in 0 .. Len(ss)
    OBVIOUS
  <2>2. g[i - 1] \in Seq(S) /\ g[i] = h[i][g[i - 1]]
    BY <1>2, <2>1
  <2> QED
    BY <2>2
<1> QED
  BY <1>2, <1>3, FlattenIsLast

LEMMA FlattenType ==
  ASSUME NEW S, NEW ss \in Seq(Seq(S))
  PROVE  FlattenSeq(ss) \in Seq(S)
<1>1. PICK g \in [0 .. Len(ss) -> Seq(S)] : FlattenSeq(ss) = g[Len(ss)]
  BY FlattenSteps
<1> QED
  BY <1>1

LEMMA FlattenNone == FlattenSeq(<<>>) = <<>>
  BY DEF FlattenSeq

LEMMA FlattenOne ==
  ASSUME NEW S, NEW s \in Seq(S)
  PROVE  FlattenSeq(<<s>>) = s
<1> DEFINE g == [i \in 0 .. 1 |-> IF i = 0 THEN <<>> ELSE s]
<1>1. <<s>> \in Seq(Seq(S)) /\ Len(<<s>>) = 1 /\ <<s>>[1] = s
  OBVIOUS
<1>2. g \in [0 .. 1 -> Seq(S)] /\ g[0] = <<>> /\ g[1] = s /\ <<>> \o s = s
  OBVIOUS
<1>3. \A i \in 1 .. 1 : g[i] = g[i - 1] \o <<s>>[i]
  BY <1>1, <1>2
<1> QED
  <2> HIDE DEF g
  <2> QED
    BY <1>1, <1>2, <1>3, FlattenIsLast

LEMMA FlattenConcat ==
  ASSUME NEW S, NEW ss \in Seq(Seq(S)), NEW rs \in Seq(Seq(S))
  PROVE  FlattenSeq(ss \o rs) = FlattenSeq(ss) \o FlattenSeq(rs)
<1>1. PICK f \in [0 .. Len(ss) -> Seq(S)] :
        /\ f[0] = <<>>
        /\ \A i \in 1 .. Len(ss) : f[i] = f[i - 1] \o ss[i]
        /\ FlattenSeq(ss) = f[Len(ss)]
  BY FlattenSteps
<1>2. PICK g \in [0 .. Len(rs) -> Seq(S)] :
        /\ g[0] = <<>>
        /\ \A i \in 1 .. Len(rs) : g[i] = g[i - 1] \o rs[i]
        /\ FlattenSeq(rs) = g[Len(rs)]
  BY FlattenSteps
<1> DEFINE n == Len(ss)
           m == Len(rs)
           all == ss \o rs
           h == [i \in 0 .. n + m |-> IF i < n THEN f[i] ELSE f[n] \o g[i - n]]
           X == Seq(S)
<1>3. /\ n \in Nat /\ m \in Nat /\ all \in Seq(X) /\ Len(all) = n + m
      /\ \A i \in 1 .. n + m : all[i] = IF i <= n THEN ss[i] ELSE rs[i - n]
  OBVIOUS
<1>4. /\ f \in [0 .. n -> X] /\ g \in [0 .. m -> X]
      /\ \A i \in 1 .. n : ss[i] \in X
      /\ \A i \in 1 .. m : rs[i] \in X
  OBVIOUS
<1>5. \A a, b \in X : a \o b \in X /\ a \o <<>> = a /\ <<>> \o a = a
  OBVIOUS
<1>6. \A a, b, c \in X : (a \o b) \o c = a \o (b \o c)
  BY ConcatAssociative
<1> HIDE DEF n, m, all, X
<1>7. /\ f[0] = <<>> /\ g[0] = <<>>
      /\ \A i \in 1 .. n : f[i] = f[i - 1] \o ss[i]
      /\ \A i \in 1 .. m : g[i] = g[i - 1] \o rs[i]
  BY <1>1, <1>2 DEF n, m
<1>8. f[n] \in X /\ f[n] \o g[0] = f[n]
  BY <1>3, <1>4, <1>5, <1>7
<1>9. \A i \in 0 .. n : i \in 0 .. n + m /\ h[i] = f[i]
  <2> TAKE i \in 0 .. n
  <2>1. i \in 0 .. n + m
    BY <1>3
  <2>2. h[i] = IF i < n THEN f[i] ELSE f[n] \o g[i - n]
    BY <2>1
  <2>3. CASE i < n
    BY <2>1, <2>2, <2>3
  <2>4. CASE ~ (i < n)
    <3>1. i = n /\ i - n = 0
      BY <1>3, <2>4
    <3> HIDE DEF h
    <3> QED
      BY <1>8, <2>1, <2>2, <2>4, <3>1
  <2> QED
    BY <2>3, <2>4
<1>10. \A k \in 0 .. m : n + k \in 0 .. n + m /\ h[n + k] = f[n] \o g[k]
  <2> TAKE k \in 0 .. m
  <2>1. n + k \in 0 .. n + m /\ ~ (n + k < n) /\ (n + k) - n = k
    BY <1>3
  <2>2. h[n + k] = IF n + k < n THEN f[n + k] ELSE f[n] \o g[(n + k) - n]
    BY <2>1
  <2> HIDE DEF h
  <2> QED
    BY <2>1, <2>2
<1>11. h \in [0 .. n + m -> X] /\ h[0] = <<>> /\ h[n + m] = f[n] \o g[m]
  <2>1. \A i \in 0 .. n + m : h[i] \in X
    <3> TAKE i \in 0 .. n + m
    <3>1. i \in 0 .. n \/ \E k \in 0 .. m : i = n + k
      <4>1. i \in 0 .. n \/ (i - n \in 0 .. m /\ i = n + (i - n))
        BY <1>3
      <4> QED
        BY <4>1
    <3> HIDE DEF h
    <3>2. CASE i \in 0 .. n
      BY <1>4, <1>9, <3>2
    <3>3. ASSUME NEW k \in 0 .. m, i = n + k PROVE h[i] \in X
      <4>1. h[i] = f[n] \o g[k] /\ g[k] \in X
        BY <1>4, <1>10, <3>3
      <4> QED
        BY <1>5, <1>8, <4>1
    <3> QED
      BY <3>1, <3>2, <3>3
  <2>2. 0 \in 0 .. n /\ m \in 0 .. m
    BY <1>3
  <2>3. h = [i \in 0 .. n + m |-> h[i]]
    OBVIOUS
  <2> HIDE DEF h
  <2> QED
    BY <1>7, <1>9, <1>10, <2>1, <2>2, <2>3
<1>12. \A i \in 1 .. n + m : h[i] = h[i - 1] \o all[i]
  <2> TAKE i \in 1 .. n + m
  <2>1. CASE i <= n
    <3>1. i \in 0 .. n /\ i - 1 \in 0 .. n /\ i \in 1 .. n /\ all[i] = ss[i]
      BY <1>3, <2>1
    <3>2. h[i] = f[i] /\ h[i - 1] = f[i - 1] /\ f[i] = f[i - 1] \o ss[i]
      BY <1>7, <1>9, <3>1
    <3> QED
      BY <3>1, <3>2
  <2>2. CASE ~ (i <= n)
    <3> DEFINE k == i - n
    <3>1. /\ i = n + k /\ i - 1 = n + (k - 1)
          /\ k \in 1 .. m /\ k \in 0 .. m /\ k - 1 \in 0 .. m
          /\ all[i] = rs[k]
      BY <1>3, <2>2
    <3> HIDE DEF k, h
    <3>2. h[i] = f[n] \o g[k] /\ h[i - 1] = f[n] \o g[k - 1]
      BY <1>10, <3>1
    <3>3. g[k] = g[k - 1] \o rs[k] /\ g[k - 1] \in X /\ rs[k] \in X
      BY <1>4, <1>7, <3>1
    <3>4. (f[n] \o g[k - 1]) \o rs[k] = f[n] \o (g[k - 1] \o rs[k])
      BY <1>6, <1>8, <3>3
    <3> QED
      BY <3>1, <3>2, <3>3, <3>4, Zenon
  <2> QED
    BY <2>1, <2>2
<1> HIDE DEF h
<1>13. FlattenSeq(all) = h[n + m]
  BY <1>3, <1>11, <1>12, FlattenIsLast DEF X
<1> QED
  BY <1>1, <1>2, <1>11, <1>13 DEF n, m, all

LEMMA FlattenAppend ==
  ASSUME NEW S, NEW ss \in Seq(Seq(S)), NEW s \in Seq(S)
  PROVE  FlattenSeq(Append(ss, s)) = FlattenSeq(ss) \o s
<1>1. Append(ss, s) = ss \o <<s>> /\ <<s>> \in Seq(Seq(S))
  OBVIOUS
<1>2. FlattenSeq(<<s>>) = s
  BY FlattenOne
<1>3. FlattenSeq(ss \o <<s>>) = FlattenSeq(ss) \o FlattenSeq(<<s>>)
  BY <1>1, FlattenConcat
<1> QED
  BY <1>1, <1>2, <1>3

-----------------------------------------------------------------------------
(* What a text says, and texts whose characters are whole.                 *)

Strings == Seq(Bytes)

LEMMA LettersType == \A t \in Strings : Letters(t) \in Strings
<1> SUFFICES ASSUME NEW t \in Strings PROVE Letters(t) \in Strings
  OBVIOUS
<1> DEFINE each == [i \in DOMAIN t |-> IF t[i] = "n" THEN <<>> ELSE <<t[i]>>]
<1>1. \A i \in DOMAIN t : t[i] \in Bytes /\ <<t[i]>> \in Strings /\ <<>> \in Strings
  BY DEF Strings
<1>2. each \in Seq(Strings)
  <2>1. DOMAIN t = 1 .. Len(t) /\ Len(t) \in Nat
    BY DEF Strings
  <2> HIDE DEF Strings
  <2> QED
    BY <1>1, <2>1
<1> HIDE DEF each
<1>3. FlattenSeq(each) \in Strings
  BY <1>2, FlattenType DEF Strings
<1> QED
  BY <1>3 DEF Letters, each

LEMMA LettersConcat ==
  \A t, u \in Strings : Letters(t \o u) = Letters(t) \o Letters(u)
<1> SUFFICES ASSUME NEW t \in Strings, NEW u \in Strings
             PROVE  Letters(t \o u) = Letters(t) \o Letters(u)
  OBVIOUS
<1> DEFINE each(s) == [i \in DOMAIN s |-> IF s[i] = "n" THEN <<>> ELSE <<s[i]>>]
<1>1. ASSUME NEW s \in Strings
      PROVE  /\ each(s) \in Seq(Strings) /\ Len(each(s)) = Len(s)
             /\ \A i \in 1 .. Len(s) : each(s)[i] = IF s[i] = "n" THEN <<>> ELSE <<s[i]>>
  <2>1. DOMAIN s = 1 .. Len(s) /\ Len(s) \in Nat
    BY DEF Strings
  <2>2. \A i \in DOMAIN s : s[i] \in Bytes /\ <<s[i]>> \in Strings /\ <<>> \in Strings
    BY DEF Strings
  <2> HIDE DEF Strings
  <2> QED
    BY <2>1, <2>2
<1>2. /\ t \o u \in Strings /\ Len(t \o u) = Len(t) + Len(u)
      /\ \A i \in 1 .. Len(t) + Len(u) : (t \o u)[i] = IF i <= Len(t) THEN t[i] ELSE u[i - Len(t)]
      /\ Len(t) \in Nat /\ Len(u) \in Nat
  BY DEF Strings
<1> DEFINE all == t \o u
<1> HIDE DEF each, all
<1>3. /\ each(t) \o each(u) \in Seq(Strings) /\ Len(each(t) \o each(u)) = Len(t) + Len(u)
      /\ \A i \in 1 .. Len(t) + Len(u) :
           (each(t) \o each(u))[i] = IF i <= Len(t) THEN each(t)[i] ELSE each(u)[i - Len(t)]
  <2> DEFINE a == each(t)
             b == each(u)
  <2>1. a \in Seq(Strings) /\ b \in Seq(Strings) /\ Len(a) = Len(t) /\ Len(b) = Len(u)
    BY <1>1
  <2> HIDE DEF a, b
  <2>2. /\ a \o b \in Seq(Strings) /\ Len(a \o b) = Len(t) + Len(u)
        /\ \A i \in 1 .. Len(t) + Len(u) : (a \o b)[i] = IF i <= Len(t) THEN a[i] ELSE b[i - Len(t)]
    BY <2>1
  <2> QED
    BY <2>2 DEF a, b
<1>4. \A i \in 1 .. Len(t) + Len(u) : each(all)[i] = (each(t) \o each(u))[i]
  <2> TAKE i \in 1 .. Len(t) + Len(u)
  <2>1. each(all)[i] = IF all[i] = "n" THEN <<>> ELSE <<all[i]>>
    BY <1>1, <1>2 DEF all
  <2>2. CASE i <= Len(t)
    <3>1. i \in 1 .. Len(t) /\ all[i] = t[i]
      BY <1>2, <2>2 DEF all
    <3> QED
      BY <1>1, <1>3, <2>1, <2>2, <3>1
  <2>3. CASE ~ (i <= Len(t))
    <3>1. i - Len(t) \in 1 .. Len(u) /\ all[i] = u[i - Len(t)]
      BY <1>2, <2>3 DEF all
    <3> QED
      BY <1>1, <1>3, <2>1, <2>3, <3>1
  <2> QED
    BY <2>2, <2>3
<1>5. each(all) = each(t) \o each(u)
  <2>1. each(all) \in Seq(Strings) /\ Len(each(all)) = Len(t) + Len(u)
    BY <1>1, <1>2 DEF all
  <2> QED
    BY <1>3, <1>4, <2>1, SeqEqual
<1>6. FlattenSeq(each(t) \o each(u)) = FlattenSeq(each(t)) \o FlattenSeq(each(u))
  BY <1>1, FlattenConcat DEF Strings
<1> QED
  BY <1>5, <1>6 DEF Letters, each, all

\* Line breaks say nothing.
LEMMA LettersOfBreaks ==
  ASSUME NEW t \in Strings, \A i \in 1 .. Len(t) : t[i] = "n"
  PROVE  Letters(t) = <<>>
<1> DEFINE each == [i \in DOMAIN t |-> IF t[i] = "n" THEN <<>> ELSE <<t[i]>>]
           g == [i \in 0 .. Len(t) |-> <<>>]
<1>1. DOMAIN t = 1 .. Len(t) /\ Len(t) \in Nat /\ <<>> \in Strings
  BY DEF Strings
<1>2. each \in Seq(Strings) /\ Len(each) = Len(t) /\ \A i \in 1 .. Len(t) : each[i] = <<>>
  <2> HIDE DEF Strings
  <2>1. each = [i \in 1 .. Len(t) |-> <<>>]
    BY <1>1
  <2> QED
    BY <1>1, <2>1
<1>3. g \in [0 .. Len(t) -> Strings] /\ g[0] = <<>> /\ g[Len(t)] = <<>>
  <2> HIDE DEF Strings
  <2> QED
    BY <1>1
<1>4. \A i \in 1 .. Len(t) : g[i] = g[i - 1] \o each[i]
  <2> TAKE i \in 1 .. Len(t)
  <2>1. g[i] = <<>> /\ g[i - 1] = <<>> /\ each[i] = <<>> /\ <<>> \o <<>> = <<>>
    BY <1>1, <1>2
  <2> HIDE DEF g, each
  <2> QED
    BY <2>1
<1> HIDE DEF g, each
<1>5. FlattenSeq(each) = <<>>
  BY <1>2, <1>3, <1>4, FlattenIsLast DEF Strings
<1> QED
  BY <1>5 DEF Letters, each

LEMMA LettersOfNothing == Letters(<<>>) = <<>>
<1>1. <<>> \in Strings /\ \A i \in 1 .. Len(<<>>) : <<>>[i] = "n"
  BY DEF Strings
<1> QED
  BY <1>1, LettersOfBreaks

\* The bytes of t after the first p, up to the q-th.
LEMMA SliceIs ==
  ASSUME NEW t \in Strings, NEW p \in 0 .. Len(t), NEW q \in p .. Len(t)
  PROVE  /\ SubSeq(t, p + 1, q) \in Strings /\ Len(SubSeq(t, p + 1, q)) = q - p
         /\ \A i \in 1 .. q - p : SubSeq(t, p + 1, q)[i] = t[p + i]
<1> DEFINE u == SubSeq(t, p + 1, q)
<1>1. Len(t) \in Nat /\ \A i \in p + 1 .. q : t[i] \in Bytes
  BY DEF Strings
<1>2. /\ u \in Strings /\ Len(u) = q - p
      /\ \A i \in 1 .. q - (p + 1) + 1 : u[i] = t[p + 1 + i - 1]
  <2>1. /\ u \in Seq(Bytes)
        /\ Len(u) = IF p + 1 <= q THEN q - (p + 1) + 1 ELSE 0
        /\ \A i \in 1 .. q - (p + 1) + 1 : u[i] = t[p + 1 + i - 1]
    BY <1>1, SubSeqProperties
  <2> HIDE DEF u
  <2> QED
    BY <1>1, <2>1 DEF Strings
<1> HIDE DEF u
<1>3. \A i \in 1 .. q - p : u[i] = t[p + i]
  <2> TAKE i \in 1 .. q - p
  <2>1. i \in 1 .. q - (p + 1) + 1 /\ p + 1 + i - 1 = p + i
    BY <1>1
  <2> QED
    BY <1>2, <2>1
<1> QED
  BY <1>2, <1>3 DEF u

\* t is what is before such a place and what is after it.
LEMMA SlicesMeet ==
  ASSUME NEW t \in Strings, NEW p \in 0 .. Len(t), NEW q \in p .. Len(t), NEW r \in q .. Len(t)
  PROVE  SubSeq(t, p + 1, q) \o SubSeq(t, q + 1, r) = SubSeq(t, p + 1, r)
<1>1. p + 1 \in 1 .. Len(t) + 1 /\ q \in p + 1 - 1 .. Len(t)
  BY DEF Strings
<1> QED
  BY <1>1, ConcatAdjacentSubSeq DEF Strings

LEMMA SliceAll ==
  \A t \in Strings : SubSeq(t, 1, Len(t)) = t
  BY SubSeqFull DEF Strings

\* Where TrimRight ends.
LEMMA TrimRightIs ==
  ASSUME NEW t \in Strings
  PROVE  \E j \in 0 .. Len(t) :
           /\ TrimRight(t) = SubSeq(t, 1, j)
           /\ j > 0 => t[j] # "n"
           /\ \A i \in j + 1 .. Len(t) : t[i] = "n"
<1> DEFINE S == {0} \cup {i \in DOMAIN t : t[i] # "n"}
<1>1. DOMAIN t = 1 .. Len(t) /\ Len(t) \in Nat
  BY DEF Strings
<1>2. S \in SUBSET (0 .. Len(t)) /\ S # {}
  BY <1>1
<1>3. PICK p \in S : \A q \in S : q <= p
  BY <1>1, <1>2, BoundedHasGreatest
<1>4. Max(S) \in S /\ \A q \in S : q <= Max(S)
  BY <1>3 DEF Max
<1> DEFINE j == Max(S)
<1>5. j \in 0 .. Len(t) /\ TrimRight(t) = SubSeq(t, 1, j)
  BY <1>2, <1>4 DEF TrimRight
<1>6. j > 0 => t[j] # "n"
  BY <1>4
<1>7. \A i \in j + 1 .. Len(t) : t[i] = "n"
  <2> SUFFICES ASSUME NEW i \in j + 1 .. Len(t), t[i] # "n" PROVE FALSE
    OBVIOUS
  <2>1. i \in S /\ ~ (i <= j)
    BY <1>1, <1>5
  <2> QED
    BY <1>4, <2>1
<1> QED
  BY <1>5, <1>6, <1>7

\* What TrimRight takes away says nothing.
LEMMA LettersOfTrimmed ==
  ASSUME NEW t \in Strings
  PROVE  TrimRight(t) \in Strings /\ Letters(TrimRight(t)) = Letters(t)
<1>1. PICK j \in 0 .. Len(t) : /\ TrimRight(t) = SubSeq(t, 1, j)
                               /\ \A i \in j + 1 .. Len(t) : t[i] = "n"
  BY TrimRightIs
<1> DEFINE a == SubSeq(t, 1, j)
           b == SubSeq(t, j + 1, Len(t))
<1>2. 0 \in 0 .. Len(t) /\ j \in 0 .. Len(t) /\ Len(t) \in j .. Len(t) /\ 0 + 1 = 1
  BY DEF Strings
<1>3. a \in Strings /\ b \in Strings /\ a \o b = t
  BY <1>2, SliceIs, SlicesMeet, SliceAll
<1>4. \A i \in 1 .. Len(b) : b[i] = "n"
  <2>1. /\ Len(b) = Len(t) - j
        /\ \A i \in 1 .. Len(t) - j : b[i] = t[j + i] /\ j + i \in j + 1 .. Len(t)
    BY <1>2, SliceIs
  <2> HIDE DEF b
  <2> QED
    BY <1>1, <2>1
<1> HIDE DEF a, b
<1>5. Letters(t) = Letters(a) \o Letters(b)
  BY <1>3, LettersConcat
<1>6. Letters(b) = <<>> /\ Letters(a) \in Strings
  BY <1>3, <1>4, LettersOfBreaks, LettersType
<1>7. Letters(a) \o <<>> = Letters(a)
  BY <1>6, ConcatEmptySeq DEF Strings
<1> QED
  BY <1>1, <1>3, <1>5, <1>6, <1>7 DEF a

\* A place between two characters, or at an end.
Between(t, p) == p > 0 => t[p] # "s"

LEMMA BetweenThere ==
  ASSUME NEW t \in Strings, Whole(t), NEW p \in 0 .. Len(t), p < Len(t) => t[p + 1] # "c"
  PROVE  Between(t, p)
  BY DEF Whole, Between

\* What is from one such place to another has whole characters.
LEMMA SliceIsWhole ==
  ASSUME NEW t \in Strings, Whole(t), NEW p \in 0 .. Len(t), NEW q \in p .. Len(t),
         Between(t, p), Between(t, q)
  PROVE  Whole(SubSeq(t, p + 1, q))
<1> DEFINE u == SubSeq(t, p + 1, q)
<1>1. Len(t) \in Nat
  BY DEF Strings
<1>2. Len(u) = q - p
  BY SliceIs
<1>3. \A i \in 1 .. q - p : u[i] = t[p + i]
  BY SliceIs
<1> HIDE DEF u
<1>4. ASSUME NEW i \in 0 .. q - p PROVE (i > 0 /\ u[i] = "s") <=> (i < q - p /\ u[i + 1] = "c")
  <2>1. p + i \in 0 .. Len(t) /\ p + i >= 0 /\ (p + i) + 1 = p + (i + 1)
    BY <1>1
  <2>2. (p + i > 0 /\ t[p + i] = "s") <=> (p + i < Len(t) /\ t[(p + i) + 1] = "c")
    BY <2>1 DEF Whole
  <2>3. CASE i = 0
    <3>1. ~ (p + i > 0 /\ t[p + i] = "s")
      BY <2>3 DEF Between
    <3>2. i < q - p => u[i + 1] = t[(p + i) + 1] /\ p + i < Len(t)
      BY <1>1, <1>3, <2>1, <2>3
    <3> QED
      BY <2>2, <2>3, <3>1, <3>2
  <2>4. CASE i = q - p
    BY <1>3, <2>3, <2>4 DEF Between
  <2>5. CASE i # 0 /\ i # q - p
    <3>1. i \in 1 .. q - p /\ i + 1 \in 1 .. q - p /\ i > 0 /\ i < q - p /\ p + i > 0 /\ p + i < Len(t)
      BY <1>1, <2>5
    <3>2. u[i] = t[p + i] /\ u[i + 1] = t[(p + i) + 1]
      BY <1>3, <2>1, <3>1
    <3> QED
      BY <2>2, <3>1, <3>2
  <2> QED
    BY <2>3, <2>4, <2>5
<1> QED
  BY <1>2, <1>4 DEF Whole, u

\* A text of whole characters begins and ends between two.
LEMMA WholeEnds ==
  ASSUME NEW t \in Strings, Whole(t)
  PROVE  /\ Between(t, 0) /\ Between(t, Len(t))
         /\ t # <<>> => t[1] # "c" /\ t[Len(t)] # "s"
<1>1. Len(t) \in Nat /\ (t # <<>> => Len(t) > 0)
  BY DEF Strings
<1>2. /\ (0 > 0 /\ t[0] = "s") <=> (0 < Len(t) /\ t[0 + 1] = "c")
      /\ (Len(t) > 0 /\ t[Len(t)] = "s") <=> (Len(t) < Len(t) /\ t[Len(t) + 1] = "c")
  BY <1>1 DEF Whole
<1> QED
  BY <1>1, <1>2 DEF Between

LEMMA TrimmedIsWhole ==
  ASSUME NEW t \in Strings, Whole(t)
  PROVE  Whole(TrimRight(t))
<1>1. PICK j \in 0 .. Len(t) : /\ TrimRight(t) = SubSeq(t, 1, j)
                               /\ \A i \in j + 1 .. Len(t) : t[i] = "n"
  BY TrimRightIs
<1>2. Len(t) \in Nat /\ 0 \in 0 .. Len(t) /\ j \in 0 .. Len(t) /\ 0 + 1 = 1
  BY DEF Strings
<1>3. j < Len(t) => t[j + 1] # "c"
  <2>1. j < Len(t) => j + 1 \in j + 1 .. Len(t)
    BY <1>2
  <2> QED
    BY <1>1, <2>1
<1>4. Between(t, 0) /\ Between(t, j)
  BY <1>2, <1>3, BetweenThere, WholeEnds
<1>5. Whole(SubSeq(t, 0 + 1, j))
  BY <1>2, <1>4, SliceIsWhole
<1> QED
  BY <1>1, <1>2, <1>5

\* TrimRight takes a last line break away, and everything only of breaks.
LEMMA TrimmedLength ==
  ASSUME NEW t \in Strings, t # <<>>, t[Len(t)] = "n"
  PROVE  /\ Len(TrimRight(t)) <= Len(t) - 1
         /\ TrimRight(t) = <<>> => \A i \in 1 .. Len(t) : t[i] = "n"
<1>1. PICK j \in 0 .. Len(t) : /\ TrimRight(t) = SubSeq(t, 1, j)
                               /\ j > 0 => t[j] # "n"
                               /\ \A i \in j + 1 .. Len(t) : t[i] = "n"
  BY TrimRightIs
<1>2. Len(t) \in Nat /\ 0 \in 0 .. Len(t) /\ j \in 0 .. Len(t) /\ 0 + 1 = 1 /\ Len(t) > 0
  BY DEF Strings
<1>3. Len(TrimRight(t)) = j
  <2>1. Len(SubSeq(t, 0 + 1, j)) = j - 0
    BY <1>2, SliceIs
  <2> QED
    BY <1>1, <1>2, <2>1
<1>4. j # Len(t)
  BY <1>1, <1>2
<1>5. TrimRight(t) = <<>> => j = 0
  BY <1>3
<1> QED
  BY <1>1, <1>2, <1>3, <1>4, <1>5

-----------------------------------------------------------------------------
(* A line that is longer than a message.                                   *)

Fits(c) == Len(c) <= Limit /\ Whole(c)

\* Messages that are not empty and fit.
AllFit(cs) == \A i \in 1 .. Len(cs) : cs[i] # <<>> /\ Fits(cs[i])

LEMMA CutIs ==
  ASSUME NEW s \in Strings, s # <<>>
  PROVE  /\ Cut(s) \in 1 .. Len(s) /\ Cut(s) <= Limit
         /\ Whole(s) => Between(s, Cut(s))
<1> USE TelegramAssumption DEF TelegramAssumption
<1>1. Len(s) \in Nat /\ Len(s) > 0 /\ Limit \in Nat /\ Limit >= 2
  BY DEF Strings
<1>2. CASE Len(s) <= Limit
  BY <1>1, <1>2, WholeEnds DEF Cut
<1>3. CASE ~ (Len(s) <= Limit) /\ s[Limit + 1] = "c"
  <2>1. Cut(s) = Limit - 1 /\ Limit - 1 \in 0 .. Len(s) /\ Limit \in 0 .. Len(s) /\ (Limit - 1) + 1 = Limit
    BY <1>1, <1>3 DEF Cut
  <2>2. Whole(s) => s[Limit] = "s"
    BY <1>1, <1>3, <2>1 DEF Whole
  <2>3. Whole(s) => Between(s, Limit - 1)
    BY <2>1, <2>2, BetweenThere
  <2> QED
    BY <1>1, <1>3, <2>1, <2>3
<1>4. CASE ~ (Len(s) <= Limit) /\ s[Limit + 1] # "c"
  <2>1. Cut(s) = Limit /\ Limit \in 0 .. Len(s)
    BY <1>1, <1>4 DEF Cut
  <2>2. Whole(s) => Between(s, Limit)
    BY <1>4, <2>1, BetweenThere
  <2> QED
    BY <1>1, <1>4, <2>1, <2>2
<1> QED
  BY <1>2, <1>3, <1>4

\* What has been cut off, and what is left.
Cutting == [done : Seq(Strings), rest : Strings]

LEMMA CutOffIs ==
  ASSUME NEW acc \in Cutting, acc.rest # <<>>
  PROVE  LET c == SubSeq(acc.rest, 1, Cut(acc.rest))
             r == SubSeq(acc.rest, Cut(acc.rest) + 1, Len(acc.rest))
         IN  /\ CutOff(acc) = [done |-> Append(acc.done, c), rest |-> r]
             /\ CutOff(acc) \in Cutting
             /\ c \in Strings /\ r \in Strings /\ c \o r = acc.rest /\ c # <<>>
             /\ Len(c) <= Limit /\ Len(r) < Len(acc.rest)
             /\ Whole(acc.rest) => Whole(c) /\ Whole(r)
<1> DEFINE s == acc.rest
           n == Cut(s)
           c == SubSeq(s, 0 + 1, n)
           r == SubSeq(s, n + 1, Len(s))
<1>1. s \in Strings /\ s # <<>> /\ acc.done \in Seq(Strings)
  BY DEF Cutting
<1> HIDE DEF s
<1>2. n \in 1 .. Len(s) /\ n <= Limit /\ (Whole(s) => Between(s, n))
  BY <1>1, CutIs
<1> HIDE DEF n
<1>3. Len(s) \in Nat /\ 0 \in 0 .. Len(s) /\ n \in 0 .. Len(s) /\ Len(s) \in n .. Len(s)
  BY <1>1, <1>2 DEF Strings
<1>4. c \in Strings /\ Len(c) = n - 0 /\ r \in Strings /\ Len(r) = Len(s) - n
  BY <1>1, <1>3, SliceIs
<1>5. c \o r = s
  <2>1. c \o r = SubSeq(s, 0 + 1, Len(s))
    BY <1>1, <1>3, SlicesMeet
  <2>2. SubSeq(s, 0 + 1, Len(s)) = s
    BY <1>1, SliceAll
  <2> HIDE DEF c, r
  <2> QED
    BY <2>1, <2>2, Zenon
<1>6. Whole(s) => Whole(c) /\ Whole(r)
  <2> SUFFICES ASSUME Whole(s) PROVE Whole(c) /\ Whole(r)
    OBVIOUS
  <2>1. Between(s, 0) /\ Between(s, n) /\ Between(s, Len(s))
    BY <1>1, <1>2, WholeEnds
  <2> QED
    BY <1>1, <1>3, <2>1, SliceIsWhole
<1>7. c = SubSeq(s, 1, n)
  OBVIOUS
<1> HIDE DEF c, r
<1>8. c # <<>> /\ Len(c) <= Limit /\ Len(r) < Len(s)
  <2>1. c = <<>> => Len(c) = 0
    OBVIOUS
  <2> QED
    BY <1>2, <1>3, <1>4, <2>1
<1>9. CutOff(acc) = [done |-> Append(acc.done, c), rest |-> r]
  BY <1>1, <1>7 DEF CutOff, s, n, r
<1>10. [done |-> Append(acc.done, c), rest |-> r] \in Cutting
  BY <1>1, <1>4, AppendProperties DEF Cutting
<1> QED
  BY <1>4, <1>5, <1>6, <1>7, <1>8, <1>9, <1>10 DEF s, n, r

LEMMA CutOffType == \A acc \in Cutting : CutOff(acc) \in Cutting
<1> SUFFICES ASSUME NEW acc \in Cutting PROVE CutOff(acc) \in Cutting
  OBVIOUS
<1>1. CASE acc.rest = <<>>
  BY <1>1 DEF CutOff
<1>2. CASE acc.rest # <<>>
  BY <1>2, CutOffIs
<1> QED
  BY <1>1, <1>2

LEMMA PiecesAre ==
  ASSUME NEW s \in Strings
  PROVE  /\ Pieces(s)[0] = [done |-> <<>>, rest |-> s]
         /\ \A k \in 1 .. Len(s) : Pieces(s)[k] = CutOff(Pieces(s)[k - 1])
<1> DEFINE a == [done |-> <<>>, rest |-> s]
           h == [k \in 1 .. Len(s) |-> [acc \in Cutting |-> CutOff(acc)]]
           N == Len(s)
<1>1. N \in Nat /\ a \in Cutting /\ h \in [1 .. N -> [Cutting -> Cutting]]
  <2>1. \A acc \in Cutting : CutOff(acc) \in Cutting
    BY CutOffType
  <2>2. N \in Nat /\ a \in Cutting
    BY DEF Strings, Cutting
  <2> QED
    BY <2>1, <2>2
<1>2. PICK g \in [0 .. N -> Cutting] : Recursion(g, a, h, N)
  <2> HIDE DEF a, h, N
  <2> QED
    BY <1>1, RecursionHolds
<1>3. g[0] = a /\ \A k \in 1 .. N : g[k] = CutOff(g[k - 1])
  <2>1. g[0] = a /\ \A k \in 1 .. N : g[k] = h[k][g[k - 1]]
    BY <1>2 DEF Recursion
  <2>2. \A k \in 1 .. N : k - 1 \in 0 .. N /\ g[k - 1] \in Cutting
    <3> HIDE DEF a, h, N
    <3> QED
      BY <1>1, <1>2
  <2> QED
    BY <2>1, <2>2
<1> DEFINE Goes(f) == f = [k \in 0 .. N |-> IF k = 0 THEN a ELSE CutOff(f[k - 1])]
<1>4. Goes(g)
  <2> HIDE DEF a
  <2>1. \A k \in 0 .. N : g[k] = IF k = 0 THEN a ELSE CutOff(g[k - 1])
    BY <1>1, <1>3
  <2> QED
    BY <1>2, <2>1
<1>5. Goes(Pieces(s))
  BY <1>4 DEF Pieces
<1> HIDE DEF a
<1>6. \A k \in 0 .. N : Pieces(s)[k] = IF k = 0 THEN a ELSE CutOff(Pieces(s)[k - 1])
  BY <1>5
<1> QED
  BY <1>1, <1>6 DEF a

\* After k turns: nothing of s is lost, and less and less is left.
CuttingOf(s, k, acc) ==
  /\ acc \in Cutting
  /\ FlattenSeq(acc.done) \o acc.rest = s
  /\ AllFit(acc.done) /\ Whole(acc.rest)
  /\ acc.rest = <<>> \/ Len(acc.rest) + k <= Len(s)

LEMMA CuttingGoesOn ==
  ASSUME NEW s \in Strings, NEW k \in Nat, NEW acc, CuttingOf(s, k, acc)
  PROVE  CuttingOf(s, k + 1, CutOff(acc))
<1>1. /\ acc \in Cutting /\ FlattenSeq(acc.done) \o acc.rest = s
      /\ AllFit(acc.done) /\ Whole(acc.rest)
      /\ acc.rest = <<>> \/ Len(acc.rest) + k <= Len(s)
  BY DEF CuttingOf
<1>2. CASE acc.rest = <<>>
  BY <1>1, <1>2 DEF CuttingOf, CutOff
<1>3. CASE acc.rest # <<>>
  <2> DEFINE c == SubSeq(acc.rest, 1, Cut(acc.rest))
             r == SubSeq(acc.rest, Cut(acc.rest) + 1, Len(acc.rest))
  <2>1. /\ CutOff(acc) = [done |-> Append(acc.done, c), rest |-> r]
        /\ CutOff(acc) \in Cutting
        /\ c \in Strings /\ r \in Strings /\ c \o r = acc.rest /\ c # <<>>
        /\ Len(c) <= Limit /\ Len(r) < Len(acc.rest)
        /\ Whole(c) /\ Whole(r)
    BY <1>1, <1>3, CutOffIs
  <2> HIDE DEF c, r
  <2>2. acc.done \in Seq(Strings) /\ acc.rest \in Strings
    BY <1>1 DEF Cutting
  <2>3. FlattenSeq(Append(acc.done, c)) \o r = s
    <3>1. FlattenSeq(Append(acc.done, c)) = FlattenSeq(acc.done) \o c /\ FlattenSeq(acc.done) \in Strings
      BY <2>1, <2>2, FlattenAppend, FlattenType DEF Strings
    <3> DEFINE F == FlattenSeq(acc.done)
    <3> HIDE DEF F
    <3>2. (F \o c) \o r = F \o (c \o r)
      <4>1. F \in Seq(Bytes) /\ c \in Seq(Bytes) /\ r \in Seq(Bytes)
        BY <2>1, <3>1 DEF Strings, F
      <4> QED
        BY <4>1, ConcatAssociative
    <3> USE DEF F
    <3> QED
      BY <1>1, <2>1, <3>1, <3>2, Zenon
  <2>4. AllFit(Append(acc.done, c))
    <3>1. Fits(c)
      BY <2>1 DEF Fits
    <3>2. /\ Len(Append(acc.done, c)) = Len(acc.done) + 1 /\ Len(acc.done) \in Nat
          /\ \A i \in 1 .. Len(acc.done) : Append(acc.done, c)[i] = acc.done[i]
          /\ Append(acc.done, c)[Len(acc.done) + 1] = c
      BY <2>1, <2>2, AppendProperties
    <3> QED
      BY <1>1, <2>1, <3>1, <3>2 DEF AllFit
  <2>5. Len(r) + (k + 1) <= Len(s)
    BY <1>1, <1>3, <2>1, <2>2 DEF Strings
  <2> DEFINE next == CutOff(acc)
  <2>6. next \in Cutting /\ next.done = Append(acc.done, c) /\ next.rest = r
    BY <2>1
  <2> HIDE DEF next
  <2>7. CuttingOf(s, k + 1, next)
    BY <1>1, <2>1, <2>3, <2>4, <2>5, <2>6 DEF CuttingOf
  <2> QED
    BY <2>7 DEF next
<1> QED
  BY <1>2, <1>3

\* A long line is cut into messages that fit and are it, one after the other.
LEMMA SplitRunesIs ==
  ASSUME NEW s \in Strings, Whole(s)
  PROVE  SplitRunes(s) \in Seq(Strings) /\ FlattenSeq(SplitRunes(s)) = s /\ AllFit(SplitRunes(s))
<1> DEFINE S == {k \in 0 .. Len(s) : CuttingOf(s, k, Pieces(s)[k])}
<1>1. Len(s) \in Nat
  BY DEF Strings
<1>2. 0 \in S
  <2>1. <<>> \in Seq(Strings) /\ FlattenSeq(<<>>) = <<>> /\ <<>> \o s = s /\ AllFit(<<>>)
    BY FlattenNone DEF AllFit, Strings
  <2> DEFINE first == Pieces(s)[0]
  <2>2. first = [done |-> <<>>, rest |-> s]
    BY PiecesAre
  <2>3. first \in Cutting /\ first.done = <<>> /\ first.rest = s
    BY <2>1, <2>2 DEF Cutting
  <2> HIDE DEF first
  <2>4. CuttingOf(s, 0, first)
    <3>1. FlattenSeq(first.done) \o first.rest = s /\ AllFit(first.done) /\ Whole(first.rest)
      BY <2>1, <2>3, Zenon
    <3>2. Len(first.rest) + 0 <= Len(s)
      BY <1>1, <2>3
    <3> QED
      BY <2>3, <3>1, <3>2 DEF CuttingOf
  <2> QED
    BY <1>1, <2>4 DEF first
<1>3. \A k \in 1 .. Len(s) : k - 1 \in S => k \in S
  <2> SUFFICES ASSUME NEW k \in 1 .. Len(s), k - 1 \in S PROVE k \in S
    OBVIOUS
  <2>1. CuttingOf(s, k - 1, Pieces(s)[k - 1]) /\ k - 1 \in Nat /\ (k - 1) + 1 = k
    BY <1>1
  <2>2. CuttingOf(s, (k - 1) + 1, CutOff(Pieces(s)[k - 1]))
    BY <2>1, CuttingGoesOn
  <2>3. Pieces(s)[k] = CutOff(Pieces(s)[k - 1])
    BY PiecesAre
  <2>4. CuttingOf(s, k, Pieces(s)[k])
    BY <2>1, <2>2, <2>3
  <2> QED
    BY <1>1, <2>4
<1>4. Len(s) \in S
  <2>1. 0 .. Len(s) \subseteq S
    <3> HIDE DEF S
    <3> QED
      BY <1>1, <1>2, <1>3, StepByStep
  <2> QED
    BY <1>1, <2>1
<1> DEFINE acc == Pieces(s)[Len(s)]
<1>5. /\ acc \in Cutting /\ FlattenSeq(acc.done) \o acc.rest = s /\ AllFit(acc.done)
      /\ acc.rest = <<>> \/ Len(acc.rest) + Len(s) <= Len(s)
  BY <1>4 DEF CuttingOf
<1> HIDE DEF acc
<1>6. acc.done \in Seq(Strings) /\ acc.rest \in Strings
  BY <1>5 DEF Cutting
<1>7. acc.rest = <<>>
  BY <1>1, <1>5, <1>6 DEF Strings
<1>8. FlattenSeq(acc.done) \o <<>> = FlattenSeq(acc.done)
  BY <1>6, FlattenType, ConcatEmptySeq DEF Strings
<1> QED
  BY <1>5, <1>6, <1>7, <1>8 DEF SplitRunes, acc

LEMMA SplitRunesType ==
  ASSUME NEW s \in Strings
  PROVE  SplitRunes(s) \in Seq(Strings)
<1> DEFINE S == {k \in 0 .. Len(s) : Pieces(s)[k] \in Cutting}
<1>1. Len(s) \in Nat
  BY DEF Strings
<1>2. 0 \in S
  <2>1. [done |-> <<>>, rest |-> s] \in Cutting
    BY DEF Cutting
  <2> QED
    BY <1>1, <2>1, PiecesAre
<1>3. \A k \in 1 .. Len(s) : k - 1 \in S => k \in S
  <2> TAKE k \in 1 .. Len(s)
  <2>1. Pieces(s)[k] = CutOff(Pieces(s)[k - 1])
    BY PiecesAre
  <2>2. k \in 0 .. Len(s)
    BY <1>1
  <2> QED
    BY <2>1, <2>2, CutOffType
<1>4. 0 .. Len(s) \subseteq S
  <2> HIDE DEF S
  <2> QED
    BY <1>1, <1>2, <1>3, StepByStep
<1>5. Pieces(s)[Len(s)] \in Cutting
  BY <1>1, <1>4
<1> QED
  BY <1>5 DEF SplitRunes, Cutting

-----------------------------------------------------------------------------
(* Reading a text byte by byte.                                            *)

Reading == [done : Seq(Strings), current : Strings, line : Strings]

Long(acc) == Len(acc.line) > Limit
Full(acc) == acc.current # <<>> /\ Len(acc.current) + Len(acc.line) + 1 > Limit

\* What AddLine does, case by case.
LEMMA AddLineIs ==
  ASSUME NEW acc \in Reading
  PROVE  LET flushed == Flush(acc.done, acc.current) IN
         /\ Long(acc) => AddLine(acc) = [done |-> flushed \o SplitRunes(acc.line),
                                         current |-> <<>>, line |-> <<>>]
         /\ ~Long(acc) /\ Full(acc) => AddLine(acc) = [done |-> flushed,
                                         current |-> Append(acc.line, "n"), line |-> <<>>]
         /\ ~Long(acc) /\ ~Full(acc) => AddLine(acc) = [done |-> acc.done,
                                         current |-> Append(acc.current \o acc.line, "n"), line |-> <<>>]
<1>1. <<>> \o acc.line = acc.line
  BY DEF Reading, Strings
<1> QED
  BY <1>1, Zenon DEF AddLine, Long, Full

LEMMA FlushType ==
  ASSUME NEW done \in Seq(Strings), NEW current \in Strings
  PROVE  Flush(done, current) \in Seq(Strings)
<1>1. TrimRight(current) \in Strings
  BY LettersOfTrimmed
<1> QED
  BY <1>1, AppendProperties DEF Flush

LEMMA ReadType ==
  ASSUME NEW acc \in Reading, NEW b \in Bytes
  PROVE  Read(acc, b) \in Reading
<1>1. acc.done \in Seq(Strings) /\ acc.current \in Strings /\ acc.line \in Strings
  BY DEF Reading
<1>2. "n" \in Bytes /\ <<>> \in Strings
  BY DEF Bytes, Strings
<1>3. Append(acc.line, b) \in Strings /\ Append(acc.line, "n") \in Strings
      /\ Append(acc.current \o acc.line, "n") \in Strings
  BY <1>1, <1>2 DEF Strings
<1>4. Flush(acc.done, acc.current) \in Seq(Strings) /\ SplitRunes(acc.line) \in Seq(Strings)
  BY <1>1, FlushType, SplitRunesType
<1>5. Flush(acc.done, acc.current) \o SplitRunes(acc.line) \in Seq(Strings)
  BY <1>4, ConcatProperties
<1>6. CASE b # "n"
  <2>1. Read(acc, b) = [acc EXCEPT !.line = Append(acc.line, b)]
    BY <1>6 DEF Read
  <2> QED
    BY <1>3, <2>1 DEF Reading
<1>7. CASE b = "n"
  <2>1. Read(acc, b) = AddLine(acc)
    BY <1>7 DEF Read
  <2>2. \A done \in Seq(Strings), current, line \in Strings :
          [done |-> done, current |-> current, line |-> line] \in Reading
    BY DEF Reading
  <2> DEFINE flushed == Flush(acc.done, acc.current)
             runes == flushed \o SplitRunes(acc.line)
             begun == Append(acc.line, "n")
             longer == Append(acc.current \o acc.line, "n")
  <2>3. flushed \in Seq(Strings) /\ runes \in Seq(Strings) /\ begun \in Strings /\ longer \in Strings
    BY <1>3, <1>4, <1>5
  <2>4. \/ AddLine(acc) = [done |-> runes, current |-> <<>>, line |-> <<>>]
        \/ AddLine(acc) = [done |-> flushed, current |-> begun, line |-> <<>>]
        \/ AddLine(acc) = [done |-> acc.done, current |-> longer, line |-> <<>>]
    BY AddLineIs
  <2> HIDE DEF flushed, runes, begun, longer
  <2>5. AddLine(acc) \in Reading
    BY <1>1, <1>2, <2>2, <2>3, <2>4
  <2> QED
    BY <2>1, <2>5
<1> QED
  BY <1>6, <1>7

LEMMA ChunksAre ==
  ASSUME NEW t \in Strings
  PROVE  /\ Chunks(t)[0] = [done |-> <<>>, current |-> <<>>, line |-> <<>>]
         /\ \A n \in 1 .. Len(t) : Chunks(t)[n] = Read(Chunks(t)[n - 1], t[n])
<1> DEFINE a == [done |-> <<>>, current |-> <<>>, line |-> <<>>]
           h == [n \in 1 .. Len(t) |-> [acc \in Reading |-> Read(acc, t[n])]]
           N == Len(t)
<1>1. N \in Nat /\ a \in Reading /\ h \in [1 .. N -> [Reading -> Reading]]
  <2>1. \A n \in 1 .. N : t[n] \in Bytes
    BY DEF Strings
  <2>2. \A n \in 1 .. N : \A acc \in Reading : Read(acc, t[n]) \in Reading
    BY <2>1, ReadType
  <2>3. N \in Nat /\ a \in Reading
    BY DEF Strings, Reading
  <2> QED
    BY <2>2, <2>3
<1>2. PICK g \in [0 .. N -> Reading] : Recursion(g, a, h, N)
  <2> HIDE DEF a, h, N
  <2> QED
    BY <1>1, RecursionHolds
<1>3. g[0] = a /\ \A n \in 1 .. N : g[n] = Read(g[n - 1], t[n])
  <2>1. g[0] = a /\ \A n \in 1 .. N : g[n] = h[n][g[n - 1]]
    BY <1>2 DEF Recursion
  <2>2. \A n \in 1 .. N : n - 1 \in 0 .. N /\ g[n - 1] \in Reading
    <3> HIDE DEF a, h, N
    <3> QED
      BY <1>1, <1>2
  <2> QED
    BY <2>1, <2>2
<1> DEFINE Goes(f) == f = [n \in 0 .. N |-> IF n = 0 THEN a ELSE Read(f[n - 1], t[n])]
<1>4. Goes(g)
  <2> HIDE DEF a
  <2>1. \A n \in 0 .. N : g[n] = IF n = 0 THEN a ELSE Read(g[n - 1], t[n])
    BY <1>1, <1>3
  <2> QED
    BY <1>2, <2>1
<1>5. Goes(Chunks(t))
  BY <1>4 DEF Chunks
<1> HIDE DEF a
<1>6. \A n \in 0 .. N : Chunks(t)[n] = IF n = 0 THEN a ELSE Read(Chunks(t)[n - 1], t[n])
  BY <1>5
<1> QED
  BY <1>1, <1>6 DEF a

-----------------------------------------------------------------------------
(* What has been read is in the chunks that are done, or in hand.          *)

\* A written text that is longer than a message, with a newline at its end.
Ended(t) ==
  /\ t \in Strings /\ Whole(t) /\ Len(t) >= 2
  /\ t[1] # "n" /\ t[Len(t)] = "n" /\ t[Len(t) - 1] # "n"
  /\ \A i \in 1 .. Len(t) - 2 : t[i] = "n" /\ t[i + 1] = "n" => t[i + 2] # "n"

\* A place at which a line begins.
AtLine(t, p) == p > 0 => t[p] = "n"

\* One that fits, and is not empty but beside a line almost as long as a message.
Deliverable(t, c) == Fits(c) /\ (c = <<>> => HasLine(t, Limit - 1))

AllDeliverable(t, cs) == \A i \in 1 .. Len(cs) : Deliverable(t, cs[i])

\* The chunks say what the text does up to p.
SaysUpTo(t, p, cs) == cs \in Seq(Strings) /\ Letters(FlattenSeq(cs)) = Letters(SubSeq(t, 1, p))

\* After n bytes: up to p all is in chunks, from p to q in the current one, and
\* the rest in the line.
ReadUpTo(t, n, acc, p, q) ==
  /\ p \in 0 .. n /\ q \in p .. n /\ AtLine(t, p) /\ AtLine(t, q)
  /\ acc \in Reading
  /\ acc.current = SubSeq(t, p + 1, q) /\ q - p <= Limit + 1
  /\ acc.line = SubSeq(t, q + 1, n) /\ \A i \in q + 1 .. n : t[i] # "n"
  /\ SaysUpTo(t, p, acc.done) /\ AllDeliverable(t, acc.done)

LEMMA AppendDeliverable ==
  ASSUME NEW t, NEW cs \in Seq(Strings), NEW c \in Strings, AllDeliverable(t, cs), Deliverable(t, c)
  PROVE  AllDeliverable(t, Append(cs, c))
<1>1. /\ Len(Append(cs, c)) = Len(cs) + 1 /\ Len(cs) \in Nat
      /\ \A i \in 1 .. Len(cs) : Append(cs, c)[i] = cs[i]
      /\ Append(cs, c)[Len(cs) + 1] = c
  BY AppendProperties
<1> QED
  BY <1>1 DEF AllDeliverable

LEMMA ConcatDeliverable ==
  ASSUME NEW t, NEW cs \in Seq(Strings), NEW ds \in Seq(Strings),
         AllDeliverable(t, cs), AllDeliverable(t, ds)
  PROVE  AllDeliverable(t, cs \o ds)
<1>1. /\ Len(cs \o ds) = Len(cs) + Len(ds) /\ Len(cs) \in Nat /\ Len(ds) \in Nat
      /\ \A i \in 1 .. Len(cs) + Len(ds) : (cs \o ds)[i] = IF i <= Len(cs) THEN cs[i] ELSE ds[i - Len(cs)]
  OBVIOUS
<1> DEFINE all == cs \o ds
<1> HIDE DEF all
<1> SUFFICES ASSUME NEW i \in 1 .. Len(cs) + Len(ds) PROVE Deliverable(t, all[i])
  BY <1>1 DEF AllDeliverable, all
<1>2. CASE i <= Len(cs)
  BY <1>1, <1>2 DEF AllDeliverable, all
<1>3. CASE ~ (i <= Len(cs))
  <2>1. i - Len(cs) \in 1 .. Len(ds) /\ all[i] = ds[i - Len(cs)]
    BY <1>1, <1>3 DEF all
  <2> QED
    BY <2>1 DEF AllDeliverable
<1> QED
  BY <1>2, <1>3

\* A line without a break, as long as a message or one byte short of it.
LEMMA LongLine ==
  ASSUME NEW t \in Strings, NEW q \in 0 .. Len(t), NEW m \in q .. Len(t),
         m - q >= Limit - 1, \A i \in q + 1 .. m : t[i] # "n"
  PROVE  HasLine(t, Limit - 1)
<1> USE TelegramAssumption DEF TelegramAssumption
<1>1. Len(t) \in Nat
  BY DEF Strings
<1>2. q \in 0 .. Len(t) - (Limit - 1) /\ \A j \in q + 1 .. q + (Limit - 1) : j \in q + 1 .. m
  BY <1>1
<1> QED
  BY <1>2 DEF HasLine

\* Lines that are all blank are one line, and not the last.
LEMMA BlankIsOneLine ==
  ASSUME NEW t, Ended(t), NEW p \in 0 .. Len(t), NEW q \in p .. Len(t), p < q, AtLine(t, p),
         \A i \in p + 1 .. q : t[i] = "n"
  PROVE  q = p + 1 /\ q < Len(t)
<1>1. Len(t) \in Nat /\ t[1] # "n" /\ t[Len(t) - 1] # "n"
      /\ \A i \in 1 .. Len(t) - 2 : t[i] = "n" /\ t[i + 1] = "n" => t[i + 2] # "n"
  BY DEF Ended, Strings
<1>2. p > 0 /\ t[p] = "n" /\ p + 1 \in p + 1 .. q
  <2>1. p + 1 \in p + 1 .. q
    BY <1>1
  <2>2. p # 0
    BY <1>1, <2>1
  <2> QED
    BY <2>1, <2>2 DEF AtLine
<1>3. q = p + 1
  <2> SUFFICES ASSUME q # p + 1 PROVE FALSE
    OBVIOUS
  <2>1. p \in 1 .. Len(t) - 2 /\ p + 2 \in p + 1 .. q
    BY <1>1, <1>2
  <2> QED
    BY <1>1, <1>2, <2>1
<1>4. q # Len(t)
  BY <1>1, <1>2, <1>3
<1> QED
  BY <1>1, <1>3, <1>4

\* Flushing leaves nothing in hand up to q.
LEMMA FlushIs ==
  ASSUME NEW t, Ended(t), NEW p \in 0 .. Len(t), NEW q \in p .. Len(t), AtLine(t, p), AtLine(t, q),
         q - p <= Limit + 1, NEW done, SaysUpTo(t, p, done), AllDeliverable(t, done),
         p < q /\ (\A i \in p + 1 .. q : t[i] = "n") => HasLine(t, Limit - 1)
  PROVE  LET flushed == Flush(done, SubSeq(t, p + 1, q))
         IN  SaysUpTo(t, q, flushed) /\ AllDeliverable(t, flushed)
<1> USE TelegramAssumption DEF TelegramAssumption
<1> DEFINE current == SubSeq(t, p + 1, q)
           flushed == Flush(done, current)
<1>1. t \in Strings /\ Whole(t) /\ Len(t) \in Nat /\ done \in Seq(Strings)
      /\ Letters(FlattenSeq(done)) = Letters(SubSeq(t, 1, p))
  BY DEF Ended, Strings, SaysUpTo
<1>2. current \in Strings /\ Len(current) = q - p /\ \A i \in 1 .. q - p : current[i] = t[p + i]
  BY <1>1, SliceIs
<1>3. CASE p = q
  <2>1. current = <<>>
    BY <1>1, <1>2, <1>3 DEF Strings
  <2>2. flushed = done
    BY <2>1 DEF Flush
  <2> QED
    BY <1>3, <2>2 DEF SaysUpTo
<1>4. CASE p # q
  <2> DEFINE c == TrimRight(current)
  <2>1. p < q /\ q > 0 /\ q - p \in 1 .. q - p /\ t[q] = "n"
    BY <1>1, <1>4 DEF AtLine
  <2> HIDE DEF current
  <2>2. current # <<>> /\ current[Len(current)] = "n"
    <3>1. current[q - p] = t[p + (q - p)] /\ p + (q - p) = q
      BY <1>1, <1>2, <2>1
    <3>2. Len(<<>>) = 0
      OBVIOUS
    <3> QED
      BY <1>1, <1>2, <2>1, <3>1, <3>2
  <2>3. c \in Strings /\ Letters(c) = Letters(current)
    BY <1>2, LettersOfTrimmed
  <2>4. Len(c) <= Limit
    <3>1. Len(c) <= Len(current) - 1 /\ Len(c) \in Nat
      BY <1>2, <2>2, <2>3, TrimmedLength DEF Strings
    <3> QED
      BY <1>1, <1>2, <3>1
  <2>5. Whole(c)
    <3>1. Between(t, p) /\ Between(t, q)
      BY DEF AtLine, Between
    <3>2. Whole(current)
      BY <1>1, <3>1, SliceIsWhole DEF current
    <3> QED
      BY <1>2, <3>2, TrimmedIsWhole
  <2>6. c = <<>> => HasLine(t, Limit - 1)
    <3> SUFFICES ASSUME c = <<>> PROVE HasLine(t, Limit - 1)
      OBVIOUS
    <3>1. \A i \in 1 .. Len(current) : current[i] = "n"
      BY <1>2, <2>2, TrimmedLength
    <3>2. \A i \in p + 1 .. q : t[i] = "n"
      <4> TAKE i \in p + 1 .. q
      <4>1. i - p \in 1 .. q - p /\ p + (i - p) = i
        BY <1>1
      <4> QED
        BY <1>2, <3>1, <4>1
    <3> QED
      BY <2>1, <3>2
  <2>7. flushed = Append(done, c)
    BY <2>2 DEF Flush
  <2> HIDE DEF c
  <2>8. Letters(FlattenSeq(Append(done, c))) = Letters(SubSeq(t, 1, q))
    <3> DEFINE f == FlattenSeq(done)
               s == SubSeq(t, 1, p)
    <3>1. f \in Strings /\ FlattenSeq(Append(done, c)) = f \o c
      BY <1>1, <2>3, FlattenType, FlattenAppend DEF Strings
    <3>2. s \in Strings /\ s \o current = SubSeq(t, 1, q)
      <4>1. 0 \in 0 .. Len(t) /\ p \in 0 .. Len(t) /\ q \in p .. Len(t) /\ 0 + 1 = 1
        BY <1>1
      <4> QED
        BY <1>1, <4>1, SliceIs, SlicesMeet DEF current
    <3>3. Letters(f) = Letters(s)
      BY <1>1
    <3> HIDE DEF f, s
    <3>4. Letters(f \o c) = Letters(f) \o Letters(c) /\ Letters(s \o current) = Letters(s) \o Letters(current)
      BY <1>2, <2>3, <3>1, <3>2, LettersConcat
    <3> QED
      BY <2>3, <3>1, <3>2, <3>3, <3>4, Zenon
  <2>9. Append(done, c) \in Seq(Strings) /\ AllDeliverable(t, Append(done, c))
    <3>1. Deliverable(t, c)
      BY <2>4, <2>5, <2>6 DEF Deliverable, Fits
    <3> QED
      BY <1>1, <2>3, <3>1, AppendDeliverable, AppendProperties
  <2> QED
    BY <2>7, <2>8, <2>9 DEF SaysUpTo, current
<1> QED
  BY <1>3, <1>4

LEMMA SliceAppend ==
  ASSUME NEW t \in Strings, NEW n \in 1 .. Len(t), NEW p \in 0 .. n - 1
  PROVE  Append(SubSeq(t, p + 1, n - 1), t[n]) = SubSeq(t, p + 1, n)
<1>1. p + 1 \in 1 .. Len(t) /\ n \in p + 1 .. Len(t) /\ n - 1 \in p .. Len(t) /\ p \in 0 .. Len(t) /\ t[n] \in Bytes
  BY DEF Strings
<1>2. SubSeq(t, p + 1, n) = SubSeq(t, p + 1, n - 1) \o <<t[n]>>
  BY <1>1, SubSeqRecursiveSecond DEF Strings
<1>3. SubSeq(t, p + 1, n - 1) \in Strings
  BY <1>1, SliceIs
<1> QED
  BY <1>1, <1>2, <1>3, AppendIsConcat DEF Strings

\* A break says nothing.
LEMMA BreakSaysNothing ==
  ASSUME NEW t \in Strings, NEW n \in 1 .. Len(t), t[n] = "n"
  PROVE  Letters(SubSeq(t, 1, n)) = Letters(SubSeq(t, 1, n - 1))
<1> DEFINE s == SubSeq(t, 1, n - 1)
<1>1. 0 \in 0 .. Len(t) /\ 0 \in 0 .. n - 1 /\ n - 1 \in 0 .. Len(t) /\ 0 + 1 = 1
  BY DEF Strings
<1>2. s \in Strings
  BY <1>1, SliceIs
<1>3. SubSeq(t, 1, n) = Append(s, "n")
  BY <1>1, SliceAppend
<1> HIDE DEF s
<1>4. <<"n">> \in Strings /\ Append(s, "n") = s \o <<"n">> /\ \A i \in 1 .. Len(<<"n">>) : <<"n">>[i] = "n"
  BY <1>2 DEF Strings, Bytes
<1>5. Letters(s \o <<"n">>) = Letters(s) \o Letters(<<"n">>) /\ Letters(<<"n">>) = <<>>
  BY <1>2, <1>4, LettersConcat, LettersOfBreaks
<1>6. Letters(s) \o <<>> = Letters(s)
  BY <1>2, LettersType, ConcatEmptySeq DEF Strings
<1> QED
  BY <1>3, <1>4, <1>5, <1>6 DEF s

LEMMA NothingBetween == \A t \in Strings, n \in Nat : SubSeq(t, n + 1, n) = <<>>
<1> TAKE t \in Strings, n \in Nat
<1>1. n + 1 \in Int /\ n \in Int /\ n < n + 1
  OBVIOUS
<1> QED
  BY <1>1, SubSeqEmpty

\* Another byte of a line.
LEMMA ReadLetter ==
  ASSUME NEW t, Ended(t), NEW n \in 1 .. Len(t), NEW acc, NEW p, NEW q,
         ReadUpTo(t, n - 1, acc, p, q), t[n] # "n"
  PROVE  ReadUpTo(t, n, Read(acc, t[n]), p, q)
<1>1. t \in Strings /\ Len(t) \in Nat /\ t[n] \in Bytes
  BY DEF Ended, Strings
<1> DEFINE next == Read(acc, t[n])
<1>2. next = [acc EXCEPT !.line = Append(acc.line, t[n])]
  BY DEF Read
<1>3. /\ p \in 0 .. n - 1 /\ q \in p .. n - 1 /\ AtLine(t, p) /\ AtLine(t, q)
      /\ acc \in Reading /\ acc.current = SubSeq(t, p + 1, q) /\ q - p <= Limit + 1
      /\ acc.line = SubSeq(t, q + 1, n - 1) /\ \A i \in q + 1 .. n - 1 : t[i] # "n"
      /\ SaysUpTo(t, p, acc.done) /\ AllDeliverable(t, acc.done)
  BY DEF ReadUpTo
<1>4. next \in Reading
  BY <1>1, <1>3, ReadType
<1>5. next.done = acc.done /\ next.current = acc.current /\ next.line = Append(acc.line, t[n])
  BY <1>2, <1>3 DEF Reading
<1>6. q \in 0 .. n - 1 /\ p \in 0 .. n /\ q \in p .. n
  BY <1>1, <1>3
<1>7. next.line = SubSeq(t, q + 1, n)
  BY <1>1, <1>3, <1>5, <1>6, SliceAppend
<1>8. \A i \in q + 1 .. n : t[i] # "n"
  <2> TAKE i \in q + 1 .. n
  <2>1. i = n \/ i \in q + 1 .. n - 1
    BY <1>1, <1>6
  <2> QED
    BY <1>3, <2>1
<1> HIDE DEF next
<1>9. ReadUpTo(t, n, next, p, q)
  BY <1>3, <1>4, <1>5, <1>6, <1>7, <1>8 DEF ReadUpTo
<1> QED
  BY <1>9 DEF next

\* The end of a line.
LEMMA ReadBreak ==
  ASSUME NEW t, Ended(t), NEW n \in 1 .. Len(t), NEW acc, NEW p, NEW q,
         ReadUpTo(t, n - 1, acc, p, q), t[n] = "n"
  PROVE  \E r, s : ReadUpTo(t, n, Read(acc, t[n]), r, s)
<1> USE TelegramAssumption DEF TelegramAssumption
<1>1. t \in Strings /\ Whole(t) /\ Len(t) \in Nat /\ t[n] \in Bytes
  BY DEF Ended, Strings
<1>2. Read(acc, t[n]) = AddLine(acc) /\ AddLine(acc) \in Reading
  <2>1. Read(acc, t[n]) = AddLine(acc) /\ acc \in Reading
    BY DEF Read, ReadUpTo
  <2>2. Read(acc, t[n]) \in Reading
    BY <1>1, <2>1, ReadType
  <2> QED
    BY <2>1, <2>2
<1>3. /\ p \in 0 .. n - 1 /\ q \in p .. n - 1 /\ AtLine(t, p) /\ AtLine(t, q)
      /\ acc \in Reading /\ acc.current = SubSeq(t, p + 1, q) /\ q - p <= Limit + 1
      /\ acc.line = SubSeq(t, q + 1, n - 1) /\ \A i \in q + 1 .. n - 1 : t[i] # "n"
      /\ SaysUpTo(t, p, acc.done) /\ AllDeliverable(t, acc.done)
  BY DEF ReadUpTo
<1>4. /\ p \in 0 .. Len(t) /\ q \in p .. Len(t) /\ q \in 0 .. Len(t) /\ n - 1 \in q .. Len(t)
      /\ q \in 0 .. n - 1 /\ n \in 0 .. Len(t) /\ n \in Nat /\ n - 1 \in 0 .. Len(t)
  BY <1>1, <1>3
<1>5. /\ acc.current \in Strings /\ Len(acc.current) = q - p
      /\ acc.line \in Strings /\ Len(acc.line) = (n - 1) - q
  BY <1>1, <1>3, <1>4, SliceIs
<1>6. AtLine(t, n) /\ SubSeq(t, n + 1, n) = <<>> /\ \A i \in n + 1 .. n : t[i] # "n"
  BY <1>1, <1>4, NothingBetween DEF AtLine
<1>7. Append(acc.line, "n") = SubSeq(t, q + 1, n)
  BY <1>1, <1>3, <1>4, SliceAppend
<1> DEFINE flushed == Flush(acc.done, acc.current)
<1>8. ASSUME Long(acc) \/ Full(acc)
      PROVE  SaysUpTo(t, q, flushed) /\ AllDeliverable(t, flushed)
  <2>1. ASSUME p < q, \A i \in p + 1 .. q : t[i] = "n" PROVE HasLine(t, Limit - 1)
    <3>1. q = p + 1
      BY <1>3, <1>4, <2>1, BlankIsOneLine
    <3>2. (n - 1) - q >= Limit - 1
      <4>1. CASE Long(acc)
        BY <1>4, <1>5, <4>1 DEF Long
      <4>2. CASE Full(acc)
        <5>1. Len(acc.current) + Len(acc.line) + 1 > Limit
          BY <4>2 DEF Full
        <5> QED
          BY <1>1, <1>3, <1>4, <1>5, <3>1, <5>1
      <4> QED
        BY <1>8, <4>1, <4>2
    <3> QED
      BY <1>1, <1>3, <1>4, <3>2, LongLine
  <2> QED
    BY <1>3, <1>4, <2>1, FlushIs
<1> HIDE DEF flushed
<1> DEFINE next == AddLine(acc)
<1>9. CASE Long(acc)
  <2> DEFINE runes == SplitRunes(acc.line)
  <2>1. next = [done |-> flushed \o runes, current |-> <<>>, line |-> <<>>]
    BY <1>3, <1>9, AddLineIs DEF flushed
  <2>2. Whole(acc.line)
    <3>1. n - 1 < Len(t) => t[(n - 1) + 1] # "c"
      BY <1>4
    <3>2. Between(t, q) /\ Between(t, n - 1)
      BY <1>1, <1>3, <1>4, <3>1, BetweenThere DEF AtLine, Between
    <3> QED
      BY <1>1, <1>3, <1>4, <3>2, SliceIsWhole
  <2>3. runes \in Seq(Strings) /\ FlattenSeq(runes) = acc.line /\ AllFit(runes)
    BY <1>5, <2>2, SplitRunesIs
  <2>4. AllDeliverable(t, runes)
    BY <2>3 DEF AllFit, AllDeliverable, Deliverable
  <2> HIDE DEF runes
  <2>5. flushed \in Seq(Strings) /\ Letters(FlattenSeq(flushed)) = Letters(SubSeq(t, 1, q))
        /\ AllDeliverable(t, flushed)
    BY <1>8, <1>9 DEF SaysUpTo
  <2>6. flushed \o runes \in Seq(Strings) /\ AllDeliverable(t, flushed \o runes)
    BY <2>3, <2>4, <2>5, ConcatDeliverable, ConcatProperties
  <2>7. Letters(FlattenSeq(flushed \o runes)) = Letters(SubSeq(t, 1, n))
    <3> DEFINE f == FlattenSeq(flushed)
               s == SubSeq(t, 1, q)
               l == acc.line
    <3>1. f \in Strings /\ FlattenSeq(flushed \o runes) = f \o l
      BY <2>3, <2>5, FlattenType, FlattenConcat DEF Strings
    <3>2. s \in Strings /\ s \o l = SubSeq(t, 1, n - 1)
      <4>1. 0 \in 0 .. Len(t) /\ q \in 0 .. Len(t) /\ n - 1 \in q .. Len(t) /\ 0 + 1 = 1
        BY <1>1, <1>4
      <4>2. SubSeq(t, 0 + 1, q) \o SubSeq(t, q + 1, n - 1) = SubSeq(t, 0 + 1, n - 1)
        BY <1>1, <4>1, SlicesMeet
      <4>3. SubSeq(t, 0 + 1, q) \in Strings
        BY <1>1, <4>1, SliceIs
      <4> QED
        BY <1>3, <4>1, <4>2, <4>3
    <3>3. Letters(f) = Letters(s)
      BY <2>5
    <3>4. l \in Strings
      BY <1>5
    <3> HIDE DEF f, s, l
    <3>5. Letters(f \o l) = Letters(f) \o Letters(l) /\ Letters(s \o l) = Letters(s) \o Letters(l)
      BY <3>1, <3>2, <3>4, LettersConcat
    <3>6. Letters(FlattenSeq(flushed \o runes)) = Letters(SubSeq(t, 1, n - 1))
      BY <3>1, <3>2, <3>3, <3>5, Zenon
    <3> QED
      BY <1>1, <3>6, BreakSaysNothing
  <2>8. next.done = flushed \o runes /\ next.current = <<>> /\ next.line = <<>> /\ next \in Reading
    BY <1>2, <2>1
  <2> HIDE DEF next
  <2>9. ReadUpTo(t, n, next, n, n)
    <3>1. n \in 0 .. n /\ n \in n .. n /\ n - n <= Limit + 1
      BY <1>4
    <3>2. SaysUpTo(t, n, next.done) /\ AllDeliverable(t, next.done)
      BY <2>6, <2>7, <2>8 DEF SaysUpTo
    <3> QED
      BY <1>6, <2>8, <3>1, <3>2 DEF ReadUpTo
  <2> QED
    BY <1>2, <2>9 DEF next
<1>10. CASE ~Long(acc) /\ Full(acc)
  <2>1. next = [done |-> flushed, current |-> Append(acc.line, "n"), line |-> <<>>]
    BY <1>3, <1>10, AddLineIs DEF flushed
  <2> HIDE DEF next
  <2>2. next.done = flushed /\ next.current = SubSeq(t, q + 1, n) /\ next.line = <<>> /\ next \in Reading
    <3>1. next.done = flushed /\ next.current = Append(acc.line, "n") /\ next.line = <<>>
      BY <2>1
    <3> QED
      BY <1>2, <1>7, <3>1 DEF next
  <2>3. q \in 0 .. n /\ n \in q .. n /\ n - q <= Limit + 1
    BY <1>4, <1>5, <1>10 DEF Long
  <2>4. ReadUpTo(t, n, next, q, n)
    BY <1>3, <1>6, <1>8, <1>10, <2>2, <2>3 DEF ReadUpTo
  <2> QED
    BY <1>2, <2>4 DEF next
<1>11. CASE ~Long(acc) /\ ~Full(acc)
  <2>1. next = [done |-> acc.done, current |-> Append(acc.current \o acc.line, "n"), line |-> <<>>]
    BY <1>3, <1>11, AddLineIs
  <2>2. acc.current \o acc.line = SubSeq(t, p + 1, n - 1)
    BY <1>1, <1>3, <1>4, SlicesMeet
  <2>3. Append(SubSeq(t, p + 1, n - 1), "n") = SubSeq(t, p + 1, n)
    BY <1>1, <1>3, SliceAppend
  <2> HIDE DEF next
  <2>4. next.done = acc.done /\ next.current = SubSeq(t, p + 1, n) /\ next.line = <<>> /\ next \in Reading
    <3>1. next.done = acc.done /\ next.current = Append(acc.current \o acc.line, "n") /\ next.line = <<>>
      BY <2>1
    <3> QED
      BY <1>2, <2>2, <2>3, <3>1, Zenon DEF next
  <2>5. p \in 0 .. n /\ n \in p .. n
    BY <1>3, <1>4
  <2>6. n - p <= Limit + 1
    <3>1. CASE acc.current = <<>>
      <4>1. Len(acc.current) = 0
        BY <3>1
      <4> QED
        BY <1>3, <1>4, <1>5, <1>11, <4>1 DEF Long
    <3>2. CASE acc.current # <<>>
      <4>1. ~ (Len(acc.current) + Len(acc.line) + 1 > Limit)
        BY <1>11, <3>2 DEF Full
      <4> QED
        BY <1>1, <1>3, <1>4, <1>5, <4>1
    <3> QED
      BY <3>1, <3>2
  <2>7. ReadUpTo(t, n, next, p, n)
    BY <1>3, <1>6, <2>4, <2>5, <2>6 DEF ReadUpTo
  <2> QED
    BY <1>2, <2>7 DEF next
<1> QED
  BY <1>9, <1>10, <1>11

\* A long text, as splitMessage reads it.
LEMMA EndedIs ==
  ASSUME NEW t \in Strings, Written(t), Len(t) > Limit
  PROVE  /\ Ended(Append(t, "n"))
         /\ Letters(Append(t, "n")) = Letters(t)
         /\ HasLine(Append(t, "n"), Limit - 1) => HasLine(t, Limit - 1)
<1> USE TelegramAssumption DEF TelegramAssumption
<1> DEFINE e == Append(t, "n")
           L == Len(t)
<1>1. L \in Nat /\ L > Limit /\ "n" \in Bytes
  BY DEF Strings, Bytes
<1>2. /\ e \in Strings /\ Len(e) = L + 1 /\ e[L + 1] = "n"
      /\ \A i \in 1 .. L : e[i] = t[i]
  BY <1>1, AppendProperties DEF Strings
<1>3. /\ Whole(t) /\ t[1] # "n" /\ t[L] # "n"
      /\ \A i \in 1 .. L - 2 : t[i] = "n" /\ t[i + 1] = "n" => t[i + 2] # "n"
  BY DEF Written
<1>4. e = t \o <<"n">> /\ <<"n">> \in Strings /\ \A i \in 1 .. Len(<<"n">>) : <<"n">>[i] = "n"
  BY <1>1 DEF Strings
<1> HIDE DEF e, L
<1>5. Whole(e)
  <2>1. ASSUME NEW i \in 0 .. L + 1 PROVE (i > 0 /\ e[i] = "s") <=> (i < L + 1 /\ e[i + 1] = "c")
    <3>1. CASE i < L
      <4>1. i \in 0 .. L /\ i + 1 \in 1 .. L /\ (i > 0 => i \in 1 .. L)
        BY <1>1, <3>1
      <4>2. (i > 0 /\ t[i] = "s") <=> (i < L /\ t[i + 1] = "c")
        BY <1>3, <4>1 DEF Whole, L
      <4> QED
        BY <1>1, <1>2, <3>1, <4>1, <4>2
    <3>2. CASE i = L
      <4>1. L \in 0 .. L /\ L \in 1 .. L /\ L > 0
        BY <1>1
      <4>2. (L > 0 /\ t[L] = "s") <=> (L < L /\ t[L + 1] = "c")
        BY <1>3, <4>1 DEF Whole, L
      <4> QED
        BY <1>1, <1>2, <3>2, <4>1, <4>2
    <3>3. CASE i = L + 1
      BY <1>1, <1>2, <3>3
    <3> QED
      BY <1>1, <3>1, <3>2, <3>3
  <2> QED
    BY <1>2, <2>1 DEF Whole
<1>6. Ended(e)
  <2>1. 1 \in 1 .. L /\ L \in 1 .. L /\ (L + 1) - 1 = L /\ L + 1 >= 2
    BY <1>1
  <2>2. \A i \in 1 .. (L + 1) - 2 : e[i] = "n" /\ e[i + 1] = "n" => e[i + 2] # "n"
    <3> TAKE i \in 1 .. (L + 1) - 2
    <3>1. CASE i + 2 = L + 1
      <4>1. i + 1 = L
        BY <1>1, <3>1
      <4> QED
        BY <1>2, <1>3, <2>1, <4>1
    <3>2. CASE i + 2 # L + 1
      <4>1. i \in 1 .. L - 2 /\ i \in 1 .. L /\ i + 1 \in 1 .. L /\ i + 2 \in 1 .. L
        BY <1>1, <3>2
      <4> QED
        BY <1>2, <1>3, <4>1
    <3> QED
      BY <3>1, <3>2
  <2> QED
    BY <1>2, <1>3, <1>5, <2>1, <2>2 DEF Ended
<1>7. Letters(e) = Letters(t)
  <2>1. Letters(t \o <<"n">>) = Letters(t) \o Letters(<<"n">>) /\ Letters(<<"n">>) = <<>>
    BY <1>4, LettersConcat, LettersOfBreaks
  <2>2. Letters(t) \o <<>> = Letters(t)
    BY LettersType, ConcatEmptySeq DEF Strings
  <2> QED
    BY <1>4, <2>1, <2>2
<1>8. ASSUME HasLine(e, Limit - 1) PROVE HasLine(t, Limit - 1)
  <2>1. PICK i \in 0 .. (L + 1) - (Limit - 1) : \A j \in i + 1 .. i + (Limit - 1) : e[j] # "n"
    BY <1>2, <1>8 DEF HasLine
  <2>2. i # (L + 1) - (Limit - 1)
    <3> SUFFICES ASSUME i = (L + 1) - (Limit - 1) PROVE FALSE
      OBVIOUS
    <3>1. L + 1 \in i + 1 .. i + (Limit - 1)
      BY <1>1
    <3> QED
      BY <1>2, <2>1, <3>1
  <2>3. i \in 0 .. L - (Limit - 1) /\ \A j \in i + 1 .. i + (Limit - 1) : j \in 1 .. L
    BY <1>1, <2>2
  <2>4. \A j \in i + 1 .. i + (Limit - 1) : t[j] # "n"
    BY <1>2, <2>1, <2>3
  <2> QED
    BY <2>3, <2>4 DEF HasLine, L
<1> QED
  BY <1>6, <1>7, <1>8 DEF e

\* Whatever the text and the limit, its messages say all of it in its order,
\* and each can be delivered, unless the text has a line as long as a message,
\* less one byte: then one may be of nothing (splitMessage).
THEOREM MessagesSayTheText ==
  ASSUME NEW t \in Strings, Written(t)
  PROVE  /\ SplitMessage(t) \in Seq(Strings)
         /\ Letters(FlattenSeq(SplitMessage(t))) = Letters(t)
         /\ AllDeliverable(t, SplitMessage(t))
<1> USE TelegramAssumption DEF TelegramAssumption
<1>1. CASE Len(t) <= Limit
  <2>1. SplitMessage(t) = <<t>> /\ <<t>> \in Seq(Strings) /\ Len(<<t>>) = 1 /\ <<t>>[1] = t
    BY <1>1 DEF SplitMessage
  <2>2. FlattenSeq(<<t>>) = t
    BY FlattenOne DEF Strings
  <2>3. Deliverable(t, t)
    BY <1>1 DEF Deliverable, Fits, Written
  <2>4. AllDeliverable(t, <<t>>)
    BY <2>1, <2>3 DEF AllDeliverable
  <2> QED
    BY <2>1, <2>2, <2>4
<1>2. CASE ~ (Len(t) <= Limit)
  <2> DEFINE e == Append(t, "n")
             S == {n \in 0 .. Len(e) : \E p, q : ReadUpTo(e, n, Chunks(e)[n], p, q)}
             acc == Chunks(e)[Len(e)]
  <2>1. Len(t) \in Nat /\ Len(t) > Limit
    BY <1>2 DEF Strings
  <2>2. Ended(e) /\ Letters(e) = Letters(t) /\ (HasLine(e, Limit - 1) => HasLine(t, Limit - 1))
    BY <2>1, EndedIs
  <2>3. e \in Strings /\ Len(e) \in Nat /\ Len(e) = Len(t) + 1
    BY <2>2 DEF Ended, Strings
  <2> HIDE DEF e
  <2>4. 0 \in S
    <3> DEFINE first == Chunks(e)[0]
    <3>1. first = [done |-> <<>>, current |-> <<>>, line |-> <<>>]
      BY <2>3, ChunksAre
    <3>2. /\ first.done = <<>> /\ first.current = <<>> /\ first.line = <<>>
          /\ first \in Reading
      BY <3>1 DEF Reading, Strings
    <3> HIDE DEF first
    <3>3. SubSeq(e, 0 + 1, 0) = <<>> /\ SubSeq(e, 1, 0) = <<>>
      BY SubSeqEmpty
    <3>4. SaysUpTo(e, 0, first.done) /\ AllDeliverable(e, first.done)
      <4>1. first.done \in Seq(Strings) /\ Len(first.done) = 0
        BY <3>2
      <4>2. FlattenSeq(first.done) = SubSeq(e, 1, 0)
        BY <3>2, <3>3, FlattenNone
      <4> QED
        BY <4>1, <4>2 DEF SaysUpTo, AllDeliverable
    <3>5. ReadUpTo(e, 0, first, 0, 0)
      BY <3>2, <3>3, <3>4 DEF ReadUpTo, AtLine
    <3> QED
      BY <2>3, <3>5 DEF first
  <2>5. \A n \in 1 .. Len(e) : n - 1 \in S => n \in S
    <3> SUFFICES ASSUME NEW n \in 1 .. Len(e), n - 1 \in S PROVE n \in S
      OBVIOUS
    <3>1. PICK p, q : ReadUpTo(e, n - 1, Chunks(e)[n - 1], p, q)
      OBVIOUS
    <3>2. \E r, s : ReadUpTo(e, n, Read(Chunks(e)[n - 1], e[n]), r, s)
      <4>1. CASE e[n] = "n"
        BY <2>2, <3>1, <4>1, ReadBreak
      <4>2. CASE e[n] # "n"
        BY <2>2, <3>1, <4>2, ReadLetter
      <4> QED
        BY <4>1, <4>2
    <3>3. Chunks(e)[n] = Read(Chunks(e)[n - 1], e[n])
      BY <2>3, ChunksAre
    <3>4. n \in 0 .. Len(e)
      BY <2>3
    <3> QED
      BY <3>2, <3>3, <3>4
  <2>6. PICK p, q : ReadUpTo(e, Len(e), acc, p, q)
    <3>1. 0 .. Len(e) \subseteq S
      <4> HIDE DEF S
      <4> QED
        BY <2>3, <2>4, <2>5, StepByStep
    <3> QED
      BY <2>3, <3>1
  <2> HIDE DEF acc
  <2>7. /\ p \in 0 .. Len(e) /\ q \in p .. Len(e) /\ AtLine(e, p) /\ AtLine(e, q)
        /\ acc.current = SubSeq(e, p + 1, q) /\ q - p <= Limit + 1
        /\ \A i \in q + 1 .. Len(e) : e[i] # "n"
        /\ SaysUpTo(e, p, acc.done) /\ AllDeliverable(e, acc.done)
    BY <2>6 DEF ReadUpTo
  <2>8. q = Len(e)
    <3>1. e[Len(e)] = "n" /\ (q # Len(e) => Len(e) \in q + 1 .. Len(e))
      BY <2>2, <2>3, <2>7 DEF Ended
    <3> QED
      BY <2>7, <3>1
  <2> DEFINE flushed == Flush(acc.done, acc.current)
  <2>9. SaysUpTo(e, q, flushed) /\ AllDeliverable(e, flushed)
    <3>1. p < q /\ (\A i \in p + 1 .. q : e[i] = "n") => HasLine(e, Limit - 1)
      BY <2>2, <2>3, <2>7, <2>8, BlankIsOneLine
    <3> QED
      BY <2>2, <2>7, <3>1, FlushIs
  <2>10. SplitMessage(t) = flushed
    BY <1>2, <2>3 DEF SplitMessage, e, acc
  <2> HIDE DEF flushed
  <2>11. flushed \in Seq(Strings) /\ Letters(FlattenSeq(flushed)) = Letters(t)
    <3>1. SubSeq(e, 1, Len(e)) = e
      BY <2>3, SliceAll
    <3> QED
      BY <2>2, <2>8, <2>9, <3>1 DEF SaysUpTo
  <2>12. AllDeliverable(t, flushed)
    BY <2>2, <2>9 DEF AllDeliverable, Deliverable
  <2> QED
    BY <2>10, <2>11, <2>12
<1> QED
  BY <1>1, <1>2

-----------------------------------------------------------------------------
(* Sending the messages.                                                   *)

\* What has arrived and what is still to be sent are the text's messages.
SendInv ==
  /\ sending = "no" => chunks = <<>>
  /\ sending # "no" => /\ text \in Texts
                       /\ chat \in Seq(Strings) /\ chunks \in Seq(Strings)
                       /\ chat \o chunks = SplitMessage(text)

LEMMA NothingIsSent == SendNothing => SendInv'
  BY DEF SendNothing, SendInv

LEMMA BeginSendKeepsInv ==
  ASSUME NEW t \in Texts, BeginSend(t)
  PROVE  SendInv'
<1>1. t \in Strings /\ Written(t)
  BY TelegramAssumption DEF TelegramAssumption, Strings
<1>2. SplitMessage(t) \in Seq(Strings)
  BY <1>1, MessagesSayTheText
<1>3. <<>> \in Seq(Strings) /\ <<>> \o SplitMessage(t) = SplitMessage(t)
  BY <1>2
<1> QED
  BY <1>2, <1>3 DEF BeginSend, SendInv

LEMMA HeadAndTail ==
  ASSUME NEW S, NEW s \in Seq(S), s # <<>>
  PROVE  /\ Head(s) \in S /\ Tail(s) \in Seq(S)
         /\ <<Head(s)>> \in Seq(S) /\ s = <<Head(s)>> \o Tail(s)
<1> DEFINE one == <<Head(s)>>
           rest == Tail(s)
<1>1. Head(s) \in S /\ rest \in Seq(S) /\ Len(s) \in Nat /\ Len(s) # 0 /\ Len(rest) = Len(s) - 1
      /\ Head(s) = s[1] /\ \A i \in 1 .. Len(rest) : rest[i] = s[i + 1]
  BY HeadTailProperties
<1>2. one \in Seq(S) /\ Len(one) = 1 /\ one[1] = s[1]
  BY <1>1
<1> HIDE DEF one, rest
<1>3. one \o rest \in Seq(S) /\ Len(one \o rest) = Len(one) + Len(rest)
      /\ \A i \in 1 .. Len(one) + Len(rest) :
           (one \o rest)[i] = IF i <= Len(one) THEN one[i] ELSE rest[i - Len(one)]
  <2>1. one \in Seq(S) /\ rest \in Seq(S)
    BY <1>1, <1>2
  <2> QED
    BY <2>1, ConcatProperties, Zenon
<1>5. ASSUME NEW i \in 1 .. Len(s) PROVE s[i] = (one \o rest)[i]
  <2>1. CASE i = 1
    BY <1>1, <1>2, <1>3, <2>1
  <2>2. CASE i # 1
    <3>1. i - 1 \in 1 .. Len(rest) /\ i \in 1 .. Len(one) + Len(rest) /\ ~(i <= Len(one))
          /\ i - Len(one) = i - 1 /\ (i - 1) + 1 = i
      BY <1>1, <1>2, <2>2
    <3> QED
      BY <1>1, <1>3, <3>1
  <2> QED
    BY <2>1, <2>2
<1>6. Len(s) = Len(one \o rest)
  BY <1>1, <1>2, <1>3
<1>4. s = one \o rest
  BY <1>3, <1>5, <1>6, SeqEqual
<1> QED
  BY <1>1, <1>2, <1>4 DEF one, rest

LEMMA SendMessageKeepsInv ==
  ASSUME SendInv, SendMessage
  PROVE  SendInv'
<1>1. /\ sending # "no" /\ chunks # <<>> /\ chat' = Append(chat, Head(chunks)) /\ chunks' = Tail(chunks)
      /\ sending' = "first" /\ text' = text
  BY DEF SendMessage, Trying
<1>2. /\ text \in Texts /\ chat \in Seq(Strings) /\ chunks \in Seq(Strings)
      /\ chat \o chunks = SplitMessage(text)
  BY <1>1 DEF SendInv
<1>3. /\ Head(chunks) \in Strings /\ Tail(chunks) \in Seq(Strings)
      /\ <<Head(chunks)>> \in Seq(Strings) /\ chunks = <<Head(chunks)>> \o Tail(chunks)
  BY <1>1, <1>2, HeadAndTail, Zenon
<1>4. chat' \in Seq(Strings) /\ chat' = chat \o <<Head(chunks)>>
  BY <1>1, <1>2, <1>3, AppendProperties, AppendIsConcat
<1>5. chat' \o chunks' = chat \o chunks
  <2> DEFINE one == <<Head(chunks)>>
             rest == Tail(chunks)
  <2> HIDE DEF one, rest
  <2>1. (chat \o one) \o rest = chat \o (one \o rest)
    BY <1>2, <1>3, ConcatAssociative DEF one, rest
  <2> QED
    BY <1>1, <1>3, <1>4, <2>1, Zenon DEF one, rest
<1> QED
  BY <1>1, <1>2, <1>3, <1>4, <1>5 DEF SendInv

LEMMA SendInvStep == SendInv /\ [CommandNext]_commandVars => SendInv'
<1> SUFFICES ASSUME SendInv, [CommandNext]_commandVars PROVE SendInv'
  OBVIOUS
<1>1. UNCHANGED telegramVars => SendInv'
  BY DEF telegramVars, SendInv
<1>2. ASSUME NEW c, StartCommand(c) PROVE SendInv'
  BY <1>1, <1>2 DEF StartCommand
<1>3. CASE \/ MigrateStep \/ Resolve \/ CollectShop \/ CollectShopsDone \/ Regroup \/ ReportQuietly
           \/ GoToWatches \/ RunWatches \/ OpenFails \/ ResolveFails \/ RegroupFails
           \/ CommandIsCut \/ OtherOpens
  BY <1>1, <1>3 DEF MigrateStep, Resolve, CollectShop, CollectShopsDone, Regroup, ReportQuietly,
       GoToWatches, RunWatches, OpenFails, ResolveFails, RegroupFails, CommandIsCut, OtherOpens, Return
<1>4. CASE ReportSends
  BY <1>4, BeginSendKeepsInv DEF ReportSends
<1>5. CASE SayNoChanges
  BY <1>5, BeginSendKeepsInv, CommandsAssumption DEF SayNoChanges, CommandsAssumption
<1>6. CASE ReportSent \/ ReportNotSent \/ NoChangesSent \/ NoChangesNotSent \/ Crash
  BY <1>6, NothingIsSent DEF ReportSent, ReportNotSent, NoChangesSent, NoChangesNotSent, Crash, Sent, SendFails
<1>7. CASE SendingStep
  <2>1. CASE SendMessage
    BY <2>1, SendMessageKeepsInv
  <2>2. CASE RetryAfter \/ WaitIsOver
    BY <2>2 DEF RetryAfter, WaitIsOver, SendInv
  <2> QED
    BY <1>7, <2>1, <2>2 DEF SendingStep, SendStep
<1>8. CASE UNCHANGED commandVars
  BY <1>1, <1>8 DEF commandVars
<1> QED
  BY <1>2, <1>3, <1>4, <1>5, <1>6, <1>7, <1>8 DEF CommandNext, CommandStep

LEMMA PrefixOfConcat == \A a, b \in Strings : IsPrefix(a, a \o b)
<1> SUFFICES ASSUME NEW a \in Strings, NEW b \in Strings PROVE IsPrefix(a, a \o b)
  OBVIOUS
<1> DEFINE ab == a \o b
<1>1. /\ Len(a) \in Nat /\ Len(b) \in Nat /\ ab \in Strings /\ Len(ab) = Len(a) + Len(b)
      /\ \A i \in 1 .. Len(a) : ab[i] = a[i]
  BY DEF Strings
<1> HIDE DEF ab
<1>2. 0 \in 0 .. Len(ab) /\ Len(a) \in 0 .. Len(ab) /\ 0 + 1 = 1
  BY <1>1
<1>3. SubSeq(ab, 1, Len(a)) \in Strings /\ Len(SubSeq(ab, 1, Len(a))) = Len(a)
      /\ \A i \in 1 .. Len(a) : SubSeq(ab, 1, Len(a))[i] = a[i]
  <2>1. /\ SubSeq(ab, 0 + 1, Len(a)) \in Strings /\ Len(SubSeq(ab, 0 + 1, Len(a))) = Len(a) - 0
        /\ \A i \in 1 .. Len(a) - 0 : SubSeq(ab, 0 + 1, Len(a))[i] = ab[0 + i]
    BY <1>1, <1>2, SliceIs
  <2> QED
    BY <1>1, <2>1
<1>4. SubSeq(ab, 1, Len(a)) = a
  BY <1>1, <1>3, SeqEqual DEF Strings
<1> QED
  BY <1>1, <1>4, SliceAll DEF IsPrefix, ab

\* The chat gets each text once, in its order, all of it by the time the send
\* counts as done, in messages Telegram takes (SendLong, Client.SendMessage).
THEOREM CommandsDeliver == CommandSpec => []MessagesArrive
<1>1. CommandInit => SendInv
  BY DEF CommandInit, SendInv
<1>2. SendInv => MessagesArrive
  <2> SUFFICES ASSUME SendInv PROVE MessagesArrive
    OBVIOUS
  <2>1. CASE sending = "no"
    <3>1. Range(<<>>) = {}
      BY DEF Range
    <3> QED
      BY <2>1, <3>1 DEF SendInv, MessagesArrive, ChunksFit, ChatReadsText
  <2>2. CASE sending # "no"
    <3> DEFINE all == chat \o chunks
    <3>1. /\ text \in Texts /\ chat \in Seq(Strings) /\ chunks \in Seq(Strings)
          /\ all = SplitMessage(text)
      BY <2>2 DEF SendInv
    <3>2. text \in Strings /\ Written(text)
      BY <3>1, TelegramAssumption DEF TelegramAssumption, Strings
    <3>3. Letters(FlattenSeq(all)) = Letters(text) /\ AllDeliverable(text, all)
      BY <3>1, <3>2, MessagesSayTheText
    <3>4. ChunksFit
      <4> SUFFICES ASSUME NEW c \in Range(chunks)
                   PROVE  /\ Len(c) <= Limit
                          /\ c # <<>> => c[1] # "c" /\ c[Len(c)] # "s"
                          /\ c = <<>> => HasLine(text, Limit - 1)
        BY DEF ChunksFit
      <4>1. PICK i \in 1 .. Len(chunks) : c = chunks[i]
        BY <3>1 DEF Range
      <4>2. Len(chat) + i \in 1 .. Len(all) /\ all[Len(chat) + i] = chunks[i]
        BY <3>1
      <4>3. c \in Strings
        BY <3>1, <4>1
      <4> HIDE DEF all
      <4>4. Deliverable(text, c)
        BY <3>3, <4>1, <4>2 DEF AllDeliverable
      <4> QED
        BY <4>3, <4>4, WholeEnds DEF Deliverable, Fits
    <3>5. ChatReadsText
      <4> DEFINE f == FlattenSeq(chat)
                 g == FlattenSeq(chunks)
      <4>1. f \in Strings /\ g \in Strings /\ FlattenSeq(all) = f \o g
        BY <3>1, FlattenType, FlattenConcat DEF Strings
      <4>2. Letters(text) = Letters(f) \o Letters(g) /\ Letters(f) \in Strings /\ Letters(g) \in Strings
        <5> HIDE DEF f, g, all
        <5> QED
          BY <3>3, <4>1, LettersConcat, LettersType
      <4>3. IsPrefix(Letters(f), Letters(text))
        <5> HIDE DEF f, g
        <5> QED
          BY <4>2, PrefixOfConcat
      <4>4. ASSUME chunks = <<>> PROVE Letters(f) = Letters(text)
        <5>1. all = chat
          BY <3>1, <4>4, ConcatEmptySeq
        <5> QED
          BY <3>3, <5>1
      <4> QED
        BY <4>3, <4>4 DEF ChatReadsText
    <3> QED
      BY <3>4, <3>5 DEF MessagesArrive
  <2> QED
    BY <2>1, <2>2
<1> QED
  BY <1>1, <1>2, SendInvStep, PTL DEF CommandSpec

=============================================================================
