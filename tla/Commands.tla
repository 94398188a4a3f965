------------------------------ MODULE Commands ------------------------------
(***************************************************************************)
(* The command line: collect, report and match run one after the other     *)
(* against one database, each over the shops it selects. What a collect    *)
(* does at a shop is in ShopVisit and Collect, what a report finds out is  *)
(* in Report; here it is an outcome.                                       *)
(***************************************************************************)
EXTENDS Opening, Telegram, FiniteSets

CONSTANTS
  cli,         \* the opener that is the command
  Slugs,       \* shops the database may have rows of
  Registered,  \* those with a scraper in this build, in their order
  Selections,  \* what --shop or GUNPLA_SHOPS may say
  FirstRows,   \* the shops' rows at first: none, active or retired
  QuietText    \* FormatNoChanges

ASSUME CommandsAssumption ==
  /\ cli \in Openers
  /\ Registered \in Seq(Slugs) /\ IsInjective(Registered)
  /\ \A sel \in Selections : sel \in Seq(Range(sel))
  /\ FirstRows \subseteq [Slugs -> {"none", "active", "retired"}]
  /\ QuietText \in Texts

VARIABLES
  pc,        \* where the command is
  cmd,
  selected,  \* the shops it runs for
  queue,     \* those still to come
  outcome,   \* what became of each (history)
  failed,    \* firstErr is set
  unchanged, \* how many reports found no change
  alerted,   \* whether the shop's failure warning was sent
  rows,      \* the shops' rows
  ungrouped  \* shops stored since products were last regrouped

selectionVars == <<selected, queue, outcome, failed, unchanged, alerted>>
commandVars == <<ctx, openingVars, telegramVars, pc, cmd, selectionVars, rows, ungrouped>>

NoOutcome == [s \in Slugs |-> "none"]

-----------------------------------------------------------------------------
(* Starting and ending. *)

StartCommand(c) ==
  /\ pc = "off"
  /\ ReadVersion(cli)
  /\ pc' = "open"
  /\ cmd' = c
  /\ ctx' = "live"
  /\ UNCHANGED <<telegramVars, selectionVars, rows, ungrouped>>

MigrateStep ==
  /\ pc = "open"
  /\ OpenStep(cli)
  /\ pc' = IF opener'[cli].step # "open" THEN "open"
           ELSE IF cmd = "match" THEN "match" ELSE "resolve"
  /\ UNCHANGED <<ctx, telegramVars, cmd, selectionVars, rows, ungrouped>>

Leave ==
  /\ pc' = "off"
  /\ CloseStore(cli)
  /\ selected' = <<>> /\ queue' = <<>> /\ outcome' = NoOutcome
  /\ failed' = FALSE /\ unchanged' = 0 /\ alerted' = FALSE

Return == Leave /\ UNCHANGED <<ctx, telegramVars, cmd>>

OpenFails ==
  /\ pc = "open"
  /\ Return
  /\ UNCHANGED <<rows, ungrouped>>

-----------------------------------------------------------------------------
(* Selecting shops. *)

Create(slugs) ==
  [s \in Slugs |-> IF rows[s] = "none" /\ Contains(slugs, s) THEN "active" ELSE rows[s]]

IsActive(s) == Create(Registered)[s] = "active"

Choose(slugs, run) ==
  /\ rows' = Create(slugs)
  /\ selected' = run /\ queue' = run
  /\ pc' = "shop"

(* Named shops run, retired or not. By default every active one runs, in   *)
(* an order that is always the same; rows without a scraper are left out.  *)
Resolve ==
  /\ pc = "resolve"
  /\ ctx = "live"
  /\ \/ \E sel \in Selections : Range(sel) \subseteq Range(Registered) /\ Choose(sel, sel)
     \/ Choose(Registered, SetToSeq({s \in Range(Registered) : IsActive(s)}))
  /\ UNCHANGED <<ctx, openingVars, telegramVars, cmd, outcome, failed, unchanged,
                 alerted, ungrouped>>

(* An unknown slug, a failing query, the end of the context, or missing    *)
(* settings: some of the rows may have been created.                       *)
ResolveFails ==
  /\ pc = "resolve"
  /\ \E slugs \in Selections \cup {Registered} : \E n \in 0 .. Len(slugs) :
       LET prefix == SubSeq(slugs, 1, n) IN
       Range(prefix) \subseteq Range(Registered) /\ rows' = Create(prefix)
  /\ Return
  /\ UNCHANGED ungrouped

-----------------------------------------------------------------------------
(* collect. *)

ShopEnds(o) ==
  /\ outcome' = [outcome EXCEPT ![Head(queue)] = o]
  /\ failed' = (failed \/ o = "failed")
  /\ unchanged' = unchanged + (IF o = "unchanged" THEN 1 ELSE 0)
  /\ alerted' = FALSE
  /\ queue' = Tail(queue)
  /\ pc' = "shop"
  /\ UNCHANGED selected

(* collector.Run stores the shop's catalog or fails, which it does at once *)
(* when the run's time is over.                                            *)
CollectShop ==
  /\ pc = "shop" /\ cmd = "collect" /\ queue # <<>>
  /\ \/ /\ ctx = "live"
        /\ ungrouped' = ungrouped \cup {Head(queue)}
        /\ ShopEnds("stored")
     \/ ShopEnds("failed") /\ UNCHANGED ungrouped
  /\ UNCHANGED <<ctx, openingVars, telegramVars, cmd, rows>>

CollectShopsDone ==
  /\ pc = "shop" /\ cmd = "collect" /\ queue = <<>>
  /\ pc' = "match"
  /\ UNCHANGED <<ctx, openingVars, telegramVars, cmd, selectionVars, rows, ungrouped>>

(* Mutation of Regroup: under the run's timeout.                           *)
RegroupInTime ==
  /\ pc = "match"
  /\ ctx = "live"
  /\ ungrouped' = {}
  /\ Return
  /\ UNCHANGED rows

(* After the shops, with a time limit of its own: only SIGTERM stops it.   *)
Regroup ==
  /\ pc = "match"
  /\ ctx # "stopped"
  /\ ungrouped' = {}
  /\ Return
  /\ UNCHANGED rows

RegroupFails ==
  /\ pc = "match"
  /\ Return
  /\ UNCHANGED <<rows, ungrouped>>

-----------------------------------------------------------------------------
(* report. *)

Reporting == pc = "shop" /\ cmd = "report"

(* Nothing to say: no new run, no change, or a failing query.              *)
ReportQuietly ==
  /\ Reporting /\ queue # <<>>
  /\ \E o \in {"skipped", "unchanged", "failed"} :
       (o = "unchanged" => ctx = "live") /\ ShopEnds(o)
  /\ UNCHANGED <<ctx, openingVars, telegramVars, cmd, rows, ungrouped>>

(* A warning, and then the report.                                         *)
ReportSends ==
  /\ Reporting /\ queue # <<>>
  /\ \E t \in Texts : BeginSend(t)
  /\ pc' = "send"
  /\ UNCHANGED <<openingVars, cmd, selectionVars, rows, ungrouped>>

ReportSent ==
  /\ pc = "send"
  /\ Sent
  /\ \/ /\ ~alerted
        /\ alerted' = TRUE /\ pc' = "shop"
        /\ UNCHANGED <<selected, queue, outcome, failed, unchanged>>
     \/ \E o \in {"reported", "failed"} : ShopEnds(o)
  /\ UNCHANGED <<openingVars, cmd, rows, ungrouped>>

ReportNotSent ==
  /\ pc = "send"
  /\ SendFails
  /\ ShopEnds("failed")
  /\ UNCHANGED <<openingVars, cmd, rows, ungrouped>>

SendingStep ==
  /\ pc \in {"send", "quiet"}
  /\ SendStep
  /\ UNCHANGED <<openingVars, pc, cmd, selectionVars, rows, ungrouped>>

(* Mutation of AllQuiet: what failed is left out.                          *)
AllQuietButFailed == unchanged = Cardinality({s \in Range(selected) : outcome[s] # "failed"})
AllQuiet == unchanged = Len(selected) /\ ~failed

SayNoChanges ==
  /\ Reporting /\ queue = <<>>
  /\ AllQuiet
  /\ BeginSend(QuietText)
  /\ pc' = "quiet"
  /\ UNCHANGED <<openingVars, cmd, selectionVars, rows, ungrouped>>

NoChangesSent ==
  /\ pc = "quiet"
  /\ Sent
  /\ pc' = "watches"
  /\ UNCHANGED <<openingVars, cmd, selectionVars, rows, ungrouped>>

(* This failure ends the command before the watches.                       *)
NoChangesNotSent ==
  /\ pc = "quiet"
  /\ SendFails
  /\ Leave
  /\ UNCHANGED <<cmd, rows, ungrouped>>

(* Mutation of GoToWatches: not after a failure.                           *)
GoToWatchesUnlessFailed ==
  /\ Reporting /\ queue = <<>>
  /\ ~AllQuiet
  /\ IF failed THEN Leave
     ELSE pc' = "watches" /\ UNCHANGED <<openingVars, selectionVars>>
  /\ UNCHANGED <<ctx, telegramVars, cmd, rows, ungrouped>>

GoToWatches ==
  /\ Reporting /\ queue = <<>>
  /\ ~AllQuiet
  /\ pc' = "watches"
  /\ UNCHANGED <<ctx, openingVars, telegramVars, cmd, selectionVars, rows, ungrouped>>

(* RunWatches, which is in Watches.                                        *)
RunWatches ==
  /\ pc = "watches"
  /\ Return
  /\ UNCHANGED <<rows, ungrouped>>

-----------------------------------------------------------------------------
CommandIsCut ==
  /\ pc \notin {"off", "open"}
  /\ (cmd # "match" /\ Expire) \/ Stop
  /\ UNCHANGED <<openingVars, telegramVars, pc, cmd, selectionVars, rows, ungrouped>>

Crash ==
  /\ pc # "off"
  /\ Leave
  /\ SendNothing
  /\ UNCHANGED <<ctx, cmd, rows, ungrouped>>

(* The web server opens the database, and goes.                            *)
OtherOpens ==
  /\ \E o \in Openers \ {cli} : ReadVersion(o) \/ OpenStep(o) \/ CloseStore(o)
  /\ UNCHANGED <<ctx, telegramVars, pc, cmd, selectionVars, rows, ungrouped>>

CommandInit ==
  /\ ctx = "live"
  /\ OpeningInit
  /\ text = <<>> /\ chunks = <<>> /\ sending = "no" /\ chat = <<>>
  /\ pc = "off" /\ cmd = "collect"
  /\ selected = <<>> /\ queue = <<>> /\ outcome = NoOutcome
  /\ failed = FALSE /\ unchanged = 0 /\ alerted = FALSE
  /\ rows \in FirstRows
  /\ ungrouped = {}

CommandStep ==
  \/ MigrateStep \/ Resolve
  \/ CollectShop \/ CollectShopsDone \/ Regroup
  \/ ReportQuietly \/ ReportSends \/ SendingStep \/ ReportSent \/ ReportNotSent
  \/ SayNoChanges \/ NoChangesSent \/ NoChangesNotSent
  \/ GoToWatches \/ RunWatches

CommandNext ==
  \/ \E c \in {"collect", "report", "match"} : StartCommand(c)
  \/ CommandStep
  \/ OpenFails \/ ResolveFails \/ RegroupFails
  \/ CommandIsCut \/ Crash \/ OtherOpens

(* cron starts collect and report every day; a command goes on until it    *)
(* returns. Regrouping does not fail on every day on which it can succeed.   *)
CommandSpec ==
  /\ CommandInit /\ [][CommandNext]_commandVars
  /\ \A c \in {"collect", "report"} : SF_commandVars(StartCommand(c))
  /\ WF_commandVars(CommandStep \/ OpenFails \/ ResolveFails \/ RegroupFails)
  /\ SF_commandVars(Regroup)

-----------------------------------------------------------------------------
(* Properties. *)

CommandTypeOK ==
  /\ ctx \in ContextStates
  /\ OpeningTypeOK /\ TelegramTypeOK
  /\ pc \in {"off", "open", "resolve", "shop", "send", "quiet", "watches", "match"}
  /\ (opener[cli].step = "closed") <=> (pc = "off")
  /\ (sending # "no") <=> pc \in {"send", "quiet"}
  /\ cmd \in {"collect", "report", "match"}
  /\ {selected, queue} \subseteq Seq(Slugs) /\ Len(queue) <= Len(selected)
  /\ \A i \in 1 .. Len(queue) : queue[i] = selected[Len(selected) - Len(queue) + i]
  /\ outcome \in [Slugs -> {"none", "stored", "failed", "skipped", "unchanged", "reported"}]
  /\ failed \in BOOLEAN /\ alerted \in BOOLEAN /\ unchanged \in 0 .. Len(selected)
  /\ rows \in [Slugs -> {"none", "active", "retired"}]
  /\ ungrouped \subseteq Slugs

(* The chat is told that nothing changed in any shop only if every one     *)
(* selected was compared and found unchanged; a shop that failed, had no   *)
(* new run or was reported is a reason not to (report's counter).          *)
NoChangesOnlyIfAllCompared ==
  pc = "quiet" => \A s \in Range(selected) : outcome[s] = "unchanged"

(* A collect that comes to its last step has tried every shop, whichever   *)
(* failed and although the time was over, and exits with a failure if one  *)
(* failed.                                                                 *)
CollectTriesAll ==
  (pc = "match" /\ cmd = "collect") =>
    \A s \in Range(selected) : /\ outcome[s] # "none"
                               /\ outcome[s] = "failed" => failed

(* Types and the command's shape, and what a loop over shops claims of     *)
(* them in the end: the message of no changes and the exit status tell     *)
(* what became of every shop.                                              *)
CommandInv == CommandTypeOK /\ NoChangesOnlyIfAllCompared /\ CollectTriesAll

(* The steps of days on which the database opens, shops are found and no   *)
(* process dies. Time may run out.                                         *)
Untroubled ==
  \/ \E c \in {"collect", "report", "match"} : StartCommand(c)
  \/ CommandStep \/ RegroupFails \/ OtherOpens
  \/ CommandIsCut /\ ctx' = "expired"

(* Stored catalogs get grouped, also if every collect runs out of time     *)
(* among its shops: the last step does not depend on the run's timeout.    *)
ListingsGetGrouped ==
  <>[][Untroubled]_commandVars => (ungrouped # {} ~> ungrouped = {})

(* Reports come to the watches again and again, whichever shops' reports   *)
(* fail every day, unless the message of no changes does.                  *)
WatchesAreChecked ==
  <>[][Untroubled /\ ~NoChangesNotSent]_commandVars => []<>(pc = "watches")

=============================================================================
