# Verification of gunpla-collector

gunpla-collector watches web shops that sell model kits. Every evening cron
starts `collect`, which stores each shop's catalog in a SQLite file, and fifteen
minutes later `report`, which tells a Telegram chat what changed. A web UI
(`serve`) and manual commands (`match`, `link`, `unlink`, or `collect` and
`report` by hand) work on the same file at any time.

This directory holds TLA+ models of that program, the TLC runs that check them
and TLAPS proofs about them. Paths below are relative to the repository.

## Inventory

| Part | State | Operations | Interacts with |
|---|---|---|---|
| collect (`internal/collector`, `cmd/gunpla-collector/main.go`) | none of its own; a context with a 60 minute timeout | `Run`: start run, fetch, shrink guard, apply, fail; then barcode lookups; then regrouping | store, scrapers, catalog |
| report (`internal/reporter`) | a context with a 5 minute timeout | `Run` per shop: warn, choose two runs, diff, send, mark; the no-changes message; watches | store, telegram, watchlist |
| store (`internal/store`) | the database: shops, scrape_runs, sets, price_history, products, watches, watch_state, match_dismissals; WAL, one connection per process, 5 s busy timeout | one statement or one transaction per call | everything |
| schema migrations (`internal/store/migrate.go`) | `PRAGMA user_version` | apply each newer migration in a transaction | every process that opens the file |
| barcode lookups (`lookupEANs`) | `sets.ean`, `ean_checked_at`, a batch in memory | look up, flush every 25, stop after 3 failures in a row | store, one shop |
| watches (`internal/watchlist`, `internal/store/watches.go`) | watches, watch_state | create, update (resetting the alert state), delete; evaluate, send, commit | web UI and report, concurrently |
| product grouping (`internal/catalog/assign.go`, `internal/store/products.go`) | products, `sets.product_id` | `Regroup`, `Link`, `Unlink` in one transaction each | collect, `match`, `link`, web UI |
| matcher (`internal/matcher`) | none (pure) | `Match`, near-miss review | grouping, review, watches |
| near-miss review (`internal/catalog/review.go`, dismissals) | match_dismissals | review, dismiss, link | web UI |
| catalog read model (`internal/catalog/read.go`, `store/search.go`) | none | search, group, mark the cheapest | web UI |
| price history (`internal/catalog/history.go`, `store/history.go`) | none | one step function per listing | web UI |
| exchange rates (`internal/fx`, `cmd/.../rates.go`) | rates stored with prices | override, live, last stored; backfill | collect |
| HTTP fetching and scrapers (`internal/scraper`) | none across runs | paged fetches with retries and back-off | collect |
| telegram client (`internal/telegram`) | none | split a message, send chunk by chunk, retry a 429 once | report |

What is hard here is not any one function but what happens between two of them:
processes share the database without holding a transaction across a fetch or a
send; every step can fail; a process can be killed between any two steps; the
chat may have received what the program thinks it did not send; and what one
call read is used by a later one. What makes each part correct:

* collect: a run is all or nothing; a broken scraper never wipes the catalog;
  every run ends as a success or a failure, or is noticed.
* report: nothing is written off that was not told; the messages, read in order,
  add up to the catalog; everything is told in the end; a broken collect is
  warned about.
* watches: a condition is told once, is told at all, and an edit starts afresh.
* grouping: the result does not depend on the order of listings, and hand-made
  links survive it.
* migrations: the version never promises a migration the database has not had.
* prices: a price keeps the worth it was stored with; search, chart, product page
  and watch wizard tell the same story about it.
* fetching: what is listed all the time is seen, whatever comes and goes meanwhile;
  a shop is not asked sooner than it said; a visit ends.
* barcodes: an answer is neither lost nor asked for twice, and none is put off for ever.
* messages: what is sent arrives once, in order, and in pieces Telegram takes.
* the commands: one shop's failure costs the others nothing, and is told.

`PROJECT.json` lists each such hazard at the line where it bites.

## Modules

| Module | Models |
|---|---|
| `ShopRuns` | one shop's rows in the database (`scrape_runs`, `price_history`, `sets.is_active`) and the queries over them |
| `Collect` | `collector.Run`: one action per store call or fetch |
| `Report` | `reporter.Run`: one action per query or send |
| `DailyCycle` | any number of collects and reports around those rows; the properties |
| `Outbox` | what collect and report together promise: published, sent, acknowledged |
| `MCDailyCycle` | the small instances TLC checks |
| `DailyCycleProofs` | type correctness and atomicity of runs, for any schedule |
| `SerialProofs` | what holds while no two processes overlap: the refinement of `Outbox`, what the reader of the chat believes |
| `NaturalOrder` | lemmas the proofs share: least and greatest of a set of numbers, and that a function may be defined by recursion |
| `Watches` | the report's alert pass (`Evaluate`, `RunWatches`, `Commit`) and the web UI's edits of watches |
| `MCWatches` | its small instances |
| `WatchesProofs` | what a saved state says, for any watches, catalogs and failures |
| `Matcher` | `internal/matcher`: names to keys, verdicts on two names, `Match`, `Review`, `SameSuit` |
| `Products`, `MCProducts` | `Regroup`, `Link`, `Unlink`, dismissals, over listings that come, go and get barcodes; extends `Matcher` |
| `ProductsProofs` | what `Match` and `Regroup` make of any listings, names and barcodes, and what outlasts them |
| `Prices`, `MCPrices` | rates, `price_history`, and its readers: search, products, chart, watch wizard; extends `Matcher` |
| `PricesProofs` | what the readers make of the rows, for any shops, rates and number of runs |
| `Context` | the context of a process: live, expired, stopped |
| `Fetcher` | one shop's HTTP client: pause, retries, waits; extends `Context` |
| `ShopVisit`, `MCVisit` | one shop day after day: pages, storing, barcode lookups; extends `Fetcher` |
| `VisitProofs` | fetches, requests and answers, for any kits, pages, pauses and limits |
| `Opening` | processes that open the database and migrate it |
| `Telegram` | splitting a text and sending the chunks; extends `Context` |
| `Commands`, `MCCommands` | `collect`, `report` and `match` from start to exit status; extends `Opening` and `Telegram` |
| `CommandsProofs` | what the version says of the schema, for any number of processes and migrations, what a command's loop over any shops tells, and that the messages of any text arrive |

Modules overlap where one asks about the inside of what is an outcome in another.
`Commands` takes what becomes of a shop from a set; `Collect`, `Report` and
`ShopVisit` are that shop. `Collect` takes any catalog as the outcome of a fetch;
`ShopVisit` says which ones a fetch can return. `Report` lets a send reach the chat
in part; `Telegram` says in which parts. `Watches` takes the listings a watch
follows as given; `Prices` works them out from a spec.

### How they correspond to the code

`runs` is `scrape_runs` for one shop: a row's id is its position. A row carries
its status, whether `reported_at` is set, and its `price_history` rows as a
function from kits to offers (`catalog`); `forced` and `overdue` are two facts
the row does not state (made with `--force`; started over two hours ago).
`listing` is the `is_active` column, with "unseen" before a set has a row.

A collector goes `idle -> fetch -> check -> apply -> idle`, or by `failing` to
`idle`: `StartRun`, `FetchAll` (with `FilterKits`), the guard on
`LastSuccessfulRunSetsFound`, `ApplyRun`, `FinishRunFailed`. `ApplyRun` is one
action because it is one transaction; its loop of `UpsertSet` and
`InsertPriceHistory`, `DeactivateMissing` and `FinishRunSuccess` are all in it,
and `ApplyFail` is its rollback. `Expire` ends the context, after which only the
failing path is left and `FinishRunFailed` writes nothing. `CollectCrash` is
process death at any step; it also stands for an update that fails while the
context lives.

A reporter goes `idle -> [alert] -> current -> previous -> send -> mark -> idle`.
The two queries of `LatestUnreportedRun` are two actions. The three diff queries
read rows of finished runs, which never change (`RunIsAtomic`), so they are one
step with the query before them. `SendReportFail` is a send that reached the
chat whole, in part or not at all. `handled`, `belief` and `dangling` are history
variables: nothing in the program reads them. `belief` is what somebody knows who
has read every message; a baseline message stands for the whole catalog.

In `Watches`, `watches` and `state` are the tables `watches` and `watch_state`. The
report goes `idle -> snapshot -> evaluate -> [send] -> commit -> idle`: `List`, the
catalog query, one `WatchState` query per watch, `SendLong`, one `SaveWatchState`
per watch. An edit is two steps, as in `Save`: the row (or the number of rows) is
read, then one statement or transaction writes. `Races` says whether edits may
overlap a report and each other; `watch_edit_race` sets it. What a spec follows is given as a set of listings.
`told` is history: what the reader was told since the last baseline, or what the
watch did not ask for; `owed` are the watches with an alert that was heard but not
saved. `Evaluation` is the body of `Evaluate`'s loop; its numbers (3 percent, 0 for
armed) are the code's.

In `Matcher` a name is a sequence of parts that the regular expressions of
`normalize.go` would cut out and classify (word, version, number, model number,
kit number, noise). `NewKey` is what the code makes of the parts, and everything
after it is modelled as it is: filler words, the order of the tests in
`judgeNames`, the thresholds, ties. A model number carries what falling apart into
words would give, because only the first of a name is taken as the model. Scores are
integers, multiples of 1/252000: quotients of small numbers are exact, so a comparison with
a threshold means what it means in the code. The disjoint-set forest is a function
from a listing to its root; `MayMerge` is the test in `union`. `Roots` is that function
after each step of `Match`: none but the links by hand, then one step per listing for the
barcodes, then one per pair for the names, best first.

`Products` has one action per transaction of `internal/catalog`. `Regroup` matches
the active listings, plans product ids in the order of the groups' first members (`Claims`),
writes names and grades of products and prunes the empty ones. `linked`, `parted`
and `pinned` are history: what was linked or unlinked by hand, and which links a
Regroup met with one of the two off sale.

In `Prices` a collect loads its rate (with the backfill, which may fail), and works
through the shops run by run; it may die at any point. Rates are in hundredths.
The readers are operators over the tables, so the invariants ask about them in
every reachable state: `Search` is `store.SearchSets` with the filter of
`catalog.Search`, `Products` the grouping, order and cheapest mark, `Entries` the
chart, `Preview` and `SpecFromSet` the watch wizard. The database starts empty or
with rows of an old release that had no EUR values.

`ShopVisit` goes `off -> [index] -> page -> fetched -> stored -> lookups <-> asking`,
with a flush after every `FlushEvery` answers and one at the end. `SiteChanges`
inserts or removes a product anywhere in the shop's listing while it is being read.
`kind` is how a scraper knows the end of a category: told the number of pages, at a
page that is not full, or at an empty one. A shop may also ignore the page number.
`Fetcher` is `httpFetcher.get`: `http.wait` is what is slept before a request,
`http.need` (history) what the shop may expect.

`Opening` has a process read `user_version` once and then apply one migration per
transaction; `Repeatable` are migrations that succeed a second time. `Telegram`
works on texts of bytes, of which it tells apart the newline, a character of one
byte and the two bytes of a longer one. `Chunks` reads a text byte by byte, as the
loop of `splitMessage` reads it line by line: `AddLine` is one turn of that loop, and
the newline appended to the text stands for the end of the last line. `Pieces` is
the loop of `splitRunes`, `CutOff` a turn of it; after as many turns as the line has
bytes nothing is left. `Written` is what `FormatDiff` and `FormatWatchAlerts` write. `Commands` is `run`: open, resolve shops
(registering those that are new), the loop, and what comes after it. `outcome` is
history. A message is split and sent inside it by the actions of `Telegram`.

Abstractions: in `Collect`, `Report` and `Watches`, prices are those of a
shop that sells in euros (the displayed price is the shop's own); a fetch may return any catalog; message layout, logging and
timestamps other than the two-hour limit are left out. In `Products` a listing's name and
grade stay what they are, though `UpsertSet` takes over what the shop calls it now; in
`ShopVisit` a month passes for all barcode lookups at once; in `Telegram` a character has
one byte or two, not up to four. `Validate` has the limits of a spec, and takes the length of a word from
its text; of `Watch.validate`, which also looks at the label and the target price, it is the part about the spec.

## Runs

| Run | Question |
|---|---|
| `daily_serial` | the crontab's order, one process at a time, everything free to fail: atomic listings, shrink guard, nothing lost, belief, order, refinement of `Outbox` |
| `daily_live` | is every success reported, is a dead collect noticed, what may the 5 percent filter hide |
| `watch_serial` | one watch of two listings, edited between reports: when is a price news, is a listing announced once, is silence kept, does an edit start afresh |
| `watch_pair` | two watches and fair reports: does a saved state say only what was told, is an offer under the target told in the end |
| `products` | are links by hand kept, shops apart, barcodes together; is a Regroup with nothing new a no-op; does the review fit the products |
| `prices` | do search, chart, products and watch wizard agree with what was listed, and does a stored value in euros stay |
| `visit` | does a fetch return what was listed, are shops treated politely, are barcode answers kept, does a visit end, is what is due looked up |
| `commands` | which steps still happen when others fail, is "nothing changed" true, do messages arrive, what does the version say of the schema |
| `report_races_collect` | (violation) a collect that ends during a report is written off |
| `timeout_marks_nothing` | (violation) the timeout's own failure record |
| `watch_edit_race` | (violation) an edit during a report keeps the old state |
| `link_undone` | (violation) a Regroup while one of two linked listings is off sale parts them |

Bounds. `MaxRuns`, `MaxId`, `MaxChanges`, `MaxEdits`, `MaxProduct` and `Judged` are
the only bounds in guards.

* `daily_serial`: three runs are the least with a reported run, a skipped one and a
  new one, which is where the choice of runs to compare, the marking of several and
  the belief across a skipped run can go wrong; two kits let a catalog shrink below
  half and let one come while the other goes. `daily_live` needs order and prices
  only: one kit, two runs, and a price, a move of 4 percent, one of exactly 5, and
  that one out of stock.
* `watch_serial` has the target, one cent less, 3 percent less, one cent more, one
  that cannot be bought and a price of 0, with a second listing that comes and goes in between; one
  watch is enough, because watches share nothing but the message and the commit loop,
  which `watch_pair` covers with two. A deleted id comes back.
* `products`: four listings of three shops, the least with a group that could take a
  third shop's listing or two of one shop, a barcode against a better name, two
  different grades and one without; two listings of one shop share a barcode with one of another,
so that one of them must stay out; two changes of what shops list and two edits by
  hand, in any order with any number of Regroups, dismissals and restores. (A link
  and its undoing, a listing that goes and comes back.) With seven ids
  `MaxProduct` never stops a Regroup or an unlink: nine give the same states.
* `prices`: two shops and currencies, three listings, two of them one kit; four runs,
  so that a listing can be seen, missed after a failure, missed in a good run and
  come back; rates plausible, not, or absent, the stored one readable or not. All filters on shop, grade and stock.
  A version of two words that a spec could hold one by one, but not joined, and a name that says nothing.
* `visit`: a category of two pages and one of one, a product in both, an accessory, one
  change of the listing per fetch, batches of two and a limit of two failures in a
  row with one kit whose lookup always fails. Days and months go on for ever.
  `MaxPages` is also where page numbers stop counting for a scraper that has no limit.
* `commands`: two shops, one retired or both new, one selection by name that is unknown;
  messages of up to 3 bytes and all written texts of 5 that contain a line break and a
  character of two bytes, or neither. Two migrations, one of them repeatable, two
  processes.

`CHECK_DEADLOCK FALSE` is set where a bound stops the system (`products`, `prices`,
`link_undone`).

Fairness.

* `daily_live`: a collect that started goes on, because its HTTP client and context
  have timeouts. cron starts report every day for ever (weak fairness of
  `StartReport`), and no step of it fails on every day (strong fairness of each step).
  Nothing makes a collect start. The strong fairness of sends is an assumption about
  Telegram and the network; a message that Telegram refuses every time would break it.
* `watch_pair`: as for `daily_live`; edits and the catalog owe nothing.
* `visit`: cron starts a collect every day, a step that can be taken is taken, and the
  timeout passes (each weak). `DueIsLookedUp` has the further premise that from some day
  on every step is one of those that keep no lookup from being made (`Untroubled`):
  only fetches, and kits that can never be looked up, still fail.
* `commands`: cron starts collect and report again and again (strong, because another
  command may be running), a command under way goes on, whether its next step succeeds
  or fails (weak), and regrouping does not fail every time it can succeed (strong). The
  premises of `ListingsGetGrouped` and `WatchesAreChecked` say what must have stopped for good:
  databases that do not open, shops that cannot be resolved, deaths and SIGTERM. The run's
  timeout need not.

The premises name the steps that are allowed, not those that are excluded: a crash at
the end of a visit looks like its end, and excluding it would exclude both.

## Proofs

### The daily cycle (`DailyCycleProofs`, `SerialProofs`)

For any kits, offers, number of processes and of runs:

* `TypeCorrect`, `RunsAreAtomic` hold for any interleaving (`Overlap` either way).
  The inductive invariant is `CoreInv`: a collector at work owns a running row that
  nobody else works on, a reporter past its first query holds a success, and a row
  that is not a success has no prices. Ownership is what makes `ApplyRun` and
  `FinishRunFailed` touch no finished run.
* `NothingLost`, `ForwardReports`, `ImplementsOutbox`, `ActiveIsTheNewestRun`,
  `NoMassRemoval` assume `~Overlap`. `SerialInv` adds that at most one process is
  at work, that the run being collected is the newest row, and that a reporter's
  run is unreported and at least as new as every success; the guard's theorem also
  needs `Guarded`: what the guard let pass still passes.
* `ReadersAreUpToDate` assumes `~Overlap`. Its invariant `BeliefInv` says that the
  reader's view of each kit is that of the newest reported run or of a run whose
  report was heard but never marked; a diff against the newest reported run then
  brings every kit to the new one.
* `PricesAreMissedForAReason` assumes `~Overlap`. `PriceInv` says that a price the
  reader has in mind is the newest reported one, or one reported before it with a
  move in between that the filter holds back.

The run `daily_serial` does not try collects and reports that overlap; `TypeOK` and
`RunIsAtomic` are proved for them too. Where the other theorems assume `~Overlap`,
`report_races_collect` shows why.

### Watches (`WatchesProofs`)

For any watches, ids, listings, offers, editors and failures. `TypeCorrect` holds with
`Races` either way; the other five assume `~Races`, without which `watch_edit_race`
refutes the last but one.

* `AloneInv`: at most one of the report and the editors is at work, and what it has
  read is what is there.
* `NothingUntold`, `ReferenceFollowsRises`, `AnnouncedOnce` rest on `ToldInv`: each
  evaluation that is pending was made of the rows that are there, a watch whose alert
  was heard and not yet saved is owed, and any other state is in step with what was
  told (its reference is the highest price heard, its known listings are those heard).
* `StateIsForTheseSettings` rests on `FitsInv`, `SecondReportIsQuiet` on `QuietInv`: once
  a report has saved everything, evaluating any state again against the same catalog
  gives nothing to say. The reason is arithmetic: a price is not 3 percent below itself
  unless it is 0.

### Prices (`PricesProofs`)

For any shops, listings, catalogs, rates and number of runs. The readers see rows, and
the properties speak of what shops listed, so `PricesInv` relates the two: a row is what
its run listed, every successful run left a row for each of its listings, rows come in
the order of their runs, active is what the newest successful run of the shop
listed, and the rate last used is that of the newest row in kroner. `TypeCorrect` and `EURIsWhatItWas`
follow from it by steps; `ChartShowsRuns`, `ChartAndSearchAgree`, `CheapestIsFirst` and
`WatchAndSearchAgree` are then about single states. The lemmas they share say that a listing's
records are one for each run that saw it, that the newest and the lowest of
a finite set of rows exist, that `Before` orders the rows of a kit totally, and that two
listings with one `VariantKey` and model are followed by one spec.

### Products (`ProductsProofs`)

For any listings, shops, names, grades, barcodes and bounds.

* `Match`, by its steps. `Sound` (listings linked by hand are together just when they
  share a product, and with nothing else; no automatic group has two listings of one
  shop) holds of the links by hand and is kept by every union, hence by the barcodes,
  the names and their order. `MatchJoinsBarcodes` says that after the step of a listing
  it is with the first of its barcode, or another of its shop is, and joining undoes neither.
* The plan. `ClaimsDiffer`: groups that claim one after the other get different ids,
  because `Claim` takes none that is used. `PlanStays`: groups that are the products
  there are get the ids they have.
* Changes and edits. The inductive invariant `ProductsInv` adds to `TypeOK` and
  `EditsHold` that what was linked or unlinked is still marked so (`ByHand`), and that
  as long as nothing changed since the last Regroup the products are those it would
  make again (`FreshIsCurrent`). `SameMatch` carries this over the Regroup itself, which
  changes what `Match` reads: products and methods. The rest follows from it in single states, and
  `RegroupingIsStable` with `PlanStays`.

### Visits (`VisitProofs`)

For any kits, categories, page sizes, pauses, attempts and limits:

* `RequestsArePolite`, by `HttpInv`: what is slept before an attempt is at least the pause,
  the back-off never falls below its first value, and a Retry-After is obeyed up to its cap.
* `FetchTellsTheTruth`, by `FetchPart`: a position on a page that was read was seen
  (`Read`); an insertion moves what was not read further away, and a removal, which
  may move it onto a page already read, is recorded in `left`. The lemmas `PagesAddUp`,
  `PageShows`, `Inserted` and `Removed` are the arithmetic of pages. `FetchIsExact` and
  `FetchMissesForAReason` are theorems of their own.
* `AnswersStay`, by `LookupPart`: what is pending was answered and is not in the database,
  what is still to be asked is neither answered nor pending.

### Opening and commands (`CommandsProofs`)

For any shops, selections, migrations and number of processes:

* `VersionIsHonest` is about `OpeningSpec`, any processes that open and close the database.
  `OpeningInv` adds that every migration before the one a process is at has been applied,
  and that while no two have migrated at once the one that migrates is where the version
  is. By `CommandsOpen` every step of `Commands` is one of `OpeningNext` or leaves the
  database's version alone, so `CommandsKeepVersionHonest` follows.
* `CommandsTellAll`, by `Shape` (where a command is fits what it is sending and whether it
  has the database open) and `LoopInv` (the queue is the rest of the selection; a count of
  unchanged reports equal to the shops done means that each of them was unchanged; a
  failure so far is in `failed`). A shop may be selected twice: it counts twice, and what
  became of it is what its last turn said, so the invariant speaks of places in the
  selection.
* `CommandsAreOpeners`: `CommandSpec` implements `OpeningSpec`, by `CommandsOpen`.
* `CommandsDeliver`, for any message size and texts. `SendInv` says that the messages that
  arrived, followed by those still to be sent, are those the text was split into; the rest
  is `MessagesSayTheText`, about the split alone. Its invariant is `ReadUpTo`: after
  `n` bytes the chunks that are done say the text up to a place `p` that ends a line,
  the one being written is the text from there to `q`, the line being read the rest. A
  flush drops line breaks at the end only (`LettersOfTrimmed`), and cuts no character
  because a line break is between characters (`TrimmedIsWhole`). A chunk of nothing but
  line breaks is one blank line, because nobody writes two and the text neither begins nor
  ends with one (`BlankIsOneLine`); that such a line was flushed alone means that the next one is as
  long as a message, less one byte (`ReadBreak`). Of a line that is longer than a message
  `CuttingOf` says that the pieces and what is left are the line, no character is cut, and what
  is left shrinks with every turn. `RecursionHolds` makes the two recursive functions what
  their definitions say.

### Assumptions, and what is not proved

Assumptions on constants, each checked by a run: the kits, and the listings of watches,
are finitely many; `Unlisted` is not an offer; offers and targets are natural numbers. A shop lists
its own listings only, in euros or kroner, and only kroner prices predate the EUR column
(`ShopsAssumption`, the scrapers and migration 9); the fallback rate is positive
(`RatesAssumption`, `parseRate`); a spec may have a word and a listing (`SpecAssumption`). The pause is neither longer than the first back-off nor
than the cap on Retry-After (`FetcherAssumption`, the constructors' values); no shop has no category
(`VisitAssumption`). No scraper is registered twice, and a selection is a sequence of the shops it
names (`CommandsAssumption`). The repeatable migrations are among the release's. A message has
room for a character, and a text that is longer than one is as the formatters write it: a
heading first, at most one blank line at a time and none at the end, and no character cut
(`TelegramAssumption`). That holds of `FormatDiff` and `FormatWatchAlerts` while names and labels are of one line;
the other texts are short (a failure's reason is truncated).

`Judged` are pairs of listings (`ProductsAssumption`), and listings are numbered from 1
(`IdsAssumption`, the ids SQLite gives).

`NaturalOrder` gives the least and greatest element of a set of numbers from the library's
theorem that `<` is well founded, which takes the place of an induction where one is
needed: to prove something of every step of `Roots`, `Claims`, `Chunks` or `Pieces`, or that these recursive
functions are what their definitions say, suppose there is a least step where it fails.

Every safety property of the passing runs is stated by a theorem. Only model-checked, because
out of the provers' reach: liveness (`EverySuccessReported`, `DeadRunIsNoticed`, `TargetIsTold`,
`VisitEnds`, `DueIsLookedUp`, `ListingsGetGrouped`, `WatchesAreChecked`), which needs fairness
and `ENABLED`.

## What the violation runs show

* A collect still running at 18:15 that commits while report sends is stamped as
  reported and never told (`store.go`, `MarkReported`).
* A collect ended by its timeout cannot record its failure, because it uses the
  context that ended (`collector.go`).
* An edit of a watch during a report is followed by a state made under its old
  settings; so is an edit that read its row before another one (`watch.go`).
* Two listings are linked by hand, one goes off sale, and a Regroup gives the id of
  their product to a listing that has a claim to it of its own, or a new one to the
  listing that stayed: when the other comes back the two are apart for good
  (`assign.go`).

## Where the properties stop

No run claims the following; each is written at the property or hazard it limits.

* The warning stops as soon as another collect starts, though none has succeeded
  (`reporter.go:154`; openspec/specs/reporting/spec.md:95 promises it until one does).
* A buyable listing at price 0 under a target is told by every report: the price told
  is saved as the last one, and 0 also means armed (`watch.go:264`). `price.go` refuses
  negative prices only, and `reporter/watches.go:23` says a second run sends nothing.
  `QuietWhenNothingChanged` excepts just this alert.
* When the last stored rate cannot be read, the configured one is used (`rates.go:20`).
  `EURIsKept` is about collects that could read it.
* With two collects of one shop at once, the shrink guard may compare with a size that
  is no longer the newest, and active listings and current prices may be those of the
  older run. `ActiveIsNewest` and `ShrinkGuard` are about the order cron keeps.
* Two requests at once can both take the last free place under the limit on watches.
* Two processes that open an old database at the same time may repeat a migration: most
  then fail, and one that does not sets the version back. `VersionTellsSchema` is exact
  only until that happens (configuration-and-cli/spec.md:132, `migrate.go:29`).
* Grades are compared pair by pair: a listing without a grade can join two that have
  different ones. product-grouping/spec.md:34 speaks of pairs.
* "Watch this kit" suggests a watch that cannot be saved when the words of the listing's version,
  joined by "+", are longer than a word may be (60 bytes), when any other word, the model or the grade is, or
  when there are more than 30 other words (`spec.go:84`). `WatchAgreesWithSearch` says that
  its spec is refused in no other case, and in particular never for having nothing to follow.
* A Retry-After on the last attempt is forgotten: the next request comes after the usual
  pause. `Polite` is about the waits between attempts and requests.
* As many kits that can never be looked up as the failure limit, in a row at the head of
  the list, keep the rest from ever being looked up. `DueIsLookedUp` has fewer.
* When the message that nothing changed cannot be sent, the command ends before the
  watches (`main.go:185`). `WatchesAreChecked` excludes it.
* A shop that removes a product while its pages are read makes the fetch miss another
  one, which the report then calls removed. `FetchMissesForAReason` says just that.

## Plan

Done: the daily cycle, watches, grouping and matcher, prices and their readers,
fetching and lookups, opening, messages and commands.

Proved: the daily cycle, watches, products, prices, visits, opening, the commands' loops and
messages. No safety property of a run is left without a theorem.

Not modelled: HTML and JSON parsing, the regular expressions that cut names into
words, message and page layout, text filters of the search, routing and the token
check of the web server, flag and environment parsing. They keep no state and no
property here depends on them.
