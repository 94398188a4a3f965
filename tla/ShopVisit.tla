----------------------------- MODULE ShopVisit -----------------------------
(***************************************************************************)
(* What collect does at one shop, day after day: it reads the catalog page *)
(* by page while the shop goes on changing it, stores the kits, and then   *)
(* looks up the barcodes the catalog left out.                             *)
(* The scrapers differ in how they know that a category ends: "index"      *)
(* (GeeksHeaven) is told the number of pages, "short" (Gundam Store,       *)
(* PlamoDX) stops at a page that is not full, "empty" (Zeonmarket) at one  *)
(* without products. Lookups are Gundam Store's.                           *)
(***************************************************************************)
EXTENDS Fetcher, Sequences, FiniteSets, SequencesExt

CONSTANTS
  Kits,         \* products a shop may list: their ids
  Accessories,  \* those that are no model kits
  Catalogs,     \* what a shop may list at first: a sequence of ids per category
  Kinds,        \* of scrapers
  PageSize,
  MaxPages,     \* zeonMarketMaxPages, and where page numbers stop mattering
  MaxChanges,   \* bound: products that come or go while a catalog is read
  MaxFailures,  \* maxEANLookupFailures
  FlushEvery,   \* eanFlushEvery
  Stubborn      \* kits whose lookup always fails

ASSUME VisitAssumption ==
  /\ Kits \subseteq Nat /\ Accessories \subseteq Kits /\ Stubborn \subseteq Kits
  /\ Kinds \subseteq {"index", "short", "empty"}
  /\ {PageSize, MaxPages, MaxFailures, FlushEvery} \subseteq Nat \ {0}
  /\ MaxChanges \in Nat
  /\ Catalogs \subseteq Seq(Seq(Kits)) \ {<<>>}

VARIABLES
  kind,      \* of the shop's scraper
  visit,     \* where collect is
  site,      \* the shop's listing, and whether it ignores the page number
  fetch,     \* the page asked for, and under which category each id was seen
  sets,      \* the kits of this run
  todo,      \* those still to look up, which happens in the order of their ids
  failures,  \* failed lookups in a row
  pending,   \* answers not saved yet
  stored,    \* kits in the database
  ean,       \* those with a barcode
  checked,   \* those with a lookup stamped less than eanRecheckAfter ago
  still,     \* category and id pairs that were listed all the time (history)
  left,      \* categories a product has left meanwhile (history)
  changes,   \* how often the listing changed meanwhile
  answered   \* what the shop told of each kit this month (history)

fetchVars == <<site, fetch, still, left, changes>>
lookupVars == <<sets, todo, failures, pending>>
dbVars == <<stored, ean, checked>>
vars == <<fetcherVars, kind, visit, fetchVars, lookupVars, dbVars, answered>>

-----------------------------------------------------------------------------
(* The shop. *)

NoSite == [lists |-> <<>>, repeats |-> FALSE]
NoFetch == [cat |-> 0, page |-> 0, seen |-> [k \in Kits |-> 0]]

Listing(s) == {p \in (DOMAIN s.lists) \X Kits : Contains(s.lists[p[1]], p[2])}

Page(s, c, page) ==
  LET list == s.lists[c]
      from == IF s.repeats THEN 0 ELSE (page - 1) * PageSize
  IN  SubSeq(list, from + 1, Smaller(from + PageSize, Len(list)))

(* A shop that tells the number of pages tells of no more than it needs.   *)
AllShown(s, c, page) == page * PageSize >= Len(s.lists[c])

Reading == visit \in {"index", "page"}

(* A product comes, anywhere in the list, or goes.                         *)
SiteChanges ==
  /\ Reading
  /\ changes < MaxChanges
  /\ changes' = changes + 1
  /\ \E c \in DOMAIN site.lists :
       LET list == site.lists[c] IN
       \/ \E k \in Kits, i \in 1 .. Len(list) + 1 :
            /\ ~Contains(list, k)
            /\ site' = [site EXCEPT !.lists[c] = InsertAt(list, i, k)]
            /\ UNCHANGED <<still, left>>
       \/ \E i \in DOMAIN list :
            /\ site' = [site EXCEPT !.lists[c] = RemoveAt(list, i)]
            /\ still' = still \ {<<c, list[i]>>}
            /\ left' = left \cup {c}
  /\ UNCHANGED <<fetcherVars, kind, visit, fetch, lookupVars, dbVars, answered>>

-----------------------------------------------------------------------------
(* FetchAll. *)

EndFetch ==
  /\ site' = NoSite /\ fetch' = NoFetch
  /\ still' = {} /\ left' = {} /\ changes' = 0

EndVisit ==
  /\ visit' = "off"
  /\ EndFetch
  /\ sets' = {} /\ todo' = {} /\ failures' = 0 /\ pending' = {}

StartVisit ==
  /\ visit = "off"
  /\ \E lists \in Catalogs, repeats \in BOOLEAN :
       /\ site' = [lists |-> lists, repeats |-> repeats]
       /\ still' = Listing([lists |-> lists])
  /\ visit' = IF kind = "index" THEN "index" ELSE "page"
  /\ fetch' = [NoFetch EXCEPT !.cat = 1, !.page = 1]
  /\ ctx' = "live"
  /\ NewFetcher
  /\ UNCHANGED <<kind, left, changes, lookupVars, dbVars, answered>>

Request ==
  /\ Reading
  /\ BeginGet
  /\ UNCHANGED <<kind, visit, fetchVars, lookupVars, dbVars, answered>>

(* The index page names the categories to read.                            *)
ReadIndex ==
  /\ visit = "index"
  /\ GetOk
  /\ visit' = "page"
  /\ UNCHANGED <<kind, fetchVars, lookupVars, dbVars, answered>>

(* The last category to list a product wins.                               *)
See(products) ==
  [k \in Kits |-> IF Contains(products, k) THEN fetch.cat ELSE fetch.seen[k]]

(* Mutation of LastPage: the page is taken for the last one too soon.      *)
LastPageEarly(products) ==
  CASE kind = "index" -> AllShown(site, fetch.cat, fetch.page + 1)
    [] kind = "short" -> Len(products) < PageSize
    [] kind = "empty" -> products = <<>>
LastPage(products) ==
  CASE kind = "index" -> AllShown(site, fetch.cat, fetch.page)
    [] kind = "short" -> Len(products) < PageSize
    [] kind = "empty" -> products = <<>>

(* Zeonmarket: a category's first page shows something, and the pages come *)
(* to an end.                                                              *)
Suspicious(products) ==
  /\ kind = "empty"
  /\ IF products = <<>> THEN fetch.page = 1 ELSE fetch.page = MaxPages

ReadPage ==
  /\ visit = "page"
  /\ GetOk
  /\ LET products == Page(site, fetch.cat, fetch.page)
         seen == See(products)
     IN  /\ ~Suspicious(products)
         /\ IF ~LastPage(products)
            THEN /\ fetch' = [fetch EXCEPT !.page = Smaller(@ + 1, MaxPages), !.seen = seen]
                 /\ visit' = "page"
            ELSE IF fetch.cat < Len(site.lists)
            THEN /\ fetch' = [fetch EXCEPT !.cat = @ + 1, !.page = 1, !.seen = seen]
                 /\ visit' = "page"
            ELSE /\ fetch' = [fetch EXCEPT !.seen = seen]
                 /\ visit' = "fetched"
  /\ UNCHANGED <<kind, site, still, left, changes, lookupVars, dbVars, answered>>

PageIsSuspicious ==
  /\ visit = "page"
  /\ GetOk
  /\ Suspicious(Page(site, fetch.cat, fetch.page))
  /\ EndVisit
  /\ UNCHANGED <<kind, dbVars, answered>>

(* Mutation of FetchFails: a page that fails is asked for again.           *)
FetchInsists ==
  /\ Reading
  /\ GetFails
  /\ UNCHANGED <<kind, visit, fetchVars, lookupVars, dbVars, answered>>

(* Any page that cannot be had fails the fetch as a whole.                 *)
FetchFails ==
  /\ Reading
  /\ GetFails
  /\ EndVisit
  /\ UNCHANGED <<kind, dbVars, answered>>

Seen == {k \in Kits : fetch.seen[k] # 0}
FilterKits(products) == products \ Accessories
Found == FilterKits(Seen)

-----------------------------------------------------------------------------
(* The run is stored. *)

(* Mutation of UpsertSet: a listing without a barcode erases the one known. *)
UpsertErases(carried) == (ean \ Found) \cup carried
UpsertSet(carried) == ean \cup carried

(* A shop that seemed to list nothing fails ("short"; "empty" has failed   *)
(* before), the shrink guard may refuse, the transaction may fail.         *)
NothingStored ==
  /\ visit = "fetched"
  /\ EndVisit
  /\ UNCHANGED <<fetcherVars, kind, dbVars, answered>>

(* Zeonmarket's cards carry no barcodes, the other listings may.           *)
Store ==
  /\ visit = "fetched"
  /\ ctx = "live"
  /\ kind = "short" => Seen # {}
  /\ stored' = stored \cup Found
  /\ \E carried \in IF kind = "empty" THEN {{}} ELSE {{}, Found} : ean' = UpsertSet(carried)
  /\ sets' = Found
  /\ EndFetch
  /\ visit' = "stored"
  /\ UNCHANGED <<fetcherVars, kind, todo, failures, pending, checked, answered>>

-----------------------------------------------------------------------------
(* Barcode lookups. *)

Due(k) == k \in stored \ (ean \cup checked)
Least(ids) == CHOOSE k \in ids : \A j \in ids : k <= j

(* Only one kind of shop has lookups, and they need the rows' state.       *)
NoLookups ==
  /\ visit = "stored"
  /\ EndVisit
  /\ UNCHANGED <<fetcherVars, kind, dbVars, answered>>

BeginLookups ==
  /\ visit = "stored"
  /\ ctx = "live"
  /\ kind = "short"
  /\ todo' = {k \in sets : Due(k)}
  /\ visit' = "lookups"
  /\ UNCHANGED <<fetcherVars, kind, fetchVars, sets, failures, pending, dbVars, answered>>

AskNext ==
  /\ visit = "lookups"
  /\ todo # {}
  /\ failures < MaxFailures
  /\ ctx = "live"
  /\ BeginGet
  /\ visit' = "asking"
  /\ UNCHANGED <<kind, fetchVars, lookupVars, dbVars, answered>>

LookupOk ==
  /\ visit = "asking"
  /\ Least(todo) \notin Stubborn
  /\ GetOk
  /\ \E answer \in {"nothing", "barcode"} :
       /\ pending' = pending \cup {<<Least(todo), answer>>}
       /\ answered' = [answered EXCEPT ![Least(todo)] = answer]
  /\ todo' = todo \ {Least(todo)}
  /\ failures' = 0
  /\ visit' = IF Cardinality(pending') >= FlushEvery THEN "flush" ELSE "lookups"
  /\ UNCHANGED <<kind, fetchVars, sets, dbVars>>

(* Mutation of FailuresAfter: the first failure ends the lookups.          *)
FailuresAfterOne(n) == MaxFailures
FailuresAfter(n) == n + 1

LookupFails ==
  /\ visit = "asking"
  /\ GetFails
  /\ todo' = todo \ {Least(todo)}
  /\ failures' = FailuresAfter(failures)
  /\ visit' = "lookups"
  /\ UNCHANGED <<kind, fetchVars, sets, pending, dbVars, answered>>

LookupsAreOver ==
  /\ visit = "lookups"
  /\ todo = {} \/ failures >= MaxFailures \/ ctx # "live"
  /\ visit' = "last flush"
  /\ UNCHANGED <<fetcherVars, kind, fetchVars, lookupVars, dbVars, answered>>

Flushing == visit \in {"flush", "last flush"}

(* A flush is over: the lookups go on, or the visit ends.                  *)
AfterFlush(rest) ==
  IF visit = "last flush"
  THEN EndVisit
  ELSE /\ visit' = "lookups"
       /\ pending' = rest
       /\ UNCHANGED <<fetchVars, sets, todo, failures>>

(* One transaction, under a context of its own: the end of the run's does  *)
(* not keep it from saving.                                                *)
RecordEANLookups ==
  /\ Flushing
  /\ ean' = ean \cup {k \in Kits : <<k, "barcode">> \in pending}
  /\ checked' = checked \cup {p[1] : p \in pending}
  /\ AfterFlush({})
  /\ UNCHANGED <<fetcherVars, kind, stored, answered>>

Forget(lost) == answered' = [k \in Kits |->
  IF \E p \in lost : p[1] = k THEN "unasked" ELSE answered[k]]

(* What is pending waits for the next flush; after the last it is lost.    *)
RecordFails ==
  /\ Flushing
  /\ pending # {}
  /\ IF visit = "last flush" THEN Forget(pending) ELSE UNCHANGED answered
  /\ AfterFlush(pending)
  /\ UNCHANGED <<fetcherVars, kind, dbVars>>

-----------------------------------------------------------------------------
Crash ==
  /\ visit # "off"
  /\ Forget(pending)
  /\ EndVisit
  /\ http' = NoGet
  /\ UNCHANGED <<ctx, requested, sent, kind, dbVars>>

(* Thirty days later. *)
MonthPasses ==
  /\ visit = "off"
  /\ checked' = {}
  /\ answered' = [k \in Kits |-> "unasked"]
  /\ UNCHANGED <<fetcherVars, kind, visit, fetchVars, lookupVars, stored, ean>>

GetStep ==
  /\ Pause \/ Transient \/ WaitOut
  /\ UNCHANGED <<kind, visit, fetchVars, lookupVars, dbVars, answered>>

(* The run's timeout, or SIGTERM: the same to a visit.                     *)
VisitIsCut ==
  /\ visit # "off"
  /\ Expire
  /\ UNCHANGED <<requested, http, sent, kind, visit, fetchVars, lookupVars, dbVars, answered>>

Init ==
  /\ kind \in Kinds
  /\ ctx = "live" /\ requested = FALSE /\ http = NoGet /\ sent = FALSE
  /\ visit = "off" /\ site = NoSite /\ fetch = NoFetch
  /\ still = {} /\ left = {} /\ changes = 0
  /\ sets = {} /\ todo = {} /\ failures = 0 /\ pending = {}
  /\ stored = {} /\ ean = {}
  /\ checked = {}
  /\ answered = [k \in Kits |-> "unasked"]

(* What collect does of itself. *)
Step ==
  \/ GetStep \/ Request
  \/ ReadIndex \/ ReadPage \/ PageIsSuspicious \/ FetchFails
  \/ NothingStored \/ Store \/ NoLookups \/ BeginLookups
  \/ AskNext \/ LookupOk \/ LookupFails \/ LookupsAreOver
  \/ RecordEANLookups \/ RecordFails

Next == StartVisit \/ Step \/ SiteChanges \/ VisitIsCut \/ Crash \/ MonthPasses

(* cron starts a collect every day. A step that can be taken is taken in   *)
(* the end, and the run's timeout passes.                                  *)
Spec ==
  /\ Init /\ [][Next]_vars
  /\ WF_vars(StartVisit) /\ WF_vars(Step) /\ WF_vars(VisitIsCut)

-----------------------------------------------------------------------------
(* Properties. *)

(* Every variable keeps its type.                                          *)
TypeOK ==
  /\ FetcherTypeOK
  /\ kind \in Kinds
  /\ visit \in {"off", "index", "page", "fetched", "stored", "lookups", "asking",
                "flush", "last flush"}
  /\ fetch \in [cat : 0 .. Len(site.lists), page : 0 .. MaxPages,
                seen : [Kits -> 0 .. Len(site.lists)]]
  /\ todo \subseteq sets /\ sets \subseteq Kits \ Accessories
  /\ failures \in 0 .. MaxFailures
  /\ pending \subseteq Kits \X {"nothing", "barcode"}
  /\ stored \subseteq Kits \ Accessories /\ ean \subseteq stored
  /\ checked \subseteq stored
  /\ answered \in [Kits -> {"unasked", "nothing", "barcode"}]

(* A fetch during which the shop left its listing alone, and heeded the    *)
(* page number, returns exactly what is listed, each product under the     *)
(* last category that lists it ("last category to see a product wins").    *)
FetchIsExact ==
  (visit = "fetched" /\ changes = 0 /\ ~site.repeats) =>
    \A k \in Kits :
      LET cats == {c \in DOMAIN site.lists : Contains(site.lists[c], k)}
      IN  IF cats = {} THEN fetch.seen[k] = 0
          ELSE fetch.seen[k] \in cats /\ \A c \in cats : c <= fetch.seen[k]

(* Whatever the shop does meanwhile, a fetch that succeeds misses a        *)
(* product listed all the time only if another left its category, and so   *)
(* moved it to a page read before. (GeeksHeaven's loop believes the number *)
(* of pages, so it would also take the same page for all of them.)         *)
FetchMissesForAReason ==
  (visit = "fetched" /\ ~(kind = "index" /\ site.repeats)) =>
    \A p \in still : fetch.seen[p[2]] # 0 \/ p[1] \in left

(* Types, and what a fetch tells of the shop.                              *)
FetchInv == TypeOK /\ FetchIsExact /\ FetchMissesForAReason

(* A request is sent no sooner than the shop asked for, after a 429 or 5xx *)
(* up to the cap, and never without the pause.                             *)
Polite == (http.step = "ask" /\ sent) => http.wait >= http.need

(* What the shop answered is pending, or saved for good: no later listing  *)
(* or lookup erases a barcode. What was lost is not taken for answered and *)
(* a lookup that failed leaves no stamp. Within thirty days the shop is    *)
(* asked again only for what was lost.                                     *)
AnswersAreKept ==
  /\ \A k \in Kits :
       LET saved == answered[k] # "unasked" /\ \A p \in pending : p[1] # k IN
       /\ saved <=> k \in checked
       /\ (saved /\ answered[k] = "barcode") => k \in ean
  /\ visit = "asking" => answered[Least(todo)] = "unasked"

(* However a shop pages, and if it never stops, every visit ends.          *)
VisitEnds == visit # "off" ~> visit = "off"

(* The steps in which nothing keeps a lookup from being made and saved: no *)
(* end of time, no crash, no failure but of fetches and stubborn kits.     *)
Untroubled ==
  \/ StartVisit \/ SiteChanges \/ MonthPasses
  \/ GetStep \/ Request
  \/ ReadIndex \/ ReadPage \/ PageIsSuspicious \/ FetchFails
  \/ NothingStored \/ Store \/ BeginLookups
  \/ AskNext \/ LookupOk \/ LookupsAreOver \/ RecordEANLookups
  \/ LookupFails /\ Least(todo) \in Stubborn

(* Few kits that can never be looked up do not starve the others: once     *)
(* nothing else goes wrong, a kit in the runs' catalogs gets its lookup    *)
(* (lookupEANs: "the next run carries on with the rest").                  *)
DueIsLookedUp ==
  <>[][Untroubled]_vars =>
    \A k \in Kits \ Stubborn :
      []<>(visit = "lookups" /\ k \in sets) => []<>~Due(k)
=============================================================================
