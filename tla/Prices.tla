------------------------------- MODULE Prices -------------------------------
(***************************************************************************)
(* Prices, from the exchange rate a collect starts with to what the web    *)
(* page shows: cmd/gunpla-collector/rates.go, internal/fx, price_history   *)
(* in internal/store, and the readers of it: search, products and price    *)
(* history (internal/catalog), the watch wizard (internal/watchlist).      *)
(* One collect at a time works through the shops; it may die at any point. *)
(* Rates are hundredths.                                                   *)
(***************************************************************************)
EXTENDS Matcher

CONSTANTS
    ShopOrder,      \* the shops, in the order a collect visits them
    Currency,       \* of each shop: "EUR" or "DKK"
    Kit,            \* the product of each listing, 0 for none
    Answers,        \* what the rate service may answer, 0 for no rate
    Fallback,       \* GUNPLA_DKK_EUR_RATE
    Catalogs,       \* Catalogs[s]: functions from some listings of s to [cents, stock]
    Legacy,         \* what the last shop listed before prices had EUR values
    Filters,        \* the searches
    MaxSpecWords,   \* the limits on a stored spec: words, and versions,
    MaxSpecPins,    \* listings,
    MaxWordLen,     \* bytes of a word or version
    MaxRuns         \* bound: runs

OfShop(s) == {i \in Listings : Shop[i] = s}

\* A shop lists some of its own listings, at prices that are not negative
\* (price.go).
MayList(s, cat) == DOMAIN cat \subseteq OfShop(s) /\ cat \in [DOMAIN cat -> [cents : Nat, stock : STRING]]

\* Only prices in kroner lacked a EUR value when the column was added
\* (migration 9).
ASSUME ShopsAssumption ==
    /\ ShopOrder \in Seq({Shop[i] : i \in Listings}) \ {<<>>}
    /\ \A i \in Listings : Currency[Shop[i]] \in {"EUR", "DKK"}
    /\ \A n \in 1 .. Len(ShopOrder) : \A cat \in Catalogs[ShopOrder[n]] : MayList(ShopOrder[n], cat)
    /\ MayList(ShopOrder[Len(ShopOrder)], Legacy) /\ Currency[ShopOrder[Len(ShopOrder)]] = "DKK"

\* The configured rate is positive (parseRate).
ASSUME RatesAssumption == Answers \subseteq Nat /\ Fallback \in Nat \ {0}

\* A spec may have a word, a version and a listing (spec.go).
ASSUME SpecAssumption == MaxSpecWords \in Nat \ {0} /\ MaxSpecPins \in Nat \ {0}

VARIABLES
    runs,       \* scrape_runs, by id: shop, status, and (history) what was applied
    history,    \* price_history, by id; rate 0: no EUR value (NULL) and no rate
    active,     \* the listings with is_active
    answer,     \* what the rate service answered the collect
    readable,   \* whether the collect could read the stored rates, if it tried
    rate,       \* DKK to EUR in the collect's rates, 0: no collect is running
    at,         \* the shop it is at
    current,    \* its run, 0 between two shops
    lastUsed    \* history: the rate of the last DKK prices a run stored, 0 for none

vars == <<runs, history, active, answer, readable, rate, at, current, lastUsed>>

RowIds == 1 .. Len(history)
NoListing == [i \in {} |-> 0]

TypeOK ==
    /\ \A k \in 1 .. Len(runs) : runs[k].status \in {"running", "success", "failed"}
    /\ \A r \in RowIds : history[r].set \in Listings /\ runs[history[r].run].status = "success"
    /\ \A r, q \in RowIds : history[r].set = history[q].set /\ history[r].run = history[q].run => r = q
    /\ active \subseteq {history[r].set : r \in RowIds}
    /\ at \in 1 .. Len(ShopOrder) + 1
    /\ current # 0 => rate # 0 /\ runs[current].status = "running"

-----------------------------------------------------------------------------
(* Rates.                                                                  *)

Plausible(r) == 5 <= r /\ r <= 50

InEUR(cents, r) == (2 * cents * r + 100) \div 200

\* [eur, rate] of a price.
ToEUR(cents, currency, r) ==
    IF currency = "EUR" THEN [eur |-> cents, rate |-> 100] ELSE [eur |-> InEUR(cents, r), rate |-> r]

CurrencyOf(row) == Currency[Shop[row.set]]

Newest(ids) == CHOOSE r \in ids : \A q \in ids : q <= r

LastRate ==
    LET used == {r \in RowIds : CurrencyOf(history[r]) = "DKK" /\ history[r].rate # 0}
    IN  IF used = {} THEN 0 ELSE history[Newest(used)].rate

Chosen(a, read) ==
    IF Plausible(a) THEN a ELSE IF read /\ LastRate # 0 THEN LastRate ELSE Fallback

\* Mutation of BackfillEUR: values are converted afresh.
BackfillAll(r) ==
    [k \in RowIds |-> IF CurrencyOf(history[k]) = "DKK"
                      THEN [history[k] EXCEPT !.eur = InEUR(history[k].cents, r), !.rate = r]
                      ELSE history[k]]
BackfillEUR(r) ==
    [k \in RowIds |-> IF history[k].rate = 0 /\ CurrencyOf(history[k]) = "DKK"
                      THEN [history[k] EXCEPT !.eur = InEUR(history[k].cents, r), !.rate = r]
                      ELSE history[k]]

-----------------------------------------------------------------------------
(* A collect.                                                              *)

\* The rows of a catalog, one after the other.
RowsOf(cat, run, shop, r) ==
    LET Priced(i) == ToEUR(cat[i].cents, Currency[shop], r)
        Row(i) == [set |-> i, run |-> run, cents |-> cat[i].cents, stock |-> cat[i].stock,
                   eur |-> Priced(i).eur, rate |-> Priced(i).rate]
        ids == SetToSeq(DOMAIN cat)
    IN  [k \in 1 .. Len(ids) |-> Row(ids[k])]

Init ==
    /\ \/ runs = <<>> /\ history = <<>> /\ active = {}
       \/ LET s == ShopOrder[Len(ShopOrder)]
              rows == RowsOf(Legacy, 1, s, 0)
          IN  /\ runs = <<[shop |-> s, status |-> "success", catalog |-> Legacy]>>
              /\ history = [k \in DOMAIN rows |-> [rows[k] EXCEPT !.eur = 0, !.rate = 0]]
              /\ active = DOMAIN Legacy
    /\ answer = 0 /\ readable = TRUE /\ rate = 0 /\ at = 1 /\ current = 0 /\ lastUsed = 0

\* loadRates: that the stored rate cannot be read, or that the backfill fails,
\* is only logged.
LoadRates ==
    /\ rate = 0 /\ Len(runs) < MaxRuns
    /\ answer' \in Answers
    /\ readable' \in {TRUE, Plausible(answer')}
    /\ rate' = Chosen(answer', readable')
    /\ history' = BackfillEUR(rate') \/ UNCHANGED history
    /\ at' = 1
    /\ UNCHANGED <<runs, active, current, lastUsed>>

StartRun ==
    /\ rate # 0 /\ current = 0 /\ at <= Len(ShopOrder) /\ Len(runs) < MaxRuns
    /\ runs' = Append(runs, [shop |-> ShopOrder[at], status |-> "running", catalog |-> NoListing])
    /\ current' = Len(runs')
    /\ UNCHANGED <<history, active, answer, readable, rate, at, lastUsed>>

NextShop == at' = at + 1 /\ current' = 0 /\ UNCHANGED <<answer, readable, rate>>

\* Mutation of StillActive: nothing is deactivated.
DeactivateNone(cat, s) == active \cup DOMAIN cat
\* UpsertSet and DeactivateMissing.
StillActive(cat, s) == (active \ OfShop(s)) \cup DOMAIN cat

ApplyRun ==
    /\ current # 0
    /\ LET s == ShopOrder[at]
       IN  \E cat \in Catalogs[s] :
             /\ history' = history \o RowsOf(cat, current, s, rate)
             /\ active' = StillActive(cat, s)
             /\ runs' = [runs EXCEPT ![current].status = "success", ![current].catalog = cat]
             /\ lastUsed' = IF Currency[s] = "DKK" /\ DOMAIN cat # {} THEN rate ELSE lastUsed
    /\ NextShop

\* Mutation of FailRun: what was stored before the failure stays.
FailRunKeepsRows ==
    /\ current # 0
    /\ runs' = [runs EXCEPT ![current].status = "failed"]
    /\ \E cat \in Catalogs[ShopOrder[at]] :
        history' = history \o RowsOf(cat, current, ShopOrder[at], rate)
    /\ NextShop
    /\ UNCHANGED <<active, lastUsed>>

\* The fetch fails, or the transaction does and is rolled back.
FailRun ==
    /\ current # 0
    /\ runs' = [runs EXCEPT ![current].status = "failed"]
    /\ NextShop
    /\ UNCHANGED <<history, active, lastUsed>>

\* The collect is done, or dies: a run it was in the middle of stays "running".
Leave ==
    /\ rate # 0
    /\ rate' = 0 /\ current' = 0 /\ at' = 1
    /\ UNCHANGED <<runs, history, active, answer, readable, lastUsed>>

Next == LoadRates \/ StartRun \/ ApplyRun \/ FailRun \/ Leave

Spec == Init /\ [][Next]_vars

-----------------------------------------------------------------------------
(* Search: an active listing with its newest record and its lowest prices. *)

NoPrice == 0
LowestOf(S) == IF S = {} THEN NoPrice ELSE Least(S)

SearchRow(i) ==
    LET ids == {r \in RowIds : history[r].set = i}
        cur == history[Newest(ids)]
    IN  [set |-> i, cents |-> cur.cents, stock |-> cur.stock, eur |-> cur.eur, hasEUR |-> cur.rate # 0,
         lowest |-> LowestOf({history[r].cents : r \in ids}),
         lowestEUR |-> LowestOf({history[r].eur : r \in {q \in ids : history[q].rate # 0}})]

SearchSets(shop) ==
    {SearchRow(i) : i \in {j \in active : shop \in {None, Shop[j]} /\ \E r \in RowIds : history[r].set = j}}

\* A filter's names are those its text and its expression let through.
Search(f) ==
    {row \in SearchSets(f.shop) :
        /\ row.set \in f.names
        /\ f.grade = None \/ (f.grade = "none" /\ Grade[row.set] = None) \/ f.grade = Grade[row.set]
        /\ f.all \/ row.stock # "out_of_stock"}

\* Mutation of BuyableEUR: no EUR value counts as 0.
BuyableUnpriced(row) == row.stock # "out_of_stock"
BuyableEUR(row) == row.stock # "out_of_stock" /\ row.hasEUR

\* Mutation of Rank: the stock does not count.
RankByPrice(row) == <<0, IF row.hasEUR THEN row.eur ELSE row.cents>>
Rank(row) ==
    IF BuyableEUR(row) THEN <<0, row.eur>>
    ELSE IF row.stock = "out_of_stock" THEN <<2, IF row.hasEUR THEN row.eur ELSE row.cents>>
    ELSE <<1, row.cents>>

\* Listings come in the order of their names, here that of their ids.
Before(p, q) ==
    LET a == Rank(p)
        b == Rank(q)
    IN  a[1] < b[1] \/ (a[1] = b[1] /\ (a[2] < b[2] \/ (a[2] = b[2] /\ p.set < q.set)))

FirstOf(rows) == CHOOSE p \in rows : \A q \in rows \ {p} : Before(p, q)

Cheapest(rows) ==
    IF Cardinality({Shop[row.set] : row \in rows}) < 2 THEN {}
    ELSE {row \in rows : BuyableEUR(row) /\ \A q \in rows : BuyableEUR(q) => row.eur <= q.eur}

Key(row) == IF Kit[row.set] = 0 THEN -row.set ELSE Kit[row.set]

\* The kits of a search, each with its rows, which are shown sorted by Before.
Products(f) ==
    LET found == Search(f)
        Rows(key) == {row \in found : Key(row) = key}
    IN  {[key |-> key, rows |-> Rows(key), first |-> FirstOf(Rows(key)), cheapest |-> Cheapest(Rows(key))] :
            key \in {Key(row) : row \in found}}

\* What the page shows of a row.
ResultJSON(row) ==
    IF row.hasEUR /\ Currency[Shop[row.set]] # "EUR"
    THEN [current |-> row.eur, lowest |-> row.lowestEUR] ELSE [current |-> row.cents, lowest |-> row.lowest]

-----------------------------------------------------------------------------
(* Price history of one listing: a point for each record with a EUR value, *)
(* a gap for each successful run of its shop without a record.  Runs come  *)
(* in the order of their ids.                                              *)

\* Mutation of SuccessfulRuns: whatever became of them.
AllRuns(s) == {k \in DOMAIN runs : runs[k].shop = s}
SuccessfulRuns(s) == {k \in DOMAIN runs : runs[k].shop = s /\ runs[k].status = "success"}

Records(i) == {history[r] : r \in {q \in RowIds : history[q].set = i}}

\* By run.
Entries(i) ==
    LET recorded == {rec.run : rec \in Records(i)}
        Rec(k) == CHOOSE rec \in Records(i) : rec.run = k
        shown == {k \in SuccessfulRuns(Shop[i]) :
                     recorded # {} /\ k >= Least(recorded) /\ (k \in recorded => Rec(k).rate # 0)}
    IN  [k \in shown |->
            IF k \in recorded
            THEN [listed |-> TRUE, stock |-> Rec(k).stock, eur |-> Rec(k).eur, cents |-> Rec(k).cents]
            ELSE [listed |-> FALSE]]

-----------------------------------------------------------------------------
(* The watch wizard.  A variant is the set of a name's version words.      *)

VariantKey(i) == NewKey(Name[i]).distinct

Follows(spec, i) ==
    /\ spec.grade = None \/ Grade[i] = None \/ spec.grade = Grade[i]
    /\ SameSuit(spec, NewKey(Name[i]), spec.loose)

DefaultSpec(i) ==
    LET k == NewKey(Name[i])
    IN  [grade |-> Grade[i], model |-> k.model, tokens |-> k.tokens, loose |-> FALSE,
         variants |-> {VariantKey(i)}, include |-> {}, exclude |-> {}]

SpecFromSet(i) ==
    IF Follows(DefaultSpec(i), i) THEN DefaultSpec(i) ELSE [DefaultSpec(i) EXCEPT !.include = {i}]

\* Words, grades and stems are their text; NewKey leaves ASCII only.
ModelLen(m) ==
    IF m = NoModel THEN 0
    ELSE Len(m.stem) + Len(m.tail) + (IF m.slash = <<>> THEN 0 ELSE 1 + Len(m.slash))

BaseVariant == "~base"

\* The words of a variant are stored as one, joined by "+".
VariantLen(v) ==
    IF v = {} THEN Len(BaseVariant) ELSE MapThenSumSet(Len, v) + Cardinality(v) - 1

FollowsSomething(spec) == spec.model # NoModel \/ spec.tokens # {} \/ spec.include # {}

Validate(spec) ==
    /\ FollowsSomething(spec)
    /\ Cardinality(spec.tokens) <= MaxSpecWords /\ Cardinality(spec.variants) <= MaxSpecWords
    /\ Cardinality(spec.include) <= MaxSpecPins /\ Cardinality(spec.exclude) <= MaxSpecPins
    /\ ModelLen(spec.model) <= MaxWordLen /\ Len(spec.grade) <= MaxWordLen
    /\ \A w \in spec.tokens : Len(w) <= MaxWordLen
    /\ \A v \in spec.variants : VariantLen(v) <= MaxWordLen

Selected(spec, i) == spec.variants = {} \/ VariantKey(i) \in spec.variants

Buyable(row) == row.hasEUR /\ row.stock # "out_of_stock"

Preview(spec) ==
    LET rows == SearchSets(None)
        suit == {row \in rows : Follows(spec, row.set)}
        matches == {row \in suit : Selected(spec, row.set)} \cup {row \in rows : row.set \in spec.include}
        live == {row \in matches : row.set \notin spec.exclude}
    IN  [live     |-> live,
         excluded |-> matches \ live,
         best     |-> {row \in live : Buyable(row) /\ \A q \in live : Buyable(q) => row.eur <= q.eur},
         missing  |-> spec.variants \ {VariantKey(row.set) : row \in suit}]

-----------------------------------------------------------------------------
(* Properties.                                                             *)

\* A price is worth in euros what it was when it was stored, whatever the
\* rates of later collects and however often they fill in missing values. And
\* a collect that cannot fetch a plausible rate converts with that of the last
\* run that stored kroner prices, if it can read it, not with one that was filled in for older
\* prices, nor with the configured one.
StoredEURStays ==
    /\ Len(history) <= Len(history')
    /\ \A r \in RowIds : /\ history'[r].cents = history[r].cents
                         /\ history[r].rate # 0 => history'[r] = history[r]
RateIsLastUsed ==
    rate = 0 /\ rate' # 0 /\ ~Plausible(answer') /\ readable' /\ lastUsed # 0 => rate' = lastUsed
EURIsKept == [][StoredEURStays /\ RateIsLastUsed]_vars

\* The search and the chart of a listing agree: it is on sale just when the
\* chart does not end in a gap, and then it costs what the chart ends with.
\* The lowest price the page shows is not above the current one: both are in
\* one currency, however the rates moved.
SearchAgreesWithChart ==
    /\ \A i \in {history[r].set : r \in RowIds} :
        LET es == Entries(i) IN
        DOMAIN es # {} =>
            LET e == es[Newest(DOMAIN es)]
            IN  IF i \in active
                THEN SearchRow(i).hasEUR => e.listed /\ e.eur = SearchRow(i).eur /\ e.stock = SearchRow(i).stock
                ELSE ~e.listed
    /\ \A row \in SearchSets(None) : ResultJSON(row).lowest <= ResultJSON(row).current

\* The chart shows what the shop listed in its successful runs since the
\* listing was first seen: no gap for a run that failed or died, no missing
\* gap, and a missing point only for a price without a EUR value.
ChartIsWhatWasListed ==
    \A i \in Listings :
        LET done == {k \in 1 .. Len(runs) : runs[k].shop = Shop[i] /\ runs[k].status = "success"}
            seen == {k \in done : i \in DOMAIN runs[k].catalog}
            due == {k \in done : \E j \in seen : j <= k}
            es == Entries(i)
        IN  /\ {k \in DOMAIN es : ~es[k].listed} = due \ seen
            /\ \A k \in DOMAIN es : es[k].listed =>
                    k \in seen /\ es[k].cents = runs[k].catalog[i].cents
            /\ \A k \in seen \ DOMAIN es : \E rec \in Records(i) : rec.run = k /\ rec.rate = 0

\* In every search the listing marked cheapest is the first of its kit.
CheapestComesFirst ==
    \A f \in Filters : \A kit \in Products(f) : kit.cheapest # {} => kit.first \in kit.cheapest

\* A watch on the listings of a kit that several shops sell takes the same
\* ones for the best offer that the search marks cheapest.
BestIsCheapest ==
    \A kit \in Products([shop |-> None, grade |-> None, names |-> Listings, all |-> TRUE]) :
        Cardinality({Shop[row.set] : row \in kit.rows}) > 1 =>
            LET pins == {row.set : row \in kit.rows}
            IN  Preview([DefaultSpec(Least(pins)) EXCEPT !.include = pins, !.exclude = Listings \ pins]).best
                    = kit.cheapest

\* What a spec can hold of a listing: not too many words besides those of its
\* version, none of them, its model or its grade too long, and the version's
\* words, joined, not too long.
CanBeHeld(i) ==
    LET k == NewKey(Name[i])
    IN  /\ Cardinality(k.tokens) <= MaxSpecWords
        /\ \A w \in k.tokens : Len(w) <= MaxWordLen
        /\ ModelLen(k.model) <= MaxWordLen /\ Len(Grade[i]) <= MaxWordLen
        /\ VariantLen(k.distinct) <= MaxWordLen

\* "Watch this kit" makes a spec that follows the listing it was made from, and
\* no listing of another grade. Saving it is refused just when a spec cannot
\* hold what the listing's name says, never for having nothing to follow.
WatchFollowsItsKit ==
    \A row \in SearchSets(None) :
        LET spec == SpecFromSet(row.set)
            p == Preview(spec)
        IN  /\ Validate(spec) <=> CanBeHeld(row.set)
            /\ row \in p.live
            /\ \A q \in p.live : ~GradesConflict(Facts(q.set), Facts(row.set))

\* The watch page and the search agree on what a kit is and on its best offer.
WatchAgreesWithSearch == BestIsCheapest /\ WatchFollowsItsKit
=============================================================================
