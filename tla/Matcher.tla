------------------------------- MODULE Matcher -------------------------------
(***************************************************************************)
(* internal/matcher: which listings of different shops are the same kit.   *)
(*                                                                         *)
(* A name is a sequence of parts, already cut into words and classified:   *)
(* the regular expressions that do that are not modelled, what NewKey then *)
(* makes of the parts is.  Scores are fractions, here multiples of 1/Full: *)
(* exact for names of up to ten words.                                     *)
(***************************************************************************)
EXTENDS Integers, Sequences, FiniteSets, SequencesExt

CONSTANTS
    Listings,           \* set ids, natural numbers
    Shop, Name, Grade,  \* of each listing; Name is a sequence of parts
    LoneLetters         \* the words of one letter

ASSUME IdsAssumption == Listings \subseteq Nat \ {0} /\ IsFiniteSet(Listings)

Full == 252000          \* score 1
Fraction(n, d) == (n * Full) \div d

None == ""              \* an empty Go string: no grade, no series, no method
NoModel == <<>>
NoBarcode == <<>>

-----------------------------------------------------------------------------
(* Names.  part.kind is "word", "version" (a version word), "number" (a    *)
(* bare number), "code" (a model number), "kitno" ("Model Kit 35"), "rgno" *)
(* ("RG35"), "rg" (the word) or "noise".                                   *)

OfKind(name, kind) == SelectSeq(name, LAMBDA p : p.kind = kind)

First(parts, default) == IF parts = <<>> THEN default ELSE parts[1].text

Has(name, kind) == OfKind(name, kind) # <<>>

SeriesNumber(name) ==
    IF Has(name, "rgno") THEN First(OfKind(name, "rgno"), None)
    ELSE IF Has(name, "rg") THEN First(OfKind(name, "kitno"), None) ELSE None

Texts(name, kinds) == {p.text : p \in {q \in ToSet(name) : q.kind \in kinds}}

\* A model number has a stem that ends in a digit, letters after it, what
\* follows a slash, the last of its hyphenated parts when that is a number,
\* and the words it would fall into if it were not the first of its name.
NewKey(name) ==
    LET model == First(OfKind(name, "code"), NoModel)
        others == Texts(name, {"code"}) \ {model}
    IN  [model    |-> IF model = NoModel THEN NoModel
                      ELSE [stem |-> model.stem, tail |-> model.tail, slash |-> model.slash],
         distinct |-> (Texts(name, {"version", "number"}) \cup UNION {c.numbers : c \in others})
                      \ (IF model = NoModel THEN {} ELSE {model.last}),
         tokens   |-> Texts(name, {"word"}) \cup UNION {c.words : c \in others},
         series   |-> SeriesNumber(name)]

SameModel(m, n) ==
    LET Length(c) == Len(c.tail) + (IF c.slash = <<>> THEN 0 ELSE 1 + Len(c.slash))
        longer == IF Length(m) > Length(n) THEN m ELSE n
    IN  /\ m.stem = n.stem
        /\ \/ m.tail = n.tail
           \/ /\ longer.slash # <<>>
              /\ \/ IsPrefix(m.tail, n.tail) /\ Len(n.tail) >= Len(m.tail) + 2
                 \/ IsPrefix(n.tail, m.tail) /\ Len(m.tail) >= Len(n.tail) + 2

\* A barcode is its digits.
NormalizeEAN(digits) ==
    LET d == CASE Len(digits) = 12 -> <<0>> \o digits
               [] Len(digits) = 13 -> digits
               [] Len(digits) = 14 /\ digits[1] = 0 -> Tail(digits)
               [] OTHER -> NoBarcode
    IN  IF Cardinality(ToSet(d)) <= 1 THEN NoBarcode ELSE d

-----------------------------------------------------------------------------
(* Verdicts on two entries.                                                *)

Verdict(score, accept) == [score |-> score, accept |-> accept]
Different == Verdict(0, FALSE)

\* Words the other name lacks and that probably are none.
WithoutFiller(toks, other) ==
    LET unshared == toks \ other
        letters == unshared \cap LoneLetters
    IN  toks \ (({"unit"} \cap unshared) \cup (IF Cardinality(letters) >= 3 THEN letters ELSE {}))

Shared(s, t) == Cardinality(s \cap t)
Jaccard(s, t) == Fraction(Shared(s, t), Cardinality(s \cup t))
Overlap(s, t) ==
    Fraction(Shared(s, t), IF Cardinality(t) < Cardinality(s) THEN Cardinality(t) ELSE Cardinality(s))

OverlapAccept == Fraction(3, 4)
OverlapJaccardAccept == Fraction(3, 5)
JaccardAccept == Fraction(4, 5)
SuggestFloor == Fraction(1, 2)

SimilarWords(s, t) == Overlap(s, t) >= OverlapAccept /\ Jaccard(s, t) >= OverlapJaccardAccept

GradesConflict(a, b) == a.grade # None /\ b.grade # None /\ a.grade # b.grade

BothModels(k, l) == k.model # NoModel /\ l.model # NoModel

\* The suit, its words s and t compared, for names that print the same model.
JudgeWords(s, t) ==
    IF s = {} /\ t = {} THEN Verdict(Full, TRUE)
    ELSE IF s = {} \/ t = {} THEN Verdict(SuggestFloor, FALSE)
    ELSE Verdict((Overlap(s, t) + Jaccard(s, t)) \div 2, SimilarWords(s, t))

MinTokens(a, b) ==
    IF (a.key.model = NoModel) # (b.key.model = NoModel) /\ a.grade # None /\ a.grade = b.grade
    THEN 1 ELSE 2

JudgeNames(a, b) ==
    LET k == a.key
        l == b.key
        s == WithoutFiller(k.tokens, l.tokens)
        t == WithoutFiller(l.tokens, k.tokens)
    IN  IF GradesConflict(a, b) THEN Different
        ELSE IF k.series # None /\ l.series # None
             THEN IF k.series = l.series THEN Verdict(Full, TRUE) ELSE Different
        ELSE IF k.distinct # l.distinct THEN Different
        ELSE IF BothModels(k, l)
             THEN IF SameModel(k.model, l.model) THEN JudgeWords(s, t) ELSE Different
        ELSE IF Cardinality(s) < MinTokens(a, b) \/ Cardinality(t) < MinTokens(a, b) THEN Different
        ELSE Verdict(Jaccard(s, t), Jaccard(s, t) >= JaccardAccept)

Judge(a, b) ==
    LET v == JudgeNames(a, b)
        filler == \/ WithoutFiller(a.key.tokens, b.key.tokens) # a.key.tokens
                  \/ WithoutFiller(b.key.tokens, a.key.tokens) # b.key.tokens
    IN  IF v.score > 0 /\ filler THEN [v EXCEPT !.score = @ - Fraction(1, 100)] ELSE v

Facts(i) == [grade |-> Grade[i], key |-> NewKey(Name[i])]

verdict == [p \in Listings \X Listings |-> Judge(Facts(p[1]), Facts(p[2]))]

-----------------------------------------------------------------------------
(* Match.  A listing on sale is known by its id: what never changes of it  *)
(* are the constants, what does is in the function es from the ids of the  *)
(* listings to match to records of ean, product and manual.  Groups are a  *)
(* function root from listings to the one that stands for their group      *)
(* (dsu.find).                                                             *)

GroupOf(root, i) == {j \in DOMAIN root : root[j] = root[i]}

ShopsOf(root, i) == {Shop[j] : j \in GroupOf(root, i)}

Locked(es, root, i) == \E j \in GroupOf(root, i) : es[j].manual

\* Mutation of MayMerge: only the two listings are compared.
MayMergeOfTwoShops(es, root, i, j) == ~Locked(es, root, i) /\ ~Locked(es, root, j) /\ Shop[i] # Shop[j]
MayMerge(es, root, i, j) ==
    /\ ~Locked(es, root, i) /\ ~Locked(es, root, j)
    /\ ShopsOf(root, i) \cap ShopsOf(root, j) = {}

Union(es, root, i, j) ==
    IF root[i] # root[j] /\ MayMerge(es, root, i, j)
    THEN [k \in DOMAIN root |-> IF root[k] = root[j] THEN root[i] ELSE root[k]]
    ELSE root

Least(S) == CHOOSE i \in S : \A j \in S : i <= j

\* Mutation of ManualRoots: each stays alone.
ManualApart(es) == [i \in DOMAIN es |-> i]
\* 1. What was linked by hand.
ManualRoots(es) ==
    [i \in DOMAIN es |->
        IF es[i].manual
        THEN Least({j \in DOMAIN es : es[j].manual /\ es[j].product = es[i].product})
        ELSE i]

\* Mutation of Barcoded: only listings in no product yet.
BarcodedUngrouped(es, i) ==
    {j \in DOMAIN es : es[j].product = 0 /\ ~es[j].manual /\ es[j].ean # NoBarcode /\ es[j].ean = es[i].ean}
\* 2. Equal barcodes: each listing joins the first one that has its barcode.
Barcoded(es, i) == {j \in DOMAIN es : ~es[j].manual /\ es[j].ean # NoBarcode /\ es[j].ean = es[i].ean}

JoinBarcode(es, root, i) ==
    IF i \in DOMAIN es /\ i \in Barcoded(es, i) THEN Union(es, root, Least(Barcoded(es, i)), i) ELSE root

\* 3. Similar names, the best pair first.
Better(p, q) ==
    LET P == verdict[p].score
        Q == verdict[q].score
    IN  \/ P > Q
        \/ P = Q /\ p[1] < q[1]
        \/ P = Q /\ p[1] = q[1] /\ p[2] < q[2]

NearPairs == {p \in Listings \X Listings :
                 p[1] < p[2] /\ Shop[p[1]] # Shop[p[2]] /\ verdict[p].score >= SuggestFloor}
AllPairs == SetToSortSeq(NearPairs, Better)

\* Those of them that Match compares.
Comparable(es, p) == {p[1], p[2]} \subseteq DOMAIN es /\ ~es[p[1]].manual /\ ~es[p[2]].manual

JoinNames(es, root, p) ==
    IF Comparable(es, p) /\ verdict[p].accept THEN Union(es, root, p[1], p[2]) ELSE root

\* One step for each listing, then one for each pair.
LastId == Max(Listings \cup {0})
Steps == LastId + Cardinality(NearPairs)

Join(es, root, n) ==
    IF n <= LastId THEN JoinBarcode(es, root, n) ELSE JoinNames(es, root, AllPairs[n - LastId])

Roots(es) ==
    LET After[n \in 0 .. Steps] == IF n = 0 THEN ManualRoots(es) ELSE Join(es, After[n - 1], n)
    IN  After

BarcodeRoots(es) == Roots(es)[LastId]
MatchRoots(es) == Roots(es)[Steps]

\* How a listing got into its group: a group of two or more that is not
\* there after step 2 was made by names.
Method(es, root, i) ==
    IF es[i].manual THEN "manual"
    ELSE IF GroupOf(BarcodeRoots(es), i) # {i} THEN "ean"
    ELSE IF GroupOf(root, i) # {i} THEN "name" ELSE None

\* The pairs Match reports as declined: the best one for two groups, which it
\* tells apart by their roots, in this order.
Declined(es, root, p) ==
    /\ Comparable(es, p) /\ ~verdict[p].accept /\ root[p[1]] # root[p[2]]
    /\ ~Locked(es, root, p[1]) /\ ~Locked(es, root, p[2])

SameGroups(root, p, q) == root[p[1]] = root[q[1]] /\ root[p[2]] = root[q[2]]

Suggested(es, root, n) ==
    /\ Declined(es, root, AllPairs[n])
    /\ \A h \in 1 .. n - 1 :
         Declined(es, root, AllPairs[h]) => ~SameGroups(root, AllPairs[h], AllPairs[n])

Suggestions(es) ==
    LET root == MatchRoots(es)
    IN  {AllPairs[k] : k \in {n \in 1 .. Cardinality(NearPairs) : Suggested(es, root, n)}}

-----------------------------------------------------------------------------
(* Review: the pairs a person should look at.                              *)

VersionSubset(k, l) == k.distinct \subseteq l.distinct \/ l.distinct \subseteq k.distinct

SameSuitScore(k, l) ==
    IF BothModels(k, l)
    THEN IF SameModel(k.model, l.model) THEN JudgeWords(k.tokens, l.tokens).score ELSE 0
    ELSE IF k.tokens = {} \/ l.tokens = {} THEN 0 ELSE Jaccard(k.tokens, l.tokens)

VersionDiffers(a, b) ==
    /\ a.key.distinct # b.key.distinct /\ VersionSubset(a.key, b.key)
    /\ SameSuitScore(a.key, b.key) >= SuggestFloor

Kind(a, b) ==
    IF Judge(a, b).score >= SuggestFloor THEN "close"
    ELSE IF VersionDiffers(a, b) THEN "version" ELSE None

kind == [p \in Listings \X Listings |-> Kind(Facts(p[1]), Facts(p[2]))]

Reviewable(es, root, i, j) ==
    /\ Shop[i] # Shop[j] /\ ~es[i].manual /\ ~es[j].manual /\ root[i] # root[j]
    /\ es[i].ean = NoBarcode \/ es[j].ean = NoBarcode \/ es[i].ean = es[j].ean
    /\ ~GradesConflict(Facts(i), Facts(j))

\* The listings that keep an acceptable pair from being linked, as far as
\* the review names them.
Blockers(root, i, j) ==
    {k \in GroupOf(root, i) : Shop[k] = Shop[j]} \cup {k \in GroupOf(root, j) : Shop[k] = Shop[i]}

ReviewItems(es) ==
    LET root == MatchRoots(es)
        listed == {p \in (DOMAIN es) \X (DOMAIN es) :
                      p[1] < p[2] /\ Reviewable(es, root, p[1], p[2]) /\ kind[p] # None}
    IN  {[a |-> p[1], b |-> p[2], kind |-> kind[p], accepted |-> verdict[p].accept,
          blocked |-> verdict[p].accept /\ Blockers(root, p[1], p[2]) # {}] : p \in listed}

-----------------------------------------------------------------------------
(* SameSuit: does a watch made from one listing follow another?            *)

WatchJaccard == Fraction(3, 4)

SameSuit(spec, other, loose) ==
    IF BothModels(spec, other)
    THEN /\ SameModel(spec.model, other.model)
         /\ \/ spec.tokens = {} \/ other.tokens = {}
            \/ IF loose THEN spec.tokens \subseteq other.tokens ELSE SimilarWords(spec.tokens, other.tokens)
    ELSE /\ spec.tokens # {}
         /\ IF loose THEN spec.tokens \subseteq other.tokens
            ELSE Jaccard(spec.tokens, other.tokens) >= WatchJaccard
=============================================================================
