---------------------------- MODULE VisitProofs ----------------------------
(***************************************************************************)
(* Proofs about ShopVisit: whatever the listing does meanwhile, for any    *)
(* kits, page size, retries and limits, a fetch returns what it should,    *)
(* requests keep their distance, and answers are neither lost unnoticed    *)
(* nor asked for again.                                                    *)
(***************************************************************************)
EXTENDS ShopVisit, NaturalOrder, SequenceTheorems

-----------------------------------------------------------------------------
(* The inductive invariant.                                                *)

\* A request has waited for what was asked before it may be sent.
HttpInv ==
  /\ FetcherTypeOK
  /\ sent => requested
  /\ http.step # "none" => requested /\ http.backoff >= RetryBackoff
  /\ http.step = "pause" => http.need <= Delay
  /\ http.step = "wait" => http.wait >= http.need /\ http.attempt < Retries
  /\ Polite

LookingUp == visit \in {"lookups", "asking", "flush", "last flush"}
Fetching == Reading \/ visit = "fetched"

FetchTypes ==
  /\ kind \in Kinds
  /\ visit \in {"off", "index", "page", "fetched", "stored", "lookups", "asking",
                "flush", "last flush"}
  /\ site \in [lists : Seq(Seq(Kits)), repeats : BOOLEAN]
  /\ fetch \in [cat : 0 .. Len(site.lists), page : 0 .. MaxPages,
                seen : [Kits -> 0 .. Len(site.lists)]]
  /\ changes \in Nat
  /\ still \subseteq Nat \X Kits
  /\ Fetching => fetch.cat \in 1 .. Len(site.lists) /\ fetch.page \in 1 .. MaxPages
  /\ visit = "fetched" => fetch.cat = Len(site.lists)

LookupTypes ==
  /\ todo \subseteq sets /\ sets \subseteq Kits \ Accessories
  /\ failures \in 0 .. MaxFailures
  /\ pending \subseteq sets \X {"nothing", "barcode"}
  /\ stored \subseteq Kits \ Accessories /\ ean \subseteq stored
  /\ checked \subseteq stored
  /\ answered \in [Kits -> {"unasked", "nothing", "barcode"}]
  /\ ~LookingUp => todo = {} /\ pending = {}
  /\ sets \subseteq stored
  /\ visit = "asking" => todo # {} /\ failures < MaxFailures

\* What is still to be asked was never answered; what is pending was.
AnswersInv ==
  /\ AnswersAreKept
  /\ \A p \in pending : answered[p[1]] = p[2]
  /\ \A k \in todo : Due(k) /\ \A p \in pending : p[1] # k

\* Position i of category c was on a page read.
Read(c, i) ==
  c < fetch.cat \/ visit = "fetched" \/ (c = fetch.cat /\ i <= (fetch.page - 1) * PageSize)

\* While the listing stays the same, what was read was seen, under the last
\* category.
ExactSoFar ==
  (Fetching /\ changes = 0 /\ ~site.repeats) =>
    \A k \in Kits :
      /\ fetch.seen[k] # 0 => /\ fetch.seen[k] \in DOMAIN site.lists /\ fetch.seen[k] <= fetch.cat
                              /\ Contains(site.lists[fetch.seen[k]], k)
      /\ \A c \in DOMAIN site.lists : \A i \in DOMAIN site.lists[c] :
            site.lists[c][i] = k /\ Read(c, i) => c <= fetch.seen[k]

\* A product listed all the time, in a category that no other left, moves but
\* to later positions.
NoneMissedSoFar ==
  /\ Fetching => still \subseteq Listing(site)
  /\ (Fetching /\ ~(kind = "index" /\ site.repeats)) =>
       \A p \in still : p[1] \in left \/
         \A i \in DOMAIN site.lists[p[1]] :
           /\ site.lists[p[1]][i] = p[2] /\ Read(p[1], i)
           /\ site.repeats => p[1] < fetch.cat \/ visit = "fetched"
           => fetch.seen[p[2]] # 0

FetchPart == FetchTypes /\ ExactSoFar /\ NoneMissedSoFar
LookupPart == LookupTypes /\ AnswersInv

VisitInv == HttpInv /\ FetchPart /\ LookupPart

-----------------------------------------------------------------------------
(* Requests keep their distance.                                           *)

FetcherStep ==
  \/ BeginGet \/ Pause \/ Transient \/ WaitOut \/ GetOk \/ GetFails
  \/ ctx' = "live" /\ NewFetcher
  \/ Expire /\ UNCHANGED <<requested, http, sent>>
  \/ http' = NoGet /\ UNCHANGED <<ctx, requested, sent>>
  \/ UNCHANGED fetcherVars

LEMMA StepOfFetcher == [Next]_vars => FetcherStep
BY DEF Next, Step, vars, fetcherVars, FetcherStep, StartVisit, GetStep, Request, ReadIndex, ReadPage,
       PageIsSuspicious, FetchFails, NothingStored, Store, NoLookups, BeginLookups, AskNext, LookupOk,
       LookupFails, LookupsAreOver, RecordEANLookups, RecordFails, SiteChanges, VisitIsCut, Crash, MonthPasses

Calls == [step : {"none", "pause", "ask", "wait"}, attempt : 0 .. Retries,
          backoff : Nat, wait : Nat, need : Nat]

\* What the end of a wait makes of a call.
LEMMA CallAgain ==
  ASSUME NEW h \in Calls, NEW g, h.attempt < Retries,
         g = [h EXCEPT !.step = "ask", !.attempt = @ + 1, !.backoff = 2 * @]
  PROVE  g \in Calls /\ g.step = "ask" /\ g.wait = h.wait /\ g.need = h.need /\ g.backoff = 2 * h.backoff
<1>1. h.attempt \in 0 .. Retries /\ h.backoff \in Nat /\ Retries \in Nat
  BY FetcherAssumption DEF FetcherAssumption, Calls
<1>2. h.attempt + 1 \in 0 .. Retries /\ 2 * h.backoff \in Nat
  BY <1>1
<1>3. PICK a \in 0 .. Retries, b \in Nat : a = h.attempt + 1 /\ b = 2 * h.backoff
  BY <1>2
<1>4. g = [h EXCEPT !.step = "ask", !.attempt = a, !.backoff = b]
  BY <1>3
<1> QED
  BY <1>3, <1>4 DEF Calls

\* The wait before a retry covers the pause and what the shop asked for, up to
\* the cap, and is not above the cap and the back-off.
LEMMA RetryWaits ==
  ASSUME NEW backoff \in Nat, backoff >= RetryBackoff, NEW asked \in Nat
  PROVE  /\ RetryWait(backoff, asked) \in Nat
         /\ Larger(Delay, Smaller(asked, MaxRetryAfter)) \in Nat
         /\ RetryWait(backoff, asked) >= Larger(Delay, Smaller(asked, MaxRetryAfter))
         /\ RetryWait(backoff, asked) <= Larger(MaxRetryAfter, backoff)
<1>1. /\ Delay \in Nat /\ RetryBackoff \in Nat /\ MaxRetryAfter \in Nat
      /\ Delay <= RetryBackoff /\ Delay <= MaxRetryAfter
  BY FetcherAssumption DEF FetcherAssumption
<1>2. CASE asked > backoff
  BY <1>1, <1>2 DEF RetryWait, Smaller, Larger
<1>3. CASE ~(asked > backoff)
  BY <1>1, <1>3 DEF RetryWait, Smaller, Larger
<1> QED
  BY <1>2, <1>3

LEMMA HttpStep == HttpInv /\ FetcherStep => HttpInv'
<1> SUFFICES ASSUME HttpInv, FetcherStep
             PROVE  HttpInv'
  OBVIOUS
<1>0. FetcherTypeOK
  BY DEF HttpInv
<1>1. /\ http \in Calls /\ http.wait <= Larger(MaxRetryAfter, http.backoff)
      /\ ctx \in ContextStates /\ requested \in BOOLEAN /\ sent \in BOOLEAN
  BY <1>0 DEF FetcherTypeOK, Calls
<1>2. /\ http.attempt \in Nat /\ http.backoff \in Nat /\ http.wait \in Nat /\ http.need \in Nat
      /\ {Delay, RetryBackoff, MaxRetryAfter} \subseteq Nat
  BY <1>1, FetcherAssumption DEF Calls, FetcherAssumption
<1>3. CASE http' = NoGet /\ ctx' \in ContextStates /\ requested' \in BOOLEAN /\ sent' \in BOOLEAN
           /\ (sent' => requested')
  <2>1. NoGet \in Calls /\ NoGet.step = "none" /\ NoGet.wait = 0 /\ NoGet.backoff = 0
    BY FetcherAssumption DEF FetcherAssumption, NoGet, Calls
  <2>2. 0 <= Larger(MaxRetryAfter, 0)
    BY <1>2 DEF Larger
  <2> QED
    BY <1>3, <2>1, <2>2 DEF HttpInv, FetcherTypeOK, Calls, Polite
<1>4. CASE BeginGet
  <2>1. /\ http' \in Calls /\ http'.step \in {"pause", "ask"} /\ http'.wait = 0 /\ http'.backoff = RetryBackoff
        /\ http'.step = "ask" => ~requested
        /\ http'.need = IF sent THEN Delay ELSE 0
        /\ requested' = TRUE /\ UNCHANGED <<ctx, sent>>
    BY <1>1, <1>2, <1>4, FetcherAssumption DEF FetcherAssumption, BeginGet, Calls
  <2>2. 0 <= Larger(MaxRetryAfter, RetryBackoff) /\ http'.need <= Delay /\ http'.need \in Nat
    BY <1>2, <2>1 DEF Larger
  <2>3. ~ (http'.step = "ask" /\ sent')
    BY <2>1 DEF HttpInv
  <2> QED
    BY <1>1, <1>2, <2>1, <2>2, <2>3 DEF HttpInv, FetcherTypeOK, Calls, Polite
<1>5. CASE Pause
  <2>1. http.step = "pause" /\ http' = [http EXCEPT !.step = "ask", !.wait = Delay] /\ UNCHANGED <<ctx, requested, sent>>
    BY <1>5 DEF Pause
  <2>2. /\ http' \in Calls /\ http'.step = "ask" /\ http'.wait = Delay
        /\ http'.need = http.need /\ http'.backoff = http.backoff
    BY <1>1, <1>2, <2>1 DEF Calls
  <2>3. Delay >= http.need /\ Delay <= Larger(MaxRetryAfter, http.backoff)
    BY <1>2, <2>1, FetcherAssumption DEF FetcherAssumption, HttpInv, Larger
  <2> QED
    BY <1>1, <2>1, <2>2, <2>3 DEF HttpInv, FetcherTypeOK, Calls, Polite
<1>6. CASE Transient
  <2>1. PICK asked \in RetryAfters :
          http' = [http EXCEPT !.step = "wait", !.wait = RetryWait(http.backoff, asked),
                               !.need = Larger(Delay, Smaller(asked, MaxRetryAfter))]
    BY <1>6 DEF Transient
  <2>2. http.step = "ask" /\ sent' = TRUE /\ UNCHANGED <<ctx, requested>>
    BY <1>6 DEF Transient
  <2>3. http.backoff >= RetryBackoff /\ requested
    BY <2>2 DEF HttpInv
  <2>4. asked \in Nat
    BY FetcherAssumption DEF FetcherAssumption
  <2>5. PICK wait \in Nat, need \in Nat :
          /\ wait = RetryWait(http.backoff, asked) /\ need = Larger(Delay, Smaller(asked, MaxRetryAfter))
          /\ wait >= need /\ wait <= Larger(MaxRetryAfter, http.backoff)
    BY <1>2, <2>3, <2>4, RetryWaits
  <2>6. http' = [http EXCEPT !.step = "wait", !.wait = wait, !.need = need]
    BY <2>1, <2>5
  <2>7. /\ http' \in Calls /\ http'.step = "wait" /\ http'.wait = wait /\ http'.need = need
        /\ http'.backoff = http.backoff /\ http'.attempt = http.attempt
    BY <1>1, <2>6 DEF Calls
  <2>8. http.attempt < Retries
    BY <1>6 DEF Transient
  <2>9. FetcherTypeOK'
    BY <1>1, <2>2, <2>5, <2>7 DEF FetcherTypeOK, Calls
  <2> QED
    BY <2>2, <2>3, <2>5, <2>7, <2>8, <2>9 DEF HttpInv, Polite
<1>7. CASE WaitOut
  <2>1. /\ http.step = "wait" /\ http' = [http EXCEPT !.step = "ask", !.attempt = @ + 1, !.backoff = 2 * @]
        /\ UNCHANGED <<ctx, requested, sent>>
    BY <1>7 DEF WaitOut
  <2>2. http.attempt < Retries
    BY <2>1 DEF HttpInv
  <2>3. /\ http' \in Calls /\ http'.step = "ask" /\ http'.wait = http.wait
        /\ http'.need = http.need /\ http'.backoff = 2 * http.backoff
    BY <1>1, <2>1, <2>2, CallAgain
  <2>4. http.wait <= Larger(MaxRetryAfter, 2 * http.backoff) /\ 2 * http.backoff >= http.backoff
    BY <1>1, <1>2 DEF Larger
  <2>5. http.wait >= http.need /\ requested /\ http.backoff >= RetryBackoff
    BY <2>1 DEF HttpInv
  <2>6. 2 * http.backoff >= RetryBackoff
    BY <1>2, <2>4, <2>5
  <2> QED
    BY <1>1, <2>1, <2>3, <2>4, <2>5, <2>6 DEF HttpInv, FetcherTypeOK, Calls, Polite
<1>8. CASE GetOk \/ GetFails
  <2>1. http' = NoGet /\ ctx' = ctx /\ requested' = requested /\ sent' \in BOOLEAN /\ (sent' => requested')
    BY <1>1, <1>8 DEF GetOk, GetFails, HttpInv
  <2> QED
    BY <1>1, <1>3, <2>1
<1>9. CASE ctx' = "live" /\ NewFetcher
  BY <1>3, <1>9 DEF NewFetcher, ContextStates
<1>10. CASE http' = NoGet /\ UNCHANGED <<ctx, requested, sent>>
  BY <1>1, <1>3, <1>10 DEF HttpInv
<1>11. CASE (Expire \/ UNCHANGED ctx) /\ UNCHANGED <<requested, http, sent>>
  BY <1>1, <1>11 DEF Expire, ContextStates, HttpInv, FetcherTypeOK, Polite
<1> QED
  BY <1>4, <1>5, <1>6, <1>7, <1>8, <1>9, <1>10, <1>11 DEF FetcherStep, fetcherVars

LEMMA HttpAlways == Spec => []HttpInv
<1>1. ASSUME Init
      PROVE  HttpInv
  <2>1. NoGet \in Calls /\ NoGet.step = "none" /\ NoGet.wait = 0 /\ NoGet.backoff = 0
    BY FetcherAssumption DEF FetcherAssumption, NoGet, Calls
  <2>2. 0 <= Larger(MaxRetryAfter, 0)
    BY FetcherAssumption DEF FetcherAssumption, Larger
  <2> QED
    BY <1>1, <2>1, <2>2 DEF Init, HttpInv, FetcherTypeOK, Calls, Polite, ContextStates
<1>2. Init => HttpInv
  BY <1>1
<1>3. HttpInv /\ [Next]_vars => HttpInv'
  BY StepOfFetcher, HttpStep
<1> QED
  BY <1>2, <1>3, PTL DEF Spec

\* A request is sent no sooner than the pause and what the shop asked for, up
\* to the cap, allow.
THEOREM RequestsArePolite == Spec => []Polite
<1>1. HttpInv => Polite
  BY DEF HttpInv
<1> QED
  BY <1>1, HttpAlways, PTL
-----------------------------------------------------------------------------
(* Pages and lists.                                                        *)

LEMMA Piece ==
  ASSUME NEW list \in Seq(Kits), NEW m \in Nat \ {0}, NEW n \in 0 .. Len(list)
  PROVE  /\ SubSeq(list, m, n) \in Seq(Kits)
         /\ Len(SubSeq(list, m, n)) = IF m <= n THEN n - m + 1 ELSE 0
         /\ \A i \in 1 .. n - m + 1 : SubSeq(list, m, n)[i] = list[m + i - 1]
<1>1. m \in Int /\ n \in Int /\ \A i \in m .. n : list[i] \in Kits
  <2>1. Len(list) \in Nat
    OBVIOUS
  <2> QED
    BY <2>1
<1> QED
  BY <1>1, SubSeqProperties

LEMMA PagesAddUp ==
  ASSUME NEW m \in Nat, NEW n \in Nat, m <= n
  PROVE  /\ n * PageSize \in Nat /\ m * PageSize <= n * PageSize
         /\ (n + 1) * PageSize = n * PageSize + PageSize
<1>1. PageSize \in Nat
  BY VisitAssumption DEF VisitAssumption
<1>2. PICK s \in Nat : s = PageSize
  BY <1>1
<1>3. PICK d \in Nat : n = m + d
  <2>1. n - m \in Nat /\ n = m + (n - m)
    OBVIOUS
  <2> QED
    BY <2>1
<1>4. n * s \in Nat /\ m * s \in Nat /\ d * s \in Nat
  OBVIOUS
<1>5. (m + d) * s = m * s + d * s
  OBVIOUS
<1>6. (n + 1) * s = n * s + s
  OBVIOUS
<1> QED
  BY <1>2, <1>3, <1>4, <1>5, <1>6

LEMMA PageStart ==
  ASSUME NEW n \in Nat, n > 0
  PROVE  (n - 1) * PageSize \in Nat
<1>1. PICK m \in Nat : m = n - 1
  OBVIOUS
<1>2. m * PageSize \in Nat
  BY PagesAddUp
<1> QED
  BY <1>1, <1>2

\* A page shows what is listed between its ends, and is short only at the end
\* of the list.
LEMMA PageShows ==
  ASSUME NEW list \in Seq(Kits), NEW from \in Nat
  PROVE  LET page == SubSeq(list, from + 1, Smaller(from + PageSize, Len(list))) IN
         /\ \A k : Contains(page, k) <=>
              \E i \in 1 .. Len(list) : from < i /\ i <= from + PageSize /\ list[i] = k
         /\ Len(page) < PageSize \/ page = <<>> => Len(list) < from + PageSize
         /\ page = <<>> => Len(list) <= from
<1> DEFINE to == Smaller(from + PageSize, Len(list))
           page == SubSeq(list, from + 1, to)
<1>1. PageSize \in Nat /\ PageSize > 0 /\ Len(list) \in Nat
  BY VisitAssumption, LenProperties DEF VisitAssumption
<1>2. to \in Nat /\ to <= Len(list) /\ to <= from + PageSize
      /\ (to = Len(list) \/ to = from + PageSize)
  BY <1>1 DEF Smaller
<1> HIDE DEF to
<1>3. /\ page \in Seq(Kits)
      /\ Len(page) = IF from + 1 <= to THEN to - (from + 1) + 1 ELSE 0
      /\ \A i \in 1 .. to - (from + 1) + 1 : page[i] = list[from + 1 + i - 1]
  <2>1. from + 1 \in Nat \ {0} /\ to \in 0 .. Len(list)
    BY <1>1, <1>2
  <2> QED
    BY <2>1, Piece DEF page
<1> HIDE DEF page
<1>4. Len(page) = (IF from < to THEN to - from ELSE 0) /\ \A i \in 1 .. to - from : page[i] = list[from + i]
  BY <1>2, <1>3
<1>5. ASSUME NEW k
      PROVE  Contains(page, k) <=>
               \E i \in 1 .. Len(list) : from < i /\ i <= from + PageSize /\ list[i] = k
  <2>1. ASSUME NEW j \in 1 .. Len(page), page[j] = k
        PROVE  \E i \in 1 .. Len(list) : from < i /\ i <= from + PageSize /\ list[i] = k
    <3>1. from < to /\ j \in 1 .. to - from
      BY <1>2, <1>4, <2>1
    <3>2. from + j \in 1 .. Len(list) /\ from < from + j /\ from + j <= from + PageSize
      BY <1>1, <1>2, <3>1
    <3> QED
      BY <1>4, <2>1, <3>1, <3>2
  <2>2. ASSUME NEW i \in 1 .. Len(list), from < i, i <= from + PageSize, list[i] = k
        PROVE  \E j \in 1 .. Len(page) : page[j] = k
    <3>1. i - from \in 1 .. to - from /\ from < to /\ from + (i - from) = i
      BY <1>1, <1>2, <2>2
    <3>2. i - from \in 1 .. Len(page) /\ page[i - from] = list[from + (i - from)]
      BY <1>4, <3>1
    <3> QED
      BY <2>2, <3>1, <3>2
  <2> QED
    BY <2>1, <2>2 DEF Contains
<1>6. page = <<>> => Len(page) = 0
  OBVIOUS
<1>7. /\ Len(page) < PageSize \/ page = <<>> => Len(list) < from + PageSize
      /\ page = <<>> => Len(list) <= from
  BY <1>1, <1>2, <1>4, <1>6
<1> QED
  BY <1>5, <1>7 DEF page, to

LEMMA Inserted ==
  ASSUME NEW s \in Seq(Kits), NEW j \in 1 .. Len(s) + 1, NEW k \in Kits
  PROVE  LET t == InsertAt(s, j, k) IN
         /\ t \in Seq(Kits)
         /\ \A e : Contains(s, e) => Contains(t, e)
         /\ \A i \in 1 .. Len(t) : t[i] # k => \E h \in 1 .. Len(s) : h <= i /\ s[h] = t[i]
<1> DEFINE a == SubSeq(s, 1, j - 1)  b == SubSeq(s, j, Len(s))
           ak == a \o <<k>>  t == ak \o b
<1>1. Len(s) \in Nat /\ j \in Nat /\ j - 1 \in Int /\ j \in Int /\ Len(s) \in Int /\ 1 \in Int
      /\ \A i \in 1 .. Len(s) : s[i] \in Kits
  OBVIOUS
<1>2. /\ a \in Seq(Kits) /\ Len(a) = j - 1
      /\ \A i \in 1 .. j - 1 : a[i] = s[i]
  <2>1. j - 1 \in 0 .. Len(s) /\ 1 \in Nat \ {0}
    BY <1>1
  <2>2. /\ a \in Seq(Kits) /\ Len(a) = IF 1 <= j - 1 THEN (j - 1) - 1 + 1 ELSE 0
        /\ \A i \in 1 .. (j - 1) - 1 + 1 : a[i] = s[1 + i - 1]
    BY <2>1, Piece
  <2> HIDE DEF a
  <2> QED
    BY <1>1, <2>2
<1>3. /\ b \in Seq(Kits) /\ Len(b) = Len(s) - j + 1
      /\ \A i \in 1 .. Len(s) - j + 1 : b[i] = s[j + i - 1]
  <2>1. Len(s) \in 0 .. Len(s) /\ j \in Nat \ {0}
    BY <1>1
  <2>2. /\ b \in Seq(Kits) /\ Len(b) = IF j <= Len(s) THEN Len(s) - j + 1 ELSE 0
        /\ \A i \in 1 .. Len(s) - j + 1 : b[i] = s[j + i - 1]
    BY <2>1, Piece
  <2> HIDE DEF b
  <2> QED
    BY <1>1, <2>2
<1> HIDE DEF a, b
<1>4. /\ ak \in Seq(Kits) /\ Len(ak) = j
      /\ \A i \in 1 .. j : ak[i] = IF i <= j - 1 THEN a[i] ELSE k
  <2>1. <<k>> \in Seq(Kits) /\ Len(<<k>>) = 1 /\ <<k>>[1] = k
    OBVIOUS
  <2>2. /\ ak \in Seq(Kits) /\ Len(ak) = Len(a) + Len(<<k>>)
        /\ \A i \in 1 .. Len(a) + Len(<<k>>) : ak[i] = IF i <= Len(a) THEN a[i] ELSE <<k>>[i - Len(a)]
    BY <1>2, <2>1, ConcatProperties, Zenon
  <2> HIDE DEF ak
  <2>3. \A i \in 1 .. j : i <= j - 1 \/ i - (j - 1) = 1
    BY <1>1
  <2> QED
    BY <1>1, <1>2, <2>1, <2>2, <2>3
<1> HIDE DEF ak
<1>5. /\ t \in Seq(Kits) /\ Len(t) = j + (Len(s) - j + 1)
      /\ \A i \in 1 .. j + (Len(s) - j + 1) : t[i] = IF i <= j THEN ak[i] ELSE b[i - j]
  <2>1. /\ t \in Seq(Kits) /\ Len(t) = Len(ak) + Len(b)
        /\ \A i \in 1 .. Len(ak) + Len(b) : t[i] = IF i <= Len(ak) THEN ak[i] ELSE b[i - Len(ak)]
    BY <1>3, <1>4, ConcatProperties, Zenon
  <2> HIDE DEF t
  <2> QED
    BY <1>3, <1>4, <2>1
<1> HIDE DEF t
<1>6. Len(t) = Len(s) + 1
  BY <1>1, <1>5
<1>7. \A i \in 1 .. Len(t) :
        t[i] = IF i < j THEN s[i] ELSE IF i = j THEN k ELSE s[i - 1]
  <2> TAKE i \in 1 .. Len(t)
  <2>1. CASE i < j
    <3>1. i \in 1 .. j - 1 /\ i \in 1 .. j /\ i <= j /\ i <= j - 1
      BY <1>1, <1>6, <2>1
    <3> QED
      BY <1>2, <1>4, <1>5, <1>6, <2>1, <3>1
  <2>2. CASE i = j
    <3>1. i \in 1 .. j /\ ~(i <= j - 1) /\ i <= j /\ ~(i < j)
      BY <1>1, <2>2
    <3> QED
      BY <1>4, <1>5, <2>2, <3>1
  <2>3. CASE i > j
    <3>1. i - j \in 1 .. Len(s) - j + 1 /\ ~(i <= j) /\ ~(i < j) /\ i # j /\ j + (i - j) - 1 = i - 1
      BY <1>1, <1>6, <2>3
    <3> QED
      BY <1>3, <1>5, <3>1
  <2> QED
    BY <1>1, <1>6, <2>1, <2>2, <2>3
<1>8. ASSUME NEW e, Contains(s, e)
      PROVE  Contains(t, e)
  <2>1. PICK h \in 1 .. Len(s) : s[h] = e
    BY <1>8 DEF Contains
  <2>2. CASE h < j
    BY <1>1, <1>6, <1>7, <2>1, <2>2 DEF Contains
  <2>3. CASE h >= j
    <3>1. h + 1 \in 1 .. Len(t) /\ ~(h + 1 < j) /\ h + 1 # j /\ (h + 1) - 1 = h
      BY <1>1, <1>6, <2>3
    <3> QED
      BY <1>7, <2>1, <3>1 DEF Contains
  <2> QED
    BY <1>1, <2>2, <2>3
<1>9. ASSUME NEW i \in 1 .. Len(t), t[i] # k
      PROVE  \E h \in 1 .. Len(s) : h <= i /\ s[h] = t[i]
  <2>1. i < j \/ i > j
    BY <1>1, <1>7, <1>9
  <2>2. CASE i < j
    BY <1>1, <1>6, <1>7, <2>2
  <2>3. CASE i > j
    <3>1. i - 1 \in 1 .. Len(s) /\ i - 1 <= i /\ ~(i < j) /\ i # j
      BY <1>1, <1>6, <2>3
    <3> QED
      BY <1>7, <3>1
  <2> QED
    BY <2>1, <2>2, <2>3
<1> QED
  BY <1>5, <1>8, <1>9 DEF t, ak, a, b, InsertAt

LEMMA Removed ==
  ASSUME NEW s \in Seq(Kits), NEW j \in 1 .. Len(s)
  PROVE  LET t == RemoveAt(s, j) IN
         /\ t \in Seq(Kits)
         /\ \A e : Contains(s, e) /\ e # s[j] => Contains(t, e)
<1> DEFINE a == SubSeq(s, 1, j - 1)  b == SubSeq(s, j + 1, Len(s))  t == a \o b
<1>1. Len(s) \in Nat /\ j \in Nat /\ j - 1 \in Int /\ j + 1 \in Int /\ Len(s) \in Int /\ 1 \in Int
      /\ \A i \in 1 .. Len(s) : s[i] \in Kits
  OBVIOUS
<1>2. /\ a \in Seq(Kits) /\ Len(a) = j - 1
      /\ \A i \in 1 .. j - 1 : a[i] = s[i]
  <2>1. j - 1 \in 0 .. Len(s) /\ 1 \in Nat \ {0}
    BY <1>1
  <2>2. /\ a \in Seq(Kits) /\ Len(a) = IF 1 <= j - 1 THEN (j - 1) - 1 + 1 ELSE 0
        /\ \A i \in 1 .. (j - 1) - 1 + 1 : a[i] = s[1 + i - 1]
    BY <2>1, Piece
  <2> HIDE DEF a
  <2> QED
    BY <1>1, <2>2
<1>3. /\ b \in Seq(Kits) /\ Len(b) = Len(s) - j
      /\ \A i \in 1 .. Len(s) - j : b[i] = s[j + i]
  <2>1. Len(s) \in 0 .. Len(s) /\ j + 1 \in Nat \ {0}
    BY <1>1
  <2>2. /\ b \in Seq(Kits) /\ Len(b) = IF j + 1 <= Len(s) THEN Len(s) - (j + 1) + 1 ELSE 0
        /\ \A i \in 1 .. Len(s) - (j + 1) + 1 : b[i] = s[j + 1 + i - 1]
    BY <2>1, Piece
  <2> HIDE DEF b
  <2> QED
    BY <1>1, <2>2
<1> HIDE DEF a, b
<1>4. /\ t \in Seq(Kits) /\ Len(t) = Len(s) - 1
      /\ \A i \in 1 .. Len(s) - 1 : t[i] = IF i < j THEN s[i] ELSE s[i + 1]
  <2>1. /\ t \in Seq(Kits) /\ Len(t) = Len(a) + Len(b)
        /\ \A i \in 1 .. Len(a) + Len(b) : t[i] = IF i <= Len(a) THEN a[i] ELSE b[i - Len(a)]
    BY <1>2, <1>3, ConcatProperties, Zenon
  <2> HIDE DEF t
  <2>2. Len(t) = Len(s) - 1
    BY <1>1, <1>2, <1>3, <2>1
  <2>3. ASSUME NEW i \in 1 .. Len(s) - 1
        PROVE  t[i] = IF i < j THEN s[i] ELSE s[i + 1]
    <3>1. i \in 1 .. Len(a) + Len(b)
      BY <1>1, <1>2, <1>3
    <3>2. CASE i < j
      BY <1>1, <1>2, <2>1, <3>1, <3>2
    <3>3. CASE i >= j
      <4>1. i - Len(a) \in 1 .. Len(s) - j /\ j + (i - Len(a)) = i + 1 /\ ~(i <= Len(a))
        BY <1>1, <1>2, <3>3
      <4>2. t[i] = b[i - Len(a)]
        BY <2>1, <3>1, <4>1
      <4> QED
        BY <1>1, <1>3, <3>3, <4>1, <4>2
    <3> QED
      BY <1>1, <3>2, <3>3
  <2> QED
    BY <2>1, <2>2, <2>3
<1> HIDE DEF t
<1>5. ASSUME NEW e, Contains(s, e), e # s[j]
      PROVE  Contains(t, e)
  <2>1. PICK h \in 1 .. Len(s) : s[h] = e
    BY <1>5 DEF Contains
  <2>2. CASE h < j
    <3>1. h \in 1 .. Len(t) /\ h \in 1 .. Len(s) - 1
      BY <1>1, <1>4, <2>2
    <3> QED
      BY <1>4, <2>1, <2>2, <3>1 DEF Contains
  <2>3. CASE h > j
    <3>1. h - 1 \in 1 .. Len(t) /\ ~(h - 1 < j) /\ (h - 1) + 1 = h /\ h - 1 \in 1 .. Len(s) - 1
      BY <1>1, <1>4, <2>3
    <3> QED
      BY <1>4, <2>1, <3>1 DEF Contains
  <2> QED
    BY <1>1, <1>5, <2>1, <2>2, <2>3
<1> QED
  BY <1>4, <1>5 DEF t, a, b, RemoveAt
-----------------------------------------------------------------------------
(* A fetch sees what is listed.                                            *)

LEMMA FetchKept ==
  ASSUME FetchPart, UNCHANGED <<kind, fetchVars>>, Fetching' => Fetching,
         visit' = "fetched" => visit = "fetched", visit = "fetched" => visit' # "page" /\ visit' # "index",
         visit' \in {"off", "index", "page", "fetched", "stored", "lookups", "asking", "flush", "last flush"}
  PROVE  FetchPart'
<1>1. UNCHANGED <<kind, site, fetch, still, left, changes>>
  BY DEF fetchVars
<1>2. FetchTypes'
  BY <1>1 DEF FetchPart, FetchTypes, Fetching, Reading
<1>3. Fetching' => (visit = "fetched" <=> visit' = "fetched")
  BY DEF Fetching, Reading
<1>4. ExactSoFar'
  BY <1>1, <1>3 DEF FetchPart, ExactSoFar, Read
<1>5. NoneMissedSoFar'
  BY <1>1, <1>3 DEF FetchPart, NoneMissedSoFar, Read, Listing
<1> QED
  BY <1>2, <1>4, <1>5 DEF FetchPart

LEMMA FetchOver ==
  ASSUME kind \in Kinds, UNCHANGED kind, EndFetch, visit' \in {"off", "stored"}
  PROVE  FetchPart'
<1>1. NoSite \in [lists : Seq(Seq(Kits)), repeats : BOOLEAN] /\ Len(NoSite.lists) = 0
  BY DEF NoSite
<1>2. MaxPages \in Nat /\ 0 \in 0 .. 0 /\ 0 \in 0 .. MaxPages
  BY VisitAssumption DEF VisitAssumption
<1>3. NoFetch \in [cat : 0 .. 0, page : 0 .. MaxPages, seen : [Kits -> 0 .. 0]]
  BY <1>2 DEF NoFetch
<1>4. FetchTypes'
  BY <1>1, <1>3 DEF FetchTypes, EndFetch, Fetching, Reading
<1>5. ExactSoFar' /\ NoneMissedSoFar'
  BY DEF ExactSoFar, NoneMissedSoFar, Fetching, Reading
<1> QED
  BY <1>4, <1>5 DEF FetchPart

LEMMA FetchBegins == FetchPart /\ StartVisit => FetchPart'
<1> SUFFICES ASSUME FetchPart, StartVisit
             PROVE  FetchPart'
  OBVIOUS
<1>1. PICK lists \in Catalogs, repeats \in BOOLEAN :
        site' = [lists |-> lists, repeats |-> repeats] /\ still' = Listing([lists |-> lists])
  BY DEF StartVisit
<1>2. lists \in Seq(Seq(Kits)) /\ lists # <<>>
  BY VisitAssumption DEF VisitAssumption
<1>3. /\ site' \in [lists : Seq(Seq(Kits)), repeats : BOOLEAN] /\ (site.lists)' = lists
      /\ still' = Listing(site')
  BY <1>1, <1>2 DEF Listing
<1>4. Len(lists) \in Nat /\ 0 \in 0 .. Len(lists) /\ 1 \in 1 .. Len(lists)
      /\ 1 \in 0 .. Len(lists)
  BY <1>2, EmptySeq
<1>5. 1 \in 1 .. MaxPages /\ 1 \in 0 .. MaxPages
  BY VisitAssumption DEF VisitAssumption
<1>6. fetch' = [cat |-> 1, page |-> 1, seen |-> [k \in Kits |-> 0]]
  BY DEF StartVisit, NoFetch
<1>7. visit' \in {"index", "page"} /\ kind' = kind /\ changes' = changes
  BY DEF StartVisit
<1>8. still' \subseteq Nat \X Kits
  BY <1>2, <1>3 DEF Listing
<1>9. FetchTypes'
  BY <1>3, <1>4, <1>5, <1>6, <1>7, <1>8 DEF FetchPart, FetchTypes
<1>10. \A c, i : c \in 1 .. Len(lists) /\ i \in 1 .. Len(lists[c]) => ~Read(c, i)'
  <2>1. PageSize \in Nat /\ (1 - 1) * PageSize = 0
    BY VisitAssumption DEF VisitAssumption
  <2> QED
    BY <1>6, <1>7, <2>1 DEF Read
<1>11. DOMAIN lists = 1 .. Len(lists) /\ \A c \in DOMAIN lists : DOMAIN lists[c] = 1 .. Len(lists[c])
  BY <1>2
<1>12. ExactSoFar'
  BY <1>3, <1>6, <1>10, <1>11 DEF ExactSoFar
<1>13. \A p \in still' : p[1] \in DOMAIN lists
  BY <1>3 DEF Listing
<1>14. NoneMissedSoFar'
  BY <1>3, <1>10, <1>11, <1>13 DEF NoneMissedSoFar
<1> QED
  BY <1>9, <1>12, <1>14 DEF FetchPart

\* After a page: what is read then was read before, or is on the page.
LEMMA ReadAfterPage ==
  ASSUME FetchTypes, ReadPage, ~(kind = "index" /\ site.repeats),
         NEW c \in DOMAIN site.lists, NEW i \in DOMAIN site.lists[c],
         Read(c, i)', site.repeats => c < fetch.cat' \/ visit' = "fetched"
  PROVE  \/ c < fetch.cat
         \/ c = fetch.cat /\ ~site.repeats /\ Read(c, i)
         \/ c = fetch.cat /\ Contains(Page(site, fetch.cat, fetch.page), site.lists[c][i])
<1> DEFINE page == Page(site, fetch.cat, fetch.page)
           from == IF site.repeats THEN 0 ELSE (fetch.page - 1) * PageSize
<1>1. /\ site.lists \in Seq(Seq(Kits)) /\ fetch.cat \in 1 .. Len(site.lists)
      /\ fetch.page \in 1 .. MaxPages /\ MaxPages \in Nat /\ PageSize \in Nat \ {0}
      /\ kind \in {"index", "short", "empty"}
  BY VisitAssumption DEF VisitAssumption, FetchTypes, ReadPage, Fetching, Reading
<1>2. /\ site.lists[fetch.cat] \in Seq(Kits) /\ fetch.cat \in Nat /\ fetch.page \in Nat \ {0}
      /\ Len(site.lists) \in Nat /\ c \in 1 .. Len(site.lists)
      /\ c = fetch.cat => i \in 1 .. Len(site.lists[fetch.cat])
  <2>1. PICK lists \in Seq(Seq(Kits)) : lists = site.lists
    BY <1>1
  <2>2. fetch.cat \in Nat /\ fetch.page \in Nat \ {0}
    BY <1>1
  <2>3. fetch.cat \in 1 .. Len(lists) /\ c \in 1 .. Len(lists) /\ Len(lists) \in Nat
    BY <1>1, <2>1
  <2>4. lists[fetch.cat] \in Seq(Kits) /\ lists[c] \in Seq(Kits)
    BY <2>1, <2>3
  <2>5. i \in DOMAIN lists[c]
    BY <2>1
  <2>6. i \in 1 .. Len(lists[c])
    BY <2>4, <2>5
  <2> QED
    BY <2>1, <2>2, <2>3, <2>4, <2>6
<1>3. /\ from \in Nat
      /\ fetch.page * PageSize = (fetch.page - 1) * PageSize + PageSize
      /\ \A m \in Nat : m <= fetch.page => m * PageSize <= fetch.page * PageSize
  <2>1. fetch.page - 1 \in Nat /\ (fetch.page - 1) + 1 = fetch.page
    BY <1>2
  <2>2. (fetch.page - 1) * PageSize \in Nat
    BY <2>1, PagesAddUp
  <2>3. ((fetch.page - 1) + 1) * PageSize = (fetch.page - 1) * PageSize + PageSize
    BY <2>1, PagesAddUp
  <2>4. from \in Nat
    BY <2>2
  <2>5. fetch.page * PageSize = (fetch.page - 1) * PageSize + PageSize
    BY <2>1, <2>3
  <2>6. \A m \in Nat : m <= fetch.page => m * PageSize <= fetch.page * PageSize
    BY <1>2, PagesAddUp
  <2> QED
    BY <2>4, <2>5, <2>6
<1> HIDE DEF from
<1>4. page = SubSeq(site.lists[fetch.cat], from + 1, Smaller(from + PageSize, Len(site.lists[fetch.cat])))
  BY DEF Page, from
<1> HIDE DEF page
<1>5. /\ \A k : Contains(page, k) <=>
           \E j \in 1 .. Len(site.lists[fetch.cat]) :
             from < j /\ j <= from + PageSize /\ site.lists[fetch.cat][j] = k
      /\ Len(page) < PageSize \/ page = <<>> => Len(site.lists[fetch.cat]) < from + PageSize
      /\ page = <<>> => Len(site.lists[fetch.cat]) <= from
  <2>1. PICK list \in Seq(Kits) : list = site.lists[fetch.cat]
    BY <1>2
  <2>2. PICK f \in Nat : f = from
    BY <1>3
  <2>3. page = SubSeq(list, f + 1, Smaller(f + PageSize, Len(list)))
    BY <1>4, <2>1, <2>2
  <2>4. /\ \A k : Contains(page, k) <=>
             \E j \in 1 .. Len(list) : f < j /\ j <= f + PageSize /\ list[j] = k
        /\ Len(page) < PageSize \/ page = <<>> => Len(list) < f + PageSize
        /\ page = <<>> => Len(list) <= f
    BY <2>3, PageShows
  <2> QED
    BY <2>1, <2>2, <2>4
<1>6. CASE ~LastPage(page)
  <2>1. fetch' = [fetch EXCEPT !.page = Smaller(@ + 1, MaxPages), !.seen = See(page)] /\ visit' = "page"
    BY <1>6 DEF ReadPage, page
  <2>2. fetch'.cat = fetch.cat /\ fetch'.page = Smaller(fetch.page + 1, MaxPages)
    BY <2>1 DEF FetchTypes
  <2>3. c < fetch.cat \/ (c = fetch.cat /\ ~site.repeats /\ i <= (fetch'.page - 1) * PageSize)
    BY <1>1, <1>2, <2>1, <2>2 DEF Read
  <2>4. CASE c = fetch.cat /\ ~site.repeats /\ i <= (fetch'.page - 1) * PageSize
    <3>1. fetch'.page - 1 <= fetch.page /\ fetch'.page - 1 \in Int
      BY <1>1, <1>2, <2>2 DEF Smaller
    <3>10. fetch'.page - 1 \in Nat
      BY <1>1, <1>2, <2>2 DEF Smaller
    <3>2. (fetch'.page - 1) * PageSize <= fetch.page * PageSize
          /\ fetch.page * PageSize = (fetch.page - 1) * PageSize + PageSize
      BY <1>3, <3>1, <3>10
    <3>3. from = (fetch.page - 1) * PageSize /\ (fetch'.page - 1) * PageSize \in Int
          /\ fetch.page * PageSize \in Int
      BY <1>1, <1>2, <2>4, <3>1 DEF from
    <3>4. i <= from + PageSize
      BY <1>2, <1>3, <2>4, <3>2, <3>3
    <3>5. CASE i <= from
      BY <2>4, <3>3, <3>5 DEF Read
    <3>6. CASE from < i
      BY <1>2, <1>5, <2>4, <3>4, <3>6 DEF page
    <3> QED
      BY <1>2, <1>3, <2>4, <3>5, <3>6
  <2> QED
    BY <2>3, <2>4
<1>7. CASE LastPage(page)
  <2>1. Len(site.lists[fetch.cat]) <= from + PageSize
        /\ (site.repeats => Len(site.lists[fetch.cat]) <= from + PageSize)
    <3>1. CASE kind = "index"
      <4>1. fetch.page * PageSize >= Len(site.lists[fetch.cat]) /\ ~site.repeats
        BY <1>7, <3>1 DEF LastPage, AllShown
      <4> QED
        BY <1>2, <1>3, <4>1 DEF from
    <3>2. CASE kind \in {"short", "empty"}
      <4>1. Len(page) < PageSize \/ page = <<>>
        BY <1>7, <3>2 DEF LastPage
      <4>2. Len(site.lists[fetch.cat]) < from + PageSize
        BY <1>5, <4>1
      <4>3. Len(site.lists[fetch.cat]) \in Nat
        BY <1>2
      <4>4. from \in Nat /\ PageSize \in Nat
        BY <1>1, <1>3
      <4> QED
        BY <4>2, <4>3, <4>4
    <3> QED
      BY <1>1, <3>1, <3>2
  <2>2. c <= fetch.cat
    <3>1. CASE fetch.cat < Len(site.lists)
      <4>1. fetch' = [fetch EXCEPT !.cat = @ + 1, !.page = 1, !.seen = See(page)] /\ visit' = "page"
        BY <1>7, <3>1 DEF ReadPage, page
      <4>2. fetch'.cat = fetch.cat + 1 /\ fetch'.page = 1
        BY <4>1 DEF FetchTypes
      <4>3. (1 - 1) * PageSize = 0
        BY <1>1
      <4>4. ~(c = fetch.cat + 1 /\ i <= 0)
        BY <1>1
      <4> QED
        BY <1>2, <4>1, <4>2, <4>3, <4>4 DEF Read
    <3>2. CASE ~(fetch.cat < Len(site.lists))
      BY <1>1, <1>2, <3>2
    <3> QED
      BY <3>1, <3>2
  <2>3. CASE c = fetch.cat
    <3>1. i <= from + PageSize
      BY <1>2, <1>3, <1>1, <2>1, <2>3
    <3>2. CASE from < i
      BY <1>2, <1>5, <2>3, <3>1, <3>2 DEF page
    <3>3. CASE i <= from
      <4>1. ~site.repeats
        BY <1>2, <2>3, <3>3 DEF from
      <4> QED
        BY <2>3, <3>3, <4>1 DEF from, Read
    <3> QED
      BY <1>2, <1>3, <2>3, <3>2, <3>3
  <2> QED
    BY <1>2, <2>2, <2>3
<1> QED
  BY <1>6, <1>7
LEMMA PageIsFetched == FetchPart /\ ReadPage => FetchPart'
<1> SUFFICES ASSUME FetchPart, ReadPage
             PROVE  FetchPart'
  OBVIOUS
<1> DEFINE page == Page(site, fetch.cat, fetch.page)
<1>0. FetchTypes
  BY DEF FetchPart
<1>1. /\ site \in [lists : Seq(Seq(Kits)), repeats : BOOLEAN] /\ site.lists \in Seq(Seq(Kits))
      /\ fetch \in [cat : 0 .. Len(site.lists), page : 0 .. MaxPages,
                    seen : [Kits -> 0 .. Len(site.lists)]]
      /\ fetch.cat \in 1 .. Len(site.lists) /\ fetch.page \in 1 .. MaxPages
      /\ Len(site.lists) \in Nat /\ MaxPages \in Nat /\ visit = "page"
      /\ DOMAIN site.lists = 1 .. Len(site.lists)
  BY <1>0, VisitAssumption DEF VisitAssumption, FetchTypes, ReadPage, Fetching, Reading
<1>2. UNCHANGED <<kind, site, still, left, changes>>
  BY DEF ReadPage
<1>3. See(page) \in [Kits -> 0 .. Len(site.lists)]
  BY <1>1 DEF See
<1>4. \/ /\ fetch' = [fetch EXCEPT !.page = Smaller(@ + 1, MaxPages), !.seen = See(page)]
         /\ visit' = "page"
      \/ /\ fetch.cat < Len(site.lists)
         /\ fetch' = [fetch EXCEPT !.cat = @ + 1, !.page = 1, !.seen = See(page)]
         /\ visit' = "page"
      \/ /\ ~(fetch.cat < Len(site.lists))
         /\ fetch' = [fetch EXCEPT !.seen = See(page)]
         /\ visit' = "fetched"
  BY DEF ReadPage
<1> HIDE DEF page
<1>5. Smaller(fetch.page + 1, MaxPages) \in 1 .. MaxPages
  BY <1>1 DEF Smaller
<1>6. /\ fetch' \in [cat : 0 .. Len(site.lists), page : 0 .. MaxPages,
                     seen : [Kits -> 0 .. Len(site.lists)]]
      /\ fetch'.cat \in 1 .. Len(site.lists) /\ fetch'.page \in 1 .. MaxPages
      /\ visit' = "fetched" => fetch'.cat = Len(site.lists)
      /\ fetch'.cat >= fetch.cat /\ fetch'.seen = See(page)
      /\ visit' \in {"page", "fetched"}
  <2>1. CASE /\ fetch' = [fetch EXCEPT !.page = Smaller(@ + 1, MaxPages), !.seen = See(page)]
             /\ visit' = "page"
    <3>1. PICK n \in 1 .. MaxPages : n = Smaller(fetch.page + 1, MaxPages)
      BY <1>5
    <3>2. fetch' = [fetch EXCEPT !.page = n, !.seen = See(page)] /\ n \in 0 .. MaxPages
      BY <1>1, <2>1, <3>1
    <3>3. /\ fetch' \in [cat : 0 .. Len(site.lists), page : 0 .. MaxPages,
                         seen : [Kits -> 0 .. Len(site.lists)]]
          /\ fetch'.cat = fetch.cat /\ fetch'.page = n /\ fetch'.seen = See(page)
      BY <1>1, <1>3, <3>2
    <3> QED
      BY <1>1, <2>1, <3>1, <3>3
  <2>2. CASE /\ fetch.cat < Len(site.lists)
             /\ fetch' = [fetch EXCEPT !.cat = @ + 1, !.page = 1, !.seen = See(page)]
             /\ visit' = "page"
    <3>1. PICK n \in 1 .. Len(site.lists) : n = fetch.cat + 1
      BY <1>1, <2>2
    <3>2. /\ fetch' = [fetch EXCEPT !.cat = n, !.page = 1, !.seen = See(page)]
          /\ n \in 0 .. Len(site.lists) /\ 1 \in 0 .. MaxPages /\ 1 \in 1 .. MaxPages /\ n >= fetch.cat
      BY <1>1, <2>2, <3>1
    <3>3. /\ fetch' \in [cat : 0 .. Len(site.lists), page : 0 .. MaxPages,
                         seen : [Kits -> 0 .. Len(site.lists)]]
          /\ fetch'.cat = n /\ fetch'.page = 1 /\ fetch'.seen = See(page)
      BY <1>1, <1>3, <3>2
    <3> QED
      BY <1>1, <2>2, <3>1, <3>2, <3>3
  <2>3. CASE /\ ~(fetch.cat < Len(site.lists))
             /\ fetch' = [fetch EXCEPT !.seen = See(page)]
             /\ visit' = "fetched"
    <3>1. fetch.cat = Len(site.lists)
      BY <1>1, <2>3
    <3>2. /\ fetch' \in [cat : 0 .. Len(site.lists), page : 0 .. MaxPages,
                         seen : [Kits -> 0 .. Len(site.lists)]]
          /\ fetch'.cat = fetch.cat /\ fetch'.page = fetch.page /\ fetch'.seen = See(page)
      BY <1>1, <1>3, <2>3
    <3> QED
      BY <1>1, <2>3, <3>1, <3>2
  <2> QED
    BY <1>4, <2>1, <2>2, <2>3
<1>7. FetchTypes'
  BY <1>0, <1>2, <1>6 DEF FetchTypes
<1>8. Fetching
  BY <1>1 DEF Fetching, Reading
<1>9. \A k \in Kits : fetch'.seen[k] = IF Contains(page, k) THEN fetch.cat ELSE fetch.seen[k]
  BY <1>6 DEF See
<1>10. \A k \in Kits : Contains(page, k) => Contains(site.lists[fetch.cat], k) \/ site.repeats
  <2>1. SUFFICES ASSUME ~site.repeats, NEW k, Contains(page, k)
                 PROVE  Contains(site.lists[fetch.cat], k)
    OBVIOUS
  <2>2. PICK list \in Seq(Kits) : list = site.lists[fetch.cat]
    BY <1>1
  <2>3. fetch.page \in Nat /\ fetch.page > 0
    BY <1>1
  <2>4. PICK f \in Nat : f = (fetch.page - 1) * PageSize
    BY <2>3, PageStart
  <2>5. page = SubSeq(list, f + 1, Smaller(f + PageSize, Len(list)))
    BY <2>1, <2>2, <2>4 DEF page, Page
  <2>6. \E i \in 1 .. Len(list) : list[i] = k
    BY <2>1, <2>5, PageShows
  <2> QED
    BY <2>2, <2>6 DEF Contains
<1>11. ASSUME changes = 0, ~site.repeats
       PROVE  \A k \in Kits :
                /\ fetch.seen[k] # 0 => /\ fetch.seen[k] \in DOMAIN site.lists /\ fetch.seen[k] <= fetch.cat
                                        /\ Contains(site.lists[fetch.seen[k]], k)
                /\ \A c \in DOMAIN site.lists : \A i \in DOMAIN site.lists[c] :
                      site.lists[c][i] = k /\ Read(c, i) => c <= fetch.seen[k]
  BY <1>8, <1>11 DEF FetchPart, ExactSoFar
<1>12. ASSUME changes = 0, ~site.repeats, NEW k \in Kits
       PROVE  /\ fetch'.seen[k] # 0 => /\ fetch'.seen[k] \in DOMAIN site.lists /\ fetch'.seen[k] <= fetch'.cat
                                       /\ Contains(site.lists[fetch'.seen[k]], k)
              /\ \A c \in DOMAIN site.lists : \A i \in DOMAIN site.lists[c] :
                    site.lists[c][i] = k /\ Read(c, i)' => c <= fetch'.seen[k]
  <2>1. CASE Contains(page, k)
    <3>1. fetch'.seen[k] = fetch.cat /\ Contains(site.lists[fetch.cat], k)
      BY <1>9, <1>10, <1>12, <2>1
    <3>2. ASSUME NEW c \in DOMAIN site.lists, NEW i \in DOMAIN site.lists[c],
                 site.lists[c][i] = k, Read(c, i)'
          PROVE  c <= fetch.cat
      <4>1. c < fetch.cat \/ c = fetch.cat
        BY <1>0, <1>12, <3>2, ReadAfterPage
      <4> QED
        BY <1>1, <4>1
    <3> QED
      BY <1>1, <1>6, <3>1, <3>2
  <2>2. CASE ~Contains(page, k)
    <3>1. fetch'.seen[k] = fetch.seen[k] /\ fetch.seen[k] \in 0 .. Len(site.lists)
      BY <1>1, <1>9, <2>2
    <3>2. fetch.seen[k] # 0 => /\ fetch.seen[k] \in DOMAIN site.lists /\ fetch.seen[k] <= fetch'.cat
                               /\ Contains(site.lists[fetch.seen[k]], k)
      BY <1>1, <1>6, <1>11, <1>12, <3>1
    <3>3. ASSUME NEW c \in DOMAIN site.lists, NEW i \in DOMAIN site.lists[c],
                 site.lists[c][i] = k, Read(c, i)'
          PROVE  c <= fetch.seen[k]
      <4>1. c < fetch.cat \/ Read(c, i)
        BY <1>0, <1>12, <2>2, <3>3, ReadAfterPage DEF page
      <4>2. Read(c, i)
        BY <4>1 DEF Read
      <4> QED
        BY <1>11, <1>12, <3>3, <4>2
    <3> QED
      BY <3>1, <3>2, <3>3
  <2> QED
    BY <2>1, <2>2
<1>13. ExactSoFar'
  BY <1>2, <1>12 DEF ExactSoFar
<1>14. still' \subseteq Listing(site')
  BY <1>2, <1>8 DEF FetchPart, NoneMissedSoFar
<1>15. ASSUME ~(kind = "index" /\ site.repeats), NEW p \in still, p[1] \notin left,
              NEW i \in DOMAIN site.lists[p[1]], site.lists[p[1]][i] = p[2], Read(p[1], i)',
              site.repeats => p[1] < fetch'.cat \/ visit' = "fetched"
       PROVE  fetch'.seen[p[2]] # 0
  <2>1. p \in (DOMAIN site.lists) \X Kits
    BY <1>8 DEF FetchPart, NoneMissedSoFar, Listing
  <2>2. PICK c \in DOMAIN site.lists, k \in Kits : c = p[1] /\ k = p[2]
    BY <2>1
  <2>3. \/ c < fetch.cat
        \/ c = fetch.cat /\ ~site.repeats /\ Read(c, i)
        \/ c = fetch.cat /\ Contains(page, k)
    BY <1>0, <1>15, <2>2, ReadAfterPage DEF page
  <2>4. Contains(page, k) => fetch'.seen[k] # 0
    BY <1>1, <1>9
  <2>5. fetch.seen[k] # 0 => fetch'.seen[k] # 0
    BY <1>9, <2>4
  <2>6. Read(c, i) /\ (site.repeats => c < fetch.cat \/ visit = "fetched") => fetch.seen[k] # 0
    BY <1>8, <1>15, <2>2 DEF FetchPart, NoneMissedSoFar
  <2>7. c < fetch.cat => Read(c, i)
    BY DEF Read
  <2> QED
    BY <2>2, <2>3, <2>4, <2>5, <2>6, <2>7
<1>16. NoneMissedSoFar'
  BY <1>2, <1>14, <1>15 DEF NoneMissedSoFar
<1> QED
  BY <1>7, <1>13, <1>16 DEF FetchPart

LEMMA FetchDuringChange == FetchPart /\ SiteChanges => FetchPart'
<1> SUFFICES ASSUME FetchPart, SiteChanges
             PROVE  FetchPart'
  OBVIOUS
<1>1. /\ site \in [lists : Seq(Seq(Kits)), repeats : BOOLEAN] /\ site.lists \in Seq(Seq(Kits))
      /\ changes \in Nat /\ Reading /\ Fetching /\ FetchTypes
  BY DEF FetchPart, FetchTypes, SiteChanges, Fetching
<1>2. UNCHANGED <<kind, visit, fetch>> /\ changes' = changes + 1
  BY DEF SiteChanges
<1>3. ~(changes' = 0) /\ changes' \in Nat
  BY <1>1, <1>2
<1>4. PICK c \in DOMAIN site.lists :
        LET list == site.lists[c] IN
        \/ \E k \in Kits, i \in 1 .. Len(list) + 1 :
             /\ ~Contains(list, k)
             /\ site' = [site EXCEPT !.lists[c] = InsertAt(list, i, k)]
             /\ UNCHANGED <<still, left>>
        \/ \E i \in DOMAIN list :
             /\ site' = [site EXCEPT !.lists[c] = RemoveAt(list, i)]
             /\ still' = still \ {<<c, list[i]>>}
             /\ left' = left \cup {c}
  BY DEF SiteChanges
<1>5. PICK list \in Seq(Kits) : list = site.lists[c]
  BY <1>1, <1>4
<1>6. ASSUME NEW new \in Seq(Kits), site' = [site EXCEPT !.lists[c] = new], still' \subseteq still
      PROVE  /\ FetchTypes' /\ ExactSoFar' /\ Fetching'
             /\ DOMAIN (site.lists)' = DOMAIN site.lists /\ (site.lists)'[c] = new
             /\ \A d \in DOMAIN site.lists : d # c => (site.lists)'[d] = site.lists[d]
             /\ (site.repeats)' = site.repeats /\ \A d, i : Read(d, i)' <=> Read(d, i)
  <2>1. PICK lists \in Seq(Seq(Kits)) : lists = site.lists
    BY <1>1
  <2>2. PICK lists2 : lists2 = [lists EXCEPT ![c] = new]
    OBVIOUS
  <2>3. c \in 1 .. Len(lists)
    BY <2>1, <1>4
  <2>4. lists2 \in Seq(Seq(Kits)) /\ Len(lists2) = Len(lists) /\ DOMAIN lists2 = DOMAIN lists
        /\ lists2[c] = new /\ \A d \in DOMAIN lists : d # c => lists2[d] = lists[d]
    BY <2>2, <2>3
  <2>5. site' = [site EXCEPT !.lists = lists2]
    BY <1>1, <1>6, <2>1, <2>2
  <2>6. /\ site' \in [lists : Seq(Seq(Kits)), repeats : BOOLEAN] /\ (site.lists)' = lists2
        /\ (site.repeats)' = site.repeats
    BY <1>1, <2>4, <2>5
  <2>7. FetchTypes'
    BY <1>1, <1>2, <1>3, <1>6, <2>1, <2>4, <2>6 DEF FetchTypes, Fetching, Reading
  <2>8. ExactSoFar' /\ Fetching'
    BY <1>1, <1>2, <1>3 DEF ExactSoFar, Fetching, Reading
  <2>9. \A d, i : Read(d, i)' <=> Read(d, i)
    BY <1>2 DEF Read
  <2> QED
    BY <2>1, <2>4, <2>6, <2>7, <2>8, <2>9
<1>7. still \subseteq (DOMAIN site.lists) \X Kits /\ \A p \in still : Contains(site.lists[p[1]], p[2])
  BY <1>1 DEF FetchPart, NoneMissedSoFar, Listing
<1>8. ASSUME ~(kind = "index" /\ site.repeats), NEW p \in still, p[1] \notin left,
             NEW i \in DOMAIN site.lists[p[1]], site.lists[p[1]][i] = p[2], Read(p[1], i),
             site.repeats => p[1] < fetch.cat \/ visit = "fetched"
      PROVE  fetch.seen[p[2]] # 0
  BY <1>1, <1>8 DEF FetchPart, NoneMissedSoFar
<1>9. ASSUME NEW k \in Kits, NEW j \in 1 .. Len(list) + 1, ~Contains(list, k),
             site' = [site EXCEPT !.lists[c] = InsertAt(list, j, k)], UNCHANGED <<still, left>>
      PROVE  FetchPart'
  <2>1. PICK new \in Seq(Kits) :
          /\ new = InsertAt(list, j, k)
          /\ \A e : Contains(list, e) => Contains(new, e)
          /\ \A i \in 1 .. Len(new) : new[i] # k => \E h \in 1 .. Len(list) : h <= i /\ list[h] = new[i]
    BY Inserted
  <2>2. site' = [site EXCEPT !.lists[c] = new] /\ still' \subseteq still
    BY <1>9, <2>1
  <2>3. /\ FetchTypes' /\ ExactSoFar' /\ Fetching'
        /\ DOMAIN (site.lists)' = DOMAIN site.lists /\ (site.lists)'[c] = new
        /\ \A d \in DOMAIN site.lists : d # c => (site.lists)'[d] = site.lists[d]
        /\ (site.repeats)' = site.repeats /\ \A d, i : Read(d, i)' <=> Read(d, i)
    BY <1>6, <2>2
  <2>4. ASSUME NEW p \in still
        PROVE  p \in (DOMAIN (site.lists)') \X Kits /\ Contains((site.lists)'[p[1]], p[2])
    BY <1>5, <1>7, <2>1, <2>3, <2>4
  <2>5. still' \subseteq Listing(site')
    BY <1>9, <2>3, <2>4 DEF Listing
  <2>6. ASSUME ~(kind = "index" /\ site.repeats), NEW p \in still, p[1] \notin left,
               NEW i \in DOMAIN (site.lists)'[p[1]], (site.lists)'[p[1]][i] = p[2], Read(p[1], i),
               site.repeats => p[1] < fetch.cat \/ visit = "fetched"
        PROVE  fetch.seen[p[2]] # 0
    <3>1. CASE p[1] # c
      <4>1. (site.lists)'[p[1]] = site.lists[p[1]]
        BY <1>7, <2>3, <3>1
      <4> QED
        BY <1>8, <2>6, <4>1
    <3>2. CASE p[1] = c
      <4>1. p[2] # k
        BY <1>5, <1>7, <1>9, <3>2
      <4>2. i \in 1 .. Len(new) /\ new[i] = p[2]
        BY <2>1, <2>3, <2>6, <3>2
      <4>3. PICK h \in 1 .. Len(list) : h <= i /\ list[h] = p[2]
        BY <2>1, <4>1, <4>2
      <4>4. h \in DOMAIN site.lists[p[1]] /\ site.lists[p[1]][h] = p[2]
        BY <1>5, <3>2, <4>3
      <4>5. fetch.page \in 1 .. MaxPages /\ MaxPages \in Nat
        BY <1>1, VisitAssumption DEF FetchTypes, VisitAssumption
      <4>6. (fetch.page - 1) * PageSize \in Nat
        <5>1. fetch.page \in Nat /\ fetch.page > 0
          BY <4>5
        <5> QED
          BY <5>1, PageStart
      <4>7. Read(p[1], h)
        BY <2>6, <4>2, <4>3, <4>6 DEF Read
      <4> QED
        BY <1>8, <2>6, <4>4, <4>7
    <3> QED
      BY <3>1, <3>2
  <2>7. NoneMissedSoFar'
    BY <1>2, <1>9, <2>3, <2>5, <2>6 DEF NoneMissedSoFar
  <2> QED
    BY <2>3, <2>7 DEF FetchPart
<1>10. ASSUME NEW j \in DOMAIN list, site' = [site EXCEPT !.lists[c] = RemoveAt(list, j)],
              still' = still \ {<<c, list[j]>>}, left' = left \cup {c}
       PROVE  FetchPart'
  <2>1. PICK new \in Seq(Kits) :
          new = RemoveAt(list, j) /\ \A e : Contains(list, e) /\ e # list[j] => Contains(new, e)
    <3>1. j \in 1 .. Len(list)
      OBVIOUS
    <3> QED
      BY <3>1, Removed
  <2>2. site' = [site EXCEPT !.lists[c] = new] /\ still' \subseteq still
    BY <1>10, <2>1
  <2>3. /\ FetchTypes' /\ ExactSoFar' /\ Fetching'
        /\ DOMAIN (site.lists)' = DOMAIN site.lists /\ (site.lists)'[c] = new
        /\ \A d \in DOMAIN site.lists : d # c => (site.lists)'[d] = site.lists[d]
        /\ (site.repeats)' = site.repeats /\ \A d, i : Read(d, i)' <=> Read(d, i)
    BY <1>6, <2>2
  <2>4. ASSUME NEW p \in still'
        PROVE  p \in (DOMAIN (site.lists)') \X Kits /\ Contains((site.lists)'[p[1]], p[2])
    <3>1. p \in still /\ p # <<c, list[j]>>
      BY <1>10
    <3>2. PICK d \in DOMAIN site.lists, e \in Kits : p = <<d, e>>
      BY <1>7, <3>1
    <3>3. Contains(site.lists[d], e) /\ (d = c => e # list[j])
      BY <1>7, <3>1, <3>2
    <3> QED
      BY <1>5, <2>1, <2>3, <3>2, <3>3
  <2>5. still' \subseteq Listing(site')
    BY <2>4 DEF Listing
  <2>6. ASSUME ~(kind = "index" /\ site.repeats), NEW p \in still', p[1] \notin left',
               NEW i \in DOMAIN (site.lists)'[p[1]], (site.lists)'[p[1]][i] = p[2], Read(p[1], i),
               site.repeats => p[1] < fetch.cat \/ visit = "fetched"
        PROVE  fetch.seen[p[2]] # 0
    <3>1. p \in still /\ p[1] \notin left /\ p[1] # c
      BY <1>10, <2>6
    <3>2. (site.lists)'[p[1]] = site.lists[p[1]]
      BY <1>7, <2>3, <3>1
    <3> QED
      BY <1>8, <2>6, <3>1, <3>2
  <2>7. NoneMissedSoFar'
    BY <1>2, <2>3, <2>5, <2>6 DEF NoneMissedSoFar
  <2> QED
    BY <2>3, <2>7 DEF FetchPart
<1> QED
  BY <1>4, <1>5, <1>9, <1>10
LEMMA FetchStep == FetchPart /\ [Next]_vars => FetchPart'
<1> SUFFICES ASSUME FetchPart, [Next]_vars
             PROVE  FetchPart'
  OBVIOUS
<1>1. kind \in Kinds
  BY DEF FetchPart, FetchTypes
<1>2. visit \in {"off", "index", "page", "fetched", "stored", "lookups", "asking", "flush", "last flush"}
  BY DEF FetchPart, FetchTypes
<1>3. CASE StartVisit
  BY <1>3, FetchBegins
<1>4. CASE ReadPage
  BY <1>4, PageIsFetched
<1>5. CASE SiteChanges
  BY <1>5, FetchDuringChange
<1>6. CASE PageIsSuspicious \/ FetchFails \/ NothingStored \/ NoLookups \/ Crash
  <2>1. EndFetch /\ visit' = "off" /\ UNCHANGED kind
    BY <1>6 DEF PageIsSuspicious, FetchFails, NothingStored, NoLookups, Crash, EndVisit
  <2> QED
    BY <1>1, <2>1, FetchOver
<1>7. CASE Store
  <2>1. EndFetch /\ visit' = "stored" /\ UNCHANGED kind
    BY <1>7 DEF Store
  <2> QED
    BY <1>1, <2>1, FetchOver
<1>8. CASE RecordEANLookups \/ RecordFails
  <2>1. PICK rest : AfterFlush(rest) /\ visit \in {"flush", "last flush"} /\ UNCHANGED kind
    BY <1>8 DEF RecordEANLookups, RecordFails, Flushing
  <2>2. CASE visit = "last flush"
    <3>1. EndFetch /\ visit' = "off"
      BY <2>1, <2>2 DEF AfterFlush, EndVisit
    <3> QED
      BY <1>1, <2>1, <3>1, FetchOver
  <2>3. CASE visit = "flush"
    <3>1. UNCHANGED <<kind, fetchVars>> /\ visit' = "lookups"
      BY <2>1, <2>3 DEF AfterFlush
    <3> QED
      BY <2>3, <3>1, FetchKept DEF Fetching, Reading
  <2> QED
    BY <2>1, <2>2, <2>3
<1>9. CASE GetStep \/ Request \/ VisitIsCut \/ MonthPasses \/ UNCHANGED vars
  <2>1. UNCHANGED <<kind, fetchVars, visit>>
    BY <1>9 DEF GetStep, Request, VisitIsCut, MonthPasses, vars
  <2> QED
    BY <1>2, <2>1, FetchKept DEF Fetching, Reading
<1>10. CASE ReadIndex
  BY <1>10, FetchKept DEF ReadIndex, Fetching, Reading
<1>11. CASE BeginLookups \/ AskNext \/ LookupOk \/ LookupFails \/ LookupsAreOver
  <2>1. /\ UNCHANGED <<kind, fetchVars>> /\ visit \in {"stored", "lookups", "asking"}
        /\ visit' \in {"lookups", "asking", "flush", "last flush"}
    BY <1>11 DEF BeginLookups, AskNext, LookupOk, LookupFails, LookupsAreOver
  <2> QED
    BY <2>1, FetchKept DEF Fetching, Reading
<1> QED
  BY <1>3, <1>4, <1>5, <1>6, <1>7, <1>8, <1>9, <1>10, <1>11 DEF Next, Step

LEMMA FetchAlways == Spec => []FetchPart
<1>1. ASSUME Init
      PROVE  FetchPart
  <2>1. NoSite \in [lists : Seq(Seq(Kits)), repeats : BOOLEAN] /\ Len(NoSite.lists) = 0
    BY DEF NoSite
  <2>2. MaxPages \in Nat /\ 0 \in 0 .. 0 /\ 0 \in 0 .. MaxPages
    BY VisitAssumption DEF VisitAssumption
  <2>3. NoFetch \in [cat : 0 .. 0, page : 0 .. MaxPages, seen : [Kits -> 0 .. 0]]
    BY <2>2 DEF NoFetch
  <2>4. FetchTypes
    BY <1>1, <2>1, <2>3 DEF Init, FetchTypes, Fetching, Reading
  <2>5. ExactSoFar /\ NoneMissedSoFar
    BY <1>1 DEF Init, ExactSoFar, NoneMissedSoFar, Fetching, Reading
  <2> QED
    BY <2>4, <2>5 DEF FetchPart
<1>2. Init => FetchPart
  BY <1>1
<1> QED
  BY <1>2, FetchStep, PTL DEF Spec

\* A fetch during which the listing stayed the same returns exactly what is
\* listed, each product under the last category that lists it.
THEOREM FetchReturnsTheListing == Spec => []FetchIsExact
<1>1. ASSUME FetchPart
      PROVE  FetchIsExact
  <2> SUFFICES ASSUME visit = "fetched", changes = 0, ~site.repeats, NEW k \in Kits,
                      NEW cats, cats = {c \in DOMAIN site.lists : Contains(site.lists[c], k)}
               PROVE  IF cats = {} THEN fetch.seen[k] = 0
                      ELSE fetch.seen[k] \in cats /\ \A c \in cats : c <= fetch.seen[k]
    BY DEF FetchIsExact
  <2>1. /\ fetch.seen[k] # 0 => /\ fetch.seen[k] \in DOMAIN site.lists
                                /\ Contains(site.lists[fetch.seen[k]], k)
        /\ \A c \in DOMAIN site.lists : \A i \in DOMAIN site.lists[c] :
              site.lists[c][i] = k /\ Read(c, i) => c <= fetch.seen[k]
    BY <1>1 DEF FetchPart, ExactSoFar, Fetching
  <2>2. fetch.seen[k] # 0 => fetch.seen[k] \in cats
    BY <2>1
  <2>3. ASSUME NEW c \in cats
        PROVE  c <= fetch.seen[k] /\ fetch.seen[k] # 0
    <3>1. c \in 1 .. Len(site.lists) /\ site.lists[c] \in Seq(Kits) /\ Len(site.lists) \in Nat
      BY <1>1 DEF FetchPart, FetchTypes
    <3>2. PICK i \in DOMAIN site.lists[c] : site.lists[c][i] = k
      BY <3>1 DEF Contains
    <3>3. c <= fetch.seen[k]
      BY <2>1, <3>1, <3>2 DEF Read
    <3> QED
      BY <3>1, <3>3
  <2> QED
    BY <2>2, <2>3
<1> QED
  BY <1>1, FetchAlways, PTL

\* Whatever the shop does meanwhile, a fetch that succeeds misses a product
\* listed all the time only if another left its category.
THEOREM FetchMissesNoOther == Spec => []FetchMissesForAReason
<1>1. ASSUME FetchPart
      PROVE  FetchMissesForAReason
  <2> SUFFICES ASSUME visit = "fetched", ~(kind = "index" /\ site.repeats), NEW p \in still, p[1] \notin left
               PROVE  fetch.seen[p[2]] # 0
    BY DEF FetchMissesForAReason
  <2>1. p[1] \in DOMAIN site.lists /\ Contains(site.lists[p[1]], p[2])
    BY <1>1 DEF FetchPart, NoneMissedSoFar, Fetching, Listing
  <2>2. PICK i \in DOMAIN site.lists[p[1]] : site.lists[p[1]][i] = p[2]
    BY <1>1, <2>1 DEF FetchPart, FetchTypes, Contains
  <2> QED
    BY <1>1, <2>2 DEF FetchPart, NoneMissedSoFar, Fetching, Read
<1> QED
  BY <1>1, FetchAlways, PTL
-----------------------------------------------------------------------------
(* Answers are kept.                                                       *)

\* AnswersInv without the last conjunct of AnswersAreKept, which follows.
AnswersHeld ==
  /\ \A k \in Kits :
       /\ (answered[k] # "unasked" /\ \A p \in pending : p[1] # k) <=> k \in checked
       /\ (answered[k] = "barcode" /\ \A p \in pending : p[1] # k) => k \in ean
  /\ \A p \in pending : answered[p[1]] = p[2]
  /\ \A k \in todo : Due(k) /\ \A p \in pending : p[1] # k

LEMMA LeastIsLeast ==
  ASSUME NEW ids \in SUBSET Kits, ids # {}
  PROVE  Least(ids) \in ids
<1>1. ids \in SUBSET Nat
  BY VisitAssumption DEF VisitAssumption
<1>2. \E k \in ids : \A j \in ids : k <= j
  BY <1>1, NatHasLeast
<1> QED
  BY <1>2 DEF Least

LEMMA HeldIsKept == LookupTypes /\ AnswersHeld => AnswersInv
<1> SUFFICES ASSUME LookupTypes, AnswersHeld
             PROVE  AnswersInv
  OBVIOUS
<1>1. ASSUME visit = "asking"
      PROVE  answered[Least(todo)] = "unasked"
  <2>1. todo \in SUBSET Kits /\ todo # {}
    BY <1>1 DEF LookupTypes
  <2>2. Least(todo) \in todo /\ Least(todo) \in Kits
    BY <2>1, LeastIsLeast
  <2> QED
    BY <2>2 DEF AnswersHeld, Due
<1>2. AnswersAreKept
  BY <1>1 DEF AnswersAreKept, AnswersHeld
<1> QED
  BY <1>2 DEF AnswersInv, AnswersHeld

LEMMA KeptIsHeld == AnswersInv => AnswersHeld
  BY DEF AnswersInv, AnswersHeld, AnswersAreKept

\* Steps that touch neither the lookups nor the database.
LEMMA LookupsKept ==
  ASSUME LookupTypes, AnswersHeld, UNCHANGED <<lookupVars, dbVars, answered>>,
         LookingUp => LookingUp', visit' = "asking" => todo # {} /\ failures < MaxFailures
  PROVE  LookupTypes' /\ AnswersHeld'
<1>1. UNCHANGED <<sets, todo, failures, pending, stored, ean, checked, answered>>
  BY DEF lookupVars, dbVars
<1>2. LookupTypes'
  BY <1>1 DEF LookupTypes
<1>3. AnswersHeld'
  BY <1>1 DEF AnswersHeld, Due
<1> QED
  BY <1>2, <1>3

\* The end of a visit with nothing pending.
LEMMA LookupsOver ==
  ASSUME LookupTypes, AnswersHeld, pending = {}, EndVisit, UNCHANGED <<dbVars, answered>>
  PROVE  LookupTypes' /\ AnswersHeld'
<1>1. /\ UNCHANGED <<stored, ean, checked, answered>> /\ visit' = "off"
      /\ sets' = {} /\ todo' = {} /\ failures' = 0 /\ pending' = {}
  BY DEF dbVars, EndVisit
<1>2. 0 \in 0 .. MaxFailures
  BY VisitAssumption DEF VisitAssumption
<1>3. LookupTypes'
  BY <1>1, <1>2 DEF LookupTypes, LookingUp
<1>4. AnswersHeld'
  BY <1>1 DEF AnswersHeld
<1> QED
  BY <1>3, <1>4

\* A visit ends, or a crash ends it, and what was pending is lost.
LEMMA PendingLost ==
  ASSUME LookupTypes, AnswersHeld, EndVisit, Forget(pending), UNCHANGED dbVars
  PROVE  LookupTypes' /\ AnswersHeld'
<1>1. /\ UNCHANGED <<stored, ean, checked>> /\ visit' = "off"
      /\ sets' = {} /\ todo' = {} /\ failures' = 0 /\ pending' = {}
  BY DEF dbVars, EndVisit
<1>2. 0 \in 0 .. MaxFailures
  BY VisitAssumption DEF VisitAssumption
<1>3. answered' \in [Kits -> {"unasked", "nothing", "barcode"}]
      /\ \A k \in Kits : answered'[k] = IF \E p \in pending : p[1] = k THEN "unasked" ELSE answered[k]
  BY DEF Forget, LookupTypes
<1>4. LookupTypes'
  BY <1>1, <1>2, <1>3 DEF LookupTypes, LookingUp
<1>5. \A k \in Kits : (\E p \in pending : p[1] = k) => k \notin checked
  BY DEF AnswersHeld
<1>6. AnswersHeld'
  BY <1>1, <1>3, <1>5 DEF AnswersHeld
<1> QED
  BY <1>4, <1>6

LEMMA StoreHolds == LookupTypes /\ AnswersHeld /\ Store => LookupTypes' /\ AnswersHeld'
<1> SUFFICES ASSUME LookupTypes, AnswersHeld, Store
             PROVE  LookupTypes' /\ AnswersHeld'
  OBVIOUS
<1>1. /\ stored' = stored \cup Found /\ sets' = Found /\ visit' = "stored" /\ visit = "fetched"
      /\ UNCHANGED <<todo, failures, pending, checked, answered>>
      /\ ean' = ean \/ ean' = ean \cup Found
  BY DEF Store, UpsertSet
<1>2. todo = {} /\ pending = {}
  BY <1>1 DEF LookupTypes, LookingUp
<1>3. Found \subseteq Kits \ Accessories
  BY DEF Found, FilterKits, Seen
<1>4. LookupTypes'
  BY <1>1, <1>2, <1>3 DEF LookupTypes
<1>5. AnswersHeld'
  BY <1>1, <1>2 DEF AnswersHeld
<1> QED
  BY <1>4, <1>5

LEMMA BeginHolds == LookupTypes /\ AnswersHeld /\ BeginLookups => LookupTypes' /\ AnswersHeld'
<1> SUFFICES ASSUME LookupTypes, AnswersHeld, BeginLookups
             PROVE  LookupTypes' /\ AnswersHeld'
  OBVIOUS
<1>1. /\ todo' = {k \in sets : Due(k)} /\ visit' = "lookups" /\ visit = "stored"
      /\ UNCHANGED <<sets, failures, pending, stored, ean, checked, answered>>
  BY DEF BeginLookups, dbVars
<1>2. pending = {}
  BY <1>1 DEF LookupTypes, LookingUp
<1>3. LookupTypes'
  BY <1>1, <1>2 DEF LookupTypes, LookingUp
<1>4. AnswersHeld'
  BY <1>1, <1>2 DEF AnswersHeld, Due
<1> QED
  BY <1>3, <1>4

LEMMA AnswerHolds == LookupTypes /\ AnswersHeld /\ LookupOk => LookupTypes' /\ AnswersHeld'
<1> SUFFICES ASSUME LookupTypes, AnswersHeld, LookupOk
             PROVE  LookupTypes' /\ AnswersHeld'
  OBVIOUS
<1>1. PICK k : k = Least(todo)
  OBVIOUS
<1>2. PICK answer \in {"nothing", "barcode"} :
        pending' = pending \cup {<<k, answer>>} /\ answered' = [answered EXCEPT ![k] = answer]
  BY <1>1 DEF LookupOk
<1>3. /\ todo' = todo \ {k} /\ failures' = 0 /\ visit = "asking" /\ visit' \in {"flush", "lookups"}
      /\ UNCHANGED <<sets, stored, ean, checked>>
  BY <1>1 DEF LookupOk, dbVars
<1>4. k \in todo /\ k \in Kits /\ k \in sets
  <2>1. todo \in SUBSET Kits /\ todo # {} /\ todo \subseteq sets
    BY <1>3 DEF LookupTypes
  <2> QED
    BY <1>1, <2>1, LeastIsLeast
<1>5. 0 \in 0 .. MaxFailures
  BY VisitAssumption DEF VisitAssumption
<1>6. /\ answered' \in [Kits -> {"unasked", "nothing", "barcode"}] /\ answered'[k] = answer
      /\ \A j \in Kits : j # k => answered'[j] = answered[j]
  BY <1>2, <1>4 DEF LookupTypes
<1>7. pending' \subseteq sets \X {"nothing", "barcode"}
  BY <1>2, <1>4 DEF LookupTypes
<1>8. LookupTypes'
  BY <1>3, <1>5, <1>6, <1>7 DEF LookupTypes, LookingUp
<1>9. \A p \in pending : p[1] # k /\ p[1] \in Kits
  BY <1>4 DEF AnswersHeld, LookupTypes
<1>10. k \notin checked
  BY <1>4 DEF AnswersHeld, Due
<1>11. ASSUME NEW j \in Kits
       PROVE  /\ (answered'[j] # "unasked" /\ \A p \in pending' : p[1] # j) <=> j \in checked'
              /\ (answered'[j] = "barcode" /\ \A p \in pending' : p[1] # j) => j \in ean'
  <2>1. CASE j = k
    <3>1. <<k, answer>> \in pending' /\ <<k, answer>>[1] = k
      BY <1>2
    <3> QED
      BY <1>3, <1>10, <2>1, <3>1
  <2>2. CASE j # k
    <3>1. (\A p \in pending' : p[1] # j) <=> (\A p \in pending : p[1] # j)
      BY <1>2, <2>2
    <3> QED
      BY <1>3, <1>6, <2>2, <3>1 DEF AnswersHeld
  <2> QED
    BY <2>1, <2>2
<1>12. \A p \in pending' : answered'[p[1]] = p[2]
  BY <1>2, <1>6, <1>9 DEF AnswersHeld
<1>13. \A j \in todo' : Due(j)' /\ \A p \in pending' : p[1] # j
  BY <1>2, <1>3 DEF AnswersHeld, Due
<1>14. AnswersHeld'
  BY <1>11, <1>12, <1>13 DEF AnswersHeld
<1> QED
  BY <1>8, <1>14

LEMMA FailureHolds == LookupTypes /\ AnswersHeld /\ LookupFails => LookupTypes' /\ AnswersHeld'
<1> SUFFICES ASSUME LookupTypes, AnswersHeld, LookupFails
             PROVE  LookupTypes' /\ AnswersHeld'
  OBVIOUS
<1>1. /\ todo' \subseteq todo /\ failures' = failures + 1 /\ visit = "asking" /\ visit' = "lookups"
      /\ UNCHANGED <<sets, pending, stored, ean, checked, answered>>
  BY DEF LookupFails, FailuresAfter, dbVars
<1>2. failures' \in 0 .. MaxFailures
  <2>1. MaxFailures \in Nat /\ failures \in 0 .. MaxFailures /\ failures < MaxFailures
    BY <1>1, VisitAssumption DEF VisitAssumption, LookupTypes
  <2> QED
    BY <1>1, <2>1
<1>3. LookupTypes'
  BY <1>1, <1>2 DEF LookupTypes, LookingUp
<1>4. AnswersHeld'
  BY <1>1 DEF AnswersHeld, Due
<1> QED
  BY <1>3, <1>4

LEMMA RecordHolds == LookupTypes /\ AnswersHeld /\ RecordEANLookups => LookupTypes' /\ AnswersHeld'
<1> SUFFICES ASSUME LookupTypes, AnswersHeld, RecordEANLookups
             PROVE  LookupTypes' /\ AnswersHeld'
  OBVIOUS
<1>1. /\ ean' = ean \cup {k \in Kits : <<k, "barcode">> \in pending}
      /\ checked' = checked \cup {p[1] : p \in pending} /\ UNCHANGED <<stored, answered>>
      /\ AfterFlush({}) /\ visit \in {"flush", "last flush"}
  BY DEF RecordEANLookups, Flushing
<1>2. pending' = {} /\ todo' \subseteq todo /\ (sets' = sets \/ sets' = {}) /\ visit' \in {"off", "lookups"}
      /\ failures' \in {0, failures} /\ todo' \subseteq sets' /\ (visit' = "off" => todo' = {})
  <2>1. CASE visit = "last flush"
    BY <1>1, <2>1 DEF AfterFlush, EndVisit
  <2>2. CASE visit = "flush"
    BY <1>1, <2>2 DEF AfterFlush, LookupTypes
  <2> QED
    BY <1>1, <2>1, <2>2
<1>3. 0 \in 0 .. MaxFailures
  BY VisitAssumption DEF VisitAssumption
<1>4. \A p \in pending : p[1] \in sets /\ p[1] \in stored /\ p[1] \in Kits /\ p = <<p[1], p[2]>>
  BY DEF LookupTypes
<1>5. LookupTypes'
  BY <1>1, <1>2, <1>3, <1>4 DEF LookupTypes, LookingUp
<1>6. \A k \in Kits : (\A p \in pending : p[1] # k) \/ k \in checked'
  BY <1>1
<1>7. ASSUME NEW k \in Kits
      PROVE  /\ answered[k] # "unasked" <=> k \in checked'
             /\ answered[k] = "barcode" => k \in ean'
  <2>1. CASE \A p \in pending : p[1] # k
    BY <1>1, <2>1 DEF AnswersHeld
  <2>2. CASE \E p \in pending : p[1] = k
    <3>1. PICK p \in pending : p[1] = k
      BY <2>2
    <3>2. answered[k] = p[2] /\ p[2] \in {"nothing", "barcode"} /\ p = <<k, p[2]>>
      BY <1>4, <3>1 DEF AnswersHeld, LookupTypes
    <3> QED
      BY <1>1, <3>1, <3>2
  <2> QED
    BY <2>1, <2>2
<1>8. ASSUME NEW k \in todo'
      PROVE  Due(k)'
  <2>1. k \in todo /\ Due(k) /\ \A p \in pending : p[1] # k
    BY <1>2 DEF AnswersHeld
  <2>2. <<k, "barcode">> \notin pending /\ k \notin {p[1] : p \in pending}
    BY <2>1
  <2> QED
    BY <1>1, <2>1, <2>2 DEF Due
<1>9. AnswersHeld'
  BY <1>1, <1>2, <1>7, <1>8 DEF AnswersHeld
<1> QED
  BY <1>5, <1>9

LEMMA RecordFailsHolds == LookupTypes /\ AnswersHeld /\ RecordFails => LookupTypes' /\ AnswersHeld'
<1> SUFFICES ASSUME LookupTypes, AnswersHeld, RecordFails
             PROVE  LookupTypes' /\ AnswersHeld'
  OBVIOUS
<1>1. CASE visit = "last flush"
  BY <1>1, PendingLost DEF RecordFails, AfterFlush
<1>2. CASE visit = "flush"
  BY <1>2, LookupsKept DEF RecordFails, AfterFlush, LookingUp, dbVars, lookupVars
<1> QED
  BY <1>1, <1>2 DEF RecordFails, Flushing
LEMMA MonthHolds == LookupTypes /\ AnswersHeld /\ MonthPasses => LookupTypes' /\ AnswersHeld'
<1> SUFFICES ASSUME LookupTypes, AnswersHeld, MonthPasses
             PROVE  LookupTypes' /\ AnswersHeld'
  OBVIOUS
<1>1. /\ visit = "off" /\ checked' = {} /\ answered' = [k \in Kits |-> "unasked"]
      /\ UNCHANGED <<visit, sets, todo, failures, pending, stored, ean>>
  BY DEF MonthPasses, lookupVars
<1>2. todo = {} /\ pending = {}
  BY <1>1 DEF LookupTypes, LookingUp
<1>3. LookupTypes'
  BY <1>1 DEF LookupTypes, LookingUp
<1>4. AnswersHeld'
  BY <1>1, <1>2 DEF AnswersHeld
<1> QED
  BY <1>3, <1>4

LEMMA LookupStep == LookupPart /\ [Next]_vars => LookupPart'
<1> SUFFICES ASSUME LookupTypes, AnswersHeld, [Next]_vars
             PROVE  LookupTypes' /\ AnswersHeld'
  <2>1. LookupTypes' /\ AnswersHeld' => AnswersInv'
    BY HeldIsKept, PTL
  <2> QED
    BY <2>1, KeptIsHeld DEF LookupPart
<1>1. CASE PageIsSuspicious \/ FetchFails \/ NothingStored \/ NoLookups
  <2>1. EndVisit /\ UNCHANGED <<dbVars, answered>> /\ ~LookingUp
    BY <1>1 DEF PageIsSuspicious, FetchFails, NothingStored, NoLookups, Reading, LookingUp
  <2>2. pending = {}
    BY <2>1 DEF LookupTypes
  <2> QED
    BY <2>1, <2>2, LookupsOver
<1>2. CASE Crash
  BY <1>2, PendingLost DEF Crash
<1>3. CASE StartVisit \/ GetStep \/ Request \/ VisitIsCut \/ SiteChanges \/ ReadIndex \/ ReadPage
           \/ UNCHANGED vars
  <2>1. /\ UNCHANGED <<lookupVars, dbVars, answered>>
        /\ visit' = visit \/ (~LookingUp /\ visit' \in {"index", "page", "fetched"})
    BY <1>3 DEF StartVisit, GetStep, Request, VisitIsCut, SiteChanges, ReadIndex, ReadPage, vars, LookingUp
  <2>2. LookingUp => LookingUp'
    BY <2>1 DEF LookingUp
  <2>3. visit' = "asking" => todo # {} /\ failures < MaxFailures
    BY <2>1 DEF LookupTypes
  <2> QED
    BY <2>1, <2>2, <2>3, LookupsKept
<1>4. CASE AskNext \/ LookupsAreOver
  <2>1. /\ UNCHANGED <<lookupVars, dbVars, answered>> /\ visit' \in {"asking", "last flush"}
        /\ visit' = "asking" => todo # {} /\ failures < MaxFailures
    BY <1>4 DEF AskNext, LookupsAreOver
  <2>2. LookingUp'
    BY <2>1 DEF LookingUp
  <2> QED
    BY <2>1, <2>2, LookupsKept
<1> QED
  BY <1>1, <1>2, <1>3, <1>4, StoreHolds, BeginHolds, AnswerHolds, FailureHolds, RecordHolds,
     RecordFailsHolds, MonthHolds DEF Next, Step

LEMMA LookupsAlways == Spec => []LookupPart
<1>1. ASSUME Init
      PROVE  LookupPart
  <2>1. 0 \in 0 .. MaxFailures
    BY VisitAssumption DEF VisitAssumption
  <2>2. LookupTypes
    BY <1>1, <2>1 DEF Init, LookupTypes, LookingUp
  <2>3. AnswersHeld
    BY <1>1 DEF Init, AnswersHeld
  <2> QED
    BY <2>2, <2>3, HeldIsKept DEF LookupPart
<1>2. Init => LookupPart
  BY <1>1
<1> QED
  BY <1>2, LookupStep, PTL DEF Spec

\* What the shop answered is pending or saved for good, what was lost is not
\* taken for answered, and within thirty days only that is asked again.
THEOREM AnswersStay == Spec => []AnswersAreKept
<1>1. LookupPart => AnswersAreKept
  BY DEF LookupPart, AnswersInv
<1> QED
  BY <1>1, LookupsAlways, PTL

\* Types, and what a fetch tells of the shop.
THEOREM FetchTellsTheTruth == Spec => []FetchInv
<1>1. HttpInv /\ FetchPart /\ LookupPart => TypeOK
  <2> SUFFICES ASSUME HttpInv, FetchPart, LookupPart
               PROVE  TypeOK
    OBVIOUS
  <2>1. pending \subseteq Kits \X {"nothing", "barcode"}
    BY DEF LookupPart, LookupTypes
  <2> QED
    BY <2>1 DEF HttpInv, FetchPart, FetchTypes, LookupPart, LookupTypes, TypeOK
<1>2. TypeOK /\ FetchIsExact /\ FetchMissesForAReason => FetchInv
  BY DEF FetchInv
<1> QED
  BY <1>1, <1>2, HttpAlways, FetchAlways, LookupsAlways, FetchReturnsTheListing, FetchMissesNoOther, PTL
=============================================================================
