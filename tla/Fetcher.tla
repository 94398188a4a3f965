------------------------------ MODULE Fetcher ------------------------------
(***************************************************************************)
(* The HTTP client of one shop's scraper: a request at a time, a pause     *)
(* before each but the first, retries of transient failures. Times are in  *)
(* seconds. A process has one fetcher per shop, which the catalog's pages  *)
(* and the barcode lookups share.                                          *)
(***************************************************************************)
EXTENDS Context, Naturals

CONSTANTS
  Delay,          \* the pause before a request (the jitter only adds to it)
  Retries,        \* further attempts after a transient failure
  RetryBackoff,   \* the wait before the first of them; it doubles
  MaxRetryAfter,  \* the longest wait a shop can ask for
  RetryAfters     \* what a shop asks for with a 429 or 5xx; 0: nothing

ASSUME FetcherAssumption ==
  /\ {Delay, RetryBackoff, MaxRetryAfter} \subseteq Nat
  /\ Retries \in Nat \ {0}
  /\ RetryAfters \subseteq Nat
  /\ Delay <= RetryBackoff /\ Delay <= MaxRetryAfter

VARIABLES
  requested,  \* whether get was called before
  http,       \* the call of get under way
  sent        \* whether the shop got a request of this process (history)

fetcherVars == <<ctx, requested, http, sent>>

Smaller(a, b) == IF a <= b THEN a ELSE b
Larger(a, b) == IF a <= b THEN b ELSE a

(* wait is what was, or is being, slept before the request; need is what   *)
(* the shop may expect of it; backoff is the wait of the next retry.       *)
NoGet == [step |-> "none", attempt |-> 0, backoff |-> 0, wait |-> 0, need |-> 0]

NewFetcher == requested' = FALSE /\ http' = NoGet /\ sent' = FALSE

BeginGet ==
  /\ http.step = "none"
  /\ http' = [step |-> IF requested THEN "pause" ELSE "ask", attempt |-> 0,
              backoff |-> RetryBackoff, wait |-> 0, need |-> IF sent THEN Delay ELSE 0]
  /\ requested' = TRUE
  /\ UNCHANGED <<ctx, sent>>

Pause ==
  /\ http.step = "pause"
  /\ ctx = "live"
  /\ http' = [http EXCEPT !.step = "ask", !.wait = Delay]
  /\ UNCHANGED <<ctx, requested, sent>>

(* Mutation of RetryWait: only the back-off counts.                        *)
RetryWaitBackoff(backoff, asked) == backoff
RetryWait(backoff, asked) == IF asked > backoff THEN Smaller(asked, MaxRetryAfter) ELSE backoff

(* A dropped connection, a truncated body, a timeout, a 429 or a 5xx.      *)
Transient ==
  /\ http.step = "ask"
  /\ ctx = "live"
  /\ http.attempt < Retries
  /\ \E asked \in RetryAfters :
       http' = [http EXCEPT !.step = "wait",
                            !.wait = RetryWait(http.backoff, asked),
                            !.need = Larger(Delay, Smaller(asked, MaxRetryAfter))]
  /\ sent' = TRUE
  /\ UNCHANGED <<ctx, requested>>

WaitOut ==
  /\ http.step = "wait"
  /\ ctx = "live"
  /\ http' = [http EXCEPT !.step = "ask", !.attempt = @ + 1, !.backoff = 2 * @]
  /\ UNCHANGED <<ctx, requested, sent>>

GetOk ==
  /\ http.step = "ask"
  /\ ctx = "live"
  /\ http' = NoGet
  /\ sent' = TRUE
  /\ UNCHANGED <<ctx, requested>>

(* A failure that is not retried, the last of a row of transient ones, or  *)
(* the end of the context, which also cuts a pause or a wait short. What   *)
(* the caller cannot decode or parse fails it just the same.               *)
GetFails ==
  /\ http.step # "none"
  /\ http.step = "ask" \/ ctx # "live"
  /\ http' = NoGet
  /\ sent' = (sent \/ http.step = "ask")
  /\ UNCHANGED <<ctx, requested>>

FetcherTypeOK ==
  /\ ctx \in ContextStates
  /\ requested \in BOOLEAN /\ sent \in BOOLEAN
  /\ http \in [step : {"none", "pause", "ask", "wait"}, attempt : 0 .. Retries,
               backoff : Nat, wait : Nat, need : Nat]
  /\ http.wait <= Larger(MaxRetryAfter, http.backoff)

=============================================================================
