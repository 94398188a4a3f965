------------------------------ MODULE MCWatches ------------------------------
(* Small instances of Watches. *)
EXTENDS Watches, TLC

CONSTANTS s1, s2

InStock(p)    == [price |-> p, buyable |-> TRUE]
OutOfStock(p) == [price |-> p, buyable |-> FALSE]

(* Around a target of 100: the target itself, a cent less, a drop of just  *)
(* 3 percent, a cent more, one that cannot be bought, and a price of 0. A  *)
(* second listing comes and goes between those prices.                     *)
Wobbling == {InStock(100), InStock(99), InStock(97), InStock(101), OutOfStock(97), InStock(0)}
TwoListings == (s1 :> Wobbling) @@ (s2 :> {InStock(98)})

OneListing == s1 :> {InStock(100), OutOfStock(100)}
SteadyListing == s1 :> {InStock(100)}

EverySpec == SUBSET Sets \ {{}}
WholeSpec == {Sets}

AllOptions == {[onRestock |-> TRUE, onNew |-> TRUE]}
SomeOptions == AllOptions \cup {[onRestock |-> FALSE, onNew |-> FALSE],
                                [onRestock |-> TRUE, onNew |-> FALSE]}
=============================================================================
