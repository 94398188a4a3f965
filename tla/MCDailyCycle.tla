---------------------------- MODULE MCDailyCycle ----------------------------
(* Small instances of DailyCycle. *)
EXTENDS DailyCycle

InStock(p)    == [price |-> p, stock |-> "in_stock"]
OutOfStock(p) == [price |-> p, stock |-> "out_of_stock"]

OneOffer == {InStock(100)}

(* A price, a move of 4 percent and one of exactly 5, and the latter while *)
(* the kit cannot be bought.                                               *)
PricedOffers == {InStock(100), InStock(96), InStock(95), OutOfStock(95)}
=============================================================================
