------------------------------ MODULE MCVisit ------------------------------
(* A small instance of ShopVisit. *)
EXTENDS ShopVisit

(* Two pages and a product in two categories; an empty category, and one   *)
(* with nothing but an accessory.                                          *)
TwoPages == {<<<<1, 2, 3>>, <<3>>>>, <<<<>>, <<4>>>>}
=============================================================================
