------------------------------ MODULE MCPrices ------------------------------
(***************************************************************************)
(* Three listings: one of a shop that sells in euros, two of a shop that   *)
(* sells in kroner.  1 and 2 are one kit; 3 is called by a word that       *)
(* carries no information.  The version of 1 is of two words, each short   *)
(* enough for a spec, but not joined.                                      *)
(***************************************************************************)
EXTENDS Prices

Word(w) == [kind |-> "word", text |-> w]
Version(w) == [kind |-> "version", text |-> w]
Noise(w) == [kind |-> "noise", text |-> w]
Zaku == [kind |-> "code",
         text |-> [stem |-> "ms06", tail |-> <<>>, slash |-> <<>>, last |-> "06",
                   words |-> {"ms"}, numbers |-> {"06"}]]

MCListings == 1 .. 3
MCShop == <<"A", "B", "B">>
MCGrade == <<"MG", None, "HG">>
MCName == << <<Zaku, Word("zaku"), Version("clear"), Version("verka")>>, <<Zaku, Word("zaku")>>, <<Noise("gundam")>> >>
MCLoneLetters == {"e", "f", "s"}
MCShopOrder == <<"A", "B">>
MCCurrency == [A |-> "EUR", B |-> "DKK"]
MCKit == <<7, 7, 0>>

Price(cents, stock) == [cents |-> cents, stock |-> stock]
A == {1 :> Price(20, "in_stock"), 1 :> Price(17, "out_of_stock"), NoListing}
B == {2 :> Price(150, "preorder"), 2 :> Price(130, "out_of_stock") @@ 3 :> Price(130, "unknown"),
      3 :> Price(150, "in_stock")}
MCCatalogs == [A |-> A, B |-> B]
MCLegacy == 2 :> Price(140, "unknown") @@ 3 :> Price(110, "in_stock")
MCFilters == [shop : {None, "B"}, grade : {None, "none", "MG"}, names : {MCListings}, all : BOOLEAN]
=============================================================================
