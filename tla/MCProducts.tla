---------------------------- MODULE MCProducts ------------------------------
(***************************************************************************)
(* Four listings of three shops.  1, 2 and 4 print the model number and    *)
(* could be one kit; 2 and 3 are of one shop and have the barcode of 4;    *)
(* 3 shares two of three words with it.                                    *)
(***************************************************************************)
EXTENDS Products

Word(w) == [kind |-> "word", text |-> w]
Noise(w) == [kind |-> "noise", text |-> w]
Version(w) == [kind |-> "version", text |-> w]
Zaku == [kind |-> "code",
         text |-> [stem |-> "ms06", tail |-> <<>>, slash |-> <<>>, last |-> "06",
                   words |-> {"ms"}, numbers |-> {"06"}]]

MCListings == 1 .. 4
MCShop == <<"A", "B", "B", "C">>
MCGrade == <<"HG", None, None, "MG">>
MCName == << <<Noise("hg"), Zaku, Word("char"), Word("zaku")>>,
             <<Zaku, Word("zaku"), Word("char")>>,
             <<Word("char"), Word("zaku"), Word("unit")>>,
             <<Zaku, Word("zaku"), Word("char"), Word("custom")>> >>
MCNameLength == <<4, 3, 3, 4>>
Digits(d) == [i \in 1 .. 12 |-> IF i = 1 THEN d ELSE 4]
MCBarcode == << <<>>, Digits(1), Digits(1), <<0>> \o Digits(1)>>
MCJudged == {<<2, 1>>}
MCLoneLetters == {"e", "f", "s"}
=============================================================================
