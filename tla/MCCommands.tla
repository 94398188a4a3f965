----------------------------- MODULE MCCommands -----------------------------
(* A small instance of Commands. *)
EXTENDS Commands

CONSTANTS g, z, x

Both == <<g, z>>
SomeSelections == {<<z>>, <<g, x>>}
NewOrRetired == {(g :> r) @@ (z :> "none") : r \in {"none", "retired"}}
Quiet == <<"a">>

(* The message of no changes, and texts of 5 bytes with a character of two *)
(* bytes and a newline, or without either.                                 *)
Strings == [1 .. 5 -> Bytes]
WrittenTexts ==
  {Quiet} \cup {t \in Strings : Written(t) /\ (Contains(t, "s") <=> Contains(t, "n"))}
=============================================================================
