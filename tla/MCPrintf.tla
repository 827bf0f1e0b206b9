------------------------------ MODULE MCPrintf ------------------------------
(***************************************************************************)
(* Instance of Printf for TLC: words of 8 bits, slots at the edges of the  *)
(* signed and unsigned ranges, formats with every kind of directive, two   *)
(* conversions in one format among them.                                   *)
(***************************************************************************)
EXTENDS Printf

MCChars == {"a", "%", "-", "+", " ", "#", "0", "1", "2", "h", "l", "d", "u", "x", "X", "p", "s", "c"}
MCValues == {0, 9, 16, 127, 128, 171, 255}
MCText == [v \in 0 .. WORD - 1 |-> IF v > 100 THEN <<"t", "e", "x", "t", "s">> ELSE <<"t">>]
=============================================================================
