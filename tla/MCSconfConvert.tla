--------------------------- MODULE MCSconfConvert ---------------------------
(* A small instance of SconfConvert: every text of up to MaxLen characters *)
(* of an alphabet that holds numerals in each base and the words.          *)
EXTENDS SconfConvert

MCAlphabet == {" ", "-", "+", "0", "1", "8", "a", "x", "X", ".", "n", "o"}

MCDigit ==
    [c \in MCAlphabet |-> CASE c = "0" -> 0 [] c = "1" -> 1 [] c = "8" -> 8
                            [] c = "a" -> 10 [] OTHER -> 99]

MCTrueWords == {<<"o", "n">>}

MCFalseWords == {<<"n", "o">>}

MCFloatWords == {<<"n", "a", "n">>}
=============================================================================
