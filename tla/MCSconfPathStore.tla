-------------------------- MODULE MCSconfPathStore --------------------------
(* A small instance of SconfPathStore: a call for every way a path can go, *)
(* in every order, on a dictionary and on an array.                        *)
EXTENDS SconfPathStore

CONSTANTS MaxLen, LongPaths, n1, n2, b0, b1, b2, b3, b4, b5, bx

(* One path for each way in which dictionaries and arrays nest further     *)
(* down, and one that is refused.                                          *)
MCLongPaths ==
    {<<n1, b1, n1>>, <<n1, b1, b1>>, <<b1, b1, n1>>, <<n1, n1, n1, n1>>}

(* The paths with an index that is refused or too large.                   *)
MCWrongPaths == {<<bx>>, <<b2>>, <<n1, bx>>, <<n1, b2>>, <<b1, bx>>, <<bx, n1>>}

(* Every path of up to MaxLen other tokens, the longer and the wrong ones. *)
MCPaths ==
    UNION {[1 .. len -> {n1, b1}] : len \in 0 .. MaxLen}
        \cup LongPaths \cup MCWrongPaths

(* The token bi is [i]; bx stands for [-1], [x], [] and [0.                *)
MCIndexOf ==
    [b \in Brackets |-> CASE b = b0 -> 0 [] b = b1 -> 1 [] b = b2 -> 2
                          [] b = b3 -> 3 [] b = b4 -> 4 [] b = b5 -> 5
                          [] b = bx -> -1]
=============================================================================
