----------------------------- MODULE MCSconfPath -----------------------------
(* A small instance of SconfPath: every call with a path of at most        *)
(* MaxLen tokens, in every order, on a dictionary and on an array.         *)
EXTENDS SconfPath

CONSTANTS MaxLen, LongPaths, n1, n2, b0, b1, b2, b3, b4, b5, bx

(* One path for each way in which dictionaries and arrays nest further     *)
(* down, and one that is refused.                                          *)
MCLongPaths ==
    {<<n1, b1, n1>>, <<n1, b1, b1>>, <<b1, b1, n1>>, <<n1, n1, n1, n1>>}

(* Paths that are as long as MaxDepth allows no more.                      *)
MCDeepPaths == {<<b0, b0, b0>>, <<b0, n1, n1>>, <<b0, n1, b0>>}

(* Every path of up to MaxLen tokens, and the longer ones given.           *)
MCPaths ==
    UNION {[1 .. len -> Tokens] : len \in 0 .. MaxLen} \cup LongPaths

(* The token bi is [i]; bx stands for [-1], [x], [] and [0.                *)
MCIndexOf ==
    [b \in Brackets |-> CASE b = b0 -> 0 [] b = b1 -> 1 [] b = b2 -> 2
                          [] b = b3 -> 3 [] b = b4 -> 4 [] b = b5 -> 5
                          [] b = bx -> -1]
=============================================================================
