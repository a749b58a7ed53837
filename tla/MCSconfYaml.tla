----------------------------- MODULE MCSconfYaml -----------------------------
(* A small instance of SconfYaml: every stream of events with a few nodes. *)
EXTENDS SconfYaml

CONSTANTS n1, n2, b1

(* n1 is a string, n2 an integer out of range, b1 the string [1].          *)
MCTextType ==
    [t \in Tokens |-> CASE t = n2 -> "refused" [] OTHER -> "str"]

MCIndexOf == [b \in Brackets |-> 1]
=============================================================================
