----------------------------- MODULE SconfTypes -----------------------------
(***************************************************************************)
(* What the modules share: the tokens a path is split into, the values,    *)
(* the types of nodes, and how a token is read as the index of an array.   *)
(***************************************************************************)
EXTENDS Integers

CONSTANTS
    Names,       \* path tokens that do not start with '['
    Brackets,    \* path tokens that start with '['
    IndexOf,     \* what strtol makes of a bracket token, < 0 if refused
    UIntMod,     \* 2^32, the modulus of the uint32_t index (scaled down)
    ArrayMax,    \* SCONF_ARRAY_MAX_SIZE (scaled down)
    Values,      \* the strings, integers, booleans and floats stored
    NULL         \* the null pointer

Tokens == Names \cup Brackets

Indexes == 0 .. ArrayMax - 1

Keys == Tokens \cup Indexes

ASSUME TokensAssumption ==
    /\ Names \cap Brackets = {}
    /\ Tokens \cap Int = {}
    /\ NULL \notin Tokens \cup Int

ASSUME IndexAssumption ==
    /\ ArrayMax \in Nat \ {0}
    /\ UIntMod \in Nat
    /\ UIntMod > ArrayMax
    /\ IndexOf \in [Brackets -> Int]

ASSUME ValuesAssumption == NULL \notin Values

-----------------------------------------------------------------------------

Containers == {"dict", "array"}

Scalars == {"str", "int", "bool", "float"}

NodeTypes == Containers \cup Scalars

(* A caller may also pass SCONF_TYPE_YAML_FILE, SCONF_TYPE_USAGE or a      *)
(* number that is no type; "other" stands for all of them.                 *)
CallTypes == NodeTypes \cup {"other"}

(* Slip: the index is taken as counted from one.                           *)
ElementFromOne(name, index) ==
    IF name \in Brackets THEN (IndexOf[name] + 1) % UIntMod ELSE index

(* sconf_array_get_index_from_string stores a long in an uint32_t; a name  *)
(* without a bracket leaves the index at the caller's value.               *)
Element(name, index) ==
    IF name \in Brackets THEN IndexOf[name] % UIntMod ELSE index
=============================================================================
