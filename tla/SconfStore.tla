------------------------------ MODULE SconfStore ------------------------------
(***************************************************************************)
(* The abstract specification of a configuration tree: one call of         *)
(* sconf_set is one step, which succeeds as a whole or reports an error,   *)
(* and which of the two is determined unless memory runs out.              *)
(***************************************************************************)
EXTENDS SconfConfig

CONSTANTS
    RootTypes,   \* the types the root may have been created with
    Paths,       \* the paths of the calls, split at '.'
    SetTypes     \* the types of the calls

VARIABLES
    config,      \* the configuration
    answer       \* the call that has just returned and how it went

vars == <<config, answer>>

Answer(path, type, val, ret, failed) ==
    [path |-> path, type |-> type, val |-> val, ret |-> ret, failed |-> failed]

NoAnswer == Answer(<<>>, "none", NULL, 0, FALSE)

Init ==
    /\ \E type \in RootTypes : config = Empty(type)
    /\ answer = NoAnswer

(* Only a call in which an allocation failed may end in another way than   *)
(* the path, the type and the configuration determine.                     *)
Outcomes(c, path, type, val, failed) ==
    {Set(c, path, type, val)} \cup
        IF failed THEN OutOfMemory(c, path, type) ELSE {}

SetPath(path, type, val) ==
    /\ answer = NoAnswer
    /\ \E ret \in {-1, 0}, failed \in BOOLEAN :
         /\ answer' = Answer(path, type, val, ret, failed)
         /\ \E o \in Outcomes(config, path, type, val, failed) :
              o.ret = ret /\ config' = o.config

Taken ==
    /\ answer # NoAnswer
    /\ answer' = NoAnswer
    /\ UNCHANGED config

Next ==
    \/ \E path \in Paths, type \in SetTypes, val \in Values :
         SetPath(path, type, val)
    \/ Taken

Spec == Init /\ [][Next]_vars
=============================================================================
