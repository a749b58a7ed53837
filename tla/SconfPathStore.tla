--------------------------- MODULE SconfPathStore ---------------------------
(***************************************************************************)
(* The step machine of SconfPath implements the abstract store: its nodes  *)
(* are a configuration, a call of sconf_set is one step of it, and         *)
(* sconf_get answers from it.                                              *)
(***************************************************************************)
EXTENDS SconfPath

VARIABLES
    place,     \* how each node was reached when it was attached (history)
    before,    \* the configuration, while a call runs that when it began
    failed     \* an allocation has failed during the call (history)

storeVars == <<vars, place, before, failed>>

(* The refinement mapping: what is at the places of the nodes in the tree. *)
ConfigOf(h, placed) ==
    LET in == {n \in Ids : Live(h, n)}
    IN  [p \in {placed[n] : n \in in} |->
            LET n == CHOOSE m \in in : placed[m] = p
            IN  [type |-> h[n].type, val |-> h[n].val]]

Placed ==
    [n \in Ids |->
        IF Live(heap, n) \/ ~Live(heap', n) THEN place[n]
        ELSE Append(place[parent], CHOOSE k \in Keys : heap'[parent].kids[k] = n)]

StoreInit ==
    /\ Init
    /\ place = [n \in Ids |-> <<>>]
    /\ before = ConfigOf(heap, place)
    /\ failed = FALSE

(* The step the call takes when every allocation succeeds.                 *)
Unfailing ==
    \/ SetFirst
    \/ Unused(heap) # {} /\ (SetParent("none") \/ SetLeaf("none"))

StoreNext ==
    /\ Next
    /\ place' = Placed
    /\ before' = IF pc' \in {"walk", "fault"} THEN before
                 ELSE ConfigOf(heap', place')
    /\ failed' = (pc = "walk" /\ (failed \/ ~Unfailing))

StoreSpec == StoreInit /\ [][StoreNext]_storeVars

-----------------------------------------------------------------------------

Store == INSTANCE SconfStore WITH
    config <- before,
    answer <- IF pc = "done"
              THEN [path |-> call.path, type |-> call.type, val |-> call.val,
                    ret |-> ret, failed |-> failed]
              ELSE [path |-> <<>>, type |-> "none", val |-> NULL,
                    ret |-> 0, failed |-> FALSE]

-----------------------------------------------------------------------------
(* Every behaviour of the step machine is one of the abstract store: what  *)
(* a call does between its steps is not to be seen afterwards, a failed    *)
(* call leaves the containers of its path and nothing else, and no call    *)
(* fails or succeeds but for its path, its type and what was there.        *)
ImplementsStore == Store!Spec

(* sconf_get answers every path from the configuration alone: no state of  *)
(* the nodes that the configuration does not show, the size of an array or *)
(* an empty slot, changes what it returns.                                 *)
GetAnswersStore ==
    pc = "idle" =>
        \A path \in Paths :
            LET found == Store!Find(before, path)
                got   == Get(heap, path)
            IN  /\ got.status = found.status
                /\ found.status = "found" => place[got.node] = found.place
=============================================================================
