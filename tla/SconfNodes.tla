----------------------------- MODULE SconfNodes -----------------------------
(***************************************************************************)
(* The node heap of the library: what sconf_node_create, the dictionary    *)
(* and array primitives and sconf_node_create_and_insert do to it.  The    *)
(* module has no variables; every operator maps a heap to a heap, and the  *)
(* state machines that EXTEND it hold the heap in a variable.              *)
(*                                                                         *)
(* A heap maps every node identifier (the address calloc returns) to a     *)
(* cell.  A cell that is not allocated has type "free".  A dictionary maps *)
(* path tokens to nodes, an array maps indexes to nodes: both are the      *)
(* function kids of the cell, NULL where there is no child.                *)
(***************************************************************************)
EXTENDS SconfTypes

CONSTANTS
    Ids,         \* addresses calloc can return: the bound on live nodes
    UNINIT       \* the content of memory realloc has not initialised

ASSUME IdsAssumption ==
    /\ NULL \notin Ids
    /\ UNINIT \notin Ids
    /\ UNINIT # NULL

-----------------------------------------------------------------------------

(* The allocation that fails during a call: the node itself, what the node *)
(* owns (the string, the array), or the larger array.                      *)
Faults == {"none", "node", "payload", "grow"}

Cell == [type : NodeTypes \cup {"free"},
         kids : [Keys -> Ids \cup {NULL, UNINIT}],
         size : 0 .. ArrayMax,
         val  : Values \cup {NULL}]

Heaps == [Ids -> Cell]

FreeCell == [type |-> "free", kids |-> [k \in Keys |-> NULL],
             size |-> 0, val |-> NULL]

(* calloc'ed arrays have one slot, set to NULL; the rest is not theirs.    *)
NewCell(type, data) ==
    [type |-> type,
     kids |-> [k \in Keys |-> IF type = "array" /\ k \in Indexes \ {0}
                              THEN UNINIT ELSE NULL],
     size |-> IF type = "array" THEN 1 ELSE 0,
     val  |-> IF type \in Scalars THEN data ELSE NULL]

Unused(h) == {n \in Ids : h[n].type = "free"}

(* sconf_node_create: on failure everything it allocated is freed again.   *)
CanCreate(h, type, fault) ==
    /\ Unused(h) # {}
    /\ type \in NodeTypes
    /\ fault # "node"
    /\ ~(fault = "payload" /\ type \in {"array", "str"})

Fresh(h) == CHOOSE n \in Ids : h[n].type = "free"

Create(h, n, type, data) == [h EXCEPT ![n] = NewCell(type, data)]

(* sconf_node_destroy of a node that has no children.                      *)
Release(h, n) == [h EXCEPT ![n] = FreeCell]

-----------------------------------------------------------------------------
(* Results: the return value of a C function and the heap it leaves.  A    *)
(* "fault" is an access outside the array, after which C promises nothing. *)

Result(status, node, h) == [status |-> status, node |-> node, heap |-> h]

Error(h) == Result("error", NULL, h)

Ok(node, h) == Result("ok", node, h)

(* art_search on the dictionary's tree.                                    *)
DictSearch(h, name, parent) == h[parent].kids[name]

(* The output pointer is left NULL past the end of the array.              *)
ArraySearch(h, index, parent) ==
    IF index < h[parent].size THEN h[parent].kids[index] ELSE NULL

(* art_insert replaces what the name held and returns it, which            *)
(* sconf_node_dict_insert reports as an error.                             *)
DictInsert(h, name, parent, node) ==
    LET h2 == [h EXCEPT ![parent].kids[name] = node]
    IN  IF h[parent].kids[name] = NULL THEN Ok(node, h2) ELSE Error(h2)

(* Slip: the slots are left as realloc returns them.                       *)
ArrayGrowUnset(h, parent, needed) ==
    [h EXCEPT ![parent].size = needed]

(* sconf_array_grow: the slots past the old size are set to NULL.          *)
ArrayGrow(h, parent, needed) ==
    [h EXCEPT ![parent].kids =
                  [k \in Keys |-> IF k \in h[parent].size .. needed - 1
                                  THEN NULL ELSE @[k]],
              ![parent].size = needed]

(* Slip: the limit is compared with <= instead of <.                       *)
ArrayInsertPastMax(h, index, parent, node, fault) ==
    LET needed  == (index + 1) % UIntMod
        growing == needed > h[parent].size
        h2      == IF growing THEN ArrayGrow(h, parent, needed) ELSE h
    IN  IF growing /\ (needed > ArrayMax + 1 \/ fault = "grow") THEN Error(h)
        ELSE IF index \notin Indexes THEN Result("fault", NULL, h)
        ELSE IF h2[parent].kids[index] # NULL THEN Error(h2)
        ELSE Ok(node, [h2 EXCEPT ![parent].kids[index] = node])

(* Slip: room for one element more than is inserted.                       *)
ArrayInsertRoomy(h, index, parent, node, fault) ==
    LET needed  == (index + 2) % UIntMod
        growing == needed > h[parent].size
        h2      == IF growing THEN ArrayGrow(h, parent, needed) ELSE h
    IN  IF growing /\ (needed > ArrayMax \/ fault = "grow") THEN Error(h)
        ELSE IF index \notin Indexes THEN Result("fault", NULL, h)
        ELSE IF h2[parent].kids[index] # NULL THEN Error(h2)
        ELSE Ok(node, [h2 EXCEPT ![parent].kids[index] = node])

(* Slip: the slot is not looked at before it is written.                   *)
ArrayInsertOver(h, index, parent, node, fault) ==
    LET needed  == (index + 1) % UIntMod
        growing == needed > h[parent].size
        h2      == IF growing THEN ArrayGrow(h, parent, needed) ELSE h
    IN  IF growing /\ (needed > ArrayMax \/ fault = "grow") THEN Error(h)
        ELSE IF index \notin Indexes THEN Result("fault", NULL, h)
        ELSE Ok(node, [h2 EXCEPT ![parent].kids[index] = node])

ArrayInsert(h, index, parent, node, fault) ==
    LET needed  == (index + 1) % UIntMod      \* uint32_t arithmetic
        growing == needed > h[parent].size
        h2      == IF growing THEN ArrayGrow(h, parent, needed) ELSE h
    IN  IF growing /\ (needed > ArrayMax \/ fault = "grow") THEN Error(h)
        ELSE IF index \notin Indexes THEN Result("fault", NULL, h)
        ELSE IF h2[parent].kids[index] # NULL THEN Error(h2)
        ELSE Ok(node, [h2 EXCEPT ![parent].kids[index] = node])

-----------------------------------------------------------------------------
(* sconf_node_create_and_insert.                                           *)

(* Slip: what the parent already holds is not looked up.                   *)
LookupNothing(h, name, parent, index) == NULL

Lookup(h, name, parent, index) ==
    IF h[parent].type = "dict"
    THEN DictSearch(h, name, parent)
    ELSE ArraySearch(h, Element(name, index), parent)

(* Slip: the type of the node found is not compared.                       *)
UnusableAnyType(h, name, type, parent, index) ==
    \/ h[parent].type \notin Containers
    \/ h[parent].type = "dict" /\ name = NULL
    \/ h[parent].type = "array" /\ name \in Brackets /\ IndexOf[name] < 0

(* What is refused before anything is changed.                             *)
Unusable(h, name, type, parent, index) ==
    \/ h[parent].type \notin Containers
    \/ h[parent].type = "dict" /\ name = NULL
    \/ h[parent].type = "array" /\ name \in Brackets /\ IndexOf[name] < 0
    \/ LET node == Lookup(h, name, parent, index)
       IN  node # NULL /\ h[node].type # type

(* A string is freed before the new one is copied: when the copy fails the *)
(* node stays, without a string.                                           *)
Replace(h, node, type, data, fault) ==
    IF type = "str" /\ fault = "payload"
    THEN Error([h EXCEPT ![node].val = NULL])
    ELSE Ok(node, [h EXCEPT ![node].val = IF type \in Scalars THEN data
                                          ELSE @])

Attach(h, name, parent, index, node, fault) ==
    IF h[parent].type = "dict"
    THEN DictInsert(h, name, parent, node)
    ELSE ArrayInsert(h, Element(name, index), parent, node, fault)

(* Slip: a node that could not be attached is not destroyed.               *)
AddNewKept(h, name, type, parent, index, data, fault) ==
    LET n   == Fresh(h)
        res == Attach(Create(h, n, type, data), name, parent, index, n, fault)
    IN  IF ~CanCreate(h, type, fault) THEN Error(h) ELSE res

AddNew(h, name, type, parent, index, data, fault) ==
    LET n   == Fresh(h)
        res == Attach(Create(h, n, type, data), name, parent, index, n, fault)
    IN  IF ~CanCreate(h, type, fault) THEN Error(h)
        ELSE IF res.status = "error" THEN Error(Release(res.heap, n))
        ELSE res

CreateAndInsert(h, name, type, parent, index, data, fault) ==
    LET node == Lookup(h, name, parent, index)
    IN  IF Unusable(h, name, type, parent, index) THEN Error(h)
        ELSE IF node # NULL THEN Replace(h, node, type, data, fault)
        ELSE AddNew(h, name, type, parent, index, data, fault)

-----------------------------------------------------------------------------
(* What every operation has to keep: the nodes are one tree.  root is the  *)
(* node without a parent, and level tells how far below it a node is.      *)

Live(h, n) == h[n].type # "free"

NoDangling(h, root) ==
    \A n \in Ids, k \in Keys :
        h[n].kids[k] \in Ids =>
            Live(h, n) /\ Live(h, h[n].kids[k]) /\ h[n].kids[k] # root

OneParent(h) ==
    \A n, m \in Ids, k, l \in Keys :
        h[n].kids[k] \in Ids /\ h[n].kids[k] = h[m].kids[l] => n = m /\ k = l

NoLeak(h, root) ==
    \A n \in Ids \ {root} :
        Live(h, n) => \E m \in Ids, k \in Keys : h[m].kids[k] = n

Graded(h, level) ==
    \A n \in Ids, k \in Keys :
        h[n].kids[k] \in Ids => level[h[n].kids[k]] = level[n] + 1

Tree(h, root, level) ==
    /\ Live(h, root)
    /\ level[root] = 0
    /\ NoDangling(h, root)
    /\ OneParent(h)
    /\ NoLeak(h, root)
    /\ Graded(h, level)

(* No slot below the size of an array is as realloc returned it, only such *)
(* slots hold nodes, and only a dictionary has children under names.       *)
CellSlots(c) ==
    /\ c.type = "array" <=> c.size > 0
    /\ \A k \in Indexes : k <  c.size => c.kids[k] # UNINIT
    /\ \A k \in Indexes : k >= c.size => c.kids[k] \notin Ids
    /\ \A k \in Tokens :
          /\ c.kids[k] # UNINIT
          /\ c.kids[k] \in Ids => c.type = "dict"

Slots(h) == \A n \in Ids : CellSlots(h[n])
=============================================================================
