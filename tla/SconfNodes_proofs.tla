-------------------------- MODULE SconfNodes_proofs --------------------------
(***************************************************************************)
(* Lemmas about the operators of SconfNodes: what one call of              *)
(* sconf_node_create_and_insert does to a heap that is a tree.             *)
(***************************************************************************)
EXTENDS SconfNodes, TLAPS

(* Linked(h, h2, p, k, n): h2 is h with the new node n attached to p at    *)
(* key k.                                                                  *)
Linked(h, h2, p, k, n) ==
    /\ h2 \in Heaps
    /\ p \in Ids /\ n \in Ids /\ k \in Keys /\ p # n
    /\ Live(h, p) /\ ~Live(h, n)
    /\ h[p].kids[k] \notin Ids
    /\ \A m \in Ids \ {p, n} : h2[m] = h[m]
    /\ Live(h2, n)
    /\ \A j \in Keys : h2[n].kids[j] \notin Ids
    /\ h2[n].size \in {0, 1}
    /\ h2[p].type = h[p].type
    /\ \/ h2[p].size = h[p].size
       \/ k \in Indexes /\ k >= h[p].size /\ h2[p].size = k + 1
    /\ h2[p].val = h[p].val
    /\ h2[p].kids[k] = n
    /\ \A j \in Keys \ {k} :
          \/ h2[p].kids[j] = h[p].kids[j]
          \/ h2[p].kids[j] \notin Ids /\ h[p].kids[j] \notin Ids

(* Attaching one fresh node at a free key keeps a tree a tree, the new     *)
(* node one level below its parent.                                        *)
LEMMA LinkedTree ==
    ASSUME NEW h \in Heaps, NEW h2 \in Heaps, NEW root \in Ids,
           NEW level \in [Ids -> Nat],
           NEW p, NEW k, NEW n,
           Tree(h, root, level), Linked(h, h2, p, k, n)
    PROVE  Tree(h2, root, [level EXCEPT ![n] = level[p] + 1])
<1> DEFINE lv == [level EXCEPT ![n] = level[p] + 1]
<1>0. /\ p \in Ids /\ n \in Ids /\ k \in Keys /\ p # n /\ n # root
      /\ Live(h, root)
  BY DEF Tree, Linked
<1>1. \A m \in Ids, j \in Keys : h2[m].kids[j] \in Ids =>
          \/ m = p /\ j = k /\ h2[m].kids[j] = n
          \/ (m # p \/ j # k) /\ h2[m].kids[j] = h[m].kids[j]
  BY <1>0 DEF Linked
<1>2. \A m \in Ids, j \in Keys : h[m].kids[j] \in Ids =>
          h2[m].kids[j] = h[m].kids[j] /\ (m # p \/ j # k)
  BY <1>0 DEF Linked, Tree, NoDangling
<1>3. \A m \in Ids : Live(h2, m) <=> (Live(h, m) \/ m = n)
  BY <1>0 DEF Linked, Live
<1>4. \A m \in Ids, j \in Keys : h[m].kids[j] # n
  BY <1>0 DEF Tree, NoDangling, Linked
<1>5. NoDangling(h2, root)
  BY <1>0, <1>1, <1>3 DEF Tree, NoDangling, Linked
<1>6. OneParent(h2)
  BY <1>0, <1>1, <1>4 DEF Tree, OneParent
<1>7. NoLeak(h2, root)
  <2> SUFFICES ASSUME NEW m \in Ids \ {root}, Live(h2, m)
               PROVE  \E q \in Ids, j \in Keys : h2[q].kids[j] = m
    BY DEF NoLeak
  <2>1. CASE m = n
    BY <2>1, <1>0 DEF Linked
  <2>2. CASE m # n
    BY <2>2, <1>2, <1>3 DEF Tree, NoLeak
  <2> QED BY <2>1, <2>2
<1>8. Graded(h2, lv)
  BY <1>0, <1>1, <1>4 DEF Tree, Graded, NoDangling, Linked, Live
<1>9. Live(h2, root) /\ lv[root] = 0
  BY <1>0, <1>3 DEF Tree
<1> QED BY <1>5, <1>6, <1>7, <1>8, <1>9 DEF Tree

(* Kept(h, h2): the same nodes with the same types and children; values    *)
(* may differ.                                                             *)
Kept(h, h2) ==
    /\ h2 \in Heaps
    /\ Slots(h2)
    /\ \A m \in Ids : h2[m].type = h[m].type /\ h2[m].size = h[m].size
    /\ \A m \in Ids, j \in Keys :
          h[m].kids[j] \in Ids \/ h2[m].kids[j] \in Ids =>
              h2[m].kids[j] = h[m].kids[j]

(* The shape of the tree does not depend on the values.                    *)
LEMMA KeptTree ==
    ASSUME NEW h \in Heaps, NEW h2 \in Heaps, NEW root \in Ids,
           NEW level \in [Ids -> Nat],
           Tree(h, root, level), Kept(h, h2)
    PROVE  Tree(h2, root, level)
<1>1. NoDangling(h2, root)
  BY DEF Tree, NoDangling, Kept, Live
<1>2. OneParent(h2)
  BY DEF Tree, OneParent, Kept
<1>3. NoLeak(h2, root)
  BY DEF Tree, NoLeak, Kept, Live
<1>4. Graded(h2, level)
  BY DEF Tree, Graded, Kept
<1> QED BY <1>1, <1>2, <1>3, <1>4 DEF Tree, Kept, Live

(* The cell sconf_node_create fills in, for every type it accepts.         *)
LEMMA NewCellType ==
    ASSUME NEW type \in NodeTypes, NEW data \in Values \cup {NULL}
    PROVE  /\ NewCell(type, data) \in Cell
           /\ NewCell(type, data).type = type
           /\ NewCell(type, data).size = (IF type = "array" THEN 1 ELSE 0)
           /\ \A k \in Keys :
                 NewCell(type, data).kids[k] =
                     IF type = "array" /\ k \in Indexes \ {0} THEN UNINIT ELSE NULL
  BY IndexAssumption
     DEF NewCell, Cell, NodeTypes, Containers, Scalars

(* An index is cut to 32 bits, whatever strtol returned.                   *)
LEMMA ElementType ==
    ASSUME NEW name \in Tokens \cup {NULL}, NEW index \in 0 .. UIntMod - 1
    PROVE  Element(name, index) \in 0 .. UIntMod - 1
<1>1. CASE name \in Brackets
  <2>1. IndexOf[name] \in Int /\ UIntMod \in Nat \ {0}
    BY <1>1, IndexAssumption
  <2>2. IndexOf[name] % UIntMod \in 0 .. UIntMod - 1
    BY <2>1
  <2> QED BY <1>1, <2>2 DEF Element
<1>2. CASE name \notin Brackets
  BY <1>2 DEF Element
<1> QED BY <1>1, <1>2

(* The successor of an uint32_t wraps to 0 only from the largest one.      *)
LEMMA Successor ==
    ASSUME NEW i \in 0 .. UIntMod - 1
    PROVE  (i + 1) % UIntMod = IF i + 1 = UIntMod THEN 0 ELSE i + 1
<1>1. UIntMod \in Nat \ {0}
  BY IndexAssumption
<1> QED BY <1>1

(* The key of the parent that a name or an index stands for.               *)
Slot(h, name, parent, index) ==
    IF h[parent].type = "dict" THEN name ELSE Element(name, index)

(* What a search finds is the child of the parent at that key.             *)
LEMMA LookupFinds ==
    ASSUME NEW h \in Heaps, Slots(h), NEW parent \in Ids,
           NEW name \in Tokens \cup {NULL}, NEW index \in 0 .. UIntMod - 1,
           h[parent].type \in Containers,
           h[parent].type = "dict" => name # NULL,
           Lookup(h, name, parent, index) # NULL
    PROVE  /\ Slot(h, name, parent, index) \in Keys
           /\ h[parent].kids[Slot(h, name, parent, index)]
                  = Lookup(h, name, parent, index)
           /\ Lookup(h, name, parent, index) \in Ids
<1> DEFINE i == Element(name, index)
<1>0. h[parent] \in Cell
  BY DEF Heaps
<1>1. CASE h[parent].type = "dict"
  <2>1. name \in Tokens
    BY <1>1
  <2>2. h[parent].kids[name] \in Ids
    BY <1>0, <1>1, <2>1 DEF Lookup, DictSearch, Slots, CellSlots, Cell, Keys
  <2> QED BY <1>1, <2>1, <2>2 DEF Lookup, DictSearch, Keys, Slot
<1>2. CASE h[parent].type = "array"
  <2>1. i \in 0 .. UIntMod - 1
    BY ElementType
  <2>2. i < h[parent].size
    BY <1>2, <2>1 DEF Lookup, ArraySearch
  <2>3. i \in Indexes
    BY <1>0, <2>1, <2>2, IndexAssumption DEF Cell, Indexes
  <2>4. h[parent].kids[i] = Lookup(h, name, parent, index)
    BY <1>2, <2>2 DEF Lookup, ArraySearch
  <2>5. h[parent].kids[i] \in Ids
    BY <1>0, <2>2, <2>3, <2>4 DEF Slots, CellSlots, Cell, Keys
  <2> QED BY <1>2, <2>3, <2>4, <2>5 DEF Keys, Slot
<1> QED BY <1>1, <1>2 DEF Containers

(* The root alone is a tree: how every caller begins.                      *)
LEMMA RootAlone ==
    ASSUME NEW h, NEW root \in Ids, NEW t \in NodeTypes,
           NEW level \in [Ids -> Nat], level[root] = 0,
           h = [n \in Ids |-> IF n = root THEN NewCell(t, NULL) ELSE FreeCell]
    PROVE  /\ h \in Heaps
           /\ Slots(h)
           /\ Tree(h, root, level)
           /\ h[root].type = t
           /\ \A n \in Ids \ {root} : ~Live(h, n)
<1>1. /\ NewCell(t, NULL) \in Cell /\ CellSlots(NewCell(t, NULL))
      /\ NewCell(t, NULL).type = t
      /\ \A k \in Keys : NewCell(t, NULL).kids[k] \notin Ids
  <2>1. /\ NewCell(t, NULL) \in Cell
        /\ NewCell(t, NULL).type = t
        /\ NewCell(t, NULL).size = (IF t = "array" THEN 1 ELSE 0)
        /\ \A k \in Keys :
              NewCell(t, NULL).kids[k] =
                  IF t = "array" /\ k \in Indexes \ {0} THEN UNINIT ELSE NULL
    BY NewCellType
  <2> QED BY <2>1, IdsAssumption, TokensAssumption, IndexAssumption
          DEF CellSlots, Keys, Indexes
<1>2. /\ FreeCell \in Cell /\ CellSlots(FreeCell)
      /\ FreeCell.type = "free"
      /\ \A k \in Keys : FreeCell.kids[k] \notin Ids
  BY IdsAssumption, IndexAssumption
     DEF FreeCell, Cell, CellSlots, Keys, Indexes
<1>3. /\ h \in Heaps
      /\ h[root].type = t
      /\ \A n \in Ids \ {root} : h[n].type = "free"
      /\ \A n \in Ids, k \in Keys : h[n].kids[k] \notin Ids
      /\ \A n \in Ids : CellSlots(h[n])
  BY <1>1, <1>2 DEF Heaps
<1>4. Tree(h, root, level)
  BY <1>3 DEF Tree, Live, NoDangling, OneParent, NoLeak, Graded,
              NodeTypes, Containers, Scalars
<1> QED BY <1>3, <1>4 DEF Slots, Live

(* A free cell is made into a node without children.                       *)
LEMMA NodeCreated ==
    ASSUME NEW h \in Heaps, Slots(h), NEW n \in Ids, ~Live(h, n),
           NEW type \in NodeTypes, NEW data \in Values \cup {NULL}
    PROVE  LET h1 == Create(h, n, type, data)
           IN  /\ h1 \in Heaps
               /\ Slots(h1)
               /\ \A m \in Ids \ {n} : h1[m] = h[m]
               /\ Live(h1, n)
               /\ \A k \in Keys : h1[n].kids[k] \notin Ids
               /\ h1[n].size \in {0, 1}
               /\ h1[n].type = type
               /\ h1[n].val = IF type \in Scalars THEN data ELSE NULL
<1> DEFINE h1 == Create(h, n, type, data)
           c  == NewCell(type, data)
<1>1. h1 \in Heaps /\ h1[n] = c /\ \A m \in Ids \ {n} : h1[m] = h[m]
  BY NewCellType DEF Create, Heaps
<1>2. \A k \in Keys : c.kids[k] \notin Ids
  BY NewCellType, IdsAssumption
<1>3. c.type = type /\ c.type # "free"
  BY NewCellType DEF NodeTypes, Containers, Scalars
<1>4. /\ c.type = "array" <=> c.size > 0
      /\ \A k \in Indexes : k < c.size => c.kids[k] # UNINIT
      /\ \A k \in Indexes : k >= c.size => c.kids[k] \notin Ids
      /\ \A k \in Tokens : c.kids[k] # UNINIT /\ c.kids[k] \notin Ids
  BY NewCellType, IdsAssumption, TokensAssumption, IndexAssumption
     DEF Keys, Indexes
<1>5. Slots(h1)
  BY <1>1, <1>4 DEF Slots, CellSlots
<1>6. c.size \in {0, 1} /\ c.val = IF type \in Scalars THEN data ELSE NULL
  BY NewCellType DEF NewCell
<1> HIDE DEF h1, c
<1> QED BY <1>1, <1>2, <1>3, <1>5, <1>6 DEF h1, Live

(* Attaching to a dictionary that does not hold the name yet.              *)
LEMMA AttachToDict ==
    ASSUME NEW h \in Heaps, Slots(h), NEW p \in Ids, NEW n \in Ids, p # n,
           Live(h, p), ~Live(h, n),
           NEW h1 \in Heaps, Slots(h1),
           \A m \in Ids \ {n} : h1[m] = h[m],
           Live(h1, n),
           \A k \in Keys : h1[n].kids[k] \notin Ids,
           h1[n].size \in {0, 1},
           h[p].type = "dict",
           NEW name \in Tokens, h[p].kids[name] = NULL
    PROVE  LET res == DictInsert(h1, name, p, n)
           IN  /\ res.status = "ok" /\ res.node = n
               /\ Slots(res.heap)
               /\ Linked(h, res.heap, p, name, n)
               /\ res.heap[n] = h1[n]
<1> DEFINE h2 == [h1 EXCEPT ![p].kids[name] = n]
<1>1. name \in Keys
  BY DEF Keys
<1>2. h1[p] \in Cell /\ h1[p] = h[p]
  BY DEF Heaps
<1>3. /\ h2 \in Heaps
      /\ \A m \in Ids \ {p} : h2[m] = h1[m]
      /\ h2[p] = [h1[p] EXCEPT !.kids = [h1[p].kids EXCEPT ![name] = n]]
  BY <1>1, <1>2 DEF Heaps, Cell
<1>4. /\ h2[p].type = h[p].type /\ h2[p].size = h[p].size
      /\ h2[p].val = h[p].val
      /\ h2[p].kids[name] = n
      /\ \A k \in Keys \ {name} : h2[p].kids[k] = h[p].kids[k]
  BY <1>1, <1>2, <1>3 DEF Cell
<1>5. name \notin Indexes
  BY TokensAssumption, IndexAssumption DEF Indexes
<1>6. Slots(h2)
  <2>1. \A m \in Ids \ {p} : h2[m] = h1[m]
    BY <1>3
  <2>2. \A k \in Tokens : h2[p].kids[k] # UNINIT
    BY <1>2, <1>4, IdsAssumption DEF Slots, CellSlots, Keys
  <2>3. \A k \in Indexes : h2[p].kids[k] = h[p].kids[k]
    BY <1>4, <1>5 DEF Keys
  <2>4. \A k \in Tokens : h2[p].kids[k] \in Ids => h2[p].type = "dict"
    BY <1>4
  <2> HIDE DEF h2
  <2>5. CellSlots(h2[p])
    BY <1>2, <1>4, <2>2, <2>3, <2>4 DEF Slots, CellSlots
  <2> QED BY <2>1, <2>5 DEF Slots
<1>7. Linked(h, h2, p, name, n)
  <2>1. h2[n] = h1[n] /\ \A m \in Ids \ {p, n} : h2[m] = h[m]
    BY <1>3
  <2> HIDE DEF h2
  <2> QED BY <1>1, <1>3, <1>4, <2>1, IdsAssumption DEF Linked, Live
<1>8. DictInsert(h1, name, p, n) = Ok(n, h2)
  BY <1>2 DEF DictInsert
<1>9. h2[n] = h1[n]
  BY <1>3
<1> QED BY <1>6, <1>7, <1>8, <1>9 DEF Ok, Result

(* Growing an array adds empty slots.                                      *)
LEMMA GrowArray ==
    ASSUME NEW h \in Heaps, Slots(h), NEW p \in Ids, h[p].type = "array",
           NEW needed \in 1 .. ArrayMax, needed > h[p].size
    PROVE  LET h2 == ArrayGrow(h, p, needed)
           IN  /\ h2 \in Heaps
               /\ Slots(h2)
               /\ \A m \in Ids \ {p} : h2[m] = h[m]
               /\ h2[p].type = h[p].type /\ h2[p].val = h[p].val
               /\ h2[p].size = needed
               /\ h2[p].kids[needed - 1] = NULL
               /\ \A k \in Keys :
                     \/ h2[p].kids[k] = h[p].kids[k]
                     \/ h2[p].kids[k] = NULL /\ h[p].kids[k] \notin Ids
<1> DEFINE kids2 == [k \in Keys |-> IF k \in h[p].size .. needed - 1
                                   THEN NULL ELSE h[p].kids[k]]
           h2 == [h EXCEPT ![p].kids = kids2, ![p].size = needed]
<1>1. h[p] \in Cell /\ h[p].size \in 0 .. ArrayMax
  BY DEF Heaps, Cell
<1>2. kids2 \in [Keys -> Ids \cup {NULL, UNINIT}]
  BY <1>1 DEF Cell
<1>3. ArrayGrow(h, p, needed) = h2
  BY DEF ArrayGrow
<1>4. /\ h2 \in Heaps
      /\ \A m \in Ids \ {p} : h2[m] = h[m]
      /\ h2[p].type = h[p].type /\ h2[p].val = h[p].val
      /\ h2[p].size = needed /\ h2[p].kids = kids2
  <2> DEFINE c == [h[p] EXCEPT !.kids = kids2, !.size = needed]
  <2>1. c \in Cell
    <3>1. needed \in 0 .. ArrayMax
      BY IndexAssumption
    <3> HIDE DEF kids2
    <3> QED BY <1>1, <1>2, <3>1 DEF Cell
  <2>2. /\ c.type = h[p].type /\ c.val = h[p].val
        /\ c.size = needed /\ c.kids = kids2
    BY <1>1 DEF Cell
  <2>3. h2 = [h EXCEPT ![p] = c]
    BY <1>1 DEF Heaps
  <2> HIDE DEF c, kids2, h2
  <2> QED BY <2>1, <2>2, <2>3 DEF Heaps
<1>5. needed - 1 \in Indexes /\ needed - 1 \in Keys
  BY IndexAssumption DEF Indexes, Keys
<1>6. kids2[needed - 1] = NULL
  BY <1>1, <1>5
<1>7. \A k \in h[p].size .. needed - 1 : k \in Indexes /\ k >= h[p].size
  BY <1>1, IndexAssumption DEF Indexes
<1>8. \A k \in Keys : \/ kids2[k] = h[p].kids[k]
                      \/ kids2[k] = NULL /\ h[p].kids[k] \notin Ids
  BY <1>7 DEF Slots, CellSlots
<1>9. Slots(h2)
  <2>1. \A k \in Indexes : k < needed => kids2[k] # UNINIT
    BY <1>1, IdsAssumption, IndexAssumption DEF Slots, CellSlots, Keys, Indexes
  <2>2. \A k \in Indexes : k >= needed => kids2[k] \notin Ids
    BY <1>1, IdsAssumption, IndexAssumption DEF Slots, CellSlots, Keys, Indexes
  <2>3. \A k \in Tokens : kids2[k] = h[p].kids[k]
    BY <1>7, TokensAssumption, IndexAssumption DEF Keys, Indexes
  <2> HIDE DEF kids2, h2
  <2>4. CellSlots(h2[p])
    BY <1>1, <1>4, <2>1, <2>2, <2>3 DEF Slots, CellSlots
  <2> QED BY <1>4, <2>4 DEF Slots
<1> HIDE DEF kids2, h2
<1> QED BY <1>3, <1>4, <1>6, <1>8, <1>9

(* Storing a node in an empty slot below the size of an array.             *)
LEMMA FillSlot ==
    ASSUME NEW h \in Heaps, Slots(h), NEW p \in Ids, NEW n \in Ids,
           h[p].type = "array", NEW i \in Indexes, i < h[p].size
    PROVE  LET h2 == [h EXCEPT ![p].kids[i] = n]
           IN  /\ h2 \in Heaps
               /\ Slots(h2)
               /\ \A m \in Ids \ {p} : h2[m] = h[m]
               /\ h2[p].type = h[p].type /\ h2[p].val = h[p].val
               /\ h2[p].size = h[p].size
               /\ h2[p].kids[i] = n
               /\ \A k \in Keys \ {i} : h2[p].kids[k] = h[p].kids[k]
<1> DEFINE h2 == [h EXCEPT ![p].kids[i] = n]
<1>1. i \in Keys /\ i \notin Tokens
  BY TokensAssumption, IndexAssumption DEF Keys, Indexes
<1>2. h[p] \in Cell
  BY DEF Heaps
<1>3. /\ h2 \in Heaps
      /\ \A m \in Ids \ {p} : h2[m] = h[m]
      /\ h2[p] = [h[p] EXCEPT !.kids = [h[p].kids EXCEPT ![i] = n]]
  BY <1>1, <1>2 DEF Heaps, Cell
<1>4. /\ h2[p].type = h[p].type /\ h2[p].size = h[p].size
      /\ h2[p].val = h[p].val
      /\ h2[p].kids[i] = n
      /\ \A k \in Keys \ {i} : h2[p].kids[k] = h[p].kids[k]
  BY <1>1, <1>2, <1>3 DEF Cell
<1> HIDE DEF h2
<1>5. CellSlots(h2[p])
  <2>1. \A k \in Indexes \ {i} : h2[p].kids[k] = h[p].kids[k]
    BY <1>4 DEF Keys
  <2>2. \A k \in Tokens : h2[p].kids[k] = h[p].kids[k]
    BY <1>1, <1>4 DEF Keys
  <2>3. h[p].size \in Int /\ i \in Int
    BY <1>2, IndexAssumption DEF Cell, Indexes
  <2> QED BY <1>4, <2>1, <2>2, <2>3, IdsAssumption DEF Slots, CellSlots
<1>6. Slots(h2)
  BY <1>3, <1>5 DEF Slots
<1> QED BY <1>3, <1>4, <1>6 DEF h2

(* Attaching to an array that has nothing at the index: refused without a  *)
(* change, or done.  Only the largest uint32_t has no such outcome.        *)
LEMMA AttachToArray ==
    ASSUME NEW h \in Heaps, Slots(h), NEW p \in Ids, NEW n \in Ids, p # n,
           Live(h, p), ~Live(h, n),
           NEW h1 \in Heaps, Slots(h1),
           \A m \in Ids \ {n} : h1[m] = h[m],
           Live(h1, n),
           \A k \in Keys : h1[n].kids[k] \notin Ids,
           h1[n].size \in {0, 1},
           h[p].type = "array",
           NEW i \in 0 .. UIntMod - 1, ArraySearch(h, i, p) = NULL,
           NEW fault
    PROVE  LET res == ArrayInsert(h1, i, p, n, fault)
           IN  \/ res.status = "fault" /\ i = UIntMod - 1
               \/ res.status = "error" /\ res.heap = h1
               \/ /\ res.status = "ok" /\ res.node = n
                  /\ i \in Indexes
                  /\ Slots(res.heap)
                  /\ Linked(h, res.heap, p, i, n)
                  /\ res.heap[n] = h1[n]
<1> DEFINE needed  == (i + 1) % UIntMod
           growing == needed > h1[p].size
           h2      == IF growing THEN ArrayGrow(h1, p, needed) ELSE h1
           h3      == [h2 EXCEPT ![p].kids[i] = n]
           res     == ArrayInsert(h1, i, p, n, fault)
<1>0. /\ h1[p] = h[p] /\ h1[p] \in Cell /\ h1[p].size \in 0 .. ArrayMax
      /\ needed = IF i + 1 = UIntMod THEN 0 ELSE i + 1
      /\ needed \in Nat
  BY Successor, IndexAssumption DEF Heaps, Cell
<1> HIDE DEF needed
<1>1. CASE growing /\ (needed > ArrayMax \/ fault = "grow")
  <2>1. res = Error(h1)
    BY <1>1 DEF ArrayInsert, needed
  <2> QED BY <2>1 DEF Error, Result
<1>2. CASE ~(growing /\ (needed > ArrayMax \/ fault = "grow")) /\ i \notin Indexes
  <2>1. res = Result("fault", NULL, h1)
    BY <1>2 DEF ArrayInsert, needed
  <2>2. i = UIntMod - 1
    BY <1>0, <1>2, IndexAssumption DEF Indexes
  <2> QED BY <2>1, <2>2 DEF Result
<1>3. CASE ~(growing /\ (needed > ArrayMax \/ fault = "grow")) /\ i \in Indexes
  <2>1. i < ArrayMax /\ needed = i + 1 /\ needed \in 1 .. ArrayMax /\ i \in Keys
    BY <1>0, <1>3, IndexAssumption DEF Indexes, Keys
  <2>2. /\ h2 \in Heaps
        /\ Slots(h2)
        /\ \A m \in Ids \ {p} : h2[m] = h1[m]
        /\ h2[p].type = h[p].type /\ h2[p].val = h[p].val
        /\ i < h2[p].size
        /\ h2[p].size = h[p].size \/ (i >= h[p].size /\ h2[p].size = i + 1)
        /\ h2[p].kids[i] = NULL
        /\ \A k \in Keys :
              \/ h2[p].kids[k] = h[p].kids[k]
              \/ h2[p].kids[k] = NULL /\ h[p].kids[k] \notin Ids
    <3>1. CASE growing
      <4>1. h2 = ArrayGrow(h1, p, needed) /\ h1[p].type = "array"
        BY <1>0, <3>1
      <4>2. needed - 1 = i /\ needed > h1[p].size
        BY <2>1, <3>1
      <4> QED BY <1>0, <2>1, <4>1, <4>2, GrowArray
    <3>2. CASE ~growing
      <4>1. h2 = h1 /\ i < h1[p].size
        BY <1>0, <2>1, <3>2
      <4>2. h1[p].kids[i] = NULL
        BY <1>0, <4>1 DEF ArraySearch
      <4> QED BY <1>0, <4>1, <4>2
    <3> QED BY <3>1, <3>2
  <2>3. res = Ok(n, h3)
    BY <1>3, <2>2 DEF ArrayInsert, needed
  <2> HIDE DEF h2, growing
  <2>4. /\ h3 \in Heaps
        /\ Slots(h3)
        /\ \A m \in Ids \ {p} : h3[m] = h2[m]
        /\ h3[p].type = h2[p].type /\ h3[p].val = h2[p].val
        /\ h3[p].size = h2[p].size
        /\ h3[p].kids[i] = n
        /\ \A k \in Keys \ {i} : h3[p].kids[k] = h2[p].kids[k]
    BY <1>3, <2>2, FillSlot
  <2> HIDE DEF h3
  <2>5. h[p].kids[i] \notin Ids
    BY <2>1, <2>2, IdsAssumption
  <2>6. h3[n] = h1[n] /\ \A m \in Ids \ {p, n} : h3[m] = h[m]
    BY <2>2, <2>4
  <2>7. Linked(h, h3, p, i, n)
    BY <1>3, <2>1, <2>2, <2>4, <2>5, <2>6, IdsAssumption DEF Linked, Live
  <2> QED BY <1>3, <2>3, <2>4, <2>6, <2>7 DEF Ok, Result
<1> QED BY <1>1, <1>2, <1>3

(* A value is all that changes when the node exists already.               *)
LEMMA ReplaceKeeps ==
    ASSUME NEW h \in Heaps, Slots(h), NEW n \in Ids, Live(h, n),
           NEW type, NEW data \in Values \cup {NULL}, NEW fault
    PROVE  LET res == Replace(h, n, type, data, fault)
           IN  /\ Kept(h, res.heap)
               /\ \A m \in Ids \ {n} : res.heap[m] = h[m]
               /\ \/ /\ res.status = "error" /\ type = "str"
                     /\ res.heap[n].val = NULL
                  \/ /\ res.status = "ok" /\ res.node = n
                     /\ res.heap[n].val = IF type \in Scalars THEN data
                                          ELSE h[n].val
<1>1. ASSUME NEW v \in Values \cup {NULL}
      PROVE  /\ Kept(h, [h EXCEPT ![n].val = v])
             /\ \A m \in Ids \ {n} : [h EXCEPT ![n].val = v][m] = h[m]
             /\ [h EXCEPT ![n].val = v][n].val = v
  <2> DEFINE h2 == [h EXCEPT ![n].val = v]
  <2>1. /\ h2 \in Heaps
        /\ \A m \in Ids \ {n} : h2[m] = h[m]
        /\ h2[n].type = h[n].type /\ h2[n].kids = h[n].kids
        /\ h2[n].size = h[n].size /\ h2[n].val = v
    BY DEF Heaps, Cell
  <2>2. CellSlots(h2[n])
    BY <2>1 DEF Slots, CellSlots
  <2> HIDE DEF h2
  <2>3. Kept(h, h2)
    BY <2>1, <2>2 DEF Kept, Slots
  <2> QED BY <2>1, <2>3 DEF h2
<1>2. CASE type = "str" /\ fault = "payload"
  <2> DEFINE h2 == [h EXCEPT ![n].val = NULL]
  <2>1. Replace(h, n, type, data, fault) = Error(h2)
    BY <1>2 DEF Replace
  <2>2. /\ Kept(h, h2) /\ h2[n].val = NULL
        /\ \A m \in Ids \ {n} : h2[m] = h[m]
    BY <1>1
  <2> HIDE DEF h2
  <2> QED BY <1>2, <2>1, <2>2 DEF Error, Result
<1>3. CASE ~(type = "str" /\ fault = "payload")
  <2> DEFINE v  == IF type \in Scalars THEN data ELSE h[n].val
             h2 == [h EXCEPT ![n].val = v]
  <2>1. v \in Values \cup {NULL}
    BY DEF Heaps, Cell
  <2>2. Replace(h, n, type, data, fault) = Ok(n, h2)
    BY <1>3 DEF Replace
  <2> HIDE DEF v
  <2>3. /\ Kept(h, h2) /\ h2[n].val = v
        /\ \A m \in Ids \ {n} : h2[m] = h[m]
    BY <1>1, <2>1
  <2> HIDE DEF h2
  <2> QED BY <2>2, <2>3 DEF Ok, Result, v
<1> QED BY <1>2, <1>3

(* Destroying the node that could not be attached undoes its creation.     *)
LEMMA ReleaseKeeps ==
    ASSUME NEW h \in Heaps, Slots(h), NEW n \in Ids, ~Live(h, n),
           \A k \in Keys : h[n].kids[k] \notin Ids,
           NEW h1 \in Heaps,
           \A m \in Ids \ {n} : h1[m] = h[m]
    PROVE  /\ Kept(h, Release(h1, n))
           /\ \A m \in Ids \ {n} : Release(h1, n)[m] = h[m]
<1> DEFINE h2 == Release(h1, n)
<1>1. FreeCell \in Cell
  BY IndexAssumption DEF FreeCell, Cell
<1>2. h2 \in Heaps /\ h2[n] = FreeCell /\ \A m \in Ids \ {n} : h2[m] = h[m]
  BY <1>1 DEF Release, Heaps
<1>3. \A k \in Keys : FreeCell.kids[k] = NULL
  BY DEF FreeCell
<1>4. FreeCell.type = "free" /\ FreeCell.size = 0
  BY DEF FreeCell
<1>5. CellSlots(FreeCell)
  BY <1>3, <1>4, IdsAssumption, IndexAssumption
     DEF CellSlots, Keys, Indexes
<1> HIDE DEF h2
<1>6. Slots(h2)
  BY <1>2, <1>5 DEF Slots
<1>7. \A m \in Ids : h2[m].type = h[m].type /\ h2[m].size = h[m].size
  <2>1. h[n].type = "free" /\ h[n].size = 0
    BY IndexAssumption DEF Live, Slots, CellSlots, Heaps, Cell
  <2> QED BY <1>2, <1>4, <2>1
<1>8. \A m \in Ids, k \in Keys :
          h[m].kids[k] \in Ids \/ h2[m].kids[k] \in Ids =>
              h2[m].kids[k] = h[m].kids[k]
  BY <1>2, <1>3, IdsAssumption
<1> QED BY <1>2, <1>6, <1>7, <1>8 DEF Kept, h2

(* What sconf_node_create_and_insert has to be given to look at a parent:  *)
(* a container, a name for a dictionary, no refused index for an array.    *)
Usable(h, name, parent) ==
    /\ h[parent].type \in Containers
    /\ h[parent].type = "dict" => name # NULL
    /\ h[parent].type = "array" => ~ (name \in Brackets /\ IndexOf[name] < 0)

(* A refusal keeps the nodes; at most a string is lost.                    *)
Refusal(h, h2, node, type) ==
    /\ Kept(h, h2)
    /\ \A m \in Ids : Live(h, m) /\ h2[m].val # h[m].val =>
          m = node /\ h[m].type = "str" /\ type = "str" /\ h2[m].val = NULL

(* The node that was there gets a value if its type has one.               *)
Overwrite(h, h2, node, type, data) ==
    /\ Kept(h, h2)
    /\ node \in Ids /\ h[node].type = type
    /\ h2[node].val = IF type \in Scalars THEN data ELSE h[node].val
    /\ \A m \in Ids \ {node} : h2[m] = h[m]

(* A new node with its value is attached.                                  *)
Addition(h, h2, p, k, node, type, data) ==
    /\ Slots(h2)
    /\ Linked(h, h2, p, k, node)
    /\ h2[node].type = type
    /\ h2[node].val = IF type \in Scalars THEN data ELSE NULL

(* Only nodes that are allocated hold others or are held.                  *)
Dense(h) ==
    \A n \in Ids, k \in Keys :
        h[n].kids[k] \in Ids => Live(h, n) /\ Live(h, h[n].kids[k])

(* The four outcomes of sconf_node_create_and_insert: the wild access of   *)
(* the largest index, a refusal that keeps the nodes, the child that was   *)
(* there, or one new node attached to the parent.                          *)
CallOutcome(h, name, type, parent, index, data, res) ==
    LET node == Lookup(h, name, parent, index)
        slot == Slot(h, name, parent, index)
    IN  \/ /\ res.status = "fault" /\ Usable(h, name, parent)
           /\ h[parent].type = "array" /\ slot = UIntMod - 1
        \/ /\ res.status = "error"
           /\ Refusal(h, res.heap, node, type)
           /\ Usable(h, name, parent) \/ res.heap = h
        \/ /\ res.status = "ok" /\ Usable(h, name, parent)
           /\ res.node = node /\ node # NULL
           /\ slot \in Keys /\ h[parent].kids[slot] = node
           /\ Overwrite(h, res.heap, node, type, data)
           /\ Live(h, node)
        \/ /\ res.status = "ok" /\ Usable(h, name, parent)
           /\ node = NULL
           /\ Addition(h, res.heap, parent, slot, res.node, type, data)

(* On a tree, the child that was there is one level further down.          *)
Outcome(h, level, name, type, parent, index, data, res) ==
    /\ CallOutcome(h, name, type, parent, index, data, res)
    /\ res.status = "ok" /\ Lookup(h, name, parent, index) # NULL =>
           level[res.node] = level[parent] + 1

(* sconf_node_create_and_insert has no other outcome.                      *)
LEMMA CreateAndInsertCall ==
    ASSUME NEW h \in Heaps, Slots(h), Dense(h),
           NEW name \in Tokens \cup {NULL}, NEW type,
           NEW parent \in Ids, Live(h, parent),
           NEW index \in 0 .. UIntMod - 1,
           NEW data \in Values \cup {NULL}, NEW fault
    PROVE  CallOutcome(h, name, type, parent, index, data,
                       CreateAndInsert(h, name, type, parent, index, data, fault))
<1> DEFINE res  == CreateAndInsert(h, name, type, parent, index, data, fault)
           node == Lookup(h, name, parent, index)
           slot == Slot(h, name, parent, index)
           bad  == Unusable(h, name, type, parent, index)
<1>0. Refusal(h, h, node, type)
  BY DEF Refusal, Kept
<1>1. CASE bad
  <2>1. res = Error(h)
    BY <1>1 DEF CreateAndInsert
  <2> QED BY <1>0, <2>1 DEF Error, Result, CallOutcome
<1>2. ASSUME ~bad
      PROVE  Usable(h, name, parent) /\ (node # NULL => h[node].type = type)
  BY <1>2 DEF Unusable, Usable
<1>3. CASE ~bad /\ node # NULL
  <2>1. slot \in Keys /\ h[parent].kids[slot] = node /\ node \in Ids
    BY <1>2, <1>3, LookupFinds DEF Usable
  <2> HIDE DEF slot
  <2>2. Live(h, node)
    BY <2>1 DEF Dense
  <2>3. res = Replace(h, node, type, data, fault)
    BY <1>3 DEF CreateAndInsert
  <2> HIDE DEF node
  <2>4. /\ Kept(h, res.heap)
        /\ \A m \in Ids \ {node} : res.heap[m] = h[m]
        /\ \/ /\ res.status = "error" /\ type = "str"
              /\ res.heap[node].val = NULL
           \/ /\ res.status = "ok" /\ res.node = node
              /\ res.heap[node].val = IF type \in Scalars THEN data
                                      ELSE h[node].val
    <3> DEFINE rep == Replace(h, node, type, data, fault)
    <3>1. /\ Kept(h, rep.heap)
          /\ \A m \in Ids \ {node} : rep.heap[m] = h[m]
          /\ \/ /\ rep.status = "error" /\ type = "str"
                /\ rep.heap[node].val = NULL
             \/ /\ rep.status = "ok" /\ rep.node = node
                /\ rep.heap[node].val = IF type \in Scalars THEN data
                                        ELSE h[node].val
      BY <2>1, <2>2, ReplaceKeeps
    <3>2. res = rep
      BY <2>3
    <3> HIDE DEF rep, res
    <3> QED BY <3>1, <3>2
  <2> HIDE DEF res
  <2>5. CASE res.status = "error"
    <3>1. Refusal(h, res.heap, node, type)
      BY <1>2, <1>3, <2>4, <2>5 DEF Refusal
    <3> QED BY <1>2, <1>3, <2>5, <3>1 DEF res, node, slot, CallOutcome
  <2>6. CASE res.status # "error"
    <3>1. Overwrite(h, res.heap, node, type, data)
      BY <1>2, <1>3, <2>1, <2>4, <2>6 DEF Overwrite
    <3> QED BY <1>2, <1>3, <2>1, <2>2, <2>4, <2>6, <3>1 DEF res, node, slot, CallOutcome
  <2> QED BY <2>5, <2>6
<1>4. CASE ~bad /\ node = NULL
  <2> DEFINE n   == Fresh(h)
             h1  == Create(h, n, type, data)
             att == Attach(h1, name, parent, index, n, fault)
  <2>0. res = AddNew(h, name, type, parent, index, data, fault)
    BY <1>4 DEF CreateAndInsert
  <2>1. CASE ~CanCreate(h, type, fault)
    <3>1. res = Error(h)
      BY <2>0, <2>1 DEF AddNew
    <3> QED BY <1>0, <3>1 DEF Error, Result, CallOutcome
  <2>2. CASE CanCreate(h, type, fault)
    <3>1. n \in Ids /\ ~Live(h, n) /\ type \in NodeTypes
      BY <2>2 DEF CanCreate, Unused, Fresh, Live
    <3>2. parent # n
      BY <3>1
    <3>3. \A k \in Keys : h[n].kids[k] \notin Ids
      BY <3>1 DEF Dense
    <3> HIDE DEF n
    <3>4. /\ h1 \in Heaps /\ Slots(h1)
          /\ \A m \in Ids \ {n} : h1[m] = h[m]
          /\ Live(h1, n)
          /\ \A k \in Keys : h1[n].kids[k] \notin Ids
          /\ h1[n].size \in {0, 1}
          /\ h1[n].type = type
          /\ h1[n].val = IF type \in Scalars THEN data ELSE NULL
      BY <3>1, NodeCreated
    <3>5. h1[parent] = h[parent]
      BY <3>2, <3>4
    <3> HIDE DEF h1
    <3>6. \/ att.status = "fault" /\ h[parent].type = "array" /\ slot = UIntMod - 1
          \/ att.status = "error" /\ att.heap = h1
          \/ /\ att.status = "ok" /\ att.node = n /\ Slots(att.heap)
             /\ Linked(h, att.heap, parent, slot, n) /\ att.heap[n] = h1[n]
      <4>1. CASE h[parent].type = "dict"
        <5>1. name \in Tokens /\ h[parent].kids[name] = NULL /\ slot = name
          BY <1>2, <1>4, <4>1 DEF Lookup, DictSearch, Slot, Usable
        <5>2. att = DictInsert(h1, name, parent, n)
          BY <3>5, <4>1 DEF Attach
        <5> HIDE DEF att, slot
        <5> QED BY <3>1, <3>2, <3>4, <4>1, <5>1, <5>2, AttachToDict
      <4>2. CASE h[parent].type = "array"
        <5>1. slot \in 0 .. UIntMod - 1 /\ slot = Element(name, index)
          BY <4>2, ElementType DEF Slot
        <5>2. ArraySearch(h, slot, parent) = NULL
          BY <1>4, <4>2, <5>1 DEF Lookup
        <5>3. att = ArrayInsert(h1, slot, parent, n, fault)
          BY <3>5, <4>2, <5>1 DEF Attach
        <5> HIDE DEF slot, att
        <5> QED BY <3>1, <3>2, <3>4, <4>2, <5>1, <5>2, <5>3, AttachToArray
      <4> QED BY <1>2, <1>4, <4>1, <4>2 DEF Containers, Usable
    <3>7. res = IF att.status = "error" THEN Error(Release(att.heap, n)) ELSE att
      BY <2>0, <2>2 DEF AddNew, n, h1
    <3> HIDE DEF att, res, slot, node
    <3>8. CASE att.status = "error" /\ att.heap = h1
      <4>1. /\ Kept(h, Release(h1, n))
            /\ \A m \in Ids \ {n} : Release(h1, n)[m] = h[m]
        BY <3>1, <3>3, <3>4, ReleaseKeeps
      <4>2. res.status = "error" /\ res.heap = Release(h1, n)
        BY <3>7, <3>8 DEF Error, Result
      <4>3. Refusal(h, res.heap, node, type)
        BY <3>1, <4>1, <4>2 DEF Refusal, Live
      <4> QED BY <1>2, <1>4, <4>2, <4>3 DEF res, node, slot, CallOutcome
    <3>9. CASE att.status # "error"
      <4>1. res = att
        BY <3>7, <3>9
      <4>2. CASE att.status = "fault"
        BY <1>2, <1>4, <3>6, <4>1, <4>2 DEF res, slot, CallOutcome
      <4>3. CASE att.status = "ok"
        <5>1. Addition(h, res.heap, parent, slot, n, type, data)
          BY <3>4, <3>6, <4>1, <4>3 DEF Addition
        <5>2. res.status = "ok" /\ res.node = n
          BY <3>6, <4>1, <4>3
        <5> QED BY <1>2, <1>4, <5>1, <5>2 DEF res, node, slot, CallOutcome
      <4> QED BY <3>6, <3>9, <4>2, <4>3
    <3> QED BY <3>6, <3>8, <3>9
  <2> QED BY <2>1, <2>2
<1> QED BY <1>1, <1>3, <1>4

(* Nor has it on a tree.                                                   *)
LEMMA CreateAndInsertOutcomes ==
    ASSUME NEW h \in Heaps, Slots(h),
           NEW root \in Ids, NEW level \in [Ids -> Nat], Tree(h, root, level),
           NEW name \in Tokens \cup {NULL}, NEW type,
           NEW parent \in Ids, Live(h, parent),
           NEW index \in 0 .. UIntMod - 1,
           NEW data \in Values \cup {NULL}, NEW fault
    PROVE  Outcome(h, level, name, type, parent, index, data,
                   CreateAndInsert(h, name, type, parent, index, data, fault))
<1> DEFINE res == CreateAndInsert(h, name, type, parent, index, data, fault)
<1>1. Dense(h)
  BY DEF Tree, NoDangling, Dense
<1>2. CallOutcome(h, name, type, parent, index, data, res)
  BY <1>1, CreateAndInsertCall
<1> HIDE DEF res
<1>3. ASSUME res.status = "ok", Lookup(h, name, parent, index) # NULL
      PROVE  level[res.node] = level[parent] + 1
  <2> DEFINE node == Lookup(h, name, parent, index)
             slot == Slot(h, name, parent, index)
  <2>1. /\ res.node = node /\ slot \in Keys
        /\ h[parent].kids[slot] = node /\ Usable(h, name, parent)
    BY <1>2, <1>3 DEF CallOutcome
  <2>2. node \in Ids
    BY <1>3, <2>1, LookupFinds DEF Usable
  <2> HIDE DEF node, slot
  <2> QED BY <2>1, <2>2 DEF Tree, Graded
<1> QED BY <1>2, <1>3 DEF Outcome, res

(* A step that can be taken: its parent can be looked at, it stands for a  *)
(* key, and what is there already has the type required.                   *)
Fits(h, name, type, parent, index) ==
    LET slot == Slot(h, name, parent, index)
    IN  /\ Usable(h, name, parent)
        /\ slot \in Keys
        /\ type \in NodeTypes
        /\ h[parent].kids[slot] \in Ids => h[h[parent].kids[slot]].type = type

(* No other step succeeds, whatever the arrays are grown to.               *)
LEMMA MadeFits ==
    ASSUME NEW h \in Heaps, NEW name, NEW type, NEW parent \in Ids, NEW index,
           NEW data, NEW res, res.status = "ok",
           CallOutcome(h, name, type, parent, index, data, res)
    PROVE  Fits(h, name, type, parent, index)
<1> DEFINE slot == Slot(h, name, parent, index)
           node == Lookup(h, name, parent, index)
<1>1. CASE /\ Usable(h, name, parent) /\ node # NULL /\ slot \in Keys
           /\ h[parent].kids[slot] = node
           /\ Overwrite(h, res.heap, node, type, data) /\ Live(h, node)
  <2> HIDE DEF slot, node
  <2>1. type \in NodeTypes
    BY <1>1 DEF Overwrite, Live, Heaps, Cell
  <2> QED BY <1>1, <2>1 DEF Overwrite, Fits, slot
<1>2. CASE /\ Usable(h, name, parent)
           /\ Addition(h, res.heap, parent, slot, res.node, type, data)
  <2> HIDE DEF slot, node
  <2>1. type \in NodeTypes
    BY <1>2 DEF Addition, Linked, Live, Heaps, Cell
  <2> QED BY <1>2, <2>1 DEF Addition, Linked, Fits, slot
<1> QED BY <1>1, <1>2 DEF CallOutcome

(* An index within the limit that holds nothing is filled, with room made  *)
(* for it if there is none.                                                *)
LEMMA FreeIndexFilled ==
    ASSUME NEW h \in Heaps, NEW parent \in Ids, NEW i \in Indexes,
           ArraySearch(h, i, parent) = NULL, NEW node, NEW fault, fault # "grow"
    PROVE  ArrayInsert(h, i, parent, node, fault).status = "ok"
<1> DEFINE needed  == (i + 1) % UIntMod
           growing == needed > h[parent].size
           h2      == IF growing THEN ArrayGrow(h, parent, needed) ELSE h
<1>1. needed = i + 1 /\ needed <= ArrayMax /\ i \in Keys /\ i \in Nat
  <2>1. i \in 0 .. UIntMod - 1 /\ i + 1 # UIntMod /\ i + 1 <= ArrayMax
    BY IndexAssumption DEF Indexes
  <2>2. needed = i + 1
    BY <2>1, Successor
  <2> QED BY <2>1, <2>2 DEF Keys
<1>2. h[parent].size \in Nat /\ h[parent] \in Cell
  BY IndexAssumption DEF Heaps, Cell
<1> HIDE DEF needed
<1>3. h2[parent].kids[i] = NULL
  <2>1. CASE growing
    <3>1. i \in h[parent].size .. needed - 1
      BY <1>1, <1>2, <2>1
    <3>2. h2[parent].kids = [k \in Keys |-> IF k \in h[parent].size .. needed - 1
                                            THEN NULL ELSE h[parent].kids[k]]
      BY <2>1 DEF ArrayGrow, Heaps
    <3> QED BY <1>1, <3>1, <3>2
  <2>2. CASE ~growing
    <3>1. i < h[parent].size
      BY <1>1, <1>2, <2>2
    <3> QED BY <2>2, <3>1 DEF ArraySearch
  <2> QED BY <2>1, <2>2
<1>4. ArrayInsert(h, i, parent, node, fault)
      = IF growing /\ (needed > ArrayMax \/ fault = "grow") THEN Error(h)
        ELSE IF i \notin Indexes THEN Result("fault", NULL, h)
        ELSE IF h2[parent].kids[i] # NULL THEN Error(h2)
        ELSE Ok(node, [h2 EXCEPT ![parent].kids[i] = node])
  BY DEF ArrayInsert, needed
<1>5. ~(needed > ArrayMax)
  BY <1>1, <1>2, IndexAssumption
<1> HIDE DEF h2, growing
<1> QED BY <1>3, <1>4, <1>5 DEF Ok, Result

(* A step that can be taken is refused only when memory runs out.          *)
LEMMA FitsIsMade ==
    ASSUME NEW h \in Heaps, Slots(h),
           NEW name \in Tokens \cup {NULL}, NEW type,
           NEW parent \in Ids, Live(h, parent), NEW index \in 0 .. UIntMod - 1,
           NEW data \in Values \cup {NULL},
           Fits(h, name, type, parent, index), Unused(h) # {}
    PROVE  CreateAndInsert(h, name, type, parent, index, data, "none").status = "ok"
<1> DEFINE slot == Slot(h, name, parent, index)
           node == Lookup(h, name, parent, index)
           res  == CreateAndInsert(h, name, type, parent, index, data, "none")
<1>1. /\ Usable(h, name, parent) /\ slot \in Keys /\ type \in NodeTypes
      /\ h[parent].kids[slot] \in Ids => h[h[parent].kids[slot]].type = type
  BY DEF Fits
<1>2. node # NULL => h[node].type = type
  <2>1. node # NULL => h[parent].kids[slot] = node /\ node \in Ids
    BY <1>1, LookupFinds DEF Usable
  <2> HIDE DEF node, slot
  <2> QED BY <1>1, <2>1
<1>3. ~Unusable(h, name, type, parent, index)
  BY <1>1, <1>2 DEF Usable, Unusable
<1>4. CASE node # NULL
  <2>1. res = Replace(h, node, type, data, "none")
    BY <1>3, <1>4 DEF CreateAndInsert
  <2> HIDE DEF node, res
  <2> QED BY <2>1 DEF Replace, Ok, Result, res
<1>5. CASE node = NULL
  <2> DEFINE n   == Fresh(h)
             h1  == Create(h, n, type, data)
             att == Attach(h1, name, parent, index, n, "none")
  <2>1. n \in Ids /\ ~Live(h, n) /\ CanCreate(h, type, "none")
    BY <1>1 DEF CanCreate, Unused, Fresh, Live
  <2>2. res = IF att.status = "error" THEN Error(Release(att.heap, n)) ELSE att
    BY <1>3, <1>5, <2>1 DEF CreateAndInsert, AddNew
  <2> HIDE DEF n
  <2>3. h1 \in Heaps /\ h1[parent] = h[parent]
    <3>1. parent # n
      BY <2>1
    <3> QED BY <1>1, <2>1, <3>1, NodeCreated
  <2> HIDE DEF h1, res
  <2>4. att.status = "ok"
    <3>1. CASE h[parent].type = "dict"
      <4>1. att = DictInsert(h1, name, parent, n)
        BY <2>3, <3>1 DEF Attach
      <4>2. h1[parent].kids[name] = NULL
        BY <1>5, <2>3, <3>1 DEF Lookup, DictSearch
      <4> HIDE DEF att
      <4> QED BY <4>1, <4>2 DEF DictInsert, Ok, Result
    <3>2. CASE h[parent].type = "array"
      <4>1. slot \in 0 .. UIntMod - 1 /\ slot = Element(name, index)
        BY <3>2, ElementType DEF Slot
      <4>2. slot \in Indexes
        BY <1>1, <4>1, TokensAssumption DEF Keys
      <4>3. ArraySearch(h1, slot, parent) = NULL
        BY <1>5, <2>3, <3>2, <4>1 DEF Lookup, ArraySearch
      <4>4. att = ArrayInsert(h1, slot, parent, n, "none")
        BY <2>3, <3>2, <4>1 DEF Attach
      <4> HIDE DEF att, slot
      <4> QED BY <2>3, <4>2, <4>3, <4>4, FreeIndexFilled
    <3> QED BY <1>1, <3>1, <3>2 DEF Usable, Containers
  <2> HIDE DEF att
  <2> QED BY <2>2, <2>4 DEF res
<1> QED BY <1>4, <1>5
=============================================================================
