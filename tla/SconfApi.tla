------------------------------ MODULE SconfApi ------------------------------
(***************************************************************************)
(* The node functions as a program calls them: nodes are created and       *)
(* belong to the program until they are inserted, are inserted into        *)
(* dictionaries and arrays, iterated over and destroyed.                   *)
(*                                                                         *)
(* A call is one step, but for the two that last: an iteration, during     *)
(* which the program may call anything else (it holds a position of        *)
(* sconf_node_array_next, or is in a callback of a foreach function), and  *)
(* sconf_node_destroy, whose recursion takes one step per node.            *)
(*                                                                         *)
(* The program keeps to what C and the library ask of it: it inserts and   *)
(* destroys only nodes that are its own, inserts no node below itself,     *)
(* destroys nothing it is iterating over, and adds nothing to the          *)
(* dictionary it is iterating over (art_iter walks the tree itself).       *)
(***************************************************************************)
EXTENDS SconfNodes, FiniteSets, Sequences

CONSTANTS
    NewTypes,    \* the types the program passes
    Positions,   \* the indexes the program passes
    AllocFaults  \* the allocation failures that happen

ASSUME ApiAssumption ==
    /\ IsFiniteSet(Ids)
    /\ NewTypes \subseteq CallTypes
    /\ Positions \subseteq 0 .. UIntMod - 2
    /\ \A b \in Brackets : IndexOf[b] % UIntMod # UIntMod - 1
    /\ AllocFaults \subseteq Faults

VARIABLES
    heap,    \* the nodes
    owned,   \* the nodes the program has to insert or to destroy
    ret,     \* what the last call returned: -1, 0, or 1 for an element
    cursor,  \* the iteration: its container, position, names to come
    seen,    \* the keys it has visited (history)
    missed,  \* the slots filled behind its position (history)
    frames,  \* the calls of sconf_node_destroy, the innermost one first
    doomed   \* the nodes below the one that is being destroyed (history)

iteration == <<cursor, seen, missed>>
vars == <<heap, owned, ret, iteration, frames, doomed>>

NoCursor == [node |-> NULL, next |-> 0, todo |-> {}]

(* The keys under which a node holds another.                              *)
Filled(h, n) ==
    {k \in Keys : /\ h[n].kids[k] # NULL
                  /\ h[n].type = "array" => k < h[n].size}

Children(h, S) == {h[m].kids[k] : m \in S, k \in Keys} \cap Ids

(* The node and everything below it.                                       *)
Subtree(h, n) ==
    LET reach[i \in 0 .. Cardinality(Ids)] ==
          IF i = 0 THEN {n}
          ELSE LET r == reach[i - 1] IN r \cup Children(h, r)
    IN  reach[Cardinality(Ids)]

-----------------------------------------------------------------------------

Init ==
    /\ heap = [n \in Ids |-> FreeCell]
    /\ owned = {}
    /\ ret = 0
    /\ cursor = NoCursor
    /\ seen = {}
    /\ missed = {}
    /\ frames = <<>>
    /\ doomed = {}

(* The program is running, not the loop of sconf_node_destroy.             *)
Running == frames = <<>>

Iterating(type) == cursor.node # NULL /\ heap[cursor.node].type = type

Refuse == ret' = -1 /\ UNCHANGED <<heap, owned, iteration, frames, doomed>>

(* The heap a call leaves.  What it puts behind the position of an         *)
(* iteration over an array will not be visited.                            *)
Leave(h, r) ==
    /\ Iterating("dict") => h[cursor.node].kids = heap[cursor.node].kids
    /\ heap' = h
    /\ ret' = r
    /\ missed' = IF ~Iterating("array") THEN missed
                 ELSE missed \cup {k \in Filled(h, cursor.node) :
                                      /\ k < cursor.next
                                      /\ k \notin Filled(heap, cursor.node)}
    /\ UNCHANGED <<cursor, seen, frames, doomed>>

(* sconf_node_create.                                                      *)
CreateNode(type, val, fault) ==
    /\ Running
    /\ IF ~CanCreate(heap, type, fault) THEN Refuse
       ELSE /\ Leave(Create(heap, Fresh(heap), type, val), 0)
            /\ owned' = owned \cup {Fresh(heap)}

MayInsert(parent, node) ==
    /\ Running
    /\ node \in owned
    /\ Live(heap, parent)
    /\ parent \notin Subtree(heap, node)

(* sconf_node_dict_insert.  It returns -1 when the name was taken, and has *)
(* inserted the node: the one it displaced is the program's again, which   *)
(* has looked it up before.                                                *)
DictInsertNode(name, parent, node) ==
    /\ MayInsert(parent, node)
    /\ IF name = NULL \/ heap[parent].type # "dict" THEN Refuse
       ELSE LET made      == DictInsert(heap, name, parent, node)
                displaced == DictSearch(heap, name, parent)
            IN  /\ Leave(made.heap, IF made.status = "ok" THEN 0 ELSE -1)
                /\ owned' = (owned \ {node}) \cup ({displaced} \ {NULL})

(* sconf_node_array_insert.                                                *)
ArrayInsertNode(index, parent, node, fault) ==
    /\ MayInsert(parent, node)
    /\ IF heap[parent].type # "array" THEN Refuse
       ELSE LET made == ArrayInsert(heap, index, parent, node, fault)
            IN  IF made.status = "ok"
                THEN Leave(made.heap, 0) /\ owned' = owned \ {node}
                ELSE Leave(made.heap, -1) /\ UNCHANGED owned

(* sconf_node_create_and_insert; it has no bound on the depth.             *)
CreateInserted(name, type, parent, index, val, fault) ==
    /\ Running
    /\ Live(heap, parent)
    /\ LET made == CreateAndInsert(heap, name, type, parent, index, val, fault)
       IN  /\ Leave(made.heap, IF made.status = "ok" THEN 0 ELSE -1)
           /\ UNCHANGED owned

-----------------------------------------------------------------------------
(* Iterations.  sconf_node_array_foreach and a loop of calls of            *)
(* sconf_node_array_next do the same: they look at the array as it is when *)
(* they go on.                                                             *)

StartIteration(n, type) ==
    /\ Running
    /\ cursor.node = NULL
    /\ Live(heap, n)
    /\ IF heap[n].type # type THEN Refuse
       ELSE /\ cursor' = [node |-> n, next |-> 0,
                          todo |-> IF type = "dict" THEN Filled(heap, n) ELSE {}]
            /\ seen' = {}
            /\ missed' = {}
            /\ ret' = 0
            /\ UNCHANGED <<heap, owned, frames, doomed>>

EndIteration(r) == cursor' = NoCursor /\ ret' = r /\ UNCHANGED seen

First(S) == CHOOSE i \in S : \A j \in S : i <= j

(* Slip: the loop ends at an empty slot.                                   *)
VisitElementUpToHole ==
    /\ Running
    /\ Iterating("array")
    /\ IF cursor.next \in Filled(heap, cursor.node)
       THEN /\ cursor' = [cursor EXCEPT !.next = @ + 1]
            /\ seen' = seen \cup {cursor.next}
            /\ ret' = 1
       ELSE EndIteration(0)
    /\ UNCHANGED <<heap, owned, missed, frames, doomed>>

(* Slip: the position is moved on twice.                                   *)
VisitElementByTwo ==
    /\ Running
    /\ Iterating("array")
    /\ LET rest == {i \in Filled(heap, cursor.node) : i >= cursor.next}
       IN  IF rest # {}
           THEN /\ cursor' = [cursor EXCEPT !.next = First(rest) + 2]
                /\ seen' = seen \cup {First(rest)}
                /\ ret' = 1
           ELSE EndIteration(0)
    /\ UNCHANGED <<heap, owned, missed, frames, doomed>>

(* Empty slots are passed over.                                            *)
VisitElement ==
    /\ Running
    /\ Iterating("array")
    /\ LET rest == {i \in Filled(heap, cursor.node) : i >= cursor.next}
       IN  IF rest # {}
           THEN /\ cursor' = [cursor EXCEPT !.next = First(rest) + 1]
                /\ seen' = seen \cup {First(rest)}
                /\ ret' = 1
           ELSE EndIteration(0)
    /\ UNCHANGED <<heap, owned, missed, frames, doomed>>

(* art_iter calls back once per name.                                      *)
VisitName ==
    /\ Running
    /\ Iterating("dict")
    /\ IF cursor.todo # {}
       THEN \E name \in cursor.todo :
               /\ cursor' = [cursor EXCEPT !.todo = @ \ {name}]
               /\ seen' = seen \cup {name}
               /\ ret' = 1
       ELSE EndIteration(0)
    /\ UNCHANGED <<heap, owned, missed, frames, doomed>>

(* The callback returns an error, or the program asks for no more.         *)
StopIteration ==
    /\ Running
    /\ cursor.node # NULL
    /\ seen # {}
    /\ EndIteration(-1)
    /\ UNCHANGED <<heap, owned, missed, frames, doomed>>

-----------------------------------------------------------------------------
(* sconf_node_destroy.                                                     *)

Frame(n) == [node |-> n, todo |-> Filled(heap, n)]

DestroyNode(n) ==
    /\ Running
    /\ n \in owned
    /\ cursor.node \notin Subtree(heap, n)
    /\ frames' = <<Frame(n)>>
    /\ doomed' = Subtree(heap, n)
    /\ owned' = owned \ {n}
    /\ ret' = 0
    /\ UNCHANGED <<heap, iteration>>

Top == Head(frames)

(* Slip: the loop does not move on.                                        *)
DestroyChildAgain ==
    /\ frames # <<>>
    /\ \E k \in Top.todo :
         /\ heap[Top.node].type = "array" => k = First(Top.todo)
         /\ frames' = <<Frame(heap[Top.node].kids[k])>> \o frames
    /\ UNCHANGED <<heap, owned, ret, iteration, doomed>>

(* Slip: the elements of an array are left to the program.                 *)
DestroyChildOfDict ==
    /\ frames # <<>>
    /\ \E k \in Top.todo :
         frames' = IF heap[Top.node].type = "array"
                   THEN <<[Top EXCEPT !.todo = @ \ {k}]>> \o Tail(frames)
                   ELSE <<Frame(heap[Top.node].kids[k]),
                          [Top EXCEPT !.todo = @ \ {k}]>> \o Tail(frames)
    /\ UNCHANGED <<heap, owned, ret, iteration, doomed>>

(* The call for a child: an array's elements in order, a dictionary's as   *)
(* art_iter finds them.                                                    *)
DestroyChild ==
    /\ frames # <<>>
    /\ \E k \in Top.todo :
         /\ heap[Top.node].type = "array" => k = First(Top.todo)
         /\ frames' = <<Frame(heap[Top.node].kids[k]),
                        [Top EXCEPT !.todo = @ \ {k}]>> \o Tail(frames)
    /\ UNCHANGED <<heap, owned, ret, iteration, doomed>>

(* The container, the string and the node itself.                          *)
DestroyFree ==
    /\ frames # <<>>
    /\ Top.todo = {}
    /\ heap' = Release(heap, Top.node)
    /\ frames' = Tail(frames)
    /\ doomed' = IF frames' = <<>> THEN {} ELSE doomed
    /\ UNCHANGED <<owned, ret, iteration>>

Next ==
    \/ \E type \in NewTypes, val \in Values, fault \in AllocFaults :
         CreateNode(type, val, fault)
    \/ \E name \in Tokens \cup {NULL}, parent, node \in Ids :
         DictInsertNode(name, parent, node)
    \/ \E index \in Positions, parent, node \in Ids, fault \in AllocFaults :
         ArrayInsertNode(index, parent, node, fault)
    \/ \E name \in Tokens \cup {NULL}, type \in NewTypes, parent \in Ids,
          index \in Positions, val \in Values, fault \in AllocFaults :
         CreateInserted(name, type, parent, index, val, fault)
    \/ \E n \in Ids, type \in Containers : StartIteration(n, type)
    \/ VisitElement \/ VisitName \/ StopIteration
    \/ \E n \in Ids : DestroyNode(n)
    \/ DestroyChild \/ DestroyFree

(* A call of sconf_node_destroy runs on; the program may stop at any time. *)
Spec == Init /\ [][Next]_vars /\ WF_vars(DestroyChild \/ DestroyFree)

-----------------------------------------------------------------------------
(* Type invariant.                                                         *)
TypeOK ==
    /\ heap \in Heaps
    /\ owned \subseteq Ids
    /\ ret \in {-1, 0, 1}
    /\ cursor.node \in Ids \cup {NULL}
    /\ cursor.next \in 0 .. ArrayMax
    /\ cursor.todo \subseteq Tokens
    /\ seen \subseteq Keys
    /\ missed \subseteq Indexes
    /\ doomed \subseteq Ids
    /\ \A i \in DOMAIN frames :
          frames[i].node \in Ids /\ frames[i].todo \subseteq Keys

Parents(n) == {p \in Ids \X Keys : heap[p[1]].kids[p[2]] = n}

(* Every node has one owner, also when a name was taken, a slot was full   *)
(* or memory ran out: the program, or the one slot that holds it.  What    *)
(* the program has to destroy is what is not in anything else, and it      *)
(* reaches every node from there.                                          *)
OneOwner ==
    LET live == {n \in Ids : Live(heap, n)} \ doomed
    IN  /\ owned = {n \in live : Parents(n) = {}}
        /\ \A n \in live \ owned : Cardinality(Parents(n)) = 1
        /\ live = UNION {Subtree(heap, r) : r \in owned}

(* The calls of sconf_node_destroy that are open are a branch of the tree: *)
(* none of them is for a node that another one frees or has freed.         *)
FramesAreBranch ==
    \A i \in DOMAIN frames :
        /\ Live(heap, frames[i].node)
        /\ frames[i].node \in doomed
        /\ i > 1 => \E k \in Keys \ frames[i].todo :
                        heap[frames[i].node].kids[k] = frames[i - 1].node
        /\ \A k \in frames[i].todo : Live(heap, heap[frames[i].node].kids[k])

(* No element is visited twice, and an iteration that comes to its end has *)
(* visited all there is but what was put behind its position: also what    *)
(* was put before it, however the array grew or was moved meanwhile.       *)
VisitsExactly ==
    /\ ret' = 1 => /\ \A k \in seen' \ seen : heap[cursor.node].kids[k] \in Ids
                   /\ Cardinality(seen' \ seen) = 1
    /\ cursor.node # NULL /\ cursor'.node = NULL /\ ret' = 0 =>
           /\ seen \cup missed = Filled(heap, cursor.node)
           /\ seen \cap missed = {}

IterationExact == [][VisitsExactly]_vars

(* A call that returns -1 has neither created a node nor moved one, and    *)
(* the program owns what it owned, with one exception: when the name was   *)
(* taken, sconf_node_dict_insert has put the node in.                      *)
Moved(n, k) == heap[n].kids[k] # heap'[n].kids[k] /\ heap'[n].kids[k] \in Ids

RefusesUnmoved ==
    ret' = -1 =>
        /\ \A n \in Ids : heap'[n].type = heap[n].type
        /\ \/ /\ owned' = owned
              /\ \A n \in Ids, k \in Keys : ~Moved(n, k)
           \/ \E n \in Ids, name \in Tokens :
                 /\ \A m \in Ids, k \in Keys : Moved(m, k) <=> <<m, k>> = <<n, name>>
                 /\ owned \ owned' = {heap'[n].kids[name]}
                 /\ owned' \ owned = {heap[n].kids[name]}

RefusalsHarmless == [][RefusesUnmoved]_vars

(* sconf_node_destroy frees the node, all that is below it and nothing     *)
(* else, one at a time and each after what it holds.                       *)
FreesDoomed ==
    LET freed == {n \in Ids : Live(heap, n) /\ ~Live(heap', n)}
    IN  /\ freed \subseteq doomed
        /\ \A n \in freed :
              \A k \in Filled(heap, n) : ~Live(heap, heap[n].kids[k])
        /\ frames # <<>> /\ frames' = <<>> => \A n \in doomed : ~Live(heap', n)

DestroyExact == [][FreesDoomed]_vars

(* sconf_node_destroy returns.                                             *)
DestroyReturns == frames # <<>> ~> frames = <<>>
=============================================================================
