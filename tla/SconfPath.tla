------------------------------ MODULE SconfPath ------------------------------
(***************************************************************************)
(* sconf_set and sconf_get: a configuration tree written and read by path. *)
(*                                                                         *)
(* One call of sconf_set is modelled step by step, one action for each     *)
(* turn of its loop: a container is created for every token but the last,  *)
(* then the value.  Any allocation may fail at any step, and a failed call *)
(* leaves what it has built.  sconf_get changes nothing and is the         *)
(* operator Get.                                                           *)
(***************************************************************************)
EXTENDS SconfNodes, Sequences

CONSTANTS
    Root,        \* the node the caller passes as root
    RootTypes,   \* the types the caller may have created it with
    Paths,       \* the paths of the calls, split at '.'
    SetTypes,    \* the types of the calls
    MaxDepth,    \* SCONF_MAX_DEPTH (scaled down)
    AllocFaults  \* the allocation failures that happen

ASSUME PathAssumption ==
    /\ Root \in Ids
    /\ RootTypes \subseteq Containers
    /\ Paths \subseteq Seq(Tokens)
    /\ SetTypes \subseteq CallTypes
    /\ MaxDepth \in Nat
    /\ MaxDepth >= 2
    /\ AllocFaults \subseteq Faults

VARIABLES
    heap,    \* the nodes
    pc,      \* "idle", "walk" (in the loop), "done" (returned), "fault"
    call,    \* path, type and value of the call
    depth,   \* depth: one more than the turns of the loop made so far
    parent,  \* parent: the node the next token is looked up in
    ret,     \* the return value, while pc = "done"
    level    \* how far below the root each node was attached (not in C)

vars == <<heap, pc, call, depth, parent, ret, level>>

NoCall == [path |-> <<>>, type |-> "none", val |-> NULL]

Calls == [path : Paths, type : SetTypes, val : Values] \cup {NoCall}

-----------------------------------------------------------------------------
(* sconf_get: where the walk stands after the loop has taken i tokens.     *)

GetState(status, p, index) == [status |-> status, parent |-> p, index |-> index]

(* From the node p to its child for the token curr, inside the loop.       *)
GetDescend(h, s, curr) ==
    LET p     == s.parent
        child == IF h[p].type = "dict" THEN DictSearch(h, curr, p)
                                       ELSE ArraySearch(h, s.index, p)
    IN  IF curr \in Brackets /\ h[p].type # "array"
        THEN GetState("missing", NULL, 0)
        ELSE IF h[p].type \notin Containers THEN GetState("error", NULL, 0)
        ELSE IF child = NULL THEN GetState("missing", NULL, 0)
        ELSE GetState("walk", child, s.index)

(* Slip: the index is never read.                                          *)
GetIndexUnread(h, s, next) == s

(* The index is read when the array is the parent of the next token, and   *)
(* keeps its last value otherwise.                                         *)
GetIndex(h, s, next) ==
    IF s.status # "walk" \/ h[s.parent].type # "array" \/ next \notin Brackets
    THEN s
    ELSE IF IndexOf[next] < 0 THEN GetState("error", NULL, 0)
    ELSE GetState("walk", s.parent, IndexOf[next] % UIntMod)

GetWalk(h, path) ==
    LET walk[i \in 0 .. Len(path)] ==
          IF i = 0 THEN GetState("walk", Root, 0)
          ELSE LET s == walk[i - 1]
                   d == IF i = 1 \/ s.status # "walk" THEN s
                        ELSE GetDescend(h, s, path[i - 1])
               IN  GetIndex(h, d, path[i])
    IN  walk[Len(path)]

LastToken(path) == IF path = <<>> THEN NULL ELSE path[Len(path)]

(* [status |-> "found" | "missing" | "error", node |-> ...]                *)
Get(h, path) ==
    LET s    == GetWalk(h, path)
        p    == s.parent
        dict == h[p].type = "dict"
        node == IF dict THEN DictSearch(h, LastToken(path), p)
                        ELSE ArraySearch(h, s.index, p)
        answer(status, n) == [status |-> status, node |-> n]
    IN  IF s.status # "walk" THEN answer(s.status, NULL)
        ELSE IF h[p].type \notin Containers THEN answer("error", NULL)
        ELSE IF dict /\ path = <<>> THEN answer("error", NULL)
        ELSE IF node = NULL THEN answer("missing", NULL)
        ELSE answer("found", node)

-----------------------------------------------------------------------------
(* sconf_set.                                                              *)

Init ==
    /\ \E t \in RootTypes :
         heap = [n \in Ids |-> IF n = Root THEN NewCell(t, NULL) ELSE FreeCell]
    /\ pc = "idle"
    /\ call = NoCall
    /\ depth = 0
    /\ parent = Root
    /\ ret = 0
    /\ level = [n \in Ids |-> 0]

SetCall(path, type, val) ==
    /\ pc = "idle"
    /\ pc' = "walk"
    /\ call' = [path |-> path, type |-> type, val |-> val]
    /\ depth' = 1
    /\ parent' = Root
    /\ UNCHANGED <<heap, ret, level>>

Return(r) ==
    /\ pc' = "done"
    /\ ret' = r
    /\ UNCHANGED <<call, depth, parent>>

(* The heap a call of sconf_node_create_and_insert leaves, and the level   *)
(* of the node it attached, if it attached one.                            *)
Leave(made) ==
    /\ heap' = made.heap
    /\ level' = IF made.status = "ok" /\ heap[made.node].type = "free"
                THEN [level EXCEPT ![made.node] = level[parent] + 1]
                ELSE level

Crash ==
    /\ pc' = "fault"
    /\ UNCHANGED <<heap, call, depth, parent, ret, level>>

(* Slip: one turn more than SCONF_MAX_DEPTH allows.                        *)
NextTurnLate(node) ==
    IF depth > MaxDepth
    THEN Return(-1)
    ELSE /\ depth' = depth + 1
         /\ parent' = node
         /\ UNCHANGED <<pc, call, ret>>

(* The end of one turn of the loop: the depth limit, then the next token.  *)
(* Slip: the next token is looked up in the same parent.                   *)
NextTurnStaying(node) ==
    IF depth >= MaxDepth
    THEN Return(-1)
    ELSE /\ depth' = depth + 1
         /\ UNCHANGED <<parent, pc, call, ret>>

NextTurn(node) ==
    IF depth >= MaxDepth
    THEN Return(-1)
    ELSE /\ depth' = depth + 1
         /\ parent' = node
         /\ UNCHANGED <<pc, call, ret>>

(* The first turn: there is no token before the first one.                 *)
SetFirst ==
    /\ pc = "walk"
    /\ depth = 1
    /\ depth <= Len(call.path)
    /\ NextTurn(parent)
    /\ UNCHANGED <<heap, level>>

(* Slip: the container gets the name of the next token.                    *)
MakeParentOfNext(fault) ==
    CreateAndInsert(heap, call.path[depth],
                    IF call.path[depth] \in Brackets THEN "array" ELSE "dict",
                    parent, 0, NULL, fault)

(* A later turn: the token before the next one becomes a container, an     *)
(* array if the next one is in brackets.                                   *)
MakeParent(fault) ==
    CreateAndInsert(heap, call.path[depth - 1],
                    IF call.path[depth] \in Brackets THEN "array" ELSE "dict",
                    parent, 0, NULL, fault)

SetParent(fault) ==
    /\ pc = "walk"
    /\ depth > 1
    /\ depth <= Len(call.path)
    /\ LET made == MakeParent(fault)
       IN  \/ made.status = "ok"    /\ Leave(made) /\ NextTurn(made.node)
           \/ made.status = "error" /\ Leave(made) /\ Return(-1)
           \/ made.status = "fault" /\ Crash

(* After the loop: the node itself.                                        *)
MakeLeaf(fault) ==
    CreateAndInsert(heap, LastToken(call.path), call.type, parent, 0,
                    call.val, fault)

SetLeaf(fault) ==
    /\ pc = "walk"
    /\ depth = Len(call.path) + 1
    /\ LET made == MakeLeaf(fault)
       IN  \/ made.status = "ok"    /\ Leave(made) /\ Return(0)
           \/ made.status = "error" /\ Leave(made) /\ Return(-1)
           \/ made.status = "fault" /\ Crash

(* The caller has the return value and may call again.                     *)
SetReturned ==
    /\ pc = "done"
    /\ pc' = "idle"
    /\ call' = NoCall
    /\ depth' = 0
    /\ parent' = Root
    /\ ret' = 0
    /\ UNCHANGED <<heap, level>>

Next ==
    \/ \E path \in Paths, type \in SetTypes, val \in Values :
         SetCall(path, type, val)
    \/ SetFirst
    \/ \E fault \in AllocFaults : SetParent(fault) \/ SetLeaf(fault)
    \/ SetReturned

Spec == Init /\ [][Next]_vars

-----------------------------------------------------------------------------
(* Type invariant: every variable has the values its C counterpart can     *)
(* have; depth never passes SCONF_MAX_DEPTH.                               *)
TypeOK ==
    /\ heap \in Heaps
    /\ pc \in {"idle", "walk", "done", "fault"}
    /\ call \in Calls
    /\ depth \in 0 .. MaxDepth
    /\ parent \in Ids
    /\ ret \in {-1, 0}
    /\ level \in [Ids -> 0 .. MaxDepth]

(* The nodes are one tree under the root at every moment, also in the      *)
(* middle of a call and after a failed one: no node is freed while it is   *)
(* linked, has two parents, is lost or is its own ancestor.  It is what    *)
(* lets sconf_node_destroy free each node exactly once.                    *)
Forest == Tree(heap, Root, level)

(* No array slot that a search or an iterator reads was left as realloc    *)
(* returned it, and no node sits where they do not look.                   *)
SlotsSound == Slots(heap)

(* SCONF_MAX_DEPTH bounds the tree and with it the recursion of            *)
(* sconf_node_destroy, however many calls built it.                        *)
DepthBound == \A n \in Ids : Live(heap, n) => level[n] <= MaxDepth - 1

(* Inside the loop, parent is in the tree, as far below the root as the    *)
(* loop has made turns: it is what bounds the depth of the next node.      *)
WalkInTree ==
    pc = "walk" =>
        /\ depth \in 1 .. Len(call.path) + 1
        /\ Live(heap, parent)
        /\ level[parent] = IF depth <= 2 THEN 0 ELSE depth - 2

(* The inductive invariant of the proofs.                                  *)
IInv == TypeOK /\ Forest /\ SlotsSound /\ DepthBound /\ WalkInTree

(* The child a token leads to.  Between the name of a dictionary's child   *)
(* and the bracketed index of an array's there is a third case: sconf_set  *)
(* takes a token without a bracket for element 0 of an array.  An index    *)
(* that strtol refuses leads nowhere.                                      *)
Follow(h, n, token) ==
    IF h[n].type = "dict" /\ token # NULL THEN h[n].kids[token]
    ELSE IF h[n].type = "array" /\ ~ (token \in Brackets /\ IndexOf[token] < 0)
    THEN ArraySearch(h, Element(token, 0), n)
    ELSE NULL

(* The nodes a path leads through, from the root on; NULL where it ends.   *)
Trail(h, path) ==
    LET steps == IF path = <<>> THEN <<NULL>> ELSE path
        at[i \in 0 .. Len(steps)] ==
            IF i = 0 THEN Root
            ELSE LET n == at[i - 1]
                 IN  IF n = NULL THEN NULL ELSE Follow(h, n, steps[i])
    IN  at

Denoted(h, path) == Trail(h, path)[IF path = <<>> THEN 1 ELSE Len(path)]

(* No token without a bracket is looked up in an array.                    *)
ProperlyIndexed(h, path) ==
    \A i \in 1 .. Len(path) :
        LET p == Trail(h, path)[i - 1]
        IN  p # NULL /\ h[p].type = "array" => path[i] \in Brackets

(* In a dictionary at the root, sconf_set takes a first token in brackets  *)
(* as a name; sconf_get does so only when the path has no other token.     *)
BracketUnderDict(path) ==
    heap[Root].type = "dict" /\ Len(path) > 1 /\ path[1] \in Brackets

(* What a successful sconf_set wrote, sconf_get reads at the same path: it *)
(* finds a node of the type and with the value of the call.  Where the two *)
(* read the first token differently, it says so by finding nothing, and    *)
(* never answers with another node.                                        *)
RoundTrip ==
    pc = "done" /\ ret = 0 =>
        LET got == Get(heap, call.path)
        IN  IF BracketUnderDict(call.path) THEN got.status = "missing"
            ELSE /\ got.status = "found"
                 /\ got.node = Denoted(heap, call.path)
                 /\ heap[got.node].type = call.type
                 /\ call.type \in Scalars => heap[got.node].val = call.val

(* Whatever was set before and in which order, sconf_get finds the node a  *)
(* path leads to and no other, for every path that names a dictionary's    *)
(* children and indexes an array's.                                        *)
GetComplete ==
    pc = "idle" =>
        \A path \in Paths :
            ProperlyIndexed(heap, path) /\ ~BracketUnderDict(path) =>
                LET got == Get(heap, path)
                IN  (got.status = "found" \/ Denoted(heap, path) # NULL) =>
                        got.node = Denoted(heap, path)

(* sconf.c:991 "1 on found, 0 on not found": a path that asks an array for *)
(* a name, not for an index, is not found.  The code does not keep it: the *)
(* last index read, or 0, is used again.                                   *)
GetFindsOnlyNamed ==
    pc = "idle" =>
        \A path \in Paths :
            Get(heap, path).status = "found" => ProperlyIndexed(heap, path)

(* The tokens of a path that sconf_set uses as indexes of arrays: all in   *)
(* brackets but the first one under a dictionary.                          *)
IndexTokens(path) ==
    {path[i] : i \in {j \in 1 .. Len(path) :
                         /\ path[j] \in Brackets
                         /\ j > 1 \/ heap[Root].type = "array"}}

(* A successful sconf_set used no index that strtol refuses and none that, *)
(* as an uint32_t, is past SCONF_ARRAY_MAX_SIZE; and the one index on      *)
(* which C promises nothing is the largest uint32_t.                       *)
IndexChecked ==
    /\ pc = "done" /\ ret = 0 =>
        \A b \in IndexTokens(call.path) :
            IndexOf[b] >= 0 /\ IndexOf[b] % UIntMod < ArrayMax
    /\ pc = "fault" =>
        \E b \in IndexTokens(call.path) : IndexOf[b] % UIntMod = UIntMod - 1

(* An array is never larger than its last element requires, so no failed   *)
(* set leaves empty slots for the iterators to visit.                      *)
ArraysTight ==
    \A n \in Ids :
        heap[n].type = "array" /\ heap[n].size > 1 =>
            heap[n].kids[heap[n].size - 1] \in Ids

(* test_sconf_node_array.c:159 sets the element one past the maximum and   *)
(* expects -1: an index that is out of bounds is refused.  The code checks *)
(* the index after it was cut to 32 bits.                                  *)
IndexPastMaxRefused ==
    pc = "done" /\ ret = 0 =>
        \A b \in IndexTokens(call.path) : IndexOf[b] < ArrayMax

-----------------------------------------------------------------------------
(* A pointer sconf_get has given out stays good while the tree is written: *)
(* no set, successful or failed, moves, retypes or frees a node that is in *)
(* the tree.                                                               *)
NodesStay ==
    \A n \in Ids :
        Live(heap, n) =>
            /\ heap'[n].type = heap[n].type
            /\ \A k \in Keys :
                   heap[n].kids[k] \in Ids => heap'[n].kids[k] = heap[n].kids[k]

PointersStable == [][NodesStay]_vars

(* A set changes no value but the one its path denotes; if it fails, at    *)
(* most the string of that node is lost.                                   *)
WritesDenoted ==
    \A n \in Ids :
        Live(heap, n) /\ heap'[n].val # heap[n].val =>
            /\ n = Denoted(heap, call.path)
            /\ heap[n].type = call.type
            /\ ret' = 0  => heap'[n].val = call.val
            /\ ret' = -1 => heap[n].type = "str" /\ heap'[n].val = NULL

OnlyTargetWritten == [][WritesDenoted]_vars

(* A set adds nodes only where its path leads, one a step: also a call     *)
(* that fails later leaves nothing elsewhere in the tree.                  *)
AddsDenoted ==
    \A n \in Ids :
        ~Live(heap, n) /\ Live(heap', n) =>
            LET len == IF depth > Len(call.path) THEN Len(call.path)
                                                 ELSE depth - 1
            IN  /\ n = Denoted(heap', SubSeq(call.path, 1, len))
                /\ \A m \in Ids \ {n} : ~Live(heap, m) => ~Live(heap', m)

GrowsAlongPath == [][AddsDenoted]_vars
=============================================================================
