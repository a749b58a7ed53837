-------------------------- MODULE SconfPath_proofs --------------------------
(***************************************************************************)
(* Proofs about sconf_set: whatever is set, in which order and whichever   *)
(* allocation fails, the nodes stay one tree of bounded depth, and no node *)
(* in it moves.  Then about paths: the node a path leads to, what          *)
(* sconf_set does along it, and what sconf_get finds at its end.  Last     *)
(* about the abstract store, which the step machine of sconf_set           *)
(* implements: the nodes of the tree are a configuration at every moment,  *)
(* each turn of the loop takes one step of the path in it, and the call as *)
(* a whole is one step of the store.                                       *)
(***************************************************************************)
EXTENDS SconfPathStore, SconfNodes_proofs, SconfInduction

(* The root alone is a tree.                                               *)
LEMMA InitInv == Init => IInv
<1> SUFFICES ASSUME Init PROVE IInv
  OBVIOUS
<1>1. PICK t \in RootTypes :
         heap = [n \in Ids |-> IF n = Root THEN NewCell(t, NULL) ELSE FreeCell]
  BY DEF Init
<1>2. Root \in Ids /\ t \in NodeTypes /\ MaxDepth \in Nat /\ MaxDepth >= 2
  BY PathAssumption DEF NodeTypes
<1>3. level[Root] = 0 /\ level \in [Ids -> Nat]
  BY <1>2 DEF Init
<1>4. /\ heap \in Heaps /\ Slots(heap) /\ Tree(heap, Root, level)
      /\ heap[Root].type = t
      /\ \A n \in Ids \ {Root} : ~Live(heap, n)
  BY <1>1, <1>2, <1>3, RootAlone
<1>5. TypeOK
  BY <1>2, <1>4 DEF Init, TypeOK, Calls
<1>6. Forest
  BY <1>4 DEF Forest
<1>7. DepthBound
  BY <1>2 DEF Init, DepthBound
<1>8. SlotsSound /\ WalkInTree
  BY <1>4 DEF SlotsSound, Init, WalkInTree
<1> QED BY <1>5, <1>6, <1>7, <1>8 DEF IInv

(* A turn of the loop and the step after it leave a tree in which no node  *)
(* has moved; the node they return is one level below the parent.          *)
LEMMA LeaveInv ==
    ASSUME IInv, pc = "walk", depth <= MaxDepth,
           NEW name \in Tokens \cup {NULL}, NEW type,
           NEW data \in Values \cup {NULL}, NEW fault,
           depth > 1 \/ call.path = <<>>,
           NEW made,
           made = CreateAndInsert(heap, name, type, parent, 0, data, fault),
           made.status # "fault",
           Leave(made)
    PROVE  /\ heap' \in Heaps
           /\ level' \in [Ids -> 0 .. MaxDepth]
           /\ Forest' /\ SlotsSound' /\ DepthBound' /\ NodesStay
           /\ made.status = "ok" =>
                 /\ made.node \in Ids
                 /\ Live(heap', made.node)
                 /\ level'[made.node] = level[parent] + 1
<1>1. /\ heap \in Heaps /\ Slots(heap) /\ Root \in Ids
      /\ level \in [Ids -> Nat] /\ level \in [Ids -> 0 .. MaxDepth]
      /\ Tree(heap, Root, level)
      /\ parent \in Ids /\ Live(heap, parent)
      /\ 0 \in 0 .. UIntMod - 1
      /\ MaxDepth \in Nat /\ MaxDepth >= 2
  BY PathAssumption, IndexAssumption
     DEF IInv, TypeOK, Forest, SlotsSound, WalkInTree
<1>2. \/ made.status = "error" /\ Kept(heap, made.heap)
      \/ /\ made.status = "ok" /\ Kept(heap, made.heap)
         /\ made.node \in Ids /\ Live(heap, made.node)
         /\ level[made.node] = level[parent] + 1
      \/ /\ made.status = "ok" /\ Slots(made.heap)
         /\ made.node \in Ids /\ ~Live(heap, made.node)
         /\ \E k \in Keys : Linked(heap, made.heap, parent, k, made.node)
  <2>1. Outcome(heap, level, name, type, parent, 0, data, made)
    BY <1>1, CreateAndInsertOutcomes
  <2> QED BY <2>1 DEF Outcome, CallOutcome, Refusal, Overwrite, Addition, Linked
<1>3. heap' = made.heap
  BY DEF Leave
<1>4. level[parent] + 1 \in 1 .. MaxDepth - 1
  BY <1>1 DEF IInv, WalkInTree, TypeOK
<1>5. CASE Kept(heap, made.heap) /\ (made.status = "ok" => Live(heap, made.node))
  <2>1. level' = level
    BY <1>2, <1>5 DEF Leave, Live
  <2>2. heap' \in Heaps /\ Slots(heap')
    BY <1>3, <1>5 DEF Kept
  <2>3. Tree(heap', Root, level)
    BY <1>1, <1>3, <1>5, <2>2, KeptTree
  <2>4. \A n \in Ids : Live(heap', n) <=> Live(heap, n)
    BY <1>3, <1>5 DEF Kept, Live
  <2>5. DepthBound'
    BY <2>1, <2>4 DEF IInv, DepthBound
  <2>6. NodesStay
    BY <1>3, <1>5 DEF Kept, NodesStay
  <2>7. made.status = "ok" =>
            /\ made.node \in Ids /\ Live(heap', made.node)
            /\ level'[made.node] = level[parent] + 1
    BY <1>2, <1>5, <2>1, <2>4
  <2> QED BY <1>1, <2>1, <2>2, <2>3, <2>5, <2>6, <2>7 DEF Forest, SlotsSound
<1>6. CASE /\ made.status = "ok" /\ Slots(made.heap)
           /\ made.node \in Ids /\ ~Live(heap, made.node)
           /\ \E k \in Keys : Linked(heap, made.heap, parent, k, made.node)
  <2> DEFINE n  == made.node
             lv == [level EXCEPT ![n] = level[parent] + 1]
  <2>1. level' = lv
    BY <1>6 DEF Leave, Live
  <2>2. PICK k \in Keys : Linked(heap, heap', parent, k, n)
    BY <1>3, <1>6
  <2>3. heap' \in Heaps /\ Live(heap', n)
    BY <2>2 DEF Linked
  <2>4. Tree(heap', Root, lv)
    BY <1>1, <2>2, <2>3, LinkedTree
  <2>5. lv \in [Ids -> 0 .. MaxDepth] /\ lv[n] = level[parent] + 1
    BY <1>1, <1>4, <1>6
  <2>6. \A m \in Ids \ {n} : lv[m] = level[m] /\ (Live(heap', m) <=> Live(heap, m))
    BY <1>1, <2>2 DEF Linked, Live
  <2> HIDE DEF lv
  <2>7. DepthBound'
    <3>1. \A m \in Ids : Live(heap', m) => lv[m] <= MaxDepth - 1
      BY <1>1, <1>4, <2>5, <2>6 DEF IInv, DepthBound
    <3> QED BY <2>1, <3>1 DEF DepthBound
  <2>8. NodesStay
    <3>1. /\ k \in Keys /\ ~Live(heap, n) /\ heap[parent].kids[k] \notin Ids
          /\ heap'[parent].type = heap[parent].type
          /\ \A m \in Ids \ {parent, n} : heap'[m] = heap[m]
          /\ \A j \in Keys \ {k} :
                heap[parent].kids[j] \in Ids =>
                    heap'[parent].kids[j] = heap[parent].kids[j]
      BY <2>2 DEF Linked
    <3> HIDE DEF n
    <3> QED BY <3>1 DEF NodesStay
  <2> QED BY <1>3, <1>6, <2>1, <2>3, <2>4, <2>5, <2>7, <2>8 DEF Forest, SlotsSound
<1> QED BY <1>2, <1>5, <1>6

(* The path of a call is a sequence of tokens, and empty between calls.    *)
LEMMA CallPath == TypeOK => call.path \in Seq(Tokens)
<1>1. ASSUME call \in [path : Paths, type : SetTypes, val : Values]
      PROVE  call.path \in Seq(Tokens)
  BY <1>1, PathAssumption
<1>2. ASSUME call = NoCall
      PROVE  call.path \in Seq(Tokens)
  BY <1>2 DEF NoCall
<1> QED BY <1>1, <1>2 DEF TypeOK, Calls

(* The walk goes on from the node a turn of the loop has made.             *)
LEMMA TurnInv ==
    ASSUME IInv, pc = "walk", depth <= Len(call.path), NEW node \in Ids,
           NextTurn(node),
           heap' \in Heaps, level' \in [Ids -> 0 .. MaxDepth],
           Forest', SlotsSound', DepthBound',
           Live(heap', node),
           level'[node] = IF depth = 1 THEN 0 ELSE depth - 1
    PROVE  IInv'
<1>1. /\ depth \in 1 .. MaxDepth /\ MaxDepth \in Nat /\ call \in Calls
      /\ Len(call.path) \in Nat /\ parent \in Ids /\ ret \in {-1, 0}
  <2>1. call.path \in Seq(Tokens)
    BY CallPath DEF IInv
  <2> QED BY <2>1, PathAssumption DEF IInv, TypeOK, WalkInTree
<1>2. CASE depth >= MaxDepth
  BY <1>1, <1>2 DEF NextTurn, Return, IInv, TypeOK, WalkInTree
<1>3. CASE ~(depth >= MaxDepth)
  <2>1. depth' = depth + 1 /\ parent' = node /\ pc' = pc /\ call' = call /\ ret' = ret
    BY <1>3 DEF NextTurn
  <2>2. TypeOK'
    BY <1>1, <1>3, <2>1 DEF IInv, TypeOK
  <2>3. WalkInTree'
    BY <1>1, <2>1 DEF WalkInTree
  <2> QED BY <2>2, <2>3 DEF IInv
<1> QED BY <1>2, <1>3

(* Returning needs nothing but the tree.                                   *)
LEMMA ReturnInv ==
    ASSUME IInv, NEW r \in {-1, 0}, Return(r),
           heap' \in Heaps, level' \in [Ids -> 0 .. MaxDepth],
           Forest', SlotsSound', DepthBound'
    PROVE  IInv'
  BY DEF Return, IInv, TypeOK, WalkInTree

(* Every step keeps the invariant and moves no node.                       *)
LEMMA StepInv == IInv /\ [Next]_vars => IInv' /\ NodesStay
<1> SUFFICES ASSUME IInv, [Next]_vars PROVE IInv' /\ NodesStay
  OBVIOUS
<1>0. /\ depth \in 0 .. MaxDepth /\ MaxDepth \in Nat /\ Root \in Ids
      /\ call.path \in Seq(Tokens) /\ call.val \in Values \cup {NULL}
      /\ heap \in Heaps /\ level \in [Ids -> 0 .. MaxDepth]
      /\ Forest /\ SlotsSound /\ DepthBound /\ Live(heap, Root)
      /\ level[Root] = 0
  <2>1. call.path \in Seq(Tokens)
    BY CallPath DEF IInv
  <2>3. call.val \in Values \cup {NULL}
    BY DEF IInv, TypeOK, Calls, NoCall
  <2>2. Live(heap, Root) /\ level[Root] = 0
    BY DEF IInv, Forest, Tree
  <2> QED BY <2>1, <2>2, <2>3, PathAssumption DEF IInv, TypeOK
<1>1. ASSUME heap' = heap, level' = level
      PROVE  /\ heap' \in Heaps /\ level' \in [Ids -> 0 .. MaxDepth]
             /\ Forest' /\ SlotsSound' /\ DepthBound' /\ NodesStay
  BY <1>0, <1>1 DEF Forest, SlotsSound, DepthBound, NodesStay
<1>2. ASSUME NEW path \in Paths, NEW type \in SetTypes, NEW val \in Values,
             SetCall(path, type, val)
      PROVE  IInv' /\ NodesStay
  <2>1. heap' = heap /\ level' = level /\ ret' = ret
    BY <1>2 DEF SetCall
  <2>2. call' \in Calls /\ Len(call'.path) \in Nat
    BY <1>2, PathAssumption DEF SetCall, Calls
  <2>3. TypeOK'
    BY <1>0, <1>1, <1>2, <2>1, <2>2, PathAssumption DEF SetCall, IInv, TypeOK
  <2>4. WalkInTree'
    BY <1>0, <1>2, <2>1, <2>2 DEF SetCall, WalkInTree
  <2> QED BY <1>1, <2>1, <2>3, <2>4 DEF IInv
<1>3. CASE SetFirst
  <2>1. heap' = heap /\ level' = level
    BY <1>3 DEF SetFirst
  <2>2. /\ pc = "walk" /\ depth = 1 /\ depth <= Len(call.path)
        /\ NextTurn(parent)
    BY <1>3 DEF SetFirst
  <2>3. parent \in Ids /\ Live(heap', parent) /\ level'[parent] = 0
    BY <2>1, <2>2 DEF IInv, TypeOK, WalkInTree
  <2>4. IInv'
    BY <1>1, <2>1, <2>2, <2>3, TurnInv
  <2> QED BY <1>1, <2>1, <2>4
<1>4. ASSUME NEW fault \in AllocFaults, SetParent(fault)
      PROVE  IInv' /\ NodesStay
  <2> DEFINE made == MakeParent(fault)
             type == IF call.path[depth] \in Brackets THEN "array" ELSE "dict"
             name == call.path[depth - 1]
  <2>1. /\ pc = "walk" /\ depth > 1 /\ depth <= Len(call.path)
        /\ \/ made.status = "ok"    /\ Leave(made) /\ NextTurn(made.node)
           \/ made.status = "error" /\ Leave(made) /\ Return(-1)
           \/ made.status = "fault" /\ Crash
    BY <1>4 DEF SetParent
  <2>2. made = CreateAndInsert(heap, name, type, parent, 0, NULL, fault)
    BY DEF MakeParent
  <2>3. name \in Tokens
    BY <1>0, <2>1
  <2> HIDE DEF made, type, name
  <2>4. ASSUME Leave(made), made.status # "fault"
        PROVE  /\ heap' \in Heaps
               /\ level' \in [Ids -> 0 .. MaxDepth]
               /\ Forest' /\ SlotsSound' /\ DepthBound' /\ NodesStay
               /\ made.status = "ok" =>
                     /\ made.node \in Ids
                     /\ Live(heap', made.node)
                     /\ level'[made.node] = level[parent] + 1
    BY <1>0, <2>1, <2>2, <2>3, <2>4, LeaveInv
  <2>5. CASE made.status = "ok" /\ Leave(made) /\ NextTurn(made.node)
    <3>1. level[parent] + 1 = depth - 1
      BY <1>0, <2>1 DEF IInv, WalkInTree
    <3>2. level'[made.node] = IF depth = 1 THEN 0 ELSE depth - 1
      BY <1>0, <2>1, <2>4, <2>5, <3>1
    <3> QED BY <2>1, <2>4, <2>5, <3>2, TurnInv
  <2>6. CASE made.status = "error" /\ Leave(made) /\ Return(-1)
    BY <2>4, <2>6, ReturnInv
  <2>7. CASE Crash
    BY <1>0, <1>1, <2>7 DEF Crash, IInv, TypeOK, WalkInTree
  <2> QED BY <2>1, <2>5, <2>6, <2>7
<1>5. ASSUME NEW fault \in AllocFaults, SetLeaf(fault)
      PROVE  IInv' /\ NodesStay
  <2> DEFINE made == MakeLeaf(fault)
             name == LastToken(call.path)
  <2>1. /\ pc = "walk" /\ depth = Len(call.path) + 1
        /\ \/ made.status = "ok"    /\ Leave(made) /\ Return(0)
           \/ made.status = "error" /\ Leave(made) /\ Return(-1)
           \/ made.status = "fault" /\ Crash
    BY <1>5 DEF SetLeaf
  <2>2. made = CreateAndInsert(heap, name, call.type, parent, 0, call.val, fault)
    BY DEF MakeLeaf
  <2>3. name \in Tokens \cup {NULL} /\ (depth > 1 \/ call.path = <<>>)
    BY <1>0, <2>1 DEF LastToken
  <2> HIDE DEF made, name
  <2>4. ASSUME Leave(made), made.status # "fault"
        PROVE  /\ heap' \in Heaps
               /\ level' \in [Ids -> 0 .. MaxDepth]
               /\ Forest' /\ SlotsSound' /\ DepthBound' /\ NodesStay
    BY <1>0, <2>1, <2>2, <2>3, <2>4, LeaveInv
  <2>5. CASE made.status \in {"ok", "error"} /\ Leave(made) /\ \E r \in {-1, 0} : Return(r)
    BY <2>4, <2>5, ReturnInv
  <2>6. CASE Crash
    BY <1>0, <1>1, <2>6 DEF Crash, IInv, TypeOK, WalkInTree
  <2> QED BY <2>1, <2>5, <2>6
<1>6. CASE SetReturned
  <2>1. heap' = heap /\ level' = level
    BY <1>6 DEF SetReturned
  <2>2. TypeOK'
    BY <1>0, <1>1, <1>6, <2>1 DEF SetReturned, TypeOK, Calls
  <2>3. WalkInTree'
    BY <1>6 DEF SetReturned, WalkInTree
  <2> QED BY <1>1, <2>1, <2>2, <2>3 DEF IInv
<1>7. CASE UNCHANGED vars
  BY <1>7 DEF vars, IInv, TypeOK, Forest, SlotsSound, DepthBound, WalkInTree,
              NodesStay
<1> QED BY <1>2, <1>3, <1>4, <1>5, <1>6, <1>7 DEF Next

(* Everything below follows from the inductive invariant.                  *)
THEOREM Invariance == Spec => []IInv
  BY InitInv, StepInv, PTL DEF Spec

(* sconf_set keeps its variables, and the loop below SCONF_MAX_DEPTH.      *)
THEOREM TypeCorrect == Spec => []TypeOK
  BY Invariance, PTL DEF IInv

(* Whatever is set in whatever order, and whichever allocation fails, the  *)
(* nodes are one tree: sconf_node_destroy frees each of them once.         *)
THEOREM AlwaysForest == Spec => []Forest
  BY Invariance, PTL DEF IInv

(* No search and no iterator reads a slot realloc left uninitialised.      *)
THEOREM AlwaysSlotsSound == Spec => []SlotsSound
  BY Invariance, PTL DEF IInv

(* No node is deeper than SCONF_MAX_DEPTH - 1.                             *)
THEOREM AlwaysDepthBound == Spec => []DepthBound
  BY Invariance, PTL DEF IInv

(* A node a caller holds is not moved, retyped or freed by any later set.  *)
THEOREM AlwaysPointersStable == Spec => PointersStable
  BY Invariance, StepInv, PTL DEF Spec, PointersStable

-----------------------------------------------------------------------------
(* One token.                                                              *)

(* A token leads to what a search for it finds, where it may be used.      *)
LEMMA FollowIsLookup ==
    ASSUME NEW h \in Heaps, NEW n \in Ids, NEW token \in Tokens \cup {NULL}
    PROVE  Follow(h, n, token) =
               IF Usable(h, token, n) THEN Lookup(h, token, n, 0) ELSE NULL
  BY DEF Follow, Usable, Lookup, DictSearch, Containers

(* It leads to a child, or nowhere.                                        *)
LEMMA FollowFinds ==
    ASSUME NEW h \in Heaps, Slots(h), NEW n \in Ids,
           NEW token \in Tokens \cup {NULL}, Follow(h, n, token) # NULL
    PROVE  /\ Usable(h, token, n)
           /\ Slot(h, token, n, 0) \in Keys
           /\ h[n].kids[Slot(h, token, n, 0)] = Follow(h, n, token)
           /\ Follow(h, n, token) \in Ids
<1>1. Usable(h, token, n) /\ Follow(h, n, token) = Lookup(h, token, n, 0)
  BY FollowIsLookup
<1>2. 0 \in 0 .. UIntMod - 1
  BY IndexAssumption
<1> QED BY <1>1, <1>2, LookupFinds DEF Usable

(* What hangs under the key of a token is what it leads to.                *)
LEMMA FollowReaches ==
    ASSUME NEW h \in Heaps, Slots(h), NEW n \in Ids,
           NEW token \in Tokens \cup {NULL},
           Usable(h, token, n), Slot(h, token, n, 0) \in Keys,
           h[n].kids[Slot(h, token, n, 0)] \in Ids
    PROVE  Follow(h, n, token) = h[n].kids[Slot(h, token, n, 0)]
<1>1. CASE h[n].type = "dict"
  BY <1>1 DEF Usable, Slot, Follow
<1>2. CASE h[n].type = "array"
  <2> DEFINE i == Element(token, 0)
  <2>0. 0 \in 0 .. UIntMod - 1
    BY IndexAssumption
  <2>1. i \in 0 .. UIntMod - 1
    BY <2>0, ElementType
  <2>2. i \in Indexes
    BY <1>2, <2>1, TokensAssumption DEF Slot, Keys
  <2>3. h[n].size \in 0 .. ArrayMax
    BY DEF Heaps, Cell
  <2>4. i < h[n].size
    BY <1>2, <2>2, <2>3, IndexAssumption DEF Slot, Slots, CellSlots, Indexes
  <2> QED BY <1>2, <2>4 DEF Usable, Slot, Follow, ArraySearch
<1> QED BY <1>1, <1>2 DEF Usable, Containers

(* Stays(h, h2): NodesStay, for any two heaps.                             *)
Stays(h, h2) ==
    \A n \in Ids :
        Live(h, n) =>
            /\ h2[n].type = h[n].type
            /\ \A k \in Keys :
                   h[n].kids[k] \in Ids => h2[n].kids[k] = h[n].kids[k]

(* A child that stays is found again by its token.                         *)
LEMMA FollowStays ==
    ASSUME NEW h \in Heaps, Slots(h), NEW h2 \in Heaps, Slots(h2),
           NoDangling(h, Root), Stays(h, h2),
           NEW n \in Ids, NEW token \in Tokens \cup {NULL},
           Follow(h, n, token) # NULL
    PROVE  Follow(h2, n, token) = Follow(h, n, token)
<1> DEFINE k == Slot(h, token, n, 0)
<1>1. /\ Usable(h, token, n) /\ k \in Keys
      /\ h[n].kids[k] = Follow(h, n, token) /\ h[n].kids[k] \in Ids
  BY FollowFinds
<1> HIDE DEF k
<1>2. Live(h, n)
  BY <1>1 DEF NoDangling
<1>3. h2[n].type = h[n].type /\ h2[n].kids[k] = h[n].kids[k]
  BY <1>1, <1>2 DEF Stays
<1>4. Usable(h2, token, n) /\ Slot(h2, token, n, 0) = k
  BY <1>1, <1>3 DEF Usable, Slot, k
<1> QED BY <1>1, <1>3, <1>4, FollowReaches

-----------------------------------------------------------------------------
(* A path.  The empty path makes one step, with the token NULL.            *)

Steps(path) == IF path = <<>> THEN <<NULL>> ELSE path

(* The steps are the tokens of the path, one at least.                     *)
LEMMA StepsType ==
    ASSUME NEW path \in Seq(Tokens)
    PROVE  /\ Len(path) \in Nat /\ Len(Steps(path)) \in Nat \ {0}
           /\ Len(Steps(path)) = IF path = <<>> THEN 1 ELSE Len(path)
           /\ path = <<>> <=> Len(path) = 0
           /\ \A i \in 1 .. Len(Steps(path)) : Steps(path)[i] \in Tokens \cup {NULL}
           /\ \A i \in 1 .. Len(path) : Steps(path)[i] = path[i] /\ path[i] \in Tokens
           /\ Steps(path)[Len(Steps(path))] = LastToken(path)
           /\ LastToken(path) \in Tokens \cup {NULL}
<1>1. CASE path = <<>>
  BY <1>1 DEF Steps, LastToken
<1>2. CASE path # <<>>
  BY <1>2 DEF Steps, LastToken
<1> QED BY <1>1, <1>2

(* Trail is the walk its definition says it is.                            *)
LEMMA TrailDef ==
    ASSUME NEW h \in Heaps, Slots(h), NEW path \in Seq(Tokens)
    PROVE  LET t == Trail(h, path)
               N == Len(Steps(path))
           IN  /\ t \in [0 .. N -> Ids \cup {NULL}]
               /\ t[0] = Root
               /\ \A i \in 1 .. N :
                     t[i] = IF t[i - 1] = NULL THEN NULL
                            ELSE Follow(h, t[i - 1], Steps(path)[i])
<1> DEFINE N == Len(Steps(path))
           S == Ids \cup {NULL}
           step == [x \in (1 .. N) \X S |->
                       IF x[2] = NULL THEN NULL
                       ELSE Follow(h, x[2], Steps(path)[x[1]])]
<1>0. N \in Nat \ {0} /\ Root \in S /\ NULL \notin Ids
  BY StepsType, PathAssumption, IdsAssumption
<1>1. Stepping(step, N, S)
  BY <1>0, FollowFinds, StepsType DEF Stepping
<1>2. \A i \in 1 .. N, n \in S :
          step[<<i, n>>] = IF n = NULL THEN NULL ELSE Follow(h, n, Steps(path)[i])
  OBVIOUS
<1> HIDE DEF step
<1>3. PICK g : Walking(g, N, S, Root, step)
  <2> HIDE DEF N, S
  <2>1. N \in Nat
    BY <1>0
  <2> QED BY <1>0, <1>1, <2>1, WalkExists
<1>4. g = [i \in 0 .. N |->
              IF i = 0 THEN Root
              ELSE LET n == g[i - 1]
                   IN  IF n = NULL THEN NULL ELSE Follow(h, n, Steps(path)[i])]
  <2>1. \A i \in 0 .. N : i # 0 => i \in 1 .. N /\ g[i - 1] \in S
    BY <1>0, <1>3 DEF Walking
  <2>2. \A i \in 0 .. N :
            i # 0 => g[i] = IF g[i - 1] = NULL THEN NULL
                            ELSE Follow(h, g[i - 1], Steps(path)[i])
    BY <1>2, <1>3, <2>1 DEF Walking
  <2> HIDE DEF N, S
  <2> QED BY <1>3, <2>2 DEF Walking
<1> DEFINE at[i \in 0 .. N] ==
             IF i = 0 THEN Root
             ELSE LET n == at[i - 1]
                  IN  IF n = NULL THEN NULL ELSE Follow(h, n, Steps(path)[i])
<1>5. at = [i \in 0 .. N |->
              IF i = 0 THEN Root
              ELSE LET n == at[i - 1]
                   IN  IF n = NULL THEN NULL ELSE Follow(h, n, Steps(path)[i])]
  BY <1>4
<1>6. Trail(h, path) = at
  BY DEF Trail, Steps
<1> HIDE DEF at
<1>7. at \in [0 .. N -> S]
  <2> DEFINE T == {i \in 0 .. N : at[i] \in S}
  <2>1. 0 \in T
    BY <1>0, <1>5
  <2>2. ASSUME NEW i \in 0 .. N - 1, i \in T PROVE i + 1 \in T
    <3>1. i + 1 \in 1 .. N /\ (i + 1) - 1 = i /\ at[i] \in S
      BY <1>0, <2>2
    <3>2. at[i + 1] = IF at[i] = NULL THEN NULL
                      ELSE Follow(h, at[i], Steps(path)[i + 1])
      BY <1>5, <3>1
    <3>3. at[i] # NULL => Follow(h, at[i], Steps(path)[i + 1]) \in S
      BY <3>1, FollowFinds, StepsType
    <3> QED BY <3>1, <3>2, <3>3
  <2> HIDE DEF T
  <2>3. \A i \in 0 .. N : i \in T
    BY <1>0, <2>1, <2>2, UpTo
  <2> QED BY <1>5, <2>3 DEF T
<1>8. \A i \in 1 .. N : at[i] = IF at[i - 1] = NULL THEN NULL
                                ELSE Follow(h, at[i - 1], Steps(path)[i])
  BY <1>0, <1>5
<1>9. at[0] = Root
  BY <1>0, <1>5
<1> HIDE DEF N, S
<1> QED BY <1>6, <1>7, <1>8, <1>9 DEF N, S
(* Where a path has led it leads on, while no node moves.                  *)
LEMMA TrailStays ==
    ASSUME NEW h \in Heaps, Slots(h), NEW h2 \in Heaps, Slots(h2),
           NoDangling(h, Root), Stays(h, h2),
           NEW path \in Seq(Tokens)
    PROVE  \A i \in 0 .. Len(Steps(path)) :
               Trail(h, path)[i] # NULL => Trail(h2, path)[i] = Trail(h, path)[i]
<1> DEFINE t  == Trail(h, path)
           t2 == Trail(h2, path)
           N  == Len(Steps(path))
           T  == {i \in 0 .. N : t[i] # NULL => t2[i] = t[i]}
<1>1. /\ t \in [0 .. N -> Ids \cup {NULL}] /\ t[0] = Root /\ t2[0] = Root
      /\ \A i \in 1 .. N : t[i]  = IF t[i - 1] = NULL THEN NULL
                                   ELSE Follow(h, t[i - 1], Steps(path)[i])
      /\ \A i \in 1 .. N : t2[i] = IF t2[i - 1] = NULL THEN NULL
                                   ELSE Follow(h2, t2[i - 1], Steps(path)[i])
      /\ N \in Nat
      /\ \A i \in 1 .. N : Steps(path)[i] \in Tokens \cup {NULL}
  BY TrailDef, StepsType
<1> HIDE DEF t, t2, N
<1>2. 0 \in T
  BY <1>1
<1>3. ASSUME NEW i \in 0 .. N - 1, i \in T PROVE i + 1 \in T
  <2>1. i + 1 \in 1 .. N /\ (i + 1) - 1 = i /\ t[i] \in Ids \cup {NULL}
    BY <1>1, <1>3
  <2>2. SUFFICES ASSUME t[i + 1] # NULL PROVE t2[i + 1] = t[i + 1]
    BY <2>1
  <2>3. t[i] \in Ids /\ t[i + 1] = Follow(h, t[i], Steps(path)[i + 1])
    BY <1>1, <2>1, <2>2
  <2>4. t2[i] = t[i] /\ t2[i] # NULL
    BY <1>3, <2>3, IdsAssumption
  <2>5. t2[i + 1] = Follow(h2, t[i], Steps(path)[i + 1])
    BY <1>1, <2>1, <2>4
  <2>6. Follow(h2, t[i], Steps(path)[i + 1]) = Follow(h, t[i], Steps(path)[i + 1])
    BY <1>1, <2>1, <2>2, <2>3, FollowStays
  <2> QED BY <2>3, <2>5, <2>6
<1> HIDE DEF T
<1>4. \A i \in 0 .. N : i \in T
  BY <1>1, <1>2, <1>3, UpTo
<1> QED BY <1>4 DEF T, t, t2, N

(* The first tokens of a path lead where they lead as a path of their own. *)
LEMMA TrailPrefix ==
    ASSUME NEW h \in Heaps, Slots(h), NEW path \in Seq(Tokens),
           NEW n \in 1 .. Len(path)
    PROVE  Denoted(h, SubSeq(path, 1, n)) = Trail(h, path)[n]
<1> DEFINE p  == SubSeq(path, 1, n)
           t  == Trail(h, path)
           t2 == Trail(h, p)
           T  == {i \in 0 .. n : t2[i] = t[i]}
<1>1. /\ p \in Seq(Tokens) /\ Len(p) = n /\ p # <<>> /\ path # <<>>
      /\ n \in Nat /\ Len(path) \in Nat
      /\ \A i \in 1 .. n : p[i] = path[i]
  OBVIOUS
<1>2. Steps(p) = p /\ Steps(path) = path
  BY <1>1 DEF Steps
<1> HIDE DEF p
<1>3. /\ t[0] = Root /\ t2[0] = Root
      /\ \A i \in 1 .. n : t[i]  = IF t[i - 1] = NULL THEN NULL
                                   ELSE Follow(h, t[i - 1], path[i])
      /\ \A i \in 1 .. n : t2[i] = IF t2[i - 1] = NULL THEN NULL
                                   ELSE Follow(h, t2[i - 1], p[i])
  <2>1. \A i \in 1 .. n : i \in 1 .. Len(path)
    BY <1>1
  <2>2. /\ t[0] = Root
        /\ \A i \in 1 .. Len(path) : t[i] = IF t[i - 1] = NULL THEN NULL
                                            ELSE Follow(h, t[i - 1], path[i])
    BY <1>2, TrailDef
  <2>3. /\ t2[0] = Root
        /\ \A i \in 1 .. n : t2[i] = IF t2[i - 1] = NULL THEN NULL
                                     ELSE Follow(h, t2[i - 1], p[i])
    BY <1>1, <1>2, TrailDef
  <2> HIDE DEF t, t2
  <2>4. \A i \in 1 .. n : t[i] = IF t[i - 1] = NULL THEN NULL
                                 ELSE Follow(h, t[i - 1], path[i])
    BY <2>1, <2>2, Zenon
  <2> QED BY <2>2, <2>3, <2>4, Zenon
<1> HIDE DEF t, t2
<1>4. 0 \in T
  BY <1>1, <1>3
<1>5. ASSUME NEW i \in 0 .. n - 1, i \in T PROVE i + 1 \in T
  <2>1. i + 1 \in 1 .. n /\ (i + 1) - 1 = i /\ t2[i] = t[i]
    BY <1>1, <1>5
  <2> QED BY <1>1, <1>3, <2>1
<1> HIDE DEF T
<1>6. \A i \in 0 .. n : i \in T
  BY <1>1, <1>4, <1>5, UpTo
<1> QED BY <1>1, <1>6 DEF T, t, t2, p, Denoted

-----------------------------------------------------------------------------
(* sconf_get.                                                              *)

(* The states of its loop: in the loop there is a parent.                  *)
GetStates ==
    {s \in [status : {"walk", "missing", "error"},
            parent : Ids \cup {NULL}, index : 0 .. UIntMod - 1] :
        s.status = "walk" => s.parent \in Ids}

(* One turn of its loop.                                                   *)
GetTurn(h, path, i, s) ==
    GetIndex(h, IF i = 1 \/ s.status # "walk" THEN s
                ELSE GetDescend(h, s, path[i - 1]), path[i])

(* sconf_get steps from a node to a node, or gives up.                     *)
LEMMA GetDescendType ==
    ASSUME NEW h \in Heaps, Slots(h), NEW s \in GetStates, s.status = "walk",
           NEW curr \in Tokens
    PROVE  GetDescend(h, s, curr) \in GetStates
<1> DEFINE p     == s.parent
           child == IF h[p].type = "dict" THEN DictSearch(h, curr, p)
                                          ELSE ArraySearch(h, s.index, p)
<1>0. 0 \in 0 .. UIntMod - 1
  BY IndexAssumption
<1>1. /\ p \in Ids /\ s.index \in 0 .. UIntMod - 1 /\ h[p] \in Cell
  BY DEF GetStates, Heaps
<1>2. child \in Ids \cup {NULL}
  <2>1. CASE h[p].type = "dict"
    BY <1>1, <2>1 DEF DictSearch, Slots, CellSlots, Cell, Keys
  <2>2. CASE h[p].type # "dict" /\ s.index < h[p].size
    <3>1. s.index \in Indexes
      BY <1>1, <2>2, IndexAssumption DEF Cell, Indexes
    <3> QED BY <1>1, <2>2, <3>1 DEF ArraySearch, Slots, CellSlots, Cell, Keys
  <2>3. CASE h[p].type # "dict" /\ ~(s.index < h[p].size)
    BY <2>3 DEF ArraySearch
  <2> QED BY <2>1, <2>2, <2>3
<1>3. GetDescend(h, s, curr) =
          IF curr \in Brackets /\ h[p].type # "array"
          THEN GetState("missing", NULL, 0)
          ELSE IF h[p].type \notin Containers THEN GetState("error", NULL, 0)
          ELSE IF child = NULL THEN GetState("missing", NULL, 0)
          ELSE GetState("walk", child, s.index)
  BY DEF GetDescend
<1> HIDE DEF child, p
<1> QED BY <1>0, <1>1, <1>2, <1>3 DEF GetState, GetStates

(* So does a turn of its loop, with an index of 32 bits.                   *)
LEMMA GetTurnType ==
    ASSUME NEW h \in Heaps, Slots(h), NEW path \in Seq(Tokens),
           NEW i \in 1 .. Len(path), NEW s \in GetStates
    PROVE  GetTurn(h, path, i, s) \in GetStates
<1>1. ASSUME NEW d \in GetStates PROVE GetIndex(h, d, path[i]) \in GetStates
  <2>1. \A b \in Brackets : IndexOf[b] % UIntMod \in 0 .. UIntMod - 1
    BY IndexAssumption
  <2>2. 0 \in 0 .. UIntMod - 1
    BY IndexAssumption
  <2> QED BY <2>1, <2>2 DEF GetIndex, GetState, GetStates
<1>2. ASSUME s.status = "walk", i # 1
      PROVE  GetDescend(h, s, path[i - 1]) \in GetStates
  <2>1. path[i - 1] \in Tokens
    BY <1>2
  <2> QED BY <1>2, <2>1, GetDescendType
<1> QED BY <1>1, <1>2 DEF GetTurn

(* GetWalk is the walk its definition says it is.                          *)
LEMMA GetWalkDef ==
    ASSUME NEW h \in Heaps, Slots(h), NEW path \in Seq(Tokens)
    PROVE  \E w \in [0 .. Len(path) -> GetStates] :
              /\ w[0] = GetState("walk", Root, 0)
              /\ \A i \in 1 .. Len(path) : w[i] = GetTurn(h, path, i, w[i - 1])
              /\ GetWalk(h, path) = w[Len(path)]
<1> DEFINE N  == Len(path)
           s0 == GetState("walk", Root, 0)
           step == [x \in (1 .. N) \X GetStates |-> GetTurn(h, path, x[1], x[2])]
<1>0. N \in Nat /\ s0 \in GetStates
  BY PathAssumption, IndexAssumption DEF GetState, GetStates
<1>1. Stepping(step, N, GetStates)
  BY GetTurnType DEF Stepping
<1>2. \A i \in 1 .. N, s \in GetStates : step[<<i, s>>] = GetTurn(h, path, i, s)
  OBVIOUS
<1> HIDE DEF step, s0
<1>3. PICK g : Walking(g, N, GetStates, s0, step)
  BY <1>0, <1>1, WalkExists
<1>4. /\ g \in [0 .. N -> GetStates] /\ g[0] = s0
      /\ \A i \in 1 .. N : g[i] = GetTurn(h, path, i, g[i - 1])
  <2>1. \A i \in 1 .. N : i - 1 \in 0 .. N
    BY <1>0
  <2> QED BY <1>2, <1>3, <2>1 DEF Walking
<1> DEFINE walk[i \in 0 .. N] ==
             IF i = 0 THEN GetState("walk", Root, 0)
             ELSE LET s == walk[i - 1]
                      d == IF i = 1 \/ s.status # "walk" THEN s
                           ELSE GetDescend(h, s, path[i - 1])
                  IN  GetIndex(h, d, path[i])
<1>5. g = [i \in 0 .. N |->
             IF i = 0 THEN GetState("walk", Root, 0)
             ELSE LET s == g[i - 1]
                      d == IF i = 1 \/ s.status # "walk" THEN s
                           ELSE GetDescend(h, s, path[i - 1])
                  IN  GetIndex(h, d, path[i])]
  <2>1. \A i \in 0 .. N : i # 0 => i \in 1 .. N
    BY <1>0
  <2> QED BY <1>4, <2>1 DEF GetTurn, s0
<1>6. walk = [i \in 0 .. N |->
             IF i = 0 THEN GetState("walk", Root, 0)
             ELSE LET s == walk[i - 1]
                      d == IF i = 1 \/ s.status # "walk" THEN s
                           ELSE GetDescend(h, s, path[i - 1])
                  IN  GetIndex(h, d, path[i])]
  BY <1>5
<1>7. GetWalk(h, path) = walk[N]
  BY DEF GetWalk
<1> HIDE DEF walk
<1>8. /\ walk[0] = s0
      /\ \A i \in 1 .. N : walk[i] = GetTurn(h, path, i, walk[i - 1])
  <2>1. walk[0] = s0
    BY <1>0, <1>6 DEF s0
  <2>2. ASSUME NEW i \in 1 .. N
        PROVE  walk[i] = GetTurn(h, path, i, walk[i - 1])
    <3>1. i # 0 /\ i \in 0 .. N
      BY <1>0
    <3>2. walk[i] = LET s == walk[i - 1]
                        d == IF i = 1 \/ s.status # "walk" THEN s
                             ELSE GetDescend(h, s, path[i - 1])
                    IN  GetIndex(h, d, path[i])
      BY <1>6, <3>1, Zenon
    <3> QED BY <3>2, Zenon DEF GetTurn
  <2> QED BY <2>1, <2>2
<1>9. walk \in [0 .. N -> GetStates]
  <2> DEFINE T == {i \in 0 .. N : walk[i] \in GetStates}
  <2>1. 0 \in T
    BY <1>0, <1>8
  <2>2. ASSUME NEW i \in 0 .. N - 1, i \in T PROVE i + 1 \in T
    <3>1. i + 1 \in 1 .. N /\ (i + 1) - 1 = i /\ walk[i] \in GetStates
      BY <1>0, <2>2
    <3> QED BY <1>8, <3>1, GetTurnType
  <2> HIDE DEF T
  <2>3. \A i \in 0 .. N : i \in T
    BY <1>0, <2>1, <2>2, UpTo
  <2> QED BY <1>6, <2>3 DEF T
<1> QED BY <1>7, <1>8, <1>9 DEF s0

(* Only the root has children under bracketed names: sconf_set makes an    *)
(* array of every node a bracketed token follows.                          *)
NamesOnly(h) ==
    \A n \in Ids \ {Root}, b \in Brackets : h[n].kids[b] \notin Ids

(* Where a token is an index, it is in brackets; the first one may be      *)
(* missing, which leaves the index at 0.                                   *)
Indexed(h, path) ==
    \A i \in 2 .. Len(path) :
        Trail(h, path)[i - 1] # NULL /\ h[Trail(h, path)[i - 1]].type = "array"
            => path[i] \in Brackets

(* The first token of a longer path is no bracketed name.                  *)
Named(h, path) ==
    ~ (h[Root].type = "dict" /\ Len(path) > 1 /\ path[1] \in Brackets)

(* sconf_get after i tokens: it stands where the tokens before the i-th    *)
(* lead, with the i-th as index, or the path has ended.                    *)
Tracks(h, t, token, i, s) ==
    /\ s.status = "walk" =>
          /\ s.parent = t[i - 1]
          /\ h[s.parent].type = "array" =>
                /\ s.index = Element(token, 0)
                /\ ~ (token \in Brackets /\ IndexOf[token] < 0)
    /\ s.status # "walk" => t[i] = NULL

(* Reading the index of the next token keeps sconf_get on the path.        *)
LEMMA GetIndexTracks ==
    ASSUME NEW h \in Heaps, NEW t, NEW i \in Nat \ {0}, NEW next \in Tokens,
           NEW d \in GetStates,
           d.status = "walk" =>
               /\ d.parent = t[i - 1]
               /\ t[i] = Follow(h, t[i - 1], next)
               /\ h[d.parent].type = "array" /\ next \notin Brackets => d.index = 0,
           d.status # "walk" => t[i] = NULL
    PROVE  Tracks(h, t, next, i, GetIndex(h, d, next))
<1>1. CASE d.status # "walk"
  BY <1>1 DEF GetIndex, Tracks
<1>2. CASE d.status = "walk" /\ h[d.parent].type = "array" /\ next \in Brackets
  <2>1. CASE IndexOf[next] < 0
    BY <1>2, <2>1 DEF GetIndex, GetState, Tracks, Follow
  <2>2. CASE ~(IndexOf[next] < 0)
    BY <1>2, <2>2 DEF GetIndex, GetState, Tracks, Element
  <2> QED BY <2>1, <2>2
<1>3. CASE d.status = "walk" /\ ~(h[d.parent].type = "array" /\ next \in Brackets)
  BY <1>3 DEF GetIndex, Tracks, Element
<1> QED BY <1>1, <1>2, <1>3

(* Going down to the child of a token keeps it on the path.                *)
LEMMA GetDescendTracks ==
    ASSUME NEW h \in Heaps, Slots(h), NEW t, NEW i \in Nat \ {0},
           NEW curr \in Tokens, NEW s \in GetStates, s.status = "walk",
           Tracks(h, t, curr, i, s),
           t[i] = Follow(h, t[i - 1], curr),
           curr \in Brackets /\ h[s.parent].type = "dict" =>
               h[s.parent].kids[curr] \notin Ids
    PROVE  LET d == GetDescend(h, s, curr)
           IN  /\ d.status = "walk" => d.parent = t[i]
               /\ d.status # "walk" => t[i] = NULL
<1> DEFINE p     == s.parent
           child == IF h[p].type = "dict" THEN DictSearch(h, curr, p)
                                          ELSE ArraySearch(h, s.index, p)
<1>1. p \in Ids /\ p = t[i - 1] /\ h[p] \in Cell
  BY DEF GetStates, Tracks, Heaps
<1>2. GetDescend(h, s, curr) =
          IF curr \in Brackets /\ h[p].type # "array"
          THEN GetState("missing", NULL, 0)
          ELSE IF h[p].type \notin Containers THEN GetState("error", NULL, 0)
          ELSE IF child = NULL THEN GetState("missing", NULL, 0)
          ELSE GetState("walk", child, s.index)
  BY DEF GetDescend
<1>3. h[p].type \notin Containers => t[i] = NULL
  BY <1>1 DEF Follow, Containers
<1>4. h[p].type \in Containers => t[i] = child
  <2>0. curr # NULL
    BY TokensAssumption
  <2>1. CASE h[p].type = "dict"
    BY <1>1, <2>0, <2>1 DEF Follow, DictSearch
  <2>2. CASE h[p].type = "array"
    BY <1>1, <2>2 DEF Follow, Tracks
  <2> QED BY <2>1, <2>2 DEF Containers
<1>5. curr \in Brackets /\ h[p].type = "dict" => child = NULL
  BY <1>1 DEF DictSearch, Slots, CellSlots, Cell, Keys
<1> HIDE DEF p, child
<1>6. CASE curr \in Brackets /\ h[p].type # "array"
  BY <1>2, <1>3, <1>4, <1>5, <1>6 DEF GetState, Containers
<1>7. CASE ~(curr \in Brackets /\ h[p].type # "array")
  BY <1>2, <1>3, <1>4, <1>7 DEF GetState
<1> QED BY <1>6, <1>7

(* In a well built tree sconf_get finds what the path leads to.            *)
LEMMA GetFollows ==
    ASSUME NEW h \in Heaps, Slots(h), NoDangling(h, Root), NamesOnly(h),
           NEW path \in Seq(Tokens), Indexed(h, path), Named(h, path)
    PROVE  /\ Get(h, path).node = Denoted(h, path)
           /\ Get(h, path).status = "found" <=> Denoted(h, path) # NULL
<1> DEFINE N == Len(path)
           t == Trail(h, path)
<1>0. N \in Nat /\ \A i \in 1 .. N : path[i] \in Tokens
  OBVIOUS
<1>1. PICK w \in [0 .. N -> GetStates] :
          /\ w[0] = GetState("walk", Root, 0)
          /\ \A i \in 1 .. N : w[i] = GetTurn(h, path, i, w[i - 1])
          /\ GetWalk(h, path) = w[N]
  BY GetWalkDef
<1>2. CASE path = <<>>
  <2>1. N = 0 /\ GetWalk(h, path) = GetState("walk", Root, 0)
    BY <1>1, <1>2
  <2>2. Denoted(h, path) = Follow(h, Root, NULL)
    <3>1. Steps(path) = <<NULL>> /\ Len(Steps(path)) = 1 /\ Steps(path)[1] = NULL
      BY <1>2 DEF Steps
    <3>2. 1 \in 1 .. 1 /\ 1 - 1 = 0 /\ Root # NULL
      BY PathAssumption, IdsAssumption
    <3>3. t[1] = Follow(h, Root, NULL)
      BY <3>1, <3>2, TrailDef, SMTT(30)
    <3> QED BY <1>2, <3>3 DEF Denoted
  <2>3. NULL \notin Brackets
    BY TokensAssumption DEF Tokens
  <2>4. Root \in Ids /\ h[Root] \in Cell
    BY PathAssumption DEF Heaps
  <2> QED BY <1>2, <2>1, <2>2, <2>3, <2>4
          DEF Get, GetState, Follow, LastToken, Element, Containers
<1>3. CASE path # <<>>
  <2>0. N \in Nat \ {0} /\ Steps(path) = path
    BY <1>3 DEF Steps
  <2>1. /\ t \in [0 .. N -> Ids \cup {NULL}] /\ t[0] = Root
        /\ \A i \in 1 .. N : t[i] = IF t[i - 1] = NULL THEN NULL
                                    ELSE Follow(h, t[i - 1], path[i])
    BY <2>0, TrailDef
  <2>2. Denoted(h, path) = t[N] /\ LastToken(path) = path[N]
    BY <1>3 DEF Denoted, LastToken
  <2>3. /\ \A i \in 2 .. N : t[i - 1] # NULL /\ h[t[i - 1]].type = "array"
                                 => path[i] \in Brackets
        /\ ~ (h[Root].type = "dict" /\ N > 1 /\ path[1] \in Brackets)
    BY DEF Indexed, Named
  <2> HIDE DEF t, N
  <2> DEFINE T == {i \in 0 .. N : i # 0 => Tracks(h, t, path[i], i, w[i])}
  <2>4. 0 \in T
    BY <1>0
  <2>5. ASSUME NEW i \in 0 .. N - 1, i \in T PROVE i + 1 \in T
    <3> DEFINE s == w[i]
               d == IF i + 1 = 1 \/ s.status # "walk" THEN s
                    ELSE GetDescend(h, s, path[i])
    <3>1. /\ i + 1 \in 1 .. N /\ (i + 1) - 1 = i /\ i \in 0 .. N
          /\ s \in GetStates /\ path[i + 1] \in Tokens
      BY <1>0, <1>1, <2>5
    <3>2. w[i + 1] = GetIndex(h, d, path[i + 1])
      BY <1>1, <3>1 DEF GetTurn
    <3>3. /\ d \in GetStates
          /\ d.status = "walk" =>
                d.parent = t[i] /\ (i + 1 = 1 => d.index = 0)
          /\ d.status # "walk" => t[i] = NULL
      <4>1. CASE i = 0
        BY <1>1, <2>1, <3>1, <4>1 DEF GetState
      <4>2. CASE i # 0 /\ s.status # "walk"
        BY <2>5, <3>1, <4>2 DEF Tracks
      <4>3. CASE i # 0 /\ s.status = "walk"
        <5>1. /\ i \in 1 .. N /\ i \in Nat \ {0} /\ path[i] \in Tokens
              /\ Tracks(h, t, path[i], i, s) /\ i + 1 # 1
          BY <1>0, <2>5, <3>1, <4>3
        <5>2. s.parent = t[i - 1] /\ t[i - 1] \in Ids
          BY <4>3, <5>1 DEF Tracks, GetStates
        <5>3. t[i] = Follow(h, t[i - 1], path[i])
          BY <2>1, <5>1, <5>2, IdsAssumption
        <5>4. ASSUME path[i] \in Brackets, h[s.parent].type = "dict"
              PROVE  h[s.parent].kids[path[i]] \notin Ids
          <6>1. CASE i = 1
            <7>1. N > 1 /\ t[i - 1] = Root
              BY <1>0, <2>1, <3>1, <5>1, <6>1
            <7> QED BY <2>3, <5>2, <5>4, <6>1, <7>1
          <6>2. CASE i # 1
            <7>1. /\ i - 1 \in 1 .. N /\ t[(i - 1) - 1] \in Ids \cup {NULL}
                  /\ path[i - 1] \in Tokens
              BY <1>0, <2>1, <5>1, <6>2
            <7>2. /\ t[(i - 1) - 1] \in Ids
                  /\ t[i - 1] = Follow(h, t[(i - 1) - 1], path[i - 1])
              BY <2>1, <5>2, <7>1, IdsAssumption
            <7>3. t[i - 1] # Root
              BY <5>2, <7>1, <7>2, FollowFinds, IdsAssumption DEF NoDangling
            <7> QED BY <5>2, <5>4, <7>3 DEF NamesOnly
          <6> QED BY <6>1, <6>2
        <5>5. LET e == GetDescend(h, s, path[i])
              IN  /\ e.status = "walk" => e.parent = t[i]
                  /\ e.status # "walk" => t[i] = NULL
          BY <3>1, <4>3, <5>1, <5>3, <5>4, GetDescendTracks
        <5>6. d = GetDescend(h, s, path[i])
          BY <4>3, <5>1
        <5>7. d \in GetStates
          BY <3>1, <4>3, <5>1, <5>6, GetDescendType
        <5> HIDE DEF d
        <5> QED BY <5>1, <5>5, <5>6, <5>7
      <4> QED BY <4>1, <4>2, <4>3
    <3> HIDE DEF d, s
    <3>4. d.status = "walk" =>
              /\ t[i + 1] = Follow(h, t[i], path[i + 1])
              /\ h[d.parent].type = "array" /\ path[i + 1] \notin Brackets => d.index = 0
      <4> SUFFICES ASSUME d.status = "walk"
                   PROVE  /\ t[i + 1] = Follow(h, t[i], path[i + 1])
                          /\ h[d.parent].type = "array" /\ path[i + 1] \notin Brackets
                                => d.index = 0
        OBVIOUS
      <4>1. d.parent = t[i] /\ t[i] \in Ids /\ t[i] # NULL
        BY <3>3, IdsAssumption DEF GetStates
      <4>2. CASE i = 0
        BY <2>1, <3>1, <3>3, <4>1, <4>2
      <4>3. CASE i # 0
        <5>1. i + 1 \in 2 .. N
          BY <3>1, <4>3
        <5> QED BY <2>1, <2>3, <3>1, <4>1, <5>1
      <4> QED BY <4>2, <4>3
    <3>5. d.status # "walk" => t[i + 1] = NULL
      BY <2>1, <3>1, <3>3
    <3>6. Tracks(h, t, path[i + 1], i + 1, GetIndex(h, d, path[i + 1]))
      <4>1. i + 1 \in Nat \ {0}
        BY <3>1
      <4> QED BY <3>1, <3>3, <3>4, <3>5, <4>1, GetIndexTracks
    <3> QED BY <3>1, <3>2, <3>6
  <2> HIDE DEF T
  <2>6. \A i \in 0 .. N : i \in T
    BY <2>0, <2>4, <2>5, UpTo
  <2>7. Tracks(h, t, path[N], N, w[N]) /\ w[N] \in GetStates
    BY <1>1, <2>0, <2>6 DEF T
  <2> DEFINE s == w[N]
  <2>8. CASE s.status # "walk"
    <3>1. t[N] = NULL /\ GetWalk(h, path) = s
      BY <1>1, <2>7, <2>8 DEF Tracks
    <3>2. s.status # "found"
      BY <2>7 DEF GetStates
    <3> HIDE DEF s
    <3> QED BY <2>2, <2>8, <3>1, <3>2 DEF Get
  <2>9. CASE s.status = "walk"
    <3>1. /\ GetWalk(h, path) = s /\ s.parent = t[N - 1] /\ s.parent \in Ids
          /\ path[N] \in Tokens /\ path[N] # NULL /\ N \in 1 .. N
      BY <1>0, <1>1, <2>0, <2>7, <2>9, TokensAssumption DEF Tracks, GetStates
    <3>2. t[N] = Follow(h, s.parent, path[N])
      BY <2>1, <3>1, IdsAssumption
    <3>3. h[s.parent].type = "array" =>
              /\ s.index = Element(path[N], 0)
              /\ ~ (path[N] \in Brackets /\ IndexOf[path[N]] < 0)
      BY <2>7, <2>9 DEF Tracks
    <3> HIDE DEF s
    <3> QED BY <1>3, <2>2, <2>9, <3>1, <3>2, <3>3
            DEF Get, Follow, DictSearch, Containers
  <2> QED BY <2>8, <2>9
<1> QED BY <1>2, <1>3

(* Where sconf_set reads a bracketed name under a dictionary at the root,  *)
(* sconf_get finds nothing.                                                *)
LEMMA GetMissesBracket ==
    ASSUME NEW h \in Heaps, Slots(h), NEW path \in Seq(Tokens), ~ Named(h, path)
    PROVE  Get(h, path).status = "missing"
<1> DEFINE N == Len(path)
<1>0. /\ N \in Nat /\ N > 1 /\ path[1] \in Brackets /\ h[Root].type = "dict"
      /\ \A i \in 1 .. N : path[i] \in Tokens
  BY DEF Named
<1>1. PICK w \in [0 .. N -> GetStates] :
          /\ w[0] = GetState("walk", Root, 0)
          /\ \A i \in 1 .. N : w[i] = GetTurn(h, path, i, w[i - 1])
          /\ GetWalk(h, path) = w[N]
  BY GetWalkDef
<1>2. w[1] = GetState("walk", Root, 0)
  <2>1. w[1] = GetTurn(h, path, 1, w[0])
    <3>1. 1 \in 1 .. N /\ 1 - 1 = 0
      BY <1>0
    <3> QED BY <1>1, <3>1
  <2>2. GetTurn(h, path, 1, w[0]) = GetIndex(h, w[0], path[1])
    BY DEF GetTurn
  <2> QED BY <1>0, <1>1, <2>1, <2>2 DEF GetIndex, GetState
<1>3. w[2].status = "missing"
  <2>1. w[2] = GetTurn(h, path, 2, w[1])
    <3>1. 2 \in 1 .. N /\ 2 - 1 = 1
      BY <1>0
    <3> QED BY <1>1, <3>1
  <2>2. GetDescend(h, w[1], path[1]) = GetState("missing", NULL, 0)
    BY <1>0, <1>2 DEF GetDescend, GetState
  <2> QED BY <1>2, <2>1, <2>2 DEF GetTurn, GetIndex, GetState
<1> DEFINE T == {i \in 0 .. N : i >= 2 => w[i].status = "missing"}
<1>4. 0 \in T
  BY <1>0
<1>5. ASSUME NEW i \in 0 .. N - 1, i \in T PROVE i + 1 \in T
  <2>1. i + 1 \in 1 .. N /\ i + 1 \in 0 .. N /\ (i + 1) - 1 = i
    BY <1>0
  <2>2. CASE i + 1 > 2
    <3>1. w[i + 1] = GetTurn(h, path, i + 1, w[i]) /\ w[i].status = "missing"
      BY <1>1, <1>5, <2>1, <2>2
    <3> QED BY <2>1, <2>2, <3>1 DEF GetTurn, GetIndex
  <2>3. CASE ~(i + 1 > 2)
    BY <1>3, <2>1, <2>3
  <2> QED BY <2>2, <2>3
<1> HIDE DEF T
<1>6. \A i \in 0 .. N : i \in T
  BY <1>0, <1>4, <1>5, UpTo
<1>7. w[N].status = "missing"
  BY <1>0, <1>6 DEF T
<1> QED BY <1>1, <1>7 DEF Get

-----------------------------------------------------------------------------
(* The invariant of sconf_set that these lemmas are about.                 *)

TypeFor(token) == IF token \in Brackets THEN "array" ELSE "dict"

(* The first k steps of a path lead to nodes, all but the last of them to  *)
(* the kind of container the next token needs.                             *)
Built(h, path, k) ==
    \A i \in 1 .. k :
        /\ Trail(h, path)[i] # NULL
        /\ i < Len(path) => h[Trail(h, path)[i]].type = TypeFor(path[i + 1])

(* The loop has built the path up to its parent.                           *)
WalkAlong ==
    pc = "walk" =>
        /\ Built(heap, call.path, depth - 2)
        /\ parent = Trail(heap, call.path)[IF depth <= 2 THEN 0 ELSE depth - 2]

(* A call that succeeded has built its whole path and set its value.       *)
SetDone ==
    pc = "done" /\ ret = 0 =>
        LET n == Denoted(heap, call.path)
        IN  /\ Built(heap, call.path, Len(Steps(call.path)))
            /\ heap[n].type = call.type
            /\ call.type \in Scalars => heap[n].val = call.val

(* Only the largest uint32_t gets past every check.                        *)
OnlyLargestFaults ==
    pc = "fault" =>
        \E b \in IndexTokens(call.path) : IndexOf[b] % UIntMod = UIntMod - 1

NamesBelow == NamesOnly(heap)

WInv ==
    WalkAlong /\ SetDone /\ NamesBelow /\ OnlyLargestFaults /\ ArraysTight

-----------------------------------------------------------------------------
(* What one call of sconf_node_create_and_insert means for the paths.      *)

(* A child that is returned is where its token leads.                      *)
LEMMA MadeFollows ==
    ASSUME NEW h \in Heaps, Slots(h), NEW lv, NEW name \in Tokens \cup {NULL},
           NEW type, NEW parentId \in Ids, Live(h, parentId), NEW data, NEW res,
           Outcome(h, lv, name, type, parentId, 0, data, res),
           res.status = "ok"
    PROVE  /\ res.heap \in Heaps /\ Slots(res.heap) /\ res.node \in Ids
           /\ Follow(res.heap, parentId, name) = res.node
           /\ res.heap[res.node].type = type
           /\ type \in Scalars => res.heap[res.node].val = data
<1> DEFINE slot == Slot(h, name, parentId, 0)
           node == Lookup(h, name, parentId, 0)
<1>1. CASE /\ Usable(h, name, parentId) /\ res.node = node
           /\ slot \in Keys /\ h[parentId].kids[slot] = node
           /\ Overwrite(h, res.heap, node, type, data)
  <2> HIDE DEF slot, node
  <2>1. /\ res.heap \in Heaps /\ Slots(res.heap)
        /\ res.heap[parentId].type = h[parentId].type
        /\ res.heap[parentId].kids[slot] = node /\ node \in Ids
        /\ res.heap[node].type = type
        /\ type \in Scalars => res.heap[node].val = data
    BY <1>1 DEF Overwrite, Kept
  <2>2. Usable(res.heap, name, parentId) /\ Slot(res.heap, name, parentId, 0) = slot
    BY <1>1, <2>1 DEF Usable, Slot, slot
  <2> QED BY <1>1, <2>1, <2>2, FollowReaches
<1>2. CASE /\ Usable(h, name, parentId)
           /\ Addition(h, res.heap, parentId, slot, res.node, type, data)
  <2> HIDE DEF slot, node
  <2>1. /\ res.heap \in Heaps /\ Slots(res.heap)
        /\ res.heap[parentId].type = h[parentId].type
        /\ slot \in Keys
        /\ res.heap[parentId].kids[slot] = res.node /\ res.node \in Ids
        /\ res.heap[res.node].type = type
        /\ type \in Scalars => res.heap[res.node].val = data
    BY <1>2 DEF Addition, Linked
  <2>2. Usable(res.heap, name, parentId) /\ Slot(res.heap, name, parentId, 0) = slot
    BY <1>2, <2>1 DEF Usable, Slot, slot
  <2> QED BY <2>1, <2>2, FollowReaches
<1> QED BY <1>1, <1>2 DEF Outcome, CallOutcome

(* Values: only the node that was found is written, and only as the call   *)
(* says; a failed call loses at most its string.                           *)
LEMMA MadeWrites ==
    ASSUME NEW h \in Heaps, NEW lv, NEW name \in Tokens \cup {NULL},
           NEW type, NEW parentId \in Ids, NEW data, NEW res,
           Outcome(h, lv, name, type, parentId, 0, data, res),
           res.status # "fault",
           NEW n \in Ids, Live(h, n), res.heap[n].val # h[n].val
    PROVE  /\ n = Follow(h, parentId, name)
           /\ h[n].type = type
           /\ res.status = "ok" => type \in Scalars /\ res.heap[n].val = data
           /\ res.status # "ok" => type = "str" /\ res.heap[n].val = NULL
<1> DEFINE slot == Slot(h, name, parentId, 0)
           node == Lookup(h, name, parentId, 0)
<1>1. Usable(h, name, parentId) => Follow(h, parentId, name) = node
  BY FollowIsLookup
<1> HIDE DEF slot, node
<1>2. CASE /\ res.status = "error" /\ Refusal(h, res.heap, node, type)
           /\ Usable(h, name, parentId) \/ res.heap = h
  BY <1>1, <1>2 DEF Refusal
<1>3. CASE /\ res.status = "ok" /\ Usable(h, name, parentId)
           /\ Overwrite(h, res.heap, node, type, data)
  BY <1>1, <1>3 DEF Overwrite
<1>4. CASE /\ res.status = "ok"
           /\ Addition(h, res.heap, parentId, slot, res.node, type, data)
  BY <1>4 DEF Addition, Linked
<1> QED BY <1>2, <1>3, <1>4 DEF Outcome, CallOutcome, node, slot

(* Nodes: at most one is new, and then it is returned.                     *)
LEMMA MadeAdds ==
    ASSUME NEW h \in Heaps, NEW lv, NEW name, NEW type, NEW parentId \in Ids,
           NEW data, NEW res,
           Outcome(h, lv, name, type, parentId, 0, data, res),
           res.status # "fault",
           NEW n \in Ids, ~ Live(h, n), Live(res.heap, n)
    PROVE  res.status = "ok" /\ n = res.node
<1>1. ~ Kept(h, res.heap)
  BY DEF Kept, Live
<1> QED BY <1>1 DEF Outcome, CallOutcome, Refusal, Overwrite, Addition, Linked, Live

(* Bracketed names: one is added under the root or under no dictionary.    *)
LEMMA MadeNames ==
    ASSUME NEW h \in Heaps, NamesOnly(h), NEW lv,
           NEW name \in Tokens \cup {NULL}, NEW type,
           NEW parentId \in Ids, NEW data, NEW res,
           Outcome(h, lv, name, type, parentId, 0, data, res),
           res.status # "fault",
           parentId # Root /\ h[parentId].type = "dict" => name \notin Brackets
    PROVE  NamesOnly(res.heap)
<1> DEFINE slot == Slot(h, name, parentId, 0)
<1>0. Brackets \subseteq Keys
  BY DEF Keys, Tokens
<1>1. CASE Kept(h, res.heap)
  BY <1>0, <1>1 DEF Kept, NamesOnly
<1>2. CASE Addition(h, res.heap, parentId, slot, res.node, type, data)
           /\ Usable(h, name, parentId)
  <2>1. parentId # Root => slot \notin Brackets
    <3>1. CASE h[parentId].type = "dict"
      BY <3>1 DEF Slot
    <3>2. CASE h[parentId].type = "array"
      <4>1. 0 \in 0 .. UIntMod - 1
        BY IndexAssumption
      <4>2. Element(name, 0) \in 0 .. UIntMod - 1
        BY <4>1, ElementType
      <4> QED BY <3>2, <4>2, TokensAssumption DEF Slot, Tokens
    <3> QED BY <1>2, <3>1, <3>2 DEF Usable, Containers
  <2> HIDE DEF slot
  <2> QED BY <1>0, <1>2, <2>1 DEF Addition, Linked, NamesOnly
<1> QED BY <1>1, <1>2 DEF Outcome, CallOutcome, Refusal, Overwrite

Tight(h) ==
    \A n \in Ids :
        h[n].type = "array" /\ h[n].size > 1 => h[n].kids[h[n].size - 1] \in Ids

(* Arrays: one that grows ends with the new node.                          *)
LEMMA MadeTight ==
    ASSUME NEW h \in Heaps, Tight(h), NEW lv, NEW name, NEW type,
           NEW parentId \in Ids, NEW data, NEW res,
           Outcome(h, lv, name, type, parentId, 0, data, res),
           res.status # "fault"
    PROVE  Tight(res.heap)
<1> DEFINE slot == Slot(h, name, parentId, 0)
<1> SUFFICES ASSUME NEW m \in Ids, res.heap[m].type = "array", res.heap[m].size > 1
             PROVE  res.heap[m].kids[res.heap[m].size - 1] \in Ids
  BY DEF Tight
<1> DEFINE last == h[m].size - 1
<1>3. h[m].type = "array" /\ h[m].size > 1 => last \in Keys /\ h[m].kids[last] \in Ids
  <2>1. h[m].size \in 0 .. ArrayMax
    BY DEF Heaps, Cell
  <2>2. h[m].size > 1 => last \in Indexes
    BY <2>1, IndexAssumption DEF Indexes
  <2> QED BY <2>2 DEF Tight, Keys
<1>1. CASE Kept(h, res.heap)
  <2>1. h[m].type = "array" /\ h[m].size = res.heap[m].size /\ h[m].size > 1
    BY <1>1 DEF Kept
  <2>2. last \in Keys /\ h[m].kids[last] \in Ids
    BY <1>3, <2>1
  <2>3. res.heap[m].size - 1 = last
    BY <2>1
  <2> HIDE DEF last
  <2> QED BY <1>1, <2>2, <2>3 DEF Kept
<1>2. CASE Addition(h, res.heap, parentId, slot, res.node, type, data)
  <2> HIDE DEF slot
  <2>1. CASE m = res.node
    BY <1>2, <2>1 DEF Addition, Linked
  <2>2. CASE m = parentId /\ res.heap[m].size = h[m].size
    <3>1. h[m].type = "array" /\ h[m].size > 1 /\ res.heap[m].size - 1 = last
      BY <1>2, <2>2 DEF Addition, Linked
    <3>2. last \in Keys /\ h[m].kids[last] \in Ids
      BY <1>3, <3>1
    <3> HIDE DEF last
    <3> QED BY <1>2, <2>2, <3>1, <3>2 DEF Addition, Linked
  <2>3. CASE m = parentId /\ slot \in Indexes /\ res.heap[m].size = slot + 1
    <3>1. res.heap[m].size - 1 = slot
      BY <2>3, IndexAssumption DEF Indexes
    <3> QED BY <1>2, <2>3, <3>1 DEF Addition, Linked
  <2>4. CASE m \notin {parentId, res.node}
    BY <1>2, <1>3, <2>4 DEF Addition, Linked
  <2> QED BY <1>2, <2>1, <2>2, <2>3, <2>4 DEF Addition, Linked
<1> QED BY <1>1, <1>2 DEF Outcome, CallOutcome, Refusal, Overwrite

(* A path that is built stays built.                                       *)
LEMMA BuiltStays ==
    ASSUME NEW h \in Heaps, Slots(h), NEW h2 \in Heaps, Slots(h2),
           NoDangling(h, Root), Stays(h, h2),
           NEW path \in Seq(Tokens), NEW k \in Int, k <= Len(Steps(path)),
           Built(h, path, k)
    PROVE  Built(h2, path, k)
<1> SUFFICES ASSUME NEW i \in 1 .. k
             PROVE  /\ Trail(h2, path)[i] # NULL
                    /\ i < Len(path) =>
                          h2[Trail(h2, path)[i]].type = TypeFor(path[i + 1])
  BY DEF Built
<1> DEFINE t == Trail(h, path)
<1>1. /\ i \in 1 .. Len(Steps(path)) /\ i \in 0 .. Len(Steps(path))
      /\ i - 1 \in 0 .. Len(Steps(path))
      /\ Steps(path)[i] \in Tokens \cup {NULL}
  BY StepsType
<1>2. t[i] # NULL /\ Trail(h2, path)[i] = t[i]
  BY <1>1, TrailStays DEF Built
<1>3. Live(h, t[i]) /\ t[i] \in Ids
  <2>1. /\ t[i - 1] \in Ids \cup {NULL} /\ t[i - 1] # NULL
        /\ t[i] = Follow(h, t[i - 1], Steps(path)[i])
    BY <1>1, <1>2, TrailDef
  <2> HIDE DEF t
  <2> QED BY <1>1, <1>2, <2>1, FollowFinds DEF NoDangling
<1>4. h2[t[i]].type = h[t[i]].type
  BY <1>3 DEF Stays
<1> QED BY <1>2, <1>4 DEF Built

(* One more token builds one more step.                                    *)
LEMMA BuiltExtends ==
    ASSUME NEW h \in Heaps, Slots(h), NEW h2 \in Heaps, Slots(h2),
           NoDangling(h, Root), Stays(h, h2),
           NEW path \in Seq(Tokens), NEW k \in 1 .. Len(Steps(path)),
           Built(h, path, k - 1), Trail(h, path)[k - 1] # NULL,
           Follow(h2, Trail(h, path)[k - 1], Steps(path)[k]) # NULL
    PROVE  LET node == Follow(h2, Trail(h, path)[k - 1], Steps(path)[k])
           IN  /\ Trail(h2, path)[k] = node
               /\ (k < Len(path) => h2[node].type = TypeFor(path[k + 1]))
                      => Built(h2, path, k)
<1>1. /\ Len(Steps(path)) \in Nat /\ k \in Int /\ k - 1 \in Int
      /\ k - 1 <= Len(Steps(path)) /\ k - 1 \in 0 .. Len(Steps(path))
  BY StepsType
<1>2. Trail(h2, path)[k - 1] = Trail(h, path)[k - 1]
  BY <1>1, TrailStays
<1>3. Trail(h2, path)[k] = Follow(h2, Trail(h, path)[k - 1], Steps(path)[k])
  BY <1>1, <1>2, TrailDef
<1>4. Built(h2, path, k - 1)
  BY <1>1, BuiltStays
<1>5. \A i \in 1 .. k : i = k \/ i \in 1 .. k - 1
  BY <1>1
<1> QED BY <1>3, <1>4, <1>5 DEF Built

-----------------------------------------------------------------------------
(* sconf_set keeps WInv.                                                   *)

(* What the steps below take from the invariants.                          *)
LEMMA WalkFacts ==
    ASSUME IInv, WInv
    PROVE  /\ heap \in Heaps /\ Slots(heap) /\ NoDangling(heap, Root)
           /\ Root \in Ids /\ Live(heap, Root) /\ parent \in Ids
           /\ call.path \in Seq(Tokens) /\ call.val \in Values \cup {NULL}
           /\ depth \in Nat /\ Trail(heap, call.path)[0] = Root
           /\ pc = "walk" => depth \in 1 .. Len(call.path) + 1 /\ Live(heap, parent)
<1>1. call.path \in Seq(Tokens)
  BY CallPath DEF IInv
<1>2. call.val \in Values \cup {NULL}
  BY DEF IInv, TypeOK, Calls, NoCall
<1>3. heap \in Heaps /\ Slots(heap)
  BY DEF IInv, TypeOK, SlotsSound
<1>4. Trail(heap, call.path)[0] = Root
  BY <1>1, <1>3, TrailDef
<1> QED BY <1>1, <1>2, <1>3, <1>4, PathAssumption
        DEF IInv, TypeOK, Forest, Tree, WalkInTree

(* A call of sconf_node_create_and_insert from the loop, or after it.      *)
LEMMA MakeStep ==
    ASSUME IInv, WInv, pc = "walk",
           NEW name \in Tokens \cup {NULL}, NEW type,
           NEW data \in Values \cup {NULL}, NEW fault, NEW made,
           made = CreateAndInsert(heap, name, type, parent, 0, data, fault)
    PROVE  Outcome(heap, level, name, type, parent, 0, data, made)
<1>1. /\ heap \in Heaps /\ Slots(heap) /\ Root \in Ids
      /\ level \in [Ids -> Nat] /\ Tree(heap, Root, level)
      /\ parent \in Ids /\ Live(heap, parent)
      /\ 0 \in 0 .. UIntMod - 1
  BY PathAssumption, IndexAssumption
     DEF IInv, TypeOK, Forest, SlotsSound, WalkInTree
<1> QED BY <1>1, CreateAndInsertOutcomes

(* Below the root, the loop has made its parent the container that the     *)
(* token before the next one needs.                                        *)
LEMMA ParentFits ==
    ASSUME IInv, WInv, pc = "walk", depth > 2
    PROVE  /\ heap[parent].type = TypeFor(call.path[depth - 1])
           /\ call.path[depth - 1] \in Tokens
<1>1. call.path \in Seq(Tokens) /\ depth \in 3 .. Len(call.path) + 1
  BY WalkFacts
<1>2. /\ depth - 2 \in 1 .. depth - 2 /\ depth - 2 < Len(call.path)
      /\ (depth - 2) + 1 = depth - 1 /\ ~(depth <= 2)
      /\ depth - 1 \in 1 .. Len(call.path)
  BY <1>1
<1>3. parent = Trail(heap, call.path)[depth - 2]
  BY <1>2 DEF WInv, WalkAlong
<1>4. heap[Trail(heap, call.path)[depth - 2]].type = TypeFor(call.path[depth - 1])
  BY <1>2 DEF WInv, WalkAlong, Built
<1> QED BY <1>1, <1>2, <1>3, <1>4

(* The step of the path that a turn of the loop works on, and its token:   *)
(* the last one before depth, or none.                                     *)
StepIndex == IF call.path = <<>> THEN 1 ELSE depth - 1

StepName == IF call.path = <<>> THEN NULL ELSE call.path[depth - 1]

(* What a step that is over has done to the path of the call.              *)
StepBuilt(type, data, made) ==
    made.status = "ok" =>
        /\ made.node # NULL
        /\ Trail(heap', call.path)[StepIndex] = made.node
        /\ heap'[made.node].type = type
        /\ type \in Scalars => heap'[made.node].val = data
        /\ (StepIndex < Len(call.path) => type = TypeFor(call.path[StepIndex + 1]))
              => Built(heap', call.path, StepIndex)

(* The loop looks the token up where the tokens before it lead.            *)
LEMMA StepToken ==
    ASSUME IInv, WInv, pc = "walk", depth > 1 \/ call.path = <<>>
    PROVE  /\ StepIndex \in 1 .. Len(Steps(call.path))
           /\ parent = Trail(heap, call.path)[StepIndex - 1]
           /\ Built(heap, call.path, StepIndex - 1)
           /\ Steps(call.path)[StepIndex] = StepName
           /\ StepName \in Tokens \cup {NULL}
<1>1. /\ call.path \in Seq(Tokens) /\ depth \in 1 .. Len(call.path) + 1
      /\ Len(call.path) \in Nat
      /\ Trail(heap, call.path)[0] = Root
  BY WalkFacts
<1>2. /\ Built(heap, call.path, depth - 2)
      /\ parent = Trail(heap, call.path)[IF depth <= 2 THEN 0 ELSE depth - 2]
  BY DEF WInv, WalkAlong
<1>3. CASE call.path = <<>>
  <2>1. depth = 1 /\ Steps(call.path) = <<NULL>> /\ 1 - 1 = 0
    BY <1>1, <1>3 DEF Steps
  <2>2. Built(heap, call.path, 0)
    BY DEF Built
  <2> QED BY <1>2, <1>3, <2>1, <2>2 DEF StepIndex, StepName
<1>4. CASE call.path # <<>>
  <2>1. /\ depth \in 2 .. Len(call.path) + 1 /\ (depth - 1) - 1 = depth - 2
        /\ Steps(call.path) = call.path /\ depth - 1 \in 1 .. Len(call.path)
        /\ depth <= 2 => depth - 2 = 0
        /\ call.path[depth - 1] \in Tokens
    BY <1>1, <1>4 DEF Steps
  <2> QED BY <1>2, <1>4, <2>1 DEF StepIndex, StepName
<1> QED BY <1>3, <1>4

(* The walk after the step: what both SetParent and SetLeaf do to the      *)
(* paths, whether they succeed or fail.                                    *)
LEMMA LeaveWalk ==
    ASSUME IInv, WInv, pc = "walk", depth > 1 \/ call.path = <<>>,
           heap' \in Heaps, SlotsSound', NodesStay,
           NEW type, NEW data \in Values \cup {NULL}, NEW made,
           Outcome(heap, level, StepName, type, parent, 0, data, made),
           made.status # "fault", heap' = made.heap
    PROVE  NamesBelow' /\ ArraysTight' /\ StepBuilt(type, data, made)
<1> DEFINE path == call.path
           k    == StepIndex
           name == StepName
<1>1. /\ path \in Seq(Tokens) /\ heap \in Heaps /\ Slots(heap)
      /\ NoDangling(heap, Root) /\ parent \in Ids /\ Live(heap, parent)
      /\ depth \in 1 .. Len(path) + 1 /\ Slots(heap')
  BY WalkFacts DEF SlotsSound
<1>2. /\ k \in 1 .. Len(Steps(path)) /\ parent = Trail(heap, path)[k - 1]
      /\ Built(heap, path, k - 1) /\ Steps(path)[k] = name
      /\ name \in Tokens \cup {NULL}
  BY StepToken
<1>4. Stays(heap, heap')
  BY DEF NodesStay, Stays
<1>5. parent # Root /\ heap[parent].type = "dict" => name \notin Brackets
  <2>1. CASE depth > 2
    <3>1. /\ heap[parent].type = TypeFor(path[depth - 1]) /\ path[depth - 1] \in Tokens
          /\ path # <<>>
      BY <1>1, <2>1, ParentFits
    <3> QED BY <3>1 DEF TypeFor, StepName
  <2>2. CASE ~(depth > 2)
    <3>1. k - 1 = 0
      BY <1>1, <2>2 DEF StepIndex
    <3>2. parent = Root
      BY <1>2, <3>1, WalkFacts
    <3> QED BY <3>2
  <2> QED BY <2>1, <2>2
<1>6. Outcome(heap, level, name, type, parent, 0, data, made)
  OBVIOUS
<1> HIDE DEF name, k, path
<1>7. NamesOnly(heap')
  BY <1>1, <1>2, <1>5, <1>6, MadeNames DEF WInv, NamesBelow
<1>8. Tight(heap')
  <2>1. Tight(heap)
    BY DEF WInv, ArraysTight, Tight
  <2> QED BY <1>1, <1>6, <2>1, MadeTight
<1>9. ASSUME made.status = "ok"
      PROVE  /\ made.node # NULL
             /\ Trail(heap', path)[k] = made.node
             /\ heap'[made.node].type = type
             /\ type \in Scalars => heap'[made.node].val = data
             /\ (k < Len(path) => type = TypeFor(path[k + 1]))
                   => Built(heap', path, k)
  <2>1. /\ made.node \in Ids /\ Follow(heap', parent, name) = made.node
        /\ heap'[made.node].type = type
        /\ type \in Scalars => heap'[made.node].val = data
    BY <1>1, <1>2, <1>6, <1>9, MadeFollows
  <2>2. made.node # NULL /\ parent # NULL
    BY <1>1, <2>1, IdsAssumption
  <2>3. LET node == Follow(heap', Trail(heap, path)[k - 1], Steps(path)[k])
        IN  /\ Trail(heap', path)[k] = node
            /\ (k < Len(path) => heap'[node].type = TypeFor(path[k + 1]))
                  => Built(heap', path, k)
    BY <1>1, <1>2, <1>4, <2>1, <2>2, BuiltExtends
  <2> QED BY <1>2, <2>1, <2>2, <2>3
<1> QED BY <1>7, <1>8, <1>9
        DEF NamesBelow, ArraysTight, Tight, StepBuilt, path, k

(* A wild access happens only behind the largest index.                    *)
LEMMA FaultStep ==
    ASSUME IInv, WInv, pc = "walk", depth > 1 \/ call.path = <<>>,
           NEW type, NEW data \in Values \cup {NULL}, NEW made,
           Outcome(heap, level, StepName, type, parent, 0, data, made),
           made.status = "fault"
    PROVE  \E b \in IndexTokens(call.path) : IndexOf[b] % UIntMod = UIntMod - 1
<1> DEFINE path == call.path
           name == StepName
<1>1. /\ heap[parent].type = "array" /\ Usable(heap, name, parent)
      /\ Slot(heap, name, parent, 0) = UIntMod - 1
  BY DEF Outcome, CallOutcome
<1>2. Element(name, 0) = UIntMod - 1
  BY <1>1 DEF Slot
<1>3. name \in Brackets /\ IndexOf[name] % UIntMod = UIntMod - 1
  BY <1>2, IndexAssumption DEF Element
<1>4. /\ path \in Seq(Tokens) /\ depth \in 1 .. Len(path) + 1
      /\ Trail(heap, path)[0] = Root
  BY WalkFacts
<1>5. path # <<>> /\ name = path[depth - 1] /\ depth - 1 \in 1 .. Len(path)
  <2>1. NULL \notin Brackets
    BY TokensAssumption DEF Tokens
  <2>2. path # <<>>
    BY <1>3, <2>1 DEF StepName
  <2> QED BY <1>4, <2>2 DEF StepName
<1>6. depth - 1 > 1 \/ heap[Root].type = "array"
  <2>1. SUFFICES ASSUME ~(depth - 1 > 1) PROVE heap[Root].type = "array"
    OBVIOUS
  <2>2. depth <= 2
    BY <1>4, <2>1
  <2>3. parent = Root
    BY <1>4, <2>2 DEF WInv, WalkAlong
  <2> QED BY <1>1, <2>3
<1> HIDE DEF name
<1>7. name \in IndexTokens(path)
  BY <1>3, <1>5, <1>6 DEF IndexTokens
<1> QED BY <1>3, <1>7

(* Every step of sconf_set keeps WInv.                                     *)
LEMMA StepWalk == IInv /\ WInv /\ [Next]_vars => WInv'
<1> SUFFICES ASSUME IInv, WInv, [Next]_vars PROVE WInv'
  OBVIOUS
<1>0. /\ heap \in Heaps /\ Slots(heap) /\ Root \in Ids
      /\ call.path \in Seq(Tokens) /\ call.val \in Values \cup {NULL}
      /\ Trail(heap, call.path)[0] = Root
      /\ Len(call.path) \in Nat /\ depth \in Nat
      /\ pc = "walk" => depth \in 1 .. Len(call.path) + 1
  BY WalkFacts
<1>7. /\ heap' \in Heaps /\ SlotsSound' /\ NodesStay
  BY StepInv DEF IInv, TypeOK
<1>1. ASSUME NEW path \in Paths, NEW type \in SetTypes, NEW val \in Values,
             SetCall(path, type, val)
      PROVE  WInv'
  <2>1. /\ heap' = heap /\ pc' = "walk" /\ depth' = 1 /\ parent' = Root
        /\ call'.path = path
    BY <1>1 DEF SetCall
  <2>2. path \in Seq(Tokens)
    BY PathAssumption
  <2>3. Trail(heap, path)[0] = Root
    BY <1>0, <2>2, TrailDef
  <2>4. WalkAlong'
    BY <2>1, <2>3 DEF WalkAlong, Built
  <2> QED BY <2>1, <2>4 DEF WInv, SetDone, NamesBelow, OnlyLargestFaults, ArraysTight
<1>2. CASE SetFirst
  <2>1. /\ heap' = heap /\ pc = "walk" /\ depth = 1 /\ call' = call
        /\ \/ pc' = "done" /\ ret' = -1
           \/ pc' = "walk" /\ depth' = 2 /\ parent' = parent
    BY <1>2 DEF SetFirst, NextTurn, Return
  <2>2. parent = Trail(heap, call.path)[0]
    BY <2>1 DEF WInv, WalkAlong
  <2>3. WalkAlong'
    BY <2>1, <2>2 DEF WalkAlong, Built
  <2> QED BY <2>1, <2>3 DEF WInv, SetDone, NamesBelow, OnlyLargestFaults, ArraysTight
<1>3. ASSUME NEW fault \in AllocFaults, SetParent(fault)
      PROVE  WInv'
  <2> DEFINE made == MakeParent(fault)
             type == TypeFor(call.path[depth])
             name == StepName
  <2>1. /\ pc = "walk" /\ depth > 1 /\ depth <= Len(call.path)
        /\ \/ made.status = "ok"    /\ Leave(made) /\ NextTurn(made.node)
           \/ made.status = "error" /\ Leave(made) /\ Return(-1)
           \/ made.status = "fault" /\ Crash
    BY <1>3 DEF SetParent
  <2>2. /\ depth \in 2 .. Len(call.path) /\ call.path # <<>>
        /\ depth - 1 \in 1 .. Len(call.path) /\ name \in Tokens
        /\ name = call.path[depth - 1]
    BY <1>0, <2>1 DEF StepName
  <2>3. made = CreateAndInsert(heap, name, type, parent, 0, NULL, fault)
    BY <2>2 DEF MakeParent, TypeFor
  <2> HIDE DEF made, type
  <2>4. Outcome(heap, level, name, type, parent, 0, NULL, made)
    BY <2>1, <2>2, <2>3, MakeStep
  <2>5. ASSUME Leave(made), made.status # "fault"
        PROVE  /\ NamesBelow' /\ ArraysTight'
               /\ made.status = "ok" =>
                     /\ Built(heap', call.path, depth - 1)
                     /\ Trail(heap', call.path)[depth - 1] = made.node
    <3>1. heap' = made.heap
      BY <2>5 DEF Leave
    <3>2. /\ NamesBelow' /\ ArraysTight' /\ StepBuilt(type, NULL, made)
      BY <1>7, <2>1, <2>4, <2>5, <3>1, LeaveWalk
    <3>3. StepIndex = depth - 1 /\ type = TypeFor(call.path[StepIndex + 1])
      BY <2>2 DEF type, StepIndex
    <3> QED BY <3>2, <3>3 DEF StepBuilt
  <2>6. CASE made.status = "ok" /\ Leave(made) /\ NextTurn(made.node)
    <3>1. CASE depth >= MaxDepth
      <4>1. pc' = "done" /\ ret' = -1
        BY <2>6, <3>1 DEF NextTurn, Return
      <4> QED BY <2>5, <2>6, <4>1
              DEF WInv, WalkAlong, SetDone, OnlyLargestFaults
    <3>2. CASE ~(depth >= MaxDepth)
      <4>1. /\ depth' = depth + 1 /\ parent' = made.node /\ pc' = "walk"
            /\ call' = call
        BY <2>1, <2>6, <3>2 DEF NextTurn
      <4>2. depth' - 2 = depth - 1 /\ ~(depth' <= 2)
        BY <2>2, <4>1
      <4>3. WalkAlong'
        BY <2>5, <2>6, <4>1, <4>2 DEF WalkAlong
      <4> QED BY <2>5, <2>6, <4>1, <4>3 DEF WInv, SetDone, OnlyLargestFaults
    <3> QED BY <3>1, <3>2
  <2>7. CASE made.status = "error" /\ Leave(made) /\ Return(-1)
    BY <2>5, <2>7 DEF Return, WInv, WalkAlong, SetDone, OnlyLargestFaults
  <2>8. CASE made.status = "fault" /\ Crash
    <3>1. \E b \in IndexTokens(call.path) : IndexOf[b] % UIntMod = UIntMod - 1
      BY <2>1, <2>2, <2>4, <2>8, FaultStep
    <3>2. heap' = heap /\ call' = call /\ pc' = "fault"
      BY <2>8 DEF Crash
    <3>3. OnlyLargestFaults'
      BY <3>1, <3>2 DEF OnlyLargestFaults, IndexTokens
    <3> QED BY <3>2, <3>3 DEF WInv, WalkAlong, SetDone, NamesBelow, ArraysTight
  <2> QED BY <2>1, <2>6, <2>7, <2>8
<1>4. ASSUME NEW fault \in AllocFaults, SetLeaf(fault)
      PROVE  WInv'
  <2> DEFINE made == MakeLeaf(fault)
             name == StepName
             k    == StepIndex
  <2>1. /\ pc = "walk" /\ depth = Len(call.path) + 1
        /\ \/ made.status = "ok"    /\ Leave(made) /\ Return(0)
           \/ made.status = "error" /\ Leave(made) /\ Return(-1)
           \/ made.status = "fault" /\ Crash
    BY <1>4 DEF SetLeaf
  <2>2. /\ name = LastToken(call.path) /\ name \in Tokens \cup {NULL}
        /\ depth > 1 \/ call.path = <<>>
        /\ k = Len(Steps(call.path)) /\ ~(k < Len(call.path))
    BY <1>0, <2>1, StepsType DEF LastToken, StepName, StepIndex
  <2>3. made = CreateAndInsert(heap, name, call.type, parent, 0, call.val, fault)
    BY <2>2 DEF MakeLeaf
  <2> HIDE DEF made
  <2>4. Outcome(heap, level, name, call.type, parent, 0, call.val, made)
    BY <1>0, <2>1, <2>2, <2>3, MakeStep
  <2>5. ASSUME Leave(made), made.status # "fault"
        PROVE  /\ NamesBelow' /\ ArraysTight'
               /\ made.status = "ok" =>
                     /\ Built(heap', call.path, k)
                     /\ Trail(heap', call.path)[k] = made.node
                     /\ heap'[made.node].type = call.type
                     /\ call.type \in Scalars => heap'[made.node].val = call.val
    <3>1. heap' = made.heap
      BY <2>5 DEF Leave
    <3>2. NamesBelow' /\ ArraysTight' /\ StepBuilt(call.type, call.val, made)
      BY <1>0, <1>7, <2>1, <2>2, <2>4, <2>5, <3>1, LeaveWalk
    <3> QED BY <2>2, <3>2 DEF StepBuilt
  <2>6. CASE made.status = "ok" /\ Leave(made) /\ Return(0)
    <3>1. pc' = "done" /\ ret' = 0 /\ call' = call
      BY <2>6 DEF Return
    <3>2. Denoted(heap', call.path) = made.node
      <4>1. k = IF call.path = <<>> THEN 1 ELSE Len(call.path)
        BY <1>0, <2>1 DEF StepIndex
      <4> QED BY <2>5, <2>6, <4>1 DEF Denoted
    <3> HIDE DEF k, name
    <3>3. SetDone'
      BY <2>2, <2>5, <2>6, <3>1, <3>2 DEF SetDone
    <3> QED BY <2>5, <2>6, <3>1, <3>3 DEF WInv, WalkAlong, OnlyLargestFaults
  <2>7. CASE made.status = "error" /\ Leave(made) /\ Return(-1)
    BY <2>5, <2>7 DEF Return, WInv, WalkAlong, SetDone, OnlyLargestFaults
  <2>8. CASE made.status = "fault" /\ Crash
    <3>1. \E b \in IndexTokens(call.path) : IndexOf[b] % UIntMod = UIntMod - 1
      BY <1>0, <2>1, <2>2, <2>4, <2>8, FaultStep
    <3>2. heap' = heap /\ call' = call /\ pc' = "fault"
      BY <2>8 DEF Crash
    <3>3. OnlyLargestFaults'
      BY <3>1, <3>2 DEF OnlyLargestFaults, IndexTokens
    <3> QED BY <3>2, <3>3 DEF WInv, WalkAlong, SetDone, NamesBelow, ArraysTight
  <2> QED BY <2>1, <2>6, <2>7, <2>8
<1>5. CASE SetReturned
  BY <1>5 DEF SetReturned, WInv, WalkAlong, SetDone, NamesBelow,
              OnlyLargestFaults, ArraysTight
<1>6. CASE UNCHANGED vars
  BY <1>6 DEF vars, WInv, WalkAlong, SetDone, NamesBelow, OnlyLargestFaults,
              ArraysTight, IndexTokens
<1> QED BY <1>1, <1>2, <1>3, <1>4, <1>5, <1>6 DEF Next

(* At first there are no paths but the empty one.                          *)
LEMMA InitWalk == Init => WInv
<1> SUFFICES ASSUME Init PROVE WInv
  OBVIOUS
<1>1. PICK t \in RootTypes :
         heap = [n \in Ids |-> IF n = Root THEN NewCell(t, NULL) ELSE FreeCell]
  BY DEF Init
<1>2. pc = "idle"
  BY DEF Init
<1>3. t \in NodeTypes /\ Root \in Ids
  BY PathAssumption DEF NodeTypes
<1>4. \A n \in Ids \ {Root} : heap[n].type = "free" /\ \A k \in Keys : heap[n].kids[k] = NULL
  BY <1>1 DEF FreeCell
<1>5. heap[Root].size \in {0, 1}
  BY <1>1, <1>3, NewCellType
<1>6. NamesBelow
  BY <1>4, IdsAssumption DEF NamesBelow, NamesOnly, Keys, Tokens
<1>7. ArraysTight
  BY <1>4, <1>5 DEF ArraysTight
<1> QED BY <1>2, <1>6, <1>7 DEF WInv, WalkAlong, SetDone, OnlyLargestFaults

(* A path that a call has built is read as it was written.                 *)
LEMMA DoneReads == IInv /\ WInv => RoundTrip
<1> SUFFICES ASSUME IInv, WInv, pc = "done", ret = 0
             PROVE  LET got == Get(heap, call.path)
                    IN  IF BracketUnderDict(call.path) THEN got.status = "missing"
                        ELSE /\ got.status = "found"
                             /\ got.node = Denoted(heap, call.path)
                             /\ heap[got.node].type = call.type
                             /\ call.type \in Scalars => heap[got.node].val = call.val
  BY DEF RoundTrip
<1> DEFINE path == call.path
           t    == Trail(heap, path)
           N    == Len(Steps(path))
<1>1. /\ heap \in Heaps /\ Slots(heap) /\ NoDangling(heap, Root)
      /\ path \in Seq(Tokens) /\ NamesOnly(heap)
  BY WalkFacts DEF WInv, NamesBelow
<1>2. /\ Built(heap, path, N)
      /\ heap[Denoted(heap, path)].type = call.type
      /\ call.type \in Scalars => heap[Denoted(heap, path)].val = call.val
  BY DEF WInv, SetDone
<1>3. CASE BracketUnderDict(path)
  <2>1. ~ Named(heap, path)
    BY <1>3 DEF BracketUnderDict, Named
  <2> QED BY <1>1, <1>3, <2>1, GetMissesBracket
<1>4. CASE ~ BracketUnderDict(path)
  <2>1. Named(heap, path)
    BY <1>4 DEF BracketUnderDict, Named
  <2>2. Indexed(heap, path)
    <3> SUFFICES ASSUME NEW i \in 2 .. Len(path), heap[t[i - 1]].type = "array"
                 PROVE  path[i] \in Brackets
      BY DEF Indexed
    <3>1. /\ i - 1 \in 1 .. N /\ i - 1 < Len(path) /\ (i - 1) + 1 = i
      BY <1>1, StepsType
    <3>2. heap[t[i - 1]].type = TypeFor(path[i])
      BY <1>2, <3>1 DEF Built
    <3> QED BY <3>2 DEF TypeFor
  <2>3. Denoted(heap, path) # NULL
    <3>1. N \in 1 .. N /\ Denoted(heap, path) = t[N]
      BY <1>1, StepsType DEF Denoted
    <3> QED BY <1>2, <3>1 DEF Built
  <2>4. /\ Get(heap, path).node = Denoted(heap, path)
        /\ Get(heap, path).status = "found"
    BY <1>1, <2>1, <2>2, <2>3, GetFollows
  <2> QED BY <1>2, <1>4, <2>4
<1> QED BY <1>3, <1>4

(* sconf_get finds what there is.                                          *)
LEMMA IdleReads == IInv /\ WInv => GetComplete
<1> SUFFICES ASSUME IInv, WInv, NEW path \in Paths,
                    ProperlyIndexed(heap, path), ~ BracketUnderDict(path)
             PROVE  LET got == Get(heap, path)
                    IN  (got.status = "found" \/ Denoted(heap, path) # NULL) =>
                            got.node = Denoted(heap, path)
  BY DEF GetComplete
<1>1. /\ heap \in Heaps /\ Slots(heap) /\ NoDangling(heap, Root)
      /\ path \in Seq(Tokens) /\ NamesOnly(heap)
  BY WalkFacts, PathAssumption DEF WInv, NamesBelow
<1>2. Named(heap, path)
  BY DEF BracketUnderDict, Named
<1>3. Indexed(heap, path)
  <2>1. \A i \in 2 .. Len(path) : i \in 1 .. Len(path)
    OBVIOUS
  <2> QED BY <2>1 DEF Indexed, ProperlyIndexed
<1> QED BY <1>1, <1>2, <1>3, GetFollows

(* The indexes of a path that was built were looked at.                    *)
LEMMA DoneChecked == IInv /\ WInv => IndexChecked
<1> SUFFICES ASSUME IInv, WInv, pc = "done", ret = 0,
                    NEW b \in IndexTokens(call.path)
             PROVE  IndexOf[b] >= 0 /\ IndexOf[b] % UIntMod < ArrayMax
  BY DEF IndexChecked, WInv, OnlyLargestFaults
<1> DEFINE path == call.path
           t    == Trail(heap, path)
<1>1. PICK j \in 1 .. Len(path) :
          /\ b = path[j] /\ path[j] \in Brackets
          /\ j > 1 \/ heap[Root].type = "array"
  BY DEF IndexTokens
<1>2. /\ heap \in Heaps /\ Slots(heap) /\ path \in Seq(Tokens)
      /\ Built(heap, path, Len(Steps(path))) /\ t[0] = Root /\ Root \in Ids
  BY WalkFacts DEF WInv, SetDone
<1>3. /\ Steps(path) = path /\ j \in 1 .. Len(Steps(path))
      /\ Len(path) \in Nat /\ path[j] \in Tokens /\ IndexOf[b] \in Int
  BY <1>1, <1>2, IndexAssumption DEF Steps
<1>4. t[j - 1] \in Ids /\ heap[t[j - 1]].type = "array"
  <2>1. CASE j = 1
    BY <1>1, <1>2, <2>1
  <2>2. CASE j # 1
    <3>1. /\ j - 1 \in 1 .. Len(Steps(path)) /\ j - 1 < Len(path) /\ (j - 1) + 1 = j
          /\ j - 1 \in 0 .. Len(Steps(path))
      BY <1>3, <2>2
    <3>2. t[j - 1] # NULL /\ heap[t[j - 1]].type = TypeFor(path[j])
      BY <1>2, <3>1 DEF Built
    <3>3. t[j - 1] \in Ids \cup {NULL}
      BY <1>2, <3>1, TrailDef
    <3> QED BY <1>1, <3>2, <3>3 DEF TypeFor
  <2> QED BY <2>1, <2>2
<1>5. t[j] # NULL /\ t[j] = Follow(heap, t[j - 1], path[j])
  <2>1. t[j] # NULL
    BY <1>2, <1>3 DEF Built
  <2> QED BY <1>2, <1>3, <2>1, TrailDef
<1> HIDE DEF t
<1>6. /\ Usable(heap, path[j], t[j - 1])
      /\ Slot(heap, path[j], t[j - 1], 0) \in Keys
  BY <1>2, <1>3, <1>4, <1>5, FollowFinds
<1>7. IndexOf[b] >= 0
  BY <1>1, <1>3, <1>4, <1>6 DEF Usable
<1>8. IndexOf[b] % UIntMod \in Keys
  BY <1>1, <1>4, <1>6 DEF Slot, Element
<1>9. IndexOf[b] % UIntMod \in Int
  BY <1>3, IndexAssumption
<1>10. IndexOf[b] % UIntMod \in Indexes
  BY <1>8, <1>9, TokensAssumption DEF Keys
<1> QED BY <1>7, <1>10, IndexAssumption DEF Indexes

(* The node a step works on is where its tokens lead.                      *)
LEMMA StepFollows ==
    ASSUME IInv, WInv, pc = "walk", depth > 1 \/ call.path = <<>>
    PROVE  Trail(heap, call.path)[StepIndex] = Follow(heap, parent, StepName)
<1>1. /\ heap \in Heaps /\ Slots(heap) /\ call.path \in Seq(Tokens)
      /\ parent \in Ids /\ parent # NULL
  BY WalkFacts, IdsAssumption
<1> QED BY <1>1, StepToken, TrailDef

(* The two steps that write, put the same way.                             *)
LEMMA WritingStep ==
    ASSUME IInv, WInv, NEW fault \in AllocFaults, SetParent(fault) \/ SetLeaf(fault)
    PROVE  /\ pc = "walk" /\ (depth > 1 \/ call.path = <<>>) /\ call' = call
           /\ \/ UNCHANGED heap
              \/ \E made :
                    /\ made.status \in {"ok", "error"} /\ heap' = made.heap
                    /\ \/ /\ SetParent(fault)
                          /\ Outcome(heap, level, StepName,
                                     TypeFor(call.path[depth]), parent, 0, NULL, made)
                       \/ /\ depth = Len(call.path) + 1
                          /\ pc' = "done"
                          /\ ret' = IF made.status = "ok" THEN 0 ELSE -1
                          /\ Outcome(heap, level, StepName,
                                     call.type, parent, 0, call.val, made)
<1>0. /\ call.path \in Seq(Tokens) /\ Len(call.path) \in Nat
      /\ depth \in Nat /\ call.val \in Values \cup {NULL}
      /\ NULL \in Values \cup {NULL}
  BY WalkFacts
<1>1. CASE SetParent(fault)
  <2> DEFINE made == MakeParent(fault)
             type == TypeFor(call.path[depth])
  <2>1. /\ pc = "walk" /\ depth > 1 /\ depth <= Len(call.path) /\ call' = call
        /\ \/ made.status \in {"ok", "error"} /\ heap' = made.heap
           \/ heap' = heap
    BY <1>1 DEF SetParent, Leave, Crash, NextTurn, Return
  <2>2. StepName = call.path[depth - 1] /\ StepName \in Tokens
    BY <1>0, <2>1 DEF StepName
  <2>3. made = CreateAndInsert(heap, StepName, type, parent, 0, NULL, fault)
    BY <2>2 DEF MakeParent, TypeFor
  <2> HIDE DEF made, type
  <2>4. Outcome(heap, level, StepName, type, parent, 0, NULL, made)
    BY <1>0, <2>1, <2>2, <2>3, MakeStep
  <2> QED BY <1>1, <2>1, <2>4 DEF type
<1>2. CASE SetLeaf(fault)
  <2> DEFINE made == MakeLeaf(fault)
  <2>1. /\ pc = "walk" /\ depth = Len(call.path) + 1 /\ call' = call
        /\ \/ /\ made.status \in {"ok", "error"} /\ heap' = made.heap
              /\ pc' = "done" /\ ret' = IF made.status = "ok" THEN 0 ELSE -1
           \/ heap' = heap
    BY <1>2 DEF SetLeaf, Leave, Crash, Return
  <2>2. /\ StepName = LastToken(call.path) /\ StepName \in Tokens \cup {NULL}
        /\ depth > 1 \/ call.path = <<>>
    BY <1>0, <2>1, StepsType DEF LastToken, StepName
  <2>3. made = CreateAndInsert(heap, StepName, call.type, parent, 0, call.val, fault)
    BY <2>2 DEF MakeLeaf
  <2> HIDE DEF made
  <2>4. Outcome(heap, level, StepName, call.type, parent, 0, call.val, made)
    BY <1>0, <2>1, <2>2, <2>3, MakeStep
  <2> QED BY <2>1, <2>2, <2>4
<1> QED BY <1>1, <1>2

(* What every other step leaves alone.                                     *)
LEMMA OtherStep ==
    ASSUME [Next]_vars, ~ \E fault \in AllocFaults : SetParent(fault) \/ SetLeaf(fault)
    PROVE  heap' = heap
  BY DEF Next, vars, SetCall, SetFirst, SetReturned

(* A step writes only where the path of its call leads.                    *)
LEMMA StepWrites == IInv /\ WInv /\ [Next]_vars => WritesDenoted
<1> SUFFICES ASSUME IInv, WInv, [Next]_vars,
                    NEW n \in Ids, Live(heap, n), heap'[n].val # heap[n].val
             PROVE  /\ n = Denoted(heap, call.path)
                    /\ heap[n].type = call.type
                    /\ ret' = 0  => heap'[n].val = call.val
                    /\ ret' = -1 => heap[n].type = "str" /\ heap'[n].val = NULL
  BY DEF WritesDenoted
<1>1. PICK fault \in AllocFaults : SetParent(fault) \/ SetLeaf(fault)
  BY OtherStep
<1>2. /\ pc = "walk" /\ (depth > 1 \/ call.path = <<>>)
      /\ heap \in Heaps /\ parent \in Ids
      /\ StepName \in Tokens \cup {NULL}
      /\ call.path \in Seq(Tokens) /\ Len(call.path) \in Nat
  <2>1. pc = "walk" /\ (depth > 1 \/ call.path = <<>>)
    BY <1>1, WritingStep
  <2> QED BY <2>1, WalkFacts, StepToken
<1>3. PICK made :
          /\ made.status \in {"ok", "error"} /\ heap' = made.heap
          /\ \/ /\ SetParent(fault)
                /\ Outcome(heap, level, StepName,
                           TypeFor(call.path[depth]), parent, 0, NULL, made)
             \/ /\ depth = Len(call.path) + 1
                /\ pc' = "done"
                /\ ret' = IF made.status = "ok" THEN 0 ELSE -1
                /\ Outcome(heap, level, StepName,
                           call.type, parent, 0, call.val, made)
  BY <1>1, WritingStep
<1>4. CASE Outcome(heap, level, StepName,
                   TypeFor(call.path[depth]), parent, 0, NULL, made)
  <2> DEFINE type == TypeFor(call.path[depth])
  <2>1. type \notin Scalars /\ type # "str"
    BY DEF TypeFor, Scalars
  <2> HIDE DEF type
  <2>2. /\ made.status = "ok" => type \in Scalars
        /\ made.status # "ok" => type = "str"
    BY <1>2, <1>3, <1>4, MadeWrites DEF type
  <2> QED BY <2>1, <2>2
<1>5. CASE /\ depth = Len(call.path) + 1
           /\ ret' = IF made.status = "ok" THEN 0 ELSE -1
           /\ Outcome(heap, level, StepName, call.type, parent, 0, call.val, made)
  <2>1. /\ n = Follow(heap, parent, StepName)
        /\ heap[n].type = call.type
        /\ made.status = "ok" => made.heap[n].val = call.val
        /\ made.status # "ok" => call.type = "str" /\ made.heap[n].val = NULL
    <3>1. made.status # "fault" /\ made.heap[n].val # heap[n].val
      BY <1>3
    <3>2. Outcome(heap, level, StepName, call.type, parent, 0, call.val, made)
      BY <1>5
    <3> QED BY <1>2, <3>1, <3>2, MadeWrites
  <2>2. Denoted(heap, call.path) = Trail(heap, call.path)[StepIndex]
    BY <1>2, <1>5 DEF Denoted, StepIndex
  <2>3. n = Denoted(heap, call.path)
    BY <1>2, <2>1, <2>2, StepFollows
  <2> QED BY <1>3, <1>5, <2>1, <2>3
<1> QED BY <1>3, <1>4, <1>5

(* A step adds a node only where the tokens it has taken lead.             *)
LEMMA StepAdds == IInv /\ WInv /\ [Next]_vars => AddsDenoted
<1> DEFINE len == IF depth > Len(call.path) THEN Len(call.path) ELSE depth - 1
<1> SUFFICES ASSUME IInv, WInv, [Next]_vars,
                    NEW n \in Ids, ~ Live(heap, n), Live(heap', n)
             PROVE  /\ n = Denoted(heap', SubSeq(call.path, 1, len))
                    /\ \A m \in Ids \ {n} : ~ Live(heap, m) => ~ Live(heap', m)
  BY DEF AddsDenoted
<1>1. PICK fault \in AllocFaults : SetParent(fault) \/ SetLeaf(fault)
  BY OtherStep
<1>2. /\ pc = "walk" /\ (depth > 1 \/ call.path = <<>>)
      /\ heap \in Heaps /\ parent \in Ids
      /\ heap' \in Heaps /\ SlotsSound' /\ NodesStay
      /\ StepIndex \in 1 .. Len(Steps(call.path))
      /\ call.path \in Seq(Tokens) /\ Len(call.path) \in Nat
      /\ call.val \in Values \cup {NULL} /\ NULL \in Values \cup {NULL}
      /\ depth \in 1 .. Len(call.path) + 1
  <2>1. pc = "walk" /\ (depth > 1 \/ call.path = <<>>)
    BY <1>1, WritingStep
  <2>2. heap' \in Heaps /\ SlotsSound' /\ NodesStay
    BY StepInv DEF IInv, TypeOK
  <2> QED BY <2>1, <2>2, WalkFacts, StepToken
<1>3. PICK type, data, made :
          /\ data \in Values \cup {NULL}
          /\ made.status \in {"ok", "error"} /\ heap' = made.heap
          /\ Outcome(heap, level, StepName, type, parent, 0, data, made)
  BY <1>1, <1>2, WritingStep
<1>4. /\ made.status = "ok" /\ n = made.node
      /\ \A m \in Ids : ~ Live(heap, m) /\ Live(heap', m) => m = made.node
  BY <1>2, <1>3, MadeAdds
<1>5. Trail(heap', call.path)[StepIndex] = made.node
  <2>1. StepBuilt(type, data, made)
    BY <1>2, <1>3, <1>4, LeaveWalk
  <2> QED BY <1>4, <2>1 DEF StepBuilt
<1>6. Denoted(heap', SubSeq(call.path, 1, len)) = Trail(heap', call.path)[StepIndex]
  <2>1. CASE call.path = <<>>
    <3>1. SubSeq(call.path, 1, len) = <<>>
      BY <1>2, <2>1
    <3> QED BY <2>1, <3>1 DEF Denoted, StepIndex
  <2>2. CASE call.path # <<>>
    <3>1. len = depth - 1 /\ len \in 1 .. Len(call.path) /\ StepIndex = len
      BY <1>2, <2>2 DEF StepIndex
    <3>2. Slots(heap')
      BY <1>2 DEF SlotsSound
    <3> HIDE DEF len
    <3> QED BY <1>2, <3>1, <3>2, TrailPrefix
  <2> QED BY <2>1, <2>2
<1> QED BY <1>4, <1>5, <1>6

-----------------------------------------------------------------------------
(* Everything below follows from the two invariants.                       *)
THEOREM WalkInvariance == Spec => [](IInv /\ WInv)
<1>1. Init => IInv /\ WInv
  BY InitInv, InitWalk
<1>2. IInv /\ WInv /\ [Next]_vars => (IInv /\ WInv)'
  BY StepInv, StepWalk
<1> QED BY <1>1, <1>2, PTL DEF Spec

(* The loop of sconf_set stands in the tree, as deep as its turns.         *)
THEOREM AlwaysWalkInTree == Spec => []WalkInTree
  BY Invariance, PTL DEF IInv

(* What a successful sconf_set wrote, sconf_get reads at the same path.    *)
THEOREM AlwaysRoundTrip == Spec => []RoundTrip
  BY WalkInvariance, DoneReads, PTL

(* sconf_get finds the node a path leads to, whatever was set before.      *)
THEOREM AlwaysGetComplete == Spec => []GetComplete
  BY WalkInvariance, IdleReads, PTL

(* Every index a successful sconf_set used is in bounds, as an uint32_t.   *)
THEOREM AlwaysIndexChecked == Spec => []IndexChecked
  BY WalkInvariance, DoneChecked, PTL

(* No array ends in an empty slot, whatever failed.                        *)
THEOREM AlwaysArraysTight == Spec => []ArraysTight
<1>1. IInv /\ WInv => ArraysTight
  BY DEF WInv
<1> QED BY <1>1, WalkInvariance, PTL

(* A set changes no value but the one its path denotes.                    *)
THEOREM AlwaysOnlyTargetWritten == Spec => OnlyTargetWritten
  BY WalkInvariance, StepWrites, PTL DEF Spec, OnlyTargetWritten

(* A set adds nodes only along its path, one a step.                       *)
THEOREM AlwaysGrowsAlongPath == Spec => GrowsAlongPath
  BY WalkInvariance, StepAdds, PTL DEF Spec, GrowsAlongPath

-----------------------------------------------------------------------------
(* The store and the nodes speak of the same tokens, keys and types.       *)

LEMMA SameWords ==
    /\ Store!Tokens = Tokens /\ Store!Keys = Keys
    /\ Store!Scalars = Scalars /\ Store!Containers = Containers
    /\ Store!NodeTypes = NodeTypes
    /\ \A name, index : Store!Element(name, index) = Element(name, index)
    /\ \A path : Store!Steps(path) = Steps(path)
  BY DEF Store!Tokens, Store!Keys, Store!Indexes, Store!Scalars, Store!Containers,
         Store!NodeTypes, Store!Element, Store!Steps, Tokens, Keys, Indexes,
         Scalars, Containers, NodeTypes, Element, Steps

(* Two functions with the same values are the same.                        *)
LEMMA SameFunction ==
    ASSUME NEW f, NEW g, f = [q \in DOMAIN f |-> f[q]],
           g = [q \in DOMAIN g |-> g[q]], DOMAIN f = DOMAIN g,
           \A q \in DOMAIN f : f[q] = g[q]
    PROVE  f = g
OBVIOUS

(* The first i keys of a place.                                            *)
Above(p, i) == [j \in 1 .. i |-> p[j]]

(* The places of the steps, as long as each has a key.                     *)
LEMMA PlacesOfSteps ==
    ASSUME NEW c, NEW path, NEW k \in Nat,
           \A i \in 1 .. k : Store!KeyOf(c, path, i) \in Keys
    PROVE  /\ Store!PlaceOf(c, path, 0) = <<>>
           /\ \A i \in 0 .. k :
                 /\ Store!PlaceOf(c, path, i) \in Seq(Keys)
                 /\ Len(Store!PlaceOf(c, path, i)) = i
                 /\ \A j \in 0 .. i :
                       Above(Store!PlaceOf(c, path, i), j) = Store!PlaceOf(c, path, j)
           /\ \A i \in 1 .. k :
                 Store!PlaceOf(c, path, i)
                 = Append(Store!PlaceOf(c, path, i - 1), Store!KeyOf(c, path, i))
<1>1. Store!PlaceOf(c, path, 0) = <<>>
  BY DEF Store!PlaceOf
<1>2. ASSUME NEW i \in 0 .. k
      PROVE  /\ Store!PlaceOf(c, path, i) \in Seq(Keys)
             /\ Len(Store!PlaceOf(c, path, i)) = i
  BY DEF Store!PlaceOf
<1>3. ASSUME NEW i \in 0 .. k, NEW j \in 0 .. i
      PROVE  Above(Store!PlaceOf(c, path, i), j) = Store!PlaceOf(c, path, j)
  <2>1. \A x \in 1 .. j : x \in 1 .. i
    OBVIOUS
  <2> QED BY <2>1 DEF Above, Store!PlaceOf
<1>4. ASSUME NEW i \in 1 .. k
      PROVE  Store!PlaceOf(c, path, i)
             = Append(Store!PlaceOf(c, path, i - 1), Store!KeyOf(c, path, i))
  <2>1. /\ Store!PlaceOf(c, path, i) \in Seq(Keys)
        /\ Len(Store!PlaceOf(c, path, i)) = i
        /\ Store!PlaceOf(c, path, i - 1) \in Seq(Keys)
        /\ Len(Store!PlaceOf(c, path, i - 1)) = i - 1
    BY <1>2
  <2>2. \A j \in 1 .. i :
           Store!PlaceOf(c, path, i)[j]
           = Append(Store!PlaceOf(c, path, i - 1), Store!KeyOf(c, path, i))[j]
    BY <2>1 DEF Store!PlaceOf
  <2> QED BY <2>1, <2>2
<1> QED BY <1>1, <1>2, <1>3, <1>4

(* Reach is how many steps can be taken.                                   *)
LEMMA ReachCounts ==
    ASSUME NEW c, NEW path \in Seq(Tokens), NEW type
    PROVE  /\ Store!Reach(c, path, type) \in 0 .. Len(Steps(path))
           /\ \A i \in 1 .. Store!Reach(c, path, type) :
                 Store!StepLegal(c, path, type, i)
           /\ Store!Reach(c, path, type) < Len(Steps(path)) =>
                 ~Store!StepLegal(c, path, type, Store!Reach(c, path, type) + 1)
<1> DEFINE n == Len(Steps(path))
           Stop == {k \in 0 .. n : k = n \/ ~Store!StepLegal(c, path, type, k + 1)}
<1>0. n \in Nat
  BY StepsType
<1>5. Store!Reach(c, path, type)
      = CHOOSE k \in 0 .. n : /\ \A i \in 1 .. k : Store!StepLegal(c, path, type, i)
                              /\ k < n => ~Store!StepLegal(c, path, type, k + 1)
  BY SameWords DEF Store!Reach
<1> HIDE DEF n
<1>1. Stop \in SUBSET Nat /\ n \in Stop
  BY <1>0
<1>2. PICK m \in Stop : \A k \in Stop : m <= k
  BY <1>1, LeastNatural
<1>3. ASSUME NEW i \in 1 .. m PROVE Store!StepLegal(c, path, type, i)
  <2>1. m \in 0 .. n /\ i - 1 \in 0 .. n /\ i - 1 # n /\ ~(m <= i - 1) /\ (i - 1) + 1 = i
    BY <1>0
  <2> QED BY <1>2, <2>1
<1>4. /\ m \in 0 .. n
      /\ \A i \in 1 .. m : Store!StepLegal(c, path, type, i)
      /\ m < n => ~Store!StepLegal(c, path, type, m + 1)
  BY <1>0, <1>3
<1> QED BY <1>4, <1>5 DEF n

(* It is at least the number of steps that are known to be legal, and just *)
(* that where the next one is not.                                         *)
LEMMA ReachBounds ==
    ASSUME NEW c, NEW path \in Seq(Tokens), NEW type,
           NEW k \in 0 .. Len(Steps(path)),
           \A i \in 1 .. k : Store!StepLegal(c, path, type, i)
    PROVE  /\ Store!Reach(c, path, type) \in k .. Len(Steps(path))
           /\ k < Len(Steps(path)) /\ ~Store!StepLegal(c, path, type, k + 1) =>
                 Store!Reach(c, path, type) = k
<1> DEFINE n == Len(Steps(path))
           r == Store!Reach(c, path, type)
<1>1. /\ n \in Nat /\ r \in 0 .. n
      /\ \A i \in 1 .. r : Store!StepLegal(c, path, type, i)
      /\ r < n => ~Store!StepLegal(c, path, type, r + 1)
  BY ReachCounts, StepsType
<1> HIDE DEF n, r
<1>2. k \in 0 .. n
  BY DEF n
<1>3. ASSUME r < k PROVE FALSE
  <2>1. r + 1 \in 1 .. k /\ r < n
    BY <1>1, <1>2, <1>3
  <2> QED BY <1>1, <2>1
<1>4. ASSUME k < r, ~Store!StepLegal(c, path, type, k + 1) PROVE FALSE
  <2>1. k + 1 \in 1 .. r
    BY <1>1, <1>2, <1>4
  <2> QED BY <1>1, <1>4, <2>1
<1>5. r \in k .. n
  BY <1>1, <1>2, <1>3
<1>6. ~Store!StepLegal(c, path, type, k + 1) => r = k
  BY <1>1, <1>2, <1>4, <1>5
<1> QED BY <1>5, <1>6 DEF n, r

(* What the first k steps lead to.                                         *)
LEMMA BuiltIs ==
    ASSUME NEW c, NEW path, NEW type, NEW k \in Nat,
           \A i \in 1 .. k : Store!KeyOf(c, path, i) \in Keys
    PROVE  LET d == Store!Built(c, path, type, k)
           IN  /\ d = [q \in DOMAIN d |-> d[q]]
               /\ \A q : q \in DOMAIN d <=>
                            \/ q \in DOMAIN c
                            \/ \E i \in 1 .. k : q = Store!PlaceOf(c, path, i)
               /\ \A q \in DOMAIN c : d[q] = c[q]
               /\ \A i \in 1 .. k :
                     Store!PlaceOf(c, path, i) \notin DOMAIN c =>
                        d[Store!PlaceOf(c, path, i)]
                        = Store!Item(Store!TypeAt(path, type, i), NULL)
<1> DEFINE new == {Store!PlaceOf(c, path, i) : i \in 1 .. k} \ DOMAIN c
           d == Store!Built(c, path, type, k)
<1>1. d = [q \in DOMAIN c \cup new |->
             IF q \in new THEN Store!Item(Store!TypeAt(path, type, Len(q)), NULL)
                          ELSE c[q]]
  BY DEF Store!Built
<1>2. \A i \in 1 .. k : Len(Store!PlaceOf(c, path, i)) = i
  <2>1. \A i \in 1 .. k : i \in 0 .. k
    OBVIOUS
  <2> QED BY <2>1, PlacesOfSteps
<1>3. \A q \in DOMAIN c : q \notin new
  OBVIOUS
<1>4. \A i \in 1 .. k : Store!PlaceOf(c, path, i) \notin DOMAIN c =>
                            Store!PlaceOf(c, path, i) \in new
  OBVIOUS
<1>5. \A q : q \in DOMAIN c \cup new <=>
                 \/ q \in DOMAIN c
                 \/ \E i \in 1 .. k : q = Store!PlaceOf(c, path, i)
  OBVIOUS
<1> HIDE DEF new, d
<1>6. DOMAIN d = DOMAIN c \cup new
  BY <1>1
<1>7. d = [q \in DOMAIN d |-> d[q]]
  BY <1>1
<1>8. \A q \in DOMAIN c : d[q] = c[q]
  BY <1>1, <1>3
<1>9. \A i \in 1 .. k :
         Store!PlaceOf(c, path, i) \notin DOMAIN c =>
            d[Store!PlaceOf(c, path, i)]
            = Store!Item(Store!TypeAt(path, type, i), NULL)
  BY <1>1, <1>2, <1>4
<1> QED BY <1>5, <1>6, <1>7, <1>8, <1>9 DEF d

(* One step more leads to one place more, p, unless c has something there: *)
(* d is b with the item at p.                                              *)
Extended(c, p, b, d, item) ==
    /\ d = [q \in DOMAIN d |-> d[q]]
    /\ p \in DOMAIN b <=> p \in DOMAIN c
    /\ p \in DOMAIN c => d = b /\ b[p] = c[p]
    /\ \A q : q \in DOMAIN d <=> q \in DOMAIN b \/ q = p
    /\ \A q \in DOMAIN b : d[q] = b[q]
    /\ p \notin DOMAIN c => d[p] = item

(* Each step is one such extension.                                        *)
LEMMA BuiltNext ==
    ASSUME NEW c, NEW path, NEW type, NEW k \in Nat \ {0},
           \A i \in 1 .. k : Store!KeyOf(c, path, i) \in Keys
    PROVE  Extended(c, Store!PlaceOf(c, path, k),
                    Store!Built(c, path, type, k - 1),
                    Store!Built(c, path, type, k),
                    Store!Item(Store!TypeAt(path, type, k), NULL))
<1> DEFINE P(i) == Store!PlaceOf(c, path, i)
           b == Store!Built(c, path, type, k - 1)
           d == Store!Built(c, path, type, k)
<1>1. k - 1 \in Nat /\ \A i \in 1 .. k : i = k \/ i \in 1 .. k - 1
  OBVIOUS
<1>2. \A i \in 1 .. k - 1 : i \in 1 .. k /\ i # k
  OBVIOUS
<1>3. \A i \in 1 .. k : Len(P(i)) = i
  <2>1. \A i \in 1 .. k : i \in 0 .. k
    OBVIOUS
  <2> QED BY <2>1, PlacesOfSteps
<1>4. \A i \in 1 .. k - 1 : P(i) # P(k)
  BY <1>2, <1>3
<1>5. /\ b = [q \in DOMAIN b |-> b[q]]
      /\ \A q : q \in DOMAIN b <=> q \in DOMAIN c \/ \E i \in 1 .. k - 1 : q = P(i)
      /\ \A q \in DOMAIN c : b[q] = c[q]
      /\ \A i \in 1 .. k - 1 : P(i) \notin DOMAIN c =>
             b[P(i)] = Store!Item(Store!TypeAt(path, type, i), NULL)
  BY <1>1, <1>2, BuiltIs
<1>6. /\ d = [q \in DOMAIN d |-> d[q]]
      /\ \A q : q \in DOMAIN d <=> q \in DOMAIN c \/ \E i \in 1 .. k : q = P(i)
      /\ \A q \in DOMAIN c : d[q] = c[q]
      /\ \A i \in 1 .. k : P(i) \notin DOMAIN c =>
             d[P(i)] = Store!Item(Store!TypeAt(path, type, i), NULL)
  BY BuiltIs
<1> HIDE DEF P, b, d
<1>7. P(k) \in DOMAIN b <=> P(k) \in DOMAIN c
  BY <1>4, <1>5
<1>8. \A q : q \in DOMAIN d <=> q \in DOMAIN b \/ q = P(k)
  BY <1>1, <1>2, <1>5, <1>6
<1>9. \A q \in DOMAIN b : d[q] = b[q]
  BY <1>2, <1>5, <1>6
<1>10. P(k) \in DOMAIN c => d = b
  <2> SUFFICES ASSUME P(k) \in DOMAIN c PROVE d = b
    OBVIOUS
  <2>1. \A q : q \in DOMAIN d <=> q \in DOMAIN b
    BY <1>7, <1>8
  <2>2. DOMAIN d = DOMAIN b
    BY <2>1
  <2> QED BY <1>5, <1>6, <1>9, <2>2, SameFunction
<1>11. P(k) \in DOMAIN c => b[P(k)] = c[P(k)]
  BY <1>5
<1>12. P(k) \notin DOMAIN c =>
          d[P(k)] = Store!Item(Store!TypeAt(path, type, k), NULL)
  BY <1>6
<1> DEFINE p == P(k)
           item == Store!Item(Store!TypeAt(path, type, k), NULL)
<1> HIDE DEF p, item
<1>13. Extended(c, p, b, d, item)
  BY <1>6, <1>7, <1>8, <1>9, <1>10, <1>11, <1>12 DEF Extended, p, item
<1> QED BY <1>13 DEF P, p, b, d, item

-----------------------------------------------------------------------------
(* The nodes of a tree as a configuration.                                 *)

(* c holds what the nodes of h hold, at their places and nowhere else.     *)
Shows(c, h, pl) ==
    /\ c = [q \in DOMAIN c |-> c[q]]
    /\ \A q : q \in DOMAIN c <=> \E n \in Ids : Live(h, n) /\ pl[n] = q
    /\ \A n \in Ids : Live(h, n) => c[pl[n]] = Store!Item(h[n].type, h[n].val)

(* Every node is at the place its parent has it at, no two are at the same *)
(* place, and above a place there is one for every prefix.                 *)
Placing(h, pl) ==
    /\ pl \in [Ids -> Seq(Keys)]
    /\ pl[Root] = <<>>
    /\ \A n \in Ids, k \in Keys :
          h[n].kids[k] \in Ids => pl[h[n].kids[k]] = Append(pl[n], k)
    /\ \A n, m \in Ids : Live(h, n) /\ Live(h, m) /\ pl[n] = pl[m] => n = m
    /\ \A n \in Ids : Live(h, n) =>
          \A i \in 0 .. Len(pl[n]) :
             \E m \in Ids : Live(h, m) /\ pl[m] = Above(pl[n], i)

(* There is one such configuration at most.                                *)
LEMMA ShowsOne ==
    ASSUME NEW h, NEW pl, NEW c, NEW d, Shows(c, h, pl), Shows(d, h, pl)
    PROVE  c = d
<1>1. \A q : q \in DOMAIN c <=> q \in DOMAIN d
  BY DEF Shows
<1>2. DOMAIN c = DOMAIN d
  BY <1>1
<1>3. \A q \in DOMAIN c : c[q] = d[q]
  BY DEF Shows
<1> QED BY <1>2, <1>3, SameFunction DEF Shows

(* The refinement mapping is it.                                           *)
LEMMA ConfigShows ==
    ASSUME NEW h, NEW pl, Placing(h, pl)
    PROVE  Shows(ConfigOf(h, pl), h, pl)
<1> DEFINE in == {n \in Ids : Live(h, n)}
           node(q) == CHOOSE m \in in : pl[m] = q
           c == ConfigOf(h, pl)
<1>1. c = [q \in {pl[n] : n \in in} |->
             [type |-> h[node(q)].type, val |-> h[node(q)].val]]
  BY DEF ConfigOf
<1>2. \A n \in in : node(pl[n]) = n
  <2> SUFFICES ASSUME NEW n \in in PROVE node(pl[n]) = n
    OBVIOUS
  <2>1. \A m \in in : pl[m] = pl[n] => m = n
    BY DEF Placing
  <2> QED BY <2>1
<1>3. \A q : q \in {pl[n] : n \in in} <=> \E n \in Ids : Live(h, n) /\ pl[n] = q
  OBVIOUS
<1> HIDE DEF c, node
<1>4. c = [q \in DOMAIN c |-> c[q]] /\ DOMAIN c = {pl[n] : n \in in}
  BY <1>1
<1>5. \A n \in in : c[pl[n]] = Store!Item(h[n].type, h[n].val)
  BY <1>1, <1>2 DEF Store!Item
<1>6. \A n \in Ids : Live(h, n) => n \in in
  OBVIOUS
<1> HIDE DEF in
<1> QED BY <1>3, <1>4, <1>5, <1>6 DEF Shows, c, in

(* A place ends with its last key.                                         *)
LEMMA AppendInjective ==
    ASSUME NEW s \in Seq(Keys), NEW t \in Seq(Keys), NEW j \in Keys, NEW k \in Keys,
           Append(s, j) = Append(t, k)
    PROVE  s = t /\ j = k
<1>1. /\ Len(Append(s, j)) = Len(s) + 1 /\ Append(s, j)[Len(s) + 1] = j
      /\ Len(Append(t, k)) = Len(t) + 1 /\ Append(t, k)[Len(t) + 1] = k
      /\ Len(s) \in Nat /\ Len(t) \in Nat
  OBVIOUS
<1>2. Len(s) = Len(t) /\ j = k
  BY <1>1
<1>3. \A i \in 1 .. Len(s) : s[i] = Append(s, j)[i] /\ t[i] = Append(t, k)[i]
  BY <1>2
<1>4. \A i \in 1 .. Len(s) : s[i] = t[i]
  BY <1>3
<1> QED BY <1>2, <1>4

(* The place itself is the last of its prefixes.                           *)
LEMMA WholePlace == ASSUME NEW s \in Seq(Keys) PROVE Above(s, Len(s)) = s
  BY DEF Above

(* One key more adds one prefix.                                           *)
LEMMA AppendIsLonger ==
    ASSUME NEW s \in Seq(Keys), NEW k \in Keys
    PROVE  /\ Append(s, k) \in Seq(Keys) /\ Append(s, k) # <<>>
           /\ Len(s) \in Nat /\ Len(Append(s, k)) = Len(s) + 1
           /\ \A i \in 0 .. Len(s) : Above(Append(s, k), i) = Above(s, i)
           /\ Above(Append(s, k), Len(s) + 1) = Append(s, k)
<1>1. /\ Append(s, k) \in Seq(Keys) /\ Append(s, k) # <<>>
      /\ Len(s) \in Nat /\ Len(Append(s, k)) = Len(s) + 1
  OBVIOUS
<1>2. ASSUME NEW i \in 0 .. Len(s) PROVE Above(Append(s, k), i) = Above(s, i)
  <2>1. \A j \in 1 .. i : Append(s, k)[j] = s[j]
    OBVIOUS
  <2> QED BY <2>1 DEF Above
<1>3. Above(Append(s, k), Len(s) + 1) = Append(s, k)
  BY <1>1, WholePlace
<1> QED BY <1>1, <1>2, <1>3

(* Only a child of the node at a place is one key below that place.        *)
LEMMA BelowIsChild ==
    ASSUME NEW h \in Heaps, NEW pl, Placing(h, pl), NEW lv, Tree(h, Root, lv),
           NEW n \in Ids, Live(h, n), NEW k \in Keys,
           NEW m \in Ids, Live(h, m), pl[m] = Append(pl[n], k)
    PROVE  h[n].kids[k] = m
<1>1. pl[n] \in Seq(Keys) /\ pl[Root] = <<>>
  BY DEF Placing
<1>2. m # Root
  BY <1>1, AppendIsLonger
<1>3. PICK q \in Ids, j \in Keys : h[q].kids[j] = m
  BY <1>2 DEF Tree, NoLeak
<1>4. Live(h, q) /\ pl[m] = Append(pl[q], j) /\ pl[q] \in Seq(Keys)
  BY <1>3 DEF Tree, NoDangling, Placing
<1>5. pl[q] = pl[n] /\ j = k
  <2>1. /\ pl[q] \in Seq(Keys) /\ pl[n] \in Seq(Keys)
        /\ Append(pl[q], j) = Append(pl[n], k)
    BY <1>1, <1>4
  <2> DEFINE s == pl[q]
             t == pl[n]
  <2>2. s \in Seq(Keys) /\ t \in Seq(Keys) /\ Append(s, j) = Append(t, k)
    BY <2>1
  <2> HIDE DEF s, t
  <2>3. s = t /\ j = k
    BY <2>2, AppendInjective
  <2> QED BY <2>3 DEF s, t
<1>6. q = n
  BY <1>4, <1>5 DEF Placing
<1> QED BY <1>3, <1>5, <1>6

(* No node moves while only values change.                                 *)
LEMMA PlacingKept ==
    ASSUME NEW h \in Heaps, NEW h2 \in Heaps, NEW pl, Placing(h, pl), Kept(h, h2)
    PROVE  Placing(h2, pl) /\ \A n \in Ids : Live(h2, n) <=> Live(h, n)
<1>1. \A n \in Ids : Live(h2, n) <=> Live(h, n)
  BY DEF Kept, Live
<1>2. \A n \in Ids, k \in Keys :
          h2[n].kids[k] \in Ids => h[n].kids[k] = h2[n].kids[k]
  BY DEF Kept
<1> QED BY <1>1, <1>2 DEF Placing

PutBelow(pl, pl2, p, k, n) == pl2 = [pl EXCEPT ![n] = Append(pl[p], k)]

(* A new node is at the place of its parent, one key further down.         *)
LEMMA PlacingLinked ==
    ASSUME NEW h \in Heaps, NEW h2 \in Heaps, NEW pl, Placing(h, pl),
           NEW lv, Tree(h, Root, lv), Root \in Ids,
           NEW p, NEW k, NEW n, Linked(h, h2, p, k, n),
           NEW pl2, PutBelow(pl, pl2, p, k, n)
    PROVE  /\ Placing(h2, pl2)
           /\ \A m \in Ids : Live(h2, m) <=> Live(h, m) \/ m = n
           /\ \A m \in Ids : Live(h, m) => pl[m] # Append(pl[p], k)
<1> DEFINE place2 == Append(pl[p], k)
<1>1. /\ p \in Ids /\ n \in Ids /\ k \in Keys /\ p # n
      /\ Live(h, p) /\ ~Live(h, n) /\ h[p].kids[k] \notin Ids
      /\ h2[p].kids[k] = n
  BY DEF Linked
<1>2. \A m \in Ids : Live(h2, m) <=> Live(h, m) \/ m = n
  BY DEF Linked, Live
<1>3. pl \in [Ids -> Seq(Keys)] /\ pl[p] \in Seq(Keys) /\ pl[Root] = <<>>
  BY <1>1 DEF Placing
<1>4. ASSUME NEW m \in Ids, Live(h, m) PROVE pl[m] # place2
  BY <1>1, <1>4, BelowIsChild
<1>5. /\ place2 \in Seq(Keys) /\ place2 # <<>> /\ Len(place2) = Len(pl[p]) + 1
      /\ Len(pl[p]) \in Nat
      /\ \A i \in 0 .. Len(pl[p]) : Above(place2, i) = Above(pl[p], i)
      /\ Above(place2, Len(pl[p]) + 1) = place2
  BY <1>1, <1>3, AppendIsLonger
<1>12. pl2 = [pl EXCEPT ![n] = place2]
  BY DEF PutBelow
<1> HIDE DEF place2
<1>6. pl2 \in [Ids -> Seq(Keys)] /\ pl2[n] = place2 /\ \A m \in Ids \ {n} : pl2[m] = pl[m]
  BY <1>1, <1>3, <1>5, <1>12
<1>7. Live(h, Root)
  BY DEF Tree
<1>8. pl2[Root] = <<>>
  BY <1>1, <1>3, <1>6, <1>7
<1>9. ASSUME NEW q \in Ids, NEW j \in Keys, h2[q].kids[j] \in Ids
      PROVE  pl2[h2[q].kids[j]] = Append(pl2[q], j)
  <2>1. CASE q = p /\ j = k
    BY <1>1, <1>6, <2>1 DEF place2
  <2>2. CASE ~(q = p /\ j = k)
    <3>1. h[q].kids[j] = h2[q].kids[j] /\ q # n
      BY <1>9, <2>2 DEF Linked
    <3>2. Live(h, q) /\ Live(h, h[q].kids[j])
      BY <1>9, <3>1 DEF Tree, NoDangling
    <3>3. pl[h[q].kids[j]] = Append(pl[q], j)
      BY <1>9, <3>1 DEF Placing
    <3> QED BY <1>1, <1>6, <1>9, <3>1, <3>2, <3>3
  <2> QED BY <2>1, <2>2
<1>10. ASSUME NEW q \in Ids, NEW m \in Ids, Live(h2, q), Live(h2, m), pl2[q] = pl2[m]
       PROVE  q = m
  <2>1. \A x, y \in Ids : Live(h, x) /\ Live(h, y) /\ pl[x] = pl[y] => x = y
    BY DEF Placing
  <2>2. \A x \in Ids \ {n} : Live(h2, x) => Live(h, x) /\ pl2[x] = pl[x] /\ pl2[x] # place2
    BY <1>2, <1>4, <1>6 DEF place2
  <2> QED BY <1>1, <1>6, <1>10, <2>1, <2>2
<1>11. ASSUME NEW q \in Ids, Live(h2, q), NEW i \in 0 .. Len(pl2[q])
       PROVE  \E m \in Ids : Live(h2, m) /\ pl2[m] = Above(pl2[q], i)
  <2>0. \A r \in Ids : Live(h, r) =>
           \A j \in 0 .. Len(pl[r]) : \E m \in Ids : Live(h, m) /\ pl[m] = Above(pl[r], j)
    BY DEF Placing
  <2>1. CASE q # n
    <3>1. Live(h, q) /\ pl2[q] = pl[q]
      BY <1>2, <1>6, <1>11, <2>1
    <3>2. PICK m \in Ids : Live(h, m) /\ pl[m] = Above(pl[q], i)
      BY <1>11, <2>0, <3>1
    <3> QED BY <1>1, <1>2, <1>6, <3>1, <3>2
  <2>2. CASE q = n /\ i \in 0 .. Len(pl[p])
    <3>1. PICK m \in Ids : Live(h, m) /\ pl[m] = Above(pl[p], i)
      BY <1>1, <2>0, <2>2
    <3>2. pl2[m] = Above(pl2[q], i)
      BY <1>1, <1>5, <1>6, <2>2, <3>1
    <3> QED BY <1>2, <3>1, <3>2
  <2>3. CASE q = n /\ i = Len(pl[p]) + 1
    BY <1>5, <1>6, <1>11, <2>3
  <2>4. q = n => i \in 0 .. Len(pl[p]) \/ i = Len(pl[p]) + 1
    BY <1>5, <1>6
  <2> QED BY <2>1, <2>2, <2>3, <2>4
<1> QED BY <1>2, <1>4, <1>6, <1>8, <1>9, <1>10, <1>11 DEF Placing, place2

-----------------------------------------------------------------------------
(* The invariant.                                                          *)

(* How many steps of its path the loop has taken.                          *)
StepsTaken == IF depth <= 2 THEN 0 ELSE depth - 2

(* Above every place there is one, up to the root's.                       *)
Closed(c) ==
    /\ <<>> \in DOMAIN c
    /\ \A q \in DOMAIN c : \A i \in 0 .. Len(q) : Above(q, i) \in DOMAIN c

(* Inside the loop the tree is the configuration the call began with and   *)
(* what the steps taken so far lead to.                                    *)
Along ==
    pc = "walk" =>
        /\ call \in [path : Paths, type : SetTypes, val : Values]
        /\ \A i \in 1 .. StepsTaken :
              Store!StepLegal(before, call.path, call.type, i)
        /\ Shows(Store!Built(before, call.path, call.type, StepsTaken), heap, place)
        /\ place[parent] = Store!PlaceOf(before, call.path, StepsTaken)
        /\ before = [q \in DOMAIN before |-> before[q]]
        /\ Closed(before)
        /\ before[<<>>].type = heap[Root].type

(* Between calls it is the configuration.                                  *)
Settled == pc \in {"idle", "done"} => Shows(before, heap, place)

SInv ==
    /\ IInv /\ WInv
    /\ Placing(heap, place)
    /\ heap[Root].type \in Containers
    /\ Along
    /\ Settled

(* What a tree shows has the root and everything above what it has.        *)
LEMMA ShowsClosed ==
    ASSUME NEW h, NEW pl, NEW c, Placing(h, pl), Shows(c, h, pl),
           Root \in Ids, Live(h, Root)
    PROVE  Closed(c) /\ c[<<>>].type = h[Root].type
<1>1. <<>> \in DOMAIN c /\ c[<<>>] = Store!Item(h[Root].type, h[Root].val)
  BY DEF Placing, Shows
<1>2. ASSUME NEW q \in DOMAIN c, NEW i \in 0 .. Len(q)
      PROVE  Above(q, i) \in DOMAIN c
  <2>1. PICK n \in Ids : Live(h, n) /\ pl[n] = q
    BY DEF Shows
  <2>2. \E m \in Ids : Live(h, m) /\ pl[m] = Above(q, i)
    BY <2>1 DEF Placing
  <2> QED BY <2>2 DEF Shows
<1> QED BY <1>1, <1>2 DEF Closed, Store!Item

-----------------------------------------------------------------------------
(* A turn of the loop and a step of the store.                             *)

InStep == pc = "walk" /\ (depth > 1 \/ call.path = <<>>)

StepKey == Slot(heap, StepName, parent, 0)

StepPlace == Store!PlaceOf(before, call.path, StepIndex)

StepType == Store!TypeAt(call.path, call.type, StepIndex)

(* Where the loop stands when it works on a step.                          *)
LEMMA StepStands ==
    ASSUME SInv, InStep
    PROVE  /\ call.path \in Seq(Tokens)
           /\ StepIndex \in 1 .. Len(Steps(call.path))
           /\ StepIndex - 1 = StepsTaken /\ StepsTaken \in Nat
           /\ Steps(call.path)[StepIndex] = StepName
           /\ StepName \in Tokens \cup {NULL}
           /\ heap[parent].type \in Containers
           /\ StepIndex = 1 => parent = Root
           /\ StepIndex # 1 => heap[parent].type = TypeFor(StepName)
<1>1. /\ call.path \in Seq(Tokens) /\ depth \in 1 .. Len(call.path) + 1
      /\ Len(call.path) \in Nat /\ Trail(heap, call.path)[0] = Root
  BY WalkFacts DEF SInv, InStep
<1>2. /\ StepIndex \in 1 .. Len(Steps(call.path))
      /\ parent = Trail(heap, call.path)[StepIndex - 1]
      /\ Steps(call.path)[StepIndex] = StepName
      /\ StepName \in Tokens \cup {NULL}
  BY StepToken DEF SInv, InStep
<1>3. StepIndex - 1 = StepsTaken /\ StepsTaken \in Nat
  <2>1. call.path = <<>> => depth = 1
    BY <1>1
  <2> QED BY <1>1, <2>1 DEF StepIndex, StepsTaken, InStep
<1>4. StepIndex = 1 => parent = Root
  BY <1>1, <1>2
<1>5. StepIndex # 1 => heap[parent].type = TypeFor(StepName)
  <2>1. SUFFICES ASSUME StepIndex # 1 PROVE heap[parent].type = TypeFor(StepName)
    OBVIOUS
  <2>2. call.path # <<>> /\ depth > 2
    BY <1>1, <2>1 DEF StepIndex, InStep
  <2> QED BY <2>2, ParentFits DEF SInv, InStep, StepName
<1>6. heap[parent].type \in Containers
  BY <1>4, <1>5 DEF SInv, TypeFor, Containers
<1> QED BY <1>1, <1>2, <1>3, <1>4, <1>5, <1>6

(* The key the store gives the step is the one the parent has it under.    *)
LEMMA StepKeyIs ==
    ASSUME SInv, InStep
    PROVE  StepKey = Store!KeyOf(before, call.path, StepIndex)
<1>1. Store!KeyOf(before, call.path, StepIndex)
      = IF StepIndex = 1 /\ before[<<>>].type = "dict" THEN StepName
        ELSE IF StepIndex = 1 \/ StepName \in Brackets THEN Element(StepName, 0)
        ELSE StepName
  BY StepStands, SameWords DEF Store!KeyOf
<1>2. before[<<>>].type = heap[Root].type
  BY DEF SInv, Along, InStep
<1>3. /\ heap[parent].type \in Containers
      /\ StepIndex = 1 => parent = Root
      /\ StepIndex # 1 => heap[parent].type = TypeFor(StepName)
  BY StepStands
<1> QED BY <1>1, <1>2, <1>3 DEF StepKey, Slot, TypeFor, Containers

(* The steps before it are legal, so all have keys.                        *)
LEMMA StepsBefore ==
    ASSUME SInv, InStep, StepKey \in Keys
    PROVE  /\ \A i \in 1 .. StepIndex : Store!KeyOf(before, call.path, i) \in Keys
           /\ StepPlace = Append(place[parent], StepKey)
           /\ StepIndex \in Nat \ {0}
<1>1. StepIndex \in Nat \ {0} /\ StepIndex - 1 = StepsTaken
  BY StepStands
<1>2. \A i \in 1 .. StepsTaken : Store!KeyOf(before, call.path, i) \in Keys
  BY SameWords DEF SInv, Along, InStep, Store!StepLegal
<1>3. ASSUME NEW i \in 1 .. StepIndex
      PROVE  Store!KeyOf(before, call.path, i) \in Keys
  <2>1. i = StepIndex \/ i \in 1 .. StepsTaken
    BY <1>1
  <2> QED BY <1>2, <2>1, StepKeyIs
<1>4. StepPlace = Append(Store!PlaceOf(before, call.path, StepIndex - 1),
                         Store!KeyOf(before, call.path, StepIndex))
  <2> DEFINE k == StepIndex
  <2>1. k \in Nat /\ k \in 1 .. k
    BY <1>1
  <2> HIDE DEF k
  <2>2. \A i \in 1 .. k : Store!KeyOf(before, call.path, i) \in Keys
    BY <1>3 DEF k
  <2>3. Store!PlaceOf(before, call.path, k)
        = Append(Store!PlaceOf(before, call.path, k - 1),
                 Store!KeyOf(before, call.path, k))
    BY <2>1, <2>2, PlacesOfSteps
  <2> QED BY <2>3 DEF k, StepPlace
<1>5. place[parent] = Store!PlaceOf(before, call.path, StepIndex - 1)
  BY <1>1 DEF SInv, Along, InStep
<1> QED BY <1>1, <1>3, <1>4, <1>5, StepKeyIs

(* The configuration the step leads to has its place.                      *)
LEMMA StepExtends ==
    ASSUME SInv, InStep, StepKey \in Keys
    PROVE  Extended(before, StepPlace,
                    Store!Built(before, call.path, call.type, StepIndex - 1),
                    Store!Built(before, call.path, call.type, StepIndex),
                    Store!Item(StepType, NULL))
<1> DEFINE k == StepIndex
<1>1. k \in Nat \ {0} /\ \A i \in 1 .. k : Store!KeyOf(before, call.path, i) \in Keys
  BY StepsBefore
<1> HIDE DEF k
<1>2. Extended(before, Store!PlaceOf(before, call.path, k),
               Store!Built(before, call.path, call.type, k - 1),
               Store!Built(before, call.path, call.type, k),
               Store!Item(Store!TypeAt(call.path, call.type, k), NULL))
  BY <1>1, BuiltNext
<1> QED BY <1>2 DEF k, StepPlace, StepType

(* What is at the place of the step is the child under its key.            *)
LEMMA StepChild ==
    ASSUME SInv, InStep, StepKey \in Keys
    PROVE  LET child == heap[parent].kids[StepKey]
           IN  /\ StepPlace \in DOMAIN before <=> child \in Ids
               /\ child \in Ids =>
                     /\ Live(heap, child) /\ place[child] = StepPlace
                     /\ before[StepPlace].type = heap[child].type
<1> DEFINE child == heap[parent].kids[StepKey]
           b == Store!Built(before, call.path, call.type, StepIndex - 1)
<1>1. /\ heap \in Heaps /\ parent \in Ids /\ Live(heap, parent)
      /\ Tree(heap, Root, level) /\ Placing(heap, place)
  BY WalkFacts DEF SInv, InStep, IInv, Forest
<1>2. Shows(b, heap, place)
  BY StepStands DEF SInv, Along, InStep
<1>3. StepPlace = Append(place[parent], StepKey)
  BY StepsBefore
<1>4. /\ StepPlace \in DOMAIN b <=> StepPlace \in DOMAIN before
      /\ StepPlace \in DOMAIN before => b[StepPlace] = before[StepPlace]
  BY StepExtends DEF Extended
<1> HIDE DEF b
<1>5. ASSUME child \in Ids
      PROVE  /\ Live(heap, child) /\ place[child] = StepPlace
             /\ StepPlace \in DOMAIN before
             /\ before[StepPlace].type = heap[child].type
  <2>1. Live(heap, child) /\ place[child] = StepPlace
    BY <1>1, <1>3, <1>5 DEF Tree, NoDangling, Placing
  <2> HIDE DEF child
  <2>2. /\ StepPlace \in DOMAIN b
        /\ b[StepPlace] = Store!Item(heap[child].type, heap[child].val)
    BY <1>2, <1>5, <2>1 DEF Shows
  <2> QED BY <1>4, <2>1, <2>2 DEF Store!Item
<1>6. ASSUME StepPlace \in DOMAIN before
      PROVE  child \in Ids
  <2>1. PICK m \in Ids : Live(heap, m) /\ place[m] = StepPlace
    BY <1>2, <1>4, <1>6 DEF Shows
  <2>2. child = m
    BY <1>1, <1>3, <2>1, BelowIsChild
  <2> QED BY <2>2
<1> QED BY <1>5, <1>6

(* sconf_node_create_and_insert can take just the steps the store says are *)
(* legal, whatever the nodes hold that the configuration does not show.    *)
LEMMA FitsIsLegal ==
    ASSUME SInv, InStep
    PROVE  Fits(heap, StepName, StepType, parent, 0)
           <=> Store!StepLegal(before, call.path, call.type, StepIndex)
<1> DEFINE child == heap[parent].kids[StepKey]
<1>1. /\ StepName \in Tokens \cup {NULL} /\ heap[parent].type \in Containers
      /\ Steps(call.path)[StepIndex] = StepName
  BY StepStands
<1>2. StepKey \in Keys =>
          (StepPlace \in DOMAIN before => before[StepPlace].type = StepType)
          <=> (child \in Ids => heap[child].type = StepType)
  BY StepChild
<1>3. Store!StepLegal(before, call.path, call.type, StepIndex)
      <=> /\ StepKey \in Keys
          /\ StepKey # StepName /\ StepName \in Brackets => IndexOf[StepName] >= 0
          /\ StepType \in NodeTypes
          /\ StepPlace \in DOMAIN before => before[StepPlace].type = StepType
  <2>1. Store!Steps(call.path)[StepIndex] = StepName
    BY <1>1, SameWords
  <2> QED BY <2>1, StepKeyIs, SameWords DEF Store!StepLegal, StepType, StepPlace
<1>4. Fits(heap, StepName, StepType, parent, 0)
      <=> /\ Usable(heap, StepName, parent) /\ StepKey \in Keys
          /\ StepType \in NodeTypes
          /\ child \in Ids => heap[child].type = StepType
  BY DEF Fits, StepKey
<1>5. StepKey \in Keys =>
          (Usable(heap, StepName, parent)
           <=> (StepKey # StepName /\ StepName \in Brackets => IndexOf[StepName] >= 0))
  <2>1. SUFFICES ASSUME StepKey \in Keys
                 PROVE  Usable(heap, StepName, parent)
                        <=> (StepKey # StepName /\ StepName \in Brackets =>
                                IndexOf[StepName] >= 0)
    OBVIOUS
  <2>2. CASE heap[parent].type = "dict"
    <3>1. StepKey = StepName /\ StepName # NULL
      BY <2>1, <2>2, TokensAssumption DEF StepKey, Slot, Keys, Tokens, Indexes
    <3> QED BY <1>1, <2>2, <3>1 DEF Usable
  <2>3. CASE heap[parent].type = "array"
    <3>1. StepName \in Brackets =>
             IndexOf[StepName] \in Int /\ StepKey \in Int /\ StepName \notin Int
      BY <2>3, IndexAssumption, TokensAssumption DEF StepKey, Slot, Element, Tokens
    <3>2. StepName \in Brackets => StepKey # StepName
      BY <3>1
    <3> QED BY <1>1, <2>3, <3>1, <3>2 DEF Usable
  <2> QED BY <1>1, <2>2, <2>3 DEF Containers
<1> QED BY <1>2, <1>3, <1>4, <1>5

-----------------------------------------------------------------------------
(* What a step leaves.                                                     *)

(* One node is new or has another value: the tree shows that and nothing   *)
(* else.                                                                   *)
LEMMA ShowsAfter ==
    ASSUME NEW h, NEW h2, NEW pl, NEW pl2, NEW b, NEW d, NEW n \in Ids,
           Shows(b, h, pl),
           \A m \in Ids : Live(h2, m) <=> Live(h, m) \/ m = n,
           \A m \in Ids \ {n} : Live(h, m) =>
              /\ h2[m].type = h[m].type /\ h2[m].val = h[m].val
              /\ pl2[m] = pl[m] /\ pl[m] # pl2[n],
           Live(h, n) => pl2[n] = pl[n],
           d = [q \in DOMAIN d |-> d[q]],
           \A q : q \in DOMAIN d <=> q \in DOMAIN b \/ q = pl2[n],
           \A q \in DOMAIN b : q # pl2[n] => d[q] = b[q],
           d[pl2[n]] = Store!Item(h2[n].type, h2[n].val)
    PROVE  Shows(d, h2, pl2)
<1>1. ASSUME NEW q
      PROVE  q \in DOMAIN d <=> \E m \in Ids : Live(h2, m) /\ pl2[m] = q
  <2>1. q \in DOMAIN b <=> \E m \in Ids : Live(h, m) /\ pl[m] = q
    BY DEF Shows
  <2>2. ASSUME q \in DOMAIN b PROVE \E m \in Ids : Live(h2, m) /\ pl2[m] = q
    <3>1. PICK m \in Ids : Live(h, m) /\ pl[m] = q
      BY <2>1, <2>2
    <3> QED BY <3>1
  <2>3. Live(h2, n)
    OBVIOUS
  <2>4. ASSUME NEW m \in Ids, Live(h2, m), pl2[m] = q
        PROVE  q \in DOMAIN b \/ q = pl2[n]
    BY <2>1, <2>4
  <2> QED BY <2>2, <2>3, <2>4
<1>2. ASSUME NEW m \in Ids, Live(h2, m)
      PROVE  d[pl2[m]] = Store!Item(h2[m].type, h2[m].val)
  <2>1. CASE m = n
    BY <2>1
  <2>2. CASE m # n
    <3>1. /\ Live(h, m) /\ pl2[m] = pl[m] /\ pl[m] # pl2[n]
          /\ h2[m].type = h[m].type /\ h2[m].val = h[m].val
      BY <1>2, <2>2
    <3>2. pl[m] \in DOMAIN b /\ b[pl[m]] = Store!Item(h[m].type, h[m].val)
      BY <3>1 DEF Shows
    <3> QED BY <3>1, <3>2
  <2> QED BY <2>1, <2>2
<1> QED BY <1>1, <1>2 DEF Shows

(* The configuration that a successful step leads to.                      *)
Reached(data) ==
    LET d == Store!Built(before, call.path, call.type, StepIndex)
    IN  IF StepType \in Scalars
        THEN [d EXCEPT ![StepPlace] = Store!Item(StepType, data)] ELSE d

(* d is b with the item at p, or with what is there if there is no item.   *)
LEMMA ReachedIs ==
    ASSUME SInv, InStep, StepKey \in Keys, NEW data
    PROVE  LET b == Store!Built(before, call.path, call.type, StepIndex - 1)
               r == Reached(data)
           IN  /\ r = [q \in DOMAIN r |-> r[q]]
               /\ StepPlace \in DOMAIN b <=> StepPlace \in DOMAIN before
               /\ \A q : q \in DOMAIN r <=> q \in DOMAIN b \/ q = StepPlace
               /\ \A q \in DOMAIN b : q # StepPlace => r[q] = b[q]
               /\ r[StepPlace]
                  = IF StepType \in Scalars THEN Store!Item(StepType, data)
                    ELSE IF StepPlace \in DOMAIN before THEN b[StepPlace]
                    ELSE Store!Item(StepType, NULL)
<1> DEFINE b == Store!Built(before, call.path, call.type, StepIndex - 1)
           d == Store!Built(before, call.path, call.type, StepIndex)
           p == StepPlace
           r == Reached(data)
<1>1. Extended(before, p, b, d, Store!Item(StepType, NULL))
  BY StepExtends
<1>2. r = IF StepType \in Scalars
          THEN [d EXCEPT ![p] = Store!Item(StepType, data)] ELSE d
  BY DEF Reached
<1> HIDE DEF b, d, p, r
<1>3. /\ d = [q \in DOMAIN d |-> d[q]] /\ p \in DOMAIN d
      /\ \A q : q \in DOMAIN d <=> q \in DOMAIN b \/ q = p
      /\ \A q \in DOMAIN b : d[q] = b[q]
      /\ p \in DOMAIN b <=> p \in DOMAIN before
      /\ p \notin DOMAIN before => d[p] = Store!Item(StepType, NULL)
  BY <1>1 DEF Extended
<1>4. CASE StepType \in Scalars
  <2>1. /\ DOMAIN r = DOMAIN d /\ r = [q \in DOMAIN r |-> r[q]]
        /\ r[p] = Store!Item(StepType, data)
        /\ \A q \in DOMAIN d : q # p => r[q] = d[q]
    BY <1>2, <1>3, <1>4
  <2> QED BY <1>3, <1>4, <2>1 DEF b, p, r
<1>5. CASE StepType \notin Scalars
  <2>1. r = d
    BY <1>2, <1>5
  <2> QED BY <1>3, <1>5, <2>1 DEF b, p, r
<1> QED BY <1>4, <1>5

(* The place a step gives the node it attaches.                            *)
LEMMA PlacedKept ==
    ASSUME Placing(heap, place), \A m \in Ids : Live(heap', m) <=> Live(heap, m)
    PROVE  Placed = place
<1>1. place = [m \in Ids |-> place[m]]
  BY DEF Placing
<1> QED BY <1>1 DEF Placed

(* A new node is put below its parent, the others stay where they are.     *)
LEMMA PlacedLinked ==
    ASSUME Placing(heap, place), NoDangling(heap, Root),
           NEW k, NEW n, Linked(heap, heap', parent, k, n)
    PROVE  Placed = [place EXCEPT ![n] = Append(place[parent], k)]
<1>1. /\ n \in Ids /\ k \in Keys /\ heap'[parent].kids[k] = n /\ parent \in Ids
      /\ ~Live(heap, n) /\ Live(heap', n)
      /\ \A m \in Ids \ {n} : Live(heap', m) => Live(heap, m)
  BY DEF Linked, Live
<1>2. ASSUME NEW j \in Keys, heap'[parent].kids[j] = n PROVE j = k
  <2>1. j # k => heap[parent].kids[j] = n
    BY <1>1, <1>2 DEF Linked
  <2> QED BY <1>1, <2>1 DEF NoDangling
<1>3. (CHOOSE j \in Keys : heap'[parent].kids[j] = n) = k
  BY <1>1, <1>2
<1>4. place = [m \in Ids |-> place[m]]
  BY DEF Placing
<1>5. ASSUME NEW m \in Ids
      PROVE  (IF Live(heap, m) \/ ~Live(heap', m) THEN place[m]
              ELSE Append(place[parent], CHOOSE j \in Keys : heap'[parent].kids[j] = m))
             = [place EXCEPT ![n] = Append(place[parent], k)][m]
  <2>1. CASE m = n
    BY <1>1, <1>3, <1>4, <2>1
  <2>2. CASE m # n
    BY <1>1, <1>4, <2>2
  <2> QED BY <2>1, <2>2
<1>6. [place EXCEPT ![n] = Append(place[parent], k)]
      = [m \in Ids |-> [place EXCEPT ![n] = Append(place[parent], k)][m]]
  BY <1>4
<1> QED BY <1>5, <1>6 DEF Placed

(* A step of the loop that succeeds is a legal step of the path, and the   *)
(* tree shows what it leads to.                                            *)
LEMMA StepDone ==
    ASSUME SInv, InStep, NEW data \in Values \cup {NULL}, NEW made,
           Outcome(heap, level, StepName, StepType, parent, 0, data, made),
           made.status = "ok", heap' = made.heap, heap' \in Heaps, place' = Placed
    PROVE  /\ Placing(heap', place')
           /\ Store!StepLegal(before, call.path, call.type, StepIndex)
           /\ made.node \in Ids /\ place'[made.node] = StepPlace
           /\ Shows(Reached(data), heap', place')
<1> DEFINE n == made.node
           b == Store!Built(before, call.path, call.type, StepIndex - 1)
           r == Reached(data)
<1>1. /\ heap \in Heaps /\ parent \in Ids /\ Live(heap, parent) /\ Root \in Ids
      /\ Tree(heap, Root, level) /\ Placing(heap, place)
      /\ NoDangling(heap, Root)
  BY WalkFacts DEF SInv, InStep, IInv, Forest
<1>2. /\ CallOutcome(heap, StepName, StepType, parent, 0, data, made)
      /\ Fits(heap, StepName, StepType, parent, 0)
  BY <1>1, MadeFits DEF Outcome
<1>3. Store!StepLegal(before, call.path, call.type, StepIndex)
  BY <1>2, FitsIsLegal
<1>4. StepKey \in Keys
  BY <1>2 DEF Fits, StepKey
<1>5. /\ StepPlace = Append(place[parent], StepKey)
      /\ Shows(b, heap, place)
  BY <1>4, StepsBefore, StepStands DEF SInv, Along, InStep
<1>6. /\ r = [q \in DOMAIN r |-> r[q]]
      /\ StepPlace \in DOMAIN b <=> StepPlace \in DOMAIN before
      /\ \A q : q \in DOMAIN r <=> q \in DOMAIN b \/ q = StepPlace
      /\ \A q \in DOMAIN b : q # StepPlace => r[q] = b[q]
      /\ r[StepPlace]
         = IF StepType \in Scalars THEN Store!Item(StepType, data)
           ELSE IF StepPlace \in DOMAIN before THEN b[StepPlace]
           ELSE Store!Item(StepType, NULL)
  BY <1>4, ReachedIs
<1> HIDE DEF b, r
<1>7. CASE /\ Overwrite(heap, heap', n, StepType, data) /\ Live(heap, n)
           /\ heap[parent].kids[StepKey] = n
  <2>1. Kept(heap, heap') /\ n \in Ids
    BY <1>7 DEF Overwrite
  <2>2. /\ Placing(heap', place) /\ \A m \in Ids : Live(heap', m) <=> Live(heap, m)
    BY <1>1, <2>1, PlacingKept
  <2>3. place' = place
    BY <1>1, <2>2, PlacedKept
  <2>4. place[n] = StepPlace /\ StepPlace \in DOMAIN before
    BY <1>4, <1>7, <2>1, StepChild
  <2>5. b[StepPlace] = Store!Item(heap[n].type, heap[n].val)
    BY <1>5, <1>7, <2>1, <2>4 DEF Shows
  <2>6. /\ heap'[n].type = StepType /\ heap[n].type = StepType
        /\ heap'[n].val = IF StepType \in Scalars THEN data ELSE heap[n].val
        /\ \A m \in Ids \ {n} : heap'[m] = heap[m]
    BY <1>7, <2>1 DEF Overwrite, Kept
  <2>7. r[StepPlace] = Store!Item(heap'[n].type, heap'[n].val)
    BY <1>6, <2>4, <2>5, <2>6
  <2>8. \A m \in Ids \ {n} : Live(heap, m) => place[m] # StepPlace
    BY <1>1, <1>7, <2>1, <2>4 DEF Placing
  <2>9. Shows(r, heap', place')
    <3> DEFINE h2 == heap'
               pl2 == place'
    <3>1. /\ n \in Ids /\ pl2[n] = StepPlace /\ pl2[n] = place[n]
          /\ \A m \in Ids : Live(h2, m) <=> Live(heap, m) \/ m = n
          /\ \A m \in Ids \ {n} : Live(heap, m) =>
                /\ h2[m].type = heap[m].type /\ h2[m].val = heap[m].val
                /\ pl2[m] = place[m] /\ place[m] # StepPlace
      BY <1>7, <2>1, <2>2, <2>3, <2>4, <2>6, <2>8
    <3>2. r[StepPlace] = Store!Item(h2[n].type, h2[n].val)
      BY <2>7
    <3> HIDE DEF h2, pl2, n
    <3>3. Shows(r, h2, pl2)
      BY <1>5, <1>6, <3>1, <3>2, ShowsAfter
    <3> QED BY <3>3 DEF h2, pl2
  <2> QED BY <1>3, <2>1, <2>2, <2>3, <2>4, <2>9 DEF r
<1>8. CASE Addition(heap, heap', parent, StepKey, n, StepType, data)
  <2>1. /\ Linked(heap, heap', parent, StepKey, n)
        /\ heap'[n].type = StepType
        /\ heap'[n].val = IF StepType \in Scalars THEN data ELSE NULL
    BY <1>8 DEF Addition
  <2>2. place' = [place EXCEPT ![n] = Append(place[parent], StepKey)]
    BY <1>1, <2>1, PlacedLinked
  <2>3. /\ Placing(heap', place')
        /\ \A m \in Ids : Live(heap', m) <=> Live(heap, m) \/ m = n
        /\ \A m \in Ids : Live(heap, m) => place[m] # StepPlace
    <3> DEFINE h2  == heap'
               pl2 == place'
               k   == StepKey
    <3>1. /\ Linked(heap, h2, parent, k, n) /\ h2 \in Heaps
          /\ PutBelow(place, pl2, parent, k, n)
      BY <2>1, <2>2 DEF PutBelow
    <3> HIDE DEF h2, pl2, k, n
    <3>2. /\ Placing(h2, pl2)
          /\ \A m \in Ids : Live(h2, m) <=> Live(heap, m) \/ m = n
          /\ \A m \in Ids : Live(heap, m) => place[m] # Append(place[parent], k)
      BY <1>1, <3>1, PlacingLinked
    <3> QED BY <1>5, <3>2 DEF h2, pl2, k
  <2>4. /\ n \in Ids /\ ~Live(heap, n)
        /\ \A m \in Ids \ {n} : Live(heap, m) =>
              heap'[m].type = heap[m].type /\ heap'[m].val = heap[m].val
        /\ heap[parent].kids[StepKey] \notin Ids
    BY <2>1 DEF Linked
  <2>5. /\ place'[n] = StepPlace
        /\ \A m \in Ids \ {n} : place'[m] = place[m]
    BY <1>1, <1>5, <2>2, <2>4 DEF Placing
  <2>6. StepPlace \notin DOMAIN before
    BY <1>4, <2>4, StepChild
  <2>7. r[StepPlace] = Store!Item(heap'[n].type, heap'[n].val)
    BY <1>6, <2>1, <2>6
  <2>8. Shows(r, heap', place')
    <3> DEFINE h2 == heap'
               pl2 == place'
    <3>1. /\ n \in Ids /\ pl2[n] = StepPlace
          /\ Live(heap, n) => pl2[n] = place[n]
          /\ \A m \in Ids : Live(h2, m) <=> Live(heap, m) \/ m = n
          /\ \A m \in Ids \ {n} : Live(heap, m) =>
                /\ h2[m].type = heap[m].type /\ h2[m].val = heap[m].val
                /\ pl2[m] = place[m] /\ place[m] # pl2[n]
      BY <2>3, <2>4, <2>5
    <3>2. /\ r[pl2[n]] = Store!Item(h2[n].type, h2[n].val)
          /\ \A q : q \in DOMAIN r <=> q \in DOMAIN b \/ q = pl2[n]
          /\ \A q \in DOMAIN b : q # pl2[n] => r[q] = b[q]
      BY <1>6, <2>7, <3>1
    <3>4. Shows(b, heap, place) /\ r = [q \in DOMAIN r |-> r[q]]
      BY <1>5, <1>6
    <3> HIDE DEF h2, pl2, n
    <3>3. Shows(r, h2, pl2)
      BY <3>1, <3>2, <3>4, ShowsAfter
    <3> QED BY <3>3 DEF h2, pl2
  <2> QED BY <1>3, <2>3, <2>4, <2>5, <2>8 DEF r
<1> QED BY <1>2, <1>7, <1>8 DEF CallOutcome, StepKey

(* The step was a legal one to a string, which is lost.                    *)
StringLost(b) ==
    /\ StepType = "str" /\ StepPlace \in DOMAIN before
    /\ Store!StepLegal(before, call.path, call.type, StepIndex)
    /\ Shows([b EXCEPT ![StepPlace] = Store!Item("str", NULL)], heap', place')

(* A step that fails leaves what the steps before it led to, but for the   *)
(* string it may lose.                                                     *)
LEMMA StepRefused ==
    ASSUME SInv, InStep, NEW data, NEW made,
           Outcome(heap, level, StepName, StepType, parent, 0, data, made),
           made.status = "error", heap' = made.heap, place' = Placed
    PROVE  LET b == Store!Built(before, call.path, call.type, StepIndex - 1)
           IN  Placing(heap', place') /\ (Shows(b, heap', place') \/ StringLost(b))
<1> DEFINE b == Store!Built(before, call.path, call.type, StepIndex - 1)
           n == Lookup(heap, StepName, parent, 0)
<1>1. /\ heap \in Heaps /\ Slots(heap) /\ parent \in Ids /\ Root \in Ids
      /\ Placing(heap, place) /\ 0 \in 0 .. UIntMod - 1
  BY WalkFacts, IndexAssumption DEF SInv, InStep
<1>2. /\ Refusal(heap, heap', n, StepType)
      /\ Usable(heap, StepName, parent) \/ heap' = heap
  BY DEF Outcome, CallOutcome
<1>3. Shows(b, heap, place)
  BY StepStands DEF SInv, Along, InStep
<1>4. StepName \in Tokens \cup {NULL}
  BY StepStands
<1>5. Kept(heap, heap') /\ heap' \in Heaps
  BY <1>2 DEF Refusal, Kept
<1>6. /\ Placing(heap', place)
      /\ \A m \in Ids : Live(heap', m) <=> Live(heap, m)
  BY <1>1, <1>5, PlacingKept
<1>7. place' = place
  BY <1>1, <1>6, PlacedKept
<1>8. \A m \in Ids : heap'[m].type = heap[m].type
  BY <1>5 DEF Kept
<1> HIDE DEF b
<1>9. CASE \A m \in Ids : Live(heap, m) => heap'[m].val = heap[m].val
  BY <1>3, <1>6, <1>7, <1>8, <1>9 DEF Shows, b
<1>10. CASE \E m \in Ids : Live(heap, m) /\ heap'[m].val # heap[m].val
  <2>1. PICK m \in Ids : Live(heap, m) /\ heap'[m].val # heap[m].val
    BY <1>10
  <2>2. m = n /\ heap[n].type = "str" /\ StepType = "str" /\ heap'[n].val = NULL
    BY <1>2, <2>1 DEF Refusal
  <2>3. /\ n # NULL /\ n \in Ids /\ Live(heap, n)
        /\ Usable(heap, StepName, parent)
    BY <1>2, <2>1, <2>2, IdsAssumption
  <2>4. StepKey \in Keys /\ heap[parent].kids[StepKey] = n
    BY <1>1, <1>4, <2>3, LookupFinds DEF Usable, StepKey
  <2>5. \A q \in Ids \ {n} : Live(heap, q) => heap'[q].val = heap[q].val
    BY <1>2 DEF Refusal
  <2> HIDE DEF n
  <2>6. Fits(heap, StepName, StepType, parent, 0)
    BY <2>2, <2>3, <2>4 DEF Fits, StepKey, NodeTypes, Scalars
  <2>7. Store!StepLegal(before, call.path, call.type, StepIndex)
    BY <2>6, FitsIsLegal
  <2>8. StepPlace \in DOMAIN before /\ place[n] = StepPlace
    BY <2>3, <2>4, StepChild
  <2> DEFINE d   == [b EXCEPT ![StepPlace] = Store!Item("str", NULL)]
             h2  == heap'
             pl2 == place'
  <2>9. StepPlace \in DOMAIN b /\ b = [q \in DOMAIN b |-> b[q]]
    BY <1>3, <2>3, <2>8 DEF Shows
  <2>10. /\ d = [q \in DOMAIN d |-> d[q]]
         /\ \A q : q \in DOMAIN d <=> q \in DOMAIN b \/ q = StepPlace
         /\ \A q \in DOMAIN b : q # StepPlace => d[q] = b[q]
         /\ d[StepPlace] = Store!Item("str", NULL)
    BY <2>9
  <2>11. /\ pl2[n] = StepPlace /\ pl2 = place
         /\ h2[n].type = "str" /\ h2[n].val = NULL
         /\ \A q \in Ids : Live(h2, q) <=> Live(heap, q) \/ q = n
         /\ \A q \in Ids \ {n} : Live(heap, q) =>
               /\ h2[q].type = heap[q].type /\ h2[q].val = heap[q].val
    BY <1>6, <1>7, <1>8, <2>2, <2>3, <2>5, <2>8
  <2>12. \A q \in Ids \ {n} : Live(heap, q) => place[q] # place[n]
    BY <1>1, <2>3 DEF Placing
  <2> HIDE DEF d, h2, pl2
  <2>13. Shows(d, h2, pl2)
    <3>1. /\ n \in Ids
          /\ \A q \in Ids : Live(h2, q) <=> Live(heap, q) \/ q = n
          /\ \A q \in Ids \ {n} : Live(heap, q) =>
                /\ h2[q].type = heap[q].type /\ h2[q].val = heap[q].val
                /\ pl2[q] = place[q] /\ place[q] # pl2[n]
          /\ Live(heap, n) => pl2[n] = place[n]
      BY <2>3, <2>11, <2>12
    <3>2. /\ d[pl2[n]] = Store!Item(h2[n].type, h2[n].val)
          /\ \A q : q \in DOMAIN d <=> q \in DOMAIN b \/ q = pl2[n]
          /\ \A q \in DOMAIN b : q # pl2[n] => d[q] = b[q]
          /\ d = [q \in DOMAIN d |-> d[q]]
      BY <2>10, <2>11
    <3> QED BY <1>3, <3>1, <3>2, ShowsAfter
  <2>14. StringLost(b)
    BY <2>2, <2>7, <2>8, <2>13 DEF StringLost, d, h2, pl2
  <2> QED BY <1>6, <1>7, <2>14 DEF b
<1> QED BY <1>9, <1>10

-----------------------------------------------------------------------------
(* The turns of the loop keep the invariant.                               *)

(* Steps to what is there already lead to nothing new.                     *)
LEMMA BuiltNothing ==
    ASSUME NEW c, c = [q \in DOMAIN c |-> c[q]], NEW path, NEW type, NEW k \in Nat,
           \A i \in 1 .. k : /\ Store!KeyOf(c, path, i) \in Keys
                             /\ Store!PlaceOf(c, path, i) \in DOMAIN c
    PROVE  Store!Built(c, path, type, k) = c
<1> DEFINE d == Store!Built(c, path, type, k)
<1>1. /\ d = [q \in DOMAIN d |-> d[q]]
      /\ \A q : q \in DOMAIN d <=>
                   q \in DOMAIN c \/ \E i \in 1 .. k : q = Store!PlaceOf(c, path, i)
      /\ \A q \in DOMAIN c : d[q] = c[q]
  BY BuiltIs
<1> HIDE DEF d
<1>2. \A q : q \in DOMAIN d <=> q \in DOMAIN c
  BY <1>1
<1>3. DOMAIN d = DOMAIN c
  BY <1>2
<1> QED BY <1>1, <1>3, SameFunction DEF d

(* The value the loop gives to what it creates.                            *)
StepData == IF depth > Len(call.path) THEN call.val ELSE NULL

(* What a turn of the loop, or the step after it, does to the nodes.       *)
Made(fault) == CreateAndInsert(heap, StepName, StepType, parent, 0, StepData, fault)

(* A turn creates the container of its step.                               *)
LEMMA ParentTurn ==
    ASSUME SInv, NEW fault, SetParent(fault)
    PROVE  /\ InStep /\ StepIndex = depth - 1 /\ depth \in 2 .. Len(call.path)
           /\ StepData = NULL /\ StepType \in Containers
           /\ MakeParent(fault) = Made(fault)
<1>1. /\ pc = "walk" /\ depth > 1 /\ depth <= Len(call.path)
      /\ depth \in Nat /\ Len(call.path) \in Nat
  BY WalkFacts DEF SInv, SetParent
<1>2. InStep /\ depth \in 2 .. Len(call.path) /\ call.path # <<>> /\ StepData = NULL
  BY <1>1 DEF InStep, StepData
<1>3. StepIndex = depth - 1 /\ StepName = call.path[depth - 1]
  BY <1>2 DEF StepIndex, StepName
<1>4. StepType = IF call.path[depth] \in Brackets THEN "array" ELSE "dict"
  <2>1. ~(depth - 1 >= Len(call.path)) /\ (depth - 1) + 1 = depth
    BY <1>1
  <2> QED BY <1>3, <2>1 DEF StepType, Store!TypeAt
<1> QED BY <1>2, <1>3, <1>4 DEF MakeParent, Made, Containers

(* What comes after the loop is the last step.                             *)
LEMMA LeafTurn ==
    ASSUME SInv, NEW fault, SetLeaf(fault)
    PROVE  /\ InStep /\ StepIndex = Len(Steps(call.path))
           /\ depth = Len(call.path) + 1
           /\ StepData = call.val /\ StepType = call.type
           /\ MakeLeaf(fault) = Made(fault)
<1>1. /\ pc = "walk" /\ depth = Len(call.path) + 1 /\ Len(call.path) \in Nat
      /\ call.path \in Seq(Tokens)
  BY WalkFacts DEF SInv, SetLeaf
<1>2. call.path = <<>> =>
         depth = 1 /\ Len(call.path) = 0 /\ Len(Steps(call.path)) = 1
  BY <1>1 DEF Steps
<1>3. call.path # <<>> =>
         depth > 1 /\ depth - 1 = Len(call.path) /\ Steps(call.path) = call.path
  BY <1>1 DEF Steps
<1>4. InStep /\ StepData = call.val /\ StepName = LastToken(call.path)
  BY <1>1, <1>2, <1>3 DEF InStep, StepData, StepName, LastToken
<1>5. StepIndex = Len(Steps(call.path)) /\ StepIndex >= Len(call.path)
  <2>1. CASE call.path = <<>>
    <3>1. StepIndex = 1
      BY <2>1 DEF StepIndex
    <3> QED BY <1>2, <2>1, <3>1
  <2>2. CASE call.path # <<>>
    <3>1. StepIndex = depth - 1
      BY <2>2 DEF StepIndex
    <3> QED BY <1>1, <1>3, <2>2, <3>1
  <2> QED BY <2>1, <2>2
<1>6. StepType = call.type
  BY <1>5 DEF StepType, Store!TypeAt
<1> QED BY <1>1, <1>4, <1>5, <1>6 DEF MakeLeaf, Made

(* Every outcome of the call that creates it is a known one.               *)
LEMMA MadeOutcome ==
    ASSUME SInv, InStep, NEW fault
    PROVE  /\ Outcome(heap, level, StepName, StepType, parent, 0, StepData, Made(fault))
           /\ StepData \in Values \cup {NULL}
<1>1. /\ call.val \in Values \cup {NULL} /\ pc = "walk" /\ IInv /\ WInv
      /\ StepName \in Tokens \cup {NULL}
  BY WalkFacts, StepStands DEF SInv, InStep
<1>2. StepData \in Values \cup {NULL}
  BY <1>1 DEF StepData
<1> QED BY <1>1, <1>2, MakeStep DEF Made

(* The refinement mapping is what the tree shows, so what the tree shows   *)
(* is the configuration.                                                   *)
LEMMA ShowsBefore ==
    ASSUME Placing(heap', place'), before' = ConfigOf(heap', place'), NEW c,
           Shows(c, heap', place')
    PROVE  before' = c
<1> DEFINE h2 == heap'
           pl2 == place'
<1>1. Placing(h2, pl2) /\ Shows(c, h2, pl2)
  OBVIOUS
<1> HIDE DEF h2, pl2
<1>2. ConfigOf(h2, pl2) = c
  BY <1>1, ConfigShows, ShowsOne
<1> QED BY <1>2 DEF h2, pl2

(* The part of the invariant that the calls make no difference to.         *)
LEMMA StillSettled ==
    ASSUME Placing(heap', place'), before' = ConfigOf(heap', place')
    PROVE  Settled'
<1> DEFINE h2 == heap'
           pl2 == place'
<1>1. Placing(h2, pl2)
  OBVIOUS
<1> HIDE DEF h2, pl2
<1>2. Shows(ConfigOf(h2, pl2), h2, pl2)
  BY <1>1, ConfigShows
<1> QED BY <1>2 DEF Settled, h2, pl2

(* What the steps have in common.                                          *)
LEMMA StoreStepFacts ==
    ASSUME SInv, StoreNext
    PROVE  /\ IInv' /\ WInv' /\ heap' \in Heaps /\ NodesStay
           /\ heap'[Root].type \in Containers
           /\ place' = Placed
           /\ pc' \notin {"walk", "fault"} => before' = ConfigOf(heap', place')
           /\ pc' \in {"walk", "fault"} => before' = before
           /\ Placing(heap, place)
           /\ heap' = heap => place' = place
<1>1. IInv' /\ WInv' /\ NodesStay
  BY StepInv, StepWalk DEF SInv, StoreNext
<1>2. heap' \in Heaps
  BY <1>1 DEF IInv, TypeOK
<1>3. heap'[Root].type \in Containers
  BY <1>1, WalkFacts DEF SInv, NodesStay
<1>4. heap' = heap => place' = place
  BY PlacedKept DEF SInv, StoreNext
<1> QED BY <1>1, <1>2, <1>3, <1>4 DEF SInv, StoreNext

(* At the start of a call no step is taken.                                *)
LEMMA CallAlong ==
    ASSUME SInv, StoreNext, NEW path \in Paths, NEW type \in SetTypes,
           NEW val \in Values, SetCall(path, type, val)
    PROVE  SInv'
<1>1. /\ pc = "idle" /\ pc' = "walk" /\ heap' = heap /\ depth' = 1 /\ parent' = Root
      /\ call' = [path |-> path, type |-> type, val |-> val]
  BY DEF SetCall
<1>2. /\ IInv' /\ WInv' /\ heap'[Root].type \in Containers
      /\ place' = place /\ before' = before /\ Placing(heap, place)
  BY <1>1, StoreStepFacts
<1>3. Shows(before, heap, place)
  BY <1>1 DEF SInv, Settled
<1>4. Root \in Ids /\ Live(heap, Root) /\ place[Root] = <<>>
  BY <1>2, WalkFacts DEF SInv, Placing
<1>5. Closed(before) /\ before[<<>>].type = heap[Root].type
  BY <1>2, <1>3, <1>4, ShowsClosed
<1>6. before = [q \in DOMAIN before |-> before[q]]
  BY <1>3 DEF Shows
<1>7. \A i \in 1 .. 0 : FALSE
  OBVIOUS
<1>8. Store!Built(before, path, type, 0) = before
  BY <1>6, <1>7, BuiltNothing
<1>9. Store!PlaceOf(before, path, 0) = <<>>
  BY DEF Store!PlaceOf
<1>10. StepsTaken' = 0
  BY <1>1 DEF StepsTaken
<1>11. call' \in [path : Paths, type : SetTypes, val : Values]
  BY <1>1
<1>12. Along'
  BY <1>1, <1>2, <1>3, <1>4, <1>5, <1>6, <1>7, <1>8, <1>9, <1>10, <1>11 DEF Along
<1> QED BY <1>1, <1>2, <1>12 DEF SInv, Settled

(* After a turn one step more is taken.                                    *)
LEMMA TurnAlong ==
    ASSUME SInv, StoreNext, NEW fault, SetParent(fault), pc' = "walk"
    PROVE  SInv'
<1> DEFINE made == Made(fault)
<1>1. /\ InStep /\ StepIndex = depth - 1 /\ depth \in 2 .. Len(call.path)
      /\ StepData = NULL /\ StepType \in Containers /\ MakeParent(fault) = made
  BY ParentTurn
<1>2. Outcome(heap, level, StepName, StepType, parent, 0, StepData, made)
  BY <1>1, MadeOutcome
<1> HIDE DEF made
<1>3. /\ made.status = "ok" /\ heap' = made.heap
      /\ depth' = depth + 1 /\ parent' = made.node /\ call' = call
  BY <1>1 DEF SetParent, Return, Crash, Leave, NextTurn
<1>4. /\ IInv' /\ WInv' /\ heap' \in Heaps /\ heap'[Root].type \in Containers
      /\ place' = Placed /\ before' = before /\ NodesStay
  BY StoreStepFacts
<1>5. /\ Placing(heap', place')
      /\ Store!StepLegal(before, call.path, call.type, StepIndex)
      /\ place'[made.node] = StepPlace
      /\ Shows(Reached(NULL), heap', place')
  BY <1>1, <1>2, <1>3, <1>4, StepDone
<1>6. Reached(NULL) = Store!Built(before, call.path, call.type, StepIndex)
  BY <1>1 DEF Reached, Containers, Scalars
<1>7. /\ StepsTaken' = StepIndex /\ StepIndex - 1 = StepsTaken /\ StepsTaken \in Nat
  BY <1>1, <1>3, StepStands DEF StepsTaken
<1>8. /\ call \in [path : Paths, type : SetTypes, val : Values]
      /\ \A i \in 1 .. StepsTaken : Store!StepLegal(before, call.path, call.type, i)
      /\ before = [q \in DOMAIN before |-> before[q]] /\ Closed(before)
      /\ before[<<>>].type = heap[Root].type
  BY <1>1 DEF SInv, Along, InStep
<1>9. ASSUME NEW i \in 1 .. StepIndex
      PROVE  Store!StepLegal(before, call.path, call.type, i)
  <2>1. i = StepIndex \/ i \in 1 .. StepsTaken
    BY <1>1, <1>7
  <2> QED BY <1>5, <1>8, <2>1
<1>10. heap'[Root].type = heap[Root].type
  BY <1>4, WalkFacts DEF SInv, NodesStay
<1>11. Along'
  <2> DEFINE k == StepIndex
  <2>1. StepsTaken' = k
    BY <1>7
  <2>2. \A i \in 1 .. k : Store!StepLegal(before, call.path, call.type, i)
    BY <1>9
  <2>3. /\ Shows(Store!Built(before, call.path, call.type, k), heap', place')
        /\ place'[parent'] = Store!PlaceOf(before, call.path, k)
    BY <1>3, <1>5, <1>6 DEF StepPlace
  <2> HIDE DEF k
  <2> QED BY <1>3, <1>4, <1>8, <1>10, <2>1, <2>2, <2>3 DEF Along
<1> QED BY <1>4, <1>5, <1>11 DEF SInv, Settled

(* Placing survives every turn.                                            *)
LEMMA TurnPlaces ==
    ASSUME SInv, StoreNext, InStep, NEW fault,
           heap' = Made(fault).heap, Made(fault).status # "fault"
    PROVE  Placing(heap', place')
<1> DEFINE made == Made(fault)
<1>1. /\ Outcome(heap, level, StepName, StepType, parent, 0, StepData, made)
      /\ StepData \in Values \cup {NULL}
  BY MadeOutcome
<1>2. heap' \in Heaps /\ place' = Placed
  BY StoreStepFacts
<1>3. made.status = "ok" \/ made.status = "error"
  BY <1>1 DEF Outcome, CallOutcome
<1>4. heap' = made.heap
  OBVIOUS
<1> HIDE DEF made
<1>5. CASE made.status = "ok"
  BY <1>1, <1>2, <1>4, <1>5, StepDone
<1>6. CASE made.status = "error"
  BY <1>1, <1>2, <1>4, <1>6, StepRefused
<1> QED BY <1>3, <1>5, <1>6

(* Every step keeps the invariant.                                         *)
LEMMA StoreStep == SInv /\ [StoreNext]_storeVars => SInv'
<1> SUFFICES ASSUME SInv, [StoreNext]_storeVars PROVE SInv'
  OBVIOUS
<1>1. CASE UNCHANGED storeVars
  <2>1. UNCHANGED <<heap, pc, call, depth, parent, ret, level, place, before>>
    BY <1>1 DEF storeVars, vars
  <2>2. IInv' /\ WInv'
    BY <1>1, StepInv, StepWalk DEF SInv, storeVars
  <2>3. Placing(heap', place') /\ heap'[Root].type \in Containers
    BY <2>1 DEF SInv
  <2>4. Along' /\ Settled'
    BY <2>1 DEF SInv, Along, Settled, StepsTaken
  <2> QED BY <2>2, <2>3, <2>4 DEF SInv
<1>2. CASE StoreNext
  <2>0. /\ IInv' /\ WInv' /\ heap' \in Heaps /\ NodesStay
        /\ heap'[Root].type \in Containers
        /\ pc' \notin {"walk", "fault"} => before' = ConfigOf(heap', place')
        /\ pc' \in {"walk", "fault"} => before' = before
        /\ Placing(heap, place)
        /\ heap' = heap => place' = place
    BY <1>2, StoreStepFacts
  <2>1. ASSUME Placing(heap', place'), pc' # "walk" PROVE SInv'
    <3>1. Along'
      BY <2>1 DEF Along
    <3>2. Settled'
      <4>1. CASE pc' = "fault"
        BY <4>1 DEF Settled
      <4>2. CASE pc' # "fault"
        BY <2>0, <2>1, <4>2, StillSettled
      <4> QED BY <4>1, <4>2
    <3> QED BY <2>0, <2>1, <3>1, <3>2 DEF SInv
  <2>2. heap' = heap => Placing(heap', place')
    BY <2>0
  <2>3. ASSUME NEW path \in Paths, NEW type \in SetTypes, NEW val \in Values,
               SetCall(path, type, val)
        PROVE  SInv'
    BY <1>2, <2>3, CallAlong
  <2>4. CASE SetFirst
    <3>1. /\ pc = "walk" /\ heap' = heap /\ depth = 1
          /\ \/ pc' = "done"
             \/ depth' = 2 /\ parent' = parent /\ pc' = "walk" /\ call' = call
      BY <2>4 DEF SetFirst, NextTurn, Return
    <3>2. ASSUME pc' = "walk" PROVE SInv'
      <4>1. /\ StepsTaken' = StepsTaken /\ heap' = heap /\ place' = place
            /\ parent' = parent /\ call' = call /\ before' = before
        BY <2>0, <3>1, <3>2 DEF StepsTaken
      <4>2. Along'
        BY <3>1, <4>1 DEF SInv, Along
      <4> QED BY <2>0, <3>2, <4>1, <4>2 DEF SInv, Settled
    <3> QED BY <2>1, <2>2, <3>1, <3>2
  <2>5. ASSUME NEW fault \in AllocFaults, SetParent(fault) PROVE SInv'
    <3>1. InStep /\ MakeParent(fault) = Made(fault)
      BY <2>5, ParentTurn
    <3>2. CASE pc' = "walk"
      BY <1>2, <2>5, <3>2, TurnAlong
    <3>3. CASE pc' # "walk" /\ Made(fault).status # "fault"
      <4>1. heap' = Made(fault).heap
        BY <2>5, <3>1, <3>3 DEF SetParent, Leave
      <4> QED BY <1>2, <2>1, <3>1, <3>3, <4>1, TurnPlaces
    <3>4. CASE pc' # "walk" /\ Made(fault).status = "fault"
      <4>1. heap' = heap
        BY <2>5, <3>1, <3>4 DEF SetParent, Crash
      <4> QED BY <2>1, <2>2, <3>4, <4>1
    <3> QED BY <3>2, <3>3, <3>4
  <2>6. ASSUME NEW fault \in AllocFaults, SetLeaf(fault) PROVE SInv'
    <3>1. InStep /\ MakeLeaf(fault) = Made(fault)
      BY <2>6, LeafTurn
    <3>2. pc' # "walk"
      BY <2>6 DEF SetLeaf, Return, Crash
    <3>3. CASE Made(fault).status # "fault"
      <4>1. heap' = Made(fault).heap
        BY <2>6, <3>1, <3>3 DEF SetLeaf, Leave
      <4> QED BY <1>2, <2>1, <3>1, <3>2, <3>3, <4>1, TurnPlaces
    <3>4. CASE Made(fault).status = "fault"
      <4>1. heap' = heap
        BY <2>6, <3>1, <3>4 DEF SetLeaf, Crash
      <4> QED BY <2>1, <2>2, <3>2, <4>1
    <3> QED BY <3>3, <3>4
  <2>7. CASE SetReturned
    BY <2>1, <2>2, <2>7 DEF SetReturned
  <2> QED BY <1>2, <2>3, <2>4, <2>5, <2>6, <2>7 DEF StoreNext, Next
<1> QED BY <1>1, <1>2

(* The root alone is the empty configuration.                              *)
LEMMA StoreInitially == StoreInit => SInv /\ Store!Init
<1> SUFFICES ASSUME StoreInit PROVE SInv /\ Store!Init
  OBVIOUS
<1>1. PICK t \in RootTypes :
         heap = [n \in Ids |-> IF n = Root THEN NewCell(t, NULL) ELSE FreeCell]
  BY DEF StoreInit, Init
<1>2. /\ Root \in Ids /\ t \in Containers /\ pc = "idle"
      /\ place = [n \in Ids |-> <<>>] /\ before = ConfigOf(heap, place)
  BY PathAssumption DEF StoreInit, Init
<1>3. IInv /\ WInv
  BY InitInv, InitWalk DEF StoreInit
<1>4. heap[Root] = NewCell(t, NULL) /\ \A n \in Ids \ {Root} : heap[n] = FreeCell
  BY <1>1, <1>2
<1>5. heap[Root].type = t /\ heap[Root].val = NULL
  BY <1>2, <1>4 DEF NewCell
<1>6. \A n \in Ids : Live(heap, n) <=> n = Root
  BY <1>2, <1>4, <1>5 DEF Live, FreeCell, Containers
<1>7. \A n \in Ids, k \in Keys : heap[n].kids[k] \notin Ids
  <2>1. \A k \in Keys : heap[Root].kids[k] \in {NULL, UNINIT}
    BY <1>4 DEF NewCell
  <2>2. \A n \in Ids \ {Root}, k \in Keys : heap[n].kids[k] = NULL
    BY <1>4 DEF FreeCell
  <2> QED BY <2>1, <2>2, IdsAssumption
<1>8. Placing(heap, place)
  <2>1. <<>> \in Seq(Keys) /\ Len(<<>>) = 0 /\ Above(<<>>, 0) = <<>>
    BY DEF Above
  <2>2. \A n \in Ids : place[n] = <<>>
    BY <1>2
  <2>3. place \in [Ids -> Seq(Keys)]
    BY <1>2, <2>1
  <2>4. ASSUME NEW n \in Ids, Live(heap, n), NEW i \in 0 .. Len(place[n])
        PROVE  \E m \in Ids : Live(heap, m) /\ place[m] = Above(place[n], i)
    <3>1. i = 0
      BY <2>1, <2>2, <2>4
    <3> QED BY <2>1, <2>2, <2>4, <3>1
  <2> QED BY <1>2, <1>6, <1>7, <2>2, <2>3, <2>4 DEF Placing
<1>9. Shows(before, heap, place)
  BY <1>2, <1>8, ConfigShows
<1>10. before = Store!Empty(t)
  <2> DEFINE c == Store!Empty(t)
  <2>1. /\ c = [q \in DOMAIN c |-> c[q]] /\ DOMAIN c = {<<>>}
        /\ c[<<>>] = Store!Item(t, NULL)
    BY DEF Store!Empty
  <2> HIDE DEF c
  <2>2. \A n \in Ids : place[n] = <<>>
    BY <1>2
  <2>3. Shows(c, heap, place)
    BY <1>2, <1>5, <1>6, <2>1, <2>2 DEF Shows
  <2> QED BY <1>9, <2>3, ShowsOne DEF c
<1>11. SInv
  BY <1>2, <1>3, <1>5, <1>8, <1>9 DEF SInv, Along, Settled
<1>12. Store!Init
  BY <1>2, <1>10 DEF Store!Init, Store!NoAnswer, Store!Answer
<1> QED BY <1>11, <1>12

-----------------------------------------------------------------------------
(* A call as a whole is one step of the store.                             *)

(* The call ends as its path, its type and the configuration determine.    *)
EndsAsSet ==
    LET set == Store!Set(before, call.path, call.type, call.val)
    IN  ret' = set.ret /\ before' = set.config

(* The call ends at a step that could have been taken.                     *)
EndsEarly ==
    LET b == Store!Built(before, call.path, call.type, StepIndex - 1)
    IN  /\ ret' = -1
        /\ Store!StepLegal(before, call.path, call.type, StepIndex)
        /\ Placing(heap', place')
        /\ before' = b \/ StringLost(b)

(* The numbers of the steps.                                               *)
LEMMA StepCounts ==
    ASSUME SInv, InStep
    PROVE  /\ StepIndex \in 1 .. Len(Steps(call.path))
           /\ Len(Steps(call.path)) \in Nat /\ Len(call.path) \in Nat
           /\ StepIndex - 1 \in 0 .. Len(Steps(call.path))
           /\ (StepIndex - 1) + 1 = StepIndex
           /\ StepIndex - 1 < MaxDepth /\ depth \in 0 .. MaxDepth
           /\ MaxDepth \in Nat
           /\ \A i \in 1 .. StepIndex - 1 :
                 Store!StepLegal(before, call.path, call.type, i)
<1>1. /\ StepIndex \in 1 .. Len(Steps(call.path)) /\ StepIndex - 1 = StepsTaken
      /\ call.path \in Seq(Tokens)
  BY StepStands
<1>2. Len(Steps(call.path)) \in Nat /\ Len(call.path) \in Nat
  BY <1>1, StepsType
<1>3. depth \in 0 .. MaxDepth /\ MaxDepth \in Nat /\ MaxDepth >= 2
  BY PathAssumption DEF SInv, IInv, TypeOK
<1>4. StepsTaken < MaxDepth
  BY <1>3 DEF StepsTaken
<1>5. \A i \in 1 .. StepsTaken : Store!StepLegal(before, call.path, call.type, i)
  BY DEF SInv, Along, InStep
<1> QED BY <1>1, <1>2, <1>3, <1>4, <1>5

(* How many steps can be taken, if this one can, or cannot.                *)
LEMMA StepReach ==
    ASSUME SInv, InStep
    PROVE  LET r == Store!Reach(before, call.path, call.type)
           IN  IF Store!StepLegal(before, call.path, call.type, StepIndex)
               THEN r \in StepIndex .. Len(Steps(call.path))
               ELSE r = StepIndex - 1
<1> DEFINE k == StepIndex
           N == Len(Steps(call.path))
<1>1. /\ k \in 1 .. N /\ N \in Nat /\ k - 1 \in 0 .. N /\ (k - 1) + 1 = k
      /\ \A i \in 1 .. k - 1 : Store!StepLegal(before, call.path, call.type, i)
      /\ call.path \in Seq(Tokens)
  BY StepCounts, StepStands
<1> HIDE DEF k
<1>2. CASE Store!StepLegal(before, call.path, call.type, k)
  <2>1. ASSUME NEW i \in 1 .. k
        PROVE  Store!StepLegal(before, call.path, call.type, i)
    <3>1. i = k \/ i \in 1 .. k - 1
      BY <1>1
    <3> QED BY <1>1, <1>2, <3>1
  <2>2. k \in 0 .. N
    BY <1>1
  <2> QED BY <1>1, <1>2, <2>1, <2>2, ReachBounds DEF k
<1>3. CASE ~Store!StepLegal(before, call.path, call.type, k)
  <2> DEFINE j == k - 1
  <2>1. /\ j \in 0 .. N /\ j < N
        /\ \A i \in 1 .. j : Store!StepLegal(before, call.path, call.type, i)
        /\ ~Store!StepLegal(before, call.path, call.type, j + 1)
    BY <1>1, <1>3
  <2> HIDE DEF j
  <2>2. Store!Reach(before, call.path, call.type) = j
    BY <1>1, <2>1, ReachBounds
  <2> QED BY <1>3, <2>2 DEF j, k
<1> QED BY <1>2, <1>3

(* At a step that cannot be taken the call is refused, with what the steps *)
(* before it led to.                                                       *)
LEMMA IllegalRefused ==
    ASSUME SInv, InStep,
           ~Store!StepLegal(before, call.path, call.type, StepIndex),
           ret' = -1,
           before' = Store!Built(before, call.path, call.type, StepIndex - 1)
    PROVE  EndsAsSet
<1> DEFINE r == Store!Reach(before, call.path, call.type)
           N == Len(Steps(call.path))
<1>1. r = StepIndex - 1
  BY StepReach
<1>2. StepIndex \in 1 .. N /\ N \in Nat /\ StepIndex - 1 < MaxDepth
  BY StepCounts
<1>3. ~Store!Settable(before, call.path, call.type)
  <2>1. Len(Store!Steps(call.path)) = N
    BY SameWords
  <2> HIDE DEF r, N
  <2>2. r # N
    BY <1>1, <1>2
  <2> QED BY <2>1, <2>2 DEF Store!Settable, r
<1>4. Store!Refused(before, call.path, call.type)
      = Store!Built(before, call.path, call.type, StepIndex - 1)
  <2> HIDE DEF r
  <2>1. (IF r < MaxDepth THEN r ELSE MaxDepth - 1) = StepIndex - 1
    BY <1>1, <1>2
  <2> QED BY <2>1 DEF Store!Refused, r
<1>5. Store!Set(before, call.path, call.type, call.val)
      = Store!Outcome(-1, Store!Built(before, call.path, call.type, StepIndex - 1))
  BY <1>3, <1>4 DEF Store!Set
<1> QED BY <1>5 DEF EndsAsSet, Store!Outcome

(* A path that is too long is refused, with what the containers up to the  *)
(* limit lead to.                                                          *)
LEMMA TooLongRefused ==
    ASSUME SInv, InStep,
           Store!StepLegal(before, call.path, call.type, StepIndex),
           StepIndex = MaxDepth - 1, Len(call.path) >= MaxDepth,
           ret' = -1,
           before' = Store!Built(before, call.path, call.type, StepIndex)
    PROVE  EndsAsSet
<1> DEFINE r == Store!Reach(before, call.path, call.type)
<1>1. r \in StepIndex .. Len(Steps(call.path))
  BY StepReach
<1>2. /\ Len(Steps(call.path)) \in Nat /\ MaxDepth \in Nat /\ Len(call.path) \in Nat
      /\ StepIndex \in Int
  BY StepCounts
<1>3. ~Store!Settable(before, call.path, call.type)
  BY <1>2 DEF Store!Settable
<1>4. Store!Refused(before, call.path, call.type)
      = Store!Built(before, call.path, call.type, StepIndex)
  <2> HIDE DEF r
  <2>1. (IF r < MaxDepth THEN r ELSE MaxDepth - 1) = StepIndex
    BY <1>1, <1>2
  <2> QED BY <2>1 DEF Store!Refused, r
<1>5. Store!Set(before, call.path, call.type, call.val)
      = Store!Outcome(-1, Store!Built(before, call.path, call.type, StepIndex))
  BY <1>3, <1>4 DEF Store!Set
<1> QED BY <1>5 DEF EndsAsSet, Store!Outcome

(* A call all of whose steps could be taken has written its value.         *)
LEMMA AllTakenWritten ==
    ASSUME SInv, InStep,
           Store!StepLegal(before, call.path, call.type, StepIndex),
           StepIndex = Len(Steps(call.path)), Len(call.path) < MaxDepth,
           StepType = call.type, ret' = 0, before' = Reached(call.val)
    PROVE  EndsAsSet
<1>1. Len(Store!Steps(call.path)) = StepIndex
  BY SameWords
<1>2. Store!Reach(before, call.path, call.type) = Len(Store!Steps(call.path))
  <2>1. Store!Reach(before, call.path, call.type) \in StepIndex .. StepIndex
    BY StepReach
  <2>2. StepIndex \in Int
    BY StepCounts
  <2> QED BY <1>1, <2>1, <2>2
<1>3. Store!Settable(before, call.path, call.type)
  BY <1>2 DEF Store!Settable
<1>4. Store!Written(before, call.path, call.type, call.val) = Reached(call.val)
  BY <1>1, SameWords DEF Store!Written, Reached, StepPlace
<1>5. Store!Set(before, call.path, call.type, call.val)
      = Store!Outcome(0, Reached(call.val))
  BY <1>3, <1>4 DEF Store!Set
<1> QED BY <1>5 DEF EndsAsSet, Store!Outcome

(* To lose a string that was there, the steps before it led to nothing new.*)
LEMMA NothingBuilt ==
    ASSUME SInv, InStep, StepKey \in Keys, StepPlace \in DOMAIN before
    PROVE  Store!Built(before, call.path, call.type, StepIndex - 1) = before
<1> DEFINE k == StepIndex
           j == k - 1
<1>1. /\ k \in Nat \ {0} /\ \A i \in 1 .. k : Store!KeyOf(before, call.path, i) \in Keys
  BY StepsBefore
<1>2. /\ before = [q \in DOMAIN before |-> before[q]] /\ Closed(before)
      /\ Store!PlaceOf(before, call.path, k) \in DOMAIN before
  BY DEF SInv, Along, InStep, StepPlace
<1> HIDE DEF k
<1>3. j \in Nat /\ k \in Nat /\ k \in 0 .. k
  BY <1>1
<1>4. ASSUME NEW i \in 1 .. j
      PROVE  /\ Store!KeyOf(before, call.path, i) \in Keys
             /\ Store!PlaceOf(before, call.path, i) \in DOMAIN before
  <2>1. i \in 1 .. k /\ i \in 0 .. k
    BY <1>3
  <2>2. /\ Len(Store!PlaceOf(before, call.path, k)) = k
        /\ Above(Store!PlaceOf(before, call.path, k), i)
           = Store!PlaceOf(before, call.path, i)
    BY <1>1, <1>3, <2>1, PlacesOfSteps
  <2> QED BY <1>1, <1>2, <2>1, <2>2 DEF Closed
<1> HIDE DEF j
<1>5. Store!Built(before, call.path, call.type, j) = before
  BY <1>2, <1>3, <1>4, BuiltNothing
<1> QED BY <1>5 DEF j, k

(* Such an end is one of those that lack of memory may lead to.            *)
LEMMA EarlyIsOutOfMemory ==
    ASSUME SInv, InStep, EndsEarly, before' = ConfigOf(heap', place'),
           StepType = "str" => /\ StepIndex = Len(Steps(call.path))
                               /\ Len(call.path) < MaxDepth
                               /\ StepType = call.type
    PROVE  \E o \in Store!OutOfMemory(before, call.path, call.type) :
               o.ret = ret' /\ o.config = before'
<1> DEFINE b == Store!Built(before, call.path, call.type, StepIndex - 1)
           n == Len(Store!Steps(call.path))
           reach == Store!Reach(before, call.path, call.type)
           target == Store!PlaceOf(before, call.path, n)
           limit == IF reach < n THEN reach ELSE n - 1
           lost == /\ Store!Settable(before, call.path, call.type)
                   /\ call.type = "str" /\ target \in DOMAIN before
           early == {Store!Outcome(-1, Store!Built(before, call.path, call.type, k)) :
                        k \in {i \in 0 .. limit : i < MaxDepth}}
           gone == Store!Outcome(-1, [before EXCEPT ![target] = Store!Item("str", NULL)])
<1>1. Store!OutOfMemory(before, call.path, call.type)
      = early \cup IF lost THEN {gone} ELSE {}
  BY DEF Store!OutOfMemory
<1>2. /\ n = Len(Steps(call.path)) /\ n \in Nat /\ StepIndex \in 1 .. n
      /\ StepIndex - 1 < MaxDepth
  BY StepCounts, SameWords
<1>3. /\ ret' = -1
      /\ Store!StepLegal(before, call.path, call.type, StepIndex)
      /\ Placing(heap', place')
      /\ before' = b \/ StringLost(b)
  BY DEF EndsEarly
<1>4. reach \in StepIndex .. n
  BY <1>2, <1>3, StepReach
<1>5. CASE before' = b
  <2>1. StepIndex - 1 \in {i \in 0 .. limit : i < MaxDepth}
    <3> HIDE DEF reach, n
    <3> QED BY <1>2, <1>4
  <2> HIDE DEF limit
  <2>2. Store!Outcome(-1, b) \in early
    BY <2>1
  <2> HIDE DEF early, gone, lost, b
  <2>3. /\ Store!Outcome(-1, b) \in Store!OutOfMemory(before, call.path, call.type)
        /\ Store!Outcome(-1, b).ret = -1 /\ Store!Outcome(-1, b).config = b
    BY <1>1, <2>2 DEF Store!Outcome
  <2> QED BY <1>3, <1>5, <2>3
<1>6. CASE StringLost(b) /\ Placing(heap', place')
  <2>1. /\ StepType = "str" /\ StepPlace \in DOMAIN before
        /\ Shows([b EXCEPT ![StepPlace] = Store!Item("str", NULL)], heap', place')
    BY <1>6 DEF StringLost
  <2>2. StepIndex = n /\ Len(call.path) < MaxDepth /\ call.type = "str"
    BY <1>2, <2>1
  <2>3. lost /\ StepPlace = target
    <3>1. reach = n
      <4> HIDE DEF n, reach
      <4> QED BY <1>2, <1>4, <2>2
    <3>2. StepPlace = target
      BY <2>2 DEF StepPlace
    <3>3. Store!Settable(before, call.path, call.type)
      BY <2>2, <3>1 DEF Store!Settable
    <3> QED BY <2>1, <2>2, <3>2, <3>3
  <2>4. StepKey \in Keys
    <3>1. Store!KeyOf(before, call.path, StepIndex) \in Keys
      BY <1>3, SameWords DEF Store!StepLegal
    <3> QED BY <3>1, StepKeyIs
  <2>5. b = before
    BY <2>1, <2>4, NothingBuilt
  <2> HIDE DEF b, target
  <2>6. before' = [before EXCEPT ![target] = Store!Item("str", NULL)]
    BY <1>6, <2>1, <2>3, <2>5, ShowsBefore
  <2> HIDE DEF early, lost
  <2>7. gone \in Store!OutOfMemory(before, call.path, call.type)
    BY <1>1, <2>3
  <2>8. gone.ret = -1 /\ gone.config = before'
    BY <2>6 DEF Store!Outcome
  <2> HIDE DEF gone
  <2> QED BY <1>3, <2>7, <2>8
<1> QED BY <1>3, <1>5, <1>6

(* How a call ends at a step that fails.                                   *)
LEMMA FailedStep ==
    ASSUME SInv, StoreNext, InStep, NEW fault, Made(fault).status = "error",
           heap' = Made(fault).heap, pc' = "done", ret' = -1
    PROVE  \/ EndsAsSet
           \/ EndsEarly /\ (fault = "none" => Unused(heap) = {})
<1> DEFINE made == Made(fault)
           b == Store!Built(before, call.path, call.type, StepIndex - 1)
<1>1. /\ Outcome(heap, level, StepName, StepType, parent, 0, StepData, made)
      /\ StepData \in Values \cup {NULL}
  BY MadeOutcome
<1>2. /\ place' = Placed /\ before' = ConfigOf(heap', place')
  BY StoreStepFacts
<1>3. made.status = "error" /\ heap' = made.heap
  OBVIOUS
<1>4. fault = "none" /\ Unused(heap) # {} =>
         ~Fits(heap, StepName, StepType, parent, 0)
  <2> SUFFICES ASSUME fault = "none", Unused(heap) # {},
                      Fits(heap, StepName, StepType, parent, 0)
               PROVE  FALSE
    OBVIOUS
  <2>1. /\ heap \in Heaps /\ Slots(heap) /\ StepName \in Tokens \cup {NULL}
        /\ parent \in Ids /\ Live(heap, parent) /\ 0 \in 0 .. UIntMod - 1
    BY WalkFacts, StepStands, IndexAssumption DEF SInv, InStep
  <2>2. made.status = "ok"
    BY <1>1, <2>1, FitsIsMade DEF Made
  <2> QED BY <1>3, <2>2
<1> HIDE DEF made
<1>5. Placing(heap', place') /\ (Shows(b, heap', place') \/ StringLost(b))
  BY <1>1, <1>2, <1>3, StepRefused
<1> HIDE DEF b
<1>6. before' = b \/ StringLost(b)
  BY <1>2, <1>5, ShowsBefore
<1>7. CASE Store!StepLegal(before, call.path, call.type, StepIndex)
  <2>1. EndsEarly
    BY <1>5, <1>6, <1>7 DEF EndsEarly, b
  <2>2. fault = "none" => Unused(heap) = {}
    BY <1>4, <1>7, FitsIsLegal
  <2> QED BY <2>1, <2>2
<1>8. CASE ~Store!StepLegal(before, call.path, call.type, StepIndex)
  <2>1. before' = b
    BY <1>6, <1>8 DEF StringLost
  <2> QED BY <1>8, <2>1, IllegalRefused DEF b
<1> QED BY <1>7, <1>8

(* How a call ends at a turn of the loop.                                  *)
LEMMA ParentEnds ==
    ASSUME SInv, StoreNext, NEW fault, SetParent(fault), pc' = "done"
    PROVE  /\ InStep /\ ret' = -1 /\ call' = call /\ StepType # "str"
           /\ \/ EndsAsSet
              \/ EndsEarly /\ (fault = "none" => Unused(heap) = {})
<1> DEFINE made == Made(fault)
<1>1. /\ InStep /\ StepIndex = depth - 1 /\ depth \in 2 .. Len(call.path)
      /\ StepData = NULL /\ StepType \in Containers /\ MakeParent(fault) = made
  BY ParentTurn
<1>2. /\ Outcome(heap, level, StepName, StepType, parent, 0, StepData, made)
      /\ StepData \in Values \cup {NULL}
  BY <1>1, MadeOutcome
<1>3. /\ place' = Placed /\ before' = ConfigOf(heap', place') /\ heap' \in Heaps
  BY StoreStepFacts
<1>4. made = Made(fault)
  OBVIOUS
<1> HIDE DEF made
<1>5. /\ heap' = made.heap /\ ret' = -1 /\ call' = call
      /\ \/ made.status = "ok" /\ depth >= MaxDepth
         \/ made.status = "error"
  <2>1. pc = "walk"
    BY DEF SetParent
  <2> QED BY <1>1, <2>1 DEF SetParent, Return, Crash, Leave, NextTurn
<1>6. StepType # "str"
  BY <1>1 DEF Containers
<1>7. CASE made.status = "error"
  BY <1>1, <1>4, <1>5, <1>6, <1>7, FailedStep
<1>8. CASE made.status = "ok" /\ depth >= MaxDepth
  <2>1. /\ Placing(heap', place')
        /\ Store!StepLegal(before, call.path, call.type, StepIndex)
        /\ Shows(Reached(StepData), heap', place')
    BY <1>1, <1>2, <1>3, <1>5, <1>8, StepDone
  <2>2. Reached(StepData) = Store!Built(before, call.path, call.type, StepIndex)
    BY <1>1 DEF Reached, Containers, Scalars
  <2> DEFINE c == Store!Built(before, call.path, call.type, StepIndex)
  <2>3. Shows(c, heap', place')
    BY <2>1, <2>2
  <2> HIDE DEF c
  <2>4. before' = c
    BY <1>3, <2>1, <2>3, ShowsBefore
  <2>5. StepIndex = MaxDepth - 1 /\ Len(call.path) >= MaxDepth
    BY <1>1, <1>8, StepCounts
  <2> QED BY <1>1, <1>5, <1>6, <2>1, <2>4, <2>5, TooLongRefused DEF c
<1> QED BY <1>5, <1>7, <1>8

(* How it ends after the loop.                                             *)
LEMMA LeafEnds ==
    ASSUME SInv, StoreNext, NEW fault, SetLeaf(fault), pc' = "done"
    PROVE  /\ InStep /\ call' = call /\ ret' \in {-1, 0}
           /\ StepIndex = Len(Steps(call.path)) /\ Len(call.path) < MaxDepth
           /\ StepType = call.type
           /\ \/ EndsAsSet
              \/ EndsEarly /\ (fault = "none" => Unused(heap) = {})
<1> DEFINE made == Made(fault)
<1>1. /\ InStep /\ StepIndex = Len(Steps(call.path)) /\ depth = Len(call.path) + 1
      /\ StepData = call.val /\ StepType = call.type /\ MakeLeaf(fault) = made
  BY LeafTurn
<1>2. /\ Outcome(heap, level, StepName, StepType, parent, 0, StepData, made)
      /\ StepData \in Values \cup {NULL}
  BY <1>1, MadeOutcome
<1>3. /\ place' = Placed /\ before' = ConfigOf(heap', place') /\ heap' \in Heaps
  BY StoreStepFacts
<1>4. made = Made(fault)
  OBVIOUS
<1>5. Len(call.path) < MaxDepth
  BY <1>1, StepCounts
<1> HIDE DEF made
<1>6. /\ heap' = made.heap /\ call' = call
      /\ \/ made.status = "ok" /\ ret' = 0
         \/ made.status = "error" /\ ret' = -1
  BY <1>1 DEF SetLeaf, Return, Crash, Leave
<1>7. CASE made.status = "error" /\ ret' = -1
  <2>1. \/ EndsAsSet
        \/ EndsEarly /\ (fault = "none" => Unused(heap) = {})
    BY <1>1, <1>4, <1>6, <1>7, FailedStep
  <2> QED BY <1>1, <1>5, <1>6, <1>7, <2>1
<1>8. CASE made.status = "ok" /\ ret' = 0
  <2>1. /\ Placing(heap', place')
        /\ Store!StepLegal(before, call.path, call.type, StepIndex)
        /\ Shows(Reached(StepData), heap', place')
    BY <1>1, <1>2, <1>3, <1>6, <1>8, StepDone
  <2> DEFINE c == Reached(StepData)
  <2>2. Shows(c, heap', place')
    BY <2>1
  <2> HIDE DEF c
  <2>3. before' = c
    BY <1>3, <2>1, <2>2, ShowsBefore
  <2>4. EndsAsSet
    BY <1>1, <1>5, <1>8, <2>1, <2>3, AllTakenWritten DEF c
  <2> QED BY <1>1, <1>5, <1>6, <1>8, <2>4
<1> QED BY <1>6, <1>7, <1>8

(* A call ends with one of the outcomes the store allows it.               *)
LEMMA CallEnds ==
    ASSUME SInv, StoreNext, pc' = "done",
           NEW fault, SetParent(fault) \/ SetLeaf(fault)
    PROVE  /\ ret' \in {-1, 0} /\ call' = call /\ pc = "walk"
           /\ \E o \in Store!Outcomes(before, call.path, call.type, call.val, failed') :
                  o.ret = ret' /\ before' = o.config
<1> DEFINE set == Store!Set(before, call.path, call.type, call.val)
           oom == Store!OutOfMemory(before, call.path, call.type)
<1>1. /\ ret' \in {-1, 0} /\ call' = call /\ pc = "walk" /\ InStep
      /\ EndsAsSet \/ EndsEarly
      /\ StepType = "str" => /\ StepIndex = Len(Steps(call.path))
                             /\ Len(call.path) < MaxDepth
                             /\ StepType = call.type
  <2>1. CASE SetParent(fault)
    BY <2>1, ParentEnds DEF InStep
  <2>2. CASE SetLeaf(fault)
    BY <2>2, LeafEnds DEF InStep
  <2> QED BY <2>1, <2>2
<1>2. EndsAsSet => set.ret = ret' /\ before' = set.config
  BY DEF EndsAsSet
<1>3. EndsEarly => \E o \in oom : o.ret = ret' /\ o.config = before'
  BY <1>1, StoreStepFacts, EarlyIsOutOfMemory
<1>4. ASSUME ~failed' PROVE EndsAsSet
  <2>1. Unfailing
    BY <1>1, <1>4 DEF StoreNext
  <2>2. ~SetFirst
    <3>1. Len(call.path) \in Nat
      BY <1>1, StepCounts
    <3> QED BY <3>1 DEF SetFirst, SetParent, SetLeaf
  <2>3. Unused(heap) # {} /\ (SetParent("none") \/ SetLeaf("none"))
    BY <2>1, <2>2 DEF Unfailing
  <2>4. CASE SetParent("none")
    BY <2>3, <2>4, ParentEnds
  <2>5. CASE SetLeaf("none")
    BY <2>3, <2>5, LeafEnds
  <2> QED BY <2>3, <2>4, <2>5
<1>5. set \in Store!Outcomes(before, call.path, call.type, call.val, failed')
  BY DEF Store!Outcomes
<1>6. failed' => \A o \in oom :
         o \in Store!Outcomes(before, call.path, call.type, call.val, failed')
  BY DEF Store!Outcomes
<1> HIDE DEF set, oom
<1>7. CASE EndsAsSet
  BY <1>1, <1>2, <1>5, <1>7
<1>8. CASE EndsEarly /\ failed'
  <2>1. PICK o \in oom : o.ret = ret' /\ o.config = before'
    BY <1>3, <1>8
  <2> QED BY <1>1, <1>6, <1>8, <2>1
<1> QED BY <1>1, <1>4, <1>7, <1>8

(* A call as a whole is one step of the store, and all that goes on within *)
(* it is none.                                                             *)
LEMMA CallIsStep ==
    ASSUME SInv, StoreNext, pc' = "done",
           NEW fault, SetParent(fault) \/ SetLeaf(fault)
    PROVE  Store!Next
<1>1. /\ ret' \in {-1, 0} /\ call' = call /\ pc = "walk"
      /\ \E o \in Store!Outcomes(before, call.path, call.type, call.val, failed') :
             o.ret = ret' /\ before' = o.config
  BY CallEnds
<1>2. call.path \in Paths /\ call.type \in SetTypes /\ call.val \in Values
  BY <1>1 DEF SInv, Along
<1>3. failed' \in BOOLEAN
  BY DEF StoreNext
<1> DEFINE p == call.path
           t == call.type
           v == call.val
           r == ret'
           f == failed'
<1>4. Store!SetPath(p, t, v)
  <2>1. (IF pc = "done"
         THEN [path |-> call.path, type |-> call.type, val |-> call.val,
               ret |-> ret, failed |-> failed]
         ELSE [path |-> <<>>, type |-> "none", val |-> NULL,
               ret |-> 0, failed |-> FALSE]) = Store!NoAnswer
    BY <1>1 DEF Store!NoAnswer, Store!Answer
  <2>2. (IF pc = "done"
         THEN [path |-> call.path, type |-> call.type, val |-> call.val,
               ret |-> ret, failed |-> failed]
         ELSE [path |-> <<>>, type |-> "none", val |-> NULL,
               ret |-> 0, failed |-> FALSE])' = Store!Answer(p, t, v, r, f)
    BY <1>1 DEF Store!Answer
  <2>3. r \in {-1, 0} /\ f \in BOOLEAN
    BY <1>1, <1>3
  <2>4. \E o \in Store!Outcomes(before, p, t, v, f) : o.ret = r /\ before' = o.config
    BY <1>1
  <2> HIDE DEF p, t, v, r, f
  <2> QED BY <2>1, <2>2, <2>3, <2>4 DEF Store!SetPath
<1>5. p \in Paths /\ t \in SetTypes /\ v \in Values
  BY <1>2
<1> HIDE DEF p, t, v
<1> QED BY <1>4, <1>5 DEF Store!Next

(* A step in which neither the configuration nor an answer changes.        *)
LEMMA NoStep ==
    ASSUME before' = before, pc # "done", pc' # "done"
    PROVE  UNCHANGED Store!vars
  BY DEF Store!vars

(* Every step is a step of the store or none.                              *)
LEMMA StoreSteps ==
    SInv /\ [StoreNext]_storeVars => [Store!Next]_(Store!vars)
<1> SUFFICES ASSUME SInv, [StoreNext]_storeVars
             PROVE  [Store!Next]_(Store!vars)
  OBVIOUS
<1>1. CASE UNCHANGED storeVars
  BY <1>1 DEF storeVars, vars, Store!vars
<1>2. CASE StoreNext
  <2>0. /\ pc' \in {"walk", "fault"} => before' = before
        /\ pc' \notin {"walk", "fault"} => before' = ConfigOf(heap', place')
        /\ Placing(heap, place)
        /\ heap' = heap => place' = place
    BY <1>2, StoreStepFacts
  <2>1. ASSUME NEW path \in Paths, NEW type \in SetTypes, NEW val \in Values,
               SetCall(path, type, val)
        PROVE  UNCHANGED Store!vars
    BY <2>0, <2>1, NoStep DEF SetCall
  <2>2. CASE SetFirst
    <3>1. pc = "walk" /\ pc' = "walk"
      BY <2>2, PathAssumption DEF SetFirst, NextTurn
    <3> QED BY <2>0, <3>1, NoStep
  <2>3. ASSUME NEW fault \in AllocFaults, SetParent(fault) \/ SetLeaf(fault)
        PROVE  [Store!Next]_(Store!vars)
    <3>1. CASE pc' = "done"
      BY <1>2, <2>3, <3>1, CallIsStep
    <3>2. CASE pc' # "done"
      <4>1. pc = "walk" /\ pc' \in {"walk", "fault"}
        BY <2>3, <3>2 DEF SetParent, SetLeaf, NextTurn, Return, Crash
      <4> QED BY <2>0, <4>1, NoStep
    <3> QED BY <3>1, <3>2
  <2>4. CASE SetReturned
    <3>1. pc = "done" /\ pc' = "idle" /\ heap' = heap
      BY <2>4 DEF SetReturned
    <3>2. Shows(before, heap, place)
      BY <3>1 DEF SInv, Settled
    <3>3. Shows(before, heap', place') /\ Placing(heap', place')
      BY <2>0, <3>1, <3>2
    <3> DEFINE c == before
    <3>4. before' = c
      <4>1. Shows(c, heap', place')
        BY <3>3
      <4> HIDE DEF c
      <4> QED BY <2>0, <3>1, <3>3, <4>1, ShowsBefore
    <3>5. (IF pc = "done"
           THEN [path |-> call.path, type |-> call.type, val |-> call.val,
                 ret |-> ret, failed |-> failed]
           ELSE [path |-> <<>>, type |-> "none", val |-> NULL,
                 ret |-> 0, failed |-> FALSE])' = Store!NoAnswer
      BY <3>1 DEF Store!NoAnswer, Store!Answer
    <3> QED BY <3>4, <3>5 DEF Store!vars, Store!Next, Store!Taken
  <2> QED BY <1>2, <2>1, <2>2, <2>3, <2>4 DEF StoreNext, Next
<1> QED BY <1>1, <1>2

-----------------------------------------------------------------------------

(* The invariant of the refinement always holds.                           *)
THEOREM StoreInvariance == StoreSpec => []SInv
<1>1. StoreInit => SInv
  BY StoreInitially
<1>2. SInv /\ [StoreNext]_storeVars => SInv'
  BY StoreStep
<1> QED BY <1>1, <1>2, PTL DEF StoreSpec

(* sconf_set is the store: however its loop and the allocations go, every  *)
(* call as a whole is one step of SconfStore, for every value of the       *)
(* constants.                                                              *)
THEOREM AlwaysImplementsStore == StoreSpec => ImplementsStore
<1>1. StoreInit => Store!Init
  BY StoreInitially
<1>2. SInv /\ [StoreNext]_storeVars => [Store!Next]_(Store!vars)
  BY StoreSteps
<1>3. StoreSpec => []SInv
  BY StoreInvariance
<1> QED BY <1>1, <1>2, <1>3, PTL DEF StoreSpec, ImplementsStore, Store!Spec

-----------------------------------------------------------------------------
(* sconf_get answers from the configuration.                               *)

(* The states of the walk through a configuration.                         *)
AtsOf(c) == [status : {"found", "missing", "error"},
             place : DOMAIN c \cup {<<>>}, index : 0 .. UIntMod - 1]

(* A step of the walk leads to such a state.                               *)
LEMMA FindStepType ==
    ASSUME NEW c, NEW at \in AtsOf(c), NEW token, NEW last
    PROVE  Store!Descend(c, at, token, last) \in AtsOf(c)
<1> DEFINE type  == c[at.place].type
           index == IF type = "array" /\ token \in Brackets
                    THEN Element(token, 0) ELSE at.index
           place0 == Append(at.place, IF type = "dict" THEN token ELSE index)
           d == Store!Descend(c, at, token, last)
<1>1. index \in 0 .. UIntMod - 1 /\ 0 \in 0 .. UIntMod - 1
  BY IndexAssumption DEF AtsOf, Element
<1>2. \/ d \in {Store!At("error", <<>>, 0), Store!At("missing", <<>>, 0)}
      \/ place0 \in DOMAIN c /\ d = Store!At("found", place0, index)
  BY DEF Store!Descend, Store!Element, Element
<1> HIDE DEF d, place0, index
<1> QED BY <1>1, <1>2 DEF Store!At, AtsOf, d

(* Find is the walk its definition says it is.                             *)
LEMMA FindWalk ==
    ASSUME NEW c, NEW path \in Seq(Tokens)
    PROVE  LET n == Len(Steps(path))
           IN  \E w \in [0 .. n -> AtsOf(c)] :
                  /\ w[0] = Store!At("found", <<>>, 0)
                  /\ \A i \in 1 .. n :
                        w[i] = IF w[i - 1].status # "found" THEN w[i - 1]
                               ELSE Store!Descend(c, w[i - 1], Steps(path)[i], i = n)
                  /\ Store!Find(c, path) = w[n]
<1> DEFINE n  == Len(Steps(path))
           s0 == Store!At("found", <<>>, 0)
           turn(i, at) == IF at.status # "found" THEN at
                          ELSE Store!Descend(c, at, Steps(path)[i], i = n)
           step == [x \in (1 .. n) \X AtsOf(c) |-> turn(x[1], x[2])]
<1>1. n \in Nat /\ s0 \in AtsOf(c)
  BY StepsType, IndexAssumption DEF Store!At, AtsOf
<1>2. \A i \in 1 .. n, at \in AtsOf(c) : turn(i, at) \in AtsOf(c)
  BY FindStepType
<1>3. Stepping(step, n, AtsOf(c))
  BY <1>2 DEF Stepping
<1>4. \A i \in 1 .. n, at \in AtsOf(c) : step[<<i, at>>] = turn(i, at)
  OBVIOUS
<1> HIDE DEF step, s0, turn, n
<1>5. PICK g : Walking(g, n, AtsOf(c), s0, step)
  BY <1>1, <1>3, WalkExists
<1> DEFINE walk[i \in 0 .. n] ==
              IF i = 0 THEN Store!At("found", <<>>, 0)
              ELSE LET at == walk[i - 1]
                   IN  IF at.status # "found" THEN at
                       ELSE Store!Descend(c, at, Store!Steps(path)[i], i = n)
<1>6. g = [i \in 0 .. n |->
             IF i = 0 THEN Store!At("found", <<>>, 0)
             ELSE LET at == g[i - 1]
                  IN  IF at.status # "found" THEN at
                      ELSE Store!Descend(c, at, Store!Steps(path)[i], i = n)]
  <2>1. \A i \in 0 .. n : i # 0 => i \in 1 .. n /\ g[i - 1] \in AtsOf(c)
    BY <1>1, <1>5 DEF Walking
  <2>2. \A i \in 0 .. n :
            i # 0 => g[i] = IF g[i - 1].status # "found" THEN g[i - 1]
                            ELSE Store!Descend(c, g[i - 1], Steps(path)[i], i = n)
    BY <1>4, <1>5, <2>1 DEF Walking, turn
  <2>3. g[0] = Store!At("found", <<>>, 0) /\ g \in [0 .. n -> AtsOf(c)]
    BY <1>5 DEF Walking, s0
  <2>4. Store!Steps(path) = Steps(path)
    BY SameWords
  <2> QED BY <2>2, <2>3, <2>4
<1>7. walk = [i \in 0 .. n |->
             IF i = 0 THEN Store!At("found", <<>>, 0)
             ELSE LET at == walk[i - 1]
                  IN  IF at.status # "found" THEN at
                      ELSE Store!Descend(c, at, Store!Steps(path)[i], i = n)]
  BY <1>6
<1>8. Store!Find(c, path) = walk[n]
  <2>1. Len(Store!Steps(path)) = n
    BY SameWords DEF n
  <2> QED BY <2>1 DEF Store!Find
<1> HIDE DEF walk
<1>9. /\ walk[0] = Store!At("found", <<>>, 0)
      /\ \A i \in 1 .. n :
            walk[i] = IF walk[i - 1].status # "found" THEN walk[i - 1]
                      ELSE Store!Descend(c, walk[i - 1], Steps(path)[i], i = n)
  BY <1>1, <1>7, SameWords
<1>10. walk \in [0 .. n -> AtsOf(c)]
  <2> DEFINE T == {i \in 0 .. n : walk[i] \in AtsOf(c)}
  <2>1. 0 \in T
    BY <1>1, <1>9 DEF s0
  <2>2. ASSUME NEW i \in 0 .. n - 1, i \in T PROVE i + 1 \in T
    <3>1. i + 1 \in 1 .. n /\ (i + 1) - 1 = i /\ walk[i] \in AtsOf(c) /\ i + 1 \in 0 .. n
      BY <1>1, <2>2
    <3>2. walk[i + 1] = IF walk[i].status # "found" THEN walk[i]
                        ELSE Store!Descend(c, walk[i], Steps(path)[i + 1], i + 1 = n)
      BY <1>9, <3>1
    <3> QED BY <3>1, <3>2, FindStepType
  <2> HIDE DEF T
  <2>3. \A i \in 0 .. n : i \in T
    BY <1>1, <2>1, <2>2, UpTo
  <2> QED BY <1>7, <2>3 DEF T
<1> QED BY <1>8, <1>9, <1>10 DEF n

(* A live node's place is in the configuration, with the node's type.      *)
LEMMA ShownItem ==
    ASSUME NEW h, NEW pl, NEW c, Shows(c, h, pl), NEW n \in Ids, Live(h, n)
    PROVE  pl[n] \in DOMAIN c /\ c[pl[n]].type = h[n].type
<1>1. pl[n] \in DOMAIN c /\ c[pl[n]] = Store!Item(h[n].type, h[n].val)
  BY DEF Shows
<1>2. Store!Item(h[n].type, h[n].val).type = h[n].type
  BY DEF Store!Item
<1> QED BY <1>1, <1>2

(* A node has a child under a key just when the configuration has the      *)
(* place one key below the node's.                                         *)
LEMMA BelowShown ==
    ASSUME NEW h \in Heaps, Slots(h), NEW pl, Placing(h, pl), NEW lv, Tree(h, Root, lv),
           NEW c, Shows(c, h, pl), NEW n \in Ids, Live(h, n), NEW k
    PROVE  /\ Append(pl[n], k) \in DOMAIN c <=> k \in Keys /\ h[n].kids[k] \in Ids
           /\ k \in Keys /\ h[n].kids[k] \in Ids =>
                 Live(h, h[n].kids[k]) /\ pl[h[n].kids[k]] = Append(pl[n], k)
<1>1. pl[n] \in Seq(Keys) /\ \A m \in Ids : pl[m] \in Seq(Keys)
  BY DEF Placing
<1>2. ASSUME k \in Keys, h[n].kids[k] \in Ids
      PROVE  /\ Live(h, h[n].kids[k]) /\ pl[h[n].kids[k]] = Append(pl[n], k)
             /\ Append(pl[n], k) \in DOMAIN c
  <2>1. Live(h, h[n].kids[k]) /\ pl[h[n].kids[k]] = Append(pl[n], k)
    BY <1>2 DEF Tree, NoDangling, Placing
  <2> QED BY <1>2, <2>1 DEF Shows
<1>3. ASSUME Append(pl[n], k) \in DOMAIN c
      PROVE  k \in Keys /\ h[n].kids[k] \in Ids
  <2>1. PICK m \in Ids : Live(h, m) /\ pl[m] = Append(pl[n], k)
    BY <1>3 DEF Shows
  <2> DEFINE s == pl[n]
  <2>2. s \in Seq(Keys) /\ Append(s, k) \in Seq(Keys)
    BY <1>1, <2>1
  <2> HIDE DEF s
  <2>3. Append(s, k)[Len(s) + 1] = k /\ Len(s) + 1 \in 1 .. Len(Append(s, k))
    BY <2>2
  <2>4. k \in Keys
    BY <2>2, <2>3
  <2>5. h[n].kids[k] = m
    BY <2>1, <2>4, BelowIsChild
  <2> QED BY <2>4, <2>5
<1> QED BY <1>2, <1>3

(* What sconf_get looks up in a container.                                 *)
ChildOf(h, p, token, index) ==
    IF h[p].type = "dict" THEN DictSearch(h, token, p) ELSE ArraySearch(h, index, p)

KeyIn(h, p, token, index) == IF h[p].type = "dict" THEN token ELSE index

(* A child is found just when its place is in the configuration.           *)
Stands(h, pl, c, child, there) ==
    /\ child = NULL <=> there \notin DOMAIN c
    /\ child # NULL => child \in Ids /\ Live(h, child) /\ pl[child] = there

(* It is there just when the configuration has its place.                  *)
LEMMA ChildShown ==
    ASSUME NEW h \in Heaps, Slots(h), NEW pl, Placing(h, pl), NEW lv, Tree(h, Root, lv),
           NEW c, Shows(c, h, pl), NEW p \in Ids, Live(h, p),
           h[p].type \in Containers,
           NEW token, h[p].type = "dict" => token \in Tokens,
           NEW index \in 0 .. UIntMod - 1
    PROVE  Stands(h, pl, c, ChildOf(h, p, token, index),
                  Append(pl[p], KeyIn(h, p, token, index)))
<1> DEFINE k == KeyIn(h, p, token, index)
           child == ChildOf(h, p, token, index)
<1>1. /\ Append(pl[p], k) \in DOMAIN c <=> k \in Keys /\ h[p].kids[k] \in Ids
      /\ k \in Keys /\ h[p].kids[k] \in Ids =>
            Live(h, h[p].kids[k]) /\ pl[h[p].kids[k]] = Append(pl[p], k)
  BY BelowShown
<1>2. /\ child # NULL => k \in Keys /\ h[p].kids[k] = child /\ child \in Ids
      /\ k \in Keys /\ h[p].kids[k] \in Ids => child = h[p].kids[k]
  <2>0. h[p] \in Cell
    BY DEF Heaps
  <2>1. CASE h[p].type = "dict"
    <3>1. k = token /\ k \in Keys /\ child = h[p].kids[k] /\ k \in Tokens
      BY <2>1 DEF KeyIn, ChildOf, DictSearch, Keys
    <3> HIDE DEF k, child
    <3>2. h[p].kids[k] \in Ids \cup {NULL}
      BY <2>0, <3>1 DEF Slots, CellSlots, Cell
    <3> QED BY <3>1, <3>2
  <2>2. CASE h[p].type # "dict"
    <3>1. k = index /\ child = ArraySearch(h, index, p)
      BY <2>2 DEF KeyIn, ChildOf
    <3>2. CASE index < h[p].size
      <4>1. index \in Indexes /\ index \in Keys /\ child = h[p].kids[index]
        BY <2>0, <3>1, <3>2, IndexAssumption DEF Cell, Indexes, Keys, ArraySearch
      <4> HIDE DEF k, child
      <4>2. h[p].kids[index] \in Ids \cup {NULL}
        BY <2>0, <3>2, <4>1 DEF Slots, CellSlots, Cell
      <4> QED BY <3>1, <4>1, <4>2
    <3>3. CASE ~(index < h[p].size)
      <4>1. child = NULL
        BY <3>1, <3>3 DEF ArraySearch
      <4> HIDE DEF k, child
      <4>2. ASSUME index \in Keys PROVE h[p].kids[index] \notin Ids
        <5>1. index \in Indexes
          BY <4>2, TokensAssumption DEF Keys
        <5>2. index >= h[p].size
          BY <2>0, <3>3 DEF Cell
        <5> QED BY <5>1, <5>2 DEF Slots, CellSlots
      <4> QED BY <3>1, <4>1, <4>2
    <3> QED BY <3>2, <3>3
  <2> QED BY <2>1, <2>2
<1> HIDE DEF k, child
<1>3. child = NULL => ~(k \in Keys /\ h[p].kids[k] \in Ids)
  BY <1>2, IdsAssumption
<1>4. Stands(h, pl, c, child, Append(pl[p], k))
  BY <1>1, <1>2, <1>3 DEF Stands
<1> QED BY <1>4 DEF k, child

(* Both walks stand at the same node, with the same index last read.       *)
SamePlace(h, pl, s, at) ==
    /\ s.status = "walk" =>
          /\ at.status = "found" /\ Live(h, s.parent)
          /\ pl[s.parent] = at.place /\ s.index = at.index
    /\ s.status # "walk" => at.status = s.status

(* sconf_get has read the index of the token ahead of it: it stands where  *)
(* the store stands before that token, or has given up where the store     *)
(* will with that token.                                                   *)
Ahead(h, pl, token, s, at, next) ==
    /\ s.status = "walk" =>
          /\ at.status = "found" /\ Live(h, s.parent) /\ pl[s.parent] = at.place
          /\ IF h[s.parent].type = "array" /\ token \in Brackets
             THEN ~(IndexOf[token] < 0) /\ s.index = Element(token, 0)
             ELSE s.index = at.index
    /\ s.status # "walk" => next.status = s.status

(* Reading the index of the next token.                                    *)
LEMMA IndexAhead ==
    ASSUME NEW h \in Heaps, NEW pl, NEW c, Shows(c, h, pl),
           NEW d \in GetStates, NEW at \in AtsOf(c), SamePlace(h, pl, d, at),
           NEW token, NEW last, NEW next,
           next = IF at.status # "found" THEN at
                  ELSE Store!Descend(c, at, token, last)
    PROVE  Ahead(h, pl, token, GetIndex(h, d, token), at, next)
<1>1. CASE d.status # "walk"
  <2>1. GetIndex(h, d, token) = d
    BY <1>1 DEF GetIndex
  <2>2. d.status # "found"
    BY DEF GetStates
  <2> QED BY <1>1, <2>1, <2>2 DEF Ahead, SamePlace
<1>2. CASE d.status = "walk"
  <2>1. /\ d.parent \in Ids /\ Live(h, d.parent) /\ at.status = "found"
        /\ pl[d.parent] = at.place /\ d.index = at.index
    BY <1>2 DEF GetStates, SamePlace
  <2>2. c[at.place].type = h[d.parent].type
    <3>1. c[pl[d.parent]].type = h[d.parent].type
      BY <2>1, ShownItem
    <3> QED BY <2>1, <3>1
  <2>3. CASE ~(h[d.parent].type = "array" /\ token \in Brackets)
    BY <1>2, <2>1, <2>3 DEF GetIndex, Ahead
  <2>4. CASE h[d.parent].type = "array" /\ token \in Brackets /\ IndexOf[token] < 0
    <3>1. GetIndex(h, d, token) = GetState("error", NULL, 0)
      BY <1>2, <2>4 DEF GetIndex
    <3>2. next = Store!At("error", <<>>, 0)
      BY <2>1, <2>2, <2>4 DEF Store!Descend
    <3> QED BY <3>1, <3>2 DEF GetState, Store!At, Ahead
  <2>5. CASE h[d.parent].type = "array" /\ token \in Brackets /\ ~(IndexOf[token] < 0)
    <3>1. GetIndex(h, d, token) = GetState("walk", d.parent, IndexOf[token] % UIntMod)
      BY <1>2, <2>5 DEF GetIndex
    <3> QED BY <2>1, <2>5, <3>1 DEF GetState, Ahead, Element
  <2> QED BY <2>3, <2>4, <2>5
<1> QED BY <1>1, <1>2

(* What SconfStore's Descend does once the index is known to be one.       *)
Step(c, type, token, last, index, there) ==
    IF type # "array" /\ token \in Brackets /\ ~last
    THEN Store!At("missing", <<>>, 0)
    ELSE IF type \notin Containers \/ (type = "dict" /\ token = NULL)
    THEN Store!At("error", <<>>, 0)
    ELSE IF there \notin DOMAIN c THEN Store!At("missing", <<>>, 0)
    ELSE Store!At("found", there, index)

(* Where the store goes with the token sconf_get has read the index of.    *)
LEMMA StoreDescends ==
    ASSUME NEW h \in Heaps, NEW pl, NEW c, Shows(c, h, pl),
           NEW s \in GetStates, NEW at, s.status = "walk",
           NEW token, NEW last, NEW next, Ahead(h, pl, token, s, at, next)
    PROVE  /\ s.parent \in Ids /\ Live(h, s.parent) /\ s.index \in 0 .. UIntMod - 1
           /\ Store!Descend(c, at, token, last)
              = Step(c, h[s.parent].type, token, last, s.index,
                     Append(pl[s.parent], KeyIn(h, s.parent, token, s.index)))
<1> DEFINE p == s.parent
           t == c[at.place].type
           index == IF t = "array" /\ token \in Brackets
                    THEN Element(token, 0) ELSE at.index
           place1 == Append(at.place, IF t = "dict" THEN token ELSE index)
<1>1. /\ p \in Ids /\ Live(h, p) /\ s.index \in 0 .. UIntMod - 1
      /\ at.status = "found" /\ pl[p] = at.place
      /\ IF h[p].type = "array" /\ token \in Brackets
         THEN ~(IndexOf[token] < 0) /\ s.index = Element(token, 0)
         ELSE s.index = at.index
  BY DEF GetStates, Ahead
<1>2. t = h[p].type
  <2>1. c[pl[p]].type = h[p].type
    BY <1>1, ShownItem
  <2> QED BY <1>1, <2>1
<1>3. Store!Descend(c, at, token, last)
      = IF t = "array" /\ token \in Brackets /\ IndexOf[token] < 0
        THEN Store!At("error", <<>>, 0)
        ELSE IF t # "array" /\ token \in Brackets /\ ~last
        THEN Store!At("missing", <<>>, 0)
        ELSE IF t \notin Containers \/ (t = "dict" /\ token = NULL)
        THEN Store!At("error", <<>>, 0)
        ELSE IF place1 \notin DOMAIN c THEN Store!At("missing", <<>>, 0)
        ELSE Store!At("found", place1, index)
  BY SameWords DEF Store!Descend
<1>4. index = s.index
  BY <1>1, <1>2
<1>5. place1 = Append(pl[p], KeyIn(h, p, token, s.index))
  BY <1>1, <1>2, <1>4 DEF KeyIn
<1>6. ~(t = "array" /\ token \in Brackets /\ IndexOf[token] < 0)
  BY <1>1, <1>2
<1> HIDE DEF t, index, place1, p
<1>7. Store!Descend(c, at, token, last)
      = Step(c, h[p].type, token, last, s.index,
             Append(pl[p], KeyIn(h, p, token, s.index)))
  BY <1>2, <1>3, <1>4, <1>5, <1>6 DEF Step
<1> QED BY <1>1, <1>7 DEF p

(* Going down with a token that is not the last.                           *)
LEMMA DescendAgrees ==
    ASSUME NEW h \in Heaps, Slots(h), NEW pl, Placing(h, pl), NEW lv, Tree(h, Root, lv),
           NEW c, Shows(c, h, pl),
           NEW s \in GetStates, NEW at, s.status = "walk",
           NEW token \in Tokens, NEW next, Ahead(h, pl, token, s, at, next),
           NEW last, ~last, next = Store!Descend(c, at, token, last)
    PROVE  SamePlace(h, pl, GetDescend(h, s, token), next)
<1> DEFINE p     == s.parent
           child == ChildOf(h, p, token, s.index)
           there == Append(pl[p], KeyIn(h, p, token, s.index))
           d     == GetDescend(h, s, token)
           i     == s.index
<1>1. p \in Ids /\ Live(h, p) /\ i \in 0 .. UIntMod - 1
  BY StoreDescends
<1>2. next = Step(c, h[p].type, token, last, i, there)
  BY StoreDescends
<1>3. token # NULL
  BY TokensAssumption
<1>4. d = IF token \in Brackets /\ h[p].type # "array"
          THEN GetState("missing", NULL, 0)
          ELSE IF h[p].type \notin Containers THEN GetState("error", NULL, 0)
          ELSE IF child = NULL THEN GetState("missing", NULL, 0)
          ELSE GetState("walk", child, i)
  BY DEF GetDescend, ChildOf
<1>5. h[p].type \in Containers => Stands(h, pl, c, child, there)
  BY <1>1, ChildShown
<1> HIDE DEF child, there, d, p, i
<1>6. SamePlace(h, pl, d, next)
  <2>1. CASE token \in Brackets /\ h[p].type # "array"
    <3>1. d = GetState("missing", NULL, 0) /\ next = Store!At("missing", <<>>, 0)
      BY <1>2, <1>4, <2>1 DEF Step
    <3> QED BY <3>1 DEF SamePlace, GetState, Store!At
  <2>2. CASE /\ ~(token \in Brackets /\ h[p].type # "array")
             /\ h[p].type \notin Containers
    <3>1. d = GetState("error", NULL, 0) /\ next = Store!At("error", <<>>, 0)
      BY <1>2, <1>4, <2>2 DEF Step
    <3> QED BY <3>1 DEF SamePlace, GetState, Store!At
  <2>3. CASE /\ ~(token \in Brackets /\ h[p].type # "array")
             /\ h[p].type \in Containers /\ child = NULL
    <3>1. there \notin DOMAIN c
      BY <1>5, <2>3 DEF Stands
    <3>2. d = GetState("missing", NULL, 0) /\ next = Store!At("missing", <<>>, 0)
      BY <1>2, <1>3, <1>4, <2>3, <3>1 DEF Step
    <3> QED BY <3>2 DEF SamePlace, GetState, Store!At
  <2>4. CASE /\ ~(token \in Brackets /\ h[p].type # "array")
             /\ h[p].type \in Containers /\ child # NULL
    <3>1. there \in DOMAIN c /\ Live(h, child) /\ pl[child] = there
      BY <1>5, <2>4 DEF Stands
    <3>2. d = GetState("walk", child, i) /\ next = Store!At("found", there, i)
      BY <1>2, <1>3, <1>4, <2>4, <3>1 DEF Step
    <3> QED BY <3>1, <3>2 DEF SamePlace, GetState, Store!At
  <2> QED BY <2>1, <2>2, <2>3, <2>4
<1> QED BY <1>6 DEF d

(* The two answers are the same.                                           *)
Answered(pl, got, found) ==
    /\ got.status = found.status
    /\ found.status = "found" => pl[got.node] = found.place

(* The answer.                                                             *)
LEMMA AnswerAgrees ==
    ASSUME NEW h \in Heaps, Slots(h), NEW pl, Placing(h, pl), NEW lv, Tree(h, Root, lv),
           NEW c, Shows(c, h, pl), NEW path \in Seq(Tokens),
           NEW s \in GetStates, NEW at, s = GetWalk(h, path),
           NEW next, Ahead(h, pl, LastToken(path), s, at, next),
           NEW last, last,
           s.status = "walk" => next = Store!Descend(c, at, LastToken(path), last)
    PROVE  Answered(pl, Get(h, path), next)
<1> DEFINE token == LastToken(path)
           p     == s.parent
           child == ChildOf(h, p, token, s.index)
           there == Append(pl[p], KeyIn(h, p, token, s.index))
           got   == Get(h, path)
           answer(status, n) == [status |-> status, node |-> n]
<1>0. ASSUME s.status = "walk", NEW tok, Ahead(h, pl, tok, s, at, next), NEW final
      PROVE  /\ s.parent \in Ids /\ Live(h, s.parent) /\ s.index \in 0 .. UIntMod - 1
             /\ Store!Descend(c, at, tok, final)
                = Step(c, h[s.parent].type, tok, final, s.index,
                       Append(pl[s.parent], KeyIn(h, s.parent, tok, s.index)))
  <2>1. /\ s \in GetStates /\ s.status = "walk" /\ h \in Heaps
        /\ Ahead(h, pl, tok, s, at, next) /\ Shows(c, h, pl)
    BY <1>0
  <2> QED BY ONLY <2>1, StoreDescends
<1>1. got = IF s.status # "walk" THEN answer(s.status, NULL)
            ELSE IF h[p].type \notin Containers THEN answer("error", NULL)
            ELSE IF h[p].type = "dict" /\ path = <<>> THEN answer("error", NULL)
            ELSE IF child = NULL THEN answer("missing", NULL)
            ELSE answer("found", child)
  BY DEF Get, ChildOf
<1>2. token \in Tokens \cup {NULL} /\ (token = NULL <=> path = <<>>)
  BY StepsType, TokensAssumption DEF LastToken
<1>3. CASE s.status # "walk"
  <2>1. next.status = s.status /\ s.status # "found"
    BY <1>3 DEF Ahead, GetStates
  <2> HIDE DEF got
  <2>2. Answered(pl, got, next)
    BY <1>1, <1>3, <2>1 DEF Answered
  <2> QED BY <2>2 DEF got
<1>4. CASE s.status = "walk"
  <2> DEFINE i == s.index
             t == h[p].type
  <2>0. /\ Ahead(h, pl, token, s, at, next)
        /\ next = Store!Descend(c, at, token, last)
    BY <1>4
  <2>1. /\ p \in Ids /\ Live(h, p) /\ i \in 0 .. UIntMod - 1
        /\ Store!Descend(c, at, token, last) = Step(c, t, token, last, i, there)
    <3> HIDE DEF token, got
    <3>1. Ahead(h, pl, token, s, at, next) /\ s.status = "walk"
      BY <1>4, <2>0
    <3>2. /\ s.parent \in Ids /\ Live(h, s.parent) /\ s.index \in 0 .. UIntMod - 1
          /\ Store!Descend(c, at, token, last)
             = Step(c, h[s.parent].type, token, last, s.index,
                    Append(pl[s.parent], KeyIn(h, s.parent, token, s.index)))
      BY <3>1, <1>0
    <3> QED BY <3>2
  <2>2. t \in Containers /\ ~(t = "dict" /\ token = NULL) =>
           Stands(h, pl, c, child, there)
    <3> SUFFICES ASSUME t \in Containers, ~(t = "dict" /\ token = NULL)
                 PROVE  Stands(h, pl, c, child, there)
      OBVIOUS
    <3>1. t = "dict" => token \in Tokens
      BY <1>2
    <3> HIDE DEF token
    <3> QED BY <2>1, <3>1, ChildShown
  <2>3. got = IF t \notin Containers \/ (t = "dict" /\ token = NULL)
              THEN answer("error", NULL)
              ELSE IF child = NULL THEN answer("missing", NULL)
              ELSE answer("found", child)
    <3> HIDE DEF got, child, token
    <3> QED BY <1>1, <1>2, <1>4
  <2> HIDE DEF got, child, there, token, p, t, i
  <2>4. Answered(pl, got, next)
    <3>1. CASE t \notin Containers \/ (t = "dict" /\ token = NULL)
      <4>1. next = Store!At("error", <<>>, 0)
        BY <2>0, <2>1, <3>1 DEF Step
      <4> QED BY <2>3, <3>1, <4>1 DEF Store!At, Answered
    <3>2. CASE ~(t \notin Containers \/ (t = "dict" /\ token = NULL)) /\ child = NULL
      <4>1. next = Store!At("missing", <<>>, 0)
        BY <2>0, <2>1, <2>2, <3>2 DEF Step, Stands
      <4> QED BY <2>3, <3>2, <4>1 DEF Store!At, Answered
    <3>3. CASE ~(t \notin Containers \/ (t = "dict" /\ token = NULL)) /\ child # NULL
      <4>1. next = Store!At("found", there, i) /\ pl[child] = there
        BY <2>0, <2>1, <2>2, <3>3 DEF Step, Stands
      <4> QED BY <2>3, <3>3, <4>1 DEF Store!At, Answered
    <3> QED BY <3>1, <3>2, <3>3
  <2> QED BY <2>4 DEF got
<1> QED BY <1>3, <1>4

(* sconf_get finds what the configuration has, whatever the nodes hold     *)
(* that it does not show.                                                  *)
LEMMA GetIsFind ==
    ASSUME NEW h \in Heaps, Slots(h), NEW pl, Placing(h, pl), NEW lv, Tree(h, Root, lv),
           NEW c, Shows(c, h, pl), NEW path \in Seq(Tokens)
    PROVE  Answered(pl, Get(h, path), Store!Find(c, path))
<1> DEFINE N == Len(path)
           M == Len(Steps(path))
           first == Store!At("found", <<>>, 0)
<1>1. /\ N \in Nat /\ M \in Nat \ {0} /\ (path # <<>> => M = N /\ Steps(path) = path)
      /\ \A i \in 1 .. N : Steps(path)[i] = path[i] /\ path[i] \in Tokens
      /\ Steps(path)[M] = LastToken(path)
      /\ LastToken(path) \in Tokens \cup {NULL}
  BY StepsType DEF Steps
<1>2. PICK w \in [0 .. N -> GetStates] :
          /\ w[0] = GetState("walk", Root, 0)
          /\ \A i \in 1 .. N : w[i] = GetTurn(h, path, i, w[i - 1])
          /\ GetWalk(h, path) = w[N]
  BY GetWalkDef
<1>3. PICK v \in [0 .. M -> AtsOf(c)] :
          /\ v[0] = first
          /\ \A i \in 1 .. M :
                v[i] = IF v[i - 1].status # "found" THEN v[i - 1]
                       ELSE Store!Descend(c, v[i - 1], Steps(path)[i], i = M)
          /\ Store!Find(c, path) = v[M]
  BY FindWalk
<1>4. /\ w[0].status = "walk" /\ SamePlace(h, pl, w[0], v[0])
      /\ w[0].parent = Root /\ w[0].index = 0
  <2>1. Live(h, Root) /\ pl[Root] = <<>>
    BY DEF Tree, Placing
  <2> QED BY <1>2, <1>3, <2>1 DEF SamePlace, GetState, Store!At
<1> HIDE DEF N, M, first
<1>5. CASE path = <<>>
  <2>1. M = 1 /\ N = 0 /\ LastToken(path) = NULL /\ Steps(path)[1] = NULL
    BY <1>5 DEF M, N, LastToken, Steps
  <2>2. v[1] = Store!Descend(c, v[0], NULL, 1 = M)
    <3>1. v[1] = IF v[0].status # "found" THEN v[0]
                 ELSE Store!Descend(c, v[0], Steps(path)[1], 1 = M)
      <4>1. 1 \in 1 .. M /\ 1 - 1 = 0
        BY <2>1
      <4> QED BY <1>3, <4>1
    <3>2. v[0].status = "found"
      BY <1>3 DEF first, Store!At
    <3> QED BY <2>1, <3>1, <3>2
  <2>3. Ahead(h, pl, NULL, w[0], v[0], v[1])
    <3>1. NULL \notin Brackets
      BY TokensAssumption DEF Tokens
    <3> QED BY <1>4, <3>1 DEF SamePlace, Ahead
  <2>4. w[0] \in GetStates
    BY <1>1, <1>2
  <2> DEFINE s == w[0]
             at == v[0]
             next == v[1]
             last == 1 = M
  <2>5. /\ s \in GetStates /\ s = GetWalk(h, path)
        /\ Ahead(h, pl, LastToken(path), s, at, next)
        /\ next = Store!Descend(c, at, LastToken(path), last) /\ last = TRUE
        /\ Store!Find(c, path) = next
    BY <1>2, <1>3, <2>1, <2>2, <2>3, <2>4
  <2> HIDE DEF s, at, next, last
  <2> QED BY <2>5, AnswerAgrees
<1>6. CASE path # <<>>
  <2>0. N = M /\ N \in Nat \ {0} /\ Steps(path) = path
    BY <1>1, <1>6
  <2>1. ASSUME NEW i \in 1 .. N, NEW d \in GetStates, SamePlace(h, pl, d, v[i - 1])
        PROVE  Ahead(h, pl, path[i], GetIndex(h, d, path[i]), v[i - 1], v[i])
    <3>1. i - 1 \in 0 .. M /\ i \in 1 .. M /\ v[i - 1] \in AtsOf(c)
      BY <2>0, <2>1
    <3>2. v[i] = IF v[i - 1].status # "found" THEN v[i - 1]
                 ELSE Store!Descend(c, v[i - 1], path[i], i = M)
      BY <1>3, <2>0, <3>1
    <3> QED BY <2>1, <3>1, <3>2, IndexAhead
  <2> DEFINE T == {i \in 0 .. N : i # 0 => Ahead(h, pl, path[i], w[i], v[i - 1], v[i])}
  <2>2. 0 \in T
    BY <1>1
  <2>3. ASSUME NEW i \in 0 .. N - 1, i \in T PROVE i + 1 \in T
    <3> DEFINE s == w[i]
               d == IF i + 1 = 1 \/ s.status # "walk" THEN s
                    ELSE GetDescend(h, s, path[i])
    <3>1. /\ i + 1 \in 1 .. N /\ (i + 1) - 1 = i /\ i \in 0 .. N /\ s \in GetStates
      BY <1>1, <1>2, <2>3
    <3>2. w[i + 1] = GetIndex(h, d, path[i + 1])
      BY <1>2, <3>1 DEF GetTurn
    <3>3. d \in GetStates /\ SamePlace(h, pl, d, v[i])
      <4>1. CASE i = 0
        BY <1>4, <3>1, <4>1
      <4>2. CASE i # 0 /\ s.status # "walk"
        <5>1. Ahead(h, pl, path[i], s, v[i - 1], v[i]) /\ d = s
          BY <2>3, <4>2
        <5> QED BY <3>1, <4>2, <5>1 DEF Ahead, SamePlace
      <4>3. CASE i # 0 /\ s.status = "walk"
        <5>1. /\ Ahead(h, pl, path[i], s, v[i - 1], v[i])
              /\ i \in 1 .. N /\ i \in 1 .. M /\ i # M /\ i + 1 # 1
              /\ path[i] \in Tokens
          BY <1>1, <2>0, <2>3, <3>1, <4>3
        <5>2. v[i - 1].status = "found"
          BY <4>3, <5>1 DEF Ahead
        <5>3. v[i] = Store!Descend(c, v[i - 1], path[i], i = M)
          BY <1>3, <2>0, <5>1, <5>2
        <5>4. d = GetDescend(h, s, path[i])
          BY <4>3, <5>1
        <5> DEFINE at == v[i - 1]
                   next == v[i]
                   token == path[i]
                   last == i = M
        <5>5. /\ token \in Tokens /\ Ahead(h, pl, token, s, at, next)
              /\ next = Store!Descend(c, at, token, last) /\ ~last
          BY <5>1, <5>3
        <5> HIDE DEF at, next, token, s, last
        <5>6. SamePlace(h, pl, GetDescend(h, s, token), next)
          BY <3>1, <4>3, <5>5, DescendAgrees
        <5>7. GetDescend(h, s, token) \in GetStates
          BY <3>1, <4>3, <5>5, GetDescendType
        <5> QED BY <5>4, <5>6, <5>7 DEF next, token
      <4> QED BY <4>1, <4>2, <4>3
    <3> HIDE DEF d
    <3>4. Ahead(h, pl, path[i + 1], GetIndex(h, d, path[i + 1]), v[i], v[i + 1])
      BY <2>1, <3>1, <3>3
    <3> QED BY <3>1, <3>2, <3>4
  <2> HIDE DEF T
  <2>4. \A i \in 0 .. N : i \in T
    BY <2>0, <2>2, <2>3, UpTo
  <2>5. /\ Ahead(h, pl, path[N], w[N], v[N - 1], v[N]) /\ w[N] \in GetStates
        /\ N \in 1 .. M /\ LastToken(path) = path[N]
    BY <1>1, <1>2, <2>0, <2>4 DEF T
  <2> DEFINE s == w[N]
             at == v[N - 1]
             next == v[N]
  <2> DEFINE last == N = M
  <2>6. s.status = "walk" => next = Store!Descend(c, at, LastToken(path), last)
    <3> SUFFICES ASSUME s.status = "walk"
                 PROVE  next = Store!Descend(c, at, LastToken(path), last)
      OBVIOUS
    <3>1. at.status = "found"
      BY <2>5 DEF Ahead
    <3> QED BY <1>3, <2>0, <2>5, <3>1
  <2>7. /\ s \in GetStates /\ s = GetWalk(h, path)
        /\ Ahead(h, pl, LastToken(path), s, at, next)
        /\ Store!Find(c, path) = next /\ last = TRUE
    BY <1>2, <1>3, <2>0, <2>5
  <2> HIDE DEF s, at, next, last
  <2>8. Answered(pl, Get(h, path), next)
    BY <2>6, <2>7, AnswerAgrees
  <2> QED BY <2>7, <2>8
<1> QED BY <1>5, <1>6

(* sconf_get answers every path from the configuration alone, for every    *)
(* value of the constants.                                                 *)
THEOREM AlwaysGetAnswersStore == StoreSpec => []GetAnswersStore
<1>1. SInv => GetAnswersStore
  <2> SUFFICES ASSUME SInv, pc = "idle", NEW path \in Paths
               PROVE  Answered(place, Get(heap, path), Store!Find(before, path))
    BY DEF GetAnswersStore, Answered
  <2>1. /\ heap \in Heaps /\ Slots(heap) /\ Placing(heap, place)
        /\ Tree(heap, Root, level) /\ Shows(before, heap, place)
        /\ path \in Seq(Tokens)
    BY WalkFacts, PathAssumption DEF SInv, IInv, Forest, Settled
  <2> QED BY <2>1, GetIsFind
<1>2. StoreSpec => []SInv
  BY StoreInvariance
<1> QED BY <1>1, <1>2, PTL
=============================================================================
