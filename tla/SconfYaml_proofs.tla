--------------------------- MODULE SconfYaml_proofs ---------------------------
(***************************************************************************)
(* Proofs about sconf_yaml_read: whatever libyaml reports and whichever    *)
(* allocation fails, the nodes stay one tree of bounded depth, the parent  *)
(* stack is the branch of it that libyaml is in, and what is read without  *)
(* an error is what the documents say.                                     *)
(***************************************************************************)
EXTENDS SconfYaml, SconfNodes_proofs, SconfInduction, FiniteSetTheorems,
        SequenceTheorems

-----------------------------------------------------------------------------
(* libyaml.                                                                *)

Frames ==
    [kind : {"mapping", "sequence"}, loc : Seq(Tokens \cup Nat \cup {NULL}),
     key : Tokens \cup {NULL}, count : Nat, nested : BOOLEAN]

(* Something is open in the phase "open" alone.                            *)
StreamOK ==
    /\ yaml.open \in Seq(Frames)
    /\ yaml.phase \in {"begin", "stream", "node", "open", "close", "over"}
    /\ yaml.open # <<>> <=> yaml.phase = "open"

(* opened has the same containers open as open, as far as both reach.      *)
SameKinds(open, opened) ==
    \A i \in 1 .. Len(open) :
        i <= Len(opened) => opened[i].kind = open[i].kind

(* What an event says about the place in the stream it comes at.           *)
EventFits(e) ==
    /\ e.type = "stream_start" => yaml.phase = "begin"
    /\ e.type \in {"stream_end", "document_start"} => yaml.phase = "stream"
    /\ e.type = "document_end" => yaml.phase = "close"
    /\ e.type \in {"mapping_end", "sequence_end"} => yaml.phase = "open"
    /\ e.type \in {"scalar", "alias", "mapping_start", "sequence_start"} =>
          yaml.phase \in {"node", "open"}
    /\ e.type \in {"stream_start", "stream_end", "document_start",
                   "document_end", "mapping_end", "sequence_end", "scalar",
                   "alias", "mapping_start", "sequence_start"}
    /\ e.text \in Tokens \cup {NULL}
    /\ e.type = "scalar" => e.text \in Tokens

(* Where an event leaves libyaml.                                          *)
EventMoves(e) ==
    /\ StreamOK'
    /\ SameKinds(yaml.open, yaml'.open)
    /\ e.type = "stream_start"   => yaml'.phase = "stream"
    /\ e.type = "stream_end"     => yaml'.phase = "over"
    /\ e.type = "document_start" => yaml'.phase = "node"
    /\ e.type = "document_end"   => yaml'.phase = "stream"
    /\ e.type \in {"mapping_start", "sequence_start"} =>
          /\ yaml'.phase = "open"
          /\ Len(yaml'.open) = Len(yaml.open) + 1
          /\ yaml'.open[Len(yaml.open) + 1].kind =
                IF e.type = "mapping_start" THEN "mapping" ELSE "sequence"
    /\ e.type \in {"mapping_end", "sequence_end"} =>
          /\ yaml'.phase \in {"open", "close"}
          /\ Len(yaml'.open) = Len(yaml.open) - 1
    /\ e.type \in {"scalar", "alias"} =>
          /\ yaml'.phase = IF yaml.phase = "open" THEN "open" ELSE "close"
          /\ Len(yaml'.open) = Len(yaml.open)

(* libyaml reports an event only where it belongs.                         *)
LEMMA EventsFit ==
    ASSUME StreamOK, NEW e \in NextEvents
    PROVE  EventFits(e)
<1>1. \A n \in NodeEvents :
         /\ n.type \in {"scalar", "alias", "mapping_start", "sequence_start"}
         /\ n.text \in Tokens \cup {NULL}
         /\ n.type = "scalar" => n.text \in Tokens
  BY DEF NodeEvents, Event, Plain
<1>2. \A t : Plain(t).type = t /\ Plain(t).text = NULL
  BY DEF Plain, Event
<1> HIDE DEF NodeEvents, Plain
<1>3. CASE yaml.phase = "begin"
  BY <1>2, <1>3 DEF NextEvents, EventFits
<1>4. CASE yaml.phase = "stream"
  BY <1>2, <1>4 DEF NextEvents, EventFits
<1>5. CASE yaml.phase = "node"
  BY <1>1, <1>5 DEF NextEvents, EventFits
<1>6. CASE yaml.phase = "close"
  BY <1>2, <1>6 DEF NextEvents, EventFits
<1>7. CASE yaml.phase = "over"
  BY <1>7 DEF NextEvents, EventFits
<1>8. CASE yaml.phase = "open"
  BY <1>1, <1>2, <1>8 DEF NextEvents, EventFits, More
<1> QED BY <1>3, <1>4, <1>5, <1>6, <1>7, <1>8 DEF StreamOK

(* An event leaves the containers that stay open as they are, and opens or *)
(* closes the innermost one.                                               *)
LEMMA EventsMove ==
    ASSUME StreamOK, NEW e \in NextEvents, Emit(e)
    PROVE  EventMoves(e)
<1> DEFINE open == yaml.open
           n    == Len(yaml.open)
           adv  == Advanced(e)
           loc  == Place(e)
<1>1. EventFits(e)
  BY EventsFit
<1>2. open \in Seq(Frames) /\ n \in Nat
  BY DEF StreamOK
<1>2s. \A s \in Seq(Frames) : s # <<>> <=> Len(s) > 0
  OBVIOUS
<1>3. adv \in Seq(Frames) /\ Len(adv) = n /\ SameKinds(open, adv)
  <2>1. CASE open = <<>>
    BY <2>1 DEF Advanced, SameKinds
  <2>2. CASE open # <<>>
    <3> DEFINE k == IF IsKey(e) THEN e.text ELSE NULL
               c == IF IsKey(e) THEN Inner.count ELSE Inner.count + 1
               b == e.type = "sequence_start"
               f == [Inner EXCEPT !.key = k, !.count = c, !.nested = b]
    <3>1. n \in 1 .. n /\ open[n] \in Frames /\ open[n] = Inner
      BY <1>2, <2>2 DEF Inner
    <3>2. f \in Frames /\ f.kind = open[n].kind
      <4>1. k \in Tokens \cup {NULL}
        BY <1>1 DEF EventFits
      <4>2. c \in Nat
        BY <3>1 DEF Frames
      <4>3. b \in BOOLEAN
        OBVIOUS
      <4> HIDE DEF k, c, b
      <4> QED BY <3>1, <4>1, <4>2, <4>3 DEF Frames
    <3>3. adv = [open EXCEPT ![n] = f]
      BY <2>2 DEF Advanced
    <3> HIDE DEF f, adv
    <3> QED BY <1>2, <3>1, <3>2, <3>3 DEF SameKinds
  <2> QED BY <2>1, <2>2
<1>4. loc \in Seq(Tokens \cup Nat \cup {NULL})
  <2>1. CASE open = <<>>
    BY <2>1 DEF Place
  <2>2. CASE open # <<>>
    <3>1. open[n] \in Frames
      BY <1>2, <2>2
    <3>2. /\ open[n].loc \in Seq(Tokens \cup Nat \cup {NULL})
          /\ open[n].count \in Nat
          /\ open[n].key \in Tokens \cup {NULL}
      BY <3>1 DEF Frames
    <3>3. loc = Append(open[n].loc, IF open[n].kind = "sequence"
                                    THEN open[n].count ELSE open[n].key)
      BY <2>2 DEF Place, Inner
    <3> HIDE DEF loc
    <3> QED BY <3>2, <3>3
  <2> QED BY <2>1, <2>2
<1> HIDE DEF adv, loc
<1>5. ASSUME NEW kind \in {"mapping", "sequence"},
             yaml' = [phase |-> "open", open |-> Append(adv, Frame(kind, loc))]
      PROVE  /\ StreamOK' /\ SameKinds(open, yaml'.open)
             /\ yaml'.phase = "open"
             /\ Len(yaml'.open) = n + 1
             /\ yaml'.open[n + 1].kind = kind
  <2> DEFINE f == Frame(kind, loc)
  <2>1. f \in Frames /\ f.kind = kind
    BY <1>4 DEF Frame, Frames
  <2>2. yaml'.open = Append(adv, f) /\ yaml'.phase = "open"
    BY <1>5
  <2> HIDE DEF f
  <2>3. yaml'.open \in Seq(Frames) /\ Len(yaml'.open) = n + 1
    BY <1>3, <2>1, <2>2
  <2>4. yaml'.open[n + 1] = f /\ \A i \in 1 .. n : yaml'.open[i] = adv[i]
    BY <1>2, <1>3, <2>1, <2>2
  <2>5. StreamOK'
    BY <1>2, <1>2s, <2>2, <2>3 DEF StreamOK
  <2>6. SameKinds(open, yaml'.open)
    <3>1. \A i \in 1 .. n : adv[i].kind = open[i].kind
      BY <1>2, <1>3 DEF SameKinds
    <3> HIDE DEF n
    <3>2. \A i \in 1 .. n : yaml'.open[i].kind = open[i].kind
      BY <2>4, <3>1
    <3> QED BY <3>2 DEF SameKinds, n
  <2> QED BY <2>1, <2>2, <2>3, <2>4, <2>5, <2>6
<1>6. CASE e.type \in {"stream_start", "stream_end", "document_start",
                       "document_end"}
  <2>1. yaml'.open = <<>>
    BY <1>6 DEF Emit
  <2>2. /\ e.type = "stream_start"   => yaml'.phase = "stream"
        /\ e.type = "stream_end"     => yaml'.phase = "over"
        /\ e.type = "document_start" => yaml'.phase = "node"
        /\ e.type = "document_end"   => yaml'.phase = "stream"
    BY <1>6 DEF Emit
  <2>3. StreamOK' /\ SameKinds(open, yaml'.open)
    BY <1>2, <1>6, <2>1, <2>2 DEF StreamOK, SameKinds
  <2> QED BY <1>6, <2>2, <2>3 DEF EventMoves
<1>7. CASE e.type \in {"mapping_start", "sequence_start"}
  <2> DEFINE k == IF e.type = "mapping_start" THEN "mapping" ELSE "sequence"
  <2>1. yaml' = [phase |-> "open", open |-> Append(adv, Frame(k, loc))]
    BY <1>7 DEF Emit, adv, loc
  <2>2. k \in {"mapping", "sequence"}
    OBVIOUS
  <2>3. /\ StreamOK' /\ SameKinds(open, yaml'.open)
        /\ yaml'.phase = "open"
        /\ Len(yaml'.open) = n + 1
        /\ yaml'.open[n + 1].kind = k
    BY <1>5, <2>1, <2>2
  <2> QED BY <1>7, <2>3 DEF EventMoves
<1>8. CASE e.type \in {"mapping_end", "sequence_end"}
  <2>1. yaml' = [phase |-> IF n = 1 THEN "close" ELSE "open",
                 open |-> SubSeq(open, 1, n - 1)]
    BY <1>8 DEF Emit
  <2>2. open # <<>> /\ n >= 1
    BY <1>1, <1>2, <1>8 DEF EventFits, StreamOK
  <2>3. /\ SubSeq(open, 1, n - 1) \in Seq(Frames)
        /\ Len(SubSeq(open, 1, n - 1)) = n - 1
        /\ \A i \in 1 .. n - 1 : SubSeq(open, 1, n - 1)[i] = open[i]
    BY <1>2, <2>2
  <2>4. yaml'.phase = (IF n = 1 THEN "close" ELSE "open")
        /\ yaml'.open = SubSeq(open, 1, n - 1)
    BY <2>1
  <2>5. StreamOK'
    <3>1. yaml'.open # <<>> <=> n - 1 > 0
      BY <1>2s, <2>3, <2>4
    <3>2. n = 1 <=> ~(n - 1 > 0)
      <4> HIDE DEF n
      <4> QED BY <1>2, <2>2
    <3>3. yaml'.open \in Seq(Frames)
      BY <2>3, <2>4
    <3> HIDE DEF n
    <3>4. yaml'.open # <<>> <=> yaml'.phase = "open"
      BY <2>4, <3>1, <3>2
    <3>5. yaml'.phase \in {"open", "close"}
      BY <2>4
    <3> QED BY <3>3, <3>4, <3>5 DEF StreamOK
  <2>6. SameKinds(open, yaml'.open)
    BY <1>2, <2>3, <2>4 DEF SameKinds
  <2> QED BY <1>8, <2>3, <2>4, <2>5, <2>6 DEF EventMoves
<1>9. CASE e.type \in {"scalar", "alias"}
  <2>1. yaml' = [phase |-> IF open = <<>> THEN "close" ELSE "open", open |-> adv]
    BY <1>9 DEF Emit, adv
  <2>2. yaml'.phase = (IF open = <<>> THEN "close" ELSE "open")
        /\ yaml'.open = adv
    BY <2>1
  <2>3. StreamOK'
    BY <1>2, <1>3, <2>2 DEF StreamOK
  <2> QED BY <1>3, <1>9, <2>2, <2>3 DEF EventMoves, StreamOK
<1> QED BY <1>1, <1>6, <1>7, <1>8, <1>9 DEF EventFits

-----------------------------------------------------------------------------
(* The inductive invariant.                                                *)

Entries == [parent : Ids, index : 0 .. UIntMod - 1]

(* A tree of bounded depth below a dictionary.                             *)
Sound(h, lv) ==
    /\ h \in Heaps
    /\ lv \in [Ids -> 0 .. MaxDepth]
    /\ Tree(h, Root, lv)
    /\ Slots(h)
    /\ \A n \in Ids : Live(h, n) => lv[n] <= MaxDepth - 1
    /\ h[Root].type = "dict"

(* No node changes its type or its place, or loses a child.                *)
Grows(h, lv, h2, lv2) ==
    \A n \in Ids : Live(h, n) =>
        /\ h2[n].type = h[n].type
        /\ lv2[n] = lv[n]
        /\ \A k \in Keys : h[n].kids[k] \in Ids =>
                                h2[n].kids[k] = h[n].kids[k]

(* The phases of libyaml in which the reader is in a state.                *)
PhasesIn(s) ==
    CASE s = "start"    -> {"begin"}
      [] s = "stream"   -> {"stream"}
      [] s = "document" -> {"node"}
      [] s = "stop"     -> {"over"}
      [] OTHER          -> {"open", "close"}

Control ==
    /\ pc \in {"idle", "read", "done", "fault"}
    /\ ret \in {-1, 0}
    /\ state \in States
    /\ key \in Tokens \cup {NULL}
    /\ reads \in 0 .. MaxReads
    /\ clear \in BOOLEAN
    /\ pc \in {"idle", "done"} => state = "start" /\ key = NULL /\ stack = <<>>
    /\ pc = "read" => yaml.phase \in PhasesIn(state)

StackOK == stack \in Seq(Entries) /\ Len(stack) <= MaxDepth - 1

IInv == Sound(heap, level) /\ Control /\ StackOK /\ StreamOK /\ StackIsBranch

(* The invariants the runs check follow.                                   *)
LEMMA InvImplies == IInv => TypeOK /\ Forest /\ StackIsBranch
  BY DEF IInv, Sound, Control, StackOK, Entries, TypeOK, Forest

(* The caller's root alone, and nothing read.                              *)
LEMMA InitInv == Init => IInv
<1> SUFFICES ASSUME Init PROVE IInv
  OBVIOUS
<1>1. /\ Root \in Ids /\ "dict" \in NodeTypes
      /\ MaxDepth \in Nat /\ MaxDepth >= 2 /\ MaxReads \in Nat
  BY YamlAssumption DEF NodeTypes, Containers
<1>2. /\ level \in [Ids -> Nat] /\ level \in [Ids -> 0 .. MaxDepth]
      /\ \A n \in Ids : level[n] = 0
  BY <1>1 DEF Init
<1>3. heap = [n \in Ids |-> IF n = Root THEN NewCell("dict", NULL) ELSE FreeCell]
  BY DEF Init
<1>4. /\ heap \in Heaps /\ Slots(heap) /\ Tree(heap, Root, level)
      /\ heap[Root].type = "dict"
  BY <1>1, <1>2, <1>3, RootAlone
<1>5. Sound(heap, level)
  BY <1>1, <1>2, <1>4 DEF Sound
<1>6. Control
  BY <1>1 DEF Init, Control, States
<1>7. StackOK
  BY <1>1 DEF Init, StackOK
<1>8. StreamOK
  BY DEF Init, StreamOK
<1>9. StackIsBranch
  BY DEF Init, StackIsBranch
<1> QED BY <1>5, <1>6, <1>7, <1>8, <1>9 DEF IInv

(* A step after which the stack has the same entries, one less or one more *)
(* keeps it a branch, if libyaml does the same.                            *)
LEMMA BranchStep ==
    ASSUME IInv, pc = "read",
           Grows(heap, level, heap', level'),
           StackOK', Len(stack') = Len(yaml'.open),
           SameKinds(yaml.open, yaml'.open),
           \A i \in 1 .. Len(stack') :
               i <= Len(stack) => stack'[i].parent = stack[i].parent,
           \/ Len(stack') <= Len(stack)
           \/ /\ Len(stack') = Len(stack) + 1
              /\ LET n   == Len(stack)
                     top == stack'[n + 1].parent
                 IN  /\ Live(heap', top)
                     /\ level'[top] = n
                     /\ KindOf(heap'[top].type) = yaml'.open[n + 1].kind
                     /\ n > 0 => \E k \in Keys :
                                    heap'[stack[n].parent].kids[k] = top
    PROVE  StackIsBranch'
<1> DEFINE n == Len(stack)
           m == Len(stack')
<1>1. /\ n \in Nat /\ m \in Nat /\ n = Len(yaml.open) /\ m <= n + 1
      /\ \A i \in 1 .. n : stack[i].parent \in Ids
      /\ \A i \in 1 .. m : stack'[i].parent \in Ids
  <2>1. stack \in Seq(Entries) /\ stack' \in Seq(Entries)
    BY DEF IInv, StackOK
  <2>2. n \in Nat /\ m \in Nat
    BY <2>1
  <2>3. /\ \A i \in 1 .. n : stack[i] \in Entries
        /\ \A i \in 1 .. m : stack'[i] \in Entries
    BY <2>1
  <2>4. n = Len(yaml.open) /\ m <= n + 1
    BY <2>2 DEF IInv, StackIsBranch
  <2> QED BY <2>2, <2>3, <2>4 DEF Entries
<1>2. \A i \in 1 .. n :
          /\ Live(heap, stack[i].parent)
          /\ level[stack[i].parent] = i - 1
          /\ KindOf(heap[stack[i].parent].type) = yaml.open[i].kind
  BY DEF IInv, StackIsBranch
<1>3. \A i \in 2 .. n : \E k \in Keys :
          heap[stack[i - 1].parent].kids[k] = stack[i].parent
  BY DEF IInv, StackIsBranch
<1>4. ASSUME NEW i \in 1 .. m
      PROVE  /\ Live(heap', stack'[i].parent)
             /\ level'[stack'[i].parent] = i - 1
             /\ KindOf(heap'[stack'[i].parent].type) = yaml'.open[i].kind
  <2>1. CASE i <= n
    <3>1. i \in 1 .. n /\ stack'[i].parent = stack[i].parent
      BY <1>1, <2>1
    <3>2. /\ Live(heap, stack[i].parent) /\ stack[i].parent \in Ids
          /\ level[stack[i].parent] = i - 1
          /\ KindOf(heap[stack[i].parent].type) = yaml.open[i].kind
      <4>1. stack[i].parent \in Ids
        BY <1>1, <3>1, Zenon
      <4> QED BY <1>2, <3>1, <4>1, Zenon
    <3>3. /\ heap'[stack[i].parent].type = heap[stack[i].parent].type
          /\ level'[stack[i].parent] = level[stack[i].parent]
      BY <3>2 DEF Grows
    <3>4. yaml'.open[i].kind = yaml.open[i].kind
      BY <1>1, <3>1 DEF SameKinds
    <3>5. Live(heap', stack[i].parent)
      BY <3>2, <3>3 DEF Live
    <3> QED BY <3>1, <3>2, <3>3, <3>4, <3>5
  <2>2. CASE ~(i <= n)
    <3>1. i = n + 1 /\ m = n + 1
      BY <1>1, <2>2
    <3>2. ~ (Len(stack') <= Len(stack))
      BY <1>1, <3>1
    <3>3. /\ Live(heap', stack'[n + 1].parent)
          /\ level'[stack'[n + 1].parent] = n
          /\ KindOf(heap'[stack'[n + 1].parent].type) = yaml'.open[n + 1].kind
      BY <3>2
    <3>4. i - 1 = n
      BY <1>1, <3>1
    <3> QED BY <3>1, <3>3, <3>4
  <2> QED BY <2>1, <2>2
<1>5. ASSUME NEW i \in 2 .. m
      PROVE  \E k \in Keys : heap'[stack'[i - 1].parent].kids[k] = stack'[i].parent
  <2>0. i - 1 \in 1 .. n /\ i - 1 \in 1 .. m /\ stack'[i - 1].parent = stack[i - 1].parent
    BY <1>1
  <2>1. CASE i <= n
    <3>1. i \in 2 .. n /\ i \in 1 .. n /\ i \in 1 .. m
      BY <1>1, <2>1
    <3>2. PICK k \in Keys : heap[stack[i - 1].parent].kids[k] = stack[i].parent
      BY <1>3, <3>1
    <3>3. /\ Live(heap, stack[i - 1].parent) /\ stack[i - 1].parent \in Ids
          /\ stack[i].parent \in Ids
      BY <1>1, <1>2, <2>0, <3>1
    <3>4. heap'[stack[i - 1].parent].kids[k] = stack[i].parent
      BY <3>2, <3>3 DEF Grows
    <3>5. /\ stack'[i].parent = stack[i].parent
          /\ stack'[i - 1].parent = stack[i - 1].parent
      BY <2>0, <2>1, <3>1
    <3>6. heap'[stack'[i - 1].parent].kids[k] = stack'[i].parent
      BY <3>4, <3>5
    <3> QED BY <3>6
  <2>2. CASE ~(i <= n)
    <3>1. i = n + 1 /\ m = n + 1 /\ i - 1 = n /\ n > 0
      BY <1>1, <2>2
    <3>2. ~ (Len(stack') <= Len(stack))
      BY <1>1, <3>1
    <3>3. PICK k \in Keys : heap'[stack[n].parent].kids[k] = stack'[n + 1].parent
      BY <3>1, <3>2
    <3>4. stack'[i - 1].parent = stack[n].parent
      BY <2>0, <3>1
    <3>5. heap'[stack'[i - 1].parent].kids[k] = stack'[i].parent
      BY <3>1, <3>3, <3>4
    <3> QED BY <3>5
  <2> QED BY <2>1, <2>2
<1> QED BY <1>4, <1>5 DEF StackIsBranch

(* A call that returns frees its state and leaves the tree to its caller.  *)
LEMMA ReturnStep ==
    ASSUME IInv, NEW r \in {-1, 0}, Return(r), Sound(heap', level'),
           reads' = reads, clear' \in BOOLEAN, StreamOK'
    PROVE  IInv'
<1>1. Control'
  BY DEF IInv, Control, Return, States
<1>2. StackOK'
  BY YamlAssumption DEF Return, StackOK
<1>3. StackIsBranch'
  BY DEF Return, StackIsBranch
<1> QED BY <1>1, <1>2, <1>3 DEF IInv

(* What the reader does before it takes the next event.                    *)
LEMMA ContinueStep ==
    ASSUME IInv, pc = "read", NEW next \in States, Continue(next),
           reads' = reads, clear' \in BOOLEAN, key' \in Tokens \cup {NULL},
           Sound(heap', level'), StackOK', StreamOK', StackIsBranch',
           yaml'.phase \in PhasesIn(next)
    PROVE  IInv'
<1>1. Control'
  BY DEF IInv, Control, Continue
<1> QED BY <1>1 DEF IInv

(* A step that leaves nodes and stack as they are.                         *)
LEMMA MoveStep ==
    ASSUME IInv, pc = "read", NEW next \in States, Move(next),
           reads' = reads, clear' \in BOOLEAN, StreamOK',
           SameKinds(yaml.open, yaml'.open), Len(yaml'.open) = Len(yaml.open),
           yaml'.phase \in PhasesIn(next)
    PROVE  IInv'
<1>1. /\ heap' = heap /\ level' = level /\ stack' = stack /\ key' = key
      /\ Continue(next)
  BY DEF Move
<1>2. Sound(heap', level') /\ StackOK' /\ key' \in Tokens \cup {NULL}
  BY <1>1 DEF IInv, Sound, StackOK, Control
<1>3. Grows(heap, level, heap', level')
  BY <1>1 DEF Grows
<1>4. Len(stack') = Len(yaml'.open) /\ Len(stack) \in Nat
  BY <1>1 DEF IInv, StackIsBranch, StackOK
<1>5. StackIsBranch'
  BY <1>1, <1>2, <1>3, <1>4, BranchStep
<1> QED BY <1>1, <1>2, <1>5, ContinueStep

(* Taking the container that ended off the stack.                          *)
LEMMA RemoveStep ==
    ASSUME IInv, pc = "read", yaml.open # <<>>,
           NEW next \in {"block", "sequence"}, ParentRemove(next),
           NEW e, EventMoves(e), e.type \in {"mapping_end", "sequence_end"},
           reads' = reads, clear' \in BOOLEAN
    PROVE  IInv'
<1> DEFINE n == Len(stack)
<1>1. /\ stack \in Seq(Entries) /\ n \in Nat /\ n = Len(yaml.open)
      /\ n <= MaxDepth - 1 /\ yaml.open \in Seq(Frames) /\ MaxDepth \in Nat
  BY YamlAssumption DEF IInv, StackOK, StackIsBranch, StreamOK
<1>2. n >= 1 /\ stack # <<>>
  BY <1>1
<1>3. /\ stack' = SubSeq(stack, 1, n - 1)
      /\ Continue(next) /\ heap' = heap /\ level' = level /\ key' = key
  BY <1>2 DEF ParentRemove
<1>4. /\ stack' \in Seq(Entries) /\ Len(stack') = n - 1
      /\ \A i \in 1 .. n - 1 : stack'[i] = stack[i]
  BY <1>1, <1>2, <1>3
<1>5. /\ StreamOK' /\ SameKinds(yaml.open, yaml'.open)
      /\ Len(yaml'.open) = n - 1 /\ yaml'.phase \in {"open", "close"}
  BY <1>1 DEF EventMoves
<1>6. Sound(heap', level') /\ key' \in Tokens \cup {NULL}
  BY <1>3 DEF IInv, Control
<1>7. Grows(heap, level, heap', level')
  BY <1>3 DEF Grows
<1>8. StackOK' /\ Len(stack') <= n
  <2> HIDE DEF n
  <2>1. n - 1 <= n /\ n - 1 <= MaxDepth - 1
    BY <1>1
  <2> QED BY <1>4, <2>1 DEF StackOK
<1>9. StackIsBranch'
  BY <1>4, <1>5, <1>7, <1>8, BranchStep
<1>10. next \in States /\ yaml'.phase \in PhasesIn(next)
  BY <1>5 DEF States, PhasesIn
<1> QED BY <1>3, <1>5, <1>6, <1>8, <1>9, <1>10, ContinueStep

(* The container on top of the stack, and how deep it is.                  *)
LEMMA TopFacts ==
    ASSUME IInv, pc = "read", stack # <<>>
    PROVE  /\ Len(stack) \in 1 .. MaxDepth - 1
           /\ Len(stack) = Len(yaml.open)
           /\ stack \in Seq(Entries)
           /\ Top.parent \in Ids /\ Top.index \in 0 .. UIntMod - 1
           /\ Live(heap, Top.parent)
           /\ level[Top.parent] + 1 = Len(stack)
           /\ yaml.open # <<>> /\ yaml.phase = "open"
<1> DEFINE n == Len(stack)
<1>1. stack \in Seq(Entries) /\ n \in Nat /\ n <= MaxDepth - 1 /\ MaxDepth \in Nat
  BY YamlAssumption DEF IInv, StackOK
<1>2. n >= 1 /\ Top = stack[n] /\ Top \in Entries
  BY <1>1 DEF Top
<1>3. n = Len(yaml.open) /\ Live(heap, stack[n].parent) /\ level[stack[n].parent] = n - 1
  BY <1>1, <1>2 DEF IInv, StackIsBranch
<1>4. yaml.open # <<>> /\ yaml.phase = "open"
  <2>1. yaml.open # <<>>
    BY <1>2, <1>3
  <2> QED BY <2>1 DEF IInv, StreamOK
<1> HIDE DEF n
<1>5. n \in 1 .. MaxDepth - 1 /\ n - 1 + 1 = n
  BY <1>1, <1>2
<1> QED BY <1>1, <1>2, <1>3, <1>4, <1>5 DEF Entries, n

(* A node is added below the top of the stack: the tree grows, or is as it *)
(* was.                                                                    *)
LEMMA MadeStep ==
    ASSUME IInv, pc = "read", stack # <<>>,
           NEW type, NEW data \in Values \cup {NULL}, NEW fault, NEW made,
           made = CreateAndInsert(heap, key, type, Top.parent, Top.index,
                                  data, fault)
    PROVE  /\ made.status = "error" => Sound(made.heap, level)
           /\ made.status = "ok" /\ Attached(made) =>
                 /\ Sound(heap', level')
                 /\ Grows(heap, level, heap', level')
                 /\ made.node \in Ids
                 /\ Live(heap', made.node)
                 /\ heap'[made.node].type = type
                 /\ level'[made.node] = Len(stack)
                 /\ \E k \in Keys : heap'[Top.parent].kids[k] = made.node
<1> DEFINE p == Top.parent
           i == Top.index
<1>1. /\ heap \in Heaps /\ Slots(heap) /\ Root \in Ids /\ MaxDepth \in Nat
      /\ level \in [Ids -> Nat] /\ level \in [Ids -> 0 .. MaxDepth]
      /\ Tree(heap, Root, level) /\ Live(heap, Root)
      /\ key \in Tokens \cup {NULL}
  BY YamlAssumption DEF IInv, Sound, Control, Tree
<1>2. /\ p \in Ids /\ i \in 0 .. UIntMod - 1 /\ Live(heap, p)
      /\ level[p] + 1 = Len(stack) /\ Len(stack) \in 1 .. MaxDepth - 1
  BY TopFacts
<1> HIDE DEF p, i
<1>3. Outcome(heap, level, key, type, p, i, data, made)
  <2>1. Outcome(heap, level, key, type, p, i, data,
                CreateAndInsert(heap, key, type, p, i, data, fault))
    BY <1>1, <1>2, CreateAndInsertOutcomes
  <2>2. made = CreateAndInsert(heap, key, type, p, i, data, fault)
    BY DEF p, i
  <2> QED BY <2>1, <2>2
<1>4. ASSUME NEW h, Kept(heap, h) PROVE Sound(h, level)
  <2>1. h \in Heaps /\ Slots(h) /\ \A n \in Ids : h[n].type = heap[n].type
    BY <1>4 DEF Kept
  <2>2. Tree(h, Root, level)
    BY <1>1, <1>4, <2>1, KeptTree
  <2> QED BY <1>1, <2>1, <2>2 DEF IInv, Sound, Live
<1>5. ASSUME made.status = "error" PROVE Sound(made.heap, level)
  BY <1>3, <1>4, <1>5 DEF Outcome, CallOutcome, Refusal
<1>6. ASSUME made.status = "ok", Attached(made), Live(heap, made.node)
      PROVE  /\ Sound(heap', level')
             /\ Grows(heap, level, heap', level')
             /\ made.node \in Ids
             /\ Live(heap', made.node)
             /\ heap'[made.node].type = type
             /\ level'[made.node] = Len(stack)
             /\ \E k \in Keys : heap'[p].kids[k] = made.node
  <2>1. /\ Kept(heap, made.heap) /\ made.node \in Ids
        /\ heap[made.node].type = type
        /\ level[made.node] = level[p] + 1
        /\ \E k \in Keys : heap[p].kids[k] = made.node
    BY <1>3, <1>6 DEF Outcome, CallOutcome, Overwrite, Addition, Linked
  <2>2. heap' = made.heap /\ level' = level
    BY <1>6 DEF Attached, Live
  <2>3. Sound(heap', level')
    BY <1>4, <2>1, <2>2
  <2>4. Grows(heap, level, heap', level')
    BY <2>1, <2>2 DEF Grows, Kept
  <2>5. \A n \in Ids : heap'[n].type = heap[n].type
    BY <2>1, <2>2 DEF Kept
  <2> QED BY <1>2, <1>6, <2>1, <2>2, <2>3, <2>4, <2>5 DEF Grows, Live
<1>7. ASSUME made.status = "ok", Attached(made), ~Live(heap, made.node)
      PROVE  /\ Sound(heap', level')
             /\ Grows(heap, level, heap', level')
             /\ made.node \in Ids
             /\ Live(heap', made.node)
             /\ heap'[made.node].type = type
             /\ level'[made.node] = Len(stack)
             /\ \E k \in Keys : heap'[p].kids[k] = made.node
  <2> DEFINE n  == made.node
             lv == [level EXCEPT ![n] = level[p] + 1]
             k  == Slot(heap, key, p, i)
  <2>1. Addition(heap, made.heap, p, k, n, type, data)
    BY <1>3, <1>7 DEF Outcome, CallOutcome
  <2>2. heap' = made.heap /\ level' = lv
    BY <1>7 DEF Attached, Live, p
  <2> HIDE DEF k, n
  <2>3. Linked(heap, heap', p, k, n) /\ Slots(heap') /\ heap'[n].type = type
    BY <2>1, <2>2 DEF Addition
  <2>4. /\ heap' \in Heaps /\ n \in Ids /\ k \in Keys /\ Live(heap', n)
        /\ heap'[p].kids[k] = n /\ n # Root
        /\ \A m \in Ids \ {n} : heap'[m].type = heap[m].type
    BY <1>1, <1>7, <2>3 DEF Linked, n
  <2>5. Tree(heap', Root, lv)
    BY <1>1, <2>3, <2>4, LinkedTree
  <2>6. /\ lv \in [Ids -> 0 .. MaxDepth] /\ lv[n] = Len(stack)
        /\ \A m \in Ids \ {n} : lv[m] = level[m]
    BY <1>1, <1>2, <2>4
  <2> HIDE DEF lv
  <2>7. Sound(heap', level')
    <3>1. \A m \in Ids : Live(heap', m) => lv[m] <= MaxDepth - 1
      <4>1. \A m \in Ids : Live(heap, m) => level[m] <= MaxDepth - 1
        BY DEF IInv, Sound
      <4>2. \A m \in Ids \ {n} : Live(heap', m) => Live(heap, m)
        BY <2>4 DEF Live
      <4>3. lv[n] <= MaxDepth - 1
        BY <1>2, <2>6
      <4> QED BY <2>6, <4>1, <4>2, <4>3
    <3>2. heap'[Root].type = "dict"
      BY <1>1, <2>4 DEF IInv, Sound
    <3> QED BY <2>2, <2>3, <2>4, <2>5, <2>6, <3>1, <3>2 DEF Sound
  <2>8. Grows(heap, level, heap', level')
    <3>1. ~Live(heap, n)
      BY <2>3 DEF Linked
    <3>2. \A m \in Ids, j \in Keys :
             heap[m].kids[j] \in Ids /\ m # n => heap'[m].kids[j] = heap[m].kids[j]
      BY <2>3 DEF Linked
    <3> QED BY <2>2, <2>4, <2>6, <3>1, <3>2 DEF Grows
  <2> QED BY <2>2, <2>3, <2>4, <2>6, <2>7, <2>8 DEF n
<1> QED BY <1>5, <1>6, <1>7 DEF p

(* The stack after an element: the same containers.                        *)
LEMMA CountedSame ==
    ASSUME IInv, pc = "read", stack # <<>>
    PROVE  /\ Counted \in Seq(Entries) /\ Len(Counted) = Len(stack)
           /\ \A j \in 1 .. Len(stack) : Counted[j].parent = stack[j].parent
<1> DEFINE n == Len(stack)
<1>1. stack \in Seq(Entries) /\ n \in Nat /\ n \in 1 .. n /\ stack[n] \in Entries
  BY TopFacts
<1>2. CASE heap[Top.parent].type # "array"
  BY <1>1, <1>2 DEF Counted
<1>3. CASE heap[Top.parent].type = "array"
  <2> DEFINE e == [stack[n] EXCEPT !.index = (stack[n].index + 1) % UIntMod]
  <2>1. (stack[n].index + 1) % UIntMod \in 0 .. UIntMod - 1
    <3>1. stack[n].index \in Nat /\ UIntMod \in Nat \ {0}
      BY <1>1, IndexAssumption DEF Entries
    <3> QED BY <3>1
  <2>2. e \in Entries /\ e.parent = stack[n].parent
    BY <1>1, <2>1 DEF Entries
  <2>3. Counted = [stack EXCEPT ![n] = e]
    BY <1>3 DEF Counted
  <2> HIDE DEF e
  <2> QED BY <1>1, <2>2, <2>3
<1> QED BY <1>2, <1>3

(* A container is opened: sconf_yaml_parent_add under an event that opens  *)
(* one.                                                                    *)
LEMMA ParentAddStep ==
    ASSUME IInv, pc = "read", NEW type \in Containers,
           NEW next \in {"block", "sequence"}, NEW fault,
           ParentAdd(type, next, fault),
           NEW e, EventMoves(e),
           e.type = IF type = "dict" THEN "mapping_start" ELSE "sequence_start",
           reads' = reads, clear' \in BOOLEAN
    PROVE  IInv'
<1> DEFINE n    == Len(stack)
           made == CreateAndInsert(heap, key, type, Top.parent, Top.index,
                                   NULL, fault)
<1>0. /\ StreamOK' /\ SameKinds(yaml.open, yaml'.open) /\ yaml'.phase = "open"
      /\ Len(yaml'.open) = Len(yaml.open) + 1
      /\ yaml'.open[Len(yaml.open) + 1].kind = KindOf(type)
  BY DEF EventMoves, KindOf, Containers
<1>1. CASE Fail
  <2>1. Sound(heap', level')
    BY <1>1 DEF Fail, IInv
  <2> QED BY <1>0, <1>1, <2>1, ReturnStep DEF Fail
<1>2. CASE ~Fail
  <2>1. stack # <<>>
    BY <1>2 DEF ParentAdd
  <2>2. /\ stack \in Seq(Entries) /\ n \in 1 .. MaxDepth - 1 /\ n = Len(yaml.open)
        /\ MaxDepth \in Nat
    BY <2>1, TopFacts, YamlAssumption
  <2>3. /\ made.status = "error" => Sound(made.heap, level)
        /\ made.status = "ok" /\ Attached(made) =>
              /\ Sound(heap', level')
              /\ Grows(heap, level, heap', level')
              /\ made.node \in Ids
              /\ Live(heap', made.node)
              /\ heap'[made.node].type = type
              /\ level'[made.node] = Len(stack)
              /\ \E k \in Keys : heap'[Top.parent].kids[k] = made.node
    BY <2>1, MadeStep
  <2>4. \/ made.status = "fault" /\ Crash
        \/ made.status = "error" /\ FailLeaving(made.heap)
        \/ made.status = "ok" /\ Attached(made) /\ Return(-1)
        \/ /\ made.status = "ok" /\ Attached(made) /\ Continue(next)
           /\ ~(n >= MaxDepth - 1)
           /\ stack' = Push(Counted, made.node) /\ key' = KeyLeft
    BY <1>2, <2>1 DEF ParentAdd
  <2> HIDE DEF made
  <2>5. CASE made.status = "fault" /\ Crash
    <3>1. Control'
      BY <2>5 DEF IInv, Control, Crash, readVars
    <3>2. StackOK' /\ Sound(heap', level')
      BY <2>5 DEF IInv, StackOK, Crash, readVars
    <3>3. StackIsBranch'
      BY <2>5 DEF StackIsBranch, Crash
    <3> QED BY <1>0, <3>1, <3>2, <3>3 DEF IInv
  <2>6. CASE made.status = "error" /\ FailLeaving(made.heap)
    <3>1. Sound(heap', level')
      BY <2>3, <2>6 DEF FailLeaving
    <3> QED BY <1>0, <2>6, <3>1, ReturnStep DEF FailLeaving
  <2>7. CASE made.status = "ok" /\ Attached(made) /\ Return(-1)
    BY <1>0, <2>3, <2>7, ReturnStep
  <2>8. CASE /\ made.status = "ok" /\ Attached(made) /\ Continue(next)
             /\ ~(n >= MaxDepth - 1)
             /\ stack' = Push(Counted, made.node) /\ key' = KeyLeft
    <3> DEFINE entry == [parent |-> made.node, index |-> 0]
    <3>1. /\ Counted \in Seq(Entries) /\ Len(Counted) = n
          /\ \A j \in 1 .. n : Counted[j].parent = stack[j].parent
      BY <2>1, CountedSame
    <3>2. entry \in Entries /\ entry.parent = made.node
      BY <2>3, <2>8, IndexAssumption DEF Entries
    <3>3. stack' = Append(Counted, entry)
      BY <2>8 DEF Push
    <3> HIDE DEF entry
    <3>4. /\ stack' \in Seq(Entries) /\ Len(stack') = n + 1
          /\ stack'[n + 1] = entry /\ \A j \in 1 .. n : stack'[j] = Counted[j]
      BY <2>2, <3>1, <3>2, <3>3
    <3>5. StackOK'
      <4> HIDE DEF n
      <4>1. n + 1 <= MaxDepth - 1
        BY <2>2, <2>8
      <4> QED BY <3>4, <4>1 DEF StackOK
    <3>6. StackIsBranch'
      <4>1. \A i \in 1 .. Len(stack') :
               i <= Len(stack) => stack'[i].parent = stack[i].parent
        BY <2>2, <3>1, <3>4
      <4>2. \E k \in Keys : heap'[stack[n].parent].kids[k] = stack'[n + 1].parent
        BY <2>3, <2>8, <3>2, <3>4 DEF Top
      <4>3. /\ Live(heap', stack'[n + 1].parent)
            /\ level'[stack'[n + 1].parent] = n
            /\ KindOf(heap'[stack'[n + 1].parent].type) = yaml'.open[n + 1].kind
        BY <1>0, <2>2, <2>3, <2>8, <3>2, <3>4
      <4>4. Len(stack') = Len(yaml'.open)
        BY <1>0, <2>2, <3>4
      <4>5. Grows(heap, level, heap', level')
        BY <2>3, <2>8
      <4> QED BY <1>0, <3>4, <3>5, <4>1, <4>2, <4>3, <4>4, <4>5, BranchStep
    <3>7. key' \in Tokens \cup {NULL}
      BY <2>8 DEF KeyLeft, IInv, Control
    <3>8. next \in States /\ yaml'.phase \in PhasesIn(next)
      BY <1>0 DEF States, PhasesIn
    <3> QED BY <1>0, <2>3, <2>8, <3>5, <3>6, <3>7, <3>8, ContinueStep
  <2> QED BY <2>4, <2>5, <2>6, <2>7, <2>8
<1> QED BY <1>1, <1>2

(* A value is read: sconf_yaml_node_add under a scalar.                    *)
LEMMA NodeAddStep ==
    ASSUME IInv, pc = "read",
           NEW e, NEW parentType, NEW next \in {"block", "sequence"}, NEW fault,
           NodeAdd(e, parentType, next, fault),
           EventMoves(e), e.type = "scalar", e.text \in Tokens,
           reads' = reads, clear' \in BOOLEAN
    PROVE  IInv'
<1> DEFINE n    == Len(stack)
           made == CreateAndInsert(heap, key, ScalarType(e), Top.parent,
                                   Top.index, e.text, fault)
<1>0. /\ StreamOK' /\ SameKinds(yaml.open, yaml'.open)
      /\ yaml'.phase = (IF yaml.phase = "open" THEN "open" ELSE "close")
      /\ Len(yaml'.open) = Len(yaml.open)
  BY DEF EventMoves
<1>1. CASE Fail
  <2>1. Sound(heap', level')
    BY <1>1 DEF Fail, IInv
  <2> QED BY <1>0, <1>1, <2>1, ReturnStep DEF Fail
<1>2. CASE ~Fail
  <2>1. stack # <<>>
    BY <1>2 DEF NodeAdd
  <2>2. /\ stack \in Seq(Entries) /\ n \in 1 .. MaxDepth - 1 /\ n = Len(yaml.open)
        /\ yaml.phase = "open"
    BY <2>1, TopFacts
  <2>3. /\ made.status = "error" => Sound(made.heap, level)
        /\ made.status = "ok" /\ Attached(made) =>
              /\ Sound(heap', level')
              /\ Grows(heap, level, heap', level')
    <3>1. e.text \in Values \cup {NULL}
      BY YamlAssumption
    <3> QED BY <2>1, <3>1, MadeStep
  <2>4. \/ made.status = "fault" /\ Crash
        \/ made.status = "error" /\ FailLeaving(made.heap)
        \/ /\ made.status = "ok" /\ Attached(made) /\ Continue(next)
           /\ stack' = Counted /\ key' = KeyLeft
    BY <1>2, <2>1 DEF NodeAdd
  <2> HIDE DEF made
  <2>5. CASE made.status = "fault" /\ Crash
    <3>1. Control'
      BY <2>5 DEF IInv, Control, Crash, readVars
    <3>2. StackOK' /\ Sound(heap', level')
      BY <2>5 DEF IInv, StackOK, Crash, readVars
    <3>3. StackIsBranch'
      BY <2>5 DEF StackIsBranch, Crash
    <3> QED BY <1>0, <3>1, <3>2, <3>3 DEF IInv
  <2>6. CASE made.status = "error" /\ FailLeaving(made.heap)
    <3>1. Sound(heap', level')
      BY <2>3, <2>6 DEF FailLeaving
    <3> QED BY <1>0, <2>6, <3>1, ReturnStep DEF FailLeaving
  <2>7. CASE /\ made.status = "ok" /\ Attached(made) /\ Continue(next)
             /\ stack' = Counted /\ key' = KeyLeft
    <3>1. /\ stack' \in Seq(Entries) /\ Len(stack') = n
          /\ \A j \in 1 .. n : stack'[j].parent = stack[j].parent
      BY <2>1, <2>7, CountedSame
    <3>2. StackOK'
      BY <3>1 DEF StackOK, IInv
    <3>3. Len(stack') <= Len(stack)
      BY <2>2, <3>1
    <3>4. StackIsBranch'
      BY <1>0, <2>2, <2>3, <2>7, <3>1, <3>2, <3>3, BranchStep
    <3>5. key' \in Tokens \cup {NULL}
      BY <2>7 DEF KeyLeft, IInv, Control
    <3>6. next \in States /\ yaml'.phase \in PhasesIn(next)
      BY <1>0, <2>2 DEF States, PhasesIn
    <3> QED BY <1>0, <2>3, <2>7, <3>2, <3>4, <3>5, <3>6, ContinueStep
  <2> QED BY <2>4, <2>5, <2>6, <2>7
<1> QED BY <1>1, <1>2

(* One event: every step of the reader and of libyaml together.            *)
LEMMA ConsumeStep ==
    ASSUME IInv, NEW e \in NextEvents, NEW fault, Consume(e, fault), Emit(e)
    PROVE  IInv'
<1>1. pc = "read" /\ reads' = reads
  BY DEF Consume, InStart, InStream, InDocument, InBlock, InBlockContent,
         InSequence, Reading
<1>2. clear' \in BOOLEAN
  BY DEF Emit, IInv, Control
<1>3. StreamOK /\ EventFits(e)
  BY EventsFit DEF IInv
<1>4. EventMoves(e)
  BY <1>3, EventsMove
<1>5. /\ StreamOK' /\ SameKinds(yaml.open, yaml'.open)
      /\ yaml.phase \in PhasesIn(state)
      /\ yaml.phase # "open" => yaml.open = <<>> /\ Len(yaml.open) = 0
      /\ yaml'.phase # "open" => yaml'.open = <<>> /\ Len(yaml'.open) = 0
  BY <1>1, <1>3, <1>4 DEF EventMoves, IInv, Control, StreamOK
<1> HIDE DEF EventMoves, StreamOK, SameKinds
<1>6. ASSUME Fail PROVE IInv'
  <2>1. Sound(heap', level')
    BY <1>6 DEF Fail, IInv
  <2> QED BY <1>1, <1>2, <1>5, <1>6, <2>1, ReturnStep DEF Fail
<1>7. ASSUME NEW next \in {"stream", "document", "stop"}, Move(next),
             yaml.phase # "open", yaml'.phase \in PhasesIn(next)
      PROVE  IInv'
  <2>1. next \in States /\ yaml'.phase # "open"
    BY <1>7 DEF States, PhasesIn
  <2> QED BY <1>1, <1>2, <1>5, <1>7, <2>1, MoveStep
<1>8. CASE InStart(e)
  <2>1. yaml.phase = "begin"
    BY <1>5, <1>8 DEF InStart, Reading, PhasesIn
  <2>2. CASE e.type = "stream_start"
    <3>1. Move("stream") /\ yaml'.phase = "stream"
      BY <1>4, <1>8, <2>2 DEF InStart, EventMoves
    <3> QED BY <1>7, <2>1, <3>1 DEF PhasesIn
  <2>3. CASE e.type # "stream_start"
    BY <1>6, <1>8, <2>3 DEF InStart
  <2> QED BY <2>2, <2>3
<1>9. CASE InStream(e)
  <2>1. yaml.phase = "stream"
    BY <1>5, <1>9 DEF InStream, Reading, PhasesIn
  <2>2. CASE e.type = "document_start"
    <3>1. Move("document") /\ yaml'.phase = "node"
      BY <1>4, <1>9, <2>2 DEF InStream, EventMoves
    <3> QED BY <1>7, <2>1, <3>1 DEF PhasesIn
  <2>3. CASE e.type = "stream_end"
    <3>1. Move("stop") /\ yaml'.phase = "over"
      BY <1>4, <1>9, <2>3 DEF InStream, EventMoves
    <3> QED BY <1>7, <2>1, <3>1 DEF PhasesIn
  <2>4. CASE e.type \notin {"document_start", "stream_end"}
    BY <1>6, <1>9, <2>4 DEF InStream
  <2> QED BY <2>2, <2>3, <2>4
<1>10. CASE InDocument(e, fault)
  <2>1. yaml.phase = "node"
    BY <1>5, <1>10 DEF InDocument, Reading, PhasesIn
  <2>2. CASE e.type = "mapping_start" /\ ~Fail
    <3>1. /\ stack' = Push(stack, Root) /\ Continue("block")
          /\ heap' = heap /\ level' = level /\ key' = key
          /\ ~(Len(stack) >= MaxDepth - 1)
      BY <1>10, <2>2 DEF InDocument
    <3>2. stack = <<>> /\ Len(stack) = 0
      <4>1. Len(stack) = 0 /\ stack \in Seq(Entries)
        BY <1>1, <1>5, <2>1 DEF IInv, StackIsBranch, StackOK
      <4> QED BY <4>1
    <3> DEFINE entry == [parent |-> Root, index |-> 0]
    <3>3. entry \in Entries /\ entry.parent = Root
      BY YamlAssumption, IndexAssumption DEF Entries
    <3>4. stack' = Append(<<>>, entry)
      BY <3>1, <3>2 DEF Push
    <3> HIDE DEF entry
    <3>5. stack' \in Seq(Entries) /\ Len(stack') = 1 /\ stack'[1] = entry
      BY <3>3, <3>4
    <3>6. StackOK'
      BY <3>5, YamlAssumption DEF StackOK
    <3>7. /\ yaml'.phase = "open" /\ Len(yaml'.open) = 1
          /\ yaml'.open[1].kind = "mapping"
      <4>1. Len(yaml.open) = 0 /\ 0 + 1 = 1
        BY <1>5, <2>1
      <4> QED BY <1>4, <2>2, <4>1 DEF EventMoves
    <3>8. /\ Live(heap', Root) /\ level'[Root] = 0
          /\ KindOf(heap'[Root].type) = "mapping"
      BY <3>1 DEF IInv, Sound, Tree, KindOf
    <3>9. Grows(heap, level, heap', level')
      BY <3>1 DEF Grows
    <3>10. StackIsBranch'
      BY <1>1, <1>5, <3>2, <3>3, <3>5, <3>6, <3>7, <3>8, <3>9, BranchStep
    <3>11. Sound(heap', level') /\ key' \in Tokens \cup {NULL}
      BY <3>1 DEF IInv, Control
    <3>12. "block" \in States /\ yaml'.phase \in PhasesIn("block")
      BY <3>7 DEF States, PhasesIn
    <3> QED BY <1>1, <1>2, <1>5, <3>1, <3>6, <3>10, <3>11, <3>12, ContinueStep
  <2>3. CASE e.type # "mapping_start" \/ Fail
    <3>1. e.type # "document_end"
      BY <1>3, <2>1 DEF EventFits
    <3> QED BY <1>6, <1>10, <2>3, <3>1 DEF InDocument
  <2> QED BY <2>2, <2>3
<1>11. CASE InBlock(e, fault)
  <2>1. CASE e.type = "scalar" /\ ~Fail
    <3>1. /\ key' = e.text /\ Continue("block_content")
          /\ heap' = heap /\ level' = level /\ stack' = stack
      BY <1>11, <2>1 DEF InBlock
    <3>2. yaml.phase = "open"
      BY <1>3, <1>5, <1>11, <2>1 DEF EventFits, InBlock, Reading, PhasesIn
    <3>3. yaml'.phase = "open" /\ Len(yaml'.open) = Len(yaml.open)
      BY <1>4, <2>1, <3>2 DEF EventMoves
    <3>4. Sound(heap', level') /\ StackOK' /\ key' \in Tokens \cup {NULL}
      BY <1>3, <2>1, <3>1 DEF IInv, StackOK, EventFits
    <3>5. Grows(heap, level, heap', level')
      BY <3>1 DEF Grows
    <3>6. Len(stack') = Len(yaml'.open) /\ Len(stack) \in Nat
      BY <1>1, <3>1, <3>3 DEF IInv, StackIsBranch, StackOK
    <3>7. StackIsBranch'
      BY <1>1, <1>5, <3>1, <3>4, <3>5, <3>6, BranchStep
    <3>8. "block_content" \in States /\ yaml'.phase \in PhasesIn("block_content")
      BY <3>3 DEF States, PhasesIn
    <3> QED BY <1>1, <1>2, <1>5, <3>1, <3>4, <3>7, <3>8, ContinueStep
  <2>2. CASE e.type \in {"sequence_end", "mapping_end"}
    <3>1. PICK next \in {"block", "sequence"} : ParentRemove(next)
      BY <1>11, <2>2 DEF InBlock
    <3>2. yaml.open # <<>>
      BY <1>3, <2>2 DEF EventFits, StreamOK
    <3> QED BY <1>1, <1>2, <1>4, <2>2, <3>1, <3>2, RemoveStep
  <2>3. CASE e.type = "mapping_start"
    <3>1. ParentAdd("dict", "block", fault) /\ "dict" \in Containers
      BY <1>11, <2>3 DEF InBlock, Containers
    <3> QED BY <1>1, <1>2, <1>4, <2>3, <3>1, ParentAddStep
  <2>4. CASE e.type = "document_end"
    <3>1. Move("stream") /\ yaml.phase = "close" /\ yaml'.phase = "stream"
      BY <1>3, <1>4, <1>11, <2>4 DEF InBlock, EventFits, EventMoves
    <3> QED BY <1>7, <3>1 DEF PhasesIn
  <2>5. CASE e.type \notin {"scalar", "sequence_end", "mapping_end",
                            "mapping_start", "document_end"} \/ Fail
    BY <1>6, <1>11, <2>5 DEF InBlock
  <2> QED BY <2>1, <2>2, <2>3, <2>4, <2>5
<1>12. CASE InBlockContent(e, fault)
  <2>1. CASE e.type = "scalar"
    <3>1. NodeAdd(e, "dict", "block", fault) /\ e.text \in Tokens
      BY <1>3, <1>12, <2>1 DEF InBlockContent, EventFits
    <3> QED BY <1>1, <1>2, <1>4, <2>1, <3>1, NodeAddStep
  <2>2. CASE e.type = "mapping_start"
    <3>1. ParentAdd("dict", "block", fault) /\ "dict" \in Containers
      BY <1>12, <2>2 DEF InBlockContent, Containers
    <3> QED BY <1>1, <1>2, <1>4, <2>2, <3>1, ParentAddStep
  <2>3. CASE e.type = "sequence_start"
    <3>1. ParentAdd("array", "sequence", fault) /\ "array" \in Containers
      BY <1>12, <2>3 DEF InBlockContent, Containers
    <3> QED BY <1>1, <1>2, <1>4, <2>3, <3>1, ParentAddStep
  <2>4. CASE e.type \notin {"scalar", "mapping_start", "sequence_start"}
    BY <1>6, <1>12, <2>4 DEF InBlockContent
  <2> QED BY <2>1, <2>2, <2>3, <2>4
<1>13. CASE InSequence(e, fault)
  <2>1. CASE e.type = "scalar"
    <3>1. NodeAdd(e, "array", "sequence", fault) /\ e.text \in Tokens
      BY <1>3, <1>13, <2>1 DEF InSequence, EventFits
    <3> QED BY <1>1, <1>2, <1>4, <2>1, <3>1, NodeAddStep
  <2>2. CASE e.type = "mapping_start"
    <3>1. ParentAdd("dict", "block", fault) /\ "dict" \in Containers
      BY <1>13, <2>2 DEF InSequence, Containers
    <3> QED BY <1>1, <1>2, <1>4, <2>2, <3>1, ParentAddStep
  <2>3. CASE e.type = "sequence_start"
    <3>1. ParentAdd("array", "sequence", fault) /\ "array" \in Containers
      BY <1>13, <2>3 DEF InSequence, Containers
    <3> QED BY <1>1, <1>2, <1>4, <2>3, <3>1, ParentAddStep
  <2>4. CASE e.type = "sequence_end"
    <3>1. ParentRemove("block") /\ yaml.open # <<>>
      BY <1>3, <1>13, <2>4 DEF InSequence, EventFits, StreamOK
    <3> QED BY <1>1, <1>2, <1>4, <2>4, <3>1, RemoveStep
  <2>5. CASE e.type \notin {"scalar", "mapping_start", "sequence_start",
                            "sequence_end"}
    BY <1>6, <1>13, <2>5 DEF InSequence
  <2> QED BY <2>1, <2>2, <2>3, <2>4, <2>5
<1> QED BY <1>8, <1>9, <1>10, <1>11, <1>12, <1>13 DEF Consume

(* A file is opened: a new parser, and the reader at its start.            *)
LEMMA OpenStep == ASSUME IInv, Open PROVE IInv'
<1>1. /\ StreamOK' /\ yaml'.phase = "begin" /\ yaml'.open = <<>>
      /\ heap' = heap /\ level' = level /\ stack' = stack /\ key' = key
      /\ state' = state /\ clear' = clear
      /\ state = "start" /\ key = NULL /\ stack = <<>>
  BY DEF Open, StreamOK, readVars, IInv, Control
<1>2. reads' \in 0 .. MaxReads
  BY YamlAssumption DEF Open, IInv, Control
<1>3. Control'
  BY <1>1, <1>2 DEF Open, IInv, Control, PhasesIn
<1>4. StackOK' /\ Sound(heap', level')
  BY <1>1 DEF IInv, StackOK
<1>5. StackIsBranch'
  BY <1>1 DEF StackIsBranch
<1> QED BY <1>1, <1>3, <1>4, <1>5 DEF IInv

(* Every step of the system keeps the invariant.                           *)
LEMMA NextInv == IInv /\ [Next]_vars => IInv'
<1> SUFFICES ASSUME IInv, [Next]_vars PROVE IInv'
  OBVIOUS
<1>1. CASE Open
  BY <1>1, OpenStep
<1>2. CASE Parse
  BY <1>2, ConsumeStep DEF Parse
<1>3. CASE ParseError
  <2>1. Sound(heap', level') /\ StreamOK' /\ clear' \in BOOLEAN
    BY <1>3 DEF ParseError, Fail, docVars, IInv, Control, StreamOK
  <2> QED BY <1>3, <2>1, ReturnStep DEF ParseError, Fail
<1>4. CASE Stop
  <2>1. Sound(heap', level') /\ StreamOK' /\ clear' \in BOOLEAN
    BY <1>4 DEF Stop, docVars, IInv, Control, StreamOK
  <2> QED BY <1>4, <2>1, ReturnStep DEF Stop
<1>5. CASE Returned
  <2>1. Sound(heap', level') /\ StreamOK' /\ StackOK'
    BY <1>5 DEF Returned, docVars, readVars, IInv, StreamOK, StackOK
  <2>2. Control' /\ StackIsBranch'
    BY <1>5 DEF Returned, docVars, readVars, IInv, Control, StackIsBranch
  <2> QED BY <2>1, <2>2 DEF IInv
<1>6. CASE UNCHANGED vars
  <2>1. Sound(heap', level') /\ StreamOK' /\ StackOK'
    BY <1>6 DEF vars, docVars, readVars, IInv, StreamOK, StackOK
  <2>2. Control' /\ StackIsBranch'
    BY <1>6 DEF vars, docVars, readVars, IInv, Control, StackIsBranch
  <2> QED BY <2>1, <2>2 DEF IInv
<1> QED BY <1>1, <1>2, <1>3, <1>4, <1>5, <1>6 DEF Next, Ended

(* sconf_yaml_read keeps its invariant, whatever the files say.            *)
THEOREM Invariance == Spec => []IInv
<1> QED BY InitInv, NextInv, PTL DEF Spec

(* The nodes and the state of the reader have their types, the stack never *)
(* holds more containers than SCONF_MAX_DEPTH allows (yaml.c:53).          *)
THEOREM AlwaysTypeOK == Spec => []TypeOK
<1> QED BY Invariance, InvImplies, PTL

(* Between two events and after a refusal half way the nodes under the     *)
(* caller's root are one tree, and no deeper than sconf_get can reach.     *)
THEOREM AlwaysForest == Spec => []Forest
<1> QED BY Invariance, InvImplies, PTL

(* The parent stack is the branch of the tree that libyaml is in: an end   *)
(* event pops the container it ends, although its type is not compared.    *)
THEOREM AlwaysStackIsBranch == Spec => []StackIsBranch
<1> QED BY Invariance, InvImplies, PTL

-----------------------------------------------------------------------------
(* What the tree holds at a place.  At is a recursive function over the    *)
(* keys; Down is At in a heap that is given.                               *)
Down(h, loc) ==
    LET at[i \in 0 .. Len(loc)] ==
          IF i = 0 THEN Root
          ELSE IF at[i - 1] \in Ids THEN h[at[i - 1]].kids[loc[i]] ELSE NULL
    IN  at[Len(loc)]

Locs == Seq(Keys)

LEMMA AtIsDown == \A loc : At(loc) = Down(heap, loc)
BY DEF At, Down

(* The walk along loc: g[i] is what i keys lead to.                        *)
Descends(h, loc, g) ==
    /\ g[0] = Root
    /\ \A i \in 1 .. Len(loc) :
          g[i] = IF g[i - 1] \in Ids THEN h[g[i - 1]].kids[loc[i]] ELSE NULL

(* There is such a walk, and Down is its end.                              *)
LEMMA DownWalk ==
    ASSUME NEW h \in Heaps, NEW loc \in Locs
    PROVE  \E g : Descends(h, loc, g) /\ Down(h, loc) = g[Len(loc)]
<1> DEFINE N == Len(loc)
           S == Ids \cup {NULL, UNINIT}
           step == [x \in (1 .. N) \X S |->
                       IF x[2] \in Ids THEN h[x[2]].kids[loc[x[1]]] ELSE NULL]
           next(g, i) == IF i = 0 THEN Root
                         ELSE IF g[i - 1] \in Ids THEN h[g[i - 1]].kids[loc[i]] ELSE NULL
           Is(g) == g = [i \in 0 .. N |-> next(g, i)]
           at == CHOOSE g : Is(g)
<1>1. N \in Nat /\ Root \in S /\ \A i \in 1 .. N : loc[i] \in Keys
  BY YamlAssumption DEF Locs
<1>2. Stepping(step, N, S)
  <2>1. \A x \in (1 .. N) \X S :
           (IF x[2] \in Ids THEN h[x[2]].kids[loc[x[1]]] ELSE NULL) \in S
    BY <1>1 DEF Heaps, Cell
  <2> QED BY <2>1 DEF Stepping
<1>3. PICK f : Walking(f, N, S, Root, step)
  <2> HIDE DEF N, S, step
  <2> QED BY <1>1, <1>2, WalkExists
<1>4. Is(f)
  <2>1. f \in [0 .. N -> S] /\ f[0] = Root /\ \A i \in 1 .. N : f[i] = step[<<i, f[i - 1]>>]
    BY <1>3 DEF Walking
  <2>2. ASSUME NEW i \in 0 .. N PROVE f[i] = next(f, i)
    <3>1. CASE i = 0
      BY <2>1, <3>1
    <3>2. CASE i # 0
      <4>1. i \in 1 .. N /\ i - 1 \in 0 .. N
        BY <1>1, <3>2
      <4>2. <<i, f[i - 1]>> \in (1 .. N) \X S
        BY <2>1, <4>1
      <4> QED BY <2>1, <3>2, <4>1, <4>2
    <3> QED BY <3>1, <3>2
  <2> QED BY <2>1, <2>2
<1>5. Is(at)
  <2> HIDE DEF Is
  <2> QED BY <1>4
<1>6. Down(h, loc) = at[N]
  BY DEF Down
<1> HIDE DEF at
<1>7. \A i \in 0 .. N : at[i] = next(at, i)
  BY <1>5
<1>8. Descends(h, loc, at)
  <2>1. 0 \in 0 .. N /\ \A i \in 1 .. N : i \in 0 .. N /\ i # 0
    BY <1>1
  <2> QED BY <1>7, <2>1 DEF Descends
<1> QED BY <1>6, <1>8

(* Two walks along the same keys in the same heap agree.                   *)
LEMMA DescendsOnce ==
    ASSUME NEW h, NEW loc \in Locs, NEW long, NEW f, NEW g,
           Descends(h, loc, f), Descends(h, long, g),
           Len(long) \in Nat, Len(loc) <= Len(long),
           \A i \in 1 .. Len(loc) : long[i] = loc[i]
    PROVE  f[Len(loc)] = g[Len(loc)]
<1> DEFINE N == Len(loc)
           T == {i \in 0 .. N : f[i] = g[i]}
<1>1. N \in Nat
  BY DEF Locs
<1>2. 0 \in T
  BY <1>1 DEF Descends
<1>3. ASSUME NEW n \in 0 .. N - 1, n \in T PROVE n + 1 \in T
  <2>1. /\ n + 1 \in 1 .. N /\ n + 1 \in 1 .. Len(long) /\ n + 1 \in 0 .. N
        /\ n + 1 - 1 = n /\ f[n] = g[n]
    BY <1>1, <1>3
  <2>2. f[n + 1] = g[n + 1]
    BY <2>1 DEF Descends
  <2> QED BY <2>1, <2>2
<1>4. N \in T
  <2> HIDE DEF T, N
  <2>1. N \in 0 .. N
    BY <1>1
  <2> QED BY <1>1, <1>2, <1>3, <2>1, UpTo
<1> QED BY <1>4

(* The root is at the empty place, and one key leads one node further.     *)
LEMMA DownEmpty ==
    ASSUME NEW h \in Heaps
    PROVE  Down(h, <<>>) = Root
<1>1. <<>> \in Locs /\ Len(<<>>) = 0
  BY DEF Locs
<1> QED BY <1>1, DownWalk DEF Descends

LEMMA DownAppend ==
    ASSUME NEW h \in Heaps, NEW loc \in Locs, NEW k \in Keys
    PROVE  Down(h, Append(loc, k)) =
              IF Down(h, loc) \in Ids THEN h[Down(h, loc)].kids[k] ELSE NULL
<1> DEFINE long == Append(loc, k)
           N == Len(loc)
<1>1. /\ long \in Locs /\ N \in Nat /\ Len(long) = N + 1 /\ long[N + 1] = k
      /\ \A i \in 1 .. N : long[i] = loc[i]
  BY AppendProperties DEF Locs
<1> HIDE DEF long
<1>2. PICK f : Descends(h, loc, f) /\ Down(h, loc) = f[N]
  BY DownWalk
<1>3. PICK g : Descends(h, long, g) /\ Down(h, long) = g[N + 1]
  BY <1>1, DownWalk
<1>4. f[N] = g[N]
  <2>1. Len(long) \in Nat /\ N <= Len(long)
    BY <1>1
  <2> QED BY <1>1, <1>2, <1>3, <2>1, DescendsOnce
<1>5. N + 1 \in 1 .. Len(long) /\ N + 1 - 1 = N
  BY <1>1
<1>6. g[N + 1] = IF g[N] \in Ids THEN h[g[N]].kids[k] ELSE NULL
  BY <1>1, <1>3, <1>5 DEF Descends
<1> QED BY <1>2, <1>3, <1>4, <1>6 DEF long

(* What holds of the empty place, and of each place after one of which it  *)
(* holds, holds of all.                                                    *)
LEMMA EveryPlace ==
    ASSUME NEW T, <<>> \in T,
           \A loc \in Locs, k \in Keys : loc \in T => Append(loc, k) \in T
    PROVE  \A loc \in Locs : loc \in T
<1> SUFFICES ASSUME NEW place \in Locs PROVE place \in T
  OBVIOUS
<1> DEFINE N == Len(place)
           U == {n \in 0 .. N : \A loc \in Locs : Len(loc) = n => loc \in T}
<1>1. N \in Nat
  BY DEF Locs
<1>2. 0 \in U
  <2>1. \A loc \in Locs : Len(loc) = 0 => loc = <<>>
    BY DEF Locs
  <2> QED BY <1>1, <2>1
<1>3. ASSUME NEW n \in 0 .. N - 1, n \in U PROVE n + 1 \in U
  <2>1. n + 1 \in 0 .. N /\ n \in Nat /\ n + 1 # 0
    BY <1>1
  <2>2. ASSUME NEW loc \in Locs, Len(loc) = n + 1 PROVE loc \in T
    <3>1. loc # <<>>
      BY <2>1, <2>2
    <3>2. PICK s \in Locs, k \in Keys : loc = Append(s, k)
      BY <3>1, SequenceEmptyOrAppend DEF Locs
    <3>3. Len(s) \in Nat /\ Len(loc) = Len(s) + 1
      BY <3>2 DEF Locs
    <3>4. Len(s) = n
      BY <2>1, <2>2, <3>3
    <3> QED BY <1>3, <3>2, <3>4
  <2> QED BY <2>1, <2>2
<1>4. N \in U
  <2> HIDE DEF U, N
  <2>1. N \in 0 .. N
    BY <1>1
  <2> QED BY <1>1, <1>2, <1>3, <2>1, UpTo
<1> QED BY <1>4

LEMMA AppendPlace ==
    ASSUME NEW loc \in Locs, NEW k \in Keys
    PROVE  /\ Append(loc, k) \in Locs /\ Append(loc, k) # <<>>
           /\ \A s \in Locs, j \in Keys : Append(s, j) = Append(loc, k) => s = loc /\ j = k
BY AppendProperties, AppendInjective DEF Locs

LEMMA PlaceCases ==
    ASSUME NEW loc \in Locs
    PROVE  loc = <<>> \/ \E s \in Locs, k \in Keys : loc = Append(s, k)
BY SequenceEmptyOrAppend DEF Locs

(* The nodes below the root are allocated, and each is at one place.       *)
LEMMA DownLive ==
    ASSUME NEW h \in Heaps, NEW lv, Tree(h, Root, lv),
           NEW loc \in Locs, Down(h, loc) \in Ids
    PROVE  Live(h, Down(h, loc))
<1>1. CASE loc = <<>>
  BY <1>1, DownEmpty DEF Tree
<1>2. ASSUME NEW s \in Locs, NEW k \in Keys, loc = Append(s, k)
      PROVE  Live(h, Down(h, loc))
  <2>1. Down(h, loc) = IF Down(h, s) \in Ids THEN h[Down(h, s)].kids[k] ELSE NULL
    BY <1>2, DownAppend
  <2>2. Down(h, s) \in Ids /\ h[Down(h, s)].kids[k] = Down(h, loc)
    BY <2>1, IdsAssumption
  <2> QED BY <2>2 DEF Tree, NoDangling
<1> QED BY <1>1, <1>2, PlaceCases

LEMMA DownOnce ==
    ASSUME NEW h \in Heaps, NEW lv, Tree(h, Root, lv)
    PROVE  \A l, m \in Locs : Down(h, l) \in Ids /\ Down(h, l) = Down(h, m) => l = m
<1> DEFINE T == {l \in Locs : \A m \in Locs :
                    Down(h, l) \in Ids /\ Down(h, l) = Down(h, m) => l = m}
<1>1. <<>> \in Locs /\ Down(h, <<>>) = Root
  BY DownEmpty DEF Locs
<1>2. ASSUME NEW s \in Locs, NEW k \in Keys, Down(h, Append(s, k)) \in Ids
      PROVE  /\ Down(h, s) \in Ids /\ h[Down(h, s)].kids[k] = Down(h, Append(s, k))
             /\ Down(h, Append(s, k)) # Root
  <2>1. Down(h, Append(s, k)) = IF Down(h, s) \in Ids THEN h[Down(h, s)].kids[k] ELSE NULL
    BY DownAppend
  <2>2. Down(h, s) \in Ids /\ h[Down(h, s)].kids[k] = Down(h, Append(s, k))
    BY <1>2, <2>1, IdsAssumption
  <2> QED BY <1>2, <2>2 DEF Tree, NoDangling
<1>3. <<>> \in T
  <2> SUFFICES ASSUME NEW m \in Locs, Down(h, m) = Root PROVE m = <<>>
    BY <1>1
  <2>1. ASSUME NEW s \in Locs, NEW k \in Keys, m = Append(s, k) PROVE FALSE
    BY <1>2, <2>1, YamlAssumption
  <2> QED BY <2>1, PlaceCases
<1>4. ASSUME NEW s \in Locs, NEW k \in Keys, s \in T PROVE Append(s, k) \in T
  <2>1. Append(s, k) \in Locs
    BY AppendPlace
  <2> SUFFICES ASSUME NEW m \in Locs, Down(h, Append(s, k)) \in Ids,
                      Down(h, Append(s, k)) = Down(h, m)
               PROVE  Append(s, k) = m
    BY <2>1
  <2>2. /\ Down(h, s) \in Ids /\ h[Down(h, s)].kids[k] = Down(h, Append(s, k))
        /\ Down(h, Append(s, k)) # Root
    BY <1>2
  <2>3. CASE m = <<>>
    BY <1>1, <2>2, <2>3
  <2>4. ASSUME NEW r \in Locs, NEW j \in Keys, m = Append(r, j)
        PROVE  Append(s, k) = m
    <3>1. Down(h, r) \in Ids /\ h[Down(h, r)].kids[j] = Down(h, m)
      BY <1>2, <2>4
    <3>2. Down(h, s) = Down(h, r) /\ k = j
      BY <2>2, <3>1 DEF Tree, OneParent
    <3>3. s = r
      BY <1>4, <2>2, <3>2
    <3> QED BY <2>4, <3>2, <3>3
  <2> QED BY <2>3, <2>4, PlaceCases
<1> HIDE DEF T
<1>5. \A l \in Locs : l \in T
  BY <1>3, <1>4, EveryPlace
<1> QED BY <1>5 DEF T

(* A new node is at one new place, and the others stay where they are.     *)
LEMMA DownAdded ==
    ASSUME NEW h \in Heaps, NEW h2 \in Heaps, NEW lv, Tree(h, Root, lv),
           NEW p, NEW k, NEW n, Linked(h, h2, p, k, n),
           NEW l \in Locs, Down(h, l) = p
    PROVE  /\ Down(h2, Append(l, k)) = n
           /\ \A loc \in Locs : Down(h, loc) \in Ids => Down(h2, loc) = Down(h, loc)
           /\ \A loc \in Locs :
                 Down(h2, loc) \in Ids => Down(h, loc) \in Ids \/ loc = Append(l, k)
           /\ Down(h, Append(l, k)) \notin Ids
<1> DEFINE new == Append(l, k)
           T == {loc \in Locs :
                    /\ Down(h, loc) \in Ids => Down(h2, loc) = Down(h, loc)
                    /\ loc = new => Down(h2, loc) = n
                    /\ Down(h2, loc) \in Ids => Down(h, loc) \in Ids \/ loc = new}
<1>1. /\ p \in Ids /\ n \in Ids /\ k \in Keys /\ p # n /\ ~Live(h, n)
      /\ h[p].kids[k] \notin Ids /\ h2[p].kids[k] = n
      /\ \A m \in Ids \ {p, n} : h2[m] = h[m]
      /\ \A j \in Keys : h2[n].kids[j] \notin Ids
      /\ \A j \in Keys \ {k} : \/ h2[p].kids[j] = h[p].kids[j]
                               \/ h2[p].kids[j] \notin Ids /\ h[p].kids[j] \notin Ids
  BY DEF Linked
<1>2. /\ new \in Locs /\ new # <<>>
      /\ \A s \in Locs, j \in Keys : Append(s, j) = new => s = l /\ j = k
  BY <1>1, AppendPlace
<1>3. Down(h, new) \notin Ids
  <2>1. Down(h, new) = IF Down(h, l) \in Ids THEN h[Down(h, l)].kids[k] ELSE NULL
    BY <1>1, DownAppend
  <2> QED BY <1>1, <2>1
<1>4. <<>> \in T
  <2>1. <<>> \in Locs /\ Down(h, <<>>) = Root /\ Down(h2, <<>>) = Root /\ Root \in Ids
    BY DownEmpty, YamlAssumption DEF Locs
  <2> QED BY <1>2, <2>1
<1> HIDE DEF new
<1>5. ASSUME NEW s \in Locs, NEW j \in Keys, s \in T PROVE Append(s, j) \in T
  <2> DEFINE loc == Append(s, j)
             d  == Down(h, s)
             d2 == Down(h2, s)
  <2>1. loc \in Locs /\ (loc = new => s = l /\ j = k)
    BY <1>2, AppendPlace
  <2>2. /\ Down(h, loc) = IF d \in Ids THEN h[d].kids[j] ELSE NULL
        /\ Down(h2, loc) = IF d2 \in Ids THEN h2[d2].kids[j] ELSE NULL
    BY DownAppend
  <2>3. /\ d \in Ids => d2 = d
        /\ s = new => d2 = n
        /\ d2 \in Ids => d \in Ids \/ s = new
    BY <1>5
  <2>4. d \in Ids => d # n
    BY <1>1, DownLive
  <2>5. d = p => s = l
    BY <1>1, DownOnce
  <2>6. Down(h, l) = p
    OBVIOUS
  <2>7. NULL \notin Ids
    BY IdsAssumption
  <2>8. CASE d \in Ids /\ d # p
    <3>1. h2[d] = h[d] /\ d2 = d
      BY <1>1, <2>3, <2>4, <2>8
    <3>2. Down(h2, loc) = Down(h, loc)
      BY <2>2, <2>8, <3>1
    <3>3. loc # new
      BY <2>1, <2>6, <2>8
    <3> QED BY <2>1, <3>2, <3>3
  <2>9. CASE d = p /\ j = k
    <3>1. s = l /\ d2 = p
      BY <1>1, <2>3, <2>5, <2>9
    <3>2. loc = new
      BY <2>9, <3>1 DEF new
    <3>3. Down(h2, loc) = n
      BY <1>1, <2>2, <2>9, <3>1
    <3> QED BY <1>3, <2>1, <3>2, <3>3
  <2>10. CASE d = p /\ j # k
    <3>1. d2 = p /\ loc # new
      BY <1>1, <2>1, <2>3, <2>10
    <3>2. Down(h, loc) = h[p].kids[j] /\ Down(h2, loc) = h2[p].kids[j]
      BY <1>1, <2>2, <2>10, <3>1
    <3>3. Down(h2, loc) = Down(h, loc) \/ (Down(h2, loc) \notin Ids /\ Down(h, loc) \notin Ids)
      BY <1>1, <2>10, <3>2
    <3> QED BY <2>1, <3>1, <3>3
  <2>11. CASE d \notin Ids /\ s = new
    <3>1. d2 = n
      BY <2>3, <2>11
    <3>2. Down(h2, loc) \notin Ids /\ Down(h, loc) \notin Ids
      BY <1>1, <2>2, <2>7, <2>11, <3>1
    <3>3. loc # new
      BY <1>1, <2>1, <2>6, <2>11
    <3> QED BY <2>1, <3>2, <3>3
  <2>12. CASE d \notin Ids /\ s # new
    <3>1. Down(h2, loc) \notin Ids /\ Down(h, loc) \notin Ids
      BY <2>2, <2>3, <2>7, <2>12
    <3>2. loc # new
      BY <1>1, <2>1, <2>6, <2>12
    <3> QED BY <2>1, <3>1, <3>2
  <2> QED BY <2>8, <2>9, <2>10, <2>11, <2>12
<1> HIDE DEF T
<1>6. \A loc \in Locs : loc \in T
  BY <1>4, <1>5, EveryPlace
<1>7. Down(h2, new) = n
  BY <1>2, <1>6 DEF T
<1> QED BY <1>3, <1>6, <1>7 DEF T, new

(* Values do not move anything.                                            *)
LEMMA DownKept ==
    ASSUME NEW h \in Heaps, NEW h2 \in Heaps, Kept(h, h2)
    PROVE  \A loc \in Locs : /\ Down(h, loc) \in Ids => Down(h2, loc) = Down(h, loc)
                             /\ Down(h2, loc) \in Ids => Down(h, loc) \in Ids
<1> DEFINE T == {loc \in Locs : /\ Down(h, loc) \in Ids => Down(h2, loc) = Down(h, loc)
                                /\ Down(h2, loc) \in Ids => Down(h, loc) \in Ids}
<1>1. <<>> \in T
  <2>1. <<>> \in Locs /\ Down(h, <<>>) = Root /\ Down(h2, <<>>) = Root /\ Root \in Ids
    BY DownEmpty, YamlAssumption DEF Locs
  <2> QED BY <2>1
<1>2. ASSUME NEW s \in Locs, NEW j \in Keys, s \in T PROVE Append(s, j) \in T
  <2>1. Append(s, j) \in Locs
    BY AppendPlace
  <2>2. /\ Down(h, Append(s, j)) =
              IF Down(h, s) \in Ids THEN h[Down(h, s)].kids[j] ELSE NULL
        /\ Down(h2, Append(s, j)) =
              IF Down(h2, s) \in Ids THEN h2[Down(h2, s)].kids[j] ELSE NULL
    BY DownAppend
  <2>3. \A m \in Ids : h[m].kids[j] \in Ids \/ h2[m].kids[j] \in Ids =>
           h2[m].kids[j] = h[m].kids[j]
    BY DEF Kept
  <2>4. CASE Down(h, s) \in Ids
    BY <1>2, <2>1, <2>2, <2>3, <2>4
  <2>5. CASE Down(h, s) \notin Ids
    BY <1>2, <2>1, <2>2, <2>5, IdsAssumption
  <2> QED BY <2>4, <2>5
<1> HIDE DEF T
<1>3. \A loc \in Locs : loc \in T
  BY <1>1, <1>2, EveryPlace
<1> QED BY <1>3 DEF T

-----------------------------------------------------------------------------
(* The tree against the documents.                                         *)

Said(w, loc, type, val) ==
    [l \in DOMAIN w \cup {loc} |->
        IF l = loc THEN [type |-> type, val |-> val] ELSE w[l]]

ValueOf(type, data) == IF type \in Scalars THEN data ELSE NULL

Allocated(h) == {n \in Ids : Live(h, n)}

(* What w says of a place is what the tree has there.                      *)
Agrees(h, w, loc) ==
    /\ loc \in Locs /\ loc # <<>> /\ Down(h, loc) \in Ids
    /\ h[Down(h, loc)].type = w[loc].type
    /\ h[Down(h, loc)].val = w[loc].val
    /\ w[loc].type \notin Scalars => w[loc].val = NULL

(* The places of w are those of the tree below the root, and as many as    *)
(* nodes are allocated there.                                              *)
Told(h, w) ==
    /\ \A loc \in DOMAIN w : Agrees(h, w, loc)
    /\ \A loc \in Locs :
          Down(h, loc) \in Ids => loc = <<>> \/ loc \in DOMAIN w
    /\ IsFiniteSet(DOMAIN w) /\ IsFiniteSet(Allocated(h))
    /\ Cardinality(Allocated(h)) = Cardinality(DOMAIN w) + 1

(* A tree that is told is what ReadFaithful asks for.                      *)
LEMMA ToldFaithful == Told(heap, want) => Faithful
<1> SUFFICES ASSUME Told(heap, want) PROVE Faithful
  OBVIOUS
<1>1. Cardinality({n \in Ids : Live(heap, n)}) = Cardinality(DOMAIN want) + 1
  BY DEF Told, Allocated
<1>2. ASSUME NEW loc \in DOMAIN want
      PROVE  /\ At(loc) \in Ids
             /\ heap[At(loc)].type = want[loc].type
             /\ heap[At(loc)].val = want[loc].val
  <2>1. Agrees(heap, want, loc)
    BY DEF Told
  <2>2. At(loc) = Down(heap, loc)
    BY AtIsDown
  <2> QED BY <2>1, <2>2 DEF Agrees
<1> QED BY <1>1, <1>2 DEF Faithful

(* A new node is a new place.                                              *)
LEMMA ToldAdded ==
    ASSUME NEW h \in Heaps, NEW h2 \in Heaps, NEW lv, Tree(h, Root, lv),
           NEW w, Told(h, w),
           NEW p, NEW k, NEW n, NEW type, NEW data,
           Addition(h, h2, p, k, n, type, data),
           NEW l \in Locs, Down(h, l) = p
    PROVE  Told(h2, Said(w, Append(l, k), type, ValueOf(type, data)))
<1> DEFINE new == Append(l, k)
           val == ValueOf(type, data)
           w2  == Said(w, new, type, val)
<1>1. /\ Linked(h, h2, p, k, n) /\ h2[n].type = type /\ h2[n].val = val
  BY DEF Addition, ValueOf
<1>2. /\ p \in Ids /\ n \in Ids /\ k \in Keys /\ p # n /\ ~Live(h, n)
      /\ Live(h2, n) /\ Live(h, p)
      /\ \A m \in Ids \ {p, n} : h2[m] = h[m]
      /\ h2[p].type = h[p].type /\ h2[p].val = h[p].val
  BY <1>1 DEF Linked
<1>3. new \in Locs /\ new # <<>>
  BY <1>2, AppendPlace
<1>4. /\ Down(h2, new) = n
      /\ \A loc \in Locs : Down(h, loc) \in Ids => Down(h2, loc) = Down(h, loc)
      /\ \A loc \in Locs :
            Down(h2, loc) \in Ids => Down(h, loc) \in Ids \/ loc = new
      /\ Down(h, new) \notin Ids
  BY <1>1, DownAdded
<1>5. /\ DOMAIN w2 = DOMAIN w \cup {new}
      /\ w2[new] = [type |-> type, val |-> val]
      /\ \A loc \in DOMAIN w : loc # new => w2[loc] = w[loc]
  BY DEF Said
<1>6. new \notin DOMAIN w
  BY <1>4 DEF Told, Agrees
<1>7. type \notin Scalars => val = NULL
  BY DEF ValueOf
<1> HIDE DEF new, val, w2
<1>8. ASSUME NEW loc \in DOMAIN w2 PROVE Agrees(h2, w2, loc)
  <2>1. CASE loc = new
    BY <1>1, <1>2, <1>3, <1>4, <1>5, <1>7, <2>1 DEF Agrees
  <2>2. CASE loc # new
    <3>1. Agrees(h, w, loc) /\ w2[loc] = w[loc]
      BY <1>5, <1>8, <2>2 DEF Told
    <3> DEFINE d == Down(h, loc)
    <3>2. d \in Ids /\ Down(h2, loc) = d /\ Live(h, d)
      BY <1>4, <3>1, DownLive DEF Agrees
    <3>3. h2[d].type = h[d].type /\ h2[d].val = h[d].val
      <4> HIDE DEF d
      <4> QED BY <1>2, <3>2
    <3> QED BY <3>1, <3>2, <3>3 DEF Agrees
  <2> QED BY <2>1, <2>2
<1>9. ASSUME NEW loc \in Locs, Down(h2, loc) \in Ids
      PROVE  loc = <<>> \/ loc \in DOMAIN w2
  BY <1>4, <1>5, <1>9 DEF Told
<1>10. Allocated(h2) = Allocated(h) \cup {n} /\ n \notin Allocated(h)
  BY <1>2 DEF Allocated, Live
<1>11. /\ IsFiniteSet(Allocated(h2))
       /\ Cardinality(Allocated(h2)) = Cardinality(Allocated(h)) + 1
  BY <1>10, FS_AddElement DEF Told
<1>12. /\ IsFiniteSet(DOMAIN w2)
       /\ Cardinality(DOMAIN w2) = Cardinality(DOMAIN w) + 1
  BY <1>5, <1>6, FS_AddElement DEF Told
<1>13. Cardinality(Allocated(h2)) = Cardinality(DOMAIN w2) + 1
  BY <1>11, <1>12 DEF Told
<1> QED BY <1>8, <1>9, <1>11, <1>12, <1>13 DEF Told, new, val, w2

(* A node that is given a new value stays where it is.                     *)
LEMMA ToldOver ==
    ASSUME NEW h \in Heaps, NEW h2 \in Heaps, NEW lv, Tree(h, Root, lv),
           NEW w, Told(h, w),
           NEW n, NEW type, NEW data, Overwrite(h, h2, n, type, data),
           NEW loc \in Locs, loc # <<>>, Down(h, loc) = n
    PROVE  Told(h2, Said(w, loc, type, ValueOf(type, data)))
<1> DEFINE val == ValueOf(type, data)
           w2  == Said(w, loc, type, val)
<1>1. /\ Kept(h, h2) /\ n \in Ids /\ h[n].type = type
      /\ h2[n].val = IF type \in Scalars THEN data ELSE h[n].val
      /\ \A m \in Ids \ {n} : h2[m] = h[m]
  BY DEF Overwrite
<1>2. \A m \in Ids : h2[m].type = h[m].type
  BY <1>1 DEF Kept
<1>3. /\ \A m \in Locs : Down(h, m) \in Ids => Down(h2, m) = Down(h, m)
      /\ \A m \in Locs : Down(h2, m) \in Ids => Down(h, m) \in Ids
  BY <1>1, DownKept
<1>4. loc \in DOMAIN w
  BY <1>1 DEF Told
<1>5. /\ DOMAIN w2 = DOMAIN w
      /\ w2[loc] = [type |-> type, val |-> val]
      /\ \A m \in DOMAIN w : m # loc => w2[m] = w[m]
  BY <1>4 DEF Said
<1>6. type \notin Scalars => val = NULL
  BY DEF ValueOf
<1>7. h2[n].val = val
  <2>1. Agrees(h, w, loc)
    BY <1>4 DEF Told
  <2>2. h[n].type = w[loc].type /\ h[n].val = w[loc].val
        /\ (w[loc].type \notin Scalars => w[loc].val = NULL)
    BY <2>1 DEF Agrees
  <2> QED BY <1>1, <2>2 DEF ValueOf
<1> HIDE DEF val, w2
<1>8. ASSUME NEW m \in DOMAIN w2 PROVE Agrees(h2, w2, m)
  <2>1. Agrees(h, w, m)
    BY <1>5, <1>8 DEF Told
  <2>2. m \in Locs /\ m # <<>> /\ Down(h, m) \in Ids /\ Down(h2, m) = Down(h, m)
    BY <1>3, <2>1 DEF Agrees
  <2>3. CASE m = loc
    BY <1>1, <1>2, <1>5, <1>6, <1>7, <2>2, <2>3 DEF Agrees
  <2>4. CASE m # loc
    <3>1. Down(h, m) # n
      BY <1>1, <2>2, <2>4, DownOnce
    <3>2. h2[Down(h, m)] = h[Down(h, m)] /\ w2[m] = w[m]
      BY <1>1, <1>5, <1>8, <2>2, <2>4, <3>1
    <3> QED BY <2>1, <2>2, <3>2 DEF Agrees
  <2> QED BY <2>3, <2>4
<1>9. ASSUME NEW m \in Locs, Down(h2, m) \in Ids
      PROVE  m = <<>> \/ m \in DOMAIN w2
  BY <1>3, <1>5, <1>9 DEF Told
<1>10. Allocated(h2) = Allocated(h)
  BY <1>2 DEF Allocated, Live
<1> QED BY <1>5, <1>8, <1>9, <1>10 DEF Told, val, w2

(* The caller's root alone is what an empty document says.                 *)
LEMMA ToldInit == Init => Told(heap, want)
<1> SUFFICES ASSUME Init PROVE Told(heap, want)
  OBVIOUS
<1>1. heap \in Heaps /\ Tree(heap, Root, level) /\ Root \in Ids
  BY InitInv, YamlAssumption DEF IInv, Sound
<1>2. want = <<>> /\ DOMAIN want = {}
  BY DEF Init
<1>3. Allocated(heap) = {Root}
  BY YamlAssumption DEF Init, Allocated, Live, NewCell, FreeCell
<1>4. ASSUME NEW loc \in Locs, Down(heap, loc) \in Ids PROVE loc = <<>>
  <2>1. ASSUME NEW s \in Locs, NEW k \in Keys, loc = Append(s, k) PROVE FALSE
    <3>1. /\ Down(heap, loc) = Root
          /\ Down(heap, loc) = IF Down(heap, s) \in Ids
                               THEN heap[Down(heap, s)].kids[k] ELSE NULL
      BY <1>1, <1>3, <1>4, <2>1, DownLive, DownAppend DEF Allocated
    <3>2. heap[Down(heap, s)].kids[k] = Root /\ Down(heap, s) \in Ids
      BY <1>1, <3>1, IdsAssumption
    <3> QED BY <1>1, <3>2 DEF Tree, NoDangling
  <2> QED BY <2>1, PlaceCases
<1>5. /\ IsFiniteSet({}) /\ Cardinality({}) = 0
      /\ IsFiniteSet({Root}) /\ Cardinality({Root}) = 1
  BY FS_EmptySet, FS_Singleton
<1> QED BY <1>2, <1>3, <1>4, <1>5 DEF Told

-----------------------------------------------------------------------------
(* The containers that are open, in the document and on the parent stack.  *)

TypeFor(kind) == IF kind = "mapping" THEN "dict" ELSE "array"

(* The entry s of the stack is the node at the place of the frame f, and   *)
(* counts the children of a sequence as libyaml does.                      *)
Placed(h, f, s) ==
    /\ f.loc \in Locs /\ Down(h, f.loc) = s.parent
    /\ h[s.parent].type = TypeFor(f.kind)
    /\ f.kind = "sequence" => s.index = f.count /\ f.count <= ArrayMax

(* f is the container g is the last child of.                              *)
Encloses(f, g) ==
    /\ f.kind = "mapping" => f.key = NULL
    /\ f.kind = "sequence" /\ g.kind = "sequence" => f.nested

Opened(h, open, stk) ==
    /\ Len(stk) = Len(open)
    /\ \A i \in 1 .. Len(open) : Placed(h, open[i], stk[i])
    /\ \A i \in 1 .. Len(open) - 1 : Encloses(open[i], open[i + 1])

(* Places and types stay.                                                  *)
Carries(h, h2) ==
    /\ \A loc \in Locs : Down(h, loc) \in Ids => Down(h2, loc) = Down(h, loc)
    /\ \A m \in Ids : Live(h, m) => h2[m].type = h[m].type

LEMMA PlacedCarried ==
    ASSUME NEW h, NEW h2, Carries(h, h2), NEW f \in Frames, NEW s \in Entries,
           Placed(h, f, s)
    PROVE  Placed(h2, f, s)
<1>1. s.parent \in Ids /\ Live(h, s.parent)
  BY DEF Entries, Placed, Live, TypeFor
<1> QED BY <1>1 DEF Placed, Carries

(* The innermost container goes on to its next child.                      *)
LEMMA TopMoves ==
    ASSUME NEW h, NEW h2, Carries(h, h2),
           NEW open \in Seq(Frames), NEW open2 \in Seq(Frames),
           NEW stk \in Seq(Entries), NEW stk2 \in Seq(Entries),
           NEW n \in Nat \ {0}, n = Len(open), Len(open2) = n, Len(stk2) = n,
           Opened(h, open, stk),
           \A i \in 1 .. n - 1 : open2[i] = open[i] /\ stk2[i] = stk[i],
           open2[n].kind = open[n].kind, open2[n].loc = open[n].loc,
           stk2[n].parent = stk[n].parent,
           open[n].kind = "sequence" =>
               stk2[n].index = open2[n].count /\ open2[n].count <= ArrayMax
    PROVE  Opened(h2, open2, stk2)
<1>1. n \in 1 .. n /\ Len(stk) = n
  BY DEF Opened
<1>2. ASSUME NEW i \in 1 .. n PROVE Placed(h2, open2[i], stk2[i])
  <2>1. Placed(h2, open[i], stk[i])
    <3>1. open[i] \in Frames /\ stk[i] \in Entries /\ Placed(h, open[i], stk[i])
      BY <1>1 DEF Opened
    <3> QED BY <3>1, PlacedCarried
  <2>2. CASE i = n
    BY <2>1, <2>2 DEF Placed
  <2>3. CASE i # n
    <3>1. i \in 1 .. n - 1
      BY <2>3
    <3> QED BY <2>1, <3>1
  <2> QED BY <2>2, <2>3
<1>3. ASSUME NEW i \in 1 .. n - 1 PROVE Encloses(open2[i], open2[i + 1])
  <2>1. Encloses(open[i], open[i + 1]) /\ open2[i] = open[i]
    BY DEF Opened
  <2>2. CASE i = n - 1
    <3>1. i + 1 = n
      BY <2>2
    <3> QED BY <2>1, <3>1 DEF Encloses
  <2>3. CASE i # n - 1
    <3>1. i + 1 \in 1 .. n - 1
      BY <2>3
    <3> QED BY <2>1, <3>1
  <2> QED BY <2>2, <2>3
<1> QED BY <1>2, <1>3 DEF Opened

(* A container is opened in the innermost one.                             *)
LEMMA OneOpened ==
    ASSUME NEW h, NEW open \in Seq(Frames), NEW stk \in Seq(Entries),
           Opened(h, open, stk), NEW f \in Frames, NEW s \in Entries,
           Placed(h, f, s), open # <<>> => Encloses(open[Len(open)], f)
    PROVE  Opened(h, Append(open, f), Append(stk, s))
<1> DEFINE n == Len(open)
           open2 == Append(open, f)
           stk2 == Append(stk, s)
<1>1. /\ n \in Nat /\ Len(stk) = n /\ Len(open2) = n + 1 /\ Len(stk2) = n + 1
      /\ \A i \in 1 .. n : open2[i] = open[i] /\ stk2[i] = stk[i]
      /\ open2[n + 1] = f /\ stk2[n + 1] = s
      /\ n > 0 => open # <<>>
  BY DEF Opened
<1> HIDE DEF open2, stk2
<1>2. ASSUME NEW i \in 1 .. n + 1 PROVE Placed(h, open2[i], stk2[i])
  <2>1. CASE i \in 1 .. n
    BY <1>1, <2>1 DEF Opened
  <2>2. CASE i \notin 1 .. n
    <3>1. i = n + 1
      BY <1>1, <2>2
    <3> QED BY <1>1, <3>1
  <2> QED BY <2>1, <2>2
<1>3. ASSUME NEW i \in 1 .. n PROVE Encloses(open2[i], open2[i + 1])
  <2>1. CASE i \in 1 .. n - 1
    <3>1. i + 1 \in 1 .. n
      BY <1>1, <2>1
    <3> QED BY <1>1, <2>1, <3>1 DEF Opened
  <2>2. CASE i \notin 1 .. n - 1
    <3>1. i = n /\ n > 0
      BY <1>1, <2>2
    <3> QED BY <1>1, <3>1
  <2> QED BY <2>1, <2>2
<1>4. (n + 1) - 1 = n
  BY <1>1
<1> HIDE DEF n
<1>5. Opened(h, open2, stk2)
  BY <1>1, <1>2, <1>3, <1>4 DEF Opened
<1> QED BY <1>5 DEF open2, stk2

(* The innermost container is closed.                                      *)
LEMMA OneClosed ==
    ASSUME NEW h, NEW open \in Seq(Frames), NEW stk \in Seq(Entries),
           Opened(h, open, stk), open # <<>>
    PROVE  Opened(h, SubSeq(open, 1, Len(open) - 1), SubSeq(stk, 1, Len(stk) - 1))
<1> DEFINE m == Len(open) - 1
           open2 == SubSeq(open, 1, m)
           stk2 == SubSeq(stk, 1, m)
<1>1. /\ m \in Nat /\ Len(open) = m + 1 /\ Len(stk) = m + 1
      /\ Len(open2) = m /\ Len(stk2) = m
      /\ \A i \in 1 .. m : open2[i] = open[i] /\ stk2[i] = stk[i]
  BY DEF Opened
<1> HIDE DEF open2, stk2
<1>2. ASSUME NEW i \in 1 .. m PROVE Placed(h, open2[i], stk2[i])
  <2>1. i \in 1 .. Len(open)
    BY <1>1
  <2> QED BY <1>1, <2>1 DEF Opened
<1>3. ASSUME NEW i \in 1 .. m - 1 PROVE Encloses(open2[i], open2[i + 1])
  <2>1. i \in 1 .. Len(open) - 1 /\ i \in 1 .. m /\ i + 1 \in 1 .. m
    BY <1>1
  <2> QED BY <1>1, <2>1 DEF Opened
<1>4. Opened(h, open2, stk2)
  <2> HIDE DEF m
  <2> QED BY <1>1, <1>2, <1>3 DEF Opened
<1>5. Len(stk) - 1 = m
  BY <1>1
<1> QED BY <1>4, <1>5 DEF open2, stk2

(* What an event does to the containers that are open and to what the      *)
(* documents say.                                                          *)
Opens(e, kind) ==
    yaml'.open = Append(Advanced(e), Frame(kind, Place(e)))

Tells(e, type, val) ==
    want' = IF IsKey(e) \/ yaml.open = <<>> THEN want
            ELSE Said(want, Place(e), type, val)

EventTells(e) ==
    /\ clear' => clear /\ ~ Misread(e)
    /\ e.type \in {"stream_start", "stream_end", "document_start",
                   "document_end"} => yaml'.open = <<>> /\ want' = want
    /\ e.type \in {"mapping_end", "sequence_end"} =>
          /\ yaml'.open = SubSeq(yaml.open, 1, Len(yaml.open) - 1)
          /\ want' = want
    /\ e.type = "mapping_end" => Inner.kind = "mapping" /\ Inner.key = NULL
    /\ e.type = "sequence_end" => Inner.kind = "sequence"
    /\ e.type = "scalar" =>
          /\ yaml'.open = Advanced(e)
          /\ Tells(e, ScalarType(e), e.text)
    /\ e.type = "mapping_start" => Opens(e, "mapping") /\ Tells(e, "dict", NULL)
    /\ e.type = "sequence_start" => Opens(e, "sequence") /\ Tells(e, "array", NULL)

LEMMA EventsTell ==
    ASSUME StreamOK, NEW e \in NextEvents, Emit(e)
    PROVE  EventTells(e)
<1> DEFINE nodes == {"scalar", "alias", "mapping_start", "sequence_start"}
<1>1. \A m \in NodeEvents : m.type \in nodes
  BY DEF NodeEvents, Event, Plain
<1>2. \A t : Plain(t).type = t
  BY DEF Plain, Event
<1>3. /\ e.type \in nodes => e \in NodeEvents
      /\ e.type = "mapping_end" => Inner.kind = "mapping" /\ Inner.key = NULL
      /\ e.type = "sequence_end" => Inner.kind = "sequence"
  <2> HIDE DEF NodeEvents, Plain
  <2>1. CASE yaml.phase = "begin"
    BY <1>2, <2>1 DEF NextEvents
  <2>2. CASE yaml.phase = "stream"
    BY <1>2, <2>2 DEF NextEvents
  <2>3. CASE yaml.phase = "node"
    BY <1>1, <2>3 DEF NextEvents
  <2>4. CASE yaml.phase = "close"
    BY <1>2, <2>4 DEF NextEvents
  <2>5. CASE yaml.phase = "over"
    BY <2>5 DEF NextEvents
  <2>6. CASE yaml.phase = "open"
    BY <1>1, <1>2, <2>6 DEF NextEvents, More
  <2> QED BY <2>1, <2>2, <2>3, <2>4, <2>5, <2>6 DEF StreamOK
<1>4. clear' => clear /\ ~ Misread(e)
  BY Zenon DEF Emit
<1>5. CASE e.type \notin nodes
  <2>1. want' = want
    BY <1>1, <1>5 DEF Emit
  <2>2. /\ e.type \in {"stream_start", "stream_end", "document_start",
                       "document_end"} => yaml'.open = <<>>
        /\ e.type \in {"mapping_end", "sequence_end"} =>
              yaml'.open = SubSeq(yaml.open, 1, Len(yaml.open) - 1)
    BY DEF Emit
  <2> QED BY <1>3, <1>4, <1>5, <2>1, <2>2 DEF EventTells
<1>6. CASE e.type \in nodes
  <2>0. e \in NodeEvents
    BY <1>3, <1>6
  <2>1. e.type = "scalar" => /\ yaml'.open = Advanced(e)
                             /\ Tells(e, ScalarType(e), e.text)
    BY <2>0 DEF Emit, Tells, Says, Said
  <2>2. e.type = "mapping_start" => Opens(e, "mapping") /\ Tells(e, "dict", NULL)
    BY <2>0 DEF Emit, Opens, Tells, Says, Said
  <2>3. e.type = "sequence_start" => Opens(e, "sequence") /\ Tells(e, "array", NULL)
    BY <2>0 DEF Emit, Opens, Tells, Says, Said
  <2> QED BY <1>3, <1>4, <1>6, <2>1, <2>2, <2>3 DEF EventTells
<1> QED BY <1>5, <1>6

(* The frames after the next child, a key, a value or a container.         *)
LEMMA AdvancedIs ==
    ASSUME StreamOK, yaml.open # <<>>, NEW e \in NextEvents, NEW n, n = Len(yaml.open)
    PROVE  /\ n \in Nat \ {0} /\ Inner = yaml.open[n] /\ Inner \in Frames
           /\ Advanced(e) \in Seq(Frames) /\ Len(Advanced(e)) = n
           /\ \A i \in 1 .. n - 1 : Advanced(e)[i] = yaml.open[i]
           /\ Advanced(e)[n].kind = Inner.kind
           /\ Advanced(e)[n].loc = Inner.loc
           /\ Advanced(e)[n].key = IF IsKey(e) THEN e.text ELSE NULL
           /\ Advanced(e)[n].count = IF IsKey(e) THEN Inner.count ELSE Inner.count + 1
           /\ e.type = "sequence_start" => Advanced(e)[n].nested
<1> DEFINE k == IF IsKey(e) THEN e.text ELSE NULL
           c == IF IsKey(e) THEN Inner.count ELSE Inner.count + 1
           b == e.type = "sequence_start"
           f == [Inner EXCEPT !.key = k, !.count = c, !.nested = b]
           adv == Advanced(e)
<1>1. yaml.open \in Seq(Frames) /\ n \in Nat
  BY DEF StreamOK
<1>2. n \in Nat \ {0} /\ n \in 1 .. n /\ Inner = yaml.open[n] /\ Inner \in Frames
  BY <1>1 DEF Inner
<1>3. k \in Tokens \cup {NULL}
  BY EventsFit DEF EventFits
<1>4. c \in Nat
  BY <1>2 DEF Frames
<1>5. b \in BOOLEAN
  OBVIOUS
<1>6. adv = [yaml.open EXCEPT ![n] = f]
  BY DEF Advanced
<1> HIDE DEF k, c, b, adv
<1>7. f \in Frames /\ f.kind = Inner.kind /\ f.loc = Inner.loc /\ f.key = k /\ f.count = c
  BY <1>2, <1>3, <1>4, <1>5 DEF Frames
<1>8. b => f.nested
  <2> SUFFICES ASSUME b = TRUE PROVE f.nested = TRUE
    BY <1>5, <1>7 DEF Frames
  <2> QED BY <1>2 DEF Frames
<1> HIDE DEF f
<1>9. /\ adv \in Seq(Frames) /\ Len(adv) = n /\ adv[n] = f
      /\ \A i \in 1 .. n - 1 : adv[i] = yaml.open[i]
  BY <1>1, <1>2, <1>6, <1>7
<1> QED BY <1>2, <1>7, <1>8, <1>9 DEF k, c, b, adv

-----------------------------------------------------------------------------
(* What a file that is read without an error keeps.                        *)

(* In which state the reader is, and which key it holds, when the next     *)
(* event belongs into the innermost container.                             *)
Awaits(st, k, open) ==
    LET top == open[Len(open)]
    IN  /\ st # "block_content" => k = NULL
        /\ st = "block_content" =>
              open # <<>> /\ top.kind = "mapping" /\ k = top.key /\ k # NULL
        /\ st = "sequence" => open # <<>> /\ top.kind = "sequence"
        /\ st = "block" /\ open # <<>> =>
              \/ top.kind = "mapping" /\ top.key = NULL
              \/ top.kind = "sequence" /\ top.nested

(* The tree holds what the documents said so far, and the reader is where  *)
(* libyaml is in them.                                                     *)
Follows ==
    /\ Told(heap, want)
    /\ Opened(heap, yaml.open, stack)
    /\ Awaits(state, key, yaml.open)

ReadInv ==
    /\ clear /\ pc = "read" => Follows
    /\ clear /\ pc \in {"done", "idle"} /\ ret = 0 => Told(heap, want)
    /\ pc = "idle" => ret = 0

(* A child is made under the key or the index that is its place in the     *)
(* document.                                                               *)
LEMMA ChildMade ==
    ASSUME IInv, pc = "read", stack # <<>>,
           Told(heap, want), Opened(heap, yaml.open, stack),
           IF Inner.kind = "mapping" THEN key = Inner.key /\ key # NULL
                                     ELSE key = NULL,
           NEW type, NEW data \in Values \cup {NULL}, NEW fault, NEW made,
           made = CreateAndInsert(heap, key, type, Top.parent, Top.index,
                                  data, fault),
           made.status = "ok", Attached(made), NEW e
    PROVE  /\ Told(heap', Said(want, Place(e), type, ValueOf(type, data)))
           /\ Place(e) \in Locs /\ Down(heap', Place(e)) = made.node
           /\ Carries(heap, heap')
           /\ Inner.kind = "sequence" => Inner.count + 1 <= ArrayMax
           /\ heap[Top.parent].type = TypeFor(Inner.kind)
<1> DEFINE p == Top.parent
           i == Top.index
           k == Slot(heap, key, p, i)
           loc == Inner.loc
           node == Lookup(heap, key, p, i)
<1>1. /\ heap \in Heaps /\ Slots(heap) /\ Root \in Ids
      /\ level \in [Ids -> Nat] /\ Tree(heap, Root, level)
      /\ key \in Tokens \cup {NULL}
  BY YamlAssumption DEF IInv, Sound, Control
<1>2. /\ p \in Ids /\ i \in 0 .. UIntMod - 1 /\ Live(heap, p)
      /\ Len(stack) \in Nat \ {0} /\ Len(stack) = Len(yaml.open)
      /\ yaml.open # <<>>
  BY TopFacts, YamlAssumption
<1>3. Placed(heap, Inner, Top) /\ Inner \in Frames
  BY <1>2 DEF Opened, Inner, Top, IInv, StreamOK
<1>4. /\ loc \in Locs /\ Down(heap, loc) = p
      /\ heap[p].type = TypeFor(Inner.kind)
      /\ Inner.kind = "sequence" => i = Inner.count
      /\ Inner.kind \in {"mapping", "sequence"} /\ Inner.count \in Nat
  BY <1>3 DEF Placed, Frames
<1>5. k = IF Inner.kind = "sequence" THEN Inner.count ELSE Inner.key
  BY <1>4, TokensAssumption DEF Slot, Element, Tokens, TypeFor
<1>6. Place(e) = Append(loc, k)
  BY <1>2, <1>5 DEF Place
<1>7. /\ heap' \in Heaps /\ Live(heap', made.node)
  BY MadeStep DEF IInv, Sound
<1>8. CallOutcome(heap, key, type, p, i, data, made)
  <2>1. Dense(heap)
    BY <1>1 DEF Tree, NoDangling, Dense
  <2> HIDE DEF p, i
  <2>2. CallOutcome(heap, key, type, p, i, data,
                    CreateAndInsert(heap, key, type, p, i, data, fault))
    BY <1>1, <1>2, <2>1, CreateAndInsertCall
  <2> QED BY <2>2 DEF p, i
<1>9. heap' = made.heap
  BY DEF Attached
<1> HIDE DEF p, i, k, node
<1>10. ASSUME k \in Keys, Inner.kind = "sequence" PROVE Inner.count + 1 <= ArrayMax
  BY <1>4, <1>5, <1>10, TokensAssumption, IndexAssumption DEF Keys, Indexes
<1>11. ASSUME k \in Keys, heap[p].kids[k] = made.node, Live(heap, made.node),
              Overwrite(heap, made.heap, made.node, type, data)
       PROVE  /\ Told(heap', Said(want, Append(loc, k), type, ValueOf(type, data)))
              /\ Append(loc, k) \in Locs /\ Down(heap', Append(loc, k)) = made.node
              /\ Carries(heap, heap')
  <2>1. Append(loc, k) \in Locs /\ Append(loc, k) # <<>>
    BY <1>4, <1>11, AppendPlace
  <2>2. Down(heap, Append(loc, k)) = made.node
    BY <1>1, <1>2, <1>4, <1>11, DownAppend
  <2>3. Kept(heap, heap') /\ made.node \in Ids
    BY <1>9, <1>11 DEF Overwrite
  <2>4. Told(heap', Said(want, Append(loc, k), type, ValueOf(type, data)))
    BY <1>1, <1>7, <1>9, <1>11, <2>1, <2>2, ToldOver
  <2>5. \A l \in Locs : Down(heap, l) \in Ids => Down(heap', l) = Down(heap, l)
    BY <1>1, <1>7, <2>3, DownKept
  <2>6. Carries(heap, heap')
    BY <2>3, <2>5 DEF Carries, Kept
  <2> QED BY <2>1, <2>2, <2>3, <2>4, <2>5, <2>6
<1>12. ASSUME Addition(heap, made.heap, p, k, made.node, type, data)
       PROVE  /\ Told(heap', Said(want, Append(loc, k), type, ValueOf(type, data)))
              /\ Append(loc, k) \in Locs /\ Down(heap', Append(loc, k)) = made.node
              /\ Carries(heap, heap') /\ k \in Keys
  <2>1. Linked(heap, heap', p, k, made.node)
    BY <1>9, <1>12 DEF Addition
  <2>2. k \in Keys
    BY <2>1 DEF Linked
  <2>3. Append(loc, k) \in Locs
    BY <1>4, <2>2, AppendPlace
  <2>4. Told(heap', Said(want, Append(loc, k), type, ValueOf(type, data)))
    BY <1>1, <1>4, <1>7, <1>9, <1>12, ToldAdded
  <2>5. /\ Down(heap', Append(loc, k)) = made.node
        /\ \A l \in Locs : Down(heap, l) \in Ids => Down(heap', l) = Down(heap, l)
    BY <1>1, <1>4, <1>7, <2>1, DownAdded
  <2>6. \A m \in Ids : Live(heap, m) => heap'[m].type = heap[m].type
    BY <2>1 DEF Linked
  <2> QED BY <2>2, <2>3, <2>4, <2>5, <2>6 DEF Carries
<1>13. \/ /\ k \in Keys /\ heap[p].kids[k] = made.node /\ Live(heap, made.node)
          /\ Overwrite(heap, made.heap, made.node, type, data)
       \/ Addition(heap, made.heap, p, k, made.node, type, data)
  BY <1>8 DEF CallOutcome, k
<1> HIDE DEF loc
<1> QED BY <1>4, <1>6, <1>10, <1>11, <1>12, <1>13 DEF p

(* The reader counts a child as libyaml does.                              *)
LEMMA ChildCounted ==
    ASSUME IInv, pc = "read", stack # <<>>, Opened(heap, yaml.open, stack),
           NEW e \in NextEvents, ~ IsKey(e), Carries(heap, heap'),
           Inner.kind = "sequence" => Inner.count + 1 <= ArrayMax
    PROVE  Opened(heap', Advanced(e), Counted)
<1> DEFINE n == Len(yaml.open)
           adv == Advanced(e)
<1>1. /\ yaml.open # <<>> /\ Len(stack) = n /\ stack \in Seq(Entries)
      /\ yaml.open \in Seq(Frames) /\ StreamOK
  BY TopFacts DEF IInv, StreamOK
<1>2. /\ n \in Nat \ {0} /\ Inner = yaml.open[n] /\ Inner \in Frames
      /\ adv \in Seq(Frames) /\ Len(adv) = n
      /\ \A i \in 1 .. n - 1 : adv[i] = yaml.open[i]
      /\ adv[n].kind = Inner.kind /\ adv[n].loc = Inner.loc
      /\ adv[n].count = Inner.count + 1
  BY <1>1, AdvancedIs
<1>3. /\ Counted \in Seq(Entries) /\ Len(Counted) = n
      /\ Counted[n].parent = stack[n].parent
  <2>1. n \in 1 .. n
    BY <1>2
  <2> QED BY <1>1, <2>1, CountedSame
<1>4. Placed(heap, Inner, stack[n]) /\ stack[n] \in Entries
  <2>1. n \in 1 .. n
    BY <1>2
  <2> QED BY <1>1, <1>2, <2>1 DEF Opened
<1> HIDE DEF n, adv
<1>5. \A i \in 1 .. n - 1 : Counted[i] = stack[i]
  BY <1>1, <1>2 DEF Counted
<1>6. ASSUME Inner.kind = "sequence"
      PROVE  Counted[n].index = Inner.count + 1 /\ Inner.count + 1 <= ArrayMax
  <2>1. heap[Top.parent].type = "array" /\ Top = stack[n] /\ stack[n].index = Inner.count
    BY <1>1, <1>4, <1>6 DEF Placed, TypeFor, Top
  <2>2. Counted = [stack EXCEPT ![n].index = (stack[n].index + 1) % UIntMod]
    BY <1>1, <2>1 DEF Counted
  <2>3. Counted[n].index = (stack[n].index + 1) % UIntMod
    BY <1>1, <1>2, <1>4, <2>2 DEF Entries
  <2>4. Inner.count + 1 <= ArrayMax /\ Inner.count \in Nat
    BY <1>2, <1>6 DEF Frames
  <2>5. (Inner.count + 1) % UIntMod = Inner.count + 1
    <3>1. Inner.count + 1 \in 0 .. UIntMod - 1 /\ UIntMod \in Nat \ {0}
      BY <2>4, IndexAssumption
    <3> QED BY <3>1
  <2> QED BY <2>1, <2>3, <2>4, <2>5
<1> HIDE DEF Counted
<1>7. /\ \A i \in 1 .. n - 1 : adv[i] = yaml.open[i] /\ Counted[i] = stack[i]
      /\ adv[n].kind = yaml.open[n].kind /\ adv[n].loc = yaml.open[n].loc
      /\ yaml.open[n].kind = "sequence" =>
            Counted[n].index = adv[n].count /\ adv[n].count <= ArrayMax
  BY <1>2, <1>5, <1>6
<1>8. Opened(heap', adv, Counted)
  <2>1. n = Len(yaml.open)
    BY DEF n
  <2> QED BY <1>1, <1>2, <1>3, <1>7, <2>1, TopMoves
<1> QED BY <1>8 DEF adv

(* A value is added and the reader goes on.                                *)
LEMMA NodeAddReads ==
    ASSUME IInv, pc = "read", stack # <<>>, Follows,
           NEW e \in NextEvents, EventTells(e), e.type = "scalar",
           e.text \in Tokens, NEW fault, NEW made,
           made = CreateAndInsert(heap, key, ScalarType(e), Top.parent,
                                  Top.index, e.text, fault),
           made.status = "ok", Attached(made), ScalarType(e) # "refused",
           stack' = Counted, key' = KeyLeft,
           \/ state = "block_content" /\ state' = "block"
           \/ state = "sequence" /\ state' = "sequence"
    PROVE  Follows'
<1> DEFINE n == Len(yaml.open)
           adv == Advanced(e)
<1>0. /\ Told(heap, want) /\ Opened(heap, yaml.open, stack)
      /\ Awaits(state, key, yaml.open)
  BY DEF Follows
<1>1. yaml.open # <<>> /\ StreamOK /\ e.text \in Values \cup {NULL}
  BY TopFacts, YamlAssumption DEF IInv
<1>2. /\ state = "block_content" => Inner.kind = "mapping" /\ key = Inner.key /\ key # NULL
      /\ state = "sequence" => Inner.kind = "sequence" /\ key = NULL
  BY <1>0 DEF Awaits, Inner
<1>3. ~ IsKey(e) /\ (IF Inner.kind = "mapping" THEN key = Inner.key /\ key # NULL
                                               ELSE key = NULL)
  BY <1>2 DEF IsKey
<1>4. /\ Told(heap', Said(want, Place(e), ScalarType(e), ValueOf(ScalarType(e), e.text)))
      /\ Carries(heap, heap')
      /\ Inner.kind = "sequence" => Inner.count + 1 <= ArrayMax
      /\ heap[Top.parent].type = TypeFor(Inner.kind)
  BY <1>0, <1>1, <1>3, ChildMade
<1>5. ScalarType(e) \in Scalars
  BY YamlAssumption DEF ScalarType, Scalars
<1>6. want' = Said(want, Place(e), ScalarType(e), e.text)
  BY <1>1, <1>3 DEF EventTells, Tells
<1>7. Told(heap', want')
  BY <1>4, <1>5, <1>6 DEF ValueOf
<1>8. yaml'.open = adv
  BY DEF EventTells
<1>9. Opened(heap', yaml'.open, stack')
  BY <1>0, <1>3, <1>4, <1>8, ChildCounted
<1>10. adv[n].kind = Inner.kind /\ adv[n].key = NULL /\ Len(adv) = n /\ adv # <<>>
  BY <1>1, <1>3, AdvancedIs
<1> HIDE DEF adv, n
<1>11. Awaits(state', key', yaml'.open)
  BY <1>2, <1>4, <1>8, <1>10 DEF Awaits, KeyLeft, TypeFor
<1> QED BY <1>7, <1>9, <1>11 DEF Follows

(* A container is opened and the reader goes on.                           *)
LEMMA ParentAddReads ==
    ASSUME IInv, pc = "read", stack # <<>>, Follows,
           NEW e \in NextEvents, EventTells(e), NEW type \in Containers,
           e.type = IF type = "dict" THEN "mapping_start" ELSE "sequence_start",
           ~ (heap[Top.parent].type = "dict" /\ key = NULL),
           NEW fault, NEW made,
           made = CreateAndInsert(heap, key, type, Top.parent, Top.index,
                                  NULL, fault),
           made.status = "ok", Attached(made),
           stack' = Push(Counted, made.node), key' = KeyLeft,
           state \in {"block", "block_content", "sequence"},
           state' = IF type = "dict" THEN "block" ELSE "sequence"
    PROVE  Follows'
<1> DEFINE n == Len(yaml.open)
           adv == Advanced(e)
           kind == IF type = "dict" THEN "mapping" ELSE "sequence"
           f == Frame(kind, Place(e))
           s == [parent |-> made.node, index |-> 0]
<1>0. /\ Told(heap, want) /\ Opened(heap, yaml.open, stack)
      /\ Awaits(state, key, yaml.open)
  BY DEF Follows
<1>1. yaml.open # <<>> /\ StreamOK
  BY TopFacts DEF IInv
<1>2. /\ n \in Nat \ {0} /\ Inner = yaml.open[n] /\ Inner \in Frames
      /\ adv \in Seq(Frames) /\ Len(adv) = n /\ adv # <<>>
      /\ adv[n].kind = Inner.kind
      /\ adv[n].key = IF IsKey(e) THEN e.text ELSE NULL
      /\ e.type = "sequence_start" => adv[n].nested
  BY <1>1, AdvancedIs
<1>3. Placed(heap, Inner, Top) /\ Inner.kind \in {"mapping", "sequence"}
  <2>1. Placed(heap, Inner, Top)
    <3>1. n \in 1 .. n
      BY <1>2
    <3> QED BY <1>0, <1>2, <3>1 DEF Opened, Top
  <2> QED BY <1>2, <2>1 DEF Frames
<1>4. /\ Inner.kind = "mapping" => key = Inner.key /\ key # NULL
      /\ Inner.kind # "mapping" => key = NULL
  BY <1>0, <1>1, <1>3 DEF Awaits, Inner, Placed, TypeFor
<1>5. ~ IsKey(e)
  BY <1>4 DEF IsKey
<1>6. /\ Told(heap', Said(want, Place(e), type, ValueOf(type, NULL)))
      /\ Place(e) \in Locs /\ Down(heap', Place(e)) = made.node
      /\ Carries(heap, heap')
      /\ Inner.kind = "sequence" => Inner.count + 1 <= ArrayMax
      /\ heap[Top.parent].type = TypeFor(Inner.kind)
  BY <1>0, <1>4, ChildMade
<1>7. /\ yaml'.open = Append(adv, f)
      /\ want' = Said(want, Place(e), type, NULL)
  BY <1>1, <1>5 DEF EventTells, Opens, Tells, Containers
<1>8. Told(heap', want')
  BY <1>6, <1>7 DEF ValueOf
<1>9. Opened(heap', adv, Counted)
  BY <1>0, <1>5, <1>6, ChildCounted
<1>10. made.node \in Ids /\ heap'[made.node].type = type
  BY MadeStep
<1>11. /\ f \in Frames /\ f.kind = kind /\ f.loc = Place(e) /\ f.key = NULL
       /\ f.count = 0 /\ s \in Entries /\ s.parent = made.node /\ s.index = 0
  <2>1. Place(e) \in Seq(Tokens \cup Nat \cup {NULL})
    <3>1. Keys \subseteq Tokens \cup Nat \cup {NULL}
      BY DEF Keys, Indexes
    <3> QED BY <1>6, <3>1 DEF Locs
  <2> QED BY <1>10, <2>1, IndexAssumption DEF Frame, Frames, Entries
<1>12. stack' = Append(Counted, s) /\ Counted \in Seq(Entries)
  BY CountedSame DEF Push
<1>13. state' = IF kind = "mapping" THEN "block" ELSE "sequence"
  BY DEF Containers
<1>14. Placed(heap', f, s)
  BY <1>6, <1>10, <1>11, IndexAssumption DEF Placed, TypeFor, Containers
<1>15. Encloses(adv[n], f)
  BY <1>2, <1>5, <1>11 DEF Encloses
<1> HIDE DEF adv, n, f, s, kind
<1>16. Opened(heap', yaml'.open, stack')
  BY <1>2, <1>7, <1>9, <1>11, <1>12, <1>14, <1>15, OneOpened
<1>17. /\ yaml'.open # <<>> /\ yaml'.open[Len(yaml'.open)] = f
  BY <1>2, <1>7, <1>11
<1>18. key' = NULL
  BY <1>3, <1>4, <1>6 DEF KeyLeft, TypeFor
<1>19. Awaits(state', key', yaml'.open)
  BY <1>11, <1>13, <1>17, <1>18 DEF Awaits, kind
<1> QED BY <1>8, <1>16, <1>19 DEF Follows

(* A container is closed and the reader goes back to the one it is in.     *)
LEMMA RemoveReads ==
    ASSUME IInv, pc = "read", stack # <<>>, Follows, key = NULL,
           heap' = heap, key' = key, want' = want,
           stack' = SubSeq(stack, 1, Len(stack) - 1),
           yaml'.open = SubSeq(yaml.open, 1, Len(yaml.open) - 1),
           NEW n, n = Len(yaml.open),
           \/ state' = "sequence" /\ n > 1 /\ yaml.open[n - 1].kind = "sequence"
           \/ /\ state' = "block"
              /\ n > 1 => yaml.open[n - 1].kind = "mapping" \/ yaml.open[n].kind = "sequence"
    PROVE  Follows'
<1>0. /\ Told(heap, want) /\ Opened(heap, yaml.open, stack)
  BY DEF Follows
<1>1. /\ yaml.open # <<>> /\ yaml.open \in Seq(Frames) /\ stack \in Seq(Entries)
      /\ n \in Nat \ {0}
  BY TopFacts DEF IInv, StreamOK
<1>2. Opened(heap', yaml'.open, stack')
  BY <1>0, <1>1, OneClosed
<1>3. /\ Len(yaml'.open) = n - 1
      /\ yaml'.open # <<>> => n > 1
      /\ n > 1 => yaml'.open # <<>> /\ yaml'.open[n - 1] = yaml.open[n - 1]
  <2> DEFINE less == SubSeq(yaml.open, 1, n - 1)
  <2>1. /\ less \in Seq(Frames) /\ Len(less) = n - 1
        /\ \A i \in 1 .. n - 1 : less[i] = yaml.open[i]
    BY <1>1
  <2>2. yaml'.open = less
    OBVIOUS
  <2> HIDE DEF less
  <2>3. less # <<>> <=> Len(less) > 0
    BY <2>1
  <2>4. n > 1 => n - 1 \in 1 .. n - 1 /\ n - 1 > 0
    BY <1>1
  <2>5. n - 1 > 0 => n > 1
    BY <1>1
  <2> QED BY <2>1, <2>2, <2>3, <2>4, <2>5
<1>4. n > 1 => /\ Encloses(yaml.open[n - 1], yaml.open[n])
               /\ yaml.open[n - 1].kind \in {"mapping", "sequence"}
  <2> SUFFICES ASSUME n > 1 PROVE /\ Encloses(yaml.open[n - 1], yaml.open[n])
                                  /\ yaml.open[n - 1].kind \in {"mapping", "sequence"}
    OBVIOUS
  <2>1. n - 1 \in 1 .. Len(yaml.open) - 1 /\ (n - 1) + 1 = n /\ n - 1 \in 1 .. Len(yaml.open)
    BY <1>1
  <2>2. Encloses(yaml.open[n - 1], yaml.open[(n - 1) + 1])
    BY <1>0, <2>1 DEF Opened
  <2>3. yaml.open[n - 1] \in Frames
    BY <1>1, <2>1
  <2> QED BY <2>1, <2>2, <2>3 DEF Frames
<1>5. Awaits(state', key', yaml'.open)
  BY <1>3, <1>4 DEF Awaits, Encloses
<1> QED BY <1>0, <1>2, <1>5 DEF Follows

(* A key is read.                                                          *)
LEMMA KeyReads ==
    ASSUME IInv, pc = "read", state = "block", Follows, yaml.open # <<>>,
           NEW e \in NextEvents, EventTells(e), e.type = "scalar",
           e.text \in Tokens, clear', heap' = heap, stack' = stack,
           key' = e.text, state' = "block_content"
    PROVE  Follows'
<1> DEFINE n == Len(yaml.open)
           adv == Advanced(e)
<1>0. /\ Told(heap, want) /\ Opened(heap, yaml.open, stack)
      /\ Awaits(state, key, yaml.open)
  BY DEF Follows
<1>1. StreamOK /\ yaml.open \in Seq(Frames) /\ stack \in Seq(Entries)
  BY DEF IInv, StreamOK, StackOK
<1>2. Inner.kind = "mapping" /\ Inner.key = NULL
  <2>1. ~ (Inner.kind = "sequence" /\ Inner.nested)
    BY DEF EventTells, Misread
  <2> QED BY <1>0, <2>1 DEF Awaits, Inner
<1>3. IsKey(e)
  BY <1>2 DEF IsKey
<1>4. yaml'.open = adv /\ want' = want
  BY <1>3 DEF EventTells, Tells
<1>5. /\ n \in Nat \ {0} /\ Inner = yaml.open[n] /\ adv \in Seq(Frames)
      /\ Len(adv) = n /\ adv # <<>>
      /\ \A i \in 1 .. n - 1 : adv[i] = yaml.open[i]
      /\ adv[n].kind = Inner.kind /\ adv[n].loc = Inner.loc
      /\ adv[n].key = e.text
  BY <1>1, <1>3, AdvancedIs
<1>6. Carries(heap, heap') /\ Len(stack) = n
  BY <1>0 DEF Carries, Opened
<1> HIDE DEF adv
<1>7. Opened(heap, adv, stack)
  <2>1. n = Len(yaml.open) /\ yaml.open[n].kind # "sequence" /\ Carries(heap, heap)
    BY <1>2, <1>5 DEF Carries
  <2> HIDE DEF n
  <2> QED BY <1>0, <1>1, <1>5, <1>6, <2>1, TopMoves
<1>8. e.text # NULL
  BY TokensAssumption
<1>9. Awaits(state', key', yaml'.open)
  BY <1>2, <1>4, <1>5, <1>8 DEF Awaits
<1> QED BY <1>0, <1>4, <1>7, <1>9 DEF Follows

(* Nothing is open and the reader goes on.                                 *)
LEMMA MoveReads ==
    ASSUME pc = "read", Follows, state # "block_content",
           yaml.open = <<>>, yaml'.open = <<>>, want' = want,
           heap' = heap, stack' = stack, key' = key,
           state' \in {"stream", "document", "stop"}
    PROVE  Follows'
<1>1. Told(heap, want) /\ Opened(heap, <<>>, stack) /\ key = NULL
  BY DEF Follows, Awaits
<1>2. Awaits(state', key', yaml'.open)
  BY <1>1 DEF Awaits
<1> QED BY <1>1, <1>2 DEF Follows

(* The mapping of a document is read into the caller's root.               *)
LEMMA DocumentReads ==
    ASSUME IInv, pc = "read", state = "document", Follows, yaml.open = <<>>,
           NEW e, EventTells(e), e.type = "mapping_start",
           heap' = heap, key' = key, stack' = Push(stack, Root), state' = "block"
    PROVE  Follows'
<1> DEFINE f == Frame("mapping", <<>>)
           s == [parent |-> Root, index |-> 0]
<1>0. /\ Told(heap, want) /\ Opened(heap, <<>>, stack)
      /\ Awaits(state, key, yaml.open) /\ heap \in Heaps
      /\ heap[Root].type = "dict" /\ stack \in Seq(Entries)
  BY DEF Follows, IInv, Sound, StackOK
<1>1. yaml'.open = Append(<<>>, f) /\ want' = want /\ stack' = Append(stack, s)
  BY DEF EventTells, Opens, Tells, Advanced, Place, Push
<1>2. /\ f \in Frames /\ f.kind = "mapping" /\ f.loc = <<>> /\ f.key = NULL
      /\ s \in Entries /\ s.parent = Root
  BY YamlAssumption, IndexAssumption DEF Frame, Frames, Entries
<1>3. Placed(heap, f, s)
  <2>1. <<>> \in Locs
    BY DEF Locs
  <2> QED BY <1>0, <1>2, <2>1, DownEmpty DEF Placed, TypeFor
<1> HIDE DEF f, s
<1>4. Opened(heap, Append(<<>>, f), Append(stack, s))
  <2>1. <<>> \in Seq(Frames)
    OBVIOUS
  <2> QED BY <1>0, <1>2, <1>3, <2>1, OneOpened
<1>5. Append(<<>>, f) # <<>> /\ Append(<<>>, f)[Len(Append(<<>>, f))] = f
  BY <1>2
<1>6. key = NULL
  BY <1>0 DEF Awaits
<1>7. Awaits(state', key', yaml'.open)
  BY <1>1, <1>2, <1>5, <1>6 DEF Awaits
<1> QED BY <1>0, <1>1, <1>4, <1>7 DEF Follows

(* One event: the tree goes on holding what the documents say, or the      *)
(* reader gives up.                                                        *)
LEMMA ConsumeReads ==
    ASSUME IInv, ReadInv, NEW e \in NextEvents, NEW fault, Consume(e, fault), Emit(e)
    PROVE  ReadInv'
<1>0. pc = "read"
  BY DEF Consume, InStart, InStream, InDocument, InBlock, InBlockContent,
         InSequence, Reading
<1>1. /\ StreamOK /\ EventFits(e) /\ EventTells(e)
      /\ yaml.phase \in PhasesIn(state)
  BY <1>0, EventsFit, EventsTell DEF IInv, Control
<1>2. clear => Follows
  BY <1>0 DEF ReadInv
<1>3. clear' => clear
  BY <1>1 DEF EventTells
<1>4. ASSUME Return(-1) PROVE ReadInv'
  BY <1>4 DEF Return, ReadInv
<1>5. ASSUME Crash PROVE ReadInv'
  BY <1>5 DEF Crash, ReadInv
<1>6. ASSUME NEW next, Continue(next), clear' => Follows' PROVE ReadInv'
  <2>1. pc' = "read"
    BY <1>0, <1>6 DEF Continue
  <2> QED BY <1>6, <2>1 DEF ReadInv
<1>7. ASSUME NEW next \in {"stream", "document", "stop"}, Move(next),
             state # "block_content",
             e.type \in {"stream_start", "stream_end", "document_start", "document_end"}
      PROVE  ReadInv'
  <2>1. yaml.open = <<>> /\ yaml'.open = <<>> /\ want' = want
    BY <1>1, <1>7 DEF EventFits, EventTells, StreamOK
  <2>2. /\ Continue(next) /\ state' = next /\ heap' = heap /\ key' = key
        /\ stack' = stack
    BY <1>7 DEF Move, Continue
  <2>3. clear' => Follows'
    BY <1>0, <1>2, <1>3, <1>7, <2>1, <2>2, MoveReads
  <2> QED BY <1>6, <2>2, <2>3
<1>8. ASSUME NEW type \in Containers, NEW next,
             next = IF type = "dict" THEN "block" ELSE "sequence",
             ParentAdd(type, next, fault),
             e.type = IF type = "dict" THEN "mapping_start" ELSE "sequence_start",
             state \in {"block", "block_content", "sequence"}
      PROVE  ReadInv'
  <2> DEFINE made == CreateAndInsert(heap, key, type, Top.parent, Top.index,
                                     NULL, fault)
  <2>1. CASE Fail
    BY <1>4, <2>1 DEF Fail
  <2>2. CASE ~ Fail
    <3>1. stack # <<>> /\ ~ (heap[Top.parent].type = "dict" /\ key = NULL)
      BY <1>8, <2>2 DEF ParentAdd
    <3>2. \/ Crash
          \/ Return(-1)
          \/ /\ made.status = "ok" /\ Attached(made) /\ Continue(next)
             /\ stack' = Push(Counted, made.node) /\ key' = KeyLeft
      BY <1>8, <3>1 DEF ParentAdd, FailLeaving
    <3> HIDE DEF made
    <3>3. CASE /\ made.status = "ok" /\ Attached(made) /\ Continue(next)
               /\ stack' = Push(Counted, made.node) /\ key' = KeyLeft
      <4>1. state' = IF type = "dict" THEN "block" ELSE "sequence"
        BY <1>8, <3>3 DEF Continue
      <4>2. clear' => Follows'
        BY <1>0, <1>1, <1>2, <1>3, <1>8, <3>1, <3>3, <4>1, ParentAddReads DEF made
      <4> QED BY <1>6, <3>3, <4>2
    <3> QED BY <1>4, <1>5, <3>2, <3>3
  <2> QED BY <2>1, <2>2
<1>9. ASSUME NEW type, NEW next, NodeAdd(e, type, next, fault), e.type = "scalar",
             \/ state = "block_content" /\ next = "block"
             \/ state = "sequence" /\ next = "sequence"
      PROVE  ReadInv'
  <2> DEFINE made == CreateAndInsert(heap, key, ScalarType(e), Top.parent,
                                     Top.index, e.text, fault)
  <2>1. CASE Fail
    BY <1>4, <2>1 DEF Fail
  <2>2. CASE ~ Fail
    <3>1. stack # <<>> /\ ScalarType(e) # "refused" /\ e.text \in Tokens
      BY <1>1, <1>9, <2>2 DEF NodeAdd, EventFits
    <3>2. \/ Crash
          \/ Return(-1)
          \/ /\ made.status = "ok" /\ Attached(made) /\ Continue(next)
             /\ stack' = Counted /\ key' = KeyLeft
      BY <1>9, <2>2 DEF NodeAdd, FailLeaving
    <3> HIDE DEF made
    <3>3. CASE /\ made.status = "ok" /\ Attached(made) /\ Continue(next)
               /\ stack' = Counted /\ key' = KeyLeft
      <4>1. \/ state = "block_content" /\ state' = "block"
            \/ state = "sequence" /\ state' = "sequence"
        BY <1>9, <3>3 DEF Continue
      <4>2. clear' => Follows'
        BY <1>0, <1>1, <1>2, <1>3, <1>9, <3>1, <3>3, <4>1, NodeAddReads DEF made
      <4> QED BY <1>6, <3>3, <4>2
    <3> QED BY <1>4, <1>5, <3>2, <3>3
  <2> QED BY <2>1, <2>2
<1> DEFINE n == Len(yaml.open)
<1>10. ASSUME NEW next, ParentRemove(next), state \in {"block", "sequence"},
              e.type \in {"mapping_end", "sequence_end"},
              clear => \/ next = "sequence" /\ n > 1 /\ yaml.open[n - 1].kind = "sequence"
                       \/ /\ next = "block"
                          /\ n > 1 => \/ yaml.open[n - 1].kind = "mapping"
                                      \/ yaml.open[n].kind = "sequence"
       PROVE  ReadInv'
  <2>1. CASE stack = <<>>
    BY <1>4, <1>10, <2>1 DEF ParentRemove, Fail
  <2>2. CASE stack # <<>>
    <3>1. /\ stack' = SubSeq(stack, 1, Len(stack) - 1) /\ Continue(next)
          /\ state' = next /\ heap' = heap /\ key' = key
      BY <1>10, <2>2 DEF ParentRemove, Continue
    <3>2. yaml'.open = SubSeq(yaml.open, 1, Len(yaml.open) - 1) /\ want' = want
      BY <1>1, <1>10 DEF EventTells
    <3>3. ASSUME clear PROVE Follows'
      <4>1. Follows /\ key = NULL
        BY <1>2, <1>10, <3>3 DEF Follows, Awaits
      <4>2. \/ state' = "sequence" /\ n > 1 /\ yaml.open[n - 1].kind = "sequence"
            \/ /\ state' = "block"
               /\ n > 1 => \/ yaml.open[n - 1].kind = "mapping"
                           \/ yaml.open[n].kind = "sequence"
        BY <1>10, <3>1, <3>3
      <4> HIDE DEF n
      <4>3. n = Len(yaml.open)
        BY DEF n
      <4> QED BY <1>0, <2>2, <3>1, <3>2, <4>1, <4>2, <4>3, RemoveReads
    <3> QED BY <1>3, <1>6, <3>1, <3>3
  <2> QED BY <2>1, <2>2
<1> HIDE DEF n
<1>11. CASE InStart(e)
  <2>1. state = "start"
    BY <1>11 DEF InStart, Reading
  <2> QED BY <1>4, <1>7, <1>11, <2>1 DEF InStart, Fail
<1>12. CASE InStream(e)
  <2>1. state = "stream"
    BY <1>12 DEF InStream, Reading
  <2> QED BY <1>4, <1>7, <1>12, <2>1 DEF InStream, Fail
<1>13. CASE InDocument(e, fault)
  <2>1. state = "document" /\ yaml.open = <<>>
    BY <1>1, <1>13 DEF InDocument, Reading, PhasesIn, StreamOK
  <2>2. CASE e.type = "mapping_start" /\ ~ Fail
    <3>1. /\ stack' = Push(stack, Root) /\ Continue("block")
          /\ heap' = heap /\ key' = key
      BY <1>13, <2>2 DEF InDocument
    <3>2. state' = "block"
      BY <3>1 DEF Continue
    <3>3. clear' => Follows'
      BY <1>0, <1>1, <1>2, <1>3, <2>1, <2>2, <3>1, <3>2, DocumentReads
    <3> QED BY <1>6, <3>1, <3>3
  <2>3. CASE ~ (e.type = "mapping_start" /\ ~ Fail)
    BY <1>4, <1>7, <1>13, <2>1, <2>3 DEF InDocument, Fail
  <2> QED BY <2>2, <2>3
<1>14. CASE InBlock(e, fault)
  <2>0. state = "block"
    BY <1>14 DEF InBlock, Reading
  <2>1. CASE e.type = "scalar" /\ ~ Fail
    <3>1. /\ key' = e.text /\ Continue("block_content")
          /\ heap' = heap /\ stack' = stack
      BY <1>14, <2>1 DEF InBlock
    <3>2. state' = "block_content"
      BY <3>1 DEF Continue
    <3>3. yaml.open # <<>> /\ e.text \in Tokens
      BY <1>1, <2>0, <2>1 DEF EventFits, PhasesIn, StreamOK
    <3>4. ASSUME clear' PROVE Follows'
      BY <1>0, <1>1, <1>2, <1>3, <2>0, <2>1, <3>1, <3>2, <3>3, <3>4, KeyReads
    <3> QED BY <1>6, <3>1, <3>4
  <2>2. CASE e.type = "sequence_end"
    <3>1. ParentRemove("block")
      BY <1>14, <2>2 DEF InBlock
    <3>2. yaml.open[n].kind = "sequence"
      BY <1>1, <2>2 DEF EventTells, Inner, n
    <3> QED BY <1>10, <2>0, <2>2, <3>1, <3>2
  <2>3. CASE e.type = "mapping_end"
    <3> DEFINE next == IF Len(stack) > 1 /\
                          heap[stack[Len(stack) - 1].parent].type = "array"
                       THEN "sequence" ELSE "block"
    <3>1. ParentRemove(next)
      BY <1>14, <2>3 DEF InBlock
    <3>2. ASSUME clear
          PROVE  \/ next = "sequence" /\ n > 1 /\ yaml.open[n - 1].kind = "sequence"
                 \/ next = "block" /\ (n > 1 => yaml.open[n - 1].kind = "mapping")
      <4>1. Opened(heap, yaml.open, stack) /\ Len(stack) = n /\ n \in Nat
        BY <1>1, <1>2, <3>2 DEF Follows, Opened, StreamOK, n
      <4>2. ASSUME n > 1
            PROVE  /\ heap[stack[n - 1].parent].type = TypeFor(yaml.open[n - 1].kind)
                   /\ yaml.open[n - 1].kind \in {"mapping", "sequence"}
        <5>1. n - 1 \in 1 .. Len(yaml.open)
          BY <4>1, <4>2 DEF n
        <5>2. Placed(heap, yaml.open[n - 1], stack[n - 1])
          BY <4>1, <5>1 DEF Opened
        <5>3. yaml.open[n - 1] \in Frames
          BY <1>1, <5>1 DEF StreamOK
        <5> QED BY <5>2, <5>3 DEF Placed, Frames
      <4> QED BY <4>1, <4>2 DEF TypeFor
    <3> HIDE DEF next
    <3> QED BY <1>10, <2>0, <2>3, <3>1, <3>2
  <2>4. CASE e.type = "mapping_start"
    <3>1. ParentAdd("dict", "block", fault) /\ "dict" \in Containers
      BY <1>14, <2>4 DEF InBlock, Containers
    <3> QED BY <1>8, <2>0, <2>4, <3>1
  <2>5. CASE e.type = "document_end"
    <3>1. Move("stream")
      BY <1>14, <2>5 DEF InBlock
    <3> QED BY <1>7, <2>0, <2>5, <3>1
  <2>6. CASE e.type \notin {"scalar", "sequence_end", "mapping_end",
                            "mapping_start", "document_end"} \/ Fail
    BY <1>4, <1>14, <2>6 DEF InBlock, Fail
  <2> QED BY <2>1, <2>2, <2>3, <2>4, <2>5, <2>6
<1>15. CASE InBlockContent(e, fault)
  <2>0. state = "block_content"
    BY <1>15 DEF InBlockContent, Reading
  <2>1. CASE e.type = "scalar"
    <3>1. NodeAdd(e, "dict", "block", fault)
      BY <1>15, <2>1 DEF InBlockContent
    <3> QED BY <1>9, <2>0, <2>1, <3>1
  <2>2. CASE e.type = "mapping_start"
    <3>1. ParentAdd("dict", "block", fault) /\ "dict" \in Containers
      BY <1>15, <2>2 DEF InBlockContent, Containers
    <3> QED BY <1>8, <2>0, <2>2, <3>1
  <2>3. CASE e.type = "sequence_start"
    <3>1. ParentAdd("array", "sequence", fault) /\ "array" \in Containers
      BY <1>15, <2>3 DEF InBlockContent, Containers
    <3> QED BY <1>8, <2>0, <2>3, <3>1
  <2>4. CASE e.type \notin {"scalar", "mapping_start", "sequence_start"}
    BY <1>4, <1>15, <2>4 DEF InBlockContent, Fail
  <2> QED BY <2>1, <2>2, <2>3, <2>4
<1>16. CASE InSequence(e, fault)
  <2>0. state = "sequence"
    BY <1>16 DEF InSequence, Reading
  <2>1. CASE e.type = "scalar"
    <3>1. NodeAdd(e, "array", "sequence", fault)
      BY <1>16, <2>1 DEF InSequence
    <3> QED BY <1>9, <2>0, <2>1, <3>1
  <2>2. CASE e.type = "mapping_start"
    <3>1. ParentAdd("dict", "block", fault) /\ "dict" \in Containers
      BY <1>16, <2>2 DEF InSequence, Containers
    <3> QED BY <1>8, <2>0, <2>2, <3>1
  <2>3. CASE e.type = "sequence_start"
    <3>1. ParentAdd("array", "sequence", fault) /\ "array" \in Containers
      BY <1>16, <2>3 DEF InSequence, Containers
    <3> QED BY <1>8, <2>0, <2>3, <3>1
  <2>4. CASE e.type = "sequence_end"
    <3>1. ParentRemove("block")
      BY <1>16, <2>4 DEF InSequence
    <3>2. yaml.open[n].kind = "sequence"
      BY <1>1, <2>4 DEF EventTells, Inner, n
    <3> QED BY <1>10, <2>0, <2>4, <3>1, <3>2
  <2>5. CASE e.type \notin {"scalar", "mapping_start", "sequence_start",
                            "sequence_end"}
    BY <1>4, <1>16, <2>5 DEF InSequence, Fail
  <2> QED BY <2>1, <2>2, <2>3, <2>4, <2>5
<1> QED BY <1>11, <1>12, <1>13, <1>14, <1>15, <1>16 DEF Consume

(* Every step of the system keeps what is read so far.                     *)
LEMMA NextReads == IInv /\ ReadInv /\ [Next]_vars => ReadInv'
<1> SUFFICES ASSUME IInv, ReadInv, [Next]_vars PROVE ReadInv'
  OBVIOUS
<1>1. CASE Open
  <2>1. /\ heap' = heap /\ want' = want /\ clear' = clear /\ stack' = stack
        /\ key' = key /\ state' = state /\ yaml'.open = <<>>
    BY <1>1 DEF Open, readVars
  <2>2. stack = <<>> /\ key = NULL /\ state = "start" /\ pc = "idle" /\ ret = 0
    BY <1>1 DEF Open, IInv, Control, ReadInv
  <2>3. clear => Told(heap, want)
    BY <2>2 DEF ReadInv
  <2>4. Opened(heap, <<>>, <<>>) /\ Awaits("start", NULL, <<>>)
    BY DEF Opened, Awaits
  <2>5. clear' => Follows'
    BY <2>1, <2>2, <2>3, <2>4 DEF Follows
  <2>6. pc' = "read" \/ (pc' = "done" /\ ret' = -1)
    BY <1>1 DEF Open
  <2> QED BY <2>5, <2>6 DEF ReadInv
<1>2. CASE Parse
  BY <1>2, ConsumeReads DEF Parse
<1>3. CASE ParseError
  BY <1>3 DEF ParseError, Fail, Return, ReadInv
<1>4. CASE Stop
  <2>1. heap' = heap /\ want' = want /\ clear' = clear /\ pc = "read" /\ pc' = "done"
    BY <1>4 DEF Stop, docVars, Return
  <2> QED BY <2>1 DEF ReadInv, Follows
<1>5. CASE Returned
  <2>1. /\ heap' = heap /\ want' = want /\ clear' = clear /\ ret' = ret
        /\ pc = "done" /\ ret = 0 /\ pc' = "idle"
    BY <1>5 DEF Returned, docVars
  <2> QED BY <2>1 DEF ReadInv
<1>6. CASE UNCHANGED vars
  BY <1>6 DEF vars, readVars, docVars, ReadInv, Follows
<1> QED BY <1>1, <1>2, <1>3, <1>4, <1>5, <1>6 DEF Next, Ended

(* What is read without an error is what the files say, node for node and  *)
(* place for place, except after a sequence in a sequence that is followed *)
(* by a scalar or a sequence.                                              *)
THEOREM AlwaysReadFaithful == Spec => []ReadFaithful
<1>1. Init => ReadInv
  BY ToldInit DEF Init, ReadInv
<1>2. IInv /\ ReadInv => ReadFaithful
  BY ToldFaithful DEF ReadInv, ReadFaithful
<1> QED BY <1>1, <1>2, InitInv, NextInv, NextReads, PTL DEF Spec
=============================================================================
