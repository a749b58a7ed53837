------------------------------ MODULE SconfYaml ------------------------------
(***************************************************************************)
(* sconf_yaml_read: the loop that takes the events of libyaml one by one   *)
(* and builds nodes from them, with a stack of the containers that are     *)
(* open and the last key read.                                             *)
(*                                                                         *)
(* libyaml is not part of the repository.  It is modelled by what the      *)
(* code relies on: a stream of well-nested events, of which only the       *)
(* nesting and the texts of scalars matter, and which may end in an error  *)
(* anywhere.  Beside the nesting the model keeps what the document says,   *)
(* to be compared with the tree that was built.                            *)
(***************************************************************************)
EXTENDS SconfNodes, Sequences, FiniteSets

CONSTANTS
    Root,        \* the node the caller passes as root, a dictionary
    MaxDepth,    \* SCONF_MAX_DEPTH (scaled down)
    TextType,    \* the type sconf_yaml_node_add gives to a plain scalar
    MaxContent,  \* bound on scalars and containers in all documents
    MaxReads,    \* bound on files read into the same root
    YamlFaults   \* the allocation failures that happen

ASSUME YamlAssumption ==
    /\ Root \in Ids
    /\ MaxDepth \in Nat
    /\ MaxDepth >= 2
    /\ Tokens \subseteq Values
    /\ TextType \in [Tokens -> Scalars \cup {"refused"}]
    /\ MaxContent \in Nat
    /\ MaxReads \in Nat
    /\ YamlFaults \subseteq Faults \cup {"push", "key"}

VARIABLES
    heap,      \* the nodes
    level,     \* how far below the root each node was attached (not in C)
    pc,        \* "idle", "read", "done", "fault"
    ret,       \* the return value, while pc = "done"
    state,     \* state->state
    key,       \* state->curr_key
    stack,     \* state->curr_parent, the top last, with curr_index
    yaml,      \* where libyaml is in the stream
    content,   \* how many scalars and containers libyaml has found
    reads,     \* how many files have been read
    want,      \* what the documents say: a value for every place in the tree
    clear      \* no document had the sequence form that is read wrongly

readVars == <<state, key, stack>>
docVars  == <<yaml, content, want, clear>>
vars     == <<heap, level, pc, ret, reads, readVars, docVars>>

States == {"start", "stop", "stream", "document",
           "block", "block_content", "sequence"}

Top == stack[Len(stack)]

-----------------------------------------------------------------------------
(* libyaml.  A frame is a container that is open: where it is in the tree, *)
(* the key that awaits its value in a mapping, the number of children in a *)
(* sequence, and whether the last child was a sequence.                    *)

Frame(kind, loc) ==
    [kind |-> kind, loc |-> loc, key |-> NULL, count |-> 0, nested |-> FALSE]

Inner == yaml.open[Len(yaml.open)]

Event(type, text, quoted) == [type |-> type, text |-> text, quoted |-> quoted]

Plain(type) == Event(type, NULL, FALSE)

NodeEvents ==
    {Event("scalar", t, q) : t \in Tokens, q \in BOOLEAN}
        \cup {Plain("mapping_start"), Plain("sequence_start"), Plain("alias")}

More == IF content < MaxContent THEN NodeEvents ELSE {}

NextEvents ==
    CASE yaml.phase = "begin"  -> {Plain("stream_start")}
      [] yaml.phase = "stream" -> {Plain("stream_end")} \cup
                                  (IF content < MaxContent
                                   THEN {Plain("document_start")} ELSE {})
      [] yaml.phase = "node"   -> NodeEvents
      [] yaml.phase = "close"  -> {Plain("document_end")}
      [] yaml.phase = "over"   -> {}
      [] yaml.phase = "open" /\ Inner.kind = "sequence" ->
             More \cup {Plain("sequence_end")}
      [] yaml.phase = "open" /\ Inner.kind = "mapping" /\ Inner.key = NULL ->
             More \cup {Plain("mapping_end")}
      [] OTHER -> NodeEvents

(* The place a child of the innermost container has in the tree.           *)
Place(e) ==
    IF yaml.open = <<>> THEN <<>>
    ELSE Append(Inner.loc, IF Inner.kind = "sequence" THEN Inner.count
                                                      ELSE Inner.key)

IsKey(e) == yaml.open # <<>> /\ Inner.kind = "mapping" /\ Inner.key = NULL

(* The innermost container after the node e.                               *)
Advanced(e) ==
    IF yaml.open = <<>> THEN <<>>
    ELSE [yaml.open EXCEPT ![Len(yaml.open)] =
             [Inner EXCEPT !.key    = IF IsKey(e) THEN e.text ELSE NULL,
                           !.count  = IF IsKey(e) THEN @ ELSE @ + 1,
                           !.nested = e.type = "sequence_start"]]

ScalarType(e) == IF e.quoted THEN "str" ELSE TextType[e.text]

(* A sequence in a sequence, followed by a scalar or a sequence.           *)
Misread(e) ==
    /\ yaml.open # <<>> /\ Inner.kind = "sequence" /\ Inner.nested
    /\ e.type \in {"scalar", "sequence_start"}

Says(loc, type, val) ==
    want' = [l \in DOMAIN want \cup {loc} |->
                IF l = loc THEN [type |-> type, val |-> val] ELSE want[l]]

Emit(e) ==
    LET phase(p, open) == yaml' = [phase |-> p, open |-> open]
        opens(kind)    == phase("open", Append(Advanced(e), Frame(kind, Place(e))))
        closes         == phase(IF Len(yaml.open) = 1 THEN "close" ELSE "open",
                                SubSeq(yaml.open, 1, Len(yaml.open) - 1))
        node           == e \in NodeEvents
    IN  /\ content' = IF node THEN content + 1 ELSE content
        /\ clear' = (clear /\ ~Misread(e))
        /\ CASE e.type = "stream_start"   -> phase("stream", <<>>)
             [] e.type = "stream_end"     -> phase("over", <<>>)
             [] e.type = "document_start" -> phase("node", <<>>)
             [] e.type = "document_end"   -> phase("stream", <<>>)
             [] e.type = "mapping_start"  -> opens("mapping")
             [] e.type = "sequence_start" -> opens("sequence")
             [] e.type \in {"mapping_end", "sequence_end"} -> closes
             [] OTHER -> phase(IF yaml.open = <<>> THEN "close" ELSE "open",
                               Advanced(e))
        /\ IF ~node \/ IsKey(e) \/ yaml.open = <<>> \/ e.type = "alias"
           THEN want' = want
           ELSE CASE e.type = "scalar"        -> Says(Place(e), ScalarType(e), e.text)
                  [] e.type = "mapping_start" -> Says(Place(e), "dict", NULL)
                  [] OTHER                    -> Says(Place(e), "array", NULL)

-----------------------------------------------------------------------------
(* The steps of the reader.  Each consumes one event, and either goes on   *)
(* or frees its state and returns.                                         *)

Init ==
    /\ heap = [n \in Ids |-> IF n = Root THEN NewCell("dict", NULL) ELSE FreeCell]
    /\ level = [n \in Ids |-> 0]
    /\ pc = "idle"
    /\ ret = 0
    /\ state = "start"
    /\ key = NULL
    /\ stack = <<>>
    /\ yaml = [phase |-> "begin", open |-> <<>>]
    /\ content = 0
    /\ reads = 0
    /\ want = <<>>
    /\ clear = TRUE

(* sconf_yaml_state_destroy, and the return.                               *)
Return(r) ==
    /\ pc' = "done"
    /\ ret' = r
    /\ stack' = <<>>
    /\ key' = NULL
    /\ state' = "start"

Fail == Return(-1) /\ UNCHANGED <<heap, level>>

FailLeaving(h) == Return(-1) /\ heap' = h /\ UNCHANGED level

Crash == pc' = "fault" /\ UNCHANGED <<heap, level, ret, readVars>>

Continue(next) == state' = next /\ UNCHANGED <<pc, ret>>

Move(next) == Continue(next) /\ UNCHANGED <<heap, level, key, stack>>

Push(s, p) == Append(s, [parent |-> p, index |-> 0])

(* Slip: every element goes to the same index.                             *)
CountedNever == stack

(* curr_index, an uint32_t, moves on under an array, also when a bracketed *)
(* key that was left over names the element; the key is used up under a    *)
(* dictionary.                                                             *)
Counted == IF heap[Top.parent].type = "array"
           THEN [stack EXCEPT ![Len(stack)].index = (@ + 1) % UIntMod]
           ELSE stack

KeyLeft == IF heap[Top.parent].type = "dict" THEN NULL ELSE key

Attached(made) ==
    /\ heap' = made.heap
    /\ level' = IF heap[made.node].type = "free"
                THEN [level EXCEPT ![made.node] = level[Top.parent] + 1]
                ELSE level

(* Slip: the stack may hold one container more.                            *)
ParentAddDeeper(type, next, fault) ==
    IF stack = <<>> \/ (heap[Top.parent].type = "dict" /\ key = NULL) THEN Fail
    ELSE LET made == CreateAndInsert(heap, key, type, Top.parent, Top.index,
                                     NULL, fault)
             full == Len(stack) > MaxDepth - 1 \/ fault = "push"
         IN  \/ made.status = "fault" /\ Crash
             \/ made.status = "error" /\ FailLeaving(made.heap)
             \/ made.status = "ok" /\ full /\ Attached(made) /\ Return(-1)
             \/ /\ made.status = "ok" /\ ~full /\ Attached(made)
                /\ stack' = Push(Counted, made.node)
                /\ key' = KeyLeft
                /\ Continue(next)

(* sconf_yaml_parent_add: the depth of the stack is checked after the node *)
(* was created.                                                            *)
ParentAdd(type, next, fault) ==
    IF stack = <<>> \/ (heap[Top.parent].type = "dict" /\ key = NULL) THEN Fail
    ELSE LET made == CreateAndInsert(heap, key, type, Top.parent, Top.index,
                                     NULL, fault)
             full == Len(stack) >= MaxDepth - 1 \/ fault = "push"
         IN  \/ made.status = "fault" /\ Crash
             \/ made.status = "error" /\ FailLeaving(made.heap)
             \/ made.status = "ok" /\ full /\ Attached(made) /\ Return(-1)
             \/ /\ made.status = "ok" /\ ~full /\ Attached(made)
                /\ stack' = Push(Counted, made.node)
                /\ key' = KeyLeft
                /\ Continue(next)

(* sconf_yaml_node_add.                                                    *)
NodeAdd(e, parentType, next, fault) ==
    IF stack = <<>> THEN Fail
    ELSE IF heap[Top.parent].type # parentType THEN Fail
    ELSE IF ScalarType(e) = "refused" THEN Fail
    ELSE LET made == CreateAndInsert(heap, key, ScalarType(e), Top.parent,
                                     Top.index, e.text, fault)
         IN  \/ made.status = "fault" /\ Crash
             \/ made.status = "error" /\ FailLeaving(made.heap)
             \/ /\ made.status = "ok" /\ Attached(made)
                /\ stack' = Counted
                /\ key' = KeyLeft
                /\ Continue(next)

(* Slip: the container that ends is not popped.                            *)
ParentRemoveNone(next) ==
    Continue(next) /\ UNCHANGED <<heap, level, key, stack>>

(* sconf_yaml_parent_remove.                                               *)
ParentRemove(next) ==
    IF stack = <<>> THEN Fail
    ELSE /\ stack' = SubSeq(stack, 1, Len(stack) - 1)
         /\ Continue(next)
         /\ UNCHANGED <<heap, level, key>>

Reading(s) == pc = "read" /\ state = s /\ UNCHANGED reads

InStart(e) ==
    /\ Reading("start")
    /\ IF e.type = "stream_start" THEN Move("stream") ELSE Fail

(* Slip: the end of the stream is not noticed.                             *)
InStreamEndless(e) ==
    /\ Reading("stream")
    /\ CASE e.type = "document_start" -> Move("document")
         [] e.type = "stream_end"     -> Move("stream")
         [] OTHER                     -> Fail

InStream(e) ==
    /\ Reading("stream")
    /\ CASE e.type = "document_start" -> Move("document")
         [] e.type = "stream_end"     -> Move("stop")
         [] OTHER                     -> Fail

InDocument(e, fault) ==
    /\ Reading("document")
    /\ CASE e.type = "mapping_start" ->
              IF Len(stack) >= MaxDepth - 1 \/ fault = "push" THEN Fail
              ELSE /\ stack' = Push(stack, Root)
                   /\ Continue("block")
                   /\ UNCHANGED <<heap, level, key>>
         [] e.type = "document_end"  -> Move("stream")
         [] OTHER                    -> Fail

InBlock(e, fault) ==
    /\ Reading("block")
    /\ CASE e.type = "scalar" ->
              IF key # NULL \/ fault = "key" THEN Fail
              ELSE /\ key' = e.text
                   /\ Continue("block_content")
                   /\ UNCHANGED <<heap, level, stack>>
         [] e.type = "sequence_end"  -> ParentRemove("block")
         [] e.type = "mapping_end"   ->
              ParentRemove(IF Len(stack) > 1 /\
                              heap[stack[Len(stack) - 1].parent].type = "array"
                           THEN "sequence" ELSE "block")
         [] e.type = "mapping_start" -> ParentAdd("dict", "block", fault)
         [] e.type = "document_end"  -> Move("stream")
         [] OTHER                    -> Fail

InBlockContent(e, fault) ==
    /\ Reading("block_content")
    /\ CASE e.type = "scalar"         -> NodeAdd(e, "dict", "block", fault)
         [] e.type = "mapping_start"  -> ParentAdd("dict", "block", fault)
         [] e.type = "sequence_start" -> ParentAdd("array", "sequence", fault)
         [] OTHER                     -> Fail

InSequence(e, fault) ==
    /\ Reading("sequence")
    /\ CASE e.type = "scalar"         -> NodeAdd(e, "array", "sequence", fault)
         [] e.type = "mapping_start"  -> ParentAdd("dict", "block", fault)
         [] e.type = "sequence_start" -> ParentAdd("array", "sequence", fault)
         [] e.type = "sequence_end"   -> ParentRemove("block")
         [] OTHER                     -> Fail

Consume(e, fault) ==
    \/ InStart(e) \/ InStream(e) \/ InDocument(e, fault)
    \/ InBlock(e, fault) \/ InBlockContent(e, fault) \/ InSequence(e, fault)

(* The file is opened and a parser made for it, or one of the two fails.   *)
Open ==
    /\ pc = "idle"
    /\ reads < MaxReads
    /\ reads' = reads + 1
    /\ yaml' = [phase |-> "begin", open |-> <<>>]
    /\ \/ pc' = "read" /\ UNCHANGED ret
       \/ pc' = "done" /\ ret' = -1
    /\ UNCHANGED <<heap, level, readVars, content, want, clear>>

(* yaml_parser_parse finds an error in the text.                           *)
ParseError ==
    /\ pc = "read"
    /\ state # "stop"
    /\ Fail
    /\ UNCHANGED <<reads, docVars>>

Parse ==
    /\ state # "stop"
    /\ \E e \in NextEvents, fault \in YamlFaults :
         Consume(e, fault) /\ Emit(e)

(* The end of the loop.  fclose may still fail.                            *)
Stop ==
    /\ pc = "read"
    /\ state = "stop"
    /\ \E r \in {-1, 0} : Return(r)
    /\ UNCHANGED <<heap, level, reads, docVars>>

(* A caller that gets an error does not read on.                           *)
Returned ==
    /\ pc = "done"
    /\ ret = 0
    /\ pc' = "idle"
    /\ UNCHANGED <<heap, level, ret, reads, readVars, docVars>>

Ended ==
    /\ \/ pc = "done" /\ ret = -1
       \/ pc = "idle" /\ reads = MaxReads
       \/ pc = "fault"
    /\ UNCHANGED vars

Next == Open \/ Parse \/ ParseError \/ Stop \/ Returned \/ Ended

Spec == Init /\ [][Next]_vars

Fairness == WF_vars(Parse) /\ WF_vars(Stop)

FairSpec == Spec /\ Fairness

-----------------------------------------------------------------------------
(* Type invariant.                                                         *)
TypeOK ==
    /\ heap \in Heaps
    /\ level \in [Ids -> 0 .. MaxDepth]
    /\ pc \in {"idle", "read", "done", "fault"}
    /\ ret \in {-1, 0}
    /\ state \in States
    /\ key \in Tokens \cup {NULL}
    /\ stack \in Seq([parent : Ids, index : 0 .. UIntMod - 1])
    /\ Len(stack) <= MaxDepth - 1
    /\ reads \in 0 .. MaxReads
    /\ clear \in BOOLEAN

(* The nodes are one tree, also between two events and after a file that   *)
(* was refused half way, and no node is deeper than a path of sconf_get    *)
(* could reach.                                                            *)
Forest ==
    /\ Tree(heap, Root, level)
    /\ Slots(heap)
    /\ \A n \in Ids : Live(heap, n) => level[n] <= MaxDepth - 1

KindOf(type) == IF type = "dict" THEN "mapping" ELSE "sequence"

(* The parent stack is a branch of the tree from the root on, and holds    *)
(* one container for each that libyaml has open, of the same kind: no      *)
(* event can make the reader pop another container than the one that       *)
(* ended.                                                                  *)
StackIsBranch ==
    pc = "read" =>
        /\ Len(stack) = Len(yaml.open)
        /\ \A i \in 1 .. Len(stack) :
              /\ Live(heap, stack[i].parent)
              /\ level[stack[i].parent] = i - 1
              /\ KindOf(heap[stack[i].parent].type) = yaml.open[i].kind
        /\ \A i \in 2 .. Len(stack) :
              \E k \in Keys :
                  heap[stack[i - 1].parent].kids[k] = stack[i].parent

(* The node at a place of the tree.                                        *)
At(loc) ==
    LET at[i \in 0 .. Len(loc)] ==
          IF i = 0 THEN Root
          ELSE IF at[i - 1] \in Ids THEN heap[at[i - 1]].kids[loc[i]] ELSE NULL
    IN  at[Len(loc)]

(* The tree holds what the documents say, nothing else and nothing less.   *)
Faithful ==
    /\ \A loc \in DOMAIN want :
          /\ At(loc) \in Ids
          /\ heap[At(loc)].type = want[loc].type
          /\ heap[At(loc)].val = want[loc].val
    /\ Cardinality({n \in Ids : Live(heap, n)}) = Cardinality(DOMAIN want) + 1

(* A file that is read without an error is in the tree, later documents    *)
(* and files laid over earlier ones, as long as no sequence in a sequence  *)
(* is followed by a scalar or a sequence.                                  *)
ReadFaithful == pc \in {"done", "idle"} /\ ret = 0 /\ clear => Faithful

(* sconf.h:502 "Read YAML file": what is read without an error is what the *)
(* file says.  The code drops a scalar that follows a sequence in a        *)
(* sequence, takes it for a key and hangs the next mapping in its place.   *)
AllReadFaithful == pc \in {"done", "idle"} /\ ret = 0 => Faithful

(* The loop ends: the events of a finite file bring it to a return, with   *)
(* an error or at the end of the stream.                                   *)
ReadReturns == pc = "read" ~> pc \in {"done", "fault"}
=============================================================================
