----------------------------- MODULE SconfConfig -----------------------------
(***************************************************************************)
(* A configuration as a caller sees it: the places that hold something,    *)
(* and what they hold.  A place is the sequence of names and indexes that  *)
(* leads to it from the root.  There are no nodes here, no slots and no    *)
(* sizes: it is what sconf_set and sconf_get promise, not how they do it.  *)
(***************************************************************************)
EXTENDS SconfTypes, Sequences

CONSTANT MaxDepth    \* SCONF_MAX_DEPTH (scaled down)

ASSUME DepthAssumption == MaxDepth \in Nat

Item(type, val) == [type |-> type, val |-> val]

Empty(type) == [place \in {<<>>} |-> Item(type, NULL)]

(* A path that is an empty string is one step without a name.              *)
Steps(path) == IF path = <<>> THEN <<NULL>> ELSE path

-----------------------------------------------------------------------------
(* sconf_get.  The walk holds the place reached and the last index read.   *)

At(status, place, index) == [status |-> status, place |-> place, index |-> index]

Descend(c, at, token, last) ==
    LET type  == c[at.place].type
        index == IF type = "array" /\ token \in Brackets
                 THEN Element(token, 0) ELSE at.index
        place == Append(at.place, IF type = "dict" THEN token ELSE index)
    IN  IF type = "array" /\ token \in Brackets /\ IndexOf[token] < 0
        THEN At("error", <<>>, 0)
        ELSE IF type # "array" /\ token \in Brackets /\ ~last
        THEN At("missing", <<>>, 0)
        ELSE IF type \notin Containers \/ (type = "dict" /\ token = NULL)
        THEN At("error", <<>>, 0)
        ELSE IF place \notin DOMAIN c THEN At("missing", <<>>, 0)
        ELSE At("found", place, index)

Find(c, path) ==
    LET n == Len(Steps(path))
        walk[i \in 0 .. n] ==
            IF i = 0 THEN At("found", <<>>, 0)
            ELSE LET at == walk[i - 1]
                 IN  IF at.status # "found" THEN at
                     ELSE Descend(c, at, Steps(path)[i], i = n)
    IN  walk[n]

(* sconf_get_str, sconf_get_int, sconf_get_bool, sconf_get_float.          *)
FindTyped(c, path, type) ==
    LET found == Find(c, path)
    IN  IF found.status = "found" /\ c[found.place].type # type
        THEN At("error", <<>>, 0) ELSE found

-----------------------------------------------------------------------------
(* sconf_set.                                                              *)

Outcome(ret, c) == [ret |-> ret, config |-> c]

(* The place the i-th step leads to.  Only at a dictionary that is the     *)
(* root is a token in brackets a name, and only at an array that is the    *)
(* root does a name stand for the first element.                           *)
KeyOf(c, path, i) ==
    LET token == Steps(path)[i]
    IN  IF i = 1 /\ c[<<>>].type = "dict" THEN token
        ELSE IF i = 1 \/ token \in Brackets THEN Element(token, 0)
        ELSE token

PlaceOf(c, path, i) == [j \in 1 .. i |-> KeyOf(c, path, j)]

(* The type of what the i-th step leads to.                                *)
TypeAt(path, type, i) ==
    IF i >= Len(path) THEN type
    ELSE IF path[i + 1] \in Brackets THEN "array" ELSE "dict"

(* Slip: what is there already cannot be set again.                        *)
StepLegalVacant(c, path, type, i) ==
    /\ KeyOf(c, path, i) \in Keys
    /\ TypeAt(path, type, i) \in NodeTypes
    /\ i = Len(path) => PlaceOf(c, path, i) \notin DOMAIN c

(* The step has a key, an index that is not refused, and leads to nothing  *)
(* yet or to something of the type required.                               *)
StepLegal(c, path, type, i) ==
    /\ KeyOf(c, path, i) \in Keys
    /\ KeyOf(c, path, i) # Steps(path)[i] /\ Steps(path)[i] \in Brackets =>
           IndexOf[Steps(path)[i]] >= 0
    /\ TypeAt(path, type, i) \in NodeTypes
    /\ PlaceOf(c, path, i) \in DOMAIN c =>
           c[PlaceOf(c, path, i)].type = TypeAt(path, type, i)

(* How many steps can be taken.                                            *)
Reach(c, path, type) ==
    LET n == Len(Steps(path))
    IN  CHOOSE k \in 0 .. n :
            /\ \A i \in 1 .. k : StepLegal(c, path, type, i)
            /\ k < n => ~StepLegal(c, path, type, k + 1)

Settable(c, path, type) ==
    /\ Len(path) < MaxDepth
    /\ Reach(c, path, type) = Len(Steps(path))

(* Slip: only the last of the k steps leads to something.                  *)
BuiltLast(c, path, type, k) ==
    LET new == {PlaceOf(c, path, i) : i \in {k} \ {0}} \ DOMAIN c
    IN  [place \in DOMAIN c \cup new |->
            IF place \in new THEN Item(TypeAt(path, type, Len(place)), NULL)
                             ELSE c[place]]

(* The first k steps of the path lead to something.                        *)
Built(c, path, type, k) ==
    LET new == {PlaceOf(c, path, i) : i \in 1 .. k} \ DOMAIN c
    IN  [place \in DOMAIN c \cup new |->
            IF place \in new THEN Item(TypeAt(path, type, Len(place)), NULL)
                             ELSE c[place]]

Written(c, path, type, val) ==
    LET target == PlaceOf(c, path, Len(Steps(path)))
        built  == Built(c, path, type, Len(Steps(path)))
    IN  IF type \in Scalars
        THEN [built EXCEPT ![target] = Item(type, val)] ELSE built

(* A set that is refused leaves the containers up to the step that cannot  *)
(* be taken.                                                               *)
Refused(c, path, type) ==
    LET reach == Reach(c, path, type)
    IN  Built(c, path, type, IF reach < MaxDepth THEN reach ELSE MaxDepth - 1)

Set(c, path, type, val) ==
    IF Settable(c, path, type) THEN Outcome(0, Written(c, path, type, val))
                               ELSE Outcome(-1, Refused(c, path, type))

(* When memory runs out the containers end at any step, or a string that   *)
(* was to be replaced is lost.                                             *)
OutOfMemory(c, path, type) ==
    LET n      == Len(Steps(path))
        reach  == Reach(c, path, type)
        target == PlaceOf(c, path, n)
        limit  == IF reach < n THEN reach ELSE n - 1
        lost   == Settable(c, path, type) /\ type = "str" /\ target \in DOMAIN c
    IN  {Outcome(-1, Built(c, path, type, k)) :
            k \in {i \in 0 .. limit : i < MaxDepth}}
        \cup IF lost THEN {Outcome(-1, [c EXCEPT ![target] = Item("str", NULL)])}
                     ELSE {}
=============================================================================
