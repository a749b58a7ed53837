-------------------------- MODULE SconfInit_proofs --------------------------
(***************************************************************************)
(* Proofs about sconf_initialize, for every config map, command line,      *)
(* environment and file: what it returns has been validated as it is; its  *)
(* configuration is a tree whatever is written; a default adds to it; the  *)
(* same call changes nothing; and what a place holds is what the last      *)
(* write to it gave, or else the first default that counts.                *)
(***************************************************************************)
EXTENDS SconfInit, SconfInduction, TLAPS

Phases == {"idle", "opts", "getopt", "env", "defaults", "validate", "exit", "done"}

(* The first n entries are valid in the configuration as it is.            *)
Checked(n) == \A i \in 1 .. n : RequiredMet(map[i]) /\ CallbackAccepts(map[i])

(* Validated speaks of the end; on the way there the entries before pos    *)
(* have been looked at.                                                    *)
IInv ==
    /\ map \in Maps
    /\ phase \in Phases
    /\ pos \in Nat \ {0}
    /\ phase = "validate" => Checked(pos - 1)
    /\ phase = "done" /\ ret = 0 => Checked(Len(map))

(* Before the first call nothing is claimed to be valid.                   *)
LEMMA InitInv == Init => IInv
BY DEF Init, IInv, Phases

(* A step outside validation: it does not go there, and when it ends the   *)
(* call it is with an error.                                               *)
LEMMA OutsideInv ==
    ASSUME IInv, map' = map, pos' \in Nat \ {0},
           phase' \in Phases \ {"validate"},
           phase' = "done" => ret' = -1
    PROVE  IInv'
BY DEF IInv

(* What a step does with the value of one option or entry.                 *)
LEMMA AppliedInv ==
    ASSUME IInv, NEW o, NEW i, Applied(o, i), phase \in {"getopt", "env", "defaults"}
    PROVE  IInv'
<1>1. map' = map
  BY DEF Applied, inputs
<1>2. CASE Continue
  BY <1>1, <1>2, OutsideInv DEF Continue, IInv, Phases
<1>3. CASE Return(-1)
  BY <1>1, <1>3, OutsideInv DEF Return, Phases
<1> QED BY <1>2, <1>3 DEF Applied

(* A step that only moves on, between entries, phases or calls.            *)
LEMMA QuietInv ==
    ASSUME IInv, Quiet, phase # "validate",
           \/ Continue /\ phase # "done"
           \/ Return(-1)
           \/ \E next \in {"env", "getopt", "defaults", "exit"} : GoTo(next)
    PROVE  IInv'
<1>1. map' = map
  BY DEF Quiet, inputs
<1>2. CASE Continue /\ phase # "done"
  BY <1>1, <1>2, OutsideInv DEF Continue, IInv
<1>3. CASE Return(-1)
  BY <1>1, <1>3, OutsideInv DEF Return, Phases
<1>4. CASE \E next \in {"env", "getopt", "defaults", "exit"} : GoTo(next)
  BY <1>1, <1>4, OutsideInv DEF GoTo, Phases
<1> QED BY <1>2, <1>3, <1>4

(* The options.                                                            *)
LEMMA OptionsInv ==
    IInv /\ (OptsPrepare \/ OptBad \/ OptUsage \/ OptSet \/ OptsEnd) => IInv'
<1> SUFFICES ASSUME IInv, OptsPrepare \/ OptBad \/ OptUsage \/ OptSet \/ OptsEnd
             PROVE  IInv'
  OBVIOUS
<1>1. CASE OptsPrepare
  BY <1>1, QuietInv DEF OptsPrepare
<1>2. CASE OptBad
  BY <1>2, QuietInv DEF OptBad
<1>3. CASE OptUsage
  BY <1>3, QuietInv DEF OptUsage
<1>4. CASE OptSet
  BY <1>4, AppliedInv DEF OptSet
<1>5. CASE OptsEnd
  BY <1>5, QuietInv DEF OptsEnd
<1> QED BY <1>1, <1>2, <1>3, <1>4, <1>5

(* The environment and the defaults.                                       *)
LEMMA EntriesInv == IInv /\ (EnvEntry \/ DefaultEntry) => IInv'
<1> SUFFICES ASSUME IInv, EnvEntry \/ DefaultEntry PROVE IInv'
  OBVIOUS
<1>1. phase \in {"env", "defaults"}
  BY DEF EnvEntry, DefaultEntry, EntryIn
<1>2. CASE Skip \/ Fail
  BY <1>1, <1>2, QuietInv DEF Skip, Fail
<1>3. CASE \E o, i : Applied(o, i)
  BY <1>1, <1>3, AppliedInv
<1> QED BY <1>2, <1>3 DEF EnvEntry, DefaultEntry, SetFromEnv, HandleDefault

(* The last loop.  An entry that is looked at is valid or ends the call.   *)
LEMMA ValidateInv == IInv /\ ValidateEntry => IInv'
<1> SUFFICES ASSUME IInv, ValidateEntry PROVE IInv'
  OBVIOUS
<1>1. /\ phase = "validate" /\ pos \in Nat \ {0} /\ Checked(pos - 1)
      /\ map' = map /\ config' = config
  BY DEF IInv, ValidateEntry, EntryIn, Skip, Fail, Quiet, inputs
<1>2. CASE Fail
  BY <1>1, <1>2, OutsideInv DEF Fail, Return, Phases
<1>3. CASE Skip /\ RequiredMet(map[pos]) /\ CallbackAccepts(map[pos])
  <2>1. phase' = phase /\ pos' = pos + 1
    BY <1>3 DEF Skip, Continue
  <2>2. Checked(pos)
    BY <1>1, <1>3 DEF Checked
  <2>3. ASSUME NEW i \in 1 .. pos
        PROVE  (RequiredMet(map[i]) /\ CallbackAccepts(map[i]))'
    <3>1. RequiredMet(map[i]) /\ CallbackAccepts(map[i])
      BY <2>2 DEF Checked
    <3> QED BY <1>1, <3>1 DEF RequiredMet, CallbackAccepts
  <2>4. 1 .. pos' - 1 = 1 .. pos
    BY <1>1, <2>1
  <2>5. Checked(pos - 1)'
    BY <2>3, <2>4 DEF Checked
  <2> QED BY <1>1, <2>1, <2>5 DEF IInv
<1> QED BY <1>2, <1>3 DEF ValidateEntry

(* When the loop ends every entry has been looked at.                      *)
LEMMA EndsInv ==
    IInv /\ (EnvEnd \/ DefaultsEnd \/ ValidateEnd) => IInv'
<1> SUFFICES ASSUME IInv, EnvEnd \/ DefaultsEnd \/ ValidateEnd PROVE IInv'
  OBVIOUS
<1>1. CASE EnvEnd
  BY <1>1, QuietInv DEF EnvEnd, EndOf
<1>2. CASE DefaultsEnd
  <2>1. map' = map /\ phase' = "validate" /\ pos' = 1
    BY <1>2 DEF DefaultsEnd, GoTo, Quiet, inputs
  <2>2. 1 .. pos' - 1 = {}
    BY <2>1
  <2>3. Checked(pos - 1)'
    BY <2>2 DEF Checked
  <2> QED BY <2>1, <2>3 DEF IInv, Phases
<1>3. CASE ValidateEnd
  <2>1. /\ map' = map /\ config' = config /\ phase' = "done" /\ pos' = 1
        /\ phase = "validate" /\ pos > Len(map)
    BY <1>3 DEF ValidateEnd, EndOf, Return, Quiet, inputs
  <2>2. pos \in Nat /\ Len(map) \in Nat /\ Checked(pos - 1)
    BY <2>1, InitAssumption DEF IInv
  <2>3. ASSUME NEW i \in 1 .. Len(map)
        PROVE  (RequiredMet(map[i]) /\ CallbackAccepts(map[i]))'
    <3>1. i \in 1 .. pos - 1
      BY <2>1, <2>2
    <3>2. RequiredMet(map[i]) /\ CallbackAccepts(map[i])
      BY <2>2, <3>1 DEF Checked
    <3> QED BY <2>1, <3>2 DEF RequiredMet, CallbackAccepts
  <2>4. Checked(Len(map))'
    BY <2>1, <2>3 DEF Checked
  <2> QED BY <2>1, <2>4 DEF IInv, Phases
<1> QED BY <1>1, <1>2, <1>3

(* Each step keeps the invariant, whatever source it reads.                *)
LEMMA StepInv == IInv /\ [Next]_vars => IInv'
<1> SUFFICES ASSUME IInv, [Next]_vars PROVE IInv'
  OBVIOUS
<1>1. CASE Call
  BY <1>1, OutsideInv DEF Call, inputs, IInv, Phases
<1>2. CASE OptsPrepare \/ OptBad \/ OptUsage \/ OptSet \/ OptsEnd
  BY <1>2, OptionsInv
<1>3. CASE EnvEntry \/ DefaultEntry
  BY <1>3, EntriesInv
<1>4. CASE ValidateEntry
  BY <1>4, ValidateInv
<1>5. CASE EnvEnd \/ DefaultsEnd \/ ValidateEnd
  BY <1>5, EndsInv
<1>6. CASE Returned
  BY <1>6, OutsideInv DEF Returned, inputs, IInv, Phases
<1>7. CASE UNCHANGED vars
  BY <1>7
     DEF vars, inputs, IInv, Checked, RequiredMet, CallbackAccepts
<1> QED BY <1>1, <1>2, <1>3, <1>4, <1>5, <1>6, <1>7 DEF Next

(* A configuration that sconf_initialize returns is valid as it is: for    *)
(* every map, command line, environment, file and number of calls.         *)
THEOREM AlwaysValidated == Spec => []Validated
<1>1. IInv => Validated
  <2> SUFFICES ASSUME IInv, Succeeded, NEW i \in DOMAIN map
               PROVE  /\ map[i].required =>
                            LET found == Find(config, map[i].path)
                            IN  /\ found.status = "found"
                                /\ config[found.place].type = map[i].type
                      /\ CallbackAccepts(map[i])
    BY DEF Validated
  <2>1. i \in 1 .. Len(map) /\ Checked(Len(map))
    BY InitAssumption DEF IInv, Succeeded
  <2> QED BY <2>1 DEF Checked, RequiredMet
<1> QED BY <1>1, InitInv, StepInv, PTL DEF Spec
-----------------------------------------------------------------------------
(* What sconf_set makes of a configuration.                                *)

(* The place i tokens down the way to p.                                   *)
Above(p, i) == [j \in 1 .. i |-> p[j]]

Items == [type : NodeTypes, val : Values \cup {NULL}]

(* A configuration is closed under prefixes, its root is a dictionary, and *)
(* only containers contain something.                                      *)
InTree(c, p) ==
    /\ p \in Seq(Keys)
    /\ c[p] \in Items
    /\ \A i \in 0 .. Len(p) - 1 :
          Above(p, i) \in DOMAIN c /\ c[Above(p, i)].type \in Containers

TreeOK(c) ==
    /\ c = [p \in DOMAIN c |-> c[p]]
    /\ <<>> \in DOMAIN c /\ c[<<>>].type = "dict"
    /\ \A p \in DOMAIN c : InTree(c, p)

(* What was there is there as it was.                                      *)
Adds(c, d) == \A p \in DOMAIN c : p \in DOMAIN d /\ d[p] = c[p]

(* A walk takes one step at least.                                         *)
LEMMA StepsType ==
    ASSUME NEW path \in Seq(Tokens)
    PROVE  /\ Len(Steps(path)) \in Nat \ {0} /\ Len(path) \in Nat
           /\ path # <<>> => Len(Steps(path)) = Len(path)
           /\ path = <<>> => Len(Steps(path)) = 1
           /\ \A i \in 1 .. Len(Steps(path)) :
                 /\ Steps(path)[i] \in Tokens \cup {NULL}
                 /\ path # <<>> => Steps(path)[i] = path[i] /\ path[i] \in Tokens
<1>1. CASE path = <<>>
  <2>1. Steps(path) = <<NULL>> /\ Len(Steps(path)) = 1 /\ Steps(path)[1] = NULL
    BY <1>1 DEF Steps
  <2> QED BY <1>1, <2>1
<1>2. CASE path # <<>>
  <2>1. Steps(path) = path /\ Len(path) \in Nat \ {0}
    BY <1>2 DEF Steps
  <2> QED BY <1>2, <2>1
<1> QED BY <1>1, <1>2

(* The places of the steps, as long as each has a key.                     *)
LEMMA PlaceOfFacts ==
    ASSUME NEW c, NEW path, NEW k \in Nat,
           \A i \in 1 .. k : KeyOf(c, path, i) \in Keys
    PROVE  /\ PlaceOf(c, path, 0) = <<>>
           /\ \A i \in 0 .. k :
                 /\ PlaceOf(c, path, i) \in Seq(Keys)
                 /\ Len(PlaceOf(c, path, i)) = i
                 /\ \A j \in 0 .. i :
                       Above(PlaceOf(c, path, i), j) = PlaceOf(c, path, j)
                 /\ i > 0 => PlaceOf(c, path, i)
                             = Append(PlaceOf(c, path, i - 1), KeyOf(c, path, i))
<1>1. PlaceOf(c, path, 0) = <<>>
  BY DEF PlaceOf
<1>2. ASSUME NEW i \in 0 .. k
      PROVE  PlaceOf(c, path, i) \in Seq(Keys) /\ Len(PlaceOf(c, path, i)) = i
  BY DEF PlaceOf
<1>3. ASSUME NEW i \in 0 .. k, NEW j \in 0 .. i
      PROVE  Above(PlaceOf(c, path, i), j) = PlaceOf(c, path, j)
  <2>1. \A x \in 1 .. j : x \in 1 .. i
    OBVIOUS
  <2> QED BY <2>1 DEF Above, PlaceOf
<1>4. ASSUME NEW i \in 1 .. k
      PROVE  PlaceOf(c, path, i) = Append(PlaceOf(c, path, i - 1), KeyOf(c, path, i))
  <2>1. /\ PlaceOf(c, path, i) \in Seq(Keys) /\ Len(PlaceOf(c, path, i)) = i
        /\ PlaceOf(c, path, i - 1) \in Seq(Keys) /\ Len(PlaceOf(c, path, i - 1)) = i - 1
    BY <1>2
  <2>2. \A j \in 1 .. i :
           PlaceOf(c, path, i)[j]
           = Append(PlaceOf(c, path, i - 1), KeyOf(c, path, i))[j]
    BY <2>1 DEF PlaceOf
  <2> QED BY <2>1, <2>2
<1> QED BY <1>1, <1>2, <1>3, <1>4

(* Reach is how many steps can be taken.                                   *)
LEMMA ReachIs ==
    ASSUME NEW c, NEW path \in Seq(Tokens), NEW type
    PROVE  /\ Reach(c, path, type) \in 0 .. Len(Steps(path))
           /\ \A i \in 1 .. Reach(c, path, type) : StepLegal(c, path, type, i)
           /\ Reach(c, path, type) < Len(Steps(path)) =>
                 ~StepLegal(c, path, type, Reach(c, path, type) + 1)
<1> DEFINE n == Len(Steps(path))
           Stop == {k \in 0 .. n : k = n \/ ~StepLegal(c, path, type, k + 1)}
<1>0. n \in Nat
  BY StepsType
<1> HIDE DEF n
<1>1. Stop \in SUBSET Nat /\ n \in Stop
  BY <1>0
<1>2. PICK m \in Stop : \A k \in Stop : m <= k
  BY <1>1, LeastNatural
<1>3. ASSUME NEW i \in 1 .. m PROVE StepLegal(c, path, type, i)
  <2>1. m \in 0 .. n /\ i - 1 \in 0 .. n /\ i - 1 # n /\ ~(m <= i - 1) /\ (i - 1) + 1 = i
    BY <1>0
  <2> QED BY <1>2, <2>1
<1>4. /\ m \in 0 .. n
      /\ \A i \in 1 .. m : StepLegal(c, path, type, i)
      /\ m < n => ~StepLegal(c, path, type, m + 1)
  BY <1>0, <1>3
<1>5. Reach(c, path, type)
      = CHOOSE k \in 0 .. n : /\ \A i \in 1 .. k : StepLegal(c, path, type, i)
                              /\ k < n => ~StepLegal(c, path, type, k + 1)
  BY DEF Reach, n
<1> QED BY <1>4, <1>5 DEF n

(* What the steps of a path add to a tree leaves a tree, in which what was *)
(* there is as it was.                                                     *)
LEMMA BuiltTree ==
    ASSUME NEW c, TreeOK(c), NEW path \in Seq(Tokens), NEW type,
           NEW k \in Int, k <= Len(Steps(path)),
           \A i \in 1 .. k : StepLegal(c, path, type, i)
    PROVE  /\ TreeOK(Built(c, path, type, k))
           /\ Adds(c, Built(c, path, type, k))
           /\ \A i \in 1 .. k :
                 /\ PlaceOf(c, path, i) \in DOMAIN Built(c, path, type, k)
                 /\ Built(c, path, type, k)[PlaceOf(c, path, i)].type
                    = TypeAt(path, type, i)
<1> DEFINE new == {PlaceOf(c, path, i) : i \in 1 .. k} \ DOMAIN c
           B   == Built(c, path, type, k)
<1>1. /\ DOMAIN B = DOMAIN c \cup new
      /\ \A p \in new : B[p] = Item(TypeAt(path, type, Len(p)), NULL)
      /\ \A p \in DOMAIN c : B[p] = c[p]
      /\ B = [p \in DOMAIN B |-> B[p]]
  BY DEF Built
<1>2. Adds(c, B)
  BY <1>1 DEF Adds
<1>3. ASSUME NEW i \in 1 .. k
      PROVE  /\ KeyOf(c, path, i) \in Keys
             /\ TypeAt(path, type, i) \in NodeTypes
             /\ PlaceOf(c, path, i) \in DOMAIN c =>
                   c[PlaceOf(c, path, i)].type = TypeAt(path, type, i)
  BY <1>3 DEF StepLegal
<1>4. ASSUME NEW i \in 1 .. k
      PROVE  /\ PlaceOf(c, path, 0) = <<>>
             /\ PlaceOf(c, path, i) \in Seq(Keys)
             /\ Len(PlaceOf(c, path, i)) = i
             /\ \A j \in 0 .. i : Above(PlaceOf(c, path, i), j) = PlaceOf(c, path, j)
  <2>1. k \in Nat /\ i \in 0 .. k
    OBVIOUS
  <2> QED BY <1>3, <2>1, PlaceOfFacts
<1> HIDE DEF new, B
<1>5. ASSUME NEW i \in 1 .. k
      PROVE  /\ PlaceOf(c, path, i) \in DOMAIN B
             /\ B[PlaceOf(c, path, i)].type = TypeAt(path, type, i)
  <2>1. CASE PlaceOf(c, path, i) \in DOMAIN c
    BY <1>1, <1>3, <2>1
  <2>2. CASE PlaceOf(c, path, i) \notin DOMAIN c
    <3>1. PlaceOf(c, path, i) \in new
      BY <2>2 DEF new
    <3>2. B[PlaceOf(c, path, i)] = Item(TypeAt(path, type, i), NULL)
      BY <1>1, <1>4, <3>1
    <3> QED BY <1>1, <3>1, <3>2 DEF Item
  <2> QED BY <2>1, <2>2
<1>6. /\ <<>> \in DOMAIN c /\ c[<<>>].type = "dict"
      /\ \A p \in DOMAIN c : InTree(c, p)
  BY DEF TreeOK
<1>7. ASSUME NEW p \in DOMAIN c PROVE InTree(B, p)
  BY <1>1, <1>6 DEF InTree
<1>8. ASSUME NEW p \in new PROVE InTree(B, p)
  <2>1. PICK i \in 1 .. k : p = PlaceOf(c, path, i)
    BY DEF new
  <2>2. /\ p \in Seq(Keys) /\ Len(p) = i /\ PlaceOf(c, path, 0) = <<>>
        /\ \A j \in 0 .. i : Above(p, j) = PlaceOf(c, path, j)
    BY <1>4, <2>1
  <2>3. B[p] \in Items
    BY <1>1, <1>3, <2>2 DEF Items, Item
  <2>4. ASSUME NEW j \in 0 .. i - 1
        PROVE  Above(p, j) \in DOMAIN B /\ B[Above(p, j)].type \in Containers
    <3>1. CASE j = 0
      BY <1>1, <1>6, <2>2, <3>1 DEF Containers
    <3>2. CASE j # 0
      <4>1. j \in 1 .. k /\ j \in 0 .. i
        BY <3>2
      <4>2. j < Len(path) /\ Len(path) \in Nat
        BY <3>2, StepsType
      <4>3. TypeAt(path, type, j) \in Containers
        BY <4>2 DEF TypeAt, Containers
      <4> QED BY <1>5, <2>2, <4>1, <4>3
    <3> QED BY <3>1, <3>2
  <2> QED BY <2>2, <2>3, <2>4 DEF InTree
<1>9. TreeOK(B)
  BY <1>1, <1>6, <1>7, <1>8 DEF TreeOK
<1> QED BY <1>2, <1>5, <1>9 DEF B

(* A value written where a scalar of its type is leaves a tree.            *)
LEMMA ValueTree ==
    ASSUME NEW c, TreeOK(c), NEW p \in DOMAIN c, NEW type \in Scalars,
           c[p].type = type, NEW val \in Values
    PROVE  TreeOK([c EXCEPT ![p] = Item(type, val)])
<1> DEFINE d == [c EXCEPT ![p] = Item(type, val)]
<1>1. /\ DOMAIN d = DOMAIN c /\ d = [q \in DOMAIN d |-> d[q]]
      /\ d[p] = Item(type, val)
      /\ \A q \in DOMAIN c : d[q].type = c[q].type /\ (q # p => d[q] = c[q])
  BY DEF Item
<1>2. d[p] \in Items
  BY <1>1 DEF Items, Item, NodeTypes
<1> HIDE DEF d
<1>3. ASSUME NEW q \in DOMAIN c PROVE InTree(d, q)
  <2>1. InTree(c, q)
    BY DEF TreeOK
  <2>2. d[q] \in Items
    BY <1>1, <1>2, <2>1 DEF InTree
  <2> QED BY <1>1, <2>1, <2>2 DEF InTree
<1>4. TreeOK(d)
  BY <1>1, <1>3 DEF TreeOK
<1> QED BY <1>4 DEF d

(* sconf_set leaves a tree, however it ends.                               *)
LEMMA SetTree ==
    ASSUME NEW c, TreeOK(c), NEW path \in Seq(Tokens), NEW type,
           NEW val \in Values
    PROVE  /\ TreeOK(Set(c, path, type, val).config)
           /\ Set(c, path, type, val).ret \in {-1, 0}
<1> DEFINE n == Len(Steps(path))
           r == Reach(c, path, type)
<1>0. /\ n \in Nat \ {0} /\ r \in 0 .. n /\ MaxDepth \in Nat
      /\ \A i \in 1 .. r : StepLegal(c, path, type, i)
  BY StepsType, ReachIs, DepthAssumption
<1>1. CASE Settable(c, path, type)
  <2>1. Set(c, path, type, val) = Outcome(0, Written(c, path, type, val))
    BY <1>1 DEF Set
  <2>2. r = n
    BY <1>1 DEF Settable
  <2> DEFINE B == Built(c, path, type, n)
             t == PlaceOf(c, path, n)
  <2>3. TreeOK(B) /\ t \in DOMAIN B /\ B[t].type = TypeAt(path, type, n)
    BY <1>0, <2>2, BuiltTree
  <2>4. TypeAt(path, type, n) = type
    BY StepsType DEF TypeAt
  <2>5. Written(c, path, type, val)
        = IF type \in Scalars THEN [B EXCEPT ![t] = Item(type, val)] ELSE B
    BY DEF Written
  <2> HIDE DEF B, t
  <2>6. TreeOK(Written(c, path, type, val))
    BY <2>3, <2>4, <2>5, ValueTree
  <2> QED BY <2>1, <2>6 DEF Outcome
<1>2. CASE ~Settable(c, path, type)
  <2> DEFINE k == IF r < MaxDepth THEN r ELSE MaxDepth - 1
  <2>1. Set(c, path, type, val) = Outcome(-1, Built(c, path, type, k))
    BY <1>2 DEF Set, Refused
  <2>2. k \in Int /\ k <= n /\ \A i \in 1 .. k : StepLegal(c, path, type, i)
    BY <1>0
  <2> HIDE DEF k
  <2>3. TreeOK(Built(c, path, type, k))
    BY <2>2, BuiltTree
  <2> QED BY <2>1, <2>3 DEF Outcome
<1> QED BY <1>1, <1>2

-----------------------------------------------------------------------------
(* The type invariant: where sconf_initialize is, and that the             *)
(* configuration is a tree, whatever a source writes.                      *)

MapFacts(m) ==
    /\ Len(m) \in Nat /\ DOMAIN m = 1 .. Len(m)
    /\ \A i \in DOMAIN m :
          /\ m[i].path # NULL => m[i].path \in Seq(Tokens)
          /\ m[i].default # NULL => m[i].default \in Texts

ArgumentFacts(o) ==
    /\ Len(o) \in Nat /\ DOMAIN o = 1 .. Len(o)
    /\ \A n \in DOMAIN o : o[n].text # NULL => o[n].text \in Texts

(* getopt is reached only with sound tables; the loops have their bounds.  *)
Steady ==
    /\ MapFacts(map) /\ ArgumentFacts(opts)
    /\ \A i \in DOMAIN map : env[i] # NULL => env[i] \in Texts
    /\ phase \in Phases
    /\ pos \in Nat \ {0}
    /\ phase = "getopt" => pos <= Len(opts) + 1 /\ IndexCreated
    /\ phase \in {"env", "defaults", "validate"} => pos <= Len(map) + 1
    /\ phase \in {"idle", "opts", "exit", "done"} => pos = 1
    /\ ret \in {-1, 0}
    /\ runs \in 0 .. MaxRuns
    /\ wrote \subseteq DOMAIN map

TInv == Steady /\ TreeOK(config)

(* What a write may leave: a tree, and whether it went well.               *)
Sound(o) == TreeOK(o.config) /\ o.ret \in {-1, 0}

(* The set of them, for the walk through the writes of a file.             *)
Outcomes ==
    {o \in [ret : {-1, 0}, config : UNION {[D -> Items] : D \in SUBSET Seq(Keys)}] :
        TreeOK(o.config)}

(* An outcome is in that set when its configuration is a tree.             *)
LEMMA OutcomesAre ==
    /\ \A o \in Outcomes : Sound(o)
    /\ \A c : TreeOK(c) => \A r \in {-1, 0} : Outcome(r, c) \in Outcomes
<1>1. \A o \in Outcomes : Sound(o)
  BY DEF Outcomes, Sound
<1>2. ASSUME NEW r \in {-1, 0}, NEW c, TreeOK(c) PROVE Outcome(r, c) \in Outcomes
  <2>1. DOMAIN c \in SUBSET Seq(Keys) /\ c \in [DOMAIN c -> Items]
    BY <1>2 DEF TreeOK, InTree
  <2> QED BY <1>2, <2>1 DEF Outcomes, Outcome
<1> QED BY <1>1, <1>2

(* What sconf_set returns is in it.                                        *)
LEMMA SetOutcome ==
    ASSUME NEW c, TreeOK(c), NEW path \in Seq(Tokens), NEW type,
           NEW val \in Values
    PROVE  Set(c, path, type, val) \in Outcomes
<1>1. \E d : \E r \in {-1, 0} : Set(c, path, type, val) = Outcome(r, d)
  BY DEF Set
<1>4. PICK d : \E r \in {-1, 0} : Set(c, path, type, val) = Outcome(r, d)
  BY <1>1
<1>2. PICK r \in {-1, 0} : Set(c, path, type, val) = Outcome(r, d)
  BY <1>4
<1>3. TreeOK(d)
  BY <1>2, SetTree DEF Outcome
<1> QED BY <1>2, <1>3, OutcomesAre

(* The writes of a file one by one.                                        *)
FileWalk(w, c, writes, read) ==
    /\ w \in [0 .. Len(writes) -> Outcomes]
    /\ w[0] = Outcome(0, c)
    /\ \A i \in 1 .. Len(writes) :
          w[i] = IF w[i - 1].ret = -1 THEN w[i - 1]
                 ELSE Set(w[i - 1].config, writes[i].path, writes[i].type, writes[i].val)
    /\ read = w[Len(writes)]

(* What a file holds can be set.                                           *)
LEMMA FileFacts ==
    ASSUME NEW text \in Texts \ Unreadable
    PROVE  /\ Len(Files[text]) \in Nat
           /\ \A i \in 1 .. Len(Files[text]) :
                 Files[text][i].path \in Seq(Tokens) /\ Files[text][i].val \in Values
<1> DEFINE w == Files[text]
           Entries == [path : Seq(Tokens), type : CallTypes, val : Values]
<1>1. w \in Seq(Entries)
  BY InitAssumption
<1>2. \A x \in Entries : x.path \in Seq(Tokens) /\ x.val \in Values
  OBVIOUS
<1> HIDE DEF w, Entries
<1>3. Len(w) \in Nat /\ \A i \in 1 .. Len(w) : w[i] \in Entries
  BY <1>1
<1>4. Len(w) \in Nat /\ \A i \in 1 .. Len(w) : w[i].path \in Seq(Tokens) /\ w[i].val \in Values
  BY <1>2, <1>3
<1> QED BY <1>4 DEF w

(* Reading a file is the walk its definition says it is.                   *)
LEMMA ReadFileWalk ==
    ASSUME NEW c, TreeOK(c), NEW text \in Texts \ Unreadable
    PROVE  \E w : FileWalk(w, c, Files[text], ReadFile(c, text))
<1> DEFINE w  == Files[text]
           N  == Len(w)
           s0 == Outcome(0, c)
           turn(i, o) == IF o.ret = -1 THEN o
                         ELSE Set(o.config, w[i].path, w[i].type, w[i].val)
           step == [x \in (1 .. N) \X Outcomes |-> turn(x[1], x[2])]
<1>1. /\ N \in Nat
      /\ \A i \in 1 .. N : w[i].path \in Seq(Tokens) /\ w[i].val \in Values
  BY FileFacts
<1> HIDE DEF w
<1>2. s0 \in Outcomes
  BY OutcomesAre DEF Sound, Outcome
<1>3. ASSUME NEW i \in 1 .. N, NEW o \in Outcomes PROVE turn(i, o) \in Outcomes
  <2>1. Sound(o)
    BY OutcomesAre
  <2>2. Set(o.config, w[i].path, w[i].type, w[i].val) \in Outcomes
    BY <1>1, <2>1, SetOutcome DEF Sound
  <2> QED BY <2>2
<1>4. Stepping(step, N, Outcomes)
  BY <1>3 DEF Stepping
<1>5. \A i \in 1 .. N, o \in Outcomes : step[<<i, o>>] = turn(i, o)
  OBVIOUS
<1> HIDE DEF step, s0, turn, N
<1>6. PICK g : Walking(g, N, Outcomes, s0, step)
  BY <1>1, <1>2, <1>4, WalkExists
<1>7. g = [i \in 0 .. N |->
             IF i = 0 THEN Outcome(0, c)
             ELSE LET sofar == g[i - 1]
                      x     == w[i]
                  IN  IF sofar.ret = -1 THEN sofar
                      ELSE Set(sofar.config, x.path, x.type, x.val)]
  <2>1. \A i \in 0 .. N : i # 0 => i \in 1 .. N /\ i - 1 \in 0 .. N
    BY <1>1
  <2> QED BY <1>5, <1>6, <2>1 DEF Walking, turn, s0
<1> DEFINE after[i \in 0 .. N] ==
              IF i = 0 THEN Outcome(0, c)
              ELSE LET sofar == after[i - 1]
                       x     == w[i]
                   IN  IF sofar.ret = -1 THEN sofar
                       ELSE Set(sofar.config, x.path, x.type, x.val)
<1>8. after = [i \in 0 .. N |->
             IF i = 0 THEN Outcome(0, c)
             ELSE LET sofar == after[i - 1]
                      x     == w[i]
                  IN  IF sofar.ret = -1 THEN sofar
                      ELSE Set(sofar.config, x.path, x.type, x.val)]
  BY <1>7
<1>9. ReadFile(c, text) = after[N]
  BY DEF ReadFile, N, w
<1> HIDE DEF after
<1>10. /\ after[0] = s0
       /\ \A i \in 1 .. N : after[i] = turn(i, after[i - 1])
  <2>1. 0 \in 0 .. N /\ \A i \in 1 .. N : i \in 0 .. N /\ i # 0
    BY <1>1
  <2> QED BY <1>8, <2>1 DEF turn, s0
<1> DEFINE T == {i \in 0 .. N : after[i] \in Outcomes}
<1>11. 0 \in T
  BY <1>1, <1>2, <1>10
<1>12. ASSUME NEW i \in 0 .. N - 1, i \in T PROVE i + 1 \in T
  <2>1. i + 1 \in 1 .. N /\ i + 1 \in 0 .. N /\ (i + 1) - 1 = i /\ after[i] \in Outcomes
    BY <1>1, <1>12
  <2> QED BY <1>3, <1>10, <2>1
<1> HIDE DEF T
<1>13. \A i \in 0 .. N : i \in T
  BY <1>1, <1>11, <1>12, UpTo
<1>14. after \in [0 .. N -> Outcomes]
  BY <1>8, <1>13 DEF T
<1>15. FileWalk(after, c, w, ReadFile(c, text))
  BY <1>9, <1>10, <1>14 DEF FileWalk, turn, s0, N
<1> QED BY <1>15 DEF w

(* Reading a file leaves a tree after each of its writes.                  *)
LEMMA ReadFileSound ==
    ASSUME NEW c, TreeOK(c), NEW text \in Texts
    PROVE  Sound(ReadFile(c, text))
<1>1. CASE text \in Unreadable
  BY <1>1 DEF ReadFile, Outcome, Sound
<1>2. CASE text \notin Unreadable
  <2>1. PICK w : FileWalk(w, c, Files[text], ReadFile(c, text))
    BY <1>2, ReadFileWalk
  <2>2. Len(Files[text]) \in Nat
    BY <1>2, FileFacts
  <2>3. ReadFile(c, text) \in Outcomes
    BY <2>1, <2>2 DEF FileWalk
  <2> QED BY <2>3, OutcomesAre
<1> QED BY <1>1, <1>2

(* One text given for an entry leaves a tree.                              *)
LEMMA ApplySound ==
    ASSUME NEW c, TreeOK(c), NEW e, e.path \in Seq(Tokens), NEW text \in Texts
    PROVE  Sound(Apply(c, e, text))
<1>0. Sound(Outcome(-1, c))
  BY DEF Sound, Outcome
<1>1. CASE e.type \in Scalars
  <2>1. CASE ValueOf[e.type][text] = NULL
    BY <1>0, <1>1, <2>1 DEF Apply, Scalars
  <2>2. CASE ValueOf[e.type][text] # NULL
    <3>1. ValueOf[e.type][text] \in Values
      BY <1>1, <2>2, InitAssumption
    <3>2. Apply(c, e, text) = Set(c, e.path, e.type, ValueOf[e.type][text])
      BY <1>1, <2>2 DEF Apply, Scalars
    <3> QED BY <3>1, <3>2, SetTree DEF Sound
  <2> QED BY <2>1, <2>2
<1>2. CASE e.type = "yaml_file"
  <2> DEFINE read == ReadFile(c, text)
  <2>1. Sound(read)
    BY ReadFileSound
  <2>2. Apply(c, e, text)
        = IF read.ret = -1 THEN read ELSE Set(read.config, e.path, "str", text)
    BY <1>2 DEF Apply, Scalars
  <2>3. text \in Values
    BY InitAssumption
  <2> HIDE DEF read
  <2> QED BY <2>1, <2>2, <2>3, SetTree DEF Sound
<1>3. CASE e.type \notin Scalars /\ e.type # "yaml_file"
  BY <1>0, <1>3 DEF Apply
<1> QED BY <1>1, <1>2, <1>3

(* Before the first call the configuration is empty.                       *)
LEMMA InitTInv == Init => TInv
<1> SUFFICES ASSUME Init PROVE TInv
  OBVIOUS
<1>1. MapFacts(map)
  BY InitAssumption DEF Init, MapFacts
<1>2. ArgumentFacts(opts)
  BY InitAssumption DEF Init, ArgumentFacts
<1>3. Steady
  BY <1>1, <1>2, InitAssumption DEF Init, Steady, Phases
<1>4. /\ DOMAIN config = {<<>>} /\ config[<<>>] = Item("dict", NULL)
      /\ config = [p \in DOMAIN config |-> config[p]]
  BY DEF Init, Empty
<1>5. <<>> \in Seq(Keys) /\ Len(<<>>) = 0
  OBVIOUS
<1>6. InTree(config, <<>>)
  BY <1>4, <1>5 DEF InTree, Items, Item, NodeTypes, Containers
<1>7. TreeOK(config)
  BY <1>4, <1>6 DEF TreeOK, Item
<1> QED BY <1>3, <1>7 DEF TInv

(* In a loop, pos is that of an option or an entry.                        *)
InLoop ==
    \/ phase = "getopt" /\ pos <= Len(opts)
    \/ phase \in {"env", "defaults", "validate"} /\ pos <= Len(map)

(* A step that leaves the configuration as it is.                          *)
LEMMA QuietTInv ==
    ASSUME TInv, Quiet,
           \/ Continue /\ InLoop
           \/ \E r \in {-1, 0} : Return(r)
           \/ \E next \in {"env", "defaults", "validate", "exit"} : GoTo(next)
           \/ GoTo("getopt") /\ IndexCreated
    PROVE  TInv'
<1>1. /\ map' = map /\ opts' = opts /\ env' = env /\ config' = config
      /\ runs' = runs /\ wrote' = wrote
  BY DEF Quiet, inputs
<1>2. TreeOK(config)'
  BY <1>1 DEF TInv
<1>3. MapFacts(map') /\ ArgumentFacts(opts') /\ Len(map) \in Nat /\ Len(opts) \in Nat
  BY <1>1 DEF TInv, Steady, MapFacts, ArgumentFacts
<1>4. IndexCreated => IndexCreated'
  BY <1>1 DEF IndexCreated, Shorts
<1>5. CASE Continue /\ InLoop
  <2>1. pos' = pos + 1 /\ phase' = phase /\ ret' = ret
    BY <1>5 DEF Continue
  <2>2. Steady'
    BY <1>1, <1>3, <1>4, <1>5, <2>1 DEF TInv, Steady, InLoop
  <2> QED BY <1>2, <2>2 DEF TInv
<1>6. CASE \E r \in {-1, 0} : Return(r)
  <2>1. Steady'
    BY <1>1, <1>3, <1>6 DEF TInv, Steady, Return, Phases
  <2> QED BY <1>2, <2>1 DEF TInv
<1>7. CASE \/ \E next \in {"env", "defaults", "validate", "exit"} : GoTo(next)
           \/ GoTo("getopt") /\ IndexCreated
  <2>1. Steady'
    BY <1>1, <1>3, <1>4, <1>7 DEF TInv, Steady, GoTo, Phases
  <2> QED BY <1>2, <2>1 DEF TInv
<1> QED BY <1>5, <1>6, <1>7

(* A step that writes what an option or an entry gives.                    *)
LEMMA AppliedTInv ==
    ASSUME TInv, NEW o, Sound(o), NEW i \in DOMAIN map, Applied(o, i), InLoop
    PROVE  TInv'
<1>1. /\ map' = map /\ opts' = opts /\ env' = env /\ config' = o.config
      /\ runs' = runs /\ wrote' \subseteq DOMAIN map
  BY DEF Applied, inputs, TInv, Steady
<1>2. TreeOK(config)'
  BY <1>1 DEF Sound
<1>3. MapFacts(map') /\ ArgumentFacts(opts') /\ Len(map) \in Nat /\ Len(opts) \in Nat
  BY <1>1 DEF TInv, Steady, MapFacts, ArgumentFacts
<1>4. IndexCreated => IndexCreated'
  BY <1>1 DEF IndexCreated, Shorts
<1>5. CASE Continue
  <2>1. pos' = pos + 1 /\ phase' = phase /\ ret' = ret
    BY <1>5 DEF Continue
  <2>2. Steady'
    BY <1>1, <1>3, <1>4, <2>1 DEF TInv, Steady, InLoop
  <2> QED BY <1>2, <2>2 DEF TInv
<1>6. CASE Return(-1)
  <2>1. Steady'
    BY <1>1, <1>3, <1>6 DEF TInv, Steady, Return, Phases
  <2> QED BY <1>2, <2>1 DEF TInv
<1> QED BY <1>5, <1>6 DEF Applied

(* What the entry of a known option is.                                    *)
LEMMA KnownEntry ==
    ASSUME TInv, IndexCreated, NEW o, ~Bad(o)
    PROVE  /\ EntryOf(o) \in DOMAIN map
           /\ map[EntryOf(o)].short = o.short
           /\ ~Usage(map[EntryOf(o)]) => map[EntryOf(o)].path \in Seq(Tokens)
<1>1. \E i \in Shorts : map[i].short = o.short
  BY DEF Bad, Known
<1>2. EntryOf(o) \in Shorts /\ map[EntryOf(o)].short = o.short
  BY <1>1 DEF EntryOf
<1> QED BY <1>2 DEF Shorts, IndexCreated, Usage, TInv, Steady, MapFacts

(* The options.                                                            *)
LEMMA OptionsTInv ==
    TInv /\ (OptsPrepare \/ OptBad \/ OptUsage \/ OptSet \/ OptsEnd) => TInv'
<1> SUFFICES ASSUME TInv, OptsPrepare \/ OptBad \/ OptUsage \/ OptSet \/ OptsEnd
             PROVE  TInv'
  OBVIOUS
<1>1. CASE OptsPrepare
  BY <1>1, QuietTInv DEF OptsPrepare
<1>2. CASE OptBad
  BY <1>2, QuietTInv DEF OptBad
<1>3. CASE OptUsage
  BY <1>3, QuietTInv DEF OptUsage, InLoop
<1>4. CASE OptSet
  <2> DEFINE o == opts[pos]
             i == EntryOf(o)
  <2>1. /\ InLoop /\ IndexCreated /\ ~Bad(o) /\ pos \in DOMAIN opts
        /\ ~Usage(map[i])
    BY <1>4 DEF OptSet, InLoop, TInv, Steady, ArgumentFacts
  <2>2. i \in DOMAIN map /\ map[i].path \in Seq(Tokens)
    BY <2>1, KnownEntry
  <2>3. o.text # NULL => o.text \in Texts
    BY <2>1 DEF TInv, Steady, ArgumentFacts
  <2>4. TRUEVALUE \in Values /\ TreeOK(config)
    BY InitAssumption DEF TInv
  <2>5. /\ Sound(Set(config, map[i].path, "bool", TRUEVALUE))
        /\ Sound(Outcome(-1, config))
        /\ o.text # NULL => Sound(Apply(config, map[i], o.text))
    BY <2>2, <2>3, <2>4, SetTree, ApplySound DEF Sound, Outcome
  <2>6. Applied(IF o.text = NULL
                THEN IF map[i].type = "bool"
                     THEN Set(config, map[i].path, "bool", TRUEVALUE)
                     ELSE Outcome(-1, config)
                ELSE Apply(config, map[i], o.text), i)
    BY <1>4 DEF OptSet
  <2> HIDE DEF o, i
  <2> QED BY <2>1, <2>2, <2>5, <2>6, AppliedTInv
<1>5. CASE OptsEnd
  BY <1>5, QuietTInv DEF OptsEnd
<1> QED BY <1>1, <1>2, <1>3, <1>4, <1>5

(* The environment and the defaults.                                       *)
LEMMA EntriesTInv ==
    TInv /\ (EnvEntry \/ DefaultEntry \/ ValidateEntry) => TInv'
<1> SUFFICES ASSUME TInv, EnvEntry \/ DefaultEntry \/ ValidateEntry PROVE TInv'
  OBVIOUS
<1>1. /\ InLoop /\ pos \in DOMAIN map /\ TreeOK(config)
      /\ map[pos].path # NULL => map[pos].path \in Seq(Tokens)
      /\ map[pos].default # NULL => map[pos].default \in Texts
      /\ env[pos] # NULL => env[pos] \in Texts
  BY DEF EnvEntry, DefaultEntry, ValidateEntry, EntryIn, InLoop, TInv, Steady, MapFacts
<1>2. CASE Skip \/ Fail
  BY <1>1, <1>2, QuietTInv DEF Skip, Fail
<1>3. CASE EnvEntry
  <2>1. ASSUME map[pos].path # NULL, env[pos] # NULL,
               Applied(Apply(config, map[pos], env[pos]), pos)
        PROVE  TInv'
    BY <1>1, <2>1, ApplySound, AppliedTInv
  <2> QED BY <1>2, <1>3, <2>1 DEF EnvEntry, SetFromEnv
<1>4. CASE DefaultEntry
  <2>1. ASSUME map[pos].path # NULL, map[pos].default # NULL,
               Applied(Apply(config, map[pos], map[pos].default), pos)
        PROVE  TInv'
    BY <1>1, <2>1, ApplySound, AppliedTInv
  <2> QED BY <1>2, <1>4, <2>1 DEF DefaultEntry, HandleDefault
<1> QED BY <1>2, <1>3, <1>4 DEF ValidateEntry

(* Every step keeps it.                                                    *)
LEMMA StepTInv == TInv /\ [Next]_vars => TInv'
<1> SUFFICES ASSUME TInv, [Next]_vars PROVE TInv'
  OBVIOUS
<1>1. CASE Call
  <2>1. Steady'
    BY <1>1, InitAssumption
       DEF Call, inputs, TInv, Steady, Phases, MapFacts, ArgumentFacts
  <2> QED BY <1>1, <2>1 DEF Call, TInv
<1>2. CASE OptsPrepare \/ OptBad \/ OptUsage \/ OptSet \/ OptsEnd
  BY <1>2, OptionsTInv
<1>3. CASE EnvEntry \/ DefaultEntry \/ ValidateEntry
  BY <1>3, EntriesTInv
<1>4. CASE EnvEnd \/ DefaultsEnd \/ ValidateEnd
  BY <1>4, QuietTInv DEF EnvEnd, DefaultsEnd, ValidateEnd
<1>5. CASE Returned
  <2>1. Steady'
    BY <1>5 DEF Returned, inputs, TInv, Steady, Phases, MapFacts, ArgumentFacts
  <2> QED BY <1>5, <2>1 DEF Returned, TInv
<1>6. CASE UNCHANGED vars
  <2>1. Steady'
    BY <1>6 DEF vars, inputs, TInv, Steady, MapFacts, ArgumentFacts, IndexCreated, Shorts
  <2> QED BY <1>6, <2>1 DEF vars, TInv
<1> QED BY <1>1, <1>2, <1>3, <1>4, <1>5, <1>6 DEF Next

(* The type invariant: for every map, command line, environment, file and  *)
(* conversion, each source leaves a configuration in which only containers *)
(* contain something, and no loop leaves its table.                        *)
THEOREM AlwaysTypeOK == Spec => []TypeOK
<1>1. TInv => TypeOK
  <2> SUFFICES ASSUME TInv PROVE TypeOK
    OBVIOUS
  <2>1. Len(opts) \in Nat /\ Len(map) \in Nat
    BY DEF TInv, Steady, MapFacts, ArgumentFacts
  <2>2. pos \in 1 .. Len(opts) + Len(map) + 1
    BY <2>1 DEF TInv, Steady, Phases
  <2>3. ASSUME NEW place \in DOMAIN config, place # <<>>
        PROVE  LET above == SubSeq(place, 1, Len(place) - 1)
               IN  above \in DOMAIN config /\ config[above].type \in Containers
    <3>1. InTree(config, place)
      BY DEF TInv, TreeOK
    <3>2. Len(place) - 1 \in 0 .. Len(place) - 1
      BY <2>3, <3>1 DEF InTree
    <3>3. SubSeq(place, 1, Len(place) - 1) = Above(place, Len(place) - 1)
      BY <3>1, <3>2 DEF InTree, Above
    <3> QED BY <3>1, <3>2, <3>3 DEF InTree
  <2>4. \A place \in DOMAIN config :
           config[place] \in [type : NodeTypes, val : Values \cup {NULL}]
    BY DEF TInv, TreeOK, InTree, Items
  <2> QED BY <2>2, <2>3, <2>4 DEF TInv, Steady, TypeOK, Phases
<1> QED BY <1>1, InitTInv, StepTInv, PTL DEF Spec

-----------------------------------------------------------------------------
(* A default that is applied because sconf_get found nothing replaces      *)
(* nothing.                                                                *)

Ats == [status : {"found", "missing", "error"}, place : Seq(Keys), index : Int]

(* A step of sconf_get leads to a place or tells why not.                  *)
LEMMA DescendType ==
    ASSUME NEW c, TreeOK(c), NEW at \in Ats, NEW token, NEW last
    PROVE  Descend(c, at, token, last) \in Ats
<1> DEFINE type  == c[at.place].type
           index == IF type = "array" /\ token \in Brackets
                    THEN Element(token, 0) ELSE at.index
           place == Append(at.place, IF type = "dict" THEN token ELSE index)
<1>1. index \in Int
  BY IndexAssumption DEF Element, Ats
<1>2. place \in DOMAIN c => place \in Seq(Keys)
  BY DEF TreeOK, InTree
<1>3. \/ Descend(c, at, token, last) \in {At("error", <<>>, 0), At("missing", <<>>, 0)}
      \/ place \in DOMAIN c /\ Descend(c, at, token, last) = At("found", place, index)
  <2> HIDE DEF place, index
  <2> QED BY DEF Descend, place, index
<1> HIDE DEF place, index
<1>4. <<>> \in Seq(Keys) /\ 0 \in Int
  OBVIOUS
<1>5. /\ At("error", <<>>, 0) \in Ats /\ At("missing", <<>>, 0) \in Ats
      /\ place \in Seq(Keys) => At("found", place, index) \in Ats
  BY <1>1, <1>4 DEF At, Ats
<1> QED BY <1>2, <1>3, <1>5

(* Find is the walk its definition says it is.                             *)
LEMMA FindDef ==
    ASSUME NEW c, TreeOK(c), NEW path \in Seq(Tokens)
    PROVE  LET n == Len(Steps(path))
           IN  \E w : /\ w[0] = At("found", <<>>, 0)
                      /\ \A i \in 1 .. n :
                            w[i] = IF w[i - 1].status # "found" THEN w[i - 1]
                                   ELSE Descend(c, w[i - 1], Steps(path)[i], i = n)
                      /\ Find(c, path) = w[n]
<1> DEFINE n  == Len(Steps(path))
           s0 == At("found", <<>>, 0)
           turn(i, at) == IF at.status # "found" THEN at
                          ELSE Descend(c, at, Steps(path)[i], i = n)
           step == [x \in (1 .. n) \X Ats |-> turn(x[1], x[2])]
<1>1. n \in Nat /\ s0 \in Ats
  BY StepsType DEF At, Ats
<1>2. \A i \in 1 .. n, at \in Ats : turn(i, at) \in Ats
  BY DescendType
<1>3. Stepping(step, n, Ats)
  BY <1>2 DEF Stepping
<1>4. \A i \in 1 .. n, at \in Ats : step[<<i, at>>] = turn(i, at)
  OBVIOUS
<1> HIDE DEF step, s0, turn, n
<1>5. PICK g : Walking(g, n, Ats, s0, step)
  BY <1>1, <1>3, WalkExists
<1> DEFINE walk[i \in 0 .. n] ==
              IF i = 0 THEN At("found", <<>>, 0)
              ELSE LET at == walk[i - 1]
                   IN  IF at.status # "found" THEN at
                       ELSE Descend(c, at, Steps(path)[i], i = n)
<1>6. g = [i \in 0 .. n |->
             IF i = 0 THEN At("found", <<>>, 0)
             ELSE LET at == g[i - 1]
                  IN  IF at.status # "found" THEN at
                      ELSE Descend(c, at, Steps(path)[i], i = n)]
  <2>1. \A i \in 0 .. n : i # 0 => i \in 1 .. n /\ g[i - 1] \in Ats
    BY <1>1, <1>5 DEF Walking
  <2>2. \A i \in 0 .. n :
            i # 0 => g[i] = IF g[i - 1].status # "found" THEN g[i - 1]
                            ELSE Descend(c, g[i - 1], Steps(path)[i], i = n)
    BY <1>4, <1>5, <2>1, ZenonT(30) DEF Walking, turn
  <2>3. g[0] = At("found", <<>>, 0) /\ g \in [0 .. n -> Ats]
    BY <1>5 DEF Walking, s0
  <2> QED BY <2>2, <2>3
<1>7. walk = [i \in 0 .. n |->
             IF i = 0 THEN At("found", <<>>, 0)
             ELSE LET at == walk[i - 1]
                  IN  IF at.status # "found" THEN at
                      ELSE Descend(c, at, Steps(path)[i], i = n)]
  BY <1>6
<1>8. Find(c, path) = walk[n]
  BY DEF Find, n
<1> HIDE DEF walk
<1>9. /\ walk[0] = At("found", <<>>, 0)
      /\ \A i \in 1 .. n :
            walk[i] = IF walk[i - 1].status # "found" THEN walk[i - 1]
                      ELSE Descend(c, walk[i - 1], Steps(path)[i], i = n)
  BY <1>1, <1>7
<1> QED BY <1>8, <1>9 DEF n

(* The place of a step is that of the step before it and its key.          *)
LEMMA PlaceOfLast ==
    ASSUME NEW c, NEW path, NEW k \in Nat \ {0},
           \A i \in 1 .. k : KeyOf(c, path, i) \in Keys
    PROVE  /\ PlaceOf(c, path, 0) = <<>>
           /\ PlaceOf(c, path, k)
              = Append(PlaceOf(c, path, k - 1), KeyOf(c, path, k))
<1>1. k \in Nat /\ k \in 0 .. k /\ k > 0
  OBVIOUS
<1> QED BY <1>1, PlaceOfFacts

(* With no token after it the first one is the last.                       *)
LEMMA OneIsLast == ASSUME NEW n \in Nat, 1 <= n, ~(n > 1) PROVE n = 1
OBVIOUS

(* The first i steps can be taken, and lead to what is there.              *)
Leads(c, path, type, i) ==
    \A j \in 1 .. i : StepLegal(c, path, type, j) /\ PlaceOf(c, path, j) \in DOMAIN c

(* One step of sconf_get at the place a step of sconf_set starts from.     *)
LEMMA DescendFollows ==
    ASSUME NEW c, TreeOK(c), NEW path \in Seq(Tokens), Steps(path) = path, path # NULL,
           ~Unfindable(path), NEW type,
           NEW i \in 1 .. Len(path),
           Leads(c, path, type, i),
           NEW at, at.place = PlaceOf(c, path, i - 1),
           NEW last \in BOOLEAN, last <=> i = Len(path)
    PROVE  LET d == Descend(c, at, path[i], last)
           IN  d.status = "found" /\ d.place = PlaceOf(c, path, i)
<1> DEFINE token == path[i]
           here  == c[at.place].type
<1>1. /\ token \in Tokens /\ token # NULL
      /\ Len(path) \in Nat /\ i \in Nat \ {0}
  BY TokensAssumption
<1>2. /\ KeyOf(c, path, i) \in Keys
      /\ KeyOf(c, path, i) # token /\ token \in Brackets => IndexOf[token] >= 0
      /\ PlaceOf(c, path, i) \in DOMAIN c
  BY <1>1 DEF StepLegal, Leads
<1>3. \A j \in 1 .. i : KeyOf(c, path, j) \in Keys
  BY DEF StepLegal, Leads
<1>4. /\ PlaceOf(c, path, i) = Append(at.place, KeyOf(c, path, i))
      /\ i = 1 => at.place = <<>>
  <2>1. i \in Nat \ {0}
    BY <1>1
  <2>2. /\ PlaceOf(c, path, 0) = <<>>
        /\ PlaceOf(c, path, i)
           = Append(PlaceOf(c, path, i - 1), KeyOf(c, path, i))
    BY <1>3, <2>1, PlaceOfLast, Zenon
  <2> QED BY <2>2
<1>5. CASE i = 1
  <2>1. here = "dict" /\ KeyOf(c, path, i) = token
    BY <1>1, <1>4, <1>5 DEF TreeOK, KeyOf
  <2>2. token \in Brackets => i = Len(path)
    <3>1. ~(Len(path) > 1 /\ path[1] \in Brackets)
      BY Zenon DEF Unfindable, Hidden
    <3>2. token = path[1] /\ Len(path) \in Nat /\ 1 <= Len(path)
      BY <1>1, <1>5
    <3>3. CASE token \notin Brackets
      BY <3>3
    <3>4. CASE token \in Brackets
      <4>1. ~(Len(path) > 1)
        BY <3>1, <3>2, <3>4, Zenon
      <4> QED BY <1>5, <3>2, <4>1, OneIsLast, Zenon
    <3> QED BY <3>3, <3>4
  <2> QED BY <1>1, <1>2, <1>4, <2>1, <2>2 DEF Descend, At, Containers
<1>6. CASE i # 1
  <2>1. i - 1 \in 1 .. i /\ i - 1 < Len(path) /\ (i - 1) + 1 = i
    BY <1>1, <1>6
  <2>2. here = TypeAt(path, type, i - 1)
    BY <2>1 DEF StepLegal, Leads
  <2>3. here = IF token \in Brackets THEN "array" ELSE "dict"
    BY <1>1, <2>1, <2>2 DEF TypeAt
  <2>4. KeyOf(c, path, i) = IF token \in Brackets THEN Element(token, 0) ELSE token
    BY <1>1, <1>6 DEF KeyOf
  <2>5. CASE token \in Brackets
    <3>1. here = "array" /\ KeyOf(c, path, i) = Element(token, 0)
      BY <2>3, <2>4, <2>5
    <3>2. Element(token, 0) \in Int /\ token \notin Int
      BY <1>1, <2>5, IndexAssumption, TokensAssumption DEF Element
    <3>3. ~(IndexOf[token] < 0)
      BY <1>2, <2>5, <3>1, <3>2, IndexAssumption
    <3> QED BY <1>1, <1>2, <1>4, <2>5, <3>1, <3>3 DEF Descend, At, Containers
  <2>6. CASE token \notin Brackets
    <3>1. here = "dict" /\ KeyOf(c, path, i) = token
      BY <2>3, <2>4, <2>6
    <3> QED BY <1>1, <1>2, <1>4, <2>6, <3>1 DEF Descend, At, Containers
  <2> QED BY <2>5, <2>6
<1> QED BY <1>5, <1>6

(* What can be set where something is, and can be found, is found.         *)
LEMMA SettableIsFound ==
    ASSUME NEW c, TreeOK(c), NEW path \in Seq(Tokens),
           path # NULL, ~Unfindable(path),
           NEW type, Settable(c, path, type),
           PlaceOf(c, path, Len(Steps(path))) \in DOMAIN c
    PROVE  /\ Find(c, path).status = "found"
           /\ Find(c, path).place = PlaceOf(c, path, Len(Steps(path)))
<1> DEFINE n == Len(Steps(path))
<1>1. /\ n \in Nat \ {0}
      /\ \A i \in 1 .. n : StepLegal(c, path, type, i)
  BY StepsType, ReachIs DEF Settable
<1>2. /\ PlaceOf(c, path, 0) = <<>>
      /\ PlaceOf(c, path, n) \in Seq(Keys) /\ Len(PlaceOf(c, path, n)) = n
      /\ \A j \in 0 .. n : Above(PlaceOf(c, path, n), j) = PlaceOf(c, path, j)
  <2>1. \A i \in 1 .. n : KeyOf(c, path, i) \in Keys
    BY <1>1 DEF StepLegal
  <2> HIDE DEF n
  <2>2. n \in 0 .. n /\ n \in Nat
    BY <1>1
  <2> QED BY <2>1, <2>2, PlaceOfFacts
<1>3. \A j \in 1 .. n : PlaceOf(c, path, j) \in DOMAIN c
  <2>1. \A j \in 0 .. n - 1 : Above(PlaceOf(c, path, n), j) \in DOMAIN c
    BY <1>2 DEF TreeOK, InTree
  <2>2. \A j \in 1 .. n : j = n \/ j \in 0 .. n - 1
    BY <1>1
  <2>3. \A j \in 1 .. n : j \in 0 .. n
    BY <1>1
  <2> QED BY <1>2, <2>1, <2>2, <2>3
<1>4. PICK w : /\ w[0] = At("found", <<>>, 0)
               /\ \A i \in 1 .. n :
                     w[i] = IF w[i - 1].status # "found" THEN w[i - 1]
                            ELSE Descend(c, w[i - 1], Steps(path)[i], i = n)
               /\ Find(c, path) = w[n]
  BY FindDef
<1>5. CASE path = <<>>
  <2>1. n = 1 /\ Steps(path)[1] = NULL
    BY <1>5 DEF Steps
  <2>2. KeyOf(c, path, 1) = NULL /\ KeyOf(c, path, 1) \in Keys
    <3>1. KeyOf(c, path, 1) \in Keys
      BY <1>1, <2>1 DEF StepLegal
    <3>2. c[<<>>].type = "dict"
      BY DEF TreeOK
    <3> QED BY <2>1, <3>1, <3>2 DEF KeyOf
  <2> QED BY <2>2, TokensAssumption DEF Keys, Indexes
<1>6. CASE path # <<>>
  <2>0. n = Len(path) /\ Steps(path) = path
    BY <1>6 DEF Steps
  <2> DEFINE T == {i \in 0 .. n : w[i].status = "found"
                                  /\ w[i].place = PlaceOf(c, path, i)}
  <2> HIDE DEF n
  <2>1. 0 \in T
    BY <1>1, <1>2, <1>4 DEF At
  <2>2. ASSUME NEW i \in 0 .. n - 1, i \in T PROVE i + 1 \in T
    <3>1. /\ i + 1 \in 1 .. n /\ i + 1 \in 0 .. n /\ (i + 1) - 1 = i
          /\ w[i].status = "found" /\ w[i].place = PlaceOf(c, path, i)
      BY <1>1, <2>2
    <3>2. w[i + 1] = Descend(c, w[i], path[i + 1], i + 1 = Len(path))
      BY <1>4, <2>0, <3>1
    <3>3. Leads(c, path, type, i + 1)
      BY <1>1, <1>3, <3>1 DEF Leads
    <3> DEFINE m == i + 1
    <3>4. /\ m \in 1 .. Len(path) /\ w[i].place = PlaceOf(c, path, m - 1)
          /\ w[m] = Descend(c, w[i], path[m], m = Len(path))
          /\ Leads(c, path, type, m)
      BY <2>0, <3>1, <3>2, <3>3
    <3> HIDE DEF m
    <3> DEFINE last == m = Len(path)
               d    == Descend(c, w[i], path[m], last)
    <3>6. last \in BOOLEAN /\ (last <=> m = Len(path)) /\ w[m] = d
      BY <3>4
    <3> HIDE DEF last
    <3>7. d.status = "found" /\ d.place = PlaceOf(c, path, m)
      BY <2>0, <3>4, <3>6, DescendFollows
    <3>8. w[m].status = "found" /\ w[m].place = PlaceOf(c, path, m)
      BY <3>6, <3>7
    <3>5. w[i + 1].status = "found" /\ w[i + 1].place = PlaceOf(c, path, i + 1)
      BY <3>8 DEF m
    <3> QED BY <3>1, <3>5
  <2> HIDE DEF T
  <2>3. \A i \in 0 .. n : i \in T
    BY <1>1, <2>1, <2>2, UpTo
  <2>4. n \in 0 .. n
    BY <1>1
  <2>5. n \in T
    BY <2>3, <2>4
  <2>6. w[n].status = "found" /\ w[n].place = PlaceOf(c, path, n)
    BY <2>5 DEF T
  <2>7. Find(c, path) = w[n]
    BY <1>4
  <2> QED BY <2>6, <2>7 DEF n
<1> QED BY <1>5, <1>6

(* So what is set where sconf_get finds nothing only adds.                 *)
LEMMA SetMissingAdds ==
    ASSUME NEW c, TreeOK(c), NEW path \in Seq(Tokens),
           path # NULL, ~Unfindable(path),
           NEW type, NEW val, Find(c, path).status = "missing"
    PROVE  Adds(c, Set(c, path, type, val).config)
<1> DEFINE n == Len(Steps(path))
           r == Reach(c, path, type)
<1>0. /\ n \in Nat \ {0} /\ r \in 0 .. n /\ MaxDepth \in Nat
      /\ \A i \in 1 .. r : StepLegal(c, path, type, i)
  BY StepsType, ReachIs, DepthAssumption
<1>1. CASE Settable(c, path, type)
  <2> DEFINE B == Built(c, path, type, n)
             t == PlaceOf(c, path, n)
  <2>1. Set(c, path, type, val).config
        = IF type \in Scalars THEN [B EXCEPT ![t] = Item(type, val)] ELSE B
    BY <1>1 DEF Set, Written, Outcome
  <2>2. r = n
    BY <1>1 DEF Settable
  <2>3. Adds(c, B)
    BY <1>0, <2>2, BuiltTree
  <2>4. t \notin DOMAIN c
    BY <1>1, SettableIsFound
  <2> HIDE DEF B, t
  <2> QED BY <2>1, <2>3, <2>4 DEF Adds
<1>2. CASE ~Settable(c, path, type)
  <2> DEFINE k == IF r < MaxDepth THEN r ELSE MaxDepth - 1
  <2>1. Set(c, path, type, val) = Outcome(-1, Built(c, path, type, k))
    BY <1>2 DEF Set, Refused
  <2>2. k \in Int /\ k <= n /\ \A i \in 1 .. k : StepLegal(c, path, type, i)
    BY <1>0
  <2> HIDE DEF k
  <2>3. Adds(c, Built(c, path, type, k))
    BY <2>2, BuiltTree
  <2> QED BY <2>1, <2>3 DEF Outcome
<1> QED BY <1>1, <1>2

(* sconf.h:113 "applied after all other config": the default of a scalar   *)
(* changes nothing that is there, for every map and whatever the other     *)
(* sources have made; a conversion that fails, a set that is refused half  *)
(* way and a string found with another type included.                      *)
THEOREM DefaultsAlwaysAdd == Spec => DefaultsOnlyAdd
<1>1. ASSUME TInv, Next PROVE OnlyAdds
  <2> SUFFICES ASSUME EntryIn("defaults"), map[pos].type \in Scalars,
                      ~Unfindable(map[pos].path)
               PROVE  Adds(config, config')
    BY DEF OnlyAdds, Adds
  <2>1. phase = "defaults" /\ pos <= Len(map) /\ pos \in DOMAIN map
    BY <1>1 DEF EntryIn, TInv, Steady, MapFacts
  <2>2. CASE config' = config
    BY <2>2 DEF Adds
  <2>3. config' = config \/ DefaultEntry
    BY <1>1, <2>1
       DEF Next, Call, OptsPrepare, OptBad, OptUsage, OptSet, OptsEnd, EnvEntry,
           EnvEnd, EntryIn, EndOf, DefaultsEnd, ValidateEntry, ValidateEnd,
           Returned, Quiet
  <2>4. CASE DefaultEntry /\ config' # config
    <3> DEFINE e == map[pos]
    <3>1. /\ e.default # NULL /\ e.path # NULL
          /\ Present(e) = "missing" /\ Applied(Apply(config, e, e.default), pos)
      BY <2>4 DEF DefaultEntry, HandleDefault, Skip, Fail, Quiet
    <3>2. e.path \in Seq(Tokens) /\ TreeOK(config)
      BY <1>1, <2>1, <3>1 DEF TInv, Steady, MapFacts
    <3>3. Find(config, e.path).status = "missing"
      BY <3>1 DEF Present, FindTyped, At
    <3>4. config' = Apply(config, e, e.default).config
      BY <3>1 DEF Applied
    <3>5. CASE ValueOf[e.type][e.default] = NULL
      BY <2>4, <3>4, <3>5 DEF Apply, Outcome, Scalars
    <3>6. CASE ValueOf[e.type][e.default] # NULL
      <4>1. config' = Set(config, e.path, e.type, ValueOf[e.type][e.default]).config
        BY <3>4, <3>6 DEF Apply, Scalars
      <4> QED BY <3>1, <3>2, <3>3, <4>1, SetMissingAdds
    <3> QED BY <3>5, <3>6
  <2> QED BY <2>2, <2>3, <2>4
<1>2. ASSUME TInv, [Next]_vars PROVE [OnlyAdds]_vars
  BY <1>1, <1>2
<1> QED BY <1>2, InitTInv, StepTInv, PTL DEF Spec, DefaultsOnlyAdd

-----------------------------------------------------------------------------
(* A second call with the same inputs makes the same turns.                *)

(* What c has, d has too, with the same type.                              *)
Within(c, d) == \A p \in DOMAIN c : p \in DOMAIN d /\ d[p].type = c[p].type

(* g is c with the values that the turns made so far, which lead to f,     *)
(* have written again.                                                     *)
Overlaid(f, g, c) ==
    /\ TreeOK(f) /\ TreeOK(g) /\ TreeOK(c)
    /\ Within(f, c) /\ Within(g, c) /\ Within(c, g)
    /\ \A p \in DOMAIN c : g[p] = c[p] \/ (p \in DOMAIN f /\ g[p] = f[p])

(* What a set that succeeds leaves.                                        *)
Left(c, d, path, type, val) ==
    LET n == Len(Steps(path))
    IN  /\ TreeOK(d) /\ Within(c, d) /\ Len(path) < MaxDepth
        /\ \A i \in 1 .. n :
              /\ StepLegal(c, path, type, i)
              /\ PlaceOf(c, path, i) \in DOMAIN d
              /\ d[PlaceOf(c, path, i)].type = TypeAt(path, type, i)
        /\ type \in Scalars => d[PlaceOf(c, path, n)] = Item(type, val)
        /\ \A p \in DOMAIN c :
              p # PlaceOf(c, path, n) \/ type \notin Scalars => d[p] = c[p]
        /\ \A p \in DOMAIN d : p \in DOMAIN c \/ \E i \in 1 .. n : p = PlaceOf(c, path, i)

(* It has built its path, and changed nothing but the value at its end.    *)
LEMMA SetLeaves ==
    ASSUME NEW c, TreeOK(c), NEW path \in Seq(Tokens), NEW type,
           NEW val \in Values, Set(c, path, type, val).ret = 0
    PROVE  Left(c, Set(c, path, type, val).config, path, type, val)
<1> DEFINE n == Len(Steps(path))
           B == Built(c, path, type, n)
           t == PlaceOf(c, path, n)
           d == Set(c, path, type, val).config
<1>1. Settable(c, path, type) /\ d = Written(c, path, type, val)
  BY DEF Set, Outcome
<1>2. /\ n \in Nat \ {0} /\ Len(path) < MaxDepth
      /\ \A i \in 1 .. n : StepLegal(c, path, type, i)
  BY <1>1, StepsType, ReachIs DEF Settable
<1>3. /\ Adds(c, B)
      /\ \A i \in 1 .. n : /\ PlaceOf(c, path, i) \in DOMAIN B
                           /\ B[PlaceOf(c, path, i)].type = TypeAt(path, type, i)
  BY <1>2, BuiltTree
<1>4. TypeAt(path, type, n) = type
  BY StepsType DEF TypeAt
<1>5. d = IF type \in Scalars THEN [B EXCEPT ![t] = Item(type, val)] ELSE B
  BY <1>1 DEF Written
<1>6. TreeOK(d)
  BY SetTree
<1>7. t \in DOMAIN B /\ B[t].type = type /\ Item(type, val).type = type
  BY <1>2, <1>3, <1>4 DEF Item
<1>10. DOMAIN B = DOMAIN c \cup {PlaceOf(c, path, i) : i \in 1 .. n}
  BY DEF Built
<1> HIDE DEF B, t, d
<1>8. /\ DOMAIN d = DOMAIN B
      /\ \A p \in DOMAIN B : /\ d[p].type = B[p].type
                             /\ p # t \/ type \notin Scalars => d[p] = B[p]
      /\ type \in Scalars => d[t] = Item(type, val)
  BY <1>5, <1>7
<1>9. Within(c, d) /\ \A p \in DOMAIN c : p # t \/ type \notin Scalars => d[p] = c[p]
  BY <1>3, <1>8 DEF Adds, Within
<1>11. \A p \in DOMAIN d : p \in DOMAIN c \/ \E i \in 1 .. n : p = PlaceOf(c, path, i)
  BY <1>8, <1>10
<1> QED BY <1>2, <1>3, <1>6, <1>8, <1>9, <1>11 DEF Left, t, d

(* The places of a path are the same in every tree.                        *)
LEMMA SamePlaces ==
    ASSUME NEW c, TreeOK(c), NEW g, TreeOK(g), NEW path
    PROVE  /\ \A i : KeyOf(g, path, i) = KeyOf(c, path, i)
           /\ \A i : PlaceOf(g, path, i) = PlaceOf(c, path, i)
<1>1. \A i : KeyOf(g, path, i) = KeyOf(c, path, i)
  BY DEF TreeOK, KeyOf
<1> QED BY <1>1 DEF PlaceOf

Overwritten(g, p, type, val) ==
    IF type \in Scalars THEN [g EXCEPT ![p] = Item(type, val)] ELSE g

(* Where a set has been made it can be made again, and only its value is   *)
(* written.                                                                *)
LEMMA SetAgain ==
    ASSUME NEW c, TreeOK(c), NEW d, NEW path \in Seq(Tokens), NEW type,
           NEW val \in Values, Left(c, d, path, type, val),
           NEW g, TreeOK(g), Within(d, g)
    PROVE  /\ Set(g, path, type, val).ret = 0
           /\ Set(g, path, type, val).config
              = Overwritten(g, PlaceOf(c, path, Len(Steps(path))), type, val)
<1> DEFINE n == Len(Steps(path))
<1>1. n \in Nat \ {0}
  BY StepsType
<1>2. /\ \A i : KeyOf(g, path, i) = KeyOf(c, path, i)
      /\ \A i : PlaceOf(g, path, i) = PlaceOf(c, path, i)
  BY SamePlaces
<1>3. ASSUME NEW i \in 1 .. n
      PROVE  /\ StepLegal(g, path, type, i)
             /\ PlaceOf(g, path, i) \in DOMAIN g
  <2>1. /\ StepLegal(c, path, type, i)
        /\ PlaceOf(c, path, i) \in DOMAIN d
        /\ d[PlaceOf(c, path, i)].type = TypeAt(path, type, i)
    BY DEF Left
  <2>2. /\ PlaceOf(g, path, i) \in DOMAIN g
        /\ g[PlaceOf(g, path, i)].type = TypeAt(path, type, i)
    BY <1>2, <2>1 DEF Within
  <2> QED BY <1>2, <2>1, <2>2 DEF StepLegal
<1>4. Reach(g, path, type) = n
  <2>1. /\ Reach(g, path, type) \in 0 .. n
        /\ Reach(g, path, type) < n => ~StepLegal(g, path, type, Reach(g, path, type) + 1)
    BY ReachIs
  <2> QED BY <1>1, <1>3, <2>1
<1>5. Built(g, path, type, n) = g
  <2>1. {PlaceOf(g, path, i) : i \in 1 .. n} \ DOMAIN g = {}
    BY <1>3
  <2>2. Built(g, path, type, n) = [p \in DOMAIN g |-> g[p]]
    BY <2>1 DEF Built
  <2> QED BY <2>2 DEF TreeOK
<1>6. Set(g, path, type, val) = Outcome(0, Written(g, path, type, val))
  BY <1>4 DEF Set, Settable, Left
<1>7. Written(g, path, type, val) = Overwritten(g, PlaceOf(g, path, n), type, val)
  BY <1>5 DEF Written, Overwritten
<1>8. PlaceOf(g, path, n) = PlaceOf(c, path, n)
  BY <1>2
<1> QED BY <1>6, <1>7, <1>8 DEF Outcome

(* So a set made again leaves the two trees alike.                         *)
LEMMA SetOverlaid ==
    ASSUME NEW f, NEW g, NEW c, Overlaid(f, g, c),
           NEW path \in Seq(Tokens), NEW type, NEW val \in Values,
           Set(f, path, type, val).ret = 0,
           Within(Set(f, path, type, val).config, c)
    PROVE  /\ Set(g, path, type, val).ret = 0
           /\ Overlaid(Set(f, path, type, val).config,
                       Set(g, path, type, val).config, c)
<1> DEFINE f2 == Set(f, path, type, val).config
           g2 == Set(g, path, type, val).config
           t  == PlaceOf(f, path, Len(Steps(path)))
<1>1. Left(f, f2, path, type, val)
  BY SetLeaves DEF Overlaid
<1>2. Within(f2, g)
  BY DEF Overlaid, Within
<1>3. /\ Set(g, path, type, val).ret = 0
      /\ g2 = Overwritten(g, t, type, val)
  <2>1. TreeOK(f) /\ TreeOK(g)
    BY DEF Overlaid
  <2> HIDE DEF f2
  <2> QED BY <1>1, <1>2, <2>1, SetAgain
<1>4. TreeOK(g2)
  <2>1. TreeOK(g)
    BY DEF Overlaid
  <2> QED BY <2>1, SetTree
<1>5. t \in DOMAIN f2 /\ t \in DOMAIN g
      /\ (type \in Scalars => f2[t] = Item(type, val) /\ f2[t].type = g[t].type)
  <2>1. Len(Steps(path)) \in 1 .. Len(Steps(path))
    BY StepsType
  <2> HIDE DEF f2
  <2> QED BY <1>1, <1>2, <2>1 DEF Left, Within
<1> HIDE DEF f2, g2, t
<1>6. /\ DOMAIN g2 = DOMAIN g
      /\ \A p \in DOMAIN g : /\ g2[p].type = g[p].type
                             /\ p # t \/ type \notin Scalars => g2[p] = g[p]
      /\ type \in Scalars => g2[t] = f2[t]
  BY <1>3, <1>5 DEF Item, Overwritten
<1>7. /\ \A p \in DOMAIN f : /\ p \in DOMAIN f2
                             /\ p # t \/ type \notin Scalars => f2[p] = f[p]
  BY <1>1 DEF Left, Within, t
<1>8. ASSUME NEW p \in DOMAIN c
      PROVE  g2[p] = c[p] \/ (p \in DOMAIN f2 /\ g2[p] = f2[p])
  <2>1. p \in DOMAIN g /\ (g[p] = c[p] \/ (p \in DOMAIN f /\ g[p] = f[p]))
    BY DEF Overlaid, Within
  <2>2. CASE p = t /\ type \in Scalars
    BY <1>5, <1>6, <2>2
  <2>3. CASE ~(p = t /\ type \in Scalars)
    BY <1>6, <1>7, <2>1, <2>3
  <2> QED BY <2>2, <2>3
<1>9. Within(g2, c) /\ Within(c, g2)
  BY <1>6 DEF Overlaid, Within
<1>10. TreeOK(f2) /\ TreeOK(c) /\ Within(f2, c)
  BY <1>1 DEF Left, Overlaid, f2
<1>11. Overlaid(f2, g2, c)
  BY <1>4, <1>8, <1>9, <1>10 DEF Overlaid
<1> QED BY <1>3, <1>11 DEF f2, g2

(* A write that succeeds adds to a tree or changes a value.                *)
Grows(o, q) == q.ret = 0 => o.ret = 0 /\ Within(o.config, q.config)

(* So does a file, from each of its writes to each later one.              *)
LEMMA FileGrows ==
    ASSUME NEW c, TreeOK(c), NEW text \in Texts \ Unreadable, NEW w,
           FileWalk(w, c, Files[text], ReadFile(c, text))
    PROVE  \A k \in 0 .. Len(Files[text]) : \A i \in 0 .. k : Grows(w[i], w[k])
<1> DEFINE W == Files[text]
           N == Len(W)
<1>1. /\ N \in Nat
      /\ \A i \in 1 .. N : W[i].path \in Seq(Tokens) /\ W[i].val \in Values
  BY FileFacts
<1>2. /\ \A i \in 0 .. N : w[i] \in Outcomes /\ Sound(w[i])
      /\ \A i \in 1 .. N : w[i] = IF w[i - 1].ret = -1 THEN w[i - 1]
                                  ELSE Set(w[i - 1].config, W[i].path, W[i].type, W[i].val)
  BY OutcomesAre DEF FileWalk
<1> HIDE DEF W, N
<1>3. ASSUME NEW i \in 1 .. N PROVE Grows(w[i - 1], w[i])
  <2>0. i - 1 \in 0 .. N
    BY <1>1
  <2>1. CASE w[i - 1].ret = -1
    BY <1>2, <2>1 DEF Grows
  <2>2. CASE w[i - 1].ret # -1
    <3>1. w[i - 1].ret = 0 /\ TreeOK(w[i - 1].config)
      BY <1>2, <2>0, <2>2 DEF Sound
    <3>2. w[i] = Set(w[i - 1].config, W[i].path, W[i].type, W[i].val)
      BY <1>2, <2>2
    <3> DEFINE f == w[i - 1].config
               x == W[i]
    <3>3. TreeOK(f) /\ x.path \in Seq(Tokens) /\ x.val \in Values
      BY <1>1, <3>1
    <3>4. ASSUME Set(f, x.path, x.type, x.val).ret = 0
          PROVE  Within(f, Set(f, x.path, x.type, x.val).config)
      <4> HIDE DEF f, x
      <4>1. Left(f, Set(f, x.path, x.type, x.val).config, x.path, x.type, x.val)
        BY <3>3, <3>4, SetLeaves
      <4> QED BY <4>1 DEF Left
    <3> QED BY <3>1, <3>2, <3>4 DEF Grows
  <2> QED BY <2>1, <2>2
<1> DEFINE T == {k \in 0 .. N : \A i \in 0 .. k : Grows(w[i], w[k])}
<1>4. 0 \in T
  <2>1. \A i \in 0 .. 0 : i = 0
    OBVIOUS
  <2>2. Grows(w[0], w[0])
    BY DEF Grows, Within
  <2> QED BY <1>1, <2>1, <2>2
<1>5. ASSUME NEW k \in 0 .. N - 1, k \in T PROVE k + 1 \in T
  <2>1. k + 1 \in 1 .. N /\ k + 1 \in 0 .. N /\ (k + 1) - 1 = k
    BY <1>1
  <2>2. Grows(w[k], w[k + 1])
    BY <1>3, <2>1
  <2>3. ASSUME NEW i \in 0 .. k + 1 PROVE Grows(w[i], w[k + 1])
    <3>1. CASE i = k + 1
      BY <3>1 DEF Grows, Within
    <3>2. CASE i # k + 1
      <4>1. i \in 0 .. k
        BY <2>1, <3>2
      <4>2. Grows(w[i], w[k])
        BY <1>5, <4>1
      <4> QED BY <2>2, <4>2 DEF Grows, Within
    <3> QED BY <3>1, <3>2
  <2> QED BY <2>1, <2>3
<1> HIDE DEF T
<1>6. \A k \in 0 .. N : k \in T
  BY <1>1, <1>4, <1>5, UpTo
<1> QED BY <1>6 DEF T, N, W

(* What is read is no file that cannot be read.                            *)
LEMMA Readable ==
    ASSUME NEW c, NEW text, ReadFile(c, text).ret = 0
    PROVE  text \notin Unreadable
<1> SUFFICES ASSUME text \in Unreadable PROVE FALSE
  OBVIOUS
<1>1. ReadFile(c, text) = Outcome(-1, c)
  BY Zenon DEF ReadFile
<1> QED BY <1>1 DEF Outcome

(* A file that is read adds to a tree and changes values.                  *)
LEMMA ReadGrows ==
    ASSUME NEW c, TreeOK(c), NEW text \in Texts, ReadFile(c, text).ret = 0
    PROVE  Within(c, ReadFile(c, text).config)
<1>1. text \notin Unreadable
  BY Readable
<1>2. PICK w : FileWalk(w, c, Files[text], ReadFile(c, text))
  BY <1>1, ReadFileWalk
<1>3. Len(Files[text]) \in Nat
  BY <1>1, FileFacts
<1>4. Grows(w[0], w[Len(Files[text])])
  BY <1>1, <1>2, <1>3, FileGrows
<1> QED BY <1>2, <1>4 DEF Grows, FileWalk, Outcome

(* A file read again.                                                      *)
LEMMA ReadOverlaid ==
    ASSUME NEW f, NEW g, NEW c, Overlaid(f, g, c), NEW text \in Texts,
           ReadFile(f, text).ret = 0, Within(ReadFile(f, text).config, c)
    PROVE  /\ ReadFile(g, text).ret = 0
           /\ Overlaid(ReadFile(f, text).config, ReadFile(g, text).config, c)
<1> DEFINE W == Files[text]
           N == Len(W)
<1>0. text \notin Unreadable
  BY Readable
<1>1. /\ N \in Nat
      /\ \A i \in 1 .. N : W[i].path \in Seq(Tokens) /\ W[i].val \in Values
  BY <1>0, FileFacts
<1>2. PICK w : FileWalk(w, f, Files[text], ReadFile(f, text))
  BY <1>0, ReadFileWalk DEF Overlaid
<1>3. PICK v : FileWalk(v, g, Files[text], ReadFile(g, text))
  BY <1>0, ReadFileWalk DEF Overlaid
<1>4. \A k \in 0 .. N : \A i \in 0 .. k : Grows(w[i], w[k])
  BY <1>0, <1>2, FileGrows DEF Overlaid
<1> HIDE DEF W
<1>5. /\ w[0] = Outcome(0, f) /\ v[0] = Outcome(0, g)
      /\ ReadFile(f, text) = w[N] /\ ReadFile(g, text) = v[N]
      /\ \A i \in 1 .. N : w[i] = IF w[i - 1].ret = -1 THEN w[i - 1]
                                  ELSE Set(w[i - 1].config, W[i].path, W[i].type, W[i].val)
      /\ \A i \in 1 .. N : v[i] = IF v[i - 1].ret = -1 THEN v[i - 1]
                                  ELSE Set(v[i - 1].config, W[i].path, W[i].type, W[i].val)
  BY <1>2, <1>3 DEF FileWalk, W
<1> HIDE DEF N
<1>6. ASSUME NEW i \in 0 .. N PROVE w[i].ret = 0 /\ Within(w[i].config, c)
  <2>1. Grows(w[i], w[N])
    BY <1>1, <1>4
  <2> QED BY <1>5, <2>1 DEF Grows, Within
<1> DEFINE T == {i \in 0 .. N : v[i].ret = 0 /\ Overlaid(w[i].config, v[i].config, c)}
<1>7. 0 \in T
  BY <1>1, <1>5 DEF Outcome
<1>8. ASSUME NEW i \in 0 .. N - 1, i \in T PROVE i + 1 \in T
  <2> DEFINE j == i + 1
             p == W[j].path
             y == W[j].type
             a == W[j].val
             f1 == w[i].config
             g1 == v[i].config
  <2>1. /\ j \in 1 .. N /\ j \in 0 .. N /\ j - 1 = i /\ i \in 0 .. N
        /\ v[i].ret = 0 /\ Overlaid(f1, g1, c)
    BY <1>1, <1>8
  <2>2. p \in Seq(Tokens) /\ a \in Values
    BY <1>1, <2>1
  <2>3. /\ w[j] = Set(f1, p, y, a) /\ v[j] = Set(g1, p, y, a)
    <3>1. w[i].ret # -1 /\ v[i].ret # -1
      BY <1>6, <2>1
    <3> HIDE DEF j
    <3>2. w[j] = IF w[j - 1].ret = -1 THEN w[j - 1]
                 ELSE Set(w[j - 1].config, W[j].path, W[j].type, W[j].val)
      BY <1>5, <2>1
    <3>3. v[j] = IF v[j - 1].ret = -1 THEN v[j - 1]
                 ELSE Set(v[j - 1].config, W[j].path, W[j].type, W[j].val)
      BY <1>5, <2>1
    <3> QED BY <2>1, <3>1, <3>2, <3>3
  <2>4. w[j].ret = 0 /\ Within(w[j].config, c)
    BY <1>6, <2>1
  <2> HIDE DEF p, y, a, f1, g1, j
  <2>5. v[j].ret = 0 /\ Overlaid(w[j].config, v[j].config, c)
    BY <2>1, <2>2, <2>3, <2>4, SetOverlaid
  <2> QED BY <2>1, <2>5 DEF j
<1> HIDE DEF T
<1>9. \A i \in 0 .. N : i \in T
  BY <1>1, <1>7, <1>8, UpTo
<1>10. v[N].ret = 0 /\ Overlaid(w[N].config, v[N].config, c)
  BY <1>1, <1>9 DEF T
<1> QED BY <1>5, <1>10

(* So does what is given for an entry.                                     *)
LEMMA ApplyGrows ==
    ASSUME NEW c, TreeOK(c), NEW e, e.path \in Seq(Tokens), NEW text \in Texts,
           Apply(c, e, text).ret = 0
    PROVE  Within(c, Apply(c, e, text).config)
<1>1. CASE e.type \in Scalars
  <2> DEFINE val == ValueOf[e.type][text]
             d   == Set(c, e.path, e.type, val)
  <2>1. Apply(c, e, text) = IF val = NULL THEN Outcome(-1, c) ELSE d
    BY <1>1 DEF Apply, Scalars
  <2>2. val # NULL
    BY <2>1 DEF Outcome
  <2>3. val \in Values /\ d.ret = 0
    BY <1>1, <2>1, <2>2, InitAssumption
  <2>4. Left(c, d.config, e.path, e.type, val)
    <3> HIDE DEF val
    <3> QED BY <2>3, SetLeaves
  <2> QED BY <2>1, <2>2, <2>4 DEF Left
<1>2. CASE e.type = "yaml_file"
  <2> DEFINE read == ReadFile(c, text)
             d    == Set(read.config, e.path, "str", text)
  <2>1. Apply(c, e, text) = IF read.ret = -1 THEN read ELSE d
    BY <1>2 DEF Apply, Scalars
  <2>2. Sound(read) /\ text \in Values
    BY ReadFileSound, InitAssumption
  <2>3. read.ret = 0 /\ d.ret = 0 /\ TreeOK(read.config)
    BY <2>1, <2>2 DEF Sound
  <2>4. Within(c, read.config)
    BY <2>3, ReadGrows
  <2>5. Left(read.config, d.config, e.path, "str", text)
    <3> HIDE DEF read
    <3> QED BY <2>2, <2>3, SetLeaves
  <2> HIDE DEF read, d
  <2> QED BY <2>1, <2>3, <2>4, <2>5 DEF Left, Within
<1>3. CASE e.type \notin Scalars /\ e.type # "yaml_file"
  BY <1>3 DEF Apply, Outcome
<1> QED BY <1>1, <1>2, <1>3

(* What is given again for an entry.                                       *)
LEMMA ApplyOverlaid ==
    ASSUME NEW f, NEW g, NEW c, Overlaid(f, g, c),
           NEW e, e.path \in Seq(Tokens), NEW text \in Texts,
           Apply(f, e, text).ret = 0, Within(Apply(f, e, text).config, c)
    PROVE  /\ Apply(g, e, text).ret = 0
           /\ Overlaid(Apply(f, e, text).config, Apply(g, e, text).config, c)
<1>1. CASE e.type \in Scalars
  <2> DEFINE val == ValueOf[e.type][text]
  <2>1. /\ Apply(f, e, text) = IF val = NULL THEN Outcome(-1, f)
                               ELSE Set(f, e.path, e.type, val)
        /\ Apply(g, e, text) = IF val = NULL THEN Outcome(-1, g)
                               ELSE Set(g, e.path, e.type, val)
    BY <1>1 DEF Apply, Scalars
  <2>2. val # NULL
    BY <2>1 DEF Outcome
  <2>3. val \in Values
    BY <1>1, <2>2, InitAssumption
  <2> HIDE DEF val
  <2> QED BY <2>1, <2>2, <2>3, SetOverlaid
<1>2. CASE e.type = "yaml_file"
  <2> DEFINE rf == ReadFile(f, text)
             rg == ReadFile(g, text)
             df == Set(rf.config, e.path, "str", text)
             dg == Set(rg.config, e.path, "str", text)
  <2>1. /\ Apply(f, e, text) = IF rf.ret = -1 THEN rf ELSE df
        /\ Apply(g, e, text) = IF rg.ret = -1 THEN rg ELSE dg
    BY <1>2 DEF Apply, Scalars
  <2>2. Sound(rf) /\ text \in Values
    BY ReadFileSound, InitAssumption DEF Overlaid
  <2>3. rf.ret = 0 /\ df.ret = 0 /\ TreeOK(rf.config) /\ Within(df.config, c)
    BY <2>1, <2>2 DEF Sound
  <2>4. Left(rf.config, df.config, e.path, "str", text)
    <3> HIDE DEF rf
    <3> QED BY <2>2, <2>3, SetLeaves
  <2>5. Within(rf.config, c)
    BY <2>3, <2>4 DEF Left, Within
  <2>6. rg.ret = 0 /\ Overlaid(rf.config, rg.config, c)
    BY <2>3, <2>5, ReadOverlaid
  <2>7. dg.ret = 0 /\ Overlaid(df.config, dg.config, c)
    <3> HIDE DEF rf, rg
    <3> QED BY <2>2, <2>3, <2>6, SetOverlaid
  <2> HIDE DEF rf, rg, df, dg
  <2> QED BY <2>1, <2>3, <2>6, <2>7
<1>3. CASE e.type \notin Scalars /\ e.type # "yaml_file"
  BY <1>3 DEF Apply, Outcome
<1> QED BY <1>1, <1>2, <1>3

(* What sconf_get finds in a tree, it finds in one that has more.          *)
LEMMA DescendStays ==
    ASSUME NEW f, NEW g, Within(f, g), NEW at \in Ats, at.place \in DOMAIN f,
           NEW token, NEW last, Descend(f, at, token, last).status = "found"
    PROVE  /\ Descend(g, at, token, last) = Descend(f, at, token, last)
           /\ Descend(f, at, token, last).place \in DOMAIN f
<1> DEFINE type  == f[at.place].type
           index == IF type = "array" /\ token \in Brackets
                    THEN Element(token, 0) ELSE at.index
           place == Append(at.place, IF type = "dict" THEN token ELSE index)
           after(c) ==
              IF type = "array" /\ token \in Brackets /\ IndexOf[token] < 0
              THEN At("error", <<>>, 0)
              ELSE IF type # "array" /\ token \in Brackets /\ ~last
              THEN At("missing", <<>>, 0)
              ELSE IF type \notin Containers \/ (type = "dict" /\ token = NULL)
              THEN At("error", <<>>, 0)
              ELSE IF place \notin DOMAIN c THEN At("missing", <<>>, 0)
              ELSE At("found", place, index)
<1>1. Descend(f, at, token, last) = after(f)
  BY DEF Descend
<1>2. g[at.place].type = type /\ at.place \in DOMAIN g
  BY DEF Within
<1>3. Descend(g, at, token, last) = after(g)
  BY <1>2 DEF Descend
<1> HIDE DEF type, index, place
<1>4. place \in DOMAIN f /\ after(f) = At("found", place, index)
  BY <1>1 DEF At
<1>5. place \in DOMAIN g
  BY <1>4 DEF Within
<1>6. after(g) = after(f)
  BY <1>4, <1>5
<1>7. At("found", place, index).place = place
  BY DEF At
<1> QED BY <1>1, <1>3, <1>4, <1>6, <1>7

(* With the place it is found at.                                          *)
LEMMA FoundStays ==
    ASSUME NEW f, TreeOK(f), NEW g, TreeOK(g), Within(f, g),
           NEW path \in Seq(Tokens), Find(f, path).status = "found"
    PROVE  Find(g, path) = Find(f, path) /\ Find(f, path).place \in DOMAIN f
<1> DEFINE n == Len(Steps(path))
<1>1. n \in Nat \ {0}
  BY StepsType
<1>2. PICK w : /\ w[0] = At("found", <<>>, 0)
               /\ \A i \in 1 .. n :
                     w[i] = IF w[i - 1].status # "found" THEN w[i - 1]
                            ELSE Descend(f, w[i - 1], Steps(path)[i], i = n)
               /\ Find(f, path) = w[n]
  BY FindDef
<1>3. PICK v : /\ v[0] = At("found", <<>>, 0)
               /\ \A i \in 1 .. n :
                     v[i] = IF v[i - 1].status # "found" THEN v[i - 1]
                            ELSE Descend(g, v[i - 1], Steps(path)[i], i = n)
               /\ Find(g, path) = v[n]
  BY FindDef
<1> HIDE DEF n
<1> DEFINE T == {i \in 0 .. n : w[i] \in Ats /\ (w[i].status = "found" =>
                                   v[i] = w[i] /\ w[i].place \in DOMAIN f)}
<1>4. 0 \in T
  <2>1. <<>> \in DOMAIN f /\ <<>> \in Seq(Keys) /\ 0 \in Int
    BY DEF TreeOK
  <2>2. w[0] \in Ats /\ w[0].place = <<>>
    BY <1>2, <2>1 DEF At, Ats
  <2> QED BY <1>1, <1>2, <1>3, <2>1, <2>2
<1>5. ASSUME NEW i \in 0 .. n - 1, i \in T PROVE i + 1 \in T
  <2> DEFINE at == w[i]
             token == Steps(path)[i + 1]
             last == i + 1 = n
  <2>1. /\ i + 1 \in 1 .. n /\ i + 1 \in 0 .. n /\ (i + 1) - 1 = i /\ at \in Ats
        /\ at.status = "found" => v[i] = at /\ at.place \in DOMAIN f
    BY <1>1, <1>5
  <2>2. /\ w[i + 1] = IF at.status # "found" THEN at ELSE Descend(f, at, token, last)
        /\ v[i + 1] = IF v[i].status # "found" THEN v[i]
                      ELSE Descend(g, v[i], token, last)
    BY <1>2, <1>3, <2>1
  <2> HIDE DEF at, token, last
  <2>3. CASE at.status # "found"
    BY <2>1, <2>2, <2>3
  <2>4. CASE at.status = "found"
    <3>1. w[i + 1] \in Ats
      BY <2>1, <2>2, <2>4, DescendType
    <3>2. ASSUME w[i + 1].status = "found"
          PROVE  v[i + 1] = w[i + 1] /\ w[i + 1].place \in DOMAIN f
      BY <2>1, <2>2, <2>4, <3>2, DescendStays
    <3> QED BY <2>1, <3>1, <3>2
  <2> QED BY <2>3, <2>4
<1> HIDE DEF T
<1>6. \A i \in 0 .. n : i \in T
  BY <1>1, <1>4, <1>5, UpTo
<1>7. n \in T
  BY <1>1, <1>6
<1> QED BY <1>2, <1>3, <1>7 DEF T

(* And what it cannot find for its path, it finds in no tree.              *)
LEMMA UnfindableMissing ==
    ASSUME NEW c, TreeOK(c), NEW path \in Seq(Tokens), Unfindable(path)
    PROVE  Find(c, path).status = "missing"
<1> DEFINE n == Len(Steps(path))
<1>1. n = Len(path) /\ Steps(path) = path /\ n \in Nat /\ n > 1 /\ path[1] \in Brackets
  BY DEF Unfindable, Hidden, Steps
<1>2. PICK w : /\ w[0] = At("found", <<>>, 0)
               /\ \A i \in 1 .. n :
                     w[i] = IF w[i - 1].status # "found" THEN w[i - 1]
                            ELSE Descend(c, w[i - 1], Steps(path)[i], i = n)
               /\ Find(c, path) = w[n]
  BY FindDef
<1> HIDE DEF n
<1> DEFINE T == {i \in 0 .. n : i # 0 => w[i].status = "missing"}
<1>3. 0 \in T
  BY <1>1
<1>4. ASSUME NEW i \in 0 .. n - 1, i \in T PROVE i + 1 \in T
  <2>1. i + 1 \in 1 .. n /\ i + 1 \in 0 .. n /\ (i + 1) - 1 = i
    BY <1>1
  <2>2. w[i + 1] = IF w[i].status # "found" THEN w[i]
                   ELSE Descend(c, w[i], Steps(path)[i + 1], i + 1 = n)
    BY <1>2, <2>1
  <2>3. CASE i = 0
    <3> DEFINE at == At("found", <<>>, 0)
               last == 1 = n
    <3>1. 1 \in 1 .. n /\ w[1] = IF w[0].status # "found" THEN w[0]
                                 ELSE Descend(c, w[0], Steps(path)[1], 1 = n)
      BY <1>2, <2>1, <2>3
    <3>2. w[1] = Descend(c, at, path[1], last)
      BY <1>1, <1>2, <3>1 DEF At
    <3>3. ~last /\ at.place = <<>> /\ c[<<>>].type = "dict"
      BY <1>1 DEF At, TreeOK
    <3> HIDE DEF at, last
    <3>4. Descend(c, at, path[1], last) = At("missing", <<>>, 0)
      BY <1>1, <3>3 DEF Descend
    <3> QED BY <2>1, <2>3, <3>2, <3>4 DEF At
  <2>4. CASE i # 0
    BY <1>4, <2>1, <2>2, <2>4
  <2> QED BY <2>3, <2>4
<1> HIDE DEF T
<1>5. \A i \in 0 .. n : i \in T
  BY <1>1, <1>3, <1>4, UpTo
<1>6. n \in T /\ n # 0
  BY <1>1, <1>5
<1> QED BY <1>2, <1>6 DEF T

(* A path that can be found is found where a set has been made.            *)
LEMMA SetIsFound ==
    ASSUME NEW c, TreeOK(c), NEW path \in Seq(Tokens),
           path # NULL, ~Unfindable(path), NEW type, NEW val \in Values,
           Set(c, path, type, val).ret = 0,
           NEW g, TreeOK(g), Within(Set(c, path, type, val).config, g)
    PROVE  /\ Find(g, path).status = "found"
           /\ Find(g, path).place = PlaceOf(g, path, Len(Steps(path)))
           /\ g[Find(g, path).place].type = type
<1> DEFINE d == Set(c, path, type, val).config
           n == Len(Steps(path))
<1>1. Left(c, d, path, type, val)
  BY SetLeaves
<1>2. Set(g, path, type, val).ret = 0
  <2> HIDE DEF d
  <2> QED BY <1>1, SetAgain DEF d
<1>3. Settable(g, path, type)
  BY <1>2 DEF Set, Outcome
<1>4. PlaceOf(g, path, n) = PlaceOf(c, path, n)
  BY SamePlaces
<1>5. n \in 1 .. n /\ TypeAt(path, type, n) = type
  BY StepsType DEF TypeAt
<1> HIDE DEF n, d
<1>6. PlaceOf(c, path, n) \in DOMAIN d /\ d[PlaceOf(c, path, n)].type = type
  BY <1>1, <1>5 DEF Left, n
<1>7. PlaceOf(g, path, n) \in DOMAIN g /\ g[PlaceOf(g, path, n)].type = type
  BY <1>4, <1>6 DEF Within, d
<1>8. /\ Find(g, path).status = "found"
      /\ Find(g, path).place = PlaceOf(g, path, n)
  BY <1>3, <1>7, SettableIsFound DEF n
<1> QED BY <1>7, <1>8 DEF n

PresentIn(c, e) ==
    IF e.type \in {"str", "yaml_file"} THEN FindTyped(c, e.path, "str").status
                                        ELSE Find(c, e.path).status

(* The default of an entry, whose turn leads from c to d.                  *)
Defaulted(c, e, d) ==
    \/ PresentIn(c, e) = "found" /\ d = c
    \/ /\ PresentIn(c, e) = "missing"
       /\ Apply(c, e, e.default).ret = 0
       /\ d = Apply(c, e, e.default).config

(* When that of a scalar comes again: what was there is there, what was    *)
(* set is there now, and what cannot be found is set again.                *)
LEMMA DefaultOverlaid ==
    ASSUME NEW f, NEW g, NEW c, Overlaid(f, g, c),
           NEW e, e.path # NULL, e.path \in Seq(Tokens), e.type \in Scalars,
           e.default \in Texts, NEW d, Defaulted(f, e, d), Within(d, c)
    PROVE  \E h : Defaulted(g, e, h) /\ Overlaid(d, h, c)
<1>0. TreeOK(f) /\ TreeOK(g) /\ TreeOK(c) /\ Within(f, g)
  BY DEF Overlaid, Within
<1>1. CASE PresentIn(f, e) = "found" /\ d = f
  <2>1. /\ Find(f, e.path).status = "found"
        /\ e.type = "str" => f[Find(f, e.path).place].type = "str"
    BY <1>1 DEF PresentIn, FindTyped, At, Scalars
  <2>2. Find(g, e.path) = Find(f, e.path) /\ Find(f, e.path).place \in DOMAIN f
    BY <1>0, <2>1, FoundStays
  <2>3. g[Find(f, e.path).place].type = f[Find(f, e.path).place].type
    BY <1>0, <2>2 DEF Within
  <2>4. PresentIn(g, e) = "found"
    BY <2>1, <2>2, <2>3 DEF PresentIn, FindTyped, Scalars
  <2> QED BY <1>1, <2>4 DEF Defaulted
<1>2. CASE /\ PresentIn(f, e) = "missing"
           /\ Apply(f, e, e.default).ret = 0
           /\ d = Apply(f, e, e.default).config
  <2>1. Find(f, e.path).status = "missing"
    BY <1>2 DEF PresentIn, FindTyped, At
  <2>2. CASE Unfindable(e.path)
    <3>1. Find(g, e.path).status = "missing"
      BY <1>0, <2>2, UnfindableMissing
    <3>2. PresentIn(g, e) = "missing"
      BY <3>1 DEF PresentIn, FindTyped
    <3>3. Within(Apply(f, e, e.default).config, c)
      BY <1>2
    <3>4. /\ Apply(g, e, e.default).ret = 0
          /\ Overlaid(Apply(f, e, e.default).config, Apply(g, e, e.default).config, c)
      BY <1>2, <3>3, ApplyOverlaid
    <3> QED BY <1>2, <3>2, <3>4 DEF Defaulted
  <2>3. CASE ~Unfindable(e.path)
    <3> DEFINE val == ValueOf[e.type][e.default]
               s   == Set(f, e.path, e.type, val)
    <3>1. Apply(f, e, e.default) = IF val = NULL THEN Outcome(-1, f) ELSE s
      BY DEF Apply, Scalars
    <3>2. val # NULL
      BY <1>2, <3>1 DEF Outcome
    <3>3. val \in Values /\ s.ret = 0 /\ s.config = d
      BY <1>2, <3>1, <3>2, InitAssumption
    <3> HIDE DEF val
    <3>4. Within(d, g)
      BY <1>0 DEF Overlaid, Within
    <3>5. /\ Find(g, e.path).status = "found"
          /\ g[Find(g, e.path).place].type = e.type
      BY <1>0, <2>3, <3>3, <3>4, SetIsFound
    <3>6. PresentIn(g, e) = "found"
      BY <3>5 DEF PresentIn, FindTyped, Scalars
    <3>7. Adds(f, d) /\ TreeOK(d)
      BY <1>0, <2>1, <2>3, <3>3, SetMissingAdds, SetTree
    <3>8. Overlaid(d, g, c)
      BY <3>7 DEF Overlaid, Adds
    <3> QED BY <3>6, <3>8 DEF Defaulted
  <2> QED BY <2>2, <2>3
<1> QED BY <1>1, <1>2 DEF Defaulted

(* A call takes turns: one for each option, then one for each entry whose  *)
(* variable is read, then one for each entry whose default is applied.     *)
OptOutcome(c, e, text) ==
    IF text # NULL THEN Apply(c, e, text)
    ELSE IF e.type = "bool" THEN Set(c, e.path, "bool", TRUEVALUE)
    ELSE Outcome(-1, c)

Gives(o, d) == o.ret = 0 /\ d = o.config

OptTurn(o, c, d) ==
    LET e == map[EntryOf(o)]
    IN  /\ ~Bad(o)
        /\ \/ Usage(e) /\ e.usage /\ d = c
           \/ ~Usage(e) /\ Gives(OptOutcome(c, e, o.text), d)

EnvTurn(i, c, d) ==
    LET e == map[i]
    IN  \/ ~e.env /\ d = c
        \/ e.env /\ e.path # NULL /\ env[i] = NULL /\ d = c
        \/ e.env /\ e.path # NULL /\ env[i] # NULL /\ Gives(Apply(c, e, env[i]), d)

DefTurn(i, c, d) ==
    LET e == map[i]
    IN  \/ e.default = NULL /\ d = c
        \/ /\ e.default # NULL /\ e.path # NULL
           /\ e.type \in OptionTypes \ {"usage"}
           /\ Defaulted(c, e, d)

(* Without an option in the map the command line is not looked at.         *)
Skipped == (opts = <<>> /\ ~extra) \/ Shorts = {}

OptTurns == IF Skipped THEN 0 ELSE Len(opts)

Total == OptTurns + 2 * Len(map)

Turn(k, c, d) ==
    IF k <= OptTurns THEN OptTurn(opts[k], c, d)
    ELSE IF k <= OptTurns + Len(map) THEN EnvTurn(k - OptTurns, c, d)
    ELSE DefTurn(k - OptTurns - Len(map), c, d)

(* How many turns the call has taken.                                      *)
Done ==
    CASE phase = "opts"     -> 0
      [] phase = "getopt"   -> pos - 1
      [] phase = "env"      -> OptTurns + pos - 1
      [] phase = "defaults" -> OptTurns + Len(map) + pos - 1
      [] OTHER              -> Total

NoFileDefault ==
    \A i \in DOMAIN map : ~(map[i].type = "yaml_file" /\ map[i].default # NULL)

(* A turn leads to one configuration.                                      *)
LEMMA TurnOnce ==
    ASSUME NEW k, NEW c, NEW d, NEW h, Turn(k, c, d), Turn(k, c, h)
    PROVE  d = h
<1>1. \A o : OptTurn(o, c, d) /\ OptTurn(o, c, h) => d = h
  BY DEF OptTurn, Gives
<1>2. \A i : EnvTurn(i, c, d) /\ EnvTurn(i, c, h) => d = h
  BY DEF EnvTurn, Gives
<1>3. \A i : DefTurn(i, c, d) /\ DefTurn(i, c, h) => d = h
  BY DEF DefTurn, Defaulted
<1> QED BY <1>1, <1>2, <1>3 DEF Turn

(* What an option gives is sound, grows, and is given again.               *)
LEMMA OptOutcomeFacts ==
    ASSUME NEW c, TreeOK(c), NEW e, e.path \in Seq(Tokens),
           NEW text, text # NULL => text \in Texts
    PROVE  /\ TreeOK(OptOutcome(c, e, text).config)
           /\ OptOutcome(c, e, text).ret = 0 => Within(c, OptOutcome(c, e, text).config)
<1>0. TRUEVALUE \in Values
  BY InitAssumption
<1>1. CASE text # NULL
  BY <1>1, ApplySound, ApplyGrows DEF OptOutcome, Sound
<1>2. CASE text = NULL /\ e.type = "bool"
  <2>1. OptOutcome(c, e, text) = Set(c, e.path, "bool", TRUEVALUE)
    BY <1>2 DEF OptOutcome
  <2>2. ASSUME Set(c, e.path, "bool", TRUEVALUE).ret = 0
        PROVE  Within(c, Set(c, e.path, "bool", TRUEVALUE).config)
    <3>1. Left(c, Set(c, e.path, "bool", TRUEVALUE).config, e.path, "bool", TRUEVALUE)
      BY <1>0, <2>2, SetLeaves
    <3> QED BY <3>1 DEF Left
  <2>3. TreeOK(Set(c, e.path, "bool", TRUEVALUE).config)
    BY <1>0, SetTree
  <2> QED BY <2>1, <2>2, <2>3
<1>3. CASE text = NULL /\ e.type # "bool"
  BY <1>3 DEF OptOutcome, Outcome
<1> QED BY <1>1, <1>2, <1>3

(* What an option gives again.                                             *)
LEMMA OptOutcomeOverlaid ==
    ASSUME NEW f, NEW g, NEW c, Overlaid(f, g, c),
           NEW e, e.path \in Seq(Tokens), NEW text, text # NULL => text \in Texts,
           OptOutcome(f, e, text).ret = 0,
           Within(OptOutcome(f, e, text).config, c)
    PROVE  /\ OptOutcome(g, e, text).ret = 0
           /\ Overlaid(OptOutcome(f, e, text).config, OptOutcome(g, e, text).config, c)
<1>1. CASE text # NULL
  <2>1. /\ OptOutcome(f, e, text) = Apply(f, e, text)
        /\ OptOutcome(g, e, text) = Apply(g, e, text)
        /\ text \in Texts
    BY <1>1 DEF OptOutcome
  <2> QED BY <2>1, ApplyOverlaid
<1>2. CASE text = NULL /\ e.type = "bool"
  <2>1. /\ OptOutcome(f, e, text) = Set(f, e.path, "bool", TRUEVALUE)
        /\ OptOutcome(g, e, text) = Set(g, e.path, "bool", TRUEVALUE)
        /\ TRUEVALUE \in Values
    BY <1>2, InitAssumption DEF OptOutcome
  <2> QED BY <2>1, SetOverlaid
<1>3. CASE text = NULL /\ e.type # "bool"
  BY <1>3 DEF OptOutcome, Outcome
<1> QED BY <1>1, <1>2, <1>3

(* Where a turn is that of an option, an entry's variable or its default.  *)
LEMMA TurnKinds ==
    ASSUME TInv, NEW k \in 1 .. Total
    PROVE  /\ OptTurns \in Nat /\ Len(map) \in Nat
           /\ \/ /\ k <= OptTurns /\ ~Skipped /\ k \in DOMAIN opts
                 /\ \A c, d : Turn(k, c, d) <=> OptTurn(opts[k], c, d)
              \/ \E i \in DOMAIN map : \A c, d : Turn(k, c, d) <=> EnvTurn(i, c, d)
              \/ \E i \in DOMAIN map : \A c, d : Turn(k, c, d) <=> DefTurn(i, c, d)
<1>1. /\ OptTurns \in Nat /\ Len(map) \in Nat
      /\ DOMAIN map = 1 .. Len(map) /\ DOMAIN opts = 1 .. Len(opts)
      /\ k <= OptTurns => ~Skipped /\ OptTurns = Len(opts)
  BY DEF TInv, Steady, MapFacts, ArgumentFacts, OptTurns
<1>5. k \in Nat /\ k >= 1 /\ k <= OptTurns + 2 * Len(map)
  <2> DEFINE T == Total
             m == OptTurns
             n == Len(map)
  <2>1. m \in Nat /\ n \in Nat /\ T = m + 2 * n /\ k \in 1 .. T
    BY <1>1 DEF Total
  <2> HIDE DEF T, m, n
  <2>2. k \in Nat /\ k >= 1 /\ k <= m + 2 * n
    BY <2>1
  <2> QED BY <2>2 DEF m, n
<1>2. CASE k <= OptTurns
  <2>1. k \in DOMAIN opts
    BY <1>1, <1>2
  <2>2. \A c, d : Turn(k, c, d) <=> OptTurn(opts[k], c, d)
    BY <1>2 DEF Turn
  <2> QED BY <1>1, <1>2, <2>1, <2>2
<1>3. CASE ~(k <= OptTurns) /\ k <= OptTurns + Len(map)
  <2>1. k - OptTurns \in DOMAIN map
    <3> DEFINE m == OptTurns
               n == Len(map)
    <3>1. /\ m \in Nat /\ n \in Nat /\ k \in Nat /\ ~(k <= m) /\ k <= m + n
          /\ DOMAIN map = 1 .. n
      BY <1>1, <1>3, <1>5
    <3> HIDE DEF m, n
    <3>2. k - m \in 1 .. n
      BY <3>1
    <3> QED BY <3>1, <3>2 DEF m
  <2>2. \A c, d : Turn(k, c, d) <=> EnvTurn(k - OptTurns, c, d)
    BY <1>3 DEF Turn
  <2> QED BY <1>1, <2>1, <2>2
<1>4. CASE ~(k <= OptTurns + Len(map))
  <2>1. k - OptTurns - Len(map) \in DOMAIN map /\ ~(k <= OptTurns)
    <3> DEFINE m == OptTurns
               n == Len(map)
    <3>1. /\ m \in Nat /\ n \in Nat /\ k \in Nat /\ ~(k <= m + n)
          /\ k <= m + 2 * n /\ DOMAIN map = 1 .. n
      BY <1>1, <1>4, <1>5
    <3> HIDE DEF m, n
    <3>2. k - m - n \in 1 .. n /\ ~(k <= m)
      BY <3>1
    <3> QED BY <3>1, <3>2 DEF m, n
  <2>2. \A c, d : Turn(k, c, d) <=> DefTurn(k - OptTurns - Len(map), c, d)
    BY <1>4, <2>1 DEF Turn
  <2> QED BY <1>1, <2>1, <2>2
<1> QED BY <1>2, <1>3, <1>4

(* What the turns use of the map and of the command line.                  *)
LEMMA TurnInputs ==
    ASSUME TInv
    PROVE  /\ \A i \in DOMAIN map :
                 /\ map[i].path # NULL => map[i].path \in Seq(Tokens)
                 /\ map[i].default # NULL => map[i].default \in Texts
                 /\ env[i] # NULL => env[i] \in Texts
           /\ \A n \in DOMAIN opts : opts[n].text # NULL => opts[n].text \in Texts
BY DEF TInv, Steady, MapFacts, ArgumentFacts

(* A turn leads from a tree to a tree that has what was there.             *)
LEMMA TurnGrows ==
    ASSUME TInv, ~Skipped => IndexCreated, NEW k \in 1 .. Total,
           NEW c, TreeOK(c), NEW d, Turn(k, c, d)
    PROVE  TreeOK(d) /\ Within(c, d)
<1>0. Within(c, c)
  BY DEF Within
<1>1. ASSUME NEW i \in DOMAIN map, map[i].path # NULL, NEW text \in Texts,
             Gives(Apply(c, map[i], text), d)
      PROVE  TreeOK(d) /\ Within(c, d)
  <2>1. map[i].path \in Seq(Tokens)
    BY <1>1, TurnInputs
  <2> QED BY <1>1, <2>1, ApplySound, ApplyGrows DEF Sound, Gives
<1>2. ASSUME k \in DOMAIN opts, ~Skipped, OptTurn(opts[k], c, d)
      PROVE  TreeOK(d) /\ Within(c, d)
  <2> DEFINE o == opts[k]
             e == map[EntryOf(o)]
  <2>1. ~Bad(o) /\ (o.text # NULL => o.text \in Texts)
    BY <1>2, TurnInputs DEF OptTurn
  <2>2. CASE ~Usage(e)
    <3>1. e.path \in Seq(Tokens)
      BY <1>2, <2>1, <2>2, KnownEntry
    <3>2. Gives(OptOutcome(c, e, o.text), d)
      BY <1>2, <2>2 DEF OptTurn
    <3> HIDE DEF o, e
    <3> QED BY <2>1, <3>1, <3>2, OptOutcomeFacts DEF Gives
  <2> QED BY <1>0, <1>2, <2>2 DEF OptTurn
<1>3. ASSUME NEW i \in DOMAIN map, EnvTurn(i, c, d)
      PROVE  TreeOK(d) /\ Within(c, d)
  <2>1. CASE /\ map[i].path # NULL /\ env[i] # NULL
             /\ Gives(Apply(c, map[i], env[i]), d)
    BY <1>1, <2>1, TurnInputs
  <2> QED BY <1>0, <1>3, <2>1 DEF EnvTurn
<1>4. ASSUME NEW i \in DOMAIN map, DefTurn(i, c, d)
      PROVE  TreeOK(d) /\ Within(c, d)
  <2>1. CASE /\ map[i].path # NULL /\ map[i].default # NULL
             /\ Gives(Apply(c, map[i], map[i].default), d)
    BY <1>1, <2>1, TurnInputs
  <2> QED BY <1>0, <1>4, <2>1 DEF DefTurn, Defaulted, Gives
<1> QED BY <1>2, <1>3, <1>4, TurnKinds

(* A turn of the first call can be taken in the second, and what it leads  *)
(* to is still overlaid.                                                   *)
LEMMA TurnAgain ==
    ASSUME TInv, NoFileDefault, ~Skipped => IndexCreated, NEW k \in 1 .. Total,
           NEW f, NEW g, NEW c, Overlaid(f, g, c),
           NEW d, Turn(k, f, d), Within(d, c)
    PROVE  \E h : Turn(k, g, h) /\ Overlaid(d, h, c)
<1>1. ASSUME NEW i \in DOMAIN map, map[i].path # NULL, NEW text \in Texts,
             Gives(Apply(f, map[i], text), d)
      PROVE  \E h : Gives(Apply(g, map[i], text), h) /\ Overlaid(d, h, c)
  <2>1. map[i].path \in Seq(Tokens)
    BY <1>1, TurnInputs
  <2>2. /\ Apply(f, map[i], text).ret = 0
        /\ Within(Apply(f, map[i], text).config, c)
    BY <1>1 DEF Gives
  <2>3. /\ Apply(g, map[i], text).ret = 0
        /\ Overlaid(Apply(f, map[i], text).config, Apply(g, map[i], text).config, c)
    BY <2>1, <2>2, ApplyOverlaid
  <2> QED BY <1>1, <2>3 DEF Gives
<1>2. ASSUME k \in DOMAIN opts, ~Skipped, OptTurn(opts[k], f, d)
      PROVE  \E h : OptTurn(opts[k], g, h) /\ Overlaid(d, h, c)
  <2> DEFINE o == opts[k]
             e == map[EntryOf(o)]
  <2>1. ~Bad(o) /\ (o.text # NULL => o.text \in Texts)
    BY <1>2, TurnInputs DEF OptTurn
  <2>2. CASE ~Usage(e)
    <3>1. e.path \in Seq(Tokens)
      BY <1>2, <2>1, <2>2, KnownEntry
    <3>2. Gives(OptOutcome(f, e, o.text), d)
      BY <1>2, <2>2 DEF OptTurn
    <3> DEFINE text == o.text
               of   == OptOutcome(f, e, text)
               og   == OptOutcome(g, e, text)
    <3>3. of.ret = 0 /\ of.config = d /\ Within(of.config, c)
          /\ (text # NULL => text \in Texts)
      BY <2>1, <3>2 DEF Gives
    <3>4. og.ret = 0 /\ Overlaid(of.config, og.config, c)
      <4> HIDE DEF e, text
      <4> QED BY <3>1, <3>3, OptOutcomeOverlaid
    <3>5. Gives(OptOutcome(g, e, o.text), og.config)
      BY <3>4 DEF Gives
    <3>6. OptTurn(opts[k], g, og.config)
      BY <2>1, <2>2, <3>5 DEF OptTurn
    <3> QED BY <3>3, <3>4, <3>6
  <2>3. CASE Usage(e)
    BY <1>2, <2>3 DEF OptTurn
  <2> QED BY <2>2, <2>3
<1>3. ASSUME NEW i \in DOMAIN map, EnvTurn(i, f, d)
      PROVE  \E h : EnvTurn(i, g, h) /\ Overlaid(d, h, c)
  <2>1. CASE /\ map[i].env /\ map[i].path # NULL /\ env[i] # NULL
             /\ Gives(Apply(f, map[i], env[i]), d)
    <3>1. env[i] \in Texts
      BY <2>1, TurnInputs
    <3>2. PICK h : Gives(Apply(g, map[i], env[i]), h) /\ Overlaid(d, h, c)
      BY <1>1, <2>1, <3>1
    <3> QED BY <2>1, <3>2 DEF EnvTurn
  <2> QED BY <1>3, <2>1 DEF EnvTurn
<1>4. ASSUME NEW i \in DOMAIN map, DefTurn(i, f, d)
      PROVE  \E h : DefTurn(i, g, h) /\ Overlaid(d, h, c)
  <2>1. CASE /\ map[i].default # NULL /\ map[i].path # NULL
             /\ map[i].type \in OptionTypes \ {"usage"} /\ Defaulted(f, map[i], d)
    <3> DEFINE e == map[i]
    <3>1. e.path # NULL /\ e.path \in Seq(Tokens) /\ e.default \in Texts
      BY <2>1, TurnInputs
    <3>2. PICK h : Defaulted(g, e, h) /\ Overlaid(d, h, c)
      <4>1. e.type \in Scalars /\ Defaulted(f, e, d)
        BY <2>1 DEF NoFileDefault, OptionTypes
      <4> HIDE DEF e
      <4> QED BY <3>1, <4>1, DefaultOverlaid
    <3> QED BY <2>1, <3>2 DEF DefTurn
  <2> QED BY <1>4, <2>1 DEF DefTurn
<1> HIDE DEF Turn, OptTurn, EnvTurn, DefTurn
<1> QED BY <1>2, <1>3, <1>4, TurnKinds

(* The configurations that k turns of a first call lead to.                *)
Trace(t, k) ==
    /\ t[0] = Empty("dict")
    /\ \A i \in 1 .. k : Turn(i, t[i - 1], t[i])
    /\ \A i \in 0 .. k : TreeOK(t[i]) /\ Within(t[i], t[k])

(* What validation asks of a configuration.                                *)
Valid(c) ==
    \A i \in 1 .. Len(map) :
        LET e     == map[i]
            found == Find(c, e.path)
        IN  /\ e.required => /\ e.path # NULL
                             /\ found.status = "found"
                             /\ c[found.place].type = e.type
            /\ e.validate => /\ e.path # NULL
                             /\ found.status # "error"
                             /\ IF found.status = "found" THEN c[found.place] \in Accepts
                                                          ELSE NULL \in Accepts

Tables == IndexCreated /\ LongCreated

(* What makes sconf_opts_parse succeed, but for the turns of its options.  *)
Prepared ==
    /\ (opts = <<>> /\ ~extra) \/ Tables
    /\ Skipped \/ ~extra

(* A first call that has not failed.                                       *)
FirstCall ==
    phase # "exit" /\ ~(phase = "done" /\ ret = -1) =>
        /\ \E t : Trace(t, Done) /\ t[Done] = config
        /\ phase = "getopt" => ~Skipped /\ Tables
        /\ phase \notin {"opts", "getopt"} => Prepared

(* What a first call that succeeds returns.                                *)
Returnable(c) ==
    /\ Prepared /\ Valid(c)
    /\ \E t : Trace(t, Total) /\ t[Total] = c

(* The second call goes the way of the first, turn by turn.                *)
SecondCall ==
    /\ phase # "exit" /\ (phase = "done" => ret = 0)
    /\ phase = "getopt" => ~Skipped
    /\ Prepared /\ Valid(first)
    /\ \E t : /\ Trace(t, Total) /\ t[Total] = first
              /\ Overlaid(t[Done], config, first)

AgainInv ==
    /\ runs = 0 => phase = "idle" /\ config = Empty("dict")
    /\ runs = 1 /\ phase = "idle" => config = first /\ Returnable(first)
    /\ runs = 1 /\ phase # "idle" => FirstCall
    /\ NoFileDefault /\ runs = 2 /\ phase # "idle" => SecondCall

(* All this is about the inputs, which stay.                               *)
LEMMA InputsStay ==
    ASSUME UNCHANGED inputs
    PROVE  /\ OptTurns' = OptTurns /\ Total' = Total
           /\ Skipped' = Skipped /\ Tables' = Tables /\ Prepared' = Prepared
           /\ NoFileDefault' = NoFileDefault
           /\ \A t, k : Trace(t, k)' = Trace(t, k)
           /\ \A c : Valid(c)' = Valid(c)
<1>1. map' = map /\ opts' = opts /\ extra' = extra /\ env' = env
  BY DEF inputs
<1>2. Shorts' = Shorts
  BY <1>1 DEF Shorts
<1>3. IndexCreated' = IndexCreated /\ LongCreated' = LongCreated
  BY <1>1, <1>2 DEF IndexCreated, LongCreated
<1>4. Skipped' = Skipped
  BY <1>1, <1>2 DEF Skipped
<1>5. OptTurns' = OptTurns /\ Total' = Total
  BY <1>1, <1>4 DEF OptTurns, Total
<1>6. Tables' = Tables /\ Prepared' = Prepared
  BY <1>1, <1>3, <1>4 DEF Tables, Prepared
<1>7. NoFileDefault' = NoFileDefault
  BY <1>1 DEF NoFileDefault
<1>8. \A o : EntryOf(o)' = EntryOf(o) /\ Bad(o)' = Bad(o)
  <2>1. \A o : EntryOf(o)' = EntryOf(o)
    BY <1>1, <1>2 DEF EntryOf
  <2> QED BY <1>1, <1>2, <2>1 DEF Bad, Known
<1>9. \A o, c, d : OptTurn(o, c, d)' = OptTurn(o, c, d)
  BY <1>1, <1>8 DEF OptTurn
<1>10. \A i, c, d : EnvTurn(i, c, d)' = EnvTurn(i, c, d)
  BY <1>1 DEF EnvTurn
<1>11. \A i, c, d : DefTurn(i, c, d)' = DefTurn(i, c, d)
  BY <1>1 DEF DefTurn
<1>12. \A k, c, d : Turn(k, c, d)' = Turn(k, c, d)
  BY <1>1, <1>5, <1>9, <1>10, <1>11 DEF Turn
<1>13. \A t, k : Trace(t, k)' = Trace(t, k)
  BY <1>12 DEF Trace
<1>14. \A c : Valid(c)' = Valid(c)
  BY <1>1 DEF Valid
<1> QED BY <1>4, <1>5, <1>6, <1>7, <1>13, <1>14

(* One more turn.                                                          *)
LEMMA TraceGrows ==
    ASSUME TInv, ~Skipped => IndexCreated, NEW k \in Nat, k + 1 \in 1 .. Total,
           NEW t, Trace(t, k), NEW d, Turn(k + 1, t[k], d)
    PROVE  \E s : Trace(s, k + 1) /\ s[k + 1] = d
<1> DEFINE s == [i \in 0 .. k + 1 |-> IF i = k + 1 THEN d ELSE t[i]]
<1>1. s[k + 1] = d /\ \A i \in 0 .. k : s[i] = t[i]
  OBVIOUS
<1>2. TreeOK(t[k]) /\ \A i \in 0 .. k : TreeOK(t[i]) /\ Within(t[i], t[k])
  BY DEF Trace
<1>3. TreeOK(d) /\ Within(t[k], d)
  BY <1>2, TurnGrows
<1> HIDE DEF s
<1>4. s[0] = Empty("dict")
  BY <1>1 DEF Trace
<1>5. ASSUME NEW i \in 1 .. k + 1 PROVE Turn(i, s[i - 1], s[i])
  <2>1. CASE i = k + 1
    <3>1. i - 1 = k /\ s[k] = t[k]
      BY <1>1, <2>1
    <3> QED BY <1>1, <2>1, <3>1
  <2>2. CASE i # k + 1
    <3>1. i \in 1 .. k /\ i - 1 \in 0 .. k /\ i \in 0 .. k
      BY <2>2
    <3>2. Turn(i, t[i - 1], t[i])
      BY <3>1 DEF Trace
    <3> QED BY <1>1, <3>1, <3>2
  <2> QED BY <2>1, <2>2
<1>6. ASSUME NEW i \in 0 .. k + 1 PROVE TreeOK(s[i]) /\ Within(s[i], s[k + 1])
  <2>1. CASE i = k + 1
    BY <1>1, <1>3, <2>1 DEF Within
  <2>2. CASE i # k + 1
    <3>1. i \in 0 .. k
      BY <2>2
    <3>2. TreeOK(t[i]) /\ Within(t[i], t[k])
      BY <1>2, <3>1
    <3> QED BY <1>1, <1>3, <3>1, <3>2 DEF Within
  <2> QED BY <2>1, <2>2
<1> QED BY <1>1, <1>4, <1>5, <1>6 DEF Trace

(* Whose turn it is in the loops.                                          *)
LEMMA WhoseTurn ==
    ASSUME TInv, InLoop, phase # "validate", phase = "getopt" => ~Skipped
    PROVE  /\ Done \in Nat /\ Done + 1 \in 1 .. Total
           /\ phase = "getopt" =>
                 \A c, d : Turn(Done + 1, c, d) <=> OptTurn(opts[pos], c, d)
           /\ phase = "env" =>
                 \A c, d : Turn(Done + 1, c, d) <=> EnvTurn(pos, c, d)
           /\ phase = "defaults" =>
                 \A c, d : Turn(Done + 1, c, d) <=> DefTurn(pos, c, d)
<1> DEFINE m == OptTurns
           n == Len(map)
<1>1. /\ m \in Nat /\ n \in Nat /\ Len(opts) \in Nat /\ pos \in Nat /\ pos >= 1
      /\ Total = m + 2 * n
      /\ ~Skipped => m = Len(opts)
  BY DEF TInv, Steady, MapFacts, ArgumentFacts, OptTurns, Total
<1>2. \A k, c, d : Turn(k, c, d)
         <=> IF k <= m THEN OptTurn(opts[k], c, d)
             ELSE IF k <= m + n THEN EnvTurn(k - m, c, d)
             ELSE DefTurn(k - m - n, c, d)
  BY DEF Turn
<1>3. CASE phase = "getopt"
  <2>1. Done = pos - 1 /\ pos <= m
    BY <1>1, <1>3 DEF Done, InLoop
  <2> HIDE DEF m, n
  <2>2. Done \in Nat /\ Done + 1 \in 1 .. Total /\ Done + 1 = pos /\ pos <= m
    BY <1>1, <2>1
  <2>3. \A c, d : Turn(Done + 1, c, d) <=> OptTurn(opts[pos], c, d)
    BY <1>2, <2>2
  <2> QED BY <1>3, <2>2, <2>3
<1>4. CASE phase = "env"
  <2>1. Done = m + pos - 1 /\ pos <= n
    BY <1>1, <1>4 DEF Done, InLoop
  <2> HIDE DEF m, n
  <2>2. /\ Done \in Nat /\ Done + 1 \in 1 .. Total /\ Done + 1 = m + pos
        /\ ~(m + pos <= m) /\ m + pos <= m + n /\ m + pos - m = pos
    BY <1>1, <2>1
  <2> DEFINE x == Done + 1
  <2>4. ~(x <= m) /\ x <= m + n /\ x - m = pos
    BY <1>1, <2>2
  <2> HIDE DEF x
  <2>5. \A c, d : Turn(x, c, d) <=> EnvTurn(x - m, c, d)
    BY <1>2, <2>4
  <2>3. \A c, d : Turn(Done + 1, c, d) <=> EnvTurn(pos, c, d)
    BY <2>4, <2>5 DEF x
  <2> QED BY <1>4, <2>2, <2>3
<1>5. CASE phase = "defaults"
  <2>1. Done = m + n + pos - 1 /\ pos <= n
    BY <1>1, <1>5 DEF Done, InLoop
  <2> HIDE DEF m, n
  <2>2. /\ Done \in Nat /\ Done + 1 \in 1 .. Total /\ Done + 1 = m + n + pos
        /\ ~(m + n + pos <= m) /\ ~(m + n + pos <= m + n) /\ m + n + pos - m - n = pos
    BY <1>1, <2>1
  <2> DEFINE x == Done + 1
  <2>4. ~(x <= m) /\ ~(x <= m + n) /\ x - m - n = pos
    BY <1>1, <2>2
  <2> HIDE DEF x
  <2>5. \A c, d : Turn(x, c, d) <=> DefTurn(x - m - n, c, d)
    BY <1>2, <2>4
  <2>3. \A c, d : Turn(Done + 1, c, d) <=> DefTurn(pos, c, d)
    BY <2>4, <2>5 DEF x
  <2> QED BY <1>5, <2>2, <2>3
<1> QED BY <1>3, <1>4, <1>5 DEF InLoop

(* The turn is taken, or the call fails and it could not be taken.         *)
Taken == phase' = phase /\ Done' = Done + 1 /\ Turn(Done + 1, config, config')

Stopped ==
    /\ phase' = "exit" \/ (phase' = "done" /\ ret' = -1)
    /\ \A d : ~Turn(Done + 1, config, d)

(* The loop goes on with the next turn.                                    *)
LEMMA MovesOn ==
    ASSUME TInv, InLoop, phase # "validate", phase = "getopt" => ~Skipped,
           UNCHANGED inputs, Continue
    PROVE  phase' = phase /\ Done' = Done + 1
<1>1. phase' = phase /\ pos' = pos + 1 /\ pos \in Nat
  BY DEF Continue, TInv, Steady
<1>2. map' = map /\ OptTurns' = OptTurns
  BY InputsStay DEF inputs
<1>3. OptTurns \in Nat /\ Len(map) \in Nat
  BY DEF TInv, Steady, MapFacts, ArgumentFacts, OptTurns
<1>4. phase \in {"getopt", "env", "defaults"}
  BY DEF InLoop
<1> HIDE DEF OptTurns
<1> QED BY <1>1, <1>2, <1>3, <1>4 DEF Done

(* What an outcome makes of the turn of the entry it is for.               *)
LEMMA AppliedTurn ==
    ASSUME TInv, InLoop, phase # "validate", phase = "getopt" => ~Skipped,
           NEW o, Sound(o), NEW i, Applied(o, i),
           \A d : Turn(Done + 1, config, d) <=> Gives(o, d)
    PROVE  UNCHANGED <<inputs, runs, first>> /\ (Taken \/ Stopped)
<1>1. UNCHANGED <<inputs, runs, first>>
  BY DEF Applied
<1>2. CASE o.ret = 0
  <2>1. Continue /\ config' = o.config
    BY <1>2 DEF Applied
  <2>2. phase' = phase /\ Done' = Done + 1
    BY <1>1, <2>1, MovesOn
  <2>3. Turn(Done + 1, config, config')
    BY <1>2, <2>1 DEF Gives
  <2> QED BY <1>1, <2>2, <2>3 DEF Taken
<1>3. CASE o.ret # 0
  <2>1. phase' = "done" /\ ret' = -1
    BY <1>3 DEF Applied, Return
  <2>2. \A d : ~Turn(Done + 1, config, d)
    BY <1>3 DEF Gives
  <2> QED BY <1>1, <2>1, <2>2 DEF Stopped
<1> QED BY <1>2, <1>3

(* A turn that gives nothing.                                              *)
LEMMA SkippedTurn ==
    ASSUME TInv, InLoop, phase # "validate", phase = "getopt" => ~Skipped,
           Continue, Quiet, Turn(Done + 1, config, config)
    PROVE  UNCHANGED <<inputs, runs, first>> /\ Taken
<1>1. UNCHANGED <<inputs, runs, first>> /\ config' = config
  BY DEF Quiet
<1>2. phase' = phase /\ Done' = Done + 1
  BY <1>1, MovesOn
<1> QED BY <1>1, <1>2 DEF Taken

(* A turn that could not be taken.                                         *)
LEMMA FailedTurn ==
    ASSUME Return(-1) \/ GoTo("exit"), Quiet, \A d : ~Turn(Done + 1, config, d)
    PROVE  UNCHANGED <<inputs, runs, first>> /\ Stopped
BY DEF Return, GoTo, Quiet, Stopped

(* Each step of a loop is a turn.                                          *)
LEMMA OptionTurn ==
    ASSUME TInv, OptBad \/ OptUsage \/ OptSet, ~Skipped
    PROVE  UNCHANGED <<inputs, runs, first>> /\ (Taken \/ Stopped)
<1> DEFINE o == opts[pos]
           i == EntryOf(o)
           e == map[i]
<1>1. /\ phase = "getopt" /\ InLoop /\ IndexCreated /\ pos \in DOMAIN opts
      /\ TreeOK(config)
  BY DEF OptBad, OptUsage, OptSet, InLoop, TInv, Steady, ArgumentFacts
<1>2. \A c, d : Turn(Done + 1, c, d) <=> OptTurn(o, c, d)
  BY <1>1, WhoseTurn
<1>3. CASE OptBad
  <2>1. \A d : ~OptTurn(o, config, d)
    BY <1>3 DEF OptBad, OptTurn
  <2> QED BY <1>2, <1>3, <2>1, FailedTurn DEF OptBad
<1>4. CASE OptUsage
  <2>1. ~Bad(o) /\ Usage(e) /\ Quiet
    BY <1>4 DEF OptUsage
  <2>2. CASE e.usage /\ Continue
    <3>1. OptTurn(o, config, config)
      BY <2>1, <2>2 DEF OptTurn
    <3>2. Turn(Done + 1, config, config)
      BY <1>2, <3>1
    <3> HIDE DEF o, i, e
    <3> QED BY <1>1, <2>1, <2>2, <3>2, SkippedTurn
  <2>3. CASE ~e.usage /\ GoTo("exit")
    <3>1. \A d : ~OptTurn(o, config, d)
      BY <2>1, <2>3 DEF OptTurn
    <3> QED BY <1>2, <2>1, <2>3, <3>1, FailedTurn
  <2> QED BY <1>4, <2>2, <2>3 DEF OptUsage
<1>5. CASE OptSet
  <2> DEFINE q == OptOutcome(config, e, o.text)
  <2>1. ~Bad(o) /\ ~Usage(e) /\ Applied(q, i)
    BY <1>5 DEF OptSet, OptOutcome
  <2>2. e.path \in Seq(Tokens) /\ (o.text # NULL => o.text \in Texts)
    BY <1>1, <2>1, KnownEntry, TurnInputs
  <2>3. \A d : OptTurn(o, config, d) <=> Gives(q, d)
    BY <2>1 DEF OptTurn
  <2>4. Sound(q)
    <3>1. o.text # NULL => Sound(Apply(config, e, o.text))
      BY <1>1, <2>2, ApplySound
    <3>2. Sound(Set(config, e.path, "bool", TRUEVALUE))
      BY <1>1, <2>2, SetTree, InitAssumption DEF Sound
    <3>3. Sound(Outcome(-1, config))
      BY <1>1 DEF Sound, Outcome
    <3> QED BY <3>1, <3>2, <3>3 DEF OptOutcome
  <2>5. \A d : Turn(Done + 1, config, d) <=> Gives(q, d)
    BY <1>2, <2>3
  <2> HIDE DEF o, i, e, q
  <2> QED BY <1>1, <2>1, <2>4, <2>5, AppliedTurn
<1> QED BY <1>3, <1>4, <1>5

(* One entry of the loop over the environment.                             *)
LEMMA EnvironmentTurn ==
    ASSUME TInv, EnvEntry
    PROVE  UNCHANGED <<inputs, runs, first>> /\ (Taken \/ Stopped)
<1> DEFINE e == map[pos]
           q == Apply(config, e, env[pos])
<1>1. /\ phase = "env" /\ InLoop /\ pos \in DOMAIN map /\ TreeOK(config)
  BY DEF EnvEntry, EntryIn, InLoop, TInv, Steady, MapFacts
<1>2. \A c, d : Turn(Done + 1, c, d) <=> EnvTurn(pos, c, d)
  BY <1>1, WhoseTurn
<1>3. CASE Skip /\ (~e.env \/ (e.env /\ e.path # NULL /\ env[pos] = NULL))
  <2>1. EnvTurn(pos, config, config)
    BY <1>3 DEF EnvTurn
  <2>2. Turn(Done + 1, config, config)
    BY <1>2, <2>1
  <2> QED BY <1>1, <1>3, <2>2, SkippedTurn DEF Skip
<1>4. CASE Fail /\ e.env /\ e.path = NULL
  <2>1. \A d : ~EnvTurn(pos, config, d)
    BY <1>4 DEF EnvTurn
  <2> QED BY <1>2, <1>4, <2>1, FailedTurn DEF Fail
<1>5. CASE /\ e.env /\ e.path # NULL /\ env[pos] # NULL /\ Applied(q, pos)
  <2>1. Sound(q)
    BY <1>1, <1>5, ApplySound, TurnInputs
  <2>2. \A d : EnvTurn(pos, config, d) <=> Gives(q, d)
    BY <1>5 DEF EnvTurn
  <2>3. \A d : Turn(Done + 1, config, d) <=> Gives(q, d)
    BY <1>2, <2>2
  <2>4. Applied(q, pos)
    BY <1>5
  <2> HIDE DEF e, q
  <2> QED BY <1>1, <2>1, <2>3, <2>4, AppliedTurn
<1> QED BY <1>3, <1>4, <1>5 DEF EnvEntry, SetFromEnv

(* One entry of the loop over the defaults.                                *)
LEMMA DefaultTurn ==
    ASSUME TInv, DefaultEntry
    PROVE  UNCHANGED <<inputs, runs, first>> /\ (Taken \/ Stopped)
<1> DEFINE e == map[pos]
           q == Apply(config, e, e.default)
<1>1. /\ phase = "defaults" /\ InLoop /\ pos \in DOMAIN map /\ TreeOK(config)
  BY DEF DefaultEntry, EntryIn, InLoop, TInv, Steady, MapFacts
<1>2. \A c, d : Turn(Done + 1, c, d) <=> DefTurn(pos, c, d)
  BY <1>1, WhoseTurn
<1>3. CASE e.default = NULL /\ Skip
  <2>1. DefTurn(pos, config, config)
    BY <1>3 DEF DefTurn
  <2>2. Turn(Done + 1, config, config)
    BY <1>2, <2>1
  <2> QED BY <1>1, <1>3, <2>2, SkippedTurn DEF Skip
<1>4. CASE /\ e.default # NULL /\ (e.path = NULL \/ e.type \notin OptionTypes \ {"usage"})
           /\ Fail
  <2>1. \A d : ~DefTurn(pos, config, d)
    BY <1>4 DEF DefTurn
  <2> QED BY <1>2, <1>4, <2>1, FailedTurn DEF Fail
<1>5. CASE /\ e.default # NULL /\ e.path # NULL
           /\ e.type \in OptionTypes \ {"usage"} /\ HandleDefault(e)
  <2>2. \A d : DefTurn(pos, config, d) <=> Defaulted(config, e, d)
    BY <1>5 DEF DefTurn
  <2>3. Present(e) = PresentIn(config, e)
    BY DEF Present, PresentIn
  <2>4. CASE Present(e) = "error" /\ Fail
    <3>1. \A d : ~DefTurn(pos, config, d)
      BY <2>2, <2>3, <2>4 DEF Defaulted
    <3> QED BY <1>2, <2>4, <3>1, FailedTurn DEF Fail
  <2>5. CASE Present(e) = "found" /\ Skip
    <3>1. Turn(Done + 1, config, config)
      BY <1>2, <2>2, <2>3, <2>5 DEF Defaulted
    <3> QED BY <1>1, <2>5, <3>1, SkippedTurn DEF Skip
  <2>6. CASE Present(e) = "missing" /\ Applied(q, pos)
    <3>1. Sound(q)
      BY <1>1, <1>5, ApplySound, TurnInputs
    <3>2. \A d : Defaulted(config, e, d) <=> Gives(q, d)
      BY <2>3, <2>6 DEF Defaulted, Gives
    <3>3. \A d : Turn(Done + 1, config, d) <=> Gives(q, d)
      BY <1>2, <2>2, <3>2
    <3>4. Applied(q, pos)
      BY <2>6
    <3> HIDE DEF e, q
    <3> QED BY <1>1, <3>1, <3>3, <3>4, AppliedTurn
  <2> QED BY <1>5, <2>4, <2>5, <2>6 DEF HandleDefault
<1> QED BY <1>3, <1>4, <1>5 DEF DefaultEntry

(* Between the loops nothing is written, and only the tables, a left-over  *)
(* argument or an invalid configuration ends the call.                     *)
Passed ==
    /\ Done' = Done /\ phase' \notin {"exit", "opts", "idle"}
    /\ phase' = "done" => ret' = 0
    /\ phase' = "getopt" => ~Skipped /\ Tables
    /\ phase' # "getopt" /\ phase \in {"opts", "getopt"} => Prepared

Rejected ==
    /\ phase' = "done" /\ ret' = -1
    /\ IF phase = "validate" THEN ~Valid(config) ELSE ~Prepared

(* The steps between the turns of a call.                                  *)
LEMMA BetweenLoops ==
    ASSUME TInv, phase = "getopt" => ~Skipped /\ Tables,
           \/ OptsPrepare \/ OptsEnd \/ EnvEnd \/ DefaultsEnd
           \/ ValidateEntry \/ ValidateEnd
    PROVE  UNCHANGED <<inputs, config, runs, first>> /\ (Passed \/ Rejected)
<1>1. UNCHANGED <<inputs, config, runs, first>>
  BY DEF OptsPrepare, OptsEnd, EnvEnd, DefaultsEnd, ValidateEntry, ValidateEnd,
         Skip, Fail, Quiet
<1>2. map' = map /\ OptTurns' = OptTurns /\ Total' = Total
  BY <1>1, InputsStay DEF inputs
<1>3. /\ OptTurns \in Nat /\ Len(map) \in Nat /\ Len(opts) \in Nat /\ pos \in Nat
      /\ Skipped => OptTurns = 0
      /\ ~Skipped => OptTurns = Len(opts)
      /\ Total = OptTurns + 2 * Len(map)
      /\ phase = "getopt" => pos <= Len(opts) + 1
      /\ phase \in {"env", "defaults", "validate"} => pos <= Len(map) + 1
  BY DEF TInv, Steady, MapFacts, ArgumentFacts, OptTurns, Total
<1>4. CASE OptsPrepare
  <2>1. phase = "opts" /\ Done = 0
    BY <1>4 DEF OptsPrepare, Done
  <2>2. CASE opts = <<>> /\ ~extra /\ GoTo("env")
    <3>1. Skipped /\ Prepared /\ phase' = "env" /\ pos' = 1
      BY <2>2 DEF Skipped, Prepared, GoTo
    <3>2. Done' = 0
      BY <1>2, <1>3, <3>1 DEF Done
    <3> QED BY <1>1, <2>1, <3>1, <3>2 DEF Passed
  <2>3. CASE (opts # <<>> \/ extra) /\ ~(IndexCreated /\ LongCreated) /\ Return(-1)
    <3>1. ~Prepared
      BY <2>3 DEF Prepared, Tables
    <3> QED BY <1>1, <2>1, <2>3, <3>1 DEF Rejected, Return
  <2>4. CASE /\ opts # <<>> \/ extra
             /\ IndexCreated /\ LongCreated /\ Shorts = {} /\ GoTo("env")
    <3>1. Skipped /\ Prepared /\ phase' = "env" /\ pos' = 1
      BY <2>4 DEF Skipped, Prepared, Tables, GoTo
    <3>2. Done' = 0
      BY <1>2, <1>3, <3>1 DEF Done
    <3> QED BY <1>1, <2>1, <3>1, <3>2 DEF Passed
  <2>5. CASE /\ opts # <<>> \/ extra
             /\ IndexCreated /\ LongCreated /\ Shorts # {} /\ GoTo("getopt")
    <3>1. ~Skipped /\ Tables /\ phase' = "getopt" /\ pos' = 1
      BY <2>5 DEF Skipped, Tables, GoTo
    <3>2. Done' = 0
      BY <3>1 DEF Done
    <3> QED BY <1>1, <2>1, <3>1, <3>2 DEF Passed
  <2> QED BY <1>4, <2>2, <2>3, <2>4, <2>5 DEF OptsPrepare
<1>5. CASE OptsEnd
  <2>1. /\ phase = "getopt" /\ ~Skipped /\ Tables /\ pos = Len(opts) + 1
        /\ IF extra THEN Return(-1) ELSE GoTo("env")
    BY <1>3, <1>5 DEF OptsEnd
  <2>2. CASE extra
    BY <1>1, <2>1, <2>2 DEF Rejected, Prepared, Return
  <2>3. CASE ~extra
    <3>1. Prepared /\ phase' = "env" /\ pos' = 1
      BY <2>1, <2>3 DEF Prepared, GoTo
    <3>2. Done = OptTurns
      BY <1>3, <2>1 DEF Done
    <3>3. Done' = OptTurns
      BY <1>2, <1>3, <3>1 DEF Done
    <3> QED BY <1>1, <3>1, <3>2, <3>3 DEF Passed
  <2> QED BY <2>2, <2>3
<1>6. CASE EnvEnd
  <2>1. phase = "env" /\ pos = Len(map) + 1 /\ phase' = "defaults" /\ pos' = 1
    BY <1>3, <1>6 DEF EnvEnd, EndOf, GoTo
  <2>2. Done = OptTurns + Len(map)
    BY <1>3, <2>1 DEF Done
  <2>3. Done' = OptTurns + Len(map)
    BY <1>2, <1>3, <2>1 DEF Done
  <2> QED BY <1>1, <2>1, <2>2, <2>3 DEF Passed
<1>7. CASE DefaultsEnd
  <2>1. phase = "defaults" /\ pos = Len(map) + 1 /\ phase' = "validate"
    BY <1>3, <1>7 DEF DefaultsEnd, EndOf, GoTo
  <2>2. Done = Total
    BY <1>3, <2>1 DEF Done
  <2>3. Done' = Total
    BY <1>2, <2>1 DEF Done
  <2> QED BY <1>1, <2>1, <2>2, <2>3 DEF Passed
<1>8. CASE ValidateEntry
  <2>1. phase = "validate" /\ pos \in 1 .. Len(map)
    <3>1. pos \in Nat \ {0}
      BY DEF TInv, Steady
    <3> QED BY <1>3, <1>8, <3>1 DEF ValidateEntry, EntryIn
  <2>2. CASE RequiredMet(map[pos]) /\ CallbackAccepts(map[pos])
    <3>1. phase' = "validate" /\ ret' = ret
      BY <1>8, <2>1, <2>2 DEF ValidateEntry, Skip, Continue
    <3>2. Done = Total /\ Done' = Total
      BY <1>2, <2>1, <3>1 DEF Done
    <3> QED BY <1>1, <2>1, <3>1, <3>2 DEF Passed
  <2>3. CASE ~(RequiredMet(map[pos]) /\ CallbackAccepts(map[pos]))
    <3>1. ~Valid(config)
      BY <2>1, <2>3 DEF Valid, RequiredMet, CallbackAccepts
    <3>2. phase' = "done" /\ ret' = -1
      BY <1>8, <2>3 DEF ValidateEntry, Fail, Return
    <3> QED BY <1>1, <2>1, <3>1, <3>2 DEF Rejected
  <2> QED BY <2>2, <2>3
<1>9. CASE ValidateEnd
  <2>1. phase = "validate" /\ phase' = "done" /\ ret' = 0
    BY <1>9 DEF ValidateEnd, EndOf, Return
  <2>2. Done = Total /\ Done' = Total
    BY <1>2, <2>1 DEF Done
  <2> QED BY <1>1, <2>1, <2>2 DEF Passed
<1> QED BY <1>4, <1>5, <1>6, <1>7, <1>8, <1>9

InCall ==
    \/ OptBad \/ OptUsage \/ OptSet \/ EnvEntry \/ DefaultEntry
    \/ OptsPrepare \/ OptsEnd \/ EnvEnd \/ DefaultsEnd
    \/ ValidateEntry \/ ValidateEnd

(* Each step in a loop takes a turn or stops.                              *)
LEMMA AnyTurn ==
    ASSUME TInv, phase = "getopt" => ~Skipped /\ Tables, InCall
    PROVE  /\ UNCHANGED <<inputs, runs, first>>
           /\ phase \notin {"idle", "exit", "done"}
           /\ \/ /\ phase \notin {"opts", "validate"} /\ InLoop
                 /\ Taken \/ Stopped
              \/ config' = config /\ (Passed \/ Rejected)
<1>1. phase \notin {"idle", "exit", "done"}
  BY DEF InCall, OptBad, OptUsage, OptSet, EnvEntry, DefaultEntry, OptsPrepare,
         OptsEnd, EnvEnd, DefaultsEnd, ValidateEntry, ValidateEnd, EntryIn, EndOf
<1>2. CASE OptBad \/ OptUsage \/ OptSet
  <2>1. phase = "getopt" /\ InLoop
    BY <1>2 DEF OptBad, OptUsage, OptSet, InLoop
  <2> QED BY <1>1, <1>2, <2>1, OptionTurn
<1>3. CASE EnvEntry
  <2>1. phase = "env" /\ InLoop
    BY <1>3 DEF EnvEntry, EntryIn, InLoop
  <2> QED BY <1>1, <1>3, <2>1, EnvironmentTurn
<1>4. CASE DefaultEntry
  <2>1. phase = "defaults" /\ InLoop
    BY <1>4 DEF DefaultEntry, EntryIn, InLoop
  <2> QED BY <1>1, <1>4, <2>1, DefaultTurn
<1>5. CASE \/ OptsPrepare \/ OptsEnd \/ EnvEnd \/ DefaultsEnd
           \/ ValidateEntry \/ ValidateEnd
  BY <1>1, <1>5, BetweenLoops
<1> QED BY <1>2, <1>3, <1>4, <1>5 DEF InCall

(* The first call leaves its trace.                                        *)
LEMMA FirstStep ==
    ASSUME TInv, FirstCall, InCall
    PROVE  FirstCall'
<1> SUFFICES ASSUME phase' # "exit", ~(phase' = "done" /\ ret' = -1)
             PROVE  /\ \E t : Trace(t, Done)' /\ t[Done'] = config'
                    /\ phase' = "getopt" => Skipped' = FALSE /\ Tables'
                    /\ phase' \notin {"opts", "getopt"} => Prepared'
  BY DEF FirstCall
<1>1. phase \notin {"exit", "done"}
  BY DEF InCall, OptBad, OptUsage, OptSet, EnvEntry, DefaultEntry, OptsPrepare,
         OptsEnd, EnvEnd, DefaultsEnd, ValidateEntry, ValidateEnd, EntryIn, EndOf
<1>2. /\ phase = "getopt" => ~Skipped /\ Tables
      /\ phase \notin {"opts", "getopt"} => Prepared
  BY <1>1 DEF FirstCall
<1>3. PICK t : Trace(t, Done) /\ t[Done] = config
  BY <1>1 DEF FirstCall
<1>4. /\ UNCHANGED <<inputs, runs, first>>
      /\ \/ /\ phase \notin {"opts", "validate"} /\ InLoop
            /\ Taken \/ Stopped
         \/ config' = config /\ (Passed \/ Rejected)
  BY <1>2, AnyTurn
<1>5. /\ Skipped' = Skipped /\ Tables' = Tables /\ Prepared' = Prepared
      /\ \A s, k : Trace(s, k)' = Trace(s, k)
  BY <1>4, InputsStay
<1>6. CASE phase \notin {"opts", "validate"} /\ InLoop /\ Taken
  <2>1. /\ phase' = phase /\ Done' = Done + 1 /\ Turn(Done + 1, t[Done], config')
    BY <1>3, <1>6 DEF Taken
  <2>2. Done \in Nat /\ Done + 1 \in 1 .. Total
    BY <1>2, <1>6, WhoseTurn
  <2>3. ~Skipped => IndexCreated
    BY <1>2, <1>6 DEF Prepared, Tables, Skipped
  <2>4. PICK s : Trace(s, Done + 1) /\ s[Done + 1] = config'
    BY <1>3, <2>1, <2>2, <2>3, TraceGrows
  <2>5. Trace(s, Done)' /\ s[Done'] = config'
    BY <1>5, <2>1, <2>4 DEF Trace
  <2> QED BY <1>2, <1>5, <2>1, <2>5
<1>7. CASE config' = config /\ Passed
  <2>1. Trace(t, Done)' /\ t[Done'] = config'
    BY <1>3, <1>5, <1>7 DEF Passed, Trace
  <2> QED BY <1>2, <1>5, <1>7, <2>1 DEF Passed
<1>8. ~Stopped /\ ~Rejected
  BY DEF Stopped, Rejected
<1> QED BY <1>4, <1>6, <1>7, <1>8

(* A tree that is overlaid with all turns that lead to it is as it was.    *)
LEMMA OverlaidSame ==
    ASSUME NEW f, NEW g, Overlaid(f, g, f)
    PROVE  g = f
<1>1. /\ f = [p \in DOMAIN f |-> f[p]] /\ g = [p \in DOMAIN g |-> g[p]]
  BY DEF Overlaid, TreeOK
<1>2. DOMAIN f = DOMAIN g
  BY DEF Overlaid, Within
<1>3. \A p \in DOMAIN f : g[p] = f[p]
  BY DEF Overlaid
<1>4. [p \in DOMAIN g |-> g[p]] = [p \in DOMAIN f |-> f[p]]
  BY <1>2, <1>3
<1> QED BY <1>1, <1>4

(* The second call follows it.                                             *)
LEMMA SecondStep ==
    ASSUME TInv, NoFileDefault, SecondCall, InCall
    PROVE  SecondCall'
<1>1. /\ phase = "getopt" => ~Skipped /\ Tables
      /\ Prepared /\ Valid(first)
      /\ ~Skipped => IndexCreated
  BY DEF SecondCall, Prepared, Tables, Skipped
<1>2. PICK t : /\ Trace(t, Total) /\ t[Total] = first
               /\ Overlaid(t[Done], config, first)
  BY DEF SecondCall
<1>3. /\ UNCHANGED <<inputs, runs, first>>
      /\ \/ /\ phase \notin {"opts", "validate"} /\ InLoop
            /\ Taken \/ Stopped
         \/ config' = config /\ (Passed \/ Rejected)
  BY <1>1, AnyTurn
<1>4. /\ Skipped' = Skipped /\ Prepared' = Prepared /\ Total' = Total
      /\ \A s, k : Trace(s, k)' = Trace(s, k)
      /\ \A c : Valid(c)' = Valid(c)
  BY <1>3, InputsStay
<1>5. Trace(t, Total)' /\ t[Total'] = first' /\ Prepared' /\ Valid(first)'
  <2>1. Trace(t, Total)' = Trace(t, Total)
    BY <1>3, <1>4 DEF Trace
  <2>2. Valid(first)' = Valid(first)
    BY <1>3 DEF Valid, inputs
  <2> QED BY <1>1, <1>2, <1>3, <1>4, <2>1, <2>2
<1>6. CASE phase \notin {"opts", "validate"} /\ InLoop /\ (Taken \/ Stopped)
  <2> DEFINE k == Done
  <2>1. k \in Nat /\ k + 1 \in 1 .. Total
    BY <1>1, <1>6, WhoseTurn
  <2> HIDE DEF k
  <2>2. k + 1 \in 0 .. Total /\ (k + 1) - 1 = k
    BY <2>1
  <2>3. Turn(k + 1, t[k], t[k + 1]) /\ Within(t[k + 1], first)
    BY <1>2, <2>1, <2>2 DEF Trace
  <2>4. Overlaid(t[k], config, first)
    BY <1>2 DEF k
  <2>5. PICK h : Turn(k + 1, config, h) /\ Overlaid(t[k + 1], h, first)
    BY <1>1, <2>1, <2>3, <2>4, TurnAgain
  <2>6. ~Stopped
    BY <2>5 DEF Stopped, k
  <2>7. phase' = phase /\ Done' = k + 1 /\ Turn(k + 1, config, config')
    BY <1>6, <2>6 DEF Taken, k
  <2>8. config' = h
    BY <2>5, <2>7, TurnOnce
  <2>9. Overlaid(t[Done'], config', first')
    BY <1>3, <2>5, <2>7, <2>8
  <2>10. phase' \notin {"exit", "done"} /\ (phase' = "getopt" => Skipped' = FALSE)
    BY <1>1, <1>4, <1>6, <2>7 DEF InLoop
  <2> QED BY <1>5, <2>9, <2>10 DEF SecondCall
<1>7. CASE config' = config /\ Passed
  <2>1. Overlaid(t[Done'], config', first')
    BY <1>2, <1>3, <1>7 DEF Passed
  <2>2. /\ phase' # "exit" /\ (phase' = "done" => ret' = 0)
        /\ phase' = "getopt" => Skipped' = FALSE
    BY <1>4, <1>7 DEF Passed
  <2> QED BY <1>5, <2>1, <2>2 DEF SecondCall
<1>8. ~Rejected
  <2>1. CASE phase = "validate"
    <3>1. Done = Total
      BY <2>1 DEF Done
    <3>2. config = first
      BY <1>2, <3>1, OverlaidSame
    <3> QED BY <1>1, <2>1, <3>2 DEF Rejected
  <2>2. CASE phase # "validate"
    BY <1>1, <2>2 DEF Rejected
  <2> QED BY <2>1, <2>2
<1> QED BY <1>3, <1>6, <1>7, <1>8

(* Where a call begins and where it has returned.                          *)
LEMMA EmptyTree == TreeOK(Empty("dict"))
<1> DEFINE c == Empty("dict")
<1>1. /\ DOMAIN c = {<<>>} /\ c[<<>>] = Item("dict", NULL)
      /\ c = [p \in DOMAIN c |-> c[p]]
  BY DEF Empty
<1>2. <<>> \in Seq(Keys) /\ Len(<<>>) = 0
  OBVIOUS
<1> HIDE DEF c
<1>3. InTree(c, <<>>)
  BY <1>1, <1>2 DEF InTree, Items, Item, NodeTypes, Containers
<1>4. TreeOK(c)
  BY <1>1, <1>3 DEF TreeOK, Item
<1> QED BY <1>4 DEF c

(* The first call starts from nothing, the second from what it returned.   *)
LEMMA CallAgain ==
    ASSUME TInv, AgainInv, Call
    PROVE  AgainInv'
<1> SUFFICES /\ runs' # 0
             /\ phase' # "idle"
             /\ runs' = 1 => FirstCall'
             /\ runs' = 2 => SecondCall'
  BY DEF AgainInv
<1>1. /\ phase = "idle" /\ phase' = "opts" /\ runs' = runs + 1 /\ runs \in Nat
      /\ UNCHANGED <<inputs, config, first>>
  BY DEF Call, TInv, Steady
<1>2. /\ Prepared' = Prepared /\ Total' = Total
      /\ \A t, k : Trace(t, k)' = Trace(t, k)
  BY <1>1, InputsStay
<1>3. Done' = 0
  BY <1>1 DEF Done
<1>4. CASE runs = 0
  <2> DEFINE t == [i \in {0} |-> Empty("dict")]
  <2>1. t[0] = Empty("dict") /\ config = Empty("dict")
    BY <1>2, <1>4 DEF AgainInv
  <2> HIDE DEF t
  <2>2. TreeOK(t[0]) /\ Within(t[0], t[0])
    BY <2>1, EmptyTree DEF Within
  <2>3. Trace(t, 0)
    BY <2>1, <2>2 DEF Trace
  <2>4. Trace(t, Done)' /\ t[Done'] = config'
    BY <1>1, <1>2, <1>3, <2>1, <2>3 DEF Trace
  <2> QED BY <1>1, <1>4, <2>4 DEF FirstCall
<1>5. CASE runs = 1
  <2>1. config = first /\ Prepared /\ Valid(first)
    BY <1>1, <1>2, <1>5 DEF AgainInv, Returnable
  <2>2. PICK t : Trace(t, Total) /\ t[Total] = first
    BY <1>1, <1>2, <1>5 DEF AgainInv, Returnable
  <2>3. Total \in Nat
    <3>1. OptTurns \in Nat /\ Len(map) \in Nat
      BY DEF OptTurns, TInv, Steady, MapFacts, ArgumentFacts
    <3> QED BY <3>1 DEF Total
  <2>4. TreeOK(t[0]) /\ Within(t[0], first) /\ TreeOK(first)
    <3>1. 0 \in 0 .. Total /\ Total \in 0 .. Total
      BY <2>3
    <3> QED BY <2>2, <3>1 DEF Trace
  <2>5. Overlaid(t[0], first, first)
    BY <2>4 DEF Overlaid, Within
  <2>6. Trace(t, Total)' /\ t[Total'] = first' /\ Overlaid(t[Done'], config', first')
    <3>1. Trace(t, Total)' = Trace(t, Total)
      BY <1>2 DEF Trace
    <3> QED BY <1>1, <1>2, <1>3, <2>1, <2>2, <2>5, <3>1
  <2>7. Valid(first)' = Valid(first)
    BY <1>1 DEF Valid, inputs
  <2> QED BY <1>1, <1>2, <1>5, <2>1, <2>6, <2>7 DEF SecondCall
<1>6. CASE runs > 1
  BY <1>1, <1>6
<1> QED BY <1>1, <1>4, <1>5, <1>6

(* The caller has what a first call returns.                               *)
LEMMA ReturnAgain ==
    ASSUME IInv, TInv, AgainInv, Returned
    PROVE  AgainInv'
<1> SUFFICES /\ runs' # 0 /\ phase' = "idle"
             /\ runs' = 1 => config' = first' /\ Returnable(first)'
  BY DEF AgainInv
<1>1. /\ phase = "done" /\ ret = 0 /\ phase' = "idle" /\ first' = config
      /\ UNCHANGED <<inputs, config, runs>>
  BY DEF Returned
<1>2. /\ Prepared' = Prepared /\ Total' = Total
      /\ \A t, k : Trace(t, k)' = Trace(t, k)
  BY <1>1, InputsStay
<1>3. runs # 0
  BY <1>1, <1>2 DEF AgainInv
<1>4. CASE runs = 1
  <2>1. FirstCall /\ Done = Total
    BY <1>1, <1>2, <1>4 DEF AgainInv, Done
  <2>2. Prepared
    BY <1>1, <2>1 DEF FirstCall
  <2>3. PICK t : Trace(t, Total) /\ t[Total] = config
    BY <1>1, <2>1 DEF FirstCall
  <2>4. Valid(config)
    BY <1>1 DEF IInv, Checked, Valid, RequiredMet, CallbackAccepts
  <2>5. Valid(first)'
    BY <1>1, <2>4 DEF Valid, inputs
  <2>6. Trace(t, Total)' /\ t[Total'] = first'
    <3>1. Trace(t, Total)' = Trace(t, Total)
      BY <1>2 DEF Trace
    <3> QED BY <1>1, <1>2, <2>3, <3>1
  <2> QED BY <1>1, <1>2, <1>3, <2>2, <2>5, <2>6 DEF Returnable
<1> QED BY <1>1, <1>3, <1>4

(* Every step keeps AgainInv.                                              *)
LEMMA StepAgain == IInv /\ TInv /\ AgainInv /\ [Next]_vars => AgainInv'
<1> SUFFICES ASSUME IInv, TInv, AgainInv, [Next]_vars PROVE AgainInv'
  OBVIOUS
<1>1. CASE Call
  BY <1>1, CallAgain
<1>2. CASE Returned
  BY <1>2, ReturnAgain
<1>3. CASE InCall
  <2>1. /\ phase \notin {"idle", "exit", "done"} /\ UNCHANGED <<inputs, runs, first>>
        /\ phase' # "idle"
    BY <1>3 DEF InCall, OptBad, OptUsage, OptSet, EnvEntry, DefaultEntry, OptsPrepare,
         OptsEnd, EnvEnd, DefaultsEnd, ValidateEntry, ValidateEnd, EntryIn, EndOf,
         Quiet, Applied, Skip, Fail, GoTo, Continue, Return, SetFromEnv, HandleDefault
  <2>2. NoFileDefault' = NoFileDefault
    BY <2>1, InputsStay
  <2>3. runs = 1 => FirstCall'
    BY <1>3, <2>1, FirstStep DEF AgainInv
  <2>4. NoFileDefault /\ runs = 2 => SecondCall'
    BY <1>3, <2>1, SecondStep DEF AgainInv
  <2>5. runs # 0
    BY <2>1 DEF AgainInv
  <2> QED BY <2>1, <2>2, <2>3, <2>4, <2>5 DEF AgainInv
<1>4. CASE UNCHANGED vars
  <2>1. /\ UNCHANGED inputs /\ config' = config /\ phase' = phase /\ pos' = pos
        /\ ret' = ret /\ runs' = runs /\ first' = first
    BY <1>4 DEF vars
  <2>2. /\ OptTurns' = OptTurns /\ Total' = Total
        /\ Skipped' = Skipped /\ Tables' = Tables /\ Prepared' = Prepared
        /\ NoFileDefault' = NoFileDefault
        /\ \A t, k : Trace(t, k)' = Trace(t, k)
    BY <2>1, InputsStay
  <2>3. Done' = Done
    BY <2>1, <2>2 DEF Done, inputs
  <2>4. Valid(first)' = Valid(first)
    BY <2>1 DEF Valid, inputs
  <2>5. \A t : Trace(t, Total)' = Trace(t, Total) /\ Trace(t, Done)' = Trace(t, Done)
    BY <2>2, <2>3 DEF Trace
  <2>6. FirstCall' = FirstCall
    BY <2>1, <2>2, <2>3, <2>5 DEF FirstCall
  <2>7. SecondCall' = SecondCall
    BY <2>1, <2>2, <2>3, <2>4, <2>5 DEF SecondCall
  <2>8. Returnable(first)' = Returnable(first)
    BY <2>1, <2>2, <2>4, <2>5 DEF Returnable
  <2> QED BY <2>1, <2>2, <2>6, <2>7, <2>8 DEF AgainInv
<1> QED BY <1>1, <1>2, <1>3, <1>4 DEF Next, InCall

(* opts.c:765 "Reset getopt state, to allow multiple runs": for every map, *)
(* command line, environment and conversion a second call for the same     *)
(* root succeeds and leaves the configuration of the first, if no entry    *)
(* has a file for a default.  Files that are named by an option or in the  *)
(* environment are included, as are paths that can be set but not found.   *)
THEOREM AlwaysAgainTheSame == Spec => []AgainTheSame
<1>1. Init => AgainInv
  BY DEF Init, AgainInv
<1>2. TInv /\ AgainInv => AgainTheSame
  <2> SUFFICES ASSUME TInv, AgainInv, phase = "done", runs = 2, NoFileDefault
               PROVE  ret = 0 /\ config = first
    BY DEF AgainTheSame, NoFileDefault
  <2>1. SecondCall /\ Done = Total
    BY DEF AgainInv, Done
  <2>2. Overlaid(first, config, first) /\ ret = 0
    BY <2>1 DEF SecondCall
  <2> QED BY <2>2, OverlaidSame
<1> QED BY <1>1, <1>2, InitInv, StepInv, InitTInv, StepTInv, StepAgain, PTL DEF Spec

-----------------------------------------------------------------------------
(* Who wins: first, that nothing with a default is missing.                *)

(* What has been given for an entry is found at its path from then on.     *)
LEMMA ApplyIsFound ==
    ASSUME NEW c, TreeOK(c), NEW e, e.path # NULL, e.path \in Seq(Tokens),
           ~Unfindable(e.path), NEW text \in Texts, Apply(c, e, text).ret = 0,
           NEW g, TreeOK(g), Within(Apply(c, e, text).config, g)
    PROVE  /\ Find(g, e.path).status = "found"
           /\ Find(g, e.path).place = PlaceOf(g, e.path, Len(Steps(e.path)))
<1>1. CASE e.type \in Scalars
  <2> DEFINE val == ValueOf[e.type][text]
             d   == Set(c, e.path, e.type, val)
  <2>1. Apply(c, e, text) = IF val = NULL THEN Outcome(-1, c) ELSE d
    BY <1>1 DEF Apply, Scalars
  <2>2. val # NULL
    BY <2>1 DEF Outcome
  <2>3. val \in Values /\ d.ret = 0 /\ Within(d.config, g)
    BY <1>1, <2>1, <2>2, InitAssumption
  <2> HIDE DEF val
  <2> QED BY <2>3, SetIsFound
<1>2. CASE e.type = "yaml_file"
  <2> DEFINE read == ReadFile(c, text)
             d    == Set(read.config, e.path, "str", text)
  <2>1. Apply(c, e, text) = IF read.ret = -1 THEN read ELSE d
    BY <1>2 DEF Apply, Scalars
  <2>2. Sound(read) /\ text \in Values
    BY ReadFileSound, InitAssumption
  <2>3. d.ret = 0 /\ TreeOK(read.config) /\ Within(d.config, g)
    BY <2>1, <2>2 DEF Sound
  <2> HIDE DEF read
  <2> QED BY <2>2, <2>3, SetIsFound
<1>3. CASE e.type \notin Scalars /\ e.type # "yaml_file"
  BY <1>3 DEF Apply, Outcome
<1> QED BY <1>1, <1>2, <1>3

(* The turn of a default.                                                  *)
LEMMA DefaultFound ==
    ASSUME TInv, NEW i \in DOMAIN map, NEW c, TreeOK(c), NEW d, DefTurn(i, c, d)
    PROVE  /\ TreeOK(d) /\ Within(c, d)
           /\ map[i].default # NULL =>
                 /\ map[i].path # NULL
                 /\ ~Unfindable(map[i].path) => Find(d, map[i].path).status = "found"
<1> DEFINE e == map[i]
           q == Apply(c, e, e.default)
<1>1. CASE e.default = NULL
  BY <1>1 DEF DefTurn, Within
<1>2. CASE e.default # NULL
  <2>1. /\ e.path # NULL /\ Defaulted(c, e, d)
        /\ e.path \in Seq(Tokens) /\ e.default \in Texts
    BY <1>2, TurnInputs DEF DefTurn
  <2>2. CASE PresentIn(c, e) = "found" /\ d = c
    <3>1. Find(c, e.path).status = "found"
      BY <2>2 DEF PresentIn, FindTyped, At
    <3> QED BY <1>2, <2>1, <2>2, <3>1 DEF Within
  <2>3. CASE PresentIn(c, e) = "missing" /\ q.ret = 0 /\ d = q.config
    <3>1. TreeOK(d) /\ Within(c, d)
      BY <2>1, <2>3, ApplySound, ApplyGrows DEF Sound
    <3>2. Within(q.config, d)
      BY <2>3 DEF Within
    <3>3. ASSUME ~Unfindable(e.path) PROVE Find(d, e.path).status = "found"
      <4> HIDE DEF e
      <4> QED BY <2>1, <2>3, <3>1, <3>2, <3>3, ApplyIsFound
    <3> QED BY <1>2, <2>1, <3>1, <3>3
  <2> QED BY <2>1, <2>2, <2>3 DEF Defaulted
<1> QED BY <1>1, <1>2

(* The first n entries that have a default can be found.                   *)
DefaultsFound(n) ==
    \A i \in 1 .. n : map[i].default # NULL =>
        /\ map[i].path # NULL
        /\ ~Unfindable(map[i].path) => Find(config, map[i].path).status = "found"

DInv ==
    /\ phase = "defaults" => DefaultsFound(pos - 1)
    /\ phase = "validate" \/ (phase = "done" /\ ret = 0 /\ runs > 0) =>
          DefaultsFound(Len(map))

(* One entry of the loop over the defaults keeps DInv.                     *)
LEMMA DefaultsStep ==
    ASSUME TInv, DInv, DefaultEntry
    PROVE  DInv'
<1>1. UNCHANGED <<inputs, runs, first>> /\ (Taken \/ Stopped)
  BY DefaultTurn
<1>2. /\ phase = "defaults" /\ InLoop /\ pos \in DOMAIN map /\ TreeOK(config)
      /\ pos \in Nat /\ DOMAIN map = 1 .. Len(map) /\ map' = map
  BY <1>1 DEF DefaultEntry, EntryIn, InLoop, TInv, Steady, MapFacts, inputs
<1>3. CASE Taken
  <2>1. phase' = phase /\ DefTurn(pos, config, config')
    BY <1>2, <1>3, WhoseTurn DEF Taken
  <2>2. pos' = pos + 1
    BY <1>2, <2>1 DEF DefaultEntry, HandleDefault, Applied, Skip, Fail, Continue, Return
  <2>3. /\ TreeOK(config') /\ Within(config, config')
        /\ map[pos].default # NULL =>
              /\ map[pos].path # NULL
              /\ ~Unfindable(map[pos].path) => Find(config', map[pos].path).status = "found"
    BY <1>2, <2>1, DefaultFound
  <2>4. ASSUME NEW i \in 1 .. pos, map[i].default # NULL
        PROVE  /\ map[i].path # NULL
               /\ ~Unfindable(map[i].path) => Find(config', map[i].path).status = "found"
    <3>1. CASE i = pos
      BY <2>3, <2>4, <3>1
    <3>2. CASE i # pos
      <4>1. i \in 1 .. pos - 1 /\ i \in DOMAIN map
        BY <1>2, <3>2
      <4>2. /\ map[i].path # NULL
            /\ ~Unfindable(map[i].path) => Find(config, map[i].path).status = "found"
        BY <1>2, <2>4, <4>1 DEF DInv, DefaultsFound
      <4>3. map[i].path \in Seq(Tokens)
        BY <4>1, <4>2, TurnInputs
      <4> QED BY <1>2, <2>3, <4>2, <4>3, FoundStays
    <3> QED BY <3>1, <3>2
  <2>5. 1 .. pos' - 1 = 1 .. pos
    BY <1>2, <2>2
  <2>6. DefaultsFound(pos - 1)'
    BY <1>2, <2>4, <2>5 DEF DefaultsFound
  <2> QED BY <1>2, <2>1, <2>6 DEF DInv
<1>4. CASE Stopped
  BY <1>4 DEF Stopped, DInv
<1> QED BY <1>1, <1>3, <1>4

(* Every step keeps DInv.                                                  *)
LEMMA StepDInv == TInv /\ DInv /\ [Next]_vars => DInv'
<1> SUFFICES ASSUME TInv, DInv, [Next]_vars PROVE DInv'
  OBVIOUS
<1>1. CASE DefaultEntry
  BY <1>1, DefaultsStep
<1>2. CASE EnvEnd
  <2>1. phase' = "defaults" /\ pos' = 1
    BY <1>2 DEF EnvEnd, GoTo
  <2>2. 1 .. pos' - 1 = {}
    BY <2>1
  <2> QED BY <2>1, <2>2 DEF DInv, DefaultsFound
<1>3. CASE DefaultsEnd
  <2>1. /\ phase = "defaults" /\ pos > Len(map) /\ phase' = "validate"
        /\ map' = map /\ config' = config
    BY <1>3 DEF DefaultsEnd, EndOf, GoTo, Quiet, inputs
  <2>2. pos \in Nat /\ pos <= Len(map) + 1 /\ Len(map) \in Nat
    BY <2>1 DEF TInv, Steady, MapFacts
  <2>3. pos - 1 = Len(map)
    BY <2>1, <2>2
  <2>4. DefaultsFound(Len(map))
    BY <2>1, <2>3 DEF DInv
  <2> QED BY <2>1, <2>4 DEF DInv, DefaultsFound
<1>4. CASE ValidateEntry \/ ValidateEnd
  <2>1. phase = "validate" /\ phase' # "defaults" /\ map' = map /\ config' = config
    BY <1>4 DEF ValidateEntry, ValidateEnd, EntryIn, EndOf, Skip, Fail, Continue, Return,
                Quiet, inputs
  <2> QED BY <2>1 DEF DInv, DefaultsFound
<1>5. CASE Call \/ Returned
  BY <1>5 DEF Call, Returned, DInv
<1>6. CASE OptsPrepare \/ OptBad \/ OptUsage \/ OptSet \/ OptsEnd \/ EnvEntry
  <2>1. phase' \notin {"defaults", "validate"} /\ (phase' = "done" => ret' = -1)
    BY <1>6 DEF OptsPrepare, OptBad, OptUsage, OptSet, OptsEnd, EnvEntry, SetFromEnv,
                Applied, Skip, Fail, Continue, Return, GoTo, EntryIn
  <2> QED BY <2>1 DEF DInv
<1>7. CASE UNCHANGED vars
  <2>1. phase' = phase /\ pos' = pos /\ ret' = ret /\ runs' = runs /\ map' = map
        /\ config' = config
    BY <1>7 DEF vars, inputs
  <2> QED BY <2>1 DEF DInv, DefaultsFound
<1> QED BY <1>1, <1>2, <1>3, <1>4, <1>5, <1>6, <1>7 DEF Next

(* The first n of the writes have led from c to d: their places are there, *)
(* and a value is that of the last of them that has written it, or is as   *)
(* it was.                                                                 *)
Replayed(c, d, writes, n) ==
    /\ \A k \in 1 .. n : Target(writes[k].path) \in DOMAIN d
    /\ \A q \in DOMAIN d : d[q].type \in Scalars =>
          \/ \E k \in 1 .. n :
                /\ Target(writes[k].path) = q
                /\ d[q] = Item(writes[k].type, writes[k].val)
                /\ \A j \in 1 .. n : Target(writes[j].path) = q => j <= k
          \/ /\ \A k \in 1 .. n : Target(writes[k].path) # q
             /\ q \in DOMAIN c /\ d[q] = c[q]

(* One more of them.                                                       *)
LEMMA ReplayStep ==
    ASSUME TreeOK(config), NEW c, NEW f, TreeOK(f), NEW writes, NEW n \in Nat,
           Replayed(c, f, writes, n),
           NEW path \in Seq(Tokens), NEW type, NEW val \in Values,
           writes[n + 1].path = path, writes[n + 1].type = type,
           writes[n + 1].val = val,
           Set(f, path, type, val).ret = 0
    PROVE  Replayed(c, Set(f, path, type, val).config, writes, n + 1)
<1> DEFINE d == Set(f, path, type, val).config
           N == Len(Steps(path))
           t == Target(path)
<1>1. Left(f, d, path, type, val)
  BY SetLeaves
<1>2. N \in Nat \ {0} /\ TypeAt(path, type, N) = type
      /\ \A i \in 1 .. N : i # N => TypeAt(path, type, i) \in Containers
  BY StepsType DEF TypeAt, Containers
<1>3. PlaceOf(f, path, N) = t
  BY SamePlaces DEF Target
<1> HIDE DEF d, N, t
<1>4. /\ t \in DOMAIN d /\ d[t].type = type
      /\ type \in Scalars => d[t] = Item(type, val)
      /\ \A q \in DOMAIN f : q \in DOMAIN d /\ d[q].type = f[q].type
      /\ \A q \in DOMAIN f : q # t => d[q] = f[q]
  <2>1. N \in 1 .. N
    BY <1>2
  <2> QED BY <1>1, <1>2, <1>3, <2>1 DEF Left, Within, N
<1>5. ASSUME NEW q \in DOMAIN d, d[q].type \in Scalars, q # t
      PROVE  q \in DOMAIN f
  <2> SUFFICES ASSUME q \notin DOMAIN f PROVE FALSE
    OBVIOUS
  <2>1. PICK i \in 1 .. N : q = PlaceOf(f, path, i)
    BY <1>1 DEF Left, N
  <2>2. d[q].type = TypeAt(path, type, i)
    BY <1>1, <2>1 DEF Left, N
  <2>3. i # N
    BY <1>3, <1>5, <2>1
  <2> QED BY <1>2, <1>5, <2>2, <2>3 DEF Containers, Scalars
<1>6. ASSUME NEW k \in 1 .. n + 1 PROVE k = n + 1 \/ k \in 1 .. n
  OBVIOUS
<1>7. \A k \in 1 .. n : k \in 1 .. n + 1
  OBVIOUS
<1>8. ASSUME NEW k \in 1 .. n + 1 PROVE Target(writes[k].path) \in DOMAIN d
  <2>1. CASE k = n + 1
    BY <1>4, <2>1 DEF t
  <2>2. CASE k \in 1 .. n
    BY <1>4, <2>2 DEF Replayed
  <2> QED BY <1>6, <2>1, <2>2
<1>9. ASSUME NEW q \in DOMAIN d, d[q].type \in Scalars
      PROVE  \/ \E k \in 1 .. n + 1 :
                   /\ Target(writes[k].path) = q
                   /\ d[q] = Item(writes[k].type, writes[k].val)
                   /\ \A j \in 1 .. n + 1 : Target(writes[j].path) = q => j <= k
             \/ /\ \A k \in 1 .. n + 1 : Target(writes[k].path) # q
                /\ q \in DOMAIN c /\ d[q] = c[q]
  <2>1. CASE q = t
    <3>1. type \in Scalars /\ d[q] = Item(type, val)
      BY <1>4, <1>9, <2>1
    <3>2. n + 1 \in 1 .. n + 1 /\ \A j \in 1 .. n + 1 : j <= n + 1
      OBVIOUS
    <3>3. Target(writes[n + 1].path) = q
      BY <2>1 DEF t
    <3> QED BY <3>1, <3>2, <3>3
  <2>2. CASE q # t
    <3>1. q \in DOMAIN f /\ d[q] = f[q] /\ f[q].type \in Scalars
      BY <1>4, <1>5, <1>9, <2>2
    <3>2. Target(writes[n + 1].path) # q
      BY <2>2 DEF t
    <3>3. CASE \E k \in 1 .. n :
                  /\ Target(writes[k].path) = q
                  /\ f[q] = Item(writes[k].type, writes[k].val)
                  /\ \A j \in 1 .. n : Target(writes[j].path) = q => j <= k
      <4>1. PICK k \in 1 .. n :
                  /\ Target(writes[k].path) = q
                  /\ f[q] = Item(writes[k].type, writes[k].val)
                  /\ \A j \in 1 .. n : Target(writes[j].path) = q => j <= k
        BY <3>3
      <4>2. \A j \in 1 .. n + 1 : Target(writes[j].path) = q => j <= k
        BY <1>6, <3>2, <4>1
      <4> QED BY <1>7, <3>1, <4>1, <4>2
    <3>4. CASE /\ \A k \in 1 .. n : Target(writes[k].path) # q
               /\ q \in DOMAIN c /\ f[q] = c[q]
      BY <1>6, <3>1, <3>2, <3>4
    <3> QED BY <3>1, <3>3, <3>4 DEF Replayed
  <2> QED BY <2>1, <2>2
<1>10. Replayed(c, d, writes, n + 1)
  BY <1>8, <1>9 DEF Replayed
<1> QED BY <1>10 DEF d

(* The writes of a file.                                                   *)
LEMMA FileReplayed ==
    ASSUME TreeOK(config), NEW c, TreeOK(c), NEW text \in Texts,
           ReadFile(c, text).ret = 0
    PROVE  /\ text \notin Unreadable
           /\ Replayed(c, ReadFile(c, text).config, Files[text], Len(Files[text]))
<1> DEFINE W == Files[text]
           N == Len(W)
<1>0. text \notin Unreadable
  BY Readable
<1>1. /\ N \in Nat
      /\ \A i \in 1 .. N : W[i].path \in Seq(Tokens) /\ W[i].val \in Values
  BY <1>0, FileFacts
<1>2. PICK w : FileWalk(w, c, W, ReadFile(c, text))
  BY <1>0, ReadFileWalk
<1>3. \A k \in 0 .. N : \A i \in 0 .. k : Grows(w[i], w[k])
  BY <1>0, <1>2, FileGrows
<1>4. /\ w[0] = Outcome(0, c) /\ ReadFile(c, text) = w[N]
      /\ \A i \in 0 .. N : Sound(w[i])
      /\ \A i \in 1 .. N : w[i] = IF w[i - 1].ret = -1 THEN w[i - 1]
                                  ELSE Set(w[i - 1].config, W[i].path, W[i].type, W[i].val)
  BY <1>2, OutcomesAre DEF FileWalk
<1> HIDE DEF W, N
<1>5. ASSUME NEW i \in 0 .. N PROVE w[i].ret = 0 /\ TreeOK(w[i].config)
  <2>1. Grows(w[i], w[N])
    BY <1>1, <1>3
  <2> QED BY <1>4, <2>1 DEF Grows, Sound
<1> DEFINE T == {i \in 0 .. N : Replayed(c, w[i].config, W, i)}
<1>6. 0 \in T
  <2>1. Replayed(c, c, W, 0)
    BY DEF Replayed
  <2> QED BY <1>1, <1>4, <2>1 DEF Outcome
<1>7. ASSUME NEW i \in 0 .. N - 1, i \in T PROVE i + 1 \in T
  <2> DEFINE x == W[i + 1]
             f == w[i].config
  <2>1. /\ i + 1 \in 1 .. N /\ i + 1 \in 0 .. N /\ (i + 1) - 1 = i /\ i \in 0 .. N
        /\ i \in Nat
    BY <1>1
  <2>2. TreeOK(f) /\ w[i].ret # -1 /\ Replayed(c, f, W, i)
    BY <1>5, <1>7, <2>1
  <2>3. w[i + 1] = Set(f, x.path, x.type, x.val)
    <3> DEFINE j == i + 1
    <3> HIDE DEF j
    <3>1. w[j] = IF w[j - 1].ret = -1 THEN w[j - 1]
                 ELSE Set(w[j - 1].config, W[j].path, W[j].type, W[j].val)
      BY <1>4, <2>1 DEF j
    <3> QED BY <2>1, <2>2, <3>1 DEF j
  <2>4. Set(f, x.path, x.type, x.val).ret = 0
    BY <1>5, <2>1, <2>3
  <2>5. x.path \in Seq(Tokens) /\ x.val \in Values /\ x = W[i + 1]
    BY <1>1, <2>1
  <2> HIDE DEF x, f
  <2>6. Replayed(c, Set(f, x.path, x.type, x.val).config, W, i + 1)
    BY <2>1, <2>2, <2>4, <2>5, ReplayStep
  <2> QED BY <2>1, <2>3, <2>6
<1> HIDE DEF T
<1>8. \A i \in 0 .. N : i \in T
  BY <1>1, <1>6, <1>7, UpTo
<1>9. Replayed(c, w[N].config, W, N)
  BY <1>1, <1>8 DEF T
<1> QED BY <1>0, <1>4, <1>9 DEF W, N

(* With one write after those of a file.                                   *)
LEMMA OneMore ==
    ASSUME NEW S, NEW s \in Seq(S), NEW x
    PROVE  /\ Len(s) \in Nat /\ Len(Append(s, x)) = Len(s) + 1
           /\ DOMAIN Append(s, x) = 1 .. Len(s) + 1
           /\ Append(s, x)[Len(s) + 1] = x
           /\ \A i \in 1 .. Len(s) : Append(s, x)[i] = s[i]
<1> DEFINE T == S \cup {x}
<1>1. s \in Seq(T) /\ x \in T
  <2>1. /\ Len(s) \in Nat /\ DOMAIN s = 1 .. Len(s) /\ \A i \in DOMAIN s : s[i] \in T
        /\ s = [i \in 1 .. Len(s) |-> s[i]]
    OBVIOUS
  <2> QED BY <2>1
<1> HIDE DEF T
<1> QED BY <1>1

(* What the sets of an entry leave, when they have been made.              *)
Ran(c, d, writes) ==
    /\ Len(writes) \in Nat /\ DOMAIN writes = 1 .. Len(writes)
    /\ Replayed(c, d, writes, Len(writes))

(* What is given for an entry, with its text or its file.                  *)
LEMMA ApplyReplayed ==
    ASSUME TreeOK(config), NEW c, TreeOK(c),
           NEW e, e.path \in Seq(Tokens), NEW text \in Texts, text # NULL,
           Apply(c, e, text).ret = 0
    PROVE  /\ Ran(c, Apply(c, e, text).config, WritesOf(e, text))
           /\ Target(e.path) \in DOMAIN Apply(c, e, text).config
           /\ e.type = "yaml_file" => text \notin Unreadable
<1> DEFINE W == WritesOf(e, text)
<1>1. CASE e.type \in Scalars
  <2> DEFINE val == ValueOf[e.type][text]
             d   == Set(c, e.path, e.type, val)
             w   == Write(e.path, e.type, val)
  <2>1. Apply(c, e, text) = IF val = NULL THEN Outcome(-1, c) ELSE d
    BY <1>1 DEF Apply, Scalars
  <2>2. val # NULL
    BY <2>1 DEF Outcome
  <2>3. val \in Values /\ d.ret = 0 /\ Apply(c, e, text) = d
    BY <1>1, <2>1, <2>2, InitAssumption
  <2>4. W = <<w>> /\ e.type # "yaml_file"
    BY <1>1 DEF WritesOf, Scalars
  <2>5. w.path = e.path /\ w.type = e.type /\ w.val = val
    BY DEF Write
  <2> HIDE DEF val, w, W
  <2>6. Len(W) = 1 /\ DOMAIN W = 1 .. 1 /\ W[1] = w
    BY <2>4
  <2>7. Replayed(c, c, W, 0)
    BY DEF Replayed
  <2>8. 0 \in Nat /\ 0 + 1 = 1
    OBVIOUS
  <2>9. /\ W[0 + 1].path = e.path /\ W[0 + 1].type = e.type /\ W[0 + 1].val = val
    BY <2>5, <2>6, <2>8
  <2>10. Replayed(c, d.config, W, 0 + 1)
    BY <2>3, <2>7, <2>8, <2>9, ReplayStep
  <2>11. Replayed(c, d.config, W, 1)
    BY <2>8, <2>10
  <2>12. Target(e.path) \in DOMAIN d.config
    BY <2>5, <2>6, <2>11 DEF Replayed
  <2> QED BY <2>3, <2>4, <2>6, <2>11, <2>12 DEF Ran, W
<1>2. CASE e.type = "yaml_file"
  <2> DEFINE read == ReadFile(c, text)
             d    == Set(read.config, e.path, "str", text)
             F    == Files[text]
             N    == Len(F)
             w    == Write(e.path, "str", text)
  <2>1. Apply(c, e, text) = IF read.ret = -1 THEN read ELSE d
    BY <1>2 DEF Apply, Scalars
  <2>2. Sound(read) /\ text \in Values
    BY ReadFileSound, InitAssumption
  <2>3. read.ret = 0 /\ d.ret = 0 /\ TreeOK(read.config) /\ Apply(c, e, text) = d
    BY <2>1, <2>2 DEF Sound
  <2>4. text \notin Unreadable /\ Replayed(c, read.config, F, N)
    BY <2>3, FileReplayed
  <2>5. F \in Seq([path : Seq(Tokens), type : CallTypes, val : Values])
    BY <2>4, InitAssumption
  <2>6. W = Append(F, w)
    BY <1>2 DEF WritesOf
  <2>7. w.path = e.path /\ w.type = "str" /\ w.val = text
    BY DEF Write
  <2> HIDE DEF read, F, w, W
  <2>8. /\ N \in Nat /\ Len(W) = N + 1 /\ DOMAIN W = 1 .. N + 1 /\ W[N + 1] = w
        /\ \A i \in 1 .. N : W[i] = F[i]
    BY <2>5, <2>6, OneMore
  <2> HIDE DEF N
  <2>9. Replayed(c, read.config, W, N)
    BY <2>4, <2>8 DEF Replayed
  <2>10. Replayed(c, d.config, W, N + 1)
    BY <2>2, <2>3, <2>7, <2>8, <2>9, ReplayStep
  <2>11. N + 1 \in Nat
    BY <2>8
  <2>12. Target(e.path) \in DOMAIN d.config
    <3>1. N + 1 \in 1 .. N + 1
      BY <2>8
    <3> QED BY <2>7, <2>8, <2>10, <3>1 DEF Replayed
  <2> QED BY <2>3, <2>4, <2>8, <2>10, <2>11, <2>12 DEF Ran, W
<1>3. CASE e.type \notin Scalars /\ e.type # "yaml_file"
  BY <1>3 DEF Apply, Outcome
<1> QED BY <1>1, <1>2, <1>3

(* An option without an argument sets what is true.                        *)
LEMMA OptionReplayed ==
    ASSUME TreeOK(config), NEW c, TreeOK(c),
           NEW e, e.path \in Seq(Tokens), NEW text, text # NULL => text \in Texts,
           OptOutcome(c, e, text).ret = 0
    PROVE  Ran(c, OptOutcome(c, e, text).config, WritesOf(e, text))
<1>1. CASE text # NULL
  <2>1. OptOutcome(c, e, text) = Apply(c, e, text) /\ text \in Texts
    BY <1>1 DEF OptOutcome
  <2> QED BY <1>1, <2>1, ApplyReplayed
<1>2. CASE text = NULL /\ e.type = "bool"
  <2> DEFINE d == Set(c, e.path, "bool", TRUEVALUE)
             w == Write(e.path, "bool", TRUEVALUE)
             W == WritesOf(e, text)
  <2>1. OptOutcome(c, e, text) = d /\ d.ret = 0 /\ TRUEVALUE \in Values
    BY <1>2, InitAssumption DEF OptOutcome
  <2>2. W = <<w>>
    BY <1>2 DEF WritesOf
  <2>3. w.path = e.path /\ w.type = "bool" /\ w.val = TRUEVALUE
    BY DEF Write
  <2> HIDE DEF w, W
  <2>4. Len(W) = 1 /\ DOMAIN W = 1 .. 1 /\ W[1] = w
    BY <2>2
  <2>5. Replayed(c, c, W, 0)
    BY DEF Replayed
  <2>6. 0 \in Nat /\ 0 + 1 = 1
    OBVIOUS
  <2>7. /\ W[0 + 1].path = e.path /\ W[0 + 1].type = "bool"
        /\ W[0 + 1].val = TRUEVALUE
    BY <2>3, <2>4, <2>6
  <2>8. Replayed(c, d.config, W, 0 + 1)
    BY <2>1, <2>5, <2>6, <2>7, ReplayStep
  <2> QED BY <2>1, <2>4, <2>6, <2>8 DEF Ran, W
<1>3. CASE text = NULL /\ e.type # "bool"
  BY <1>3 DEF OptOutcome, Outcome
<1> QED BY <1>1, <1>2, <1>3

(* What is missing before it is given leads to no place yet.               *)
LEMMA MissingTarget ==
    ASSUME TreeOK(config), NEW c, TreeOK(c),
           NEW e, e.path \in Seq(Tokens), e.path # NULL, ~Unfindable(e.path),
           NEW text \in Texts, Apply(c, e, text).ret = 0,
           Find(c, e.path).status = "missing"
    PROVE  Target(e.path) \notin DOMAIN c
<1> DEFINE path == e.path
           N == Len(Steps(path))
           t == Target(path)
<1> SUFFICES ASSUME t \in DOMAIN c PROVE FALSE
  OBVIOUS
<1>1. \E f, type, val : /\ TreeOK(f) /\ Within(c, f) /\ val \in Values
                        /\ Set(f, path, type, val).ret = 0
  <2>1. CASE e.type \in Scalars
    <3> DEFINE val == ValueOf[e.type][text]
    <3>1. Apply(c, e, text) = IF val = NULL THEN Outcome(-1, c)
                              ELSE Set(c, path, e.type, val)
      BY <2>1 DEF Apply, Scalars
    <3>2. val # NULL
      BY <3>1 DEF Outcome
    <3>3. val \in Values /\ Set(c, path, e.type, val).ret = 0 /\ Within(c, c)
      BY <2>1, <3>1, <3>2, InitAssumption DEF Within
    <3> HIDE DEF val
    <3> QED BY <3>3
  <2>2. CASE e.type = "yaml_file"
    <3> DEFINE read == ReadFile(c, text)
               d    == Set(read.config, path, "str", text)
    <3>1. Apply(c, e, text) = IF read.ret = -1 THEN read ELSE d
      BY <2>2 DEF Apply, Scalars
    <3>2. Sound(read) /\ text \in Values
      BY ReadFileSound, InitAssumption
    <3>3. read.ret = 0 /\ d.ret = 0 /\ TreeOK(read.config)
      BY <3>1, <3>2 DEF Sound
    <3>4. Within(c, read.config)
      BY <3>3, ReadGrows
    <3> HIDE DEF read
    <3> QED BY <3>2, <3>3, <3>4
  <2>3. CASE e.type \notin Scalars /\ e.type # "yaml_file"
    BY <2>3 DEF Apply, Outcome
  <2> QED BY <2>1, <2>2, <2>3
<1>2. PICK f, type, val : /\ TreeOK(f) /\ Within(c, f) /\ val \in Values
                          /\ Set(f, path, type, val).ret = 0
  BY <1>1
<1> HIDE DEF path
<1>3. path \in Seq(Tokens) /\ path # NULL /\ ~Unfindable(path)
  BY DEF path
<1>4. Left(f, Set(f, path, type, val).config, path, type, val)
  BY <1>2, <1>3, SetLeaves
<1>5. N \in Nat \ {0} /\ N \in 1 .. N
  BY <1>3, StepsType
<1>6. /\ Len(path) < MaxDepth
      /\ \A i \in 1 .. N : StepLegal(f, path, type, i)
  BY <1>4 DEF Left
<1> HIDE DEF N
<1>7. /\ \A i : KeyOf(f, path, i) = KeyOf(c, path, i)
      /\ \A i : PlaceOf(f, path, i) = PlaceOf(c, path, i)
      /\ PlaceOf(c, path, N) = t
  <2>1. PlaceOf(c, path, N) = t
    BY SamePlaces DEF Target, N
  <2> QED BY <1>2, <2>1, SamePlaces
<1>8. ASSUME NEW i \in 1 .. N PROVE StepLegal(c, path, type, i)
  <2>1. StepLegal(f, path, type, i)
    BY <1>6
  <2>2. PlaceOf(c, path, i) \in DOMAIN c =>
           f[PlaceOf(c, path, i)].type = c[PlaceOf(c, path, i)].type
           /\ PlaceOf(c, path, i) \in DOMAIN f
    BY <1>2 DEF Within
  <2> QED BY <1>7, <2>1, <2>2 DEF StepLegal
<1>9. Reach(c, path, type) = N
  <2> DEFINE r == Reach(c, path, type)
  <2>1. r \in 0 .. N /\ (r < N => ~StepLegal(c, path, type, r + 1))
    BY <1>3, ReachIs DEF N
  <2> HIDE DEF r
  <2>2. r < N => r + 1 \in 1 .. N
    BY <1>5, <2>1
  <2>3. ~(r < N)
    BY <1>8, <2>1, <2>2
  <2>4. r = N
    BY <1>5, <2>1, <2>3
  <2> QED BY <2>4 DEF r
<1>10. Settable(c, path, type)
  BY <1>6, <1>9 DEF Settable, N
<1>11. PlaceOf(c, path, N) \in DOMAIN c
  BY <1>7
<1>12. Find(c, path).status = "found"
  BY <1>3, <1>10, <1>11, SettableIsFound DEF N
<1> QED BY <1>12 DEF path

(* The turn of a write, and the stage and the number of a turn.            *)
TurnOf(p) ==
    IF p[1] = 1 THEN p[2]
    ELSE IF p[1] = 2 THEN OptTurns + p[2]
    ELSE OptTurns + Len(map) + p[2]

StageOf(k) ==
    IF k <= OptTurns THEN 1 ELSE IF k <= OptTurns + Len(map) THEN 2 ELSE 3

NumberOf(k) ==
    IF k <= OptTurns THEN k
    ELSE IF k <= OptTurns + Len(map) THEN k - OptTurns
    ELSE k - OptTurns - Len(map)

WritesOfTurn(k) == WritesIn(StageOf(k), NumberOf(k))

(* How many turns there are.                                               *)
LEMMA Lengths ==
    ASSUME TInv
    PROVE  /\ Len(opts) \in Nat /\ Len(map) \in Nat /\ OptTurns \in Nat
           /\ DOMAIN map = 1 .. Len(map) /\ DOMAIN opts = 1 .. Len(opts)
           /\ OptTurns <= Len(opts) /\ (~Skipped => OptTurns = Len(opts))
           /\ Total = OptTurns + 2 * Len(map)
<1>1. /\ Len(opts) \in Nat /\ Len(map) \in Nat
      /\ DOMAIN map = 1 .. Len(map) /\ DOMAIN opts = 1 .. Len(opts)
  BY DEF TInv, Steady, MapFacts, ArgumentFacts
<1> QED BY <1>1 DEF OptTurns, Total

(* Each write is one of its turn.                                          *)
LEMMA PlaceFacts ==
    ASSUME TInv, NEW p \in Places
    PROVE  /\ TurnOf(p) \in 1 .. Total
           /\ p[1] = StageOf(TurnOf(p)) /\ p[2] = NumberOf(TurnOf(p))
           /\ p[3] \in DOMAIN WritesOfTurn(TurnOf(p))
           /\ WriteAt(p) = WritesOfTurn(TurnOf(p))[p[3]]
           /\ p = <<p[1], p[2], p[3]>>
<1>1. PICK s \in 1 .. 3, n \in 1 .. Len(opts) + Len(map) :
         \E j \in DOMAIN WritesIn(s, n) : p = <<s, n, j>>
  BY DEF Places
<1>2. PICK j \in DOMAIN WritesIn(s, n) : p = <<s, n, j>>
  BY <1>1
<1>3. p[1] = s /\ p[2] = n /\ p[3] = j /\ p = <<p[1], p[2], p[3]>>
  BY <1>2
<1>4. n \in Nat /\ n >= 1
  BY Lengths
<1>5. /\ s = 1 => n <= Len(opts) /\ FromOption(n) # <<>>
      /\ s = 2 => n <= Len(map)
      /\ s = 3 => n <= Len(map)
  <2>1. s = 1 => WritesIn(s, n) = IF n <= Len(opts) THEN FromOption(n) ELSE <<>>
    BY DEF WritesIn
  <2>2. s = 2 => WritesIn(s, n) = IF n <= Len(map) THEN FromEnv(n) ELSE <<>>
    BY DEF WritesIn
  <2>3. s = 3 => WritesIn(s, n) = IF n <= Len(map) THEN FromDefault(n) ELSE <<>>
    BY DEF WritesIn
  <2>4. WritesIn(s, n) # <<>>
    BY <1>2
  <2> QED BY <2>1, <2>2, <2>3, <2>4
<1>6. s = 1 => ~Skipped
  <2> SUFFICES ASSUME s = 1, Skipped PROVE FALSE
    OBVIOUS
  <2>1. CASE opts = <<>>
    <3>1. Len(opts) = 0
      BY <2>1
    <3> QED BY <1>4, <1>5, <3>1
  <2>2. CASE Shorts = {}
    BY <1>5, <2>2 DEF FromOption, Known
  <2> QED BY <2>1, <2>2 DEF Skipped
<1> DEFINE m == OptTurns
           l == Len(map)
           k == TurnOf(p)
<1>7. /\ m \in Nat /\ l \in Nat /\ Total = m + 2 * l
      /\ s = 1 => n <= m
  BY <1>5, <1>6, Lengths
<1>8. k = IF s = 1 THEN n ELSE IF s = 2 THEN m + n ELSE m + l + n
  BY <1>3 DEF TurnOf
<1>9. /\ StageOf(k) = IF k <= m THEN 1 ELSE IF k <= m + l THEN 2 ELSE 3
      /\ NumberOf(k) = IF k <= m THEN k ELSE IF k <= m + l THEN k - m ELSE k - m - l
  BY DEF StageOf, NumberOf
<1> HIDE DEF m, l, k
<1>10. k \in 1 .. Total /\ StageOf(k) = s /\ NumberOf(k) = n
  <2>1. CASE s = 1
    <3>1. k = n /\ n <= m
      BY <1>7, <1>8, <2>1
    <3> QED BY <1>4, <1>7, <1>9, <2>1, <3>1
  <2>2. CASE s = 2
    <3>1. k = m + n /\ n <= l
      BY <1>5, <1>8, <2>2 DEF l
    <3>2. ~(k <= m) /\ k <= m + l /\ k - m = n /\ k \in 1 .. m + 2 * l
      BY <1>4, <1>7, <3>1
    <3> QED BY <1>7, <1>9, <2>2, <3>2
  <2>3. CASE s = 3
    <3>1. k = m + l + n /\ n <= l
      BY <1>5, <1>8, <2>3 DEF l
    <3>2. ~(k <= m) /\ ~(k <= m + l) /\ k - m - l = n /\ k \in 1 .. m + 2 * l
      BY <1>4, <1>7, <3>1
    <3> QED BY <1>7, <1>9, <2>3, <3>2
  <2> QED BY <2>1, <2>2, <2>3
<1>11. WritesOfTurn(k) = WritesIn(s, n)
  BY <1>10 DEF WritesOfTurn
<1>12. WriteAt(p) = WritesIn(s, n)[j]
  BY <1>3 DEF WriteAt
<1> QED BY <1>2, <1>3, <1>10, <1>11, <1>12 DEF k

(* Each write of a turn is one of them.                                    *)
LEMMA TurnPlaces ==
    ASSUME TInv, NEW k \in 1 .. Total, NEW j \in DOMAIN WritesOfTurn(k)
    PROVE  LET p == <<StageOf(k), NumberOf(k), j>>
           IN  p \in Places /\ TurnOf(p) = k /\ WriteAt(p) = WritesOfTurn(k)[j]
<1> DEFINE m == OptTurns
           l == Len(map)
           s == StageOf(k)
           n == NumberOf(k)
           p == <<s, n, j>>
<1>1. m \in Nat /\ l \in Nat /\ Len(opts) \in Nat /\ m <= Len(opts) /\ Total = m + 2 * l
  BY Lengths
<1>2. /\ s = IF k <= m THEN 1 ELSE IF k <= m + l THEN 2 ELSE 3
      /\ n = IF k <= m THEN k ELSE IF k <= m + l THEN k - m ELSE k - m - l
  BY DEF StageOf, NumberOf
<1>3. p[1] = s /\ p[2] = n /\ p[3] = j
  OBVIOUS
<1>4. TurnOf(p) = IF s = 1 THEN n ELSE IF s = 2 THEN m + n ELSE m + l + n
  BY <1>3 DEF TurnOf
<1>5. WritesOfTurn(k) = WritesIn(s, n)
  BY DEF WritesOfTurn
<1>6. WriteAt(p) = WritesOfTurn(k)[j]
  BY <1>3, <1>5 DEF WriteAt
<1>7. k \in Nat /\ k >= 1 /\ k <= m + 2 * l
  <2> DEFINE T == Total
  <2>1. k \in 1 .. T /\ T = m + 2 * l
    BY <1>1
  <2> HIDE DEF T, m, l
  <2> QED BY <1>1, <2>1
<1> HIDE DEF m, l, s, n, p
<1>8. s \in 1 .. 3 /\ n \in 1 .. Len(opts) + l /\ TurnOf(p) = k
  <2>1. CASE k <= m
    BY <1>1, <1>2, <1>4, <1>7, <2>1
  <2>2. CASE ~(k <= m) /\ k <= m + l
    <3>1. s = 2 /\ n = k - m
      BY <1>2, <2>2
    <3> QED BY <1>1, <1>4, <1>7, <2>2, <3>1
  <2>3. CASE ~(k <= m) /\ ~(k <= m + l)
    <3>1. s = 3 /\ n = k - m - l
      BY <1>2, <2>3
    <3> QED BY <1>1, <1>4, <1>7, <2>3, <3>1
  <2> QED BY <2>1, <2>2, <2>3
<1>9. p \in Places
  <2> DEFINE D(x, y) == DOMAIN WritesIn(x, y)
             S(x, y) == {<<x, y, i>> : i \in D(x, y)}
             L       == Len(opts) + Len(map)
  <2>1. j \in D(s, n) /\ s \in 1 .. 3 /\ n \in 1 .. L
    BY <1>5, <1>8 DEF l
  <2> HIDE DEF D, L
  <2>2. p \in S(s, n)
    BY <2>1 DEF p
  <2> HIDE DEF S
  <2>3. p \in UNION {S(x, y) : x \in 1 .. 3, y \in 1 .. L}
    BY <2>1, <2>2
  <2> QED BY <2>3 DEF Places, S, D, L
<1>10. p \in Places /\ TurnOf(p) = k /\ WriteAt(p) = WritesOfTurn(k)[j]
  BY <1>6, <1>8, <1>9
<1>11. p = <<StageOf(k), NumberOf(k), j>>
  BY DEF p, s, n
<1> HIDE DEF WritesOfTurn
<1> QED BY <1>10, <1>11

(* A write of a later turn is later.                                       *)
LEMMA LaterTurn ==
    ASSUME TInv, NEW p \in Places, NEW r \in Places, TurnOf(r) <= TurnOf(p),
           TurnOf(r) = TurnOf(p) => r[3] <= p[3]
    PROVE  Later(p, r)
<1> DEFINE m == OptTurns
           l == Len(map)
           j == TurnOf(r)
           k == TurnOf(p)
<1>1. m \in Nat /\ l \in Nat
  BY Lengths
<1>2. j \in Int /\ k \in Int
  BY PlaceFacts
<1>3. /\ p[1] = StageOf(k) /\ p[2] = NumberOf(k)
      /\ r[1] = StageOf(j) /\ r[2] = NumberOf(j)
  BY PlaceFacts
<1>4. ASSUME NEW x
      PROVE  /\ StageOf(x) = IF x <= m THEN 1 ELSE IF x <= m + l THEN 2 ELSE 3
             /\ NumberOf(x) = IF x <= m THEN x ELSE IF x <= m + l THEN x - m
                              ELSE x - m - l
  BY DEF StageOf, NumberOf
<1>5. j <= k
  OBVIOUS
<1>6. CASE j = k
  BY <1>3, <1>6 DEF Later
<1>7. CASE j # k
  <2> HIDE DEF m, l, j, k
  <2>1. /\ p[1] = IF k <= m THEN 1 ELSE IF k <= m + l THEN 2 ELSE 3
        /\ p[2] = IF k <= m THEN k ELSE IF k <= m + l THEN k - m ELSE k - m - l
        /\ r[1] = IF j <= m THEN 1 ELSE IF j <= m + l THEN 2 ELSE 3
        /\ r[2] = IF j <= m THEN j ELSE IF j <= m + l THEN j - m ELSE j - m - l
    BY <1>3, <1>4
  <2>2. p[1] > r[1] \/ (p[1] = r[1] /\ p[2] > r[2])
    BY <1>1, <1>2, <1>5, <1>7, <2>1
  <2> QED BY <2>2 DEF Later
<1> QED BY <1>6, <1>7

(* A place is hidden if its path is.                                       *)
LEMMA TargetHidden ==
    ASSUME TreeOK(config), NEW path \in Seq(Tokens)
    PROVE  Hidden(Target(path)) <=> Hidden(path)
<1> DEFINE n == Len(Steps(path))
           S == Tokens \cup Int \cup {NULL}
<1>1. /\ n \in Nat \ {0} /\ Len(path) \in Nat
      /\ path # <<>> => n = Len(path)
      /\ path = <<>> => n = 1 /\ Len(path) = 0
      /\ \A j \in 1 .. n : /\ Steps(path)[j] \in Tokens \cup {NULL}
                           /\ path # <<>> => Steps(path)[j] = path[j]
  BY StepsType
<1>2. Target(path) = [j \in 1 .. n |-> KeyOf(config, path, j)]
  BY DEF Target, PlaceOf
<1>3. KeyOf(config, path, 1) = Steps(path)[1]
  BY DEF KeyOf, TreeOK
<1> HIDE DEF n
<1>4. \A j \in 1 .. n : KeyOf(config, path, j) \in S
  <2> SUFFICES ASSUME NEW j \in 1 .. n PROVE KeyOf(config, path, j) \in S
    OBVIOUS
  <2> DEFINE x == Steps(path)[j]
  <2>1. x \in Tokens \cup {NULL}
    BY <1>1
  <2>2. x \in Brackets => Element(x, 0) \in Int
    BY IndexAssumption DEF Element
  <2>3. x \notin Brackets => Element(x, 0) = 0
    BY DEF Element
  <2>4. KeyOf(config, path, j) \in {x, Element(x, 0)}
    BY DEF KeyOf
  <2> HIDE DEF x
  <2> QED BY <2>1, <2>2, <2>3, <2>4
<1> HIDE DEF S
<1>5. Target(path)[1] = Steps(path)[1]
  BY <1>1, <1>2, <1>3
<1>6. Len(Target(path)) = n
  <2>1. Target(path) \in Seq(S)
    BY <1>1, <1>2, <1>4
  <2> QED BY <1>1, <1>2, <2>1
<1>7. n > 1 => path # <<>> /\ 1 \in 1 .. n
  BY <1>1
<1>8. n > 1 => Steps(path)[1] = path[1]
  BY <1>1, <1>7
<1>9. n > 1 <=> Len(path) > 1
  BY <1>1
<1> QED BY <1>5, <1>6, <1>8, <1>9 DEF Hidden

(* The turn of the default of an entry.                                    *)
DefaultAt(j) == OptTurns + Len(map) + j

(* The writes to a place that the first k turns have made.                 *)
WrittenBy(k, q) == {p \in WritesTo(q) : TurnOf(p) <= k}

LastBy(c, k, q) ==
    \E p \in WrittenBy(k, q) :
        /\ \A r \in WrittenBy(k, q) : Later(p, r)
        /\ c[q] = Item(WriteAt(p).type, WriteAt(p).val)

FirstDefaultBy(c, k, q) ==
    /\ WrittenBy(k, q) = {}
    /\ \E n \in DOMAIN map :
          LET e == map[n]
          IN  /\ FirstDefault(n) /\ e.type \in Scalars /\ Target(e.path) = q
              /\ DefaultAt(n) <= k
              /\ c[q] = Item(e.type, ValueOf[e.type][e.default])

(* What Precedence says of a returned configuration, of the one after k    *)
(* turns; every file read was readable, and a default that counts is there *)
(* from its turn on.                                                       *)
SoFar(c, k) ==
    /\ \A p \in Places : TurnOf(p) <= k => Target(WriteAt(p).path) \in DOMAIN c
    /\ \A q \in DOMAIN c : c[q].type \in Scalars /\ ~Hidden(q) =>
          LastBy(c, k, q) \/ FirstDefaultBy(c, k, q)
    /\ \A j \in DOMAIN map : DefaultAt(j) <= k /\ Counts(j) =>
          Target(map[j].path) \in DOMAIN c
    /\ \A j \in DOMAIN map : DefaultAt(j) <= k /\ FromDefault(j) # <<>> =>
          map[j].default \notin Unreadable

(* A turn that has made its writes keeps it.                               *)
LEMMA RanKeeps ==
    ASSUME TInv, NEW k \in 1 .. Total, NEW c, NEW d, Within(c, d), SoFar(c, k - 1),
           Ran(c, d, WritesOfTurn(k)),
           \A j \in DOMAIN map : DefaultAt(j) = k =>
              /\ Counts(j) => Target(map[j].path) \in DOMAIN d
              /\ FromDefault(j) # <<>> => map[j].default \notin Unreadable
    PROVE  SoFar(d, k)
<1> DEFINE W == WritesOfTurn(k)
           L == Len(W)
<1>1. /\ k \in Int /\ L \in Nat /\ DOMAIN W = 1 .. L
      /\ \A j \in DOMAIN map : DefaultAt(j) \in Int
  <2>1. \A j \in DOMAIN map : DefaultAt(j) \in Int
    BY Lengths DEF DefaultAt
  <2>2. k \in Int
    BY Lengths
  <2> QED BY <2>1, <2>2 DEF Ran
<1>2. /\ \A i \in 1 .. L : Target(W[i].path) \in DOMAIN d
      /\ \A q \in DOMAIN d : d[q].type \in Scalars =>
            \/ \E i \in 1 .. L :
                  /\ Target(W[i].path) = q
                  /\ d[q] = Item(W[i].type, W[i].val)
                  /\ \A j \in 1 .. L : Target(W[j].path) = q => j <= i
            \/ /\ \A i \in 1 .. L : Target(W[i].path) # q
               /\ q \in DOMAIN c /\ d[q] = c[q]
  BY DEF Ran, Replayed
<1>3. ASSUME NEW p \in Places
      PROVE  /\ TurnOf(p) \in Int
             /\ TurnOf(p) <= k => TurnOf(p) = k \/ TurnOf(p) <= k - 1
             /\ TurnOf(p) <= k - 1 => TurnOf(p) <= k
             /\ TurnOf(p) = k => p[3] \in 1 .. L /\ WriteAt(p) = W[p[3]]
  <2>1. /\ TurnOf(p) \in Int
        /\ TurnOf(p) = k => p[3] \in DOMAIN W /\ WriteAt(p) = W[p[3]]
    BY PlaceFacts
  <2> HIDE DEF W, L
  <2> QED BY <1>1, <2>1
<1>4. ASSUME NEW i \in 1 .. L
      PROVE  \E p \in Places : TurnOf(p) = k /\ p[3] = i /\ WriteAt(p) = W[i]
  <2>1. i \in DOMAIN W
    BY <1>1
  <2> DEFINE p == <<StageOf(k), NumberOf(k), i>>
  <2>2. p \in Places /\ TurnOf(p) = k /\ WriteAt(p) = W[i]
    BY <2>1, TurnPlaces
  <2>3. p[3] = i
    OBVIOUS
  <2> QED BY <2>2, <2>3
<1>5. ASSUME NEW j \in DOMAIN map, DefaultAt(j) <= k
      PROVE  DefaultAt(j) = k \/ DefaultAt(j) <= k - 1
  BY <1>1, <1>5
<1> HIDE DEF W, L
<1>6. ASSUME NEW p \in Places, TurnOf(p) <= k
      PROVE  Target(WriteAt(p).path) \in DOMAIN d
  <2>1. CASE TurnOf(p) = k
    BY <1>2, <1>3, <2>1
  <2>2. CASE TurnOf(p) <= k - 1
    BY <2>2 DEF SoFar, Within
  <2> QED BY <1>3, <1>6, <2>1, <2>2
<1>7. ASSUME NEW q \in DOMAIN d, d[q].type \in Scalars, ~Hidden(q)
      PROVE  LastBy(d, k, q) \/ FirstDefaultBy(d, k, q)
  <2>1. CASE \E i \in 1 .. L :
                /\ Target(W[i].path) = q
                /\ d[q] = Item(W[i].type, W[i].val)
                /\ \A j \in 1 .. L : Target(W[j].path) = q => j <= i
    <3>1. PICK i \in 1 .. L :
                /\ Target(W[i].path) = q
                /\ d[q] = Item(W[i].type, W[i].val)
                /\ \A j \in 1 .. L : Target(W[j].path) = q => j <= i
      BY <2>1
    <3>2. PICK p \in Places : TurnOf(p) = k /\ p[3] = i /\ WriteAt(p) = W[i]
      BY <1>4
    <3>3. p \in WrittenBy(k, q)
      BY <1>1, <3>1, <3>2 DEF WrittenBy, WritesTo
    <3>4. ASSUME NEW r \in WrittenBy(k, q) PROVE Later(p, r)
      <4>1. r \in Places /\ TurnOf(r) <= TurnOf(p) /\ Target(WriteAt(r).path) = q
        BY <3>2 DEF WrittenBy, WritesTo
      <4>2. TurnOf(r) = TurnOf(p) => r[3] <= p[3]
        BY <1>3, <3>1, <3>2, <4>1
      <4> QED BY <4>1, <4>2, LaterTurn
    <3> QED BY <3>1, <3>2, <3>3, <3>4 DEF LastBy
  <2>2. CASE /\ \A i \in 1 .. L : Target(W[i].path) # q
             /\ q \in DOMAIN c /\ d[q] = c[q]
    <3>1. WrittenBy(k, q) = WrittenBy(k - 1, q)
      <4>1. ASSUME NEW p \in Places, Target(WriteAt(p).path) = q
            PROVE  TurnOf(p) # k
        BY <1>3, <2>2, <4>1
      <4> QED BY <1>3, <4>1 DEF WrittenBy, WritesTo
    <3>2. LastBy(c, k - 1, q) \/ FirstDefaultBy(c, k - 1, q)
      BY <1>7, <2>2 DEF SoFar
    <3>3. LastBy(c, k - 1, q) => LastBy(d, k, q)
      BY <2>2, <3>1 DEF LastBy
    <3>4. \A n \in DOMAIN map : DefaultAt(n) <= k - 1 => DefaultAt(n) <= k
      BY <1>1
    <3>5. FirstDefaultBy(c, k - 1, q) => FirstDefaultBy(d, k, q)
      BY <2>2, <3>1, <3>4 DEF FirstDefaultBy
    <3> QED BY <3>2, <3>3, <3>5
  <2> QED BY <1>2, <1>7, <2>1, <2>2
<1>8. ASSUME NEW j \in DOMAIN map, DefaultAt(j) <= k
      PROVE  /\ Counts(j) => Target(map[j].path) \in DOMAIN d
             /\ FromDefault(j) # <<>> => map[j].default \notin Unreadable
  BY <1>5, <1>8 DEF SoFar, Within
<1> QED BY <1>6, <1>7, <1>8 DEF SoFar

(* Where a write is from.                                                  *)
LEMMA PlaceSource ==
    ASSUME TInv, NEW p \in Places
    PROVE  \/ /\ p[2] \in DOMAIN opts /\ p[3] \in DOMAIN FromOption(p[2])
              /\ WriteAt(p) = FromOption(p[2])[p[3]]
           \/ /\ p[2] \in DOMAIN map /\ p[3] \in DOMAIN FromEnv(p[2])
              /\ WriteAt(p) = FromEnv(p[2])[p[3]]
           \/ /\ p[2] \in DOMAIN map /\ p[3] \in DOMAIN FromDefault(p[2])
              /\ WriteAt(p) = FromDefault(p[2])[p[3]]
              /\ TurnOf(p) = DefaultAt(p[2])
<1>1. PICK s \in 1 .. 3, n \in 1 .. Len(opts) + Len(map) :
         \E j \in DOMAIN WritesIn(s, n) : p = <<s, n, j>>
  BY DEF Places
<1>2. PICK j \in DOMAIN WritesIn(s, n) : p = <<s, n, j>>
  BY <1>1
<1>3. p[1] = s /\ p[2] = n /\ p[3] = j /\ WriteAt(p) = WritesIn(s, n)[j]
  BY <1>2 DEF WriteAt
<1>4. n \in Nat /\ n >= 1
  BY Lengths
<1>5. DOMAIN map = 1 .. Len(map) /\ DOMAIN opts = 1 .. Len(opts)
      /\ Len(map) \in Nat /\ Len(opts) \in Nat
  BY Lengths
<1>6. WritesIn(s, n) # <<>>
  BY <1>2
<1>7. CASE s = 1
  <2>1. WritesIn(s, n) = IF n <= Len(opts) THEN FromOption(n) ELSE <<>>
    BY <1>7 DEF WritesIn
  <2>2. n <= Len(opts)
    BY <1>6, <2>1
  <2>3. n \in DOMAIN opts
    BY <1>4, <1>5, <2>2
  <2> QED BY <1>2, <1>3, <2>1, <2>2, <2>3
<1>8. CASE s = 2
  <2>1. WritesIn(s, n) = IF n <= Len(map) THEN FromEnv(n) ELSE <<>>
    BY <1>8 DEF WritesIn
  <2>2. n <= Len(map)
    BY <1>6, <2>1
  <2>3. n \in DOMAIN map
    BY <1>4, <1>5, <2>2
  <2> QED BY <1>2, <1>3, <2>1, <2>2, <2>3
<1>9. CASE s = 3
  <2>1. WritesIn(s, n) = IF n <= Len(map) THEN FromDefault(n) ELSE <<>>
    BY <1>9 DEF WritesIn
  <2>2. n <= Len(map)
    BY <1>6, <2>1
  <2>3. n \in DOMAIN map
    BY <1>4, <1>5, <2>2
  <2>4. TurnOf(p) = DefaultAt(p[2])
    BY <1>3, <1>9 DEF TurnOf, DefaultAt
  <2> QED BY <1>2, <1>3, <2>1, <2>2, <2>3, <2>4
<1> QED BY <1>7, <1>8, <1>9

(* What an option or a variable gives, it gives before any default.        *)
LEMMA GivenBefore ==
    ASSUME TInv, NEW q, Given(q)
    PROVE  \E p \in Places : /\ TurnOf(p) <= OptTurns + Len(map)
                             /\ Target(WriteAt(p).path) = q
<1> DEFINE m == OptTurns
           l == Len(map)
<1>1. /\ m \in Nat /\ l \in Nat /\ Total = m + 2 * l
      /\ DOMAIN map = 1 .. l /\ DOMAIN opts = 1 .. Len(opts)
      /\ Len(opts) \in Nat /\ (~Skipped => m = Len(opts))
  BY Lengths
<1>2. ASSUME NEW k \in 1 .. Total, k <= m + l, Hits(WritesOfTurn(k), q)
      PROVE  \E p \in Places : /\ TurnOf(p) <= m + l
                               /\ Target(WriteAt(p).path) = q
  <2>1. PICK j \in DOMAIN WritesOfTurn(k) : Target(WritesOfTurn(k)[j].path) = q
    BY <1>2 DEF Hits
  <2> DEFINE p == <<StageOf(k), NumberOf(k), j>>
  <2>2. p \in Places /\ TurnOf(p) = k /\ WriteAt(p) = WritesOfTurn(k)[j]
    BY TurnPlaces
  <2> QED BY <1>2, <2>1, <2>2
<1>3. CASE \E n \in DOMAIN opts : Hits(FromOption(n), q)
  <2>1. PICK n \in DOMAIN opts : Hits(FromOption(n), q)
    BY <1>3
  <2>2. FromOption(n) # <<>>
    BY <2>1 DEF Hits
  <2>3. ~Skipped
    <3>1. opts # <<>>
      BY <2>1
    <3>2. Shorts # {}
      BY <2>2 DEF FromOption, Known
    <3> QED BY <3>1, <3>2 DEF Skipped
  <2>4. n \in Nat /\ n >= 1 /\ n <= m /\ n <= Len(opts)
    BY <1>1, <2>1, <2>3
  <2> HIDE DEF m, l
  <2>5. n \in 1 .. Total /\ n <= m + l
    <3>1. m \in Nat /\ l \in Nat
      BY <1>1
    <3>2. n \in 1 .. m + 2 * l /\ n <= m + l
      BY <2>4, <3>1
    <3> QED BY <1>1, <3>2
  <2>6. StageOf(n) = 1 /\ NumberOf(n) = n
    BY <2>4 DEF StageOf, NumberOf, m
  <2>7. WritesOfTurn(n) = FromOption(n)
    BY <2>4, <2>6 DEF WritesOfTurn, WritesIn
  <2> QED BY <1>2, <2>1, <2>5, <2>7 DEF m, l
<1>4. CASE \E n \in DOMAIN map : Hits(FromEnv(n), q)
  <2>1. PICK n \in DOMAIN map : Hits(FromEnv(n), q)
    BY <1>4
  <2> DEFINE k == m + n
  <2>2. n \in Nat /\ n >= 1 /\ n <= l
    BY Lengths
  <2>3. /\ StageOf(k) = IF k <= m THEN 1 ELSE IF k <= m + l THEN 2 ELSE 3
        /\ NumberOf(k) = IF k <= m THEN k ELSE IF k <= m + l THEN k - m ELSE k - m - l
    BY DEF StageOf, NumberOf
  <2> HIDE DEF m, l
  <2>4. k \in 1 .. Total /\ k <= m + l /\ ~(k <= m) /\ k - m = n
    <3>1. m \in Nat /\ l \in Nat
      BY <1>1
    <3>2. k \in 1 .. m + 2 * l /\ k <= m + l /\ ~(k <= m) /\ k - m = n
      BY <2>2, <3>1
    <3> QED BY <1>1, <3>2
  <2> HIDE DEF k
  <2>5. StageOf(k) = 2 /\ NumberOf(k) = n
    BY <2>3, <2>4
  <2>6. WritesOfTurn(k) = FromEnv(n)
    BY <2>2, <2>5 DEF WritesOfTurn, WritesIn, l
  <2> QED BY <1>2, <2>1, <2>4, <2>6 DEF m, l
<1> QED BY <1>3, <1>4 DEF Given

(* A default for which nothing is there yet is the first that counts.      *)
LEMMA FirstOne ==
    ASSUME TInv, NEW n \in DOMAIN map, NEW c, SoFar(c, DefaultAt(n) - 1),
           Counts(n), Target(map[n].path) \notin DOMAIN c
    PROVE  /\ FirstDefault(n) /\ ~Given(Target(map[n].path))
           /\ WrittenBy(DefaultAt(n) - 1, Target(map[n].path)) = {}
<1> DEFINE k == DefaultAt(n)
           q == Target(map[n].path)
<1>1. /\ OptTurns \in Nat /\ Len(map) \in Nat /\ n \in Nat /\ n >= 1
      /\ DOMAIN map = 1 .. Len(map) /\ k = OptTurns + Len(map) + n
  BY Lengths DEF DefaultAt
<1>2. WrittenBy(k - 1, q) = {}
  BY DEF WrittenBy, WritesTo, SoFar
<1>3. ~Given(q)
  <2> SUFFICES ASSUME Given(q) PROVE FALSE
    OBVIOUS
  <2>1. PICK p \in Places : TurnOf(p) <= OptTurns + Len(map) /\ Target(WriteAt(p).path) = q
    BY GivenBefore
  <2>2. TurnOf(p) \in Int
    BY PlaceFacts
  <2>3. TurnOf(p) <= k - 1
    <3> DEFINE x == TurnOf(p)
               m == OptTurns
               l == Len(map)
    <3>1. /\ x \in Int /\ m \in Nat /\ l \in Nat /\ n \in Nat /\ n >= 1
          /\ k = m + l + n /\ x <= m + l
      BY <1>1, <2>1, <2>2
    <3> HIDE DEF x, m, l, k
    <3>2. x <= k - 1
      BY <3>1
    <3> QED BY <3>2 DEF x
  <2> QED BY <2>1, <2>3 DEF SoFar
<1>4. ASSUME NEW j \in 1 .. n - 1, Counts(j) PROVE Target(map[j].path) # q
  <2>1. j \in DOMAIN map /\ DefaultAt(j) <= k - 1
    <3> DEFINE m == OptTurns
               l == Len(map)
    <3>1. /\ m \in Nat /\ l \in Nat /\ n \in Nat /\ n \in 1 .. l
          /\ k = m + l + n /\ DOMAIN map = 1 .. l /\ DefaultAt(j) = m + l + j
      BY <1>1 DEF DefaultAt
    <3> HIDE DEF m, l, k
    <3> QED BY <3>1
  <2> QED BY <1>4, <2>1 DEF SoFar
<1> QED BY <1>2, <1>3, <1>4 DEF FirstDefault

(* What the turns write.                                                   *)
LEMMA TurnWrites ==
    ASSUME TInv, NEW k \in 1 .. Total
    PROVE  \/ /\ ~Skipped /\ k \in DOMAIN opts /\ WritesOfTurn(k) = FromOption(k)
              /\ \A c, d : Turn(k, c, d) <=> OptTurn(opts[k], c, d)
              /\ \A j \in DOMAIN map : DefaultAt(j) # k
           \/ \E i \in DOMAIN map :
                 /\ WritesOfTurn(k) = FromEnv(i)
                 /\ \A c, d : Turn(k, c, d) <=> EnvTurn(i, c, d)
                 /\ \A j \in DOMAIN map : DefaultAt(j) # k
           \/ \E i \in DOMAIN map :
                 /\ k = DefaultAt(i) /\ WritesOfTurn(k) = FromDefault(i)
                 /\ \A c, d : Turn(k, c, d) <=> DefTurn(i, c, d)
                 /\ \A j \in DOMAIN map : DefaultAt(j) = k => j = i
<1> DEFINE m == OptTurns
           l == Len(map)
<1>1. /\ m \in Nat /\ l \in Nat /\ Len(opts) \in Nat /\ Total = m + 2 * l
      /\ DOMAIN map = 1 .. l /\ DOMAIN opts = 1 .. Len(opts) /\ m <= Len(opts)
  BY Lengths
<1>2. k \in Nat /\ k >= 1 /\ k <= m + 2 * l
  <2> DEFINE T == Total
  <2>1. k \in 1 .. T /\ T = m + 2 * l /\ m \in Nat /\ l \in Nat
    BY <1>1
  <2> HIDE DEF T, m, l
  <2> QED BY <2>1
<1>3. \A c, d : Turn(k, c, d)
         <=> IF k <= m THEN OptTurn(opts[k], c, d)
             ELSE IF k <= m + l THEN EnvTurn(k - m, c, d)
             ELSE DefTurn(k - m - l, c, d)
  BY DEF Turn
<1>4. /\ StageOf(k) = IF k <= m THEN 1 ELSE IF k <= m + l THEN 2 ELSE 3
      /\ NumberOf(k) = IF k <= m THEN k ELSE IF k <= m + l THEN k - m ELSE k - m - l
  BY DEF StageOf, NumberOf
<1>5. \A j : DefaultAt(j) = m + l + j
  BY DEF DefaultAt
<1>6. /\ \A n : n <= Len(opts) => WritesIn(1, n) = FromOption(n)
      /\ \A n : n <= l => WritesIn(2, n) = FromEnv(n)
      /\ \A n : n <= l => WritesIn(3, n) = FromDefault(n)
  BY DEF WritesIn
<1>7. k <= m => ~Skipped
  BY <1>2 DEF OptTurns
<1> HIDE DEF m, l
<1>8. CASE k <= m
  <2>1. k \in DOMAIN opts /\ k <= Len(opts)
    BY <1>1, <1>2, <1>8
  <2>2. WritesOfTurn(k) = FromOption(k)
    BY <1>4, <1>6, <1>8, <2>1 DEF WritesOfTurn
  <2>3. \A c, d : Turn(k, c, d) <=> OptTurn(opts[k], c, d)
    BY <1>3, <1>8
  <2>4. ASSUME NEW j \in DOMAIN map PROVE DefaultAt(j) # k
    BY <1>1, <1>2, <1>5, <1>8
  <2> QED BY <1>7, <1>8, <2>1, <2>2, <2>3, <2>4
<1>9. CASE ~(k <= m) /\ k <= m + l
  <2> DEFINE i == k - m
  <2>1. i \in DOMAIN map /\ i <= l
    BY <1>1, <1>2, <1>9
  <2>2. \A c, d : Turn(k, c, d) <=> EnvTurn(i, c, d)
    BY <1>3, <1>9
  <2>3. StageOf(k) = 2 /\ NumberOf(k) = i
    BY <1>4, <1>9
  <2>4. ASSUME NEW j \in DOMAIN map PROVE DefaultAt(j) # k
    BY <1>1, <1>2, <1>5, <1>9
  <2> HIDE DEF i
  <2>5. WritesOfTurn(k) = FromEnv(i)
    BY <1>6, <2>1, <2>3 DEF WritesOfTurn
  <2> QED BY <2>1, <2>2, <2>4, <2>5
<1>10. CASE ~(k <= m) /\ ~(k <= m + l)
  <2> DEFINE i == k - m - l
  <2>1. i \in DOMAIN map /\ i <= l /\ k = m + l + i
    BY <1>1, <1>2, <1>10
  <2>2. \A c, d : Turn(k, c, d) <=> DefTurn(i, c, d)
    BY <1>3, <1>10
  <2>3. StageOf(k) = 3 /\ NumberOf(k) = i
    BY <1>4, <1>10
  <2> HIDE DEF i
  <2>4. ASSUME NEW j \in DOMAIN map, DefaultAt(j) = k PROVE j = i
    <3>1. j \in Int /\ i \in Int /\ m + l + j = m + l + i
      BY <1>1, <1>5, <2>1, <2>4
    <3> QED BY <1>1, <3>1
  <2>5. WritesOfTurn(k) = FromDefault(i)
    BY <1>6, <2>1, <2>3 DEF WritesOfTurn
  <2> QED BY <1>5, <2>1, <2>2, <2>4, <2>5
<1> QED BY <1>8, <1>9, <1>10

(* No writes leave what there was.                                         *)
LEMMA NothingRan == ASSUME NEW c PROVE Ran(c, c, <<>>)
<1>1. Len(<<>>) = 0 /\ DOMAIN <<>> = 1 .. 0
  OBVIOUS
<1> QED BY <1>1 DEF Ran, Replayed

(* The turn of an option.                                                  *)
LEMMA OptionRan ==
    ASSUME TInv, IndexCreated, NEW k \in DOMAIN opts,
           NEW c, TreeOK(c), NEW d, OptTurn(opts[k], c, d)
    PROVE  Ran(c, d, FromOption(k))
<1> DEFINE o == opts[k]
           e == map[EntryOf(o)]
<1>1. ~Bad(o) /\ Known(o) /\ (o.text # NULL => o.text \in Texts) /\ TreeOK(config)
  BY TurnInputs DEF OptTurn, Bad, TInv
<1>2. CASE Usage(e)
  <2>1. d = c /\ FromOption(k) = <<>>
    BY <1>2 DEF OptTurn, FromOption
  <2> QED BY <2>1, NothingRan
<1>3. CASE ~Usage(e)
  <2>1. e.path \in Seq(Tokens)
    BY <1>1, <1>3, KnownEntry
  <2>2. Gives(OptOutcome(c, e, o.text), d)
    BY <1>3 DEF OptTurn
  <2>3. FromOption(k) = WritesOf(e, o.text)
    BY <1>1, <1>3 DEF FromOption
  <2> DEFINE text == o.text
  <2> HIDE DEF e, text
  <2>4. OptOutcome(c, e, text).ret = 0 /\ d = OptOutcome(c, e, text).config
        /\ (text # NULL => text \in Texts)
    BY <1>1, <2>2 DEF Gives, text
  <2>5. Ran(c, OptOutcome(c, e, text).config, WritesOf(e, text))
    BY <1>1, <2>1, <2>4, OptionReplayed
  <2> QED BY <2>3, <2>4, <2>5 DEF text
<1> QED BY <1>2, <1>3

(* The turn of a variable.                                                 *)
LEMMA VariableRan ==
    ASSUME TInv, NEW i \in DOMAIN map,
           NEW c, TreeOK(c), NEW d, EnvTurn(i, c, d)
    PROVE  Ran(c, d, FromEnv(i))
<1> DEFINE e == map[i]
<1>1. CASE e.env /\ env[i] # NULL
  <2>1. e.path # NULL /\ Gives(Apply(c, e, env[i]), d)
    BY <1>1 DEF EnvTurn
  <2>2. e.path \in Seq(Tokens) /\ env[i] \in Texts /\ TreeOK(config)
    BY <1>1, <2>1, TurnInputs DEF TInv
  <2>3. FromEnv(i) = WritesOf(e, env[i])
    BY <1>1 DEF FromEnv
  <2> HIDE DEF e
  <2>4. Apply(c, e, env[i]).ret = 0 /\ d = Apply(c, e, env[i]).config
    BY <2>1 DEF Gives
  <2>5. Ran(c, Apply(c, e, env[i]).config, WritesOf(e, env[i]))
    BY <1>1, <2>2, <2>4, ApplyReplayed
  <2> QED BY <2>3, <2>4, <2>5
<1>2. CASE ~(e.env /\ env[i] # NULL)
  <2>1. d = c /\ FromEnv(i) = <<>>
    BY <1>2 DEF EnvTurn, FromEnv
  <2> QED BY <2>1, NothingRan
<1> QED BY <1>1, <1>2

(* A default file that has been read has written its content and its name. *)
LEMMA DefaultFileWrites ==
    ASSUME TInv, NEW j \in DOMAIN map, FromDefault(j) # <<>>,
           map[j].default \notin Unreadable
    PROVE  /\ map[j].type = "yaml_file" /\ Counts(j) /\ map[j].default # NULL
           /\ \A x \in DOMAIN FromDefault(j) :
                 \/ FromDefault(j)[x].path = map[j].path
                 \/ \E y \in DOMAIN Files[map[j].default] :
                       FromDefault(j)[x] = Files[map[j].default][y]
<1> DEFINE e == map[j]
           F == Files[e.default]
           w == Write(e.path, "str", e.default)
<1>1. e.type = "yaml_file" /\ Counts(j) /\ FromDefault(j) = WritesOf(e, e.default)
  BY DEF FromDefault
<1>2. e.default # NULL
  BY <1>1 DEF Counts
<1>3. e.default \in Texts
  BY <1>2, TurnInputs
<1>4. F \in Seq([path : Seq(Tokens), type : CallTypes, val : Values])
  BY <1>3, InitAssumption
<1>5. FromDefault(j) = Append(F, w) /\ w.path = e.path
  BY <1>1 DEF WritesOf, Write
<1> HIDE DEF F, w
<1>6. /\ Len(F) \in Nat /\ DOMAIN F = 1 .. Len(F)
      /\ DOMAIN Append(F, w) = 1 .. Len(F) + 1 /\ Append(F, w)[Len(F) + 1] = w
      /\ \A i \in 1 .. Len(F) : Append(F, w)[i] = F[i]
  BY <1>4, OneMore
<1>7. ASSUME NEW x \in 1 .. Len(F) + 1
      PROVE  x = Len(F) + 1 \/ x \in 1 .. Len(F)
  BY <1>6
<1>8. ASSUME NEW x \in DOMAIN FromDefault(j)
      PROVE  \/ FromDefault(j)[x].path = e.path
             \/ \E y \in DOMAIN F : FromDefault(j)[x] = F[y]
  <2>1. x \in 1 .. Len(F) + 1
    BY <1>5, <1>6
  <2>2. CASE x = Len(F) + 1
    BY <1>5, <1>6, <2>2
  <2>3. CASE x \in 1 .. Len(F)
    BY <1>5, <1>6, <2>3
  <2> QED BY <1>7, <2>1, <2>2, <2>3
<1> QED BY <1>1, <1>2, <1>8 DEF F

(* A file is not read for a default whose path a source or a default       *)
(* before it has set.                                                      *)
LEMMA FoundWritesNothing ==
    ASSUME TInv, FilesApart, NEW n \in DOMAIN map,
           NEW c, TreeOK(c), SoFar(c, DefaultAt(n) - 1),
           map[n].type = "yaml_file", map[n].default # NULL,
           NEW q, q = Target(map[n].path), q \in DOMAIN c, c[q].type = "str",
           ~Hidden(q), FirstDefault(n), ~Given(q)
    PROVE  FALSE
<1> DEFINE k == DefaultAt(n)
<1>1. \A j \in DOMAIN map : DefaultAt(j) <= k - 1 => j \in 1 .. n - 1
  <2> SUFFICES ASSUME NEW j \in DOMAIN map, DefaultAt(j) <= k - 1
               PROVE  j \in 1 .. n - 1
    OBVIOUS
  <2> DEFINE m == OptTurns
             l == Len(map)
  <2>1. /\ m \in Nat /\ l \in Nat /\ DOMAIN map = 1 .. l
        /\ k = m + l + n /\ DefaultAt(j) = m + l + j
    BY Lengths DEF DefaultAt
  <2> HIDE DEF m, l, k
  <2>2. j \in 1 .. l /\ n \in 1 .. l /\ m + l + j <= m + l + n - 1
    BY <2>1
  <2> QED BY <2>1, <2>2
<1>2. ASSUME NEW j \in DOMAIN map, DefaultAt(j) <= k - 1, Counts(j),
             Target(map[j].path) = q
      PROVE  FALSE
  BY <1>1, <1>2 DEF FirstDefault
<1>3. LastBy(c, k - 1, q) \/ FirstDefaultBy(c, k - 1, q)
  BY DEF SoFar, Scalars
<1>4. CASE FirstDefaultBy(c, k - 1, q)
  BY <1>2, <1>4 DEF FirstDefaultBy, FirstDefault
<1>5. CASE LastBy(c, k - 1, q)
  <2>1. PICK p \in Places : TurnOf(p) <= k - 1 /\ Target(WriteAt(p).path) = q
    BY <1>5 DEF LastBy, WrittenBy, WritesTo
  <2> DEFINE j == p[2]
             x == p[3]
  <2>2. CASE /\ j \in DOMAIN opts /\ x \in DOMAIN FromOption(j)
             /\ WriteAt(p) = FromOption(j)[x]
    BY <2>1, <2>2 DEF Given, Hits
  <2>3. CASE /\ j \in DOMAIN map /\ x \in DOMAIN FromEnv(j)
             /\ WriteAt(p) = FromEnv(j)[x]
    BY <2>1, <2>3 DEF Given, Hits
  <2>4. CASE /\ j \in DOMAIN map /\ x \in DOMAIN FromDefault(j)
             /\ WriteAt(p) = FromDefault(j)[x] /\ TurnOf(p) = DefaultAt(j)
    <3>1. DefaultAt(j) <= k - 1 /\ FromDefault(j) # <<>>
      BY <2>1, <2>4
    <3>2. map[j].default \notin Unreadable
      BY <2>4, <3>1 DEF SoFar
    <3>3. /\ map[j].type = "yaml_file" /\ Counts(j) /\ map[j].default # NULL
          /\ \/ WriteAt(p).path = map[j].path
             \/ \E y \in DOMAIN Files[map[j].default] :
                   WriteAt(p) = Files[map[j].default][y]
      BY <2>4, <3>1, <3>2, DefaultFileWrites
    <3>4. CASE WriteAt(p).path = map[j].path
      BY <1>2, <2>1, <2>4, <3>1, <3>3, <3>4
    <3>5. CASE \E y \in DOMAIN Files[map[j].default] :
                  WriteAt(p) = Files[map[j].default][y]
      <4>1. Hits(Files[map[j].default], q)
        BY <2>1, <3>5 DEF Hits
      <4>2. j < n
        <5>1. j \in 1 .. n - 1 /\ n \in Int
          BY <1>1, <2>4, <3>1, Lengths
        <5> QED BY <5>1
      <4> QED BY <2>4, <3>2, <3>3, <4>1, <4>2 DEF FilesApart
    <3> QED BY <3>3, <3>4, <3>5
  <2> QED BY <2>2, <2>3, <2>4, PlaceSource
<1> QED BY <1>3, <1>4, <1>5

(* The turn of a default that finds its path, or of no default.            *)
LEMMA FoundKeeps ==
    ASSUME TInv, FilesApart, NEW n \in DOMAIN map,
           NEW k \in 1 .. Total, k = DefaultAt(n), WritesOfTurn(k) = FromDefault(n),
           \A j \in DOMAIN map : DefaultAt(j) = k => j = n,
           NEW c, TreeOK(c), Within(c, config), SoFar(c, k - 1),
           map[n].default = NULL \/ (map[n].path # NULL /\ PresentIn(c, map[n]) = "found")
    PROVE  SoFar(c, k)
<1> DEFINE e == map[n]
           q == Target(e.path)
<1>0. TreeOK(config)
  BY DEF TInv
<1>1. (Counts(n) => q \in DOMAIN c) /\ FromDefault(n) = <<>>
  <2>1. CASE e.default = NULL
    BY <2>1 DEF Counts, FromDefault
  <2>2. CASE e.default # NULL
    <3>1. e.path # NULL /\ e.path \in Seq(Tokens) /\ PresentIn(c, e) = "found"
      BY <2>2, TurnInputs
    <3>2. /\ Find(c, e.path).status = "found"
          /\ e.type \in {"str", "yaml_file"} => c[Find(c, e.path).place].type = "str"
      BY <3>1 DEF PresentIn, FindTyped, At
    <3>3. /\ Find(config, e.path) = Find(c, e.path)
          /\ Find(c, e.path).place \in DOMAIN c
      BY <1>0, <3>1, <3>2, FoundStays
    <3>4. ~Unfindable(e.path)
      BY <3>1, <3>2, UnfindableMissing
    <3>5. Counts(n) => q = Find(c, e.path).place
      BY <3>3, <3>4 DEF Counts
    <3>6. FromDefault(n) = <<>>
      <4> SUFFICES ASSUME FromDefault(n) # <<>> PROVE FALSE
        OBVIOUS
      <4>1. /\ e.type = "yaml_file" /\ Counts(n)
            /\ FirstDefault(n) /\ ~Given(q)
        BY <3>4 DEF FromDefault
      <4>2. q \in DOMAIN c /\ c[q].type = "str"
        BY <3>2, <3>3, <3>5, <4>1
      <4>3. CASE ~Hidden(q)
        <5> HIDE DEF q
        <5> QED BY <2>2, <4>1, <4>2, <4>3, FoundWritesNothing DEF q
      <4>4. CASE Hidden(q)
        BY <1>0, <3>1, <3>4, <4>4, TargetHidden DEF Unfindable
      <4> QED BY <4>3, <4>4
    <3> QED BY <3>3, <3>5, <3>6
  <2> QED BY <2>1, <2>2
<1>2. Ran(c, c, WritesOfTurn(k)) /\ Within(c, c)
  BY <1>1, NothingRan DEF Within
<1> HIDE DEF e, q
<1>3. \A j \in DOMAIN map : DefaultAt(j) = k =>
         /\ Counts(j) => Target(map[j].path) \in DOMAIN c
         /\ FromDefault(j) # <<>> => map[j].default \notin Unreadable
  BY <1>1 DEF e, q
<1> QED BY <1>2, <1>3, RanKeeps

(* A default that is applied counts, and is the first that does.           *)
LEMMA AppliedCounts ==
    ASSUME TInv, NEW n \in DOMAIN map, NEW c, TreeOK(c), SoFar(c, DefaultAt(n) - 1),
           map[n].path # NULL, map[n].default # NULL,
           Find(c, map[n].path).status = "missing",
           Apply(c, map[n], map[n].default).ret = 0,
           Within(Apply(c, map[n], map[n].default).config, config)
    PROVE  /\ Counts(n)
           /\ ~Unfindable(map[n].path) =>
                 /\ FirstDefault(n) /\ ~Given(Target(map[n].path))
                 /\ WrittenBy(DefaultAt(n) - 1, Target(map[n].path)) = {}
<1> DEFINE e == map[n]
<1>1. e.path \in Seq(Tokens) /\ e.default \in Texts /\ TreeOK(config)
  BY TurnInputs DEF TInv
<1>2. CASE Unfindable(e.path)
  BY <1>2 DEF Counts
<1>3. CASE ~Unfindable(e.path)
  <2>1. Find(config, e.path).place = Target(e.path)
    <3> DEFINE text == e.default
    <3> HIDE DEF e, text
    <3>1. /\ e.path # NULL /\ text \in Texts
          /\ Apply(c, e, text).ret = 0 /\ Within(Apply(c, e, text).config, config)
      BY <1>1 DEF e, text
    <3> QED BY <1>1, <1>3, <3>1, ApplyIsFound DEF Target
  <2>2. Counts(n)
    BY <2>1 DEF Counts
  <2>3. Target(e.path) \notin DOMAIN c
    <3> DEFINE text == e.default
    <3> HIDE DEF e, text
    <3>1. /\ e.path # NULL /\ text \in Texts
          /\ Apply(c, e, text).ret = 0 /\ Find(c, e.path).status = "missing"
      BY <1>1 DEF e, text
    <3> QED BY <1>1, <1>3, <3>1, MissingTarget
  <2> QED BY <2>2, <2>3, FirstOne
<1> QED BY <1>2, <1>3

(* The turn of the default of a scalar that is applied.                    *)
LEMMA ScalarKeeps ==
    ASSUME TInv, NEW n \in DOMAIN map,
           NEW k \in 1 .. Total, k = DefaultAt(n), WritesOfTurn(k) = FromDefault(n),
           \A j \in DOMAIN map : DefaultAt(j) = k => j = n,
           NEW c, TreeOK(c), NEW d, Within(c, d), SoFar(c, k - 1),
           map[n].type \in Scalars, map[n].path # NULL,
           NEW q, q = Target(map[n].path), q \in DOMAIN d, Counts(n),
           ~Unfindable(map[n].path) => FirstDefault(n) /\ WrittenBy(k - 1, q) = {},
           Ran(c, d, WritesOf(map[n], map[n].default)), map[n].default # NULL
    PROVE  SoFar(d, k)
<1> DEFINE e == map[n]
           w == Write(e.path, e.type, ValueOf[e.type][e.default])
<1>1. k \in Int /\ \A j \in DOMAIN map : DefaultAt(j) \in Int
  <2>1. \A j \in DOMAIN map : DefaultAt(j) \in Int
    BY Lengths DEF DefaultAt
  <2> QED BY <2>1, Lengths
<1>2. FromDefault(n) = <<>> /\ WritesOf(e, e.default) = <<w>>
  BY DEF FromDefault, WritesOf, Scalars
<1>3. ASSUME NEW p \in Places
      PROVE  /\ TurnOf(p) \in Int /\ TurnOf(p) # k
             /\ TurnOf(p) <= k <=> TurnOf(p) <= k - 1
  <2>1. TurnOf(p) \in Int /\ TurnOf(p) # k
    BY <1>2, PlaceFacts
  <2> QED BY <1>1, <2>1
<1>4. \A r : WrittenBy(k, r) = WrittenBy(k - 1, r)
  BY <1>3 DEF WrittenBy, WritesTo
<1>5. ASSUME NEW r \in DOMAIN d, d[r].type \in Scalars
      PROVE  \/ r = q /\ d[r] = Item(e.type, ValueOf[e.type][e.default])
             \/ r \in DOMAIN c /\ d[r] = c[r]
  <2> DEFINE W == WritesOf(e, e.default)
  <2>1. Len(W) = 1 /\ W[1] = w
    BY <1>2
  <2>2. w.path = e.path /\ w.type = e.type /\ w.val = ValueOf[e.type][e.default]
    BY DEF Write
  <2>3. \A i \in 1 .. 1 : i = 1
    OBVIOUS
  <2>4. Replayed(c, d, W, 1)
    BY <2>1 DEF Ran
  <2> HIDE DEF W, w
  <2> QED BY <1>5, <2>1, <2>2, <2>3, <2>4 DEF Replayed
<1>6. ASSUME NEW p \in Places, TurnOf(p) <= k
      PROVE  Target(WriteAt(p).path) \in DOMAIN d
  BY <1>3, <1>6 DEF SoFar, Within
<1>7. ASSUME NEW r \in DOMAIN d, d[r].type \in Scalars, ~Hidden(r)
      PROVE  LastBy(d, k, r) \/ FirstDefaultBy(d, k, r)
  <2>1. CASE r = q /\ d[r] = Item(e.type, ValueOf[e.type][e.default])
    <3>1. e.path \in Seq(Tokens) /\ TreeOK(config)
      BY TurnInputs DEF TInv
    <3>2. ~Unfindable(e.path)
      BY <1>7, <2>1, <3>1, TargetHidden DEF Unfindable
    <3>3. FirstDefault(n) /\ WrittenBy(k, r) = {} /\ DefaultAt(n) <= k
      BY <1>1, <1>4, <2>1, <3>2
    <3> QED BY <2>1, <3>3 DEF FirstDefaultBy
  <2>2. CASE r \in DOMAIN c /\ d[r] = c[r]
    <3>1. LastBy(c, k - 1, r) \/ FirstDefaultBy(c, k - 1, r)
      BY <1>7, <2>2 DEF SoFar
    <3>2. LastBy(c, k - 1, r) => LastBy(d, k, r)
      BY <1>4, <2>2 DEF LastBy
    <3>3. \A j \in DOMAIN map : DefaultAt(j) <= k - 1 => DefaultAt(j) <= k
      BY <1>1
    <3>4. FirstDefaultBy(c, k - 1, r) => FirstDefaultBy(d, k, r)
      BY <1>4, <2>2, <3>3 DEF FirstDefaultBy
    <3> QED BY <3>1, <3>2, <3>4
  <2> QED BY <1>5, <1>7, <2>1, <2>2
<1>8. ASSUME NEW j \in DOMAIN map, DefaultAt(j) <= k
      PROVE  /\ Counts(j) => Target(map[j].path) \in DOMAIN d
             /\ FromDefault(j) # <<>> => map[j].default \notin Unreadable
  <2>1. CASE j = n
    BY <1>2, <2>1
  <2>2. CASE j # n
    <3>1. DefaultAt(j) <= k - 1
      BY <1>1, <1>8, <2>2
    <3> QED BY <3>1 DEF SoFar, Within
  <2> QED BY <2>1, <2>2
<1> QED BY <1>6, <1>7, <1>8 DEF SoFar

(* The turn of a default that is applied.                                  *)
LEMMA AppliedKeeps ==
    ASSUME TInv, NEW n \in DOMAIN map,
           NEW k \in 1 .. Total, k = DefaultAt(n), WritesOfTurn(k) = FromDefault(n),
           \A j \in DOMAIN map : DefaultAt(j) = k => j = n,
           NEW c, TreeOK(c), NEW d, Within(d, config), SoFar(c, k - 1),
           map[n].path # NULL, map[n].default # NULL,
           map[n].type \in OptionTypes \ {"usage"},
           PresentIn(c, map[n]) = "missing",
           Gives(Apply(c, map[n], map[n].default), d)
    PROVE  SoFar(d, k)
<1> DEFINE e == map[n]
           text == e.default
           q == Target(e.path)
<1>1. e.path \in Seq(Tokens) /\ text \in Texts /\ text # NULL /\ TreeOK(config)
  BY TurnInputs DEF TInv
<1>2. Apply(c, e, text).ret = 0 /\ d = Apply(c, e, text).config
  BY DEF Gives
<1>3. Find(c, e.path).status = "missing"
  BY DEF PresentIn, FindTyped, At
<1>4. /\ Counts(n)
      /\ ~Unfindable(e.path) =>
            FirstDefault(n) /\ ~Given(q) /\ WrittenBy(k - 1, q) = {}
  BY <1>2, <1>3, AppliedCounts
<1>5. /\ Ran(c, d, WritesOf(e, text)) /\ q \in DOMAIN d /\ Within(c, d)
      /\ e.type = "yaml_file" => text \notin Unreadable
  <2> HIDE DEF e, text
  <2>1. Within(c, d)
    BY <1>1, <1>2, ApplyGrows
  <2> QED BY <1>1, <1>2, <2>1, ApplyReplayed
<1>6. CASE e.type \in Scalars
  <2> HIDE DEF q
  <2> QED BY <1>4, <1>5, <1>6, ScalarKeeps DEF q
<1>7. CASE e.type = "yaml_file"
  <2>1. FromDefault(n) = WritesOf(e, text)
    BY <1>4, <1>7 DEF FromDefault
  <2>2. \A j \in DOMAIN map : DefaultAt(j) = k =>
           /\ Counts(j) => Target(map[j].path) \in DOMAIN d
           /\ FromDefault(j) # <<>> => map[j].default \notin Unreadable
    BY <1>5, <1>7
  <2>3. Ran(c, d, WritesOfTurn(k))
    BY <1>5, <2>1
  <2> QED BY <1>5, <2>2, <2>3, RanKeeps
<1> QED BY <1>6, <1>7 DEF OptionTypes

(* Every turn keeps it.                                                    *)
LEMMA TurnKeeps ==
    ASSUME TInv, FilesApart, ~Skipped => IndexCreated, NEW k \in 1 .. Total,
           NEW c, TreeOK(c), NEW d, Turn(k, c, d), Within(d, config), SoFar(c, k - 1)
    PROVE  SoFar(d, k)
<1>1. Within(c, d) /\ Within(c, config)
  BY TurnGrows DEF Within
<1>2. CASE /\ ~Skipped /\ k \in DOMAIN opts /\ WritesOfTurn(k) = FromOption(k)
           /\ OptTurn(opts[k], c, d)
           /\ \A j \in DOMAIN map : DefaultAt(j) # k
  <2>1. Ran(c, d, WritesOfTurn(k))
    BY <1>2, OptionRan
  <2> QED BY <1>1, <1>2, <2>1, RanKeeps
<1>3. ASSUME NEW i \in DOMAIN map, WritesOfTurn(k) = FromEnv(i), EnvTurn(i, c, d),
             \A j \in DOMAIN map : DefaultAt(j) # k
      PROVE  SoFar(d, k)
  <2>1. Ran(c, d, WritesOfTurn(k))
    BY <1>3, VariableRan
  <2> QED BY <1>1, <1>3, <2>1, RanKeeps
<1>4. ASSUME NEW i \in DOMAIN map, k = DefaultAt(i), WritesOfTurn(k) = FromDefault(i),
             DefTurn(i, c, d), \A j \in DOMAIN map : DefaultAt(j) = k => j = i
      PROVE  SoFar(d, k)
  <2>1. CASE map[i].default = NULL /\ d = c
    BY <1>1, <1>4, <2>1, FoundKeeps
  <2>2. CASE map[i].path # NULL /\ PresentIn(c, map[i]) = "found" /\ d = c
    BY <1>1, <1>4, <2>2, FoundKeeps
  <2>3. CASE /\ map[i].path # NULL /\ map[i].default # NULL
             /\ map[i].type \in OptionTypes \ {"usage"}
             /\ PresentIn(c, map[i]) = "missing"
             /\ Gives(Apply(c, map[i], map[i].default), d)
    BY <1>4, <2>3, AppliedKeeps
  <2> QED BY <1>4, <2>1, <2>2, <2>3 DEF DefTurn, Defaulted, Gives
<1> HIDE DEF Turn, OptTurn, EnvTurn, DefTurn
<1> QED BY <1>2, <1>3, <1>4, TurnWrites

(* So it holds of what a first call returns.                               *)
LEMMA AllSoFar ==
    ASSUME TInv, FilesApart, ~Skipped => IndexCreated,
           NEW t, Trace(t, Total), t[Total] = config
    PROVE  SoFar(config, Total)
<1> DEFINE T == Total
           G == {k \in 0 .. T : SoFar(t[k], k)}
<1>1. T \in Nat
  BY Lengths
<1>2. 0 \in G
  <2>1. t[0] = Empty("dict")
    BY DEF Trace
  <2>2. ASSUME NEW p \in Places PROVE ~(TurnOf(p) <= 0)
    BY PlaceFacts, Lengths
  <2>3. ASSUME NEW j \in DOMAIN map PROVE ~(DefaultAt(j) <= 0)
    BY Lengths DEF DefaultAt
  <2>4. \A q \in DOMAIN t[0] : t[0][q].type \notin Scalars
    BY <2>1 DEF Empty, Item, Scalars
  <2>5. SoFar(t[0], 0)
    BY <2>2, <2>3, <2>4 DEF SoFar
  <2> QED BY <1>1, <2>5
<1>3. ASSUME NEW k \in 0 .. T - 1, k \in G PROVE k + 1 \in G
  <2>1. k + 1 \in 1 .. T /\ k + 1 \in 0 .. T /\ k \in 0 .. T /\ (k + 1) - 1 = k
    BY <1>1
  <2>2. /\ Turn(k + 1, t[k], t[k + 1]) /\ TreeOK(t[k])
        /\ Within(t[k + 1], config)
    <3> DEFINE j == k + 1
    <3>1. j \in 1 .. Total /\ j \in 0 .. Total /\ j - 1 = k /\ k \in 0 .. Total
      BY <2>1
    <3> HIDE DEF j
    <3>2. Turn(j, t[j - 1], t[j]) /\ TreeOK(t[k]) /\ Within(t[j], t[Total])
      BY <3>1 DEF Trace
    <3> QED BY <3>1, <3>2 DEF j
  <2>3. SoFar(t[k], (k + 1) - 1)
    BY <1>3, <2>1
  <2> DEFINE j == k + 1
  <2>4. j \in 1 .. Total
    BY <2>1
  <2>5. SoFar(t[j], j)
    <3> HIDE DEF j
    <3> QED BY <2>2, <2>3, <2>4, TurnKeeps DEF j
  <2> QED BY <2>1, <2>5
<1> HIDE DEF G
<1>4. \A k \in 0 .. T : k \in G
  <2> HIDE DEF T
  <2> QED BY <1>1, <1>2, <1>3, UpTo
<1>5. T \in G
  BY <1>1, <1>4
<1> QED BY <1>5 DEF G

(* sconf_initialize "Do all the stuff!" (sconf.h:645): for every map,      *)
(* command line, environment, file and conversion, what a first call       *)
(* returns is what the last write to each place gave, or else the first    *)
(* default that counts, and after any call nothing with a default is       *)
(* missing.                                                                *)
THEOREM AlwaysPrecedence == Spec => []Precedence
<1>1. Init => AgainInv /\ DInv
  BY DEF Init, AgainInv, DInv
<1>2. TInv /\ AgainInv /\ DInv => Precedence
  <2> SUFFICES ASSUME TInv, AgainInv, DInv, Succeeded PROVE Precedence
    BY DEF Precedence
  <2>1. DefaultsThere
    <3>1. DefaultsFound(Len(map))
      BY DEF DInv, Succeeded
    <3> QED BY <3>1, Lengths DEF DefaultsFound, DefaultsThere
  <2>2. ASSUME runs = 1, FilesApart
        PROVE  /\ \A p \in Places : Target(WriteAt(p).path) \in DOMAIN config
               /\ \A place \in DOMAIN config :
                     config[place].type \in Scalars /\ ~Hidden(place) =>
                         IF WritesTo(place) # {} THEN FromLastWrite(place)
                                                 ELSE FromFirstDefault(place)
    <3>1. phase = "done" /\ ret = 0
      BY DEF Succeeded
    <3>2. FirstCall /\ Done = Total
      BY <2>2, <3>1 DEF AgainInv, Done
    <3>3. Prepared /\ \E t : Trace(t, Total) /\ t[Total] = config
      BY <3>1, <3>2 DEF FirstCall
    <3>4. ~Skipped => IndexCreated
      BY <3>3 DEF Prepared, Skipped, Tables
    <3>5. SoFar(config, Total)
      BY <2>2, <3>3, <3>4, AllSoFar
    <3>6. ASSUME NEW p \in Places PROVE TurnOf(p) <= Total
      BY PlaceFacts, Lengths
    <3>7. \A place : WrittenBy(Total, place) = WritesTo(place)
      BY <3>6 DEF WrittenBy, WritesTo
    <3>8. ASSUME NEW place \in DOMAIN config, config[place].type \in Scalars, ~Hidden(place)
          PROVE  IF WritesTo(place) # {} THEN FromLastWrite(place)
                                         ELSE FromFirstDefault(place)
      <4>1. CASE LastBy(config, Total, place)
        BY <3>7, <4>1 DEF LastBy, FromLastWrite
      <4>2. CASE FirstDefaultBy(config, Total, place)
        BY <3>7, <4>2 DEF FirstDefaultBy, FromFirstDefault
      <4> QED BY <3>5, <3>8, <4>1, <4>2 DEF SoFar
    <3> QED BY <3>5, <3>6, <3>8 DEF SoFar
  <2> QED BY <2>1, <2>2 DEF Precedence
<1> QED BY <1>1, <1>2, InitInv, StepInv, InitTInv, StepTInv, StepAgain, StepDInv,
           PTL DEF Spec
=============================================================================
