-------------------------- MODULE SconfOpts_proofs --------------------------
(***************************************************************************)
(* Proofs about the tables sconf_opts_parse makes: for every config map    *)
(* and every size of the tables, none is filled to its end, and a map that *)
(* gets as far as getopt_long is sound.                                    *)
(***************************************************************************)
EXTENDS SconfOpts, SconfInduction, FiniteSetTheorems, SequenceTheorems, TLAPS

Phases == {"index", "long", "optstring", "ready", "usage", "refused", "done", "fault"}

LongOption == [val : Codes, arg : {"required", "optional", "none"}]

(* How many entries of the map the first two loops have been through.      *)
Indexed == IF phase = "index" THEN pos - 1 ELSE Len(map)

Longed == IF phase = "index" THEN 0
          ELSE IF phase = "long" THEN pos - 1 ELSE Len(map)

Typed ==
    /\ map \in Maps
    /\ phase \in Phases
    /\ pos \in 1 .. Len(map) + 1
    /\ index \in [0 .. CHAR_MAX -> 0 .. Len(map)]
    /\ longs \in Seq(LongOption)
    /\ optstring \in Seq(Int)

(* An entry that has been indexed is found under its short option, and     *)
(* what is found under a short option is an entry that has been indexed.   *)
IndexSound ==
    phase # "refused" =>
        /\ \A i \in 1 .. Indexed :
              /\ map[i].short >= 0
              /\ map[i].short # 0 => /\ index[map[i].short] = i
                                     /\ map[i].path \/ map[i].type = "usage"
        /\ \A c \in Codes : index[c] # 0 =>
              index[c] \in 1 .. Indexed /\ map[index[c]].short = c

(* The long options have been made from entries with a short one, no two   *)
(* from the same.                                                          *)
LongsSound ==
    phase # "refused" =>
        /\ \A i \in 1 .. Longed : map[i].long # NULL =>
              map[i].short # 0 /\ map[i].type \in OptionTypes
        /\ \A k \in 1 .. Len(longs) : index[longs[k].val] \in 1 .. Longed

LongsDistinct ==
    \A j, k \in 1 .. Len(longs) : longs[j].val = longs[k].val => j = k

IInv ==
    /\ Typed /\ IndexSound /\ LongsSound /\ LongsDistinct
    /\ TablesEnd /\ MapChecked

-----------------------------------------------------------------------------

(* As many codes are not enough for more long options without one that is  *)
(* used twice.                                                             *)
LEMMA DistinctFit ==
    longs \in Seq(LongOption) /\ LongsDistinct => Len(longs) <= CHAR_MAX
<1> SUFFICES ASSUME longs \in Seq(LongOption), LongsDistinct
             PROVE  Len(longs) <= CHAR_MAX
  OBVIOUS
<1>1. CHAR_MAX \in Nat /\ Len(longs) \in Nat
  BY OptsAssumption
<1> DEFINE S == 1 .. Len(longs)
           f == [k \in S |-> longs[k].val]
<1>2. f \in [S -> Codes]
  <2>1. ASSUME NEW k \in S PROVE longs[k].val \in Codes
    <3>1. longs[k] \in LongOption
      BY <1>1
    <3> QED BY <3>1 DEF LongOption
  <2> QED BY <2>1
<1>3. IsFiniteSet(S) /\ Cardinality(S) = Len(longs)
  <2>1. 1 \in Int /\ Len(longs) \in Int
    BY <1>1
  <2>2. /\ IsFiniteSet(S)
        /\ Cardinality(S) = IF 1 > Len(longs) THEN 0 ELSE Len(longs) - 1 + 1
    BY <2>1, FS_Interval
  <2> QED BY <1>1, <2>2
<1>4. IsFiniteSet(Codes) /\ Cardinality(Codes) = CHAR_MAX
  <2>1. 1 \in Int /\ CHAR_MAX \in Int
    BY <1>1
  <2>2. /\ IsFiniteSet(Codes)
        /\ Cardinality(Codes) = IF 1 > CHAR_MAX THEN 0 ELSE CHAR_MAX - 1 + 1
    BY <2>1, FS_Interval DEF Codes
  <2> QED BY <1>1, <2>2
<1> SUFFICES ASSUME CHAR_MAX < Len(longs) PROVE FALSE
  BY <1>1
<1>5. \E j, k \in S : j # k /\ f[j] = f[k]
  <2>1. Cardinality(Codes) < Cardinality(S)
    BY <1>3, <1>4
  <2> HIDE DEF S, f
  <2> QED BY <1>2, <1>3, <1>4, <2>1, FS_PigeonHole
<1> QED BY <1>5 DEF LongsDistinct

(* The entry a loop handles is an entry of the map.                        *)
LEMMA EntryTyped ==
    ASSUME Typed, NEW p, EntryIn(p)
    PROVE  /\ pos \in 1 .. Len(map) /\ Len(map) \in Nat
           /\ map[pos].short \in Int /\ map[pos].path \in BOOLEAN
           /\ map[pos].short <= CHAR_MAX
BY OptsAssumption DEF Typed, EntryIn

(* At the end of a loop it has been through the whole map.                 *)
LEMMA LoopEnded ==
    ASSUME Typed, NEW p, EndOf(p)
    PROVE  pos = Len(map) + 1 /\ Len(map) \in Nat
BY OptsAssumption DEF Typed, EndOf

(* A map whose entries have been through the first two loops is sound.     *)
LEMMA SoundMap ==
    ASSUME Typed, IndexSound, LongsSound, phase \in {"optstring", "ready", "usage"}
    PROVE  ~Ambiguous /\ ~Incomplete
<1>1. /\ Indexed = Len(map) /\ Longed = Len(map) /\ phase # "refused"
      /\ DOMAIN map = 1 .. Len(map)
  BY OptsAssumption DEF Indexed, Longed, Typed
<1>2. \A i \in DOMAIN map : map[i].short \in Int
  BY OptsAssumption DEF Typed
<1>3. ~Ambiguous
  BY <1>1 DEF IndexSound, Ambiguous, Options
<1>4. ~Incomplete
  BY <1>1, <1>2 DEF IndexSound, LongsSound, Incomplete
<1> QED BY <1>3, <1>4

(* With empty tables nothing is out of place.                              *)
LEMMA InitInv == Init => IInv
<1> SUFFICES ASSUME Init PROVE IInv
  OBVIOUS
<1>1. /\ map \in Maps /\ Len(map) \in Nat
      /\ phase = "index" /\ pos = 1
      /\ index = [c \in 0 .. CHAR_MAX |-> 0]
      /\ longs = <<>> /\ optstring = <<Colon>>
  BY OptsAssumption DEF Init
<1>2. CHAR_MAX \in Nat /\ OptstringMax \in Nat \ {0, 1} /\ Colon \in Int
  BY OptsAssumption DEF Codes
<1>3. Typed
  BY <1>1, <1>2 DEF Typed, Phases
<1>4. IndexSound
  BY <1>1, <1>2 DEF IndexSound, Indexed, Codes
<1>5. LongsSound /\ LongsDistinct
  BY <1>1 DEF LongsSound, LongsDistinct, Longed
<1>6. TablesEnd /\ MapChecked
  BY <1>1, <1>2 DEF TablesEnd, MapChecked, LongOptsSize
<1> QED BY <1>3, <1>4, <1>5, <1>6 DEF IInv

(* A map is refused for a reason, and the tables stay as they are.         *)
LEMMA RefuseInv ==
    ASSUME IInv, Refuse, map' = map, Ambiguous \/ Incomplete \/ Crowded
    PROVE  IInv'
<1>1. /\ phase' = "refused" /\ pos' = 1
      /\ index' = index /\ longs' = longs /\ optstring' = optstring
      /\ Len(map) \in Nat
  BY OptsAssumption DEF Refuse, GoTo, tables, IInv, Typed
<1>2. Typed'
  BY <1>1 DEF IInv, Typed, Phases
<1>3. IndexSound' /\ LongsSound'
  BY <1>1 DEF IndexSound, LongsSound
<1>4. LongsDistinct' /\ TablesEnd'
  BY <1>1 DEF IInv, LongsDistinct, TablesEnd
<1>5. MapChecked'
  BY <1>1 DEF MapChecked, Ambiguous, Incomplete, Options, Crowded
<1> QED BY <1>2, <1>3, <1>4, <1>5 DEF IInv

(* sconf_short_opts_index_create.                                          *)
LEMMA IndexInv == IInv /\ IndexEntry => IInv'
<1> SUFFICES ASSUME IInv, IndexEntry PROVE IInv'
  OBVIOUS
<1> DEFINE e == map[pos]
<1>1. /\ pos \in 1 .. Len(map) /\ Len(map) \in Nat /\ phase = "index"
      /\ e.short \in Int /\ e.path \in BOOLEAN /\ e.short <= CHAR_MAX
      /\ CHAR_MAX \in Nat /\ map' = map /\ Typed
      /\ DOMAIN map = 1 .. Len(map)
  BY EntryTyped, OptsAssumption DEF IInv, IndexEntry, EntryIn, Typed
<1>2. Indexed = pos - 1 /\ Longed = 0
  BY <1>1 DEF Indexed, Longed
<1>3. CASE e.short = 0 /\ Skip
  <2>1. /\ pos' = pos + 1 /\ phase' = phase
        /\ index' = index /\ longs' = longs /\ optstring' = optstring
    BY <1>3 DEF Skip, Continue, tables
  <2>2. Indexed' = pos /\ Longed' = 0
    BY <1>1, <2>1 DEF Indexed, Longed
  <2>3. Typed'
    BY <1>1, <2>1 DEF Typed
  <2>4. IndexSound'
    BY <1>1, <1>2, <1>3, <2>1, <2>2 DEF IInv, IndexSound
  <2>5. LongsSound' /\ LongsDistinct' /\ TablesEnd'
    BY <1>1, <1>2, <2>1, <2>2 DEF IInv, LongsSound, LongsDistinct, TablesEnd
  <2>6. MapChecked'
    BY <1>1, <2>1 DEF MapChecked
  <2> QED BY <2>3, <2>4, <2>5, <2>6 DEF IInv
<1>4. CASE Refuse /\ (e.short < 0 \/ (e.short > 0 /\ ~e.path /\ e.type # "usage"))
  <2>1. Incomplete
    BY <1>1, <1>4 DEF Incomplete
  <2> QED BY <1>1, <1>4, <2>1, RefuseInv
<1>5. CASE Refuse /\ e.short > 0 /\ index[e.short] # 0
  <2> DEFINE j == index[e.short]
  <2>1. j \in 1 .. pos - 1 /\ map[j].short = e.short
    BY <1>1, <1>2, <1>5 DEF IInv, IndexSound, Codes
  <2>2. Ambiguous
    BY <1>1, <1>5, <2>1 DEF Ambiguous, Options
  <2> QED BY <1>1, <1>5, <2>2, RefuseInv
<1>6. CASE /\ e.short > 0 /\ index[e.short] = 0
           /\ e.path \/ e.type = "usage"
           /\ index' = [index EXCEPT ![e.short] = pos]
           /\ Continue
           /\ UNCHANGED <<longs, optstring>>
  <2>1. /\ pos' = pos + 1 /\ phase' = phase
        /\ longs' = longs /\ optstring' = optstring
        /\ index \in [0 .. CHAR_MAX -> 0 .. Len(map)]
        /\ e.short \in 0 .. CHAR_MAX
    BY <1>1, <1>6 DEF Continue, Typed
  <2>2. Indexed' = pos /\ Longed' = 0
    BY <1>1, <2>1 DEF Indexed, Longed
  <2>3. Typed'
    BY <1>1, <1>6, <2>1 DEF Typed
  <2>4. ASSUME NEW i \in 1 .. pos
        PROVE  /\ map[i].short >= 0
               /\ map[i].short # 0 => /\ index'[map[i].short] = i
                                      /\ map[i].path \/ map[i].type = "usage"
    <3>1. CASE i = pos
      BY <1>1, <1>6, <2>1, <3>1
    <3>2. CASE i < pos
      <4>1. /\ i \in 1 .. pos - 1 /\ i # 0
            /\ map[i].short \in Int /\ map[i].short <= CHAR_MAX
        BY <1>1, <3>2, OptsAssumption DEF Typed
      <4>2. /\ map[i].short >= 0
            /\ map[i].short # 0 => /\ index[map[i].short] = i
                                   /\ map[i].path \/ map[i].type = "usage"
        BY <1>1, <1>2, <4>1 DEF IInv, IndexSound
      <4> QED BY <1>6, <2>1, <4>1, <4>2
    <3> QED BY <1>1, <3>1, <3>2
  <2>5. ASSUME NEW c \in Codes, index'[c] # 0
        PROVE  index'[c] \in 1 .. pos /\ map[index'[c]].short = c
    <3>1. CASE c = e.short
      BY <1>1, <1>6, <2>1, <3>1
    <3>2. CASE c # e.short
      BY <1>1, <1>2, <1>6, <2>1, <2>5, <3>2 DEF IInv, IndexSound, Codes
    <3> QED BY <3>1, <3>2
  <2>6. IndexSound'
    BY <1>1, <2>2, <2>4, <2>5 DEF IndexSound
  <2>7. LongsSound' /\ LongsDistinct' /\ TablesEnd'
    <3>1. Len(longs) = 0
      BY <1>1, <1>2, <2>1 DEF IInv, LongsSound, Typed
    <3> QED BY <1>1, <2>1, <2>2, <3>1
            DEF IInv, LongsSound, LongsDistinct, TablesEnd
  <2>8. MapChecked'
    BY <1>1, <2>1 DEF MapChecked
  <2> QED BY <2>3, <2>6, <2>7, <2>8 DEF IInv
<1> QED BY <1>3, <1>4, <1>5, <1>6 DEF IndexEntry

(* sconf_opts_create_long_opts: its check that the table is full never     *)
(* refuses, for the table never is.                                        *)
LEMMA LongInv == IInv /\ LongEntry => IInv'
<1> SUFFICES ASSUME IInv, LongEntry PROVE IInv'
  OBVIOUS
<1> DEFINE e == map[pos]
<1>1. /\ pos \in 1 .. Len(map) /\ Len(map) \in Nat /\ phase = "long"
      /\ e.short \in Int /\ e.short <= CHAR_MAX
      /\ CHAR_MAX \in Nat /\ map' = map /\ Typed
      /\ DOMAIN map = 1 .. Len(map)
  BY EntryTyped, OptsAssumption DEF IInv, LongEntry, EntryIn, Typed
<1>2. Indexed = Len(map) /\ Longed = pos - 1
  BY <1>1 DEF Indexed, Longed
<1>3. ~(Len(longs) >= LongOptsSize)
  BY <1>1 DEF IInv, TablesEnd, LongOptsSize, Typed
<1>4. CASE e.long = NULL /\ Skip
  <2>1. /\ pos' = pos + 1 /\ phase' = phase
        /\ index' = index /\ longs' = longs /\ optstring' = optstring
    BY <1>4 DEF Skip, Continue, tables
  <2>2. Indexed' = Len(map) /\ Longed' = pos
    BY <1>1, <2>1 DEF Indexed, Longed
  <2>3. Typed'
    BY <1>1, <2>1 DEF Typed
  <2>4. IndexSound'
    BY <1>1, <1>2, <2>1, <2>2 DEF IInv, IndexSound
  <2>5. LongsSound'
    BY <1>1, <1>2, <1>4, <2>1, <2>2 DEF IInv, LongsSound
  <2>6. LongsDistinct' /\ TablesEnd' /\ MapChecked'
    BY <1>1, <2>1 DEF IInv, LongsDistinct, TablesEnd, MapChecked
  <2> QED BY <2>3, <2>4, <2>5, <2>6 DEF IInv
<1>5. CASE e.long # NULL /\ (e.short = 0 \/ e.type \notin OptionTypes) /\ Refuse
  <2>1. Incomplete
    BY <1>1, <1>5 DEF Incomplete
  <2> QED BY <1>1, <1>5, <2>1, RefuseInv
<1>6. CASE /\ e.long # NULL /\ e.short # 0 /\ e.type \in OptionTypes
           /\ longs' = Append(longs, [val |-> e.short, arg |-> Argument(e.type)])
           /\ Continue
           /\ UNCHANGED <<index, optstring>>
  <2> DEFINE new == [val |-> e.short, arg |-> Argument(e.type)]
             n   == Len(longs)
  <2>1. /\ pos' = pos + 1 /\ phase' = phase
        /\ index' = index /\ optstring' = optstring
        /\ longs' = Append(longs, new)
    BY <1>6 DEF Continue
  <2>2. Indexed' = Len(map) /\ Longed' = pos
    BY <1>1, <2>1 DEF Indexed, Longed
  <2>3. /\ e.short \in Codes /\ index[e.short] = pos
    BY <1>1, <1>2, <1>6 DEF IInv, IndexSound, Codes
  <2>4. new \in LongOption
    BY <2>3 DEF LongOption, Argument
  <2>5. /\ longs \in Seq(LongOption) /\ n \in Nat
        /\ longs' \in Seq(LongOption) /\ Len(longs') = n + 1
        /\ longs'[n + 1] = new /\ \A k \in 1 .. n : longs'[k] = longs[k]
    <3> HIDE DEF new
    <3> QED BY <1>1, <2>1, <2>4 DEF Typed
  <2>6. Typed'
    BY <1>1, <2>1, <2>5 DEF Typed
  <2>7. IndexSound'
    BY <1>1, <1>2, <2>1, <2>2 DEF IInv, IndexSound
  <2>8. LongsSound'
    <3>1. ASSUME NEW k \in 1 .. n + 1 PROVE index[longs'[k].val] \in 1 .. pos
      <4>1. CASE k = n + 1
        BY <1>1, <2>3, <2>5, <4>1
      <4>2. CASE k \in 1 .. n
        <5>1. index[longs[k].val] \in 1 .. pos - 1
          BY <1>1, <1>2, <4>2 DEF IInv, LongsSound
        <5> QED BY <1>1, <2>5, <4>2, <5>1
      <4> QED BY <2>5, <4>1, <4>2
    <3>2. ASSUME NEW i \in 1 .. pos, map[i].long # NULL
          PROVE  map[i].short # 0 /\ map[i].type \in OptionTypes
      BY <1>1, <1>2, <1>6, <3>2 DEF IInv, LongsSound
    <3> QED BY <1>1, <2>1, <2>2, <2>5, <3>1, <3>2 DEF LongsSound
  <2>9. LongsDistinct'
    <3>1. ASSUME NEW k \in 1 .. n PROVE longs[k].val # e.short
      BY <1>1, <1>2, <2>3 DEF IInv, LongsSound
    <3> QED BY <2>5, <3>1 DEF IInv, LongsDistinct
  <2>10. TablesEnd'
    <3>1. (Len(longs) <= CHAR_MAX)'
      <4>1. (longs \in Seq(LongOption) /\ LongsDistinct)'
        BY <2>5, <2>9
      <4> QED BY <4>1, DistinctFit, PTL
    <3> QED BY <1>1, <2>1, <2>5, <3>1 DEF IInv, TablesEnd, LongOptsSize
  <2>11. MapChecked'
    BY <1>1, <2>1 DEF MapChecked
  <2> QED BY <2>6, <2>7, <2>8, <2>9, <2>10, <2>11 DEF IInv
<1> QED BY <1>3, <1>4, <1>5, <1>6 DEF LongEntry

(* sconf_opts_create_optstring: the room it asks for is enough for the     *)
(* option and its mark.                                                    *)
LEMMA OptstringInv == IInv /\ OptstringEntry => IInv'
<1> SUFFICES ASSUME IInv, OptstringEntry PROVE IInv'
  OBVIOUS
<1> DEFINE e == map[pos]
<1>1. /\ pos \in 1 .. Len(map) /\ Len(map) \in Nat /\ phase = "optstring"
      /\ e.short \in Int /\ map' = map /\ Typed
      /\ OptstringMax \in Nat /\ optstring \in Seq(Int)
  BY EntryTyped, OptsAssumption DEF IInv, OptstringEntry, EntryIn, Typed
<1>2. CASE e.short # 0 /\ Len(optstring) + 3 >= OptstringMax - 1 /\ Refuse
  BY <1>1, <1>2, RefuseInv DEF Crowded
<1>3. ASSUME Continue, index' = index, longs' = longs,
             optstring' \in Seq(Int), Len(optstring') < OptstringMax
      PROVE  IInv'
  <2>1. /\ pos' = pos + 1 /\ phase' = phase
        /\ Indexed' = Indexed /\ Longed' = Longed
    BY <1>1, <1>3 DEF Continue, Indexed, Longed
  <2>2. Typed'
    BY <1>1, <1>3, <2>1 DEF Typed
  <2>3. IndexSound' /\ LongsSound' /\ LongsDistinct'
    BY <1>1, <1>3, <2>1 DEF IInv, IndexSound, LongsSound, LongsDistinct
  <2>4. TablesEnd' /\ MapChecked'
    BY <1>1, <1>3, <2>1 DEF IInv, TablesEnd, MapChecked
  <2> QED BY <2>2, <2>3, <2>4 DEF IInv
<1>4. CASE e.short = 0 /\ Skip
  BY <1>1, <1>3, <1>4 DEF IInv, TablesEnd, Skip, tables
<1>5. CASE /\ e.short # 0 /\ ~(Len(optstring) + 3 >= OptstringMax - 1)
           /\ optstring' = optstring \o <<e.short>> \o Mark(e.type)
           /\ Continue
           /\ UNCHANGED <<index, longs>>
  <2>1. Mark(e.type) \in Seq(Int) /\ Len(Mark(e.type)) <= 2
    <3>1. Colon \in Int
      BY OptsAssumption DEF Codes
    <3> QED BY <3>1 DEF Mark
  <2>2. /\ optstring' \in Seq(Int)
        /\ Len(optstring') = Len(optstring) + 1 + Len(Mark(e.type))
    BY <1>1, <1>5, <2>1
  <2>3. Len(optstring') < OptstringMax
    BY <1>1, <1>5, <2>1, <2>2
  <2> QED BY <1>3, <1>5, <2>2, <2>3
<1> QED BY <1>2, <1>4, <1>5 DEF OptstringEntry

(* The step from one loop to the next.                                     *)
LEMMA TablesInv == IInv /\ TablesNext => IInv'
<1> SUFFICES ASSUME IInv, TablesNext PROVE IInv'
  OBVIOUS
<1>1. /\ map' = map /\ pos' = 1 /\ index' = index
      /\ longs' = longs /\ optstring' = optstring
      /\ phase \in {"index", "long", "optstring"} /\ EndOf(phase)
      /\ phase' \in Phases \ {"index", "refused", "usage", "fault"}
      /\ phase = "index" => phase' = "long"
      /\ phase = "long" => phase' = "optstring"
      /\ phase = "optstring" => phase' \in {"ready", "done"}
  BY DEF TablesNext, GoTo, tables, EndOf, Phases
<1>2. pos = Len(map) + 1 /\ Len(map) \in Nat
  BY <1>1, LoopEnded DEF IInv
<1>3. /\ Indexed = Len(map) /\ Indexed' = Len(map)
      /\ Longed' = Longed
  BY <1>1, <1>2 DEF Indexed, Longed
<1>4. Typed'
  BY <1>1, <1>2 DEF IInv, Typed
<1>5. IndexSound' /\ LongsSound' /\ LongsDistinct' /\ TablesEnd'
  BY <1>1, <1>3
     DEF IInv, IndexSound, LongsSound, LongsDistinct, TablesEnd
<1>6. MapChecked'
  <2>1. CASE phase = "optstring"
    <3>1. ~Ambiguous /\ ~Incomplete
      BY <2>1, SoundMap DEF IInv
    <3>2. (Ambiguous <=> Ambiguous') /\ (Incomplete <=> Incomplete')
      BY <1>1 DEF Ambiguous, Incomplete, Options
    <3> QED BY <1>1, <2>1, <3>1, <3>2 DEF MapChecked
  <2>2. CASE phase # "optstring"
    BY <1>1, <2>2 DEF MapChecked
  <2> QED BY <2>1, <2>2
<1> QED BY <1>4, <1>5, <1>6 DEF IInv

(* The usage string is made with the tables as they are.                   *)
LEMMA UsageInv ==
    ASSUME IInv, phase \in {"ready", "usage"},
           phase' \in {"usage", "done", "fault"},
           pos' \in 1 .. Len(map) + 1,
           UNCHANGED <<map, tables>>
    PROVE  IInv'
<1>1. /\ map' = map /\ index' = index
      /\ longs' = longs /\ optstring' = optstring
      /\ Indexed = Len(map) /\ Indexed' = Len(map)
      /\ Longed = Len(map) /\ Longed' = Len(map)
  BY DEF tables, Indexed, Longed
<1>2. Typed'
  BY <1>1 DEF IInv, Typed, Phases
<1>3. IndexSound' /\ LongsSound' /\ LongsDistinct' /\ TablesEnd'
  BY <1>1 DEF IInv, IndexSound, LongsSound, LongsDistinct, TablesEnd
<1>4. MapChecked'
  <2>1. ~Ambiguous /\ ~Incomplete
    BY SoundMap DEF IInv
  <2>2. (Ambiguous <=> Ambiguous') /\ (Incomplete <=> Incomplete')
    BY <1>1 DEF Ambiguous, Incomplete, Options
  <2> QED BY <2>1, <2>2 DEF MapChecked
<1> QED BY <1>2, <1>3, <1>4 DEF IInv

(* Each loop keeps the invariant, and so does passing on to the next.      *)
LEMMA StepInv == IInv /\ [Next]_vars => IInv'
<1> SUFFICES ASSUME IInv, [Next]_vars PROVE IInv'
  OBVIOUS
<1>1. CASE IndexEntry
  BY <1>1, IndexInv
<1>2. CASE LongEntry
  BY <1>2, LongInv
<1>3. CASE OptstringEntry
  BY <1>3, OptstringInv
<1>4. CASE TablesNext
  BY <1>4, TablesInv
<1>5. CASE \E len \in Headers : UsageHeader(len)
  <2>1. /\ phase = "ready" /\ phase' = "usage" /\ pos' = 1
        /\ UNCHANGED <<map, tables>>
    BY <1>5 DEF UsageHeader, GoTo
  <2>2. pos' \in 1 .. Len(map) + 1
    BY <2>1, OptsAssumption DEF IInv, Typed
  <2> QED BY <2>1, <2>2, UsageInv
<1>6. CASE UsageEntry
  <2>1. /\ phase = "usage" /\ pos \in 1 .. Len(map) /\ Len(map) \in Nat
        /\ UNCHANGED <<map, tables>>
    BY <1>6, EntryTyped DEF IInv, UsageEntry, EntryIn
  <2>2. Continue \/ GoTo("fault")
    BY <1>6 DEF UsageEntry
  <2>3. phase' \in {"usage", "fault"} /\ pos' \in 1 .. Len(map) + 1
    BY <2>1, <2>2 DEF Continue, GoTo
  <2> QED BY <2>1, <2>3, UsageInv
<1>7. CASE UsageEnd
  <2>1. /\ phase = "usage" /\ phase' = "done" /\ pos' = 1
        /\ UNCHANGED <<map, tables>>
    BY <1>7 DEF UsageEnd, EndOf, GoTo
  <2>2. pos' \in 1 .. Len(map) + 1
    BY <2>1, OptsAssumption DEF IInv, Typed
  <2> QED BY <2>1, <2>2, UsageInv
<1>8. CASE UNCHANGED vars
  BY <1>8
     DEF vars, tables, usage, IInv, Typed, IndexSound, LongsSound, Indexed,
         Longed, LongsDistinct, TablesEnd, MapChecked, Ambiguous, Incomplete,
         Crowded, Options
<1> QED BY <1>1, <1>2, <1>3, <1>4, <1>5, <1>6, <1>7, <1>8 DEF Next

(* IInv always holds: for every config map and every size of the tables.   *)
THEOREM OptsInvariance == Spec => []IInv
BY InitInv, StepInv, PTL DEF Spec

(* No table of sconf_opts_parse is ever filled to its last element, so     *)
(* that getopt_long finds the end of each.                                 *)
THEOREM AlwaysTablesEnd == Spec => []TablesEnd
<1>1. IInv => TablesEnd
  BY DEF IInv
<1> QED BY <1>1, OptsInvariance, PTL

(* The options are looked at only if the map is sound as a whole, and a    *)
(* map is refused only if it is not, or is too long for the option string. *)
THEOREM AlwaysMapChecked == Spec => []MapChecked
<1>1. IInv => MapChecked
  BY DEF IInv
<1> QED BY <1>1, OptsInvariance, PTL

-----------------------------------------------------------------------------
(* The usage string.                                                       *)

(* What is in the buffer is all that was printed, as long as it had room.  *)
Fitted(s, w) ==
    /\ s \in Nat /\ w \in Nat
    /\ s < UsageMax - 1 => w = s

Narrow == \A i \in Options : Width(map[i]) + 4 <= UINT8_MAX

UInv ==
    /\ Fitted(size, written)
    /\ phase = "fault" => size > UsageMax - 1
    /\ Narrow => columns \subseteq {4 + Padding}

(* One snprintf: it stops at the room there is, or has none left.          *)
LEMMA SnprintfFits ==
    ASSUME NEW b, Fitted(b.size, b.written), NEW len \in Nat,
           b.ok \/ b.size > UsageMax - 1
    PROVE  LET b2 == Snprintf(b, len)
           IN  Fitted(b2.size, b2.written) /\ (b2.ok \/ b2.size > UsageMax - 1)
<1> DEFINE room == UsageMax - 1 - b.size
           fits == IF len < room THEN len ELSE IF room > 0 THEN room - 1 ELSE 0
           b2   == Snprintf(b, len)
<1>1. /\ UsageMax \in Nat /\ b.size \in Nat /\ b.written \in Nat /\ room \in Int
      /\ fits \in Nat
  BY OptsAssumption DEF Fitted
<1>2. CASE room < 0
  <2>1. b2.size = b.size /\ b2.written = b.written /\ b2.ok = FALSE
    BY <1>2 DEF Snprintf, Buffer
  <2>2. b.size > UsageMax - 1
    BY <1>1, <1>2
  <2> HIDE DEF b2
  <2>3. Fitted(b2.size, b2.written) /\ b2.size > UsageMax - 1
    BY <2>1, <2>2
  <2> QED BY <2>3 DEF b2
<1>3. CASE ~(room < 0)
  <2>1. b2.size = b.size + len /\ b2.written = b.written + fits /\ b2.ok = b.ok
    BY <1>3 DEF Snprintf, Buffer
  <2>2. b.ok
    BY <1>1, <1>3
  <2>3. b.size + len < UsageMax - 1 => b.written = b.size /\ fits = len
    BY <1>1 DEF Fitted
  <2> HIDE DEF b2, fits
  <2>4. Fitted(b2.size, b2.written)
    BY <1>1, <2>1, <2>3 DEF Fitted
  <2>5. b2.ok
    BY <2>1, <2>2
  <2> QED BY <2>4, <2>5 DEF b2
<1> QED BY <1>2, <1>3

(* The lengths of an entry's texts.                                        *)
LEMMA EntryLengths ==
    ASSUME Typed, NEW i \in 1 .. Len(map)
    PROVE  /\ ArgLen(map[i]) \in Nat /\ LongPart(map[i]) \in Nat
           /\ Width(map[i]) \in Nat
           /\ LongPart(map[i]) + ArgLen(map[i]) <= Width(map[i]) + 3
<1> DEFINE e == map[i]
<1>1. /\ e.long \in Nat \cup {NULL} /\ e.arg \in Nat \cup {NULL}
      /\ ArgTypeLen[e.type] \in Nat
  BY OptsAssumption DEF Typed
<1>2. ArgLen(e) \in Nat
  BY <1>1 DEF ArgLen
<1>3. CASE e.long = NULL
  BY <1>2, <1>3 DEF LongPart, Width
<1>4. CASE e.long # NULL
  BY <1>1, <1>2, <1>4 DEF LongPart, Width
<1> QED BY <1>2, <1>3, <1>4

(* A set of naturals below a bound has a largest one.                      *)
LEMMA LargestExists ==
    ASSUME NEW B \in Nat, NEW S \in SUBSET (0 .. B), 0 \in S
    PROVE  Largest(S) \in S /\ \A y \in S : y <= Largest(S)
<1> DEFINE T == {k \in 0 .. B : B - k \in S}
<1>1. B \in T /\ T \in SUBSET Nat /\ T # {}
  OBVIOUS
<1>2. PICK m \in T : \A k \in T : m <= k
  BY <1>1, LeastNatural
<1>3. B - m \in S /\ m \in 0 .. B
  BY <1>2
<1>4. ASSUME NEW y \in S PROVE y <= B - m
  <2>1. y \in 0 .. B /\ B - y \in 0 .. B /\ B - (B - y) = y
    OBVIOUS
  <2>2. m <= B - y
    BY <1>2, <2>1
  <2> QED BY <1>3, <2>1, <2>2
<1> QED BY <1>3, <1>4 DEF Largest

(* Padding is a number, and exact where every option is narrow.            *)
LEMMA PaddingFacts ==
    ASSUME Typed
    PROVE  /\ Padding \in Nat
           /\ Narrow => \A i \in Options : Width(map[i]) + 4 <= Padding
           /\ Narrow /\ Options # {} => Padding <= UINT8_MAX
<1> DEFINE S == {0} \cup {Width(map[i]) : i \in Options}
           L == Largest(S)
<1>1. UINT8_MAX \in Nat /\ Options \subseteq 1 .. Len(map)
  BY OptsAssumption DEF Typed, Options
<1>2. \A i \in Options : Width(map[i]) \in Nat
  BY <1>1, EntryLengths
<1>3. CASE \E i \in Options : Width(map[i]) > UINT8_MAX
  <2>1. Padding = 4 /\ ~Narrow
    BY <1>1, <1>2, <1>3 DEF Padding, Narrow
  <2> QED BY <2>1
<1>4. CASE ~ \E i \in Options : Width(map[i]) > UINT8_MAX
  <2>1. S \in SUBSET (0 .. UINT8_MAX) /\ 0 \in S
    BY <1>1, <1>2, <1>4
  <2>2. L \in S /\ \A y \in S : y <= L
    BY <1>1, <2>1, LargestExists
  <2>3. L \in 0 .. UINT8_MAX
    BY <2>1, <2>2
  <2>4. Padding = (L + 4) % (UINT8_MAX + 1)
    BY <1>4 DEF Padding
  <2>5. \A i \in Options : Width(map[i]) <= L
    BY <2>2
  <2>6. L = 0 \/ \E i \in Options : L = Width(map[i])
    BY <2>2
  <2> HIDE DEF L
  <2>7. Padding \in Nat
    BY <1>1, <2>3, <2>4
  <2>8. CASE Narrow /\ Options # {}
    <3>1. L + 4 <= UINT8_MAX
      <4>1. PICK i \in Options : L = Width(map[i]) \/ L = 0
        BY <2>6, <2>8
      <4>2. Width(map[i]) + 4 <= UINT8_MAX /\ Width(map[i]) \in Nat
        BY <1>2, <2>8 DEF Narrow
      <4> QED BY <1>1, <4>1, <4>2
    <3>2. Padding = L + 4
      BY <1>1, <2>3, <2>4, <3>1
    <3> QED BY <1>2, <2>3, <2>5, <2>7, <3>1, <3>2
  <2> QED BY <2>7, <2>8
<1> QED BY <1>3, <1>4

(* The column of the help text of an option is the padding.                *)
LEMMA ColumnFacts ==
    ASSUME Typed, NEW i \in Options
    PROVE  /\ PadLeft(map[i]) \in Nat
           /\ Narrow => Column(map[i]) = 4 + Padding
<1> DEFINE e == map[i]
           d == Padding - LongPart(e) - ArgLen(e)
<1>1. i \in 1 .. Len(map) /\ UINT8_MAX \in Nat
  BY OptsAssumption DEF Typed, Options
<1>2. /\ ArgLen(e) \in Nat /\ LongPart(e) \in Nat /\ Width(e) \in Nat
      /\ LongPart(e) + ArgLen(e) <= Width(e) + 3
  BY <1>1, EntryLengths
<1>3. /\ Padding \in Nat
      /\ Narrow => Width(e) + 4 <= Padding /\ Padding <= UINT8_MAX
  BY PaddingFacts
<1>4. PadLeft(e) = d % (UINT8_MAX + 1) /\ d \in Int
  BY <1>2, <1>3 DEF PadLeft
<1>5. PadLeft(e) \in Nat
  BY <1>1, <1>4
<1>6. ASSUME Narrow PROVE Column(e) = 4 + Padding
  <2>1. d \in 0 .. UINT8_MAX
    BY <1>1, <1>2, <1>3, <1>6
  <2>2. PadLeft(e) = d
    BY <1>1, <1>4, <2>1
  <2> QED BY <1>2, <1>3, <2>2 DEF Column
<1> QED BY <1>5, <1>6

(* A line of the usage string keeps the buffer and what is said of it      *)
(* together.                                                               *)
LEMMA LineFits ==
    ASSUME Typed, NEW i \in Options, Fitted(size, written)
    PROVE  LET b == Line(Buffer(size, written, TRUE), map[i])
           IN  Fitted(b.size, b.written) /\ (b.ok \/ b.size > UsageMax - 1)
<1> DEFINE e  == map[i]
           b1 == Buffer(size, written, TRUE)
           b2 == Snprintf(b1, 4)
           b3 == IF e.long = NULL THEN b2 ELSE Snprintf(b2, LongPart(e))
           b4 == Snprintf(b3, ArgLen(e))
           b5 == Snprintf(b4, LastPart(e))
           Good(b) == Fitted(b.size, b.written) /\ (b.ok \/ b.size > UsageMax - 1)
<1>1. /\ ArgLen(e) \in Nat /\ LongPart(e) \in Nat /\ LastPart(e) \in Nat
  <2>1. i \in 1 .. Len(map)
    BY OptsAssumption DEF Typed, Options
  <2>2. e.help \in Nat \cup {NULL}
    BY <2>1, OptsAssumption DEF Typed
  <2>3. PadLeft(e) \in Nat
    BY ColumnFacts
  <2>4. LastPart(e) \in Nat
    BY <2>2, <2>3 DEF LastPart
  <2> QED BY <2>1, <2>4, EntryLengths
<1>2. Good(b1)
  BY DEF Buffer
<1>3. Good(b2)
  BY <1>2, SnprintfFits
<1>4. Good(b3)
  BY <1>1, <1>3, SnprintfFits
<1>5. Good(b4)
  <2> HIDE DEF b3
  <2> QED BY <1>1, <1>4, SnprintfFits
<1>6. Good(b5)
  <2> HIDE DEF b4
  <2> QED BY <1>1, <1>5, SnprintfFits
<1>7. Line(b1, e) = b5
  BY DEF Line
<1> QED BY <1>6, <1>7

(* Where the map stays, so does the padding.                               *)
LEMMA UsageStays ==
    ASSUME UInv, UNCHANGED <<map, usage>>, phase' # "fault" \/ phase' = phase
    PROVE  UInv'
<1>1. /\ map' = map /\ size' = size /\ written' = written /\ columns' = columns
  BY DEF usage
<1>2. Narrow' = Narrow /\ Padding' = Padding
  BY <1>1 DEF Narrow, Padding, Options, Width, ArgLen
<1> QED BY <1>1, <1>2 DEF UInv

(* Before the usage string is begun it is empty.                           *)
LEMMA UsageInitInv == Init => UInv
  BY DEF Init, UInv, Fitted

(* Each step keeps what is said of the usage string.                       *)
LEMMA UsageStepInv == IInv /\ UInv /\ [Next]_vars => UInv'
<1> SUFFICES ASSUME IInv, UInv, [Next]_vars PROVE UInv'
  OBVIOUS
<1>1. Typed /\ UsageMax \in Nat
  BY OptsAssumption DEF IInv
<1>2. CASE IndexEntry \/ LongEntry \/ OptstringEntry
  <2>1. UNCHANGED <<map, usage>>
    BY <1>2 DEF IndexEntry, LongEntry, OptstringEntry
  <2>2. phase' = phase \/ phase' = "refused"
    BY <1>2 DEF IndexEntry, LongEntry, OptstringEntry, Skip, Continue, Refuse, GoTo
  <2> QED BY <2>1, <2>2, UsageStays
<1>3. CASE TablesNext
  <2>1. UNCHANGED <<map, usage>> /\ phase' # "fault"
    BY <1>3 DEF TablesNext, GoTo
  <2> QED BY <2>1, UsageStays
<1>4. ASSUME NEW len \in Headers, UsageHeader(len) PROVE UInv'
  <2> DEFINE b == Snprintf(Buffer(0, 0, TRUE), len)
  <2>1. len \in Nat
    BY OptsAssumption
  <2>2. Fitted(0, 0) /\ Buffer(0, 0, TRUE).size = 0 /\ Buffer(0, 0, TRUE).written = 0
        /\ Buffer(0, 0, TRUE).ok
    BY DEF Fitted, Buffer
  <2>3. Fitted(b.size, b.written)
    BY <2>1, <2>2, SnprintfFits
  <2>4. /\ size' = b.size /\ written' = b.written /\ columns' = columns
        /\ map' = map /\ phase' = "usage"
    BY <1>4 DEF UsageHeader, GoTo
  <2>5. Narrow' = Narrow /\ Padding' = Padding
    BY <2>4 DEF Narrow, Padding, Options, Width, ArgLen
  <2> HIDE DEF b
  <2> QED BY <2>3, <2>4, <2>5 DEF UInv
<1>5. CASE UsageEntry
  <2>0. /\ phase = "usage" /\ pos \in 1 .. Len(map) /\ map' = map
        /\ DOMAIN map = 1 .. Len(map)
    BY <1>1, <1>5, EntryTyped, OptsAssumption DEF UsageEntry, EntryIn, Typed
  <2>1. CASE map[pos].short = 0
    <3>1. UNCHANGED <<map, usage>> /\ phase' = phase
      BY <1>5, <2>0, <2>1 DEF UsageEntry, Continue
    <3> QED BY <3>1, UsageStays
  <2>2. CASE map[pos].short # 0
    <3> DEFINE b == Line(Buffer(size, written, TRUE), map[pos])
    <3>1. pos \in Options
      BY <2>0, <2>2 DEF Options
    <3>2. Fitted(b.size, b.written) /\ (b.ok \/ b.size > UsageMax - 1)
      BY <1>1, <3>1, LineFits DEF UInv
    <3>3. /\ size' = b.size /\ written' = b.written
          /\ columns' = columns \cup {Column(map[pos])}
          /\ IF b.ok THEN Continue ELSE GoTo("fault")
      BY <1>5, <2>2 DEF UsageEntry
    <3>4. Narrow' = Narrow /\ Padding' = Padding
      BY <2>0 DEF Narrow, Padding, Options, Width, ArgLen
    <3>5. Narrow => Column(map[pos]) = 4 + Padding
      BY <1>1, <3>1, ColumnFacts
    <3> HIDE DEF b
    <3>6. phase' = "fault" => size' > UsageMax - 1
      BY <2>0, <3>2, <3>3 DEF Continue
    <3> QED BY <3>2, <3>3, <3>4, <3>5, <3>6 DEF UInv
  <2> QED BY <2>1, <2>2
<1>6. CASE UsageEnd
  <2>1. UNCHANGED <<map, usage>> /\ phase' # "fault"
    BY <1>6 DEF UsageEnd, GoTo
  <2> QED BY <2>1, UsageStays
<1>7. CASE UNCHANGED vars
  <2>1. UNCHANGED <<map, usage>> /\ phase' = phase
    BY <1>7 DEF vars
  <2> QED BY <2>1, UsageStays
<1> QED BY <1>2, <1>3, <1>4, <1>5, <1>6, <1>7 DEF Next

(* UInv always holds beside IInv.                                          *)
THEOREM UsageInvariance == Spec => [](IInv /\ UInv)
<1>1. Init => IInv /\ UInv
  BY InitInv, UsageInitInv
<1>2. (IInv /\ UInv) /\ [Next]_vars => (IInv /\ UInv)'
  BY StepInv, UsageStepInv
<1> QED BY <1>1, <1>2, PTL DEF Spec

(* A usage string shorter than SCONF_OPTS_USAGE_STRING_MAX is printed as a *)
(* whole, and only a longer one is written past its buffer (opts.c:466).   *)
THEOREM AlwaysUsageWhole == Spec => []UsageWhole
<1>1. UInv => UsageWhole
  BY DEF UInv, UsageWhole, Fitted
<1> QED BY <1>1, UsageInvariance, PTL

(* Where the padding fits into 8 bits, all help texts start in one column. *)
THEOREM AlwaysAligned == Spec => []Aligned
<1>1. UInv => Aligned
  BY DEF UInv, Aligned, Narrow
<1> QED BY <1>1, UsageInvariance, PTL

-----------------------------------------------------------------------------
(* What getopt_long is told of the options.                                *)

(* How many entries the loop of the option string has been through.        *)
Listed == IF phase \in {"index", "long"} THEN 0
          ELSE IF phase = "optstring" THEN pos - 1 ELSE Len(map)

NoColon == \A i \in Options : map[i].short # Colon

ColonAt(s, q) == q <= Len(s) /\ s[q] = Colon

ToldAt(s, p) ==
    IF ~ColonAt(s, p + 1) THEN "none"
    ELSE IF ~ColonAt(s, p + 2) THEN "required" ELSE "optional"

(* The option c stands in the option string at p and nowhere else, with    *)
(* the mark of its argument.                                               *)
StandsAt(s, c, p, arg) ==
    /\ p \in 2 .. Len(s)
    /\ s[p] = c
    /\ ToldAt(s, p) = arg
    /\ \A q \in 2 .. Len(s) : s[q] = c => q = p

(* Each option listed stands in the option string once, and nothing does   *)
(* that is not one of them.                                                *)
ListedOnce ==
    /\ Len(optstring) >= 1
    /\ \A q \in 2 .. Len(optstring) :
          optstring[q] = Colon \/ \E i \in 1 .. Listed : map[i].short = optstring[q]
    /\ \A i \in 1 .. Listed : map[i].short # 0 =>
          \E p \in 2 .. Len(optstring) :
              StandsAt(optstring, map[i].short, p, Argument(map[i].type))

LongsTold ==
    \A k \in 1 .. Len(longs) : longs[k].arg = Argument(map[index[longs[k].val]].type)

TInv == phase # "refused" => LongsTold /\ (NoColon => ListedOnce)

(* A text with a character and another text added to it.                   *)
Adding(s, c, m) == s \o <<c>> \o m

(* What is then found where.                                               *)
Joined(t, s, c, m) ==
    /\ t \in Seq(Int)
    /\ Len(t) = Len(s) + 1 + Len(m)
    /\ \A q \in 1 .. Len(s) : t[q] = s[q]
    /\ t[Len(s) + 1] = c
    /\ \A j \in 1 .. Len(m) : t[Len(s) + 1 + j] = m[j]

(* Nothing of the two texts is lost or moved among itself.                 *)
LEMMA Appended ==
    ASSUME NEW s \in Seq(Int), NEW c \in Int, NEW m \in Seq(Int)
    PROVE  Joined(Adding(s, c, m), s, c, m)
<1> DEFINE u == s \o <<c>>
           t == u \o m
           n == Len(s)
           l == Len(m)
<1>1. n \in Nat /\ l \in Nat
  OBVIOUS
<1>2. /\ u \in Seq(Int) /\ Len(u) = n + 1 /\ u[n + 1] = c
      /\ \A q \in 1 .. n : u[q] = s[q]
  OBVIOUS
<1> HIDE DEF u
<1>3. /\ t \in Seq(Int) /\ Len(t) = Len(u) + l
      /\ \A i \in 1 .. Len(u) + l :
            t[i] = IF i <= Len(u) THEN u[i] ELSE m[i - Len(u)]
  BY <1>2, ConcatProperties
<1> HIDE DEF t, n, l
<1>4. \A i \in 1 .. n + 1 + l : t[i] = IF i <= n + 1 THEN u[i] ELSE m[i - (n + 1)]
  BY <1>2, <1>3
<1>5. ASSUME NEW q \in 1 .. n PROVE t[q] = s[q]
  <2>1. q \in 1 .. n + 1 + l /\ q <= n + 1
    BY <1>1
  <2> QED BY <1>2, <1>4, <2>1
<1>6. t[n + 1] = c
  <2>1. n + 1 \in 1 .. n + 1 + l /\ n + 1 <= n + 1
    BY <1>1
  <2> QED BY <1>2, <1>4, <2>1
<1>7. ASSUME NEW j \in 1 .. l PROVE t[n + 1 + j] = m[j]
  <2> DEFINE k == n + 1 + j
  <2>1. k \in 1 .. n + 1 + l /\ ~(k <= n + 1) /\ k - (n + 1) = j
    BY <1>1
  <2> HIDE DEF k
  <2>2. t[k] = IF k <= n + 1 THEN u[k] ELSE m[k - (n + 1)]
    BY <1>4, <2>1
  <2>3. t[k] = m[j]
    BY <2>1, <2>2
  <2> QED BY <2>3 DEF k
<1> QED BY <1>2, <1>3, <1>5, <1>6, <1>7 DEF t, u, n, l, Adding, Joined

(* An option and its mark at the end of the option string are told, and    *)
(* what stood before them still is.                                        *)
Extended(s, t, n, c, l, type) ==
    /\ n >= 1 /\ Len(s) = n
    /\ c # Colon
    /\ \A q \in 2 .. n : s[q] # c
    /\ l = IF Argument(type) = "none" THEN 0
           ELSE IF Argument(type) = "required" THEN 1 ELSE 2
    /\ Len(t) = n + 1 + l
    /\ \A q \in 1 .. n : t[q] = s[q]
    /\ t[n + 1] = c
    /\ \A j \in 1 .. l : t[n + 1 + j] = Colon

(* The option is told, and the options told before still are.              *)
LEMMA AppendOption ==
    ASSUME NEW s, NEW t, NEW n \in Nat, NEW c \in Int, NEW l \in 0 .. 2, NEW type,
           Extended(s, t, n, c, l, type)
    PROVE  /\ \A q \in n + 1 .. Len(t) : t[q] = c \/ t[q] = Colon
           /\ StandsAt(t, c, n + 1, Argument(type))
           /\ \A d, p, arg : d # c /\ d # Colon /\ StandsAt(s, d, p, arg) =>
                                StandsAt(t, d, p, arg)
<1>1. /\ Argument(type) \in {"none", "required", "optional"}
      /\ n + 1 \in 2 .. Len(t) /\ Len(t) \in Nat
  BY DEF Argument, Extended
<1>2. /\ Len(t) = n + 1 + l /\ n >= 1
      /\ \A q \in 1 .. n : t[q] = s[q]
      /\ t[n + 1] = c
      /\ Len(s) = n /\ c # Colon
      /\ \A q \in 2 .. n : s[q] # c
      /\ l = IF Argument(type) = "none" THEN 0
             ELSE IF Argument(type) = "required" THEN 1 ELSE 2
      /\ \A j \in 1 .. l : t[n + 1 + j] = Colon
  BY DEF Extended
<1>3. \A q \in n + 2 .. Len(t) : t[q] = Colon
  <2> SUFFICES ASSUME NEW q \in n + 2 .. Len(t) PROVE t[q] = Colon
    OBVIOUS
  <2>1. q - (n + 1) \in 1 .. l /\ n + 1 + (q - (n + 1)) = q
    BY <1>1, <1>2
  <2> QED BY <1>1, <1>2, <2>1
<1>4. ASSUME NEW q \in n + 1 .. Len(t) PROVE t[q] = c \/ t[q] = Colon
  <2>1. q = n + 1 \/ q \in n + 2 .. Len(t)
    BY <1>1, <1>2
  <2> QED BY <1>2, <1>3, <2>1
<1>5. StandsAt(t, c, n + 1, Argument(type))
  <2>1. n + 1 \in 2 .. Len(t)
    BY <1>1, <1>2
  <2>2. ASSUME NEW q \in 2 .. Len(t), t[q] = c PROVE q = n + 1
    <3>1. CASE q <= n
      BY <1>1, <1>2, <2>2, <3>1
    <3>2. CASE q >= n + 2
      BY <1>1, <1>2, <1>3, <2>2, <3>2
    <3> QED BY <1>1, <3>1, <3>2
  <2>3. ToldAt(t, n + 1) = Argument(type)
    <3>1. ColonAt(t, n + 2) <=> l >= 1
      BY <1>1, <1>2, <1>3 DEF ColonAt
    <3>2. ColonAt(t, n + 3) <=> l >= 2
      BY <1>1, <1>2, <1>3 DEF ColonAt
    <3>3. n + 1 + 1 = n + 2 /\ n + 1 + 2 = n + 3
      BY <1>1
    <3> QED BY <1>1, <1>2, <3>1, <3>2, <3>3 DEF ToldAt
  <2> QED BY <1>2, <2>1, <2>2, <2>3 DEF StandsAt
<1>6. ASSUME NEW d, NEW p, NEW arg, d # c, d # Colon, StandsAt(s, d, p, arg)
      PROVE  StandsAt(t, d, p, arg)
  <2>1. p \in 2 .. n /\ s[p] = d /\ ToldAt(s, p) = arg
        /\ \A q \in 2 .. n : s[q] = d => q = p
    BY <1>2, <1>6 DEF StandsAt
  <2>2. p \in 2 .. Len(t) /\ t[p] = d
    BY <1>1, <1>2, <2>1
  <2>3. ASSUME NEW q \in 2 .. Len(t), t[q] = d PROVE q = p
    <3>1. CASE q <= n
      BY <1>1, <1>2, <2>1, <2>3, <3>1
    <3>2. CASE q >= n + 1
      BY <1>1, <1>2, <1>4, <1>6, <2>3, <3>2
    <3> QED BY <1>1, <3>1, <3>2
  <2>4. ASSUME NEW q \in {p + 1, p + 2}
        PROVE  /\ q <= n + 1 => (ColonAt(t, q) <=> ColonAt(s, q))
               /\ q > n => ~ColonAt(s, q)
    <3>1. q \in Nat /\ q >= 1
      BY <2>1
    <3>2. CASE q <= n
      BY <1>1, <1>2, <3>1, <3>2 DEF ColonAt
    <3>3. CASE q = n + 1
      BY <1>1, <1>2, <3>1, <3>3 DEF ColonAt
    <3>4. CASE q > n + 1
      BY <1>1, <1>2, <3>1, <3>4 DEF ColonAt
    <3> QED BY <1>1, <3>1, <3>2, <3>3, <3>4
  <2>5. p + 1 <= n + 1 /\ (p + 2 <= n + 1 \/ p + 1 > n)
    BY <1>1, <2>1
  <2>6. ToldAt(t, p) = ToldAt(s, p)
    BY <1>1, <2>1, <2>4, <2>5 DEF ToldAt
  <2> QED BY <2>1, <2>2, <2>3, <2>6 DEF StandsAt
<1>7. \A d, p, arg : d # c /\ d # Colon /\ StandsAt(s, d, p, arg) =>
                        StandsAt(t, d, p, arg)
  BY <1>6
<1> QED BY <1>4, <1>5, <1>7

(* The option string with an option and its mark added to it.              *)
WithOption(s, c, type) == Adding(s, c, Mark(type))

(* What OptstringEntry makes of the option string.                         *)
LEMMA OptionAdded ==
    ASSUME NEW s \in Seq(Int), Len(s) >= 1, NEW c \in Int, c # Colon, NEW type,
           \A q \in 2 .. Len(s) : s[q] # c
    PROVE  /\ Len(WithOption(s, c, type)) \in Nat
           /\ Len(WithOption(s, c, type)) >= Len(s) + 1
           /\ \A q \in 1 .. Len(s) : WithOption(s, c, type)[q] = s[q]
           /\ \A q \in Len(s) + 1 .. Len(WithOption(s, c, type)) :
                 \/ WithOption(s, c, type)[q] = c
                 \/ WithOption(s, c, type)[q] = Colon
           /\ StandsAt(WithOption(s, c, type), c, Len(s) + 1, Argument(type))
           /\ \A d, p, arg : d # c /\ d # Colon /\ StandsAt(s, d, p, arg)
                                => StandsAt(WithOption(s, c, type), d, p, arg)
<1> DEFINE m == Mark(type)
           l == Len(m)
           n == Len(s)
           t == WithOption(s, c, type)
<1>1. /\ m \in Seq(Int) /\ l \in 0 .. 2 /\ n \in Nat
      /\ l = (IF Argument(type) = "none" THEN 0
              ELSE IF Argument(type) = "required" THEN 1 ELSE 2)
      /\ \A j \in 1 .. l : m[j] = Colon
  BY OptsAssumption DEF Codes, Mark, Argument
<1>2. t = Adding(s, c, m)
  BY DEF WithOption
<1> HIDE DEF m, t
<1>3. /\ Len(t) = n + 1 + l
      /\ \A q \in 1 .. n : t[q] = s[q]
      /\ t[n + 1] = c
      /\ \A j \in 1 .. l : t[n + 1 + j] = m[j]
  <2>1. m \in Seq(Int)
    BY <1>1
  <2>2. Joined(Adding(s, c, m), s, c, m)
    BY <2>1, Appended
  <2> QED BY <1>2, <2>2 DEF Joined
<1>4. \A j \in 1 .. l : t[n + 1 + j] = Colon
  BY <1>1, <1>3
<1>5. n >= 1 /\ Len(s) = n /\ \A q \in 2 .. n : s[q] # c
  OBVIOUS
<1> HIDE DEF n, l
<1>6. Len(t) \in Nat /\ Len(t) >= n + 1
  BY <1>1, <1>3
<1>7. Extended(s, t, n, c, l, type)
  BY <1>1, <1>3, <1>4, <1>5 DEF Extended
<1>8. /\ \A q \in n + 1 .. Len(t) : t[q] = c \/ t[q] = Colon
      /\ StandsAt(t, c, n + 1, Argument(type))
      /\ \A d, p, arg : d # c /\ d # Colon /\ StandsAt(s, d, p, arg) =>
                           StandsAt(t, d, p, arg)
  BY <1>1, <1>7, AppendOption
<1> QED BY <1>3, <1>6, <1>8 DEF n, t

(* Before the entries are read there is nothing to tell.                   *)
LEMMA ToldInitInv == Init => TInv
<1> SUFFICES ASSUME Init PROVE TInv
  OBVIOUS
<1>1. longs = <<>> /\ Len(longs) = 0 /\ Len(optstring) = 1 /\ Listed = 0
  BY DEF Init, Listed
<1> QED BY <1>1 DEF TInv, LongsTold, ListedOnce

(* What is said of the tables stays true where they stay.                  *)
LEMMA ToldStays ==
    ASSUME TInv, phase # "refused", UNCHANGED <<map, longs, optstring>>,
           index' = index \/ longs = <<>>, Listed' = Listed
    PROVE  TInv'
<1>1. NoColon' = NoColon
  BY DEF NoColon, Options
<1>2. LongsTold'
  BY DEF TInv, LongsTold
<1>3. NoColon => ListedOnce'
  BY DEF TInv, ListedOnce
<1> QED BY <1>1, <1>2, <1>3 DEF TInv

(* Each step keeps what getopt_long is told.                               *)
LEMMA ToldStepInv == IInv /\ TInv /\ [Next]_vars => TInv'
<1> SUFFICES ASSUME IInv, TInv, [Next]_vars PROVE TInv'
  OBVIOUS
<1>1. Typed /\ Len(map) \in Nat /\ DOMAIN map = 1 .. Len(map)
  BY OptsAssumption DEF IInv, Typed
<1>2. ASSUME Refuse PROVE TInv'
  BY <1>2 DEF TInv, Refuse, GoTo
<1>3. CASE IndexEntry /\ ~Refuse
  <2>1. /\ phase = "index" /\ phase' = phase
        /\ UNCHANGED <<map, longs, optstring>>
    BY <1>3 DEF IndexEntry, EntryIn, Skip, Continue, tables
  <2>2. longs = <<>>
    <3>1. Longed = 0 /\ longs \in Seq(LongOption)
      BY <1>1, <2>1 DEF Longed, Typed
    <3>2. Len(longs) = 0
      BY <2>1, <3>1 DEF IInv, LongsSound
    <3> QED BY <3>1, <3>2
  <2>3. Listed' = Listed
    BY <2>1 DEF Listed
  <2> QED BY <2>1, <2>2, <2>3, ToldStays
<1>4. CASE LongEntry /\ ~Refuse
  <2>0. /\ phase = "long" /\ phase' = phase
        /\ UNCHANGED <<map, index, optstring>>
        /\ pos \in 1 .. Len(map) /\ map[pos].short \in Int
        /\ map[pos].short <= CHAR_MAX
        /\ Listed = 0 /\ Listed' = 0
    <3>1. phase = "long" /\ phase' = phase /\ UNCHANGED <<map, index, optstring>>
      BY <1>4 DEF LongEntry, EntryIn, Skip, Continue, tables
    <3> QED BY <1>1, <1>4, <3>1, EntryTyped DEF LongEntry, Listed
  <2>1. CASE UNCHANGED longs
    BY <2>0, <2>1, ToldStays
  <2>2. CASE ~UNCHANGED longs
    <3> DEFINE e   == map[pos]
               new == [val |-> e.short, arg |-> Argument(e.type)]
               n   == Len(longs)
    <3>1. longs' = Append(longs, new) /\ e.short # 0
      BY <1>4, <2>2 DEF LongEntry, Skip, tables
    <3>2. index[e.short] = pos
      BY <2>0, <3>1 DEF IInv, IndexSound, Indexed
    <3>3. e.short \in Codes
      BY <2>0, <3>1, OptsAssumption DEF IInv, IndexSound, Indexed, Codes
    <3>4. new \in LongOption
      BY <3>3 DEF LongOption, Argument
    <3>5. new.val = e.short /\ new.arg = Argument(e.type)
      OBVIOUS
    <3> HIDE DEF new
    <3>6. /\ n \in Nat /\ Len(longs') = n + 1
          /\ longs'[n + 1] = new /\ \A k \in 1 .. n : longs'[k] = longs[k]
      BY <1>1, <3>1, <3>4 DEF Typed
    <3>7. LongsTold'
      <4> SUFFICES ASSUME NEW k \in 1 .. n + 1
                   PROVE  longs'[k].arg = Argument(map[index[longs'[k].val]].type)
        BY <2>0, <3>6 DEF LongsTold
      <4>1. CASE k = n + 1
        BY <3>2, <3>5, <3>6, <4>1
      <4>2. CASE k \in 1 .. n
        BY <2>0, <3>6, <4>2 DEF TInv, LongsTold
      <4> QED BY <3>6, <4>1, <4>2
    <3>8. NoColon' => ListedOnce'
      BY <2>0 DEF TInv, NoColon, Options, ListedOnce
    <3> QED BY <3>7, <3>8 DEF TInv
  <2> QED BY <2>1, <2>2
<1>5. CASE OptstringEntry /\ ~Refuse
  <2> DEFINE e == map[pos]
             n == Len(optstring)
  <2>0. /\ phase = "optstring" /\ phase' = phase /\ pos' = pos + 1
        /\ UNCHANGED <<map, index, longs>>
        /\ pos \in 1 .. Len(map) /\ e.short \in Int
        /\ e.short <= CHAR_MAX
        /\ Listed = pos - 1 /\ Listed' = pos
        /\ optstring \in Seq(Int) /\ n \in Nat
    <3>1. /\ phase = "optstring" /\ phase' = phase /\ pos' = pos + 1
          /\ UNCHANGED <<map, index, longs>>
      BY <1>5 DEF OptstringEntry, EntryIn, Skip, Continue, tables
    <3>2. pos \in 1 .. Len(map) /\ e.short \in Int /\ e.short <= CHAR_MAX
      BY <1>1, <1>5, EntryTyped DEF OptstringEntry
    <3> QED BY <1>1, <3>1, <3>2 DEF Listed, Typed
  <2>1. LongsTold' /\ NoColon' = NoColon
    BY <2>0 DEF TInv, LongsTold, NoColon, Options
  <2>2. ASSUME NoColon PROVE ListedOnce'
    <3>0. ListedOnce
      BY <2>0, <2>2 DEF TInv
    <3>1. CASE e.short = 0
      <4>1. optstring' = optstring
        BY <1>5, <3>1 DEF OptstringEntry, Skip, tables
      <4> QED BY <2>0, <3>0, <3>1, <4>1 DEF ListedOnce
    <3>2. CASE e.short # 0
      <4>1. optstring' = optstring \o <<e.short>> \o Mark(e.type)
        BY <1>5, <3>2 DEF OptstringEntry
      <4>2. e.short # Colon
        BY <1>1, <2>0, <2>2, <3>2 DEF NoColon, Options
      <4>3. \A i \in 1 .. Len(map) : map[i].short # 0 => index[map[i].short] = i
        BY <2>0 DEF IInv, IndexSound, Indexed
      <4>4. \A i \in 1 .. pos - 1 : map[i].short # e.short
        BY <2>0, <3>2, <4>3
      <4>5. \A q \in 2 .. n : optstring[q] # e.short
        BY <2>0, <3>0, <4>2, <4>4 DEF ListedOnce
      <4>6. /\ Len(optstring') \in Nat /\ Len(optstring') >= n + 1
            /\ \A q \in 1 .. n : optstring'[q] = optstring[q]
            /\ \A q \in n + 1 .. Len(optstring') :
                  optstring'[q] = e.short \/ optstring'[q] = Colon
            /\ StandsAt(optstring', e.short, n + 1, Argument(e.type))
            /\ \A d, p, arg : d # e.short /\ d # Colon /\ StandsAt(optstring, d, p, arg)
                                 => StandsAt(optstring', d, p, arg)
        <5>1. optstring' = WithOption(optstring, e.short, e.type)
          BY <4>1 DEF WithOption, Adding
        <5>2. n >= 1
          BY <3>0 DEF ListedOnce
        <5> DEFINE c == e.short
                   type == e.type
        <5>3. /\ optstring \in Seq(Int) /\ Len(optstring) >= 1 /\ c \in Int /\ c # Colon
              /\ \A q \in 2 .. Len(optstring) : optstring[q] # c
          BY <2>0, <4>2, <4>5, <5>2
        <5> HIDE DEF c, type
        <5>4. optstring' = WithOption(optstring, c, type)
          BY <5>1 DEF c, type
        <5>5. /\ Len(optstring') \in Nat /\ Len(optstring') >= n + 1
              /\ \A q \in 1 .. n : optstring'[q] = optstring[q]
              /\ \A q \in n + 1 .. Len(optstring') :
                    optstring'[q] = c \/ optstring'[q] = Colon
              /\ StandsAt(optstring', c, n + 1, Argument(type))
              /\ \A d, p, arg : d # c /\ d # Colon /\ StandsAt(optstring, d, p, arg)
                                   => StandsAt(optstring', d, p, arg)
          BY <5>3, <5>4, OptionAdded
        <5> QED BY <5>5 DEF c, type
      <4>7. ASSUME NEW q \in 2 .. Len(optstring')
            PROVE  \/ optstring'[q] = Colon
                   \/ \E i \in 1 .. pos : map[i].short = optstring'[q]
        <5>1. CASE q <= n
          BY <2>0, <3>0, <4>6, <5>1 DEF ListedOnce
        <5>2. CASE q >= n + 1
          BY <2>0, <4>6, <5>2
        <5> QED BY <2>0, <5>1, <5>2
      <4>8. ASSUME NEW i \in 1 .. pos, map[i].short # 0
            PROVE  \E p \in 2 .. Len(optstring') :
                      StandsAt(optstring', map[i].short, p, Argument(map[i].type))
        <5>1. CASE i = pos
          BY <4>6, <5>1 DEF StandsAt
        <5>2. CASE i \in 1 .. pos - 1
          <6>1. PICK p \in 2 .. n :
                   StandsAt(optstring, map[i].short, p, Argument(map[i].type))
            BY <2>0, <3>0, <4>8, <5>2 DEF ListedOnce
          <6>2. map[i].short # Colon /\ map[i].short # e.short
            BY <1>1, <2>0, <2>2, <4>4, <4>8, <5>2 DEF NoColon, Options
          <6>3. StandsAt(optstring', map[i].short, p, Argument(map[i].type))
            BY <4>6, <6>1, <6>2
          <6> QED BY <6>3 DEF StandsAt
        <5> QED BY <2>0, <5>1, <5>2
      <4>9. Len(optstring') >= 1
        BY <2>0, <4>6
      <4> QED BY <2>0, <4>7, <4>8, <4>9 DEF ListedOnce
    <3> QED BY <3>1, <3>2
  <2> QED BY <2>1, <2>2 DEF TInv
<1>6. CASE TablesNext
  <2>1. /\ phase \in {"index", "long", "optstring"} /\ EndOf(phase)
        /\ UNCHANGED <<map, index, longs, optstring>> /\ pos' = 1
        /\ phase = "index" => phase' = "long"
        /\ phase = "long" => phase' = "optstring"
        /\ phase = "optstring" => phase' \in {"ready", "done"}
    BY <1>6 DEF TablesNext, GoTo, tables, EndOf
  <2>2. Listed' = Listed
    BY <1>1, <2>1, LoopEnded DEF Listed
  <2> QED BY <2>1, <2>2, ToldStays
<1>7. CASE (\E len \in Headers : UsageHeader(len)) \/ UsageEntry \/ UsageEnd
  <2>1. /\ phase \in {"ready", "usage"} /\ phase' \in {"usage", "done", "fault"}
        /\ UNCHANGED <<map, index, longs, optstring>>
    BY <1>7 DEF UsageHeader, UsageEntry, UsageEnd, EntryIn, EndOf, GoTo, Continue, tables
  <2>2. Listed' = Listed
    BY <2>1 DEF Listed
  <2> QED BY <2>1, <2>2, ToldStays
<1>8. CASE UNCHANGED vars
  BY <1>8 DEF vars, tables, TInv, LongsTold, NoColon, Options, ListedOnce, Listed
<1>9. IndexEntry \/ LongEntry \/ OptstringEntry \/ TablesNext
      \/ (\E len \in Headers : UsageHeader(len)) \/ UsageEntry \/ UsageEnd
      \/ UNCHANGED vars
  BY DEF Next
<1> QED BY <1>2, <1>3, <1>4, <1>5, <1>6, <1>7, <1>8, <1>9

(* With the option string as it is, getopt_long finds each option and the  *)
(* colons after it.                                                        *)
LEMMA ToldImplies == IInv /\ TInv => TablesAgree
<1> SUFFICES ASSUME IInv, TInv, phase \in {"ready", "usage"}, NoColon
             PROVE  /\ \A i \in Options :
                           /\ ToldOf(map[i].short) = Argument(map[i].type)
                           /\ Dispatch(map[i].short) =
                                  IF map[i].short = Question THEN 0 ELSE i
                    /\ \A k \in DOMAIN longs :
                           longs[k].arg = Argument(map[index[longs[k].val]].type)
  BY DEF TablesAgree, NoColon
<1>1. /\ ListedOnce /\ LongsTold /\ Listed = Len(map) /\ Indexed = Len(map)
      /\ DOMAIN map = 1 .. Len(map) /\ longs \in Seq(LongOption)
      /\ optstring \in Seq(Int)
  BY OptsAssumption DEF TInv, Listed, Indexed, IInv, Typed
<1>2. ASSUME NEW i \in Options
      PROVE  /\ ToldOf(map[i].short) = Argument(map[i].type)
             /\ Dispatch(map[i].short) = IF map[i].short = Question THEN 0 ELSE i
  <2> DEFINE c == map[i].short
  <2>1. i \in 1 .. Len(map) /\ c # 0 /\ c # Colon
    BY <1>1 DEF Options, NoColon
  <2>2. PICK p \in 2 .. Len(optstring) :
           StandsAt(optstring, c, p, Argument(map[i].type))
    BY <1>1, <2>1 DEF ListedOnce
  <2> HIDE DEF c
  <2>3. /\ optstring[p] = c /\ ToldAt(optstring, p) = Argument(map[i].type)
        /\ \A q \in 2 .. Len(optstring) : optstring[q] = c => q = p
    BY <2>2 DEF StandsAt
  <2>4. \A j \in 2 .. p - 1 : optstring[j] # c
    BY <1>1, <2>3
  <2>5. (CHOOSE q \in 2 .. Len(optstring) :
            /\ optstring[q] = c
            /\ \A j \in 2 .. q - 1 : optstring[j] # c) = p
    BY <2>3, <2>4
  <2>6. ToldOf(c) = ToldAt(optstring, p)
    BY <2>5 DEF ToldOf, ToldAt, ColonAt
  <2>7. index[c] = i
    BY <1>1, <2>1 DEF IInv, IndexSound, c
  <2> QED BY <2>1, <2>3, <2>6, <2>7 DEF Dispatch, c
<1>3. \A k \in DOMAIN longs :
         longs[k].arg = Argument(map[index[longs[k].val]].type)
  BY <1>1 DEF LongsTold
<1> QED BY <1>2, <1>3

(* getopt_long is told of every option what its type needs, by the long    *)
(* and by the short name, and the option is handled by its own entry.      *)
THEOREM AlwaysTablesAgree == Spec => []TablesAgree
<1>1. Init => IInv /\ TInv
  BY InitInv, ToldInitInv
<1>2. (IInv /\ TInv) /\ [Next]_vars => (IInv /\ TInv)'
  BY StepInv, ToldStepInv
<1> QED BY <1>1, <1>2, ToldImplies, PTL DEF Spec
=============================================================================
