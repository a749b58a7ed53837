------------------------------ MODULE SconfOpts ------------------------------
(***************************************************************************)
(* The tables sconf_opts_parse makes from a config map before it calls     *)
(* getopt_long, and the usage string.                                      *)
(*                                                                         *)
(* Each table is filled by a loop over the map, one step per entry, into   *)
(* an array of fixed size.  A short option is its character code; of the   *)
(* texts only the lengths matter here.  SconfInit has what the options     *)
(* then do.                                                                *)
(***************************************************************************)
EXTENDS Integers, Sequences

CONSTANTS
    Maps,           \* the config maps, each a sequence of entries
    Headers,        \* lengths of the header of the usage string
    CHAR_MAX,       \* the largest character code (scaled down)
    UINT8_MAX,      \* the largest padding (scaled down)
    OptstringMax,   \* SCONF_OPTS_OPTSTRING_MAX_SIZE (scaled down)
    UsageMax,       \* SCONF_OPTS_USAGE_STRING_MAX (scaled down)
    Colon,          \* ':', which getopt_long gives a meaning of its own
    Question,       \* '?', which it returns for an unknown option
    ArgTypeLen,     \* the length of sconf_type_to_arg_type_str of a type
    NULL

LongOptsSize == CHAR_MAX + 1

Codes == 1 .. CHAR_MAX

(* short is 0 for an entry that is no option; long, arg and help are the   *)
(* lengths of opts_long, arg_type and help, or NULL.                       *)
EntryFields == {"path", "type", "short", "long", "arg", "help"}

ASSUME OptsAssumption ==
    /\ CHAR_MAX \in Nat /\ UINT8_MAX \in Nat
    /\ OptstringMax \in Nat \ {0, 1} /\ UsageMax \in Nat
    /\ Colon \in Codes /\ Question \in Codes /\ Colon # Question
    /\ \A m \in Maps :
          /\ Len(m) \in Nat /\ DOMAIN m = 1 .. Len(m)
          /\ \A i \in DOMAIN m : /\ DOMAIN m[i] = EntryFields
                                 /\ m[i].short \in -CHAR_MAX - 1 .. CHAR_MAX
                                 /\ m[i].path \in BOOLEAN
                                 /\ m[i].long \in Nat \cup {NULL}
                                 /\ m[i].arg \in Nat \cup {NULL}
                                 /\ m[i].help \in Nat \cup {NULL}
                                 /\ ArgTypeLen[m[i].type] \in Nat
    /\ Headers \subseteq 0 .. UsageMax

VARIABLES
    map,        \* the config map
    phase,      \* the loop that runs, or "ready", "refused", "done", "fault"
    pos,        \* the entry it handles next
    index,      \* opts_index: the entry of a short option, 0 where NULL
    longs,      \* long_opts up to the first entry that is zero
    optstring,  \* optstring up to its terminating zero
    size,       \* size: what snprintf has returned so far
    written,    \* the length of the usage string in the buffer
    columns     \* where the lines' help texts start (history)

tables == <<index, longs, optstring>>
usage  == <<size, written, columns>>
vars   == <<map, phase, pos, tables, usage>>

-----------------------------------------------------------------------------

Init ==
    /\ map \in Maps
    /\ phase = "index"
    /\ pos = 1
    /\ index = [c \in 0 .. CHAR_MAX |-> 0]
    /\ longs = <<>>
    /\ optstring = <<Colon>>
    /\ size = 0
    /\ written = 0
    /\ columns = {}

EntryIn(p) == phase = p /\ pos <= Len(map)

EndOf(p) == phase = p /\ pos > Len(map)

Continue == pos' = pos + 1 /\ UNCHANGED phase

GoTo(next) == phase' = next /\ pos' = 1

Refuse == GoTo("refused") /\ UNCHANGED tables

Skip == Continue /\ UNCHANGED tables

(* Slip: a short option that is there already is replaced.                 *)
IndexEntryTwice ==
    /\ EntryIn("index")
    /\ LET e == map[pos]
       IN  \/ e.short = 0 /\ Skip
           \/ e.short < 0 /\ Refuse
           \/ e.short > 0 /\ ~e.path /\ e.type # "usage" /\ Refuse
           \/ /\ e.short > 0
              /\ e.path \/ e.type = "usage"
              /\ index' = [index EXCEPT ![e.short] = pos]
              /\ Continue
              /\ UNCHANGED <<longs, optstring>>
    /\ UNCHANGED <<map, usage>>

(* sconf_short_opts_index_create.                                          *)
IndexEntry ==
    /\ EntryIn("index")
    /\ LET e     == map[pos]
           taken == index[e.short] # 0
       IN  \/ e.short = 0 /\ Skip
           \/ e.short < 0 /\ Refuse
           \/ e.short > 0 /\ (taken \/ (~e.path /\ e.type # "usage")) /\ Refuse
           \/ /\ e.short > 0
              /\ ~taken
              /\ e.path \/ e.type = "usage"
              /\ index' = [index EXCEPT ![e.short] = pos]
              /\ Continue
              /\ UNCHANGED <<longs, optstring>>
    /\ UNCHANGED <<map, usage>>

(* What getopt_long is told of the argument of an option.                  *)
Argument(type) ==
    CASE type \in {"str", "int", "float", "yaml_file"} -> "required"
      [] type = "bool" -> "optional"
      [] OTHER -> "none"

OptionTypes == {"str", "int", "float", "yaml_file", "bool", "usage"}

(* sconf_opts_create_long_opts.                                            *)
LongEntry ==
    /\ EntryIn("long")
    /\ LET e == map[pos]
           full == Len(longs) >= LongOptsSize
       IN  \/ e.long = NULL /\ Skip
           \/ /\ e.long # NULL
              /\ e.short = 0 \/ full \/ e.type \notin OptionTypes
              /\ Refuse
           \/ /\ e.long # NULL
              /\ e.short # 0 /\ ~full /\ e.type \in OptionTypes
              /\ longs' = Append(longs, [val |-> e.short, arg |-> Argument(e.type)])
              /\ Continue
              /\ UNCHANGED <<index, optstring>>
    /\ UNCHANGED <<map, usage>>

(* Slip: the mark of an optional argument is that of a required one.       *)
MarkOne(type) == IF Argument(type) = "none" THEN <<>> ELSE <<Colon>>

Mark(type) ==
    CASE Argument(type) = "required" -> <<Colon>>
      [] Argument(type) = "optional" -> <<Colon, Colon>>
      [] OTHER -> <<>>

(* sconf_opts_create_optstring: there must be room for the longest entry.  *)
OptstringEntry ==
    /\ EntryIn("optstring")
    /\ LET e    == map[pos]
           full == Len(optstring) + 3 >= OptstringMax - 1
       IN  \/ e.short = 0 /\ Skip
           \/ e.short # 0 /\ full /\ Refuse
           \/ /\ e.short # 0 /\ ~full
              /\ optstring' = optstring \o <<e.short>> \o Mark(e.type)
              /\ Continue
              /\ UNCHANGED <<index, longs>>
    /\ UNCHANGED <<map, usage>>

(* sconf_opts_parse calls the three in turn; without a short option it     *)
(* does not look at the arguments.                                         *)
TablesNext ==
    /\ \/ EndOf("index") /\ GoTo("long")
       \/ EndOf("long") /\ GoTo("optstring")
       \/ EndOf("optstring") /\ optstring # <<Colon>> /\ GoTo("ready")
       \/ EndOf("optstring") /\ optstring = <<Colon>> /\ GoTo("done")
    /\ UNCHANGED <<map, tables, usage>>

(* The entry an option that getopt_long returns is handled by, 0 for none. *)
Dispatch(c) == IF c \in {Colon, Question} THEN 0 ELSE index[c]

-----------------------------------------------------------------------------
(* The usage string: sconf_opts_handle_option_usage.                       *)

ArgLen(e) == IF e.arg # NULL THEN e.arg ELSE ArgTypeLen[e.type]

Width(e) == (IF e.long # NULL THEN e.long ELSE 0) + ArgLen(e)

Options == {i \in DOMAIN map : map[i].short # 0}

Largest(S) == CHOOSE x \in S : \A y \in S : y <= x

(* Slip: the marks around a long option are not counted.                   *)
PaddingShort ==
    (Largest({0} \cup {Width(map[i]) : i \in Options}) + 1) % (UINT8_MAX + 1)

(* sconf_opts_usage_string_calculate_padding, an uint8_t.                  *)
Padding ==
    IF \E i \in Options : Width(map[i]) > UINT8_MAX THEN 4
    ELSE (Largest({0} \cup {Width(map[i]) : i \in Options}) + 4) % (UINT8_MAX + 1)

Buffer(s, w, ok) == [size |-> s, written |-> w, ok |-> ok]

(* Slip: size is what the last snprintf returned.                          *)
SnprintfFresh(b, len) ==
    LET room == UsageMax - 1 - b.size
        fits == IF len < room THEN len ELSE IF room > 0 THEN room - 1 ELSE 0
    IN  IF room < 0 THEN Buffer(b.size, b.written, FALSE)
        ELSE Buffer(len, b.written + fits, b.ok)

(* One snprintf at string + size.  It returns the length it would have     *)
(* written, and cuts what it writes.  When size has passed the room, the   *)
(* room left is a negative number given as a size_t.                       *)
Snprintf(b, len) ==
    LET room == UsageMax - 1 - b.size
        fits == IF len < room THEN len ELSE IF room > 0 THEN room - 1 ELSE 0
    IN  IF room < 0 THEN Buffer(b.size, b.written, FALSE)
        ELSE Buffer(b.size + len, b.written + fits, b.ok)

(* "\t-%c ", "--%s ", the argument type, and "%*s: %s\n".                  *)
LongPart(e) == IF e.long = NULL THEN 0 ELSE e.long + 3

PadLeft(e) == (Padding - LongPart(e) - ArgLen(e)) % (UINT8_MAX + 1)

Column(e) == 4 + LongPart(e) + ArgLen(e) + PadLeft(e)

LastPart(e) == PadLeft(e) + IF e.help = NULL THEN 2 ELSE e.help + 3

Line(b, e) ==
    LET b2 == Snprintf(b, 4)
        b3 == IF e.long = NULL THEN b2 ELSE Snprintf(b2, LongPart(e))
    IN  Snprintf(Snprintf(b3, ArgLen(e)), LastPart(e))

(* getopt_long has returned a usage option, whose header has that length.  *)
UsageHeader(len) ==
    /\ phase = "ready"
    /\ \E i \in Options : map[i].type = "usage" /\ Dispatch(map[i].short) = i
    /\ LET b == Snprintf(Buffer(0, 0, TRUE), len)
       IN  size' = b.size /\ written' = b.written
    /\ GoTo("usage")
    /\ UNCHANGED <<map, tables, columns>>

(* sconf_opts_usage_string_add_option, for each option of the map.         *)
UsageEntry ==
    /\ EntryIn("usage")
    /\ LET e == map[pos]
           b == Line(Buffer(size, written, TRUE), e)
       IN  \/ e.short = 0 /\ Continue /\ UNCHANGED usage
           \/ /\ e.short # 0
              /\ size' = b.size
              /\ written' = b.written
              /\ columns' = columns \cup {Column(e)}
              /\ IF b.ok THEN Continue ELSE GoTo("fault")
    /\ UNCHANGED <<map, tables>>

UsageEnd ==
    /\ EndOf("usage")
    /\ GoTo("done")
    /\ UNCHANGED <<map, tables, usage>>

Next ==
    \/ IndexEntry \/ LongEntry \/ OptstringEntry \/ TablesNext
    \/ \E len \in Headers : UsageHeader(len)
    \/ UsageEntry \/ UsageEnd

Spec == Init /\ [][Next]_vars

-----------------------------------------------------------------------------
(* getopt_long reads the long options up to one that is zero, and the      *)
(* option string up to a zero: neither table is ever filled to the last    *)
(* element.  For the long options no check says so; it holds because every *)
(* one needs a short option, which is unique, positive and a char.         *)
TablesEnd ==
    /\ Len(longs) < LongOptsSize
    /\ Len(optstring) < OptstringMax

(* What getopt_long finds out about a short option: the colons after its   *)
(* first occurrence.                                                       *)
ToldOf(c) ==
    LET at == CHOOSE i \in 2 .. Len(optstring) :
                 /\ optstring[i] = c
                 /\ \A j \in 2 .. i - 1 : optstring[j] # c
        colon(i) == i <= Len(optstring) /\ optstring[i] = Colon
    IN  IF ~colon(at + 1) THEN "none"
        ELSE IF ~colon(at + 2) THEN "required" ELSE "optional"

(* The three tables agree: getopt_long is told of each option what its     *)
(* type needs, by its long name and by its short one, and the option is    *)
(* handled by its own entry.  A map with ':' as an option is left out, its *)
(* neighbours are misread; and an option '?' is taken for an error.  This  *)
(* is about the tables: glibc's getopt_long answers a short ';' with '?'   *)
(* whatever they say.                                                      *)
TablesAgree ==
    phase \in {"ready", "usage"} /\ (\A i \in Options : map[i].short # Colon) =>
        /\ \A i \in Options :
              /\ ToldOf(map[i].short) = Argument(map[i].type)
              /\ Dispatch(map[i].short) = IF map[i].short = Question THEN 0 ELSE i
        /\ \A k \in DOMAIN longs :
              longs[k].arg = Argument(map[index[longs[k].val]].type)

(* A map is refused for one of these reasons, and for each of them.        *)
Ambiguous ==
    \E i, j \in Options : i # j /\ map[i].short = map[j].short

Incomplete ==
    \E i \in DOMAIN map :
        LET e == map[i]
        IN  \/ e.short < 0
            \/ e.short # 0 /\ ~e.path /\ e.type # "usage"
            \/ e.long # NULL /\ (e.short = 0 \/ e.type \notin OptionTypes)

Crowded == Len(optstring) + 3 >= OptstringMax - 1

(* When the arguments are looked at, the map has been found sound as a     *)
(* whole, although each loop looks at one entry at a time and stops at the *)
(* first that is wrong.                                                    *)
MapChecked ==
    /\ phase \in {"ready", "usage"} => ~Ambiguous /\ ~Incomplete
    /\ phase = "refused" => Ambiguous \/ Incomplete \/ Crowded

(* The help texts of all options start in the same column, as long as the  *)
(* longest option and its argument leave room for the padding in 8 bits.   *)
Aligned ==
    (\A i \in Options : Width(map[i]) + 4 <= UINT8_MAX) =>
        \A c, d \in columns : c = d

(* A usage string that fits into its buffer is there as a whole, with the  *)
(* lines in it; and only one that does not fit is written past it.         *)
UsageWhole ==
    /\ phase \in {"usage", "done"} /\ size < UsageMax - 1 => written = size
    /\ phase = "fault" => size > UsageMax - 1
=============================================================================
