------------------------------ MODULE SconfInit ------------------------------
(***************************************************************************)
(* sconf_initialize: a configuration is made from a map of entries, from   *)
(* the command line, then the environment, then the defaults, and is       *)
(* validated.  Each action handles one option or one entry of the map.     *)
(*                                                                         *)
(* The configuration is the abstract one of SconfConfig.  getopt_long is   *)
(* not part of the repository: the command line is the sequence of options *)
(* it returns.  The texts given and the files read are small sets, and     *)
(* what the conversions make of a text is a constant.                      *)
(***************************************************************************)
EXTENDS SconfConfig

CONSTANTS
    Maps,        \* the config maps, each a sequence of entries
    Texts,       \* option arguments, environment values, defaults
    ValueOf,     \* the value a text is converted to, for each scalar type
    Files,       \* texts that name a file: the writes it makes, in order
    Unreadable,  \* texts that name a file that cannot be read
    Arguments,   \* the options of one command line
    EnvTexts,    \* what a variable of the environment may hold
    Accepts,     \* which items a validation callback accepts
    TRUEVALUE,   \* the value of an option given without an argument
    MaxRuns      \* bound on calls for the same root

(* An entry of the map; path, short and default are NULL where it has none *)
(* and env, long, validate and usage tell whether it has one.              *)
EntryFields == {"path", "type", "short", "long", "env", "default",
                "required", "validate", "usage"}

(* A text can be stored as the string it is.                               *)
ASSUME InitAssumption ==
    /\ \A m \in Maps :
          /\ Len(m) \in Nat /\ DOMAIN m = 1 .. Len(m)
          /\ \A i \in DOMAIN m :
                /\ DOMAIN m[i] = EntryFields
                /\ m[i].path # NULL => m[i].path \in Seq(Tokens)
                /\ m[i].default # NULL => m[i].default \in Texts
    /\ \A o \in Arguments :
          /\ Len(o) \in Nat /\ DOMAIN o = 1 .. Len(o)
          /\ \A n \in DOMAIN o : o[n].text # NULL => o[n].text \in Texts
    /\ EnvTexts \subseteq Texts /\ Texts \subseteq Values
    /\ ValueOf \in [Scalars -> [Texts -> Values \cup {NULL}]]
    /\ \A text \in Texts \ Unreadable :
          Files[text] \in Seq([path : Seq(Tokens), type : CallTypes, val : Values])
    /\ TRUEVALUE \in Values
    /\ MaxRuns \in Nat

VARIABLES
    map,         \* the config map of the calls
    opts,        \* the options of the command line
    extra,       \* it also holds an argument that is no option
    env,         \* the environment
    config,      \* the configuration
    phase,       \* where sconf_initialize is
    pos,         \* the option or the entry it handles next
    ret,         \* the return value, while phase = "done"
    runs,        \* how many calls there were
    first,       \* the configuration after the first call (history)
    wrote        \* the entries that have set their path (history)

inputs == <<map, opts, extra, env>>
vars   == <<inputs, config, phase, pos, ret, runs, first, wrote>>

-----------------------------------------------------------------------------
(* The three tables made from the map before the command line is read.     *)

Shorts == {i \in DOMAIN map : map[i].short # NULL}

OptionTypes == Scalars \cup {"yaml_file", "usage"}

(* sconf_short_opts_index_create.                                          *)
IndexCreated ==
    /\ \A i, j \in Shorts : map[i].short = map[j].short => i = j
    /\ \A i \in Shorts : map[i].path # NULL \/ map[i].type = "usage"

(* sconf_opts_create_long_opts.                                            *)
LongCreated ==
    \A i \in DOMAIN map :
        map[i].long => map[i].short # NULL /\ map[i].type \in OptionTypes

(* sconf_opts_create_optstring: what getopt_long is told of an option.     *)
TakesArgument(e) == e.type \in {"str", "int", "float", "yaml_file"}

MayTakeArgument(e) == TakesArgument(e) \/ e.type = "bool"

-----------------------------------------------------------------------------
(* What an option, the environment and a default do alike with a text: set *)
(* the path to the value, or read the file and set the path to its name.   *)

ReadFile(c, text) ==
    LET writes == Files[text]
        after[i \in 0 .. Len(writes)] ==
            IF i = 0 THEN Outcome(0, c)
            ELSE LET sofar == after[i - 1]
                     w     == writes[i]
                 IN  IF sofar.ret = -1 THEN sofar
                     ELSE Set(sofar.config, w.path, w.type, w.val)
    IN  IF text \in Unreadable THEN Outcome(-1, c) ELSE after[Len(writes)]

Apply(c, e, text) ==
    CASE e.type \in Scalars ->
           IF ValueOf[e.type][text] = NULL THEN Outcome(-1, c)
           ELSE Set(c, e.path, e.type, ValueOf[e.type][text])
      [] e.type = "yaml_file" ->
           LET read == ReadFile(c, text)
           IN  IF read.ret = -1 THEN read
               ELSE Set(read.config, e.path, "str", text)
      [] OTHER -> Outcome(-1, c)

-----------------------------------------------------------------------------

Init ==
    /\ map \in Maps
    /\ opts \in Arguments
    /\ extra \in BOOLEAN
    /\ env \in [DOMAIN map -> EnvTexts \cup {NULL}]
    /\ config = Empty("dict")
    /\ phase = "idle"
    /\ pos = 1
    /\ ret = 0
    /\ runs = 0
    /\ first = <<>>
    /\ wrote = {}

Call ==
    /\ phase = "idle"
    /\ runs < MaxRuns
    /\ runs' = runs + 1
    /\ phase' = "opts"
    /\ wrote' = {}
    /\ UNCHANGED <<inputs, config, pos, ret, first>>

GoTo(next) == phase' = next /\ pos' = 1 /\ UNCHANGED ret

Continue == pos' = pos + 1 /\ UNCHANGED <<phase, ret>>

Return(r) == phase' = "done" /\ ret' = r /\ pos' = 1

Quiet == UNCHANGED <<inputs, config, runs, first, wrote>>

Applied(o, i) ==
    /\ config' = o.config
    /\ wrote' = IF o.ret = 0 THEN wrote \cup {i} ELSE wrote
    /\ IF o.ret = 0 THEN Continue ELSE Return(-1)
    /\ UNCHANGED <<inputs, runs, first>>

(* sconf_opts_parse up to its loop.                                        *)
OptsPrepare ==
    /\ phase = "opts"
    /\ \/ opts = <<>> /\ ~extra /\ GoTo("env")
       \/ /\ opts # <<>> \/ extra
          /\ ~(IndexCreated /\ LongCreated)
          /\ Return(-1)
       \/ /\ opts # <<>> \/ extra
          /\ IndexCreated /\ LongCreated
          /\ IF Shorts = {} THEN GoTo("env") ELSE GoTo("getopt")
    /\ Quiet

(* getopt_long returns '?' for an option that is not in the map, and ':'   *)
(* for one without the argument it needs.                                  *)
Known(o) == \E i \in Shorts : map[i].short = o.short

EntryOf(o) == CHOOSE i \in Shorts : map[i].short = o.short

Bad(o) ==
    Known(o) => LET e == map[EntryOf(o)]
                IN  \/ TakesArgument(e) /\ o.text = NULL
                    \/ ~MayTakeArgument(e) /\ o.text # NULL

OptBad ==
    /\ phase = "getopt"
    /\ pos <= Len(opts)
    /\ Bad(opts[pos])
    /\ Return(-1)
    /\ Quiet

Usage(e) == e.type = "usage"

(* The usage string is passed to the callback, or printed and the program  *)
(* ends.                                                                   *)
OptUsage ==
    /\ phase = "getopt"
    /\ pos <= Len(opts)
    /\ ~Bad(opts[pos])
    /\ LET e == map[EntryOf(opts[pos])]
       IN  /\ Usage(e)
           /\ IF e.usage THEN Continue ELSE GoTo("exit")
    /\ Quiet

OptSet ==
    /\ phase = "getopt"
    /\ pos <= Len(opts)
    /\ ~Bad(opts[pos])
    /\ LET i == EntryOf(opts[pos])
           e == map[i]
       IN  /\ ~Usage(e)
           /\ Applied(IF opts[pos].text = NULL
                      THEN IF e.type = "bool"
                           THEN Set(config, e.path, "bool", TRUEVALUE)
                           ELSE Outcome(-1, config)
                      ELSE Apply(config, e, opts[pos].text), i)

(* The end of the loop: getopt_long has moved what is no option to the end *)
(* of the command line.                                                    *)
OptsEnd ==
    /\ phase = "getopt"
    /\ pos > Len(opts)
    /\ IF extra THEN Return(-1) ELSE GoTo("env")
    /\ Quiet

-----------------------------------------------------------------------------
(* One entry of the map in the loops of sconf_env_read, sconf_defaults and *)
(* sconf_validate.                                                         *)

EntryIn(p) == phase = p /\ pos <= Len(map)

Skip == Continue /\ Quiet

Fail == Return(-1) /\ Quiet

(* Slip: a variable is read only where nothing is set yet.                 *)
EnvEntryWeak ==
    /\ EntryIn("env")
    /\ LET e == map[pos]
       IN  \/ (~e.env \/ env[pos] = NULL) /\ Skip
           \/ /\ e.env /\ e.path # NULL /\ env[pos] # NULL
              /\ IF Find(config, e.path).status = "found" THEN Skip
                 ELSE Applied(Apply(config, e, env[pos]), pos)

(* sconf_env_set_str, the three beside it, and sconf_env_yaml_file.        *)
SetFromEnv(e, text) == Applied(Apply(config, e, text), pos)

EnvEntry ==
    /\ EntryIn("env")
    /\ LET e == map[pos]
       IN  \/ ~e.env /\ Skip
           \/ e.env /\ e.path = NULL /\ Fail
           \/ e.env /\ e.path # NULL /\ env[pos] = NULL /\ Skip
           \/ /\ e.env /\ e.path # NULL /\ env[pos] # NULL
              /\ SetFromEnv(e, env[pos])

(* Slip: what is set already is not looked for.                            *)
PresentUnread(e) == "missing"

(* What a default finds at its path.  A string must be a string; any other *)
(* type is not compared.                                                   *)
Present(e) ==
    IF e.type \in {"str", "yaml_file"} THEN FindTyped(config, e.path, "str").status
                                        ELSE Find(config, e.path).status

(* sconf_defaults_handle_str and the four beside it.                       *)
HandleDefault(e) ==
    \/ Present(e) = "error" /\ Fail
    \/ Present(e) = "found" /\ Skip
    \/ Present(e) = "missing" /\ Applied(Apply(config, e, e.default), pos)

DefaultEntry ==
    /\ EntryIn("defaults")
    /\ LET e == map[pos]
       IN  \/ e.default = NULL /\ Skip
           \/ e.default # NULL /\ (e.path = NULL \/ e.type \notin OptionTypes \ {"usage"}) /\ Fail
           \/ /\ e.default # NULL /\ e.path # NULL
              /\ e.type \in OptionTypes \ {"usage"}
              /\ HandleDefault(e)

(* Slip: the type of what is required is not compared.                     *)
RequiredMetAnyType(e) ==
    e.required => e.path # NULL /\ Find(config, e.path).status = "found"

(* sconf_validate_check_required and sconf_validate_run_validate_func.     *)
RequiredMet(e) ==
    e.required => /\ e.path # NULL
                  /\ Find(config, e.path).status = "found"
                  /\ config[Find(config, e.path).place].type = e.type

CallbackAccepts(e) ==
    e.validate =>
        /\ e.path # NULL
        /\ Find(config, e.path).status # "error"
        /\ LET found == Find(config, e.path)
           IN  IF found.status = "found" THEN config[found.place] \in Accepts
                                         ELSE NULL \in Accepts

ValidateEntry ==
    /\ EntryIn("validate")
    /\ IF RequiredMet(map[pos]) /\ CallbackAccepts(map[pos])
       THEN Skip ELSE Fail

EndOf(p) == phase = p /\ pos > Len(map)

EnvEnd == EndOf("env") /\ GoTo("defaults") /\ Quiet

DefaultsEnd == EndOf("defaults") /\ GoTo("validate") /\ Quiet

ValidateEnd == EndOf("validate") /\ Return(0) /\ Quiet

(* The caller may initialize the same root again, with the same inputs.    *)
Returned ==
    /\ phase = "done"
    /\ ret = 0
    /\ runs < MaxRuns
    /\ phase' = "idle"
    /\ first' = config
    /\ UNCHANGED <<inputs, config, pos, ret, runs, wrote>>

Next ==
    \/ Call
    \/ OptsPrepare \/ OptBad \/ OptUsage \/ OptSet \/ OptsEnd
    \/ EnvEntry \/ EnvEnd
    \/ DefaultEntry \/ DefaultsEnd
    \/ ValidateEntry \/ ValidateEnd
    \/ Returned

Spec == Init /\ [][Next]_vars

-----------------------------------------------------------------------------
(* Type invariant: the configuration is closed under prefixes, and only    *)
(* containers contain something.                                           *)
TypeOK ==
    /\ phase \in {"idle", "opts", "getopt", "env", "defaults", "validate",
                  "exit", "done"}
    /\ pos \in 1 .. Len(opts) + Len(map) + 1
    /\ ret \in {-1, 0}
    /\ runs \in 0 .. MaxRuns
    /\ wrote \subseteq DOMAIN map
    /\ \A place \in DOMAIN config :
          /\ config[place] \in [type : NodeTypes, val : Values \cup {NULL}]
          /\ place # <<>> =>
                LET above == SubSeq(place, 1, Len(place) - 1)
                IN  above \in DOMAIN config /\ config[above].type \in Containers

Succeeded == phase = "done" /\ ret = 0 /\ runs > 0

(* The sets that an entry given a text amounts to; for a file, those of    *)
(* its content and then that of its name.                                  *)
Write(path, type, val) == [path |-> path, type |-> type, val |-> val]

WritesOf(e, text) ==
    IF e.type = "yaml_file" THEN Append(Files[text], Write(e.path, "str", text))
    ELSE IF text = NULL THEN <<Write(e.path, "bool", TRUEVALUE)>>
    ELSE <<Write(e.path, e.type, ValueOf[e.type][text])>>

FromOption(n) ==
    IF ~Known(opts[n]) \/ Usage(map[EntryOf(opts[n])]) THEN <<>>
    ELSE WritesOf(map[EntryOf(opts[n])], opts[n].text)

FromEnv(n) ==
    IF map[n].env /\ env[n] # NULL THEN WritesOf(map[n], env[n]) ELSE <<>>

(* The place that a set of the path leads to.                              *)
Target(path) == PlaceOf(config, path, Len(Steps(path)))

Hits(writes, place) == \E k \in DOMAIN writes : Target(writes[k].path) = place

Given(place) ==
    \/ \E n \in DOMAIN opts : Hits(FromOption(n), place)
    \/ \E n \in DOMAIN map : Hits(FromEnv(n), place)

(* sconf_set takes a first token in brackets for a name of the root, and   *)
(* sconf_get does so only when no other token follows.                     *)
Hidden(place) == Len(place) > 1 /\ place[1] \in Brackets

Unfindable(path) == path # NULL /\ Hidden(path)

(* Under an array sconf_get takes a token without brackets for the index   *)
(* it read last: a default whose path then leads to something else than a  *)
(* set would is not applied.                                               *)
Counts(n) ==
    LET e == map[n]
    IN  /\ e.default # NULL
        /\ Unfindable(e.path) \/ Find(config, e.path).place = Target(e.path)

FirstDefault(n) ==
    /\ Counts(n)
    /\ \A j \in 1 .. n - 1 : Counts(j) => Target(map[j].path) # Target(map[n].path)

(* Of the defaults only a file can replace something.  It is read if no    *)
(* source and no default before it has set the path of its entry.          *)
FromDefault(n) ==
    LET e == map[n]
    IN  IF /\ e.type = "yaml_file" /\ Counts(n)
           /\ Unfindable(e.path) \/ (FirstDefault(n) /\ ~Given(Target(e.path)))
        THEN WritesOf(e, e.default) ELSE <<>>

(* The writes in their order: the options as they are given, then the      *)
(* environment and then the defaults, in the order of the map.             *)
WritesIn(stage, n) ==
    CASE stage = 1 -> IF n <= Len(opts) THEN FromOption(n) ELSE <<>>
      [] stage = 2 -> IF n <= Len(map) THEN FromEnv(n) ELSE <<>>
      [] stage = 3 -> IF n <= Len(map) THEN FromDefault(n) ELSE <<>>

Places ==
    UNION {{<<stage, n, k>> : k \in DOMAIN WritesIn(stage, n)} :
              stage \in 1 .. 3, n \in 1 .. Len(opts) + Len(map)}

Later(p, q) ==
    \/ p[1] > q[1]
    \/ p[1] = q[1] /\ p[2] > q[2]
    \/ p[1] = q[1] /\ p[2] = q[2] /\ p[3] >= q[3]

WriteAt(p) == WritesIn(p[1], p[2])[p[3]]

WritesTo(place) == {p \in Places : Target(WriteAt(p).path) = place}

(* What a place holds is what the last write to it gave, or else the first *)
(* of the defaults for it.                                                 *)
FromLastWrite(place) ==
    \E p \in WritesTo(place) :
        /\ \A q \in WritesTo(place) : Later(p, q)
        /\ config[place] = Item(WriteAt(p).type, WriteAt(p).val)

FromFirstDefault(place) ==
    \E n \in DOMAIN map :
        LET e == map[n]
        IN  /\ FirstDefault(n) /\ e.type \in Scalars /\ Target(e.path) = place
            /\ config[place] = Item(e.type, ValueOf[e.type][e.default])

(* A default file that writes the path of a file entry after its own is    *)
(* left out: that entry then has no default of its own.                    *)
FilesApart ==
    \A i, n \in DOMAIN map :
        /\ i < n
        /\ map[i].type = "yaml_file" /\ map[i].default \notin Unreadable \cup {NULL}
        /\ map[n].type = "yaml_file" /\ map[n].default # NULL
        => ~Hits(Files[map[i].default], Target(map[n].path))

(* Nothing that has a default is missing.                                  *)
DefaultsThere ==
    \A i \in DOMAIN map : map[i].default # NULL /\ ~Unfindable(map[i].path) =>
        Find(config, map[i].path).status = "found"

(* sconf_initialize "Do all the stuff!" (sconf.h:645): a variable of the   *)
(* environment wins over an option whatever the order of the entries, the  *)
(* last option over the ones before it, and a file, which is read at its   *)
(* own turn, over what came before: also over the options and variables    *)
(* when it is a default.  Any other default only counts where nothing has  *)
(* set the path, and the first one does.  This is all: each source has set *)
(* what it gives, and no value is there that none of them gives.           *)
Precedence ==
    Succeeded =>
        /\ DefaultsThere
        /\ runs = 1 /\ FilesApart =>
              /\ \A p \in Places : Target(WriteAt(p).path) \in DOMAIN config
              /\ \A place \in DOMAIN config :
                    config[place].type \in Scalars /\ ~Hidden(place) =>
                        IF WritesTo(place) # {} THEN FromLastWrite(place)
                                                ELSE FromFirstDefault(place)

(* A configuration is returned only if, as it is returned, everything that *)
(* is required is there with its type, and every callback accepts what is  *)
(* there: nothing changes after an entry has been looked at, and no entry  *)
(* is left out.                                                            *)
Validated ==
    Succeeded =>
        \A i \in DOMAIN map :
            LET e     == map[i]
                found == Find(config, e.path)
            IN  /\ e.required => /\ found.status = "found"
                                 /\ config[found.place].type = e.type
                /\ CallbackAccepts(e)

(* opts.c:765 "Reset getopt state, to allow multiple runs": the same call  *)
(* for the same root succeeds again and changes nothing, as long as no     *)
(* entry has a file for a default.                                         *)
AgainTheSame ==
    phase = "done" /\ runs = 2 =>
        \/ \E i \in DOMAIN map : map[i].type = "yaml_file" /\ map[i].default # NULL
        \/ ret = 0 /\ config = first

(* sconf.h:113 "Default value to use, applied after all other config": the *)
(* default of a scalar adds to the configuration and changes nothing that  *)
(* an option, the environment or a file has set, as long as what was set   *)
(* can be found.                                                           *)
OnlyAdds ==
    EntryIn("defaults") /\ map[pos].type \in Scalars /\ ~Unfindable(map[pos].path) =>
        \A place \in DOMAIN config :
            place \in DOMAIN config' /\ config'[place] = config[place]

DefaultsOnlyAdd == [][OnlyAdds]_vars

(* sconf.h:116 "Specify if the config path is required": an entry whose    *)
(* path was set by its own option, variable or default is there.  The code *)
(* compares the type of the entry with that of the node, and the node of a *)
(* file is a string.                                                       *)
SetIsPresent ==
    phase = "validate" => \A i \in wrote : RequiredMet(map[i])
=============================================================================
