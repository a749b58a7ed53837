----------------------------- MODULE MCSconfOpts -----------------------------
(* A small instance of SconfOpts: every map of at most MaxEntries entries  *)
(* out of a few, and some that fill the tables.                            *)
EXTENDS SconfOpts

CONSTANT MaxEntries

E(short, type, long, help) ==
    [path |-> type # "usage", type |-> type, short |-> short, long |-> long,
     arg |-> NULL, help |-> help]

(* Options with and without a long name, an argument and a help text, one  *)
(* of them too wide for the padding; ':' and '?'; entries that are refused *)
(* and one that is no option.                                              *)
MCEntries ==
    {E(1, "usage", 1, 3), E(2, "int", NULL, NULL), E(2, "str", 4, 2),
     E(1, "bool", 2, NULL), [E(2, "bool", 12, 1) EXCEPT !.arg = 2],
     E(Colon, "int", NULL, 1), E(Question, "bool", 0, NULL),
     E(0, "int", NULL, NULL), E(0, "int", 1, NULL), E(-1, "str", NULL, NULL),
     [E(2, "str", 1, NULL) EXCEPT !.path = FALSE], E(2, "dict", 1, NULL),
     [E(1, "usage", 3, 1) EXCEPT !.arg = 16]}

(* As many options as there are codes, with the longest marks and with     *)
(* short ones, and more long options than that.                            *)
MCFull(type) == [i \in 1 .. CHAR_MAX |-> E(i, type, 1, NULL)]

MCMaps ==
    {<<>>, MCFull("bool"), MCFull("int"), MCFull("usage"),
     [i \in 1 .. CHAR_MAX + 1 |-> E(1, "usage", 1, NULL)]}
    \cup UNION {[1 .. n -> MCEntries] : n \in 1 .. MaxEntries}

MCArgTypeLen ==
    [t \in {"str", "int", "bool", "float", "yaml_file", "usage", "dict"} |->
        IF t \in {"bool", "usage"} THEN 0 ELSE 2]
=============================================================================
