----------------------------- MODULE MCSconfInit -----------------------------
(* A small instance of SconfInit: every map of at most MaxEntries entries  *)
(* out of a few, with every command line and environment.                  *)
EXTENDS SconfInit

CONSTANTS MaxEntries, MaxOptions, a, b, c, e0, e1, x, f, h, i1, i2, f1, f2, T

E(path, type, short, default) ==
    [path |-> path, type |-> type, short |-> short, long |-> short # NULL,
     env |-> type \in Scalars \cup {"yaml_file"}, default |-> default,
     required |-> FALSE, validate |-> FALSE, usage |-> FALSE]

(* The integer a, again from the environment only; the string b; a boolean *)
(* below a; the first element of an array c, its index written in another   *)
(* way, and a file below c; the brackets as a name of the root; two files; *)
(* two usage options; two entries that are refused.                        *)
MCEntries ==
    {[E(<<a>>, "int", x, i1) EXCEPT !.required = TRUE],
     [E(<<a>>, "int", NULL, i2) EXCEPT !.validate = TRUE],
     [E(<<b>>, "str", NULL, NULL) EXCEPT !.required = TRUE],
     E(<<a, b>>, "bool", x, NULL),
     [E(<<c, e0>>, "str", NULL, i1) EXCEPT !.required = TRUE],
     E(<<c, e1>>, "str", NULL, i2),
     E(<<c, a>>, "yaml_file", NULL, f1),
     E(<<e0, a>>, "int", x, i2),
     E(<<c>>, "yaml_file", f, NULL),
     [E(<<c>>, "yaml_file", f, f1) EXCEPT !.required = TRUE],
     [E(NULL, "usage", h, NULL) EXCEPT !.usage = TRUE],
     [E(NULL, "usage", h, NULL) EXCEPT !.long = FALSE],
     E(<<b>>, "dict", NULL, i1),
     [E(NULL, "str", NULL, NULL) EXCEPT !.long = TRUE]}

MCMaps ==
    {<<>>} \cup UNION {[1 .. n -> MCEntries] : n \in 1 .. MaxEntries}

MCOptions ==
    {[short |-> x, text |-> i1], [short |-> x, text |-> NULL],
     [short |-> f, text |-> f1], [short |-> h, text |-> NULL]}

MCArguments ==
    {<<>>} \cup UNION {[1 .. n -> MCOptions] : n \in 1 .. MaxOptions}

(* f1 sets a and b, f2 sets a to a string; i1 and i2 are integers.         *)
MCFiles ==
    [t \in Texts |->
        CASE t = f1 -> <<Write(<<a>>, "int", i2), Write(<<b>>, "str", i1)>>
          [] t = f2 -> <<Write(<<a>>, "str", i1)>>
          [] OTHER  -> <<>>]

MCValueOf ==
    [type \in Scalars |-> [t \in Texts |->
        IF type = "str" \/ (type = "int" /\ t \in {i1, i2}) THEN t ELSE NULL]]

MCIndexOf == [t \in Brackets |-> 0]

MCAccepts == {NULL} \cup {Item("int", v) : v \in {i1, f1, f2}}
=============================================================================
