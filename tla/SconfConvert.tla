---------------------------- MODULE SconfConvert ----------------------------
(***************************************************************************)
(* What a text is converted to: the three functions of convert.c, the      *)
(* order in which the YAML reader tries them, and the one that an option,  *)
(* a variable of the environment or a default is given to by its type.     *)
(*                                                                         *)
(* A text is a sequence of characters of a small alphabet, and the state   *)
(* machine enumerates the texts and what they convert to.  strtoll and     *)
(* strtod are modelled as C defines them, without exponents.               *)
(***************************************************************************)
EXTENDS Integers, Sequences

CONSTANTS
    Alphabet,     \* the characters
    MaxLen,       \* bound on the length of a text
    Digit,        \* the value of a character as a digit, 99 if it is none
    LLONG_MAX,    \* the largest int64_t (scaled down)
    FLOAT_MAX,    \* the largest double (scaled down)
    TrueWords,    \* "true", "yes" and "on" (one of them)
    FalseWords,   \* "false", "no" and "off" (one of them)
    FloatWords    \* what strtod accepts beside numerals: "nan", "inf"

Space == " "

ASSUME ConvertAssumption ==
    /\ {Space, "-", "+", "0", "x", "X", "."} \subseteq Alphabet
    /\ Digit \in [Alphabet -> Nat]
    /\ Digit["0"] = 0
    /\ \A c \in {Space, "-", "+", "x", "X", "."} : Digit[c] >= 16
    /\ MaxLen \in Nat /\ LLONG_MAX \in Nat /\ FLOAT_MAX \in Nat

VARIABLES
    text,       \* the text
    integer,    \* what sconf_string_to_integer answers
    float,      \* what sconf_string_to_float answers
    bool        \* what sconf_string_to_bool answers

vars == <<text, integer, float, bool>>

-----------------------------------------------------------------------------
(* strtoll and strtod.                                                     *)

Starts(t, i, word) ==
    /\ i + Len(word) - 1 <= Len(t)
    /\ SubSeq(t, i, i + Len(word) - 1) = word

(* A word for a boolean does not start as a number does, and no word for a *)
(* float starts with one.                                                  *)
ASSUME WordsAssumption ==
    /\ TrueWords \cup FalseWords \cup FloatWords \subseteq Seq(Alphabet)
    /\ \A w \in TrueWords \cup FalseWords :
          /\ w # <<>> /\ Digit[w[1]] >= 16 /\ w[1] \notin {Space, "-", "+", "."}
          /\ \A v \in FloatWords : ~Starts(v, 1, w)

(* The end of the characters of S that stand from i on.                    *)
Span(t, i, S) ==
    CHOOSE k \in i - 1 .. Len(t) :
        /\ \A j \in i .. k : t[j] \in S
        /\ k < Len(t) => t[k + 1] \notin S

Digits(base) == {c \in Alphabet : Digit[c] < base}

Number(t, i, k, base) ==
    LET value[j \in i - 1 .. k] ==
          IF j = i - 1 THEN 0
          ELSE IF t[j] \in Digits(base) THEN value[j - 1] * base + Digit[t[j]]
          ELSE value[j - 1]
    IN  value[k]

(* Spaces and a sign come before the number.                               *)
Unsigned(t) ==
    LET spaces == Span(t, 1, {Space})
    IN  IF \E sign \in {"-", "+"} : Starts(t, spaces + 1, <<sign>>)
        THEN spaces + 2 ELSE spaces + 1

Sign(t) == IF Unsigned(t) > 1 /\ t[Unsigned(t) - 1] = "-" THEN -1 ELSE 1

(* C takes the prefix of base 16 in either case, if a digit follows.       *)
HexAt(t, i) ==
    /\ \E x \in {"x", "X"} : Starts(t, i, <<"0", x>>)
    /\ Span(t, i + 2, Digits(16)) > i + 1

HexPointAt(t, i) ==
    /\ \E x \in {"x", "X"} : Starts(t, i, <<"0", x, ".">>)
    /\ Span(t, i + 3, Digits(16)) > i + 2

(* [end, val, range]: how far the number goes, 0 if there is none; its     *)
(* value; and whether errno is ERANGE.                                     *)
Strtoll(t, base) ==
    LET i    == Unsigned(t)
        from == IF base = 16 /\ HexAt(t, i) THEN i + 2 ELSE i
        to   == Span(t, from, Digits(base))
        val  == Sign(t) * Number(t, from, to, base)
    IN  IF to < from THEN [end |-> 0, val |-> 0, range |-> FALSE]
        ELSE [end |-> to, val |-> val,
              range |-> val > LLONG_MAX \/ val < -LLONG_MAX - 1]

(* A double is its digits and how many of them follow the point.           *)
Strtod(t) ==
    LET i     == Unsigned(t)
        base  == IF HexAt(t, i) \/ HexPointAt(t, i) THEN 16 ELSE 10
        from  == IF base = 16 THEN i + 2 ELSE i
        whole == Span(t, from, Digits(base))
        part  == IF Starts(t, whole + 1, <<".">>)
                 THEN Span(t, whole + 2, Digits(base)) ELSE whole
        none  == whole < from /\ part < from + 1
        point == IF part > whole THEN part - whole - 1 ELSE 0
        word  == {w \in FloatWords : Starts(t, i, w)}
        found(end, num) == [end |-> end, num |-> num, point |-> 0, range |-> FALSE]
    IN  IF none /\ word = {} THEN found(0, 0)
        ELSE IF none THEN LET w == CHOOSE w \in word : TRUE
                          IN  found(i + Len(w) - 1, w)
        ELSE [end |-> part, num |-> Sign(t) * Number(t, from, part, base),
              point |-> point,
              range |-> Number(t, from, whole, base) > FLOAT_MAX]

-----------------------------------------------------------------------------
(* convert.c.  ret is 1, 0 if the text is something else, or -1.           *)

Answer(ret, val) == [ret |-> ret, val |-> val]

(* Slip: a number in base 16 is not recognised.                            *)
BaseNoHex(t) == IF Starts(t, 1, <<"0">>) /\ Len(t) > 1 THEN 8 ELSE 10

Base(t) ==
    IF Starts(t, 1, <<"0", "x">>) THEN 16
    ELSE IF Starts(t, 1, <<"0">>) /\ Len(t) > 1 THEN 8 ELSE 10

(* What a text is as an integer of that base.                              *)
Integral(t, base) ==
    LET n == Strtoll(t, base)
    IN  IF n.end < Len(t) THEN Answer(0, 0)
        ELSE IF n.range THEN Answer(-1, 0) ELSE Answer(1, n.val)

StringToInteger(t) == Integral(t, Base(t))

StringToFloat(t) ==
    LET n == Strtod(t)
    IN  IF n.end < Len(t) THEN Answer(0, <<0, 0>>)
        ELSE IF n.range THEN Answer(-1, <<0, 0>>)
        ELSE Answer(1, <<n.num, n.point>>)

(* strncmp compares as many characters as the word has.                    *)
StringToBool(t) ==
    IF \E w \in TrueWords : Starts(t, 1, w) THEN Answer(1, TRUE)
    ELSE IF \E w \in FalseWords : Starts(t, 1, w) THEN Answer(1, FALSE)
    ELSE Answer(0, FALSE)

-----------------------------------------------------------------------------

Convert ==
    /\ integer' = StringToInteger(text')
    /\ float' = StringToFloat(text')
    /\ bool' = StringToBool(text')

Init ==
    /\ text = <<>>
    /\ integer = StringToInteger(<<>>)
    /\ float = StringToFloat(<<>>)
    /\ bool = StringToBool(<<>>)

Next ==
    /\ Len(text) < MaxLen
    /\ \E c \in Alphabet : text' = Append(text, c)
    /\ Convert

Spec == Init /\ [][Next]_vars

-----------------------------------------------------------------------------
(* The type and the value of a scalar in a YAML file; ret is -1 when the   *)
(* file is refused.                                                        *)

Scalar(ret, type, val) == [ret |-> ret, type |-> type, val |-> val]

Given(type, answer) ==
    Scalar(IF answer.ret = 1 THEN 0 ELSE -1, type, answer.val)

(* Slip: the floating-point number is tried first.                         *)
YamlScalarFloatFirst(quoted) ==
    IF quoted \/ text = <<>> THEN Scalar(0, "str", text)
    ELSE IF float.ret # 0 THEN Given("float", float)
    ELSE IF integer.ret # 0 THEN Given("int", integer)
    ELSE IF bool.ret # 0 THEN Given("bool", bool)
    ELSE Scalar(0, "str", text)

YamlScalar(quoted) ==
    IF quoted \/ text = <<>> THEN Scalar(0, "str", text)
    ELSE IF integer.ret # 0 THEN Given("int", integer)
    ELSE IF float.ret # 0 THEN Given("float", float)
    ELSE IF bool.ret # 0 THEN Given("bool", bool)
    ELSE Scalar(0, "str", text)

(* The same text as the argument of an option, in the environment or as a  *)
(* default, for an entry of that type.                                     *)
GivenScalar(type) ==
    CASE type = "int"   -> Given("int", integer)
      [] type = "float" -> Given("float", float)
      [] type = "bool"  -> Given("bool", bool)
      [] type = "str"   -> Scalar(0, "str", text)

-----------------------------------------------------------------------------
(* The base strtoll finds out itself when it is given 0.                   *)
OwnBase(t) ==
    LET i == Unsigned(t)
    IN  IF HexAt(t, i) THEN 16 ELSE IF Starts(t, i, <<"0">>) THEN 8 ELSE 10

(* A text is the integer that strtoll makes of it when C finds the base,   *)
(* or is none where C has none, but for two kinds of text.  convert.c:28   *)
(* finds the base at the first character and knows the prefix "0x" in      *)
(* lower case, C looks behind blanks and a sign and knows "0X":            *)
(*   - with a prefix the code does not see, "0X10" or "-0x10", the text is *)
(*     no integer; it is never another one;                                *)
(*   - with a blank or sign before it an octal numeral is read as decimal, *)
(*     so that "-010" is -10 and "010" is 8.                               *)
BaseAsInC ==
    LET base == OwnBase(text)
    IN  \/ integer = Integral(text, base)
        \/ /\ base = 16 /\ ~Starts(text, 1, <<"0", "x">>)
           /\ integer = Answer(0, 0)
        \/ /\ base = 8 /\ Unsigned(text) > 1
           /\ integer = Integral(text, 10)

Same(s1, s2) == s1.ret = s2.ret /\ s1.type = s2.type /\ s1.val = s2.val

(* An unquoted scalar of a file has the value that the text has anywhere   *)
(* else: an entry of type integer, float or boolean that accepts the text  *)
(* would have got what the file gives.  A float may be an integer in the   *)
(* file, and differs from it only where a leading 0 makes it octal; and    *)
(* the empty text, the integer 0 for an option, is a string in a file.     *)
(* A quoted scalar is what an entry of type string gets.                   *)
SourcesAgree ==
    LET file == YamlScalar(FALSE)
        asFloat == GivenScalar("float")
    IN  /\ YamlScalar(TRUE) = GivenScalar("str")
        /\ text # <<>> =>
            /\ \A type \in {"int", "bool"} :
                  GivenScalar(type).ret = 0 => Same(file, GivenScalar(type))
            /\ asFloat.ret = 0 =>
                  \/ Same(file, asFloat)
                  \/ file = Given("int", integer) /\ asFloat.val = <<integer.val, 0>>
                  \/ file.type = "int" /\ Base(text) = 8
                  \/ file.ret = -1 /\ integer.ret = -1
            /\ file.type = "str" =>
                  \A type \in {"int", "float", "bool"} : GivenScalar(type).ret = -1
=============================================================================
