------------------------- MODULE SconfConvert_proofs -------------------------
(***************************************************************************)
(* Proofs about what a text is converted to, for every alphabet, every     *)
(* text, every size of an integer and a float, and all words: an integer   *)
(* is the one strtoll makes of the text, or one of two exceptions; and a   *)
(* file, an option and a variable agree.                                   *)
(***************************************************************************)
EXTENDS SconfConvert, SconfInduction, SequenceTheorems, TLAPS

Text == Seq(Alphabet)

(* A word stands at i if its characters do.                                *)
LEMMA StartsIs ==
    ASSUME NEW t \in Text, NEW i \in Nat \ {0}, NEW w \in Text
    PROVE  Starts(t, i, w) <=>
              /\ i + Len(w) - 1 <= Len(t)
              /\ \A j \in 1 .. Len(w) : t[i + j - 1] = w[j]
<1> DEFINE k == i + Len(w) - 1
           s == SubSeq(t, i, k)
<1>0. Len(w) \in Nat /\ Len(t) \in Nat /\ i \in Nat /\ i >= 1 /\ k \in Int
  BY DEF Text
<1> SUFFICES ASSUME k <= Len(t)
             PROVE  s = w <=> \A j \in 1 .. Len(w) : t[i + j - 1] = w[j]
  BY DEF Starts
<1>1. /\ s \in Seq(Alphabet)
      /\ Len(s) = IF i <= k THEN k - i + 1 ELSE 0
      /\ \A j \in 1 .. k - i + 1 : s[j] = t[i + j - 1]
  BY <1>0, SubSeqProperties DEF Text
<1>2. Len(s) = Len(w) /\ k - i + 1 = Len(w)
  BY <1>0, <1>1
<1> HIDE DEF s, k
<1>3. w \in Seq(Alphabet)
  BY DEF Text
<1> QED BY <1>1, <1>2, <1>3, SMTT(30)

(* The characters a numeral may start with, and its prefix in either case. *)
Prefixes == {"x", "X"}

LEMMA Marks ==
    /\ "-" \in Alphabet /\ "+" \in Alphabet /\ "." \in Alphabet /\ "0" \in Alphabet
    /\ \A x \in Prefixes :
          /\ x \in Alphabet /\ x # "0" /\ x # "."
          /\ <<"0", x>> \in Text /\ Len(<<"0", x>>) = 2
          /\ <<"0", x, ".">> \in Text /\ Len(<<"0", x, ".">>) = 3
<1>1. /\ "-" \in Alphabet /\ "+" \in Alphabet /\ "." \in Alphabet /\ "0" \in Alphabet
      /\ "x" \in Alphabet /\ "X" \in Alphabet
  BY ConvertAssumption
<1>2. ASSUME NEW x \in Prefixes
      PROVE  /\ x \in Alphabet /\ x # "0" /\ x # "."
             /\ <<"0", x>> \in Text /\ Len(<<"0", x>>) = 2
             /\ <<"0", x, ".">> \in Text /\ Len(<<"0", x, ".">>) = 3
  <2>1. x \in Alphabet /\ x # "0" /\ x # "."
    BY <1>1 DEF Prefixes
  <2>2. <<"0", x>> \in Seq(Alphabet)
    BY <1>1, <2>1
  <2>3. <<"0", x, ".">> \in Seq(Alphabet)
    BY <1>1, <2>1
  <2> QED BY <2>1, <2>2, <2>3 DEF Text
<1> QED BY <1>1, <1>2

LEMMA StartsOne ==
    ASSUME NEW t \in Text, NEW i \in Nat \ {0}, NEW c \in Alphabet
    PROVE  Starts(t, i, <<c>>) <=> i <= Len(t) /\ t[i] = c
<1> DEFINE w == <<c>>
<1>1. w \in Text /\ Len(w) = 1 /\ w[1] = c
  BY DEF Text
<1>2. Len(t) \in Nat /\ i \in Nat
  BY DEF Text
<1> HIDE DEF w
<1>6. Starts(t, i, w) <=>
         i + Len(w) - 1 <= Len(t) /\ \A j \in 1 .. Len(w) : t[i + j - 1] = w[j]
  BY <1>1, StartsIs, Zenon
<1>3. Starts(t, i, w) <=> i + 1 - 1 <= Len(t) /\ \A j \in 1 .. 1 : t[i + j - 1] = w[j]
  BY <1>1, <1>6, Zenon
<1>4. (\A j \in 1 .. 1 : t[i + j - 1] = w[j]) <=> t[i] = c
  <2>1. \A j \in 1 .. 1 : j = 1 /\ i + j - 1 = i
    BY <1>2
  <2>2. 1 \in 1 .. 1
    OBVIOUS
  <2> QED BY <1>1, <2>1, <2>2
<1>5. i + 1 - 1 = i
  BY <1>2
<1> QED BY <1>3, <1>4, <1>5 DEF w

(* Where "0x" or "0X" stands.                                              *)
LEMMA StartsHex ==
    ASSUME NEW t \in Text, NEW i \in Nat \ {0}, NEW x \in Prefixes
    PROVE  Starts(t, i, <<"0", x>>) <=>
              i + 1 <= Len(t) /\ t[i] = "0" /\ t[i + 1] = x
<1> DEFINE w == <<"0", x>>
<1>1. w \in Text /\ Len(w) = 2 /\ w[1] = "0" /\ w[2] = x
  BY Marks
<1>2. Len(t) \in Nat /\ i \in Nat
  BY DEF Text
<1> HIDE DEF w
<1>6. Starts(t, i, w) <=>
         i + Len(w) - 1 <= Len(t) /\ \A j \in 1 .. Len(w) : t[i + j - 1] = w[j]
  BY <1>1, StartsIs, Zenon
<1>3. Starts(t, i, w) <=> i + 2 - 1 <= Len(t) /\ \A j \in 1 .. 2 : t[i + j - 1] = w[j]
  BY <1>1, <1>6, Zenon
<1>4. (\A j \in 1 .. 2 : t[i + j - 1] = w[j]) <=> t[i] = "0" /\ t[i + 1] = x
  <2>1. \A j \in 1 .. 2 : (j = 1 /\ i + j - 1 = i) \/ (j = 2 /\ i + j - 1 = i + 1)
    BY <1>2
  <2>2. 1 \in 1 .. 2 /\ 2 \in 1 .. 2 /\ i + 1 - 1 = i /\ i + 2 - 1 = i + 1
    BY <1>2
  <2> QED BY <1>1, <2>1, <2>2
<1>5. i + 2 - 1 = i + 1
  BY <1>2
<1> QED BY <1>3, <1>4, <1>5 DEF w

LEMMA StartsHexPoint ==
    ASSUME NEW t \in Text, NEW i \in Nat \ {0}, NEW x \in Prefixes,
           Starts(t, i, <<"0", x, ".">>)
    PROVE  i + 2 <= Len(t) /\ t[i] = "0" /\ t[i + 1] = x
<1> DEFINE w == <<"0", x, ".">>
<1>1. w \in Text /\ Len(w) = 3 /\ w[1] = "0" /\ w[2] = x
  BY Marks
<1>2. Len(t) \in Nat /\ i \in Nat
  BY DEF Text
<1> HIDE DEF w
<1>3. i + 3 - 1 <= Len(t) /\ \A j \in 1 .. 3 : t[i + j - 1] = w[j]
  BY <1>1, StartsIs DEF w
<1>4. 1 \in 1 .. 3 /\ 2 \in 1 .. 3 /\ i + 1 - 1 = i /\ i + 2 - 1 = i + 1 /\ i + 3 - 1 = i + 2
  BY <1>2
<1> QED BY <1>1, <1>3, <1>4

(* Where the characters of S end.                                          *)
Spans(t, i, S, k) ==
    /\ k \in i - 1 .. Len(t)
    /\ \A j \in i .. k : t[j] \in S
    /\ k < Len(t) => t[k + 1] \notin S

LEMMA SpanIs ==
    ASSUME NEW t \in Text, NEW i \in 1 .. Len(t) + 1, NEW S
    PROVE  /\ Spans(t, i, S, Span(t, i, S))
           /\ \A k : Spans(t, i, S, k) => k = Span(t, i, S)
<1>0. Len(t) \in Nat /\ i \in Nat /\ i >= 1 /\ i <= Len(t) + 1
  BY DEF Text
<1> DEFINE n == Len(t)
           Stop == {k \in i - 1 .. n : k = n \/ t[k + 1] \notin S}
<1> HIDE DEF n
<1>1. Stop \in SUBSET Nat /\ n \in Stop
  BY <1>0 DEF n
<1>2. PICK m \in Stop : \A k \in Stop : m <= k
  BY <1>1, LeastNatural
<1>3. ASSUME NEW j \in i .. m PROVE t[j] \in S
  <2>1. /\ j - 1 \in i - 1 .. n /\ j - 1 # n /\ (j - 1) + 1 = j /\ ~(m <= j - 1)
    BY <1>0, <1>1 DEF n
  <2> QED BY <1>2, <2>1
<1>4. Spans(t, i, S, m)
  BY <1>0, <1>3 DEF Spans, n
<1>5. Span(t, i, S) = CHOOSE k \in i - 1 .. Len(t) :
                         /\ \A j \in i .. k : t[j] \in S
                         /\ k < Len(t) => t[k + 1] \notin S
  BY DEF Span
<1>6. Spans(t, i, S, Span(t, i, S))
  BY <1>4, <1>5 DEF Spans
<1>7. ASSUME NEW k, NEW l, Spans(t, i, S, k), Spans(t, i, S, l) PROVE ~(k < l)
  <2> SUFFICES ASSUME k < l PROVE FALSE
    OBVIOUS
  <2>1. k \in Int /\ l \in Int /\ k >= i - 1 /\ l <= Len(t)
    BY <1>0, <1>7 DEF Spans
  <2>2. k + 1 \in i .. l /\ k < Len(t)
    BY <1>0, <2>1
  <2> QED BY <1>7, <2>2 DEF Spans
<1>8. ASSUME NEW k, Spans(t, i, S, k) PROVE k = Span(t, i, S)
  <2>1. ~(k < Span(t, i, S)) /\ ~(Span(t, i, S) < k)
    BY <1>6, <1>7, <1>8
  <2>2. k \in Int /\ Span(t, i, S) \in Int
    BY <1>0, <1>6, <1>8 DEF Spans
  <2> QED BY <2>1, <2>2
<1> QED BY <1>6, <1>8

(* What is no character of S ends where it starts, and one does after it.  *)
LEMMA SpanNone ==
    ASSUME NEW t \in Text, NEW i \in 1 .. Len(t) + 1, NEW S,
           i <= Len(t) => t[i] \notin S
    PROVE  Span(t, i, S) = i - 1
<1>1. Len(t) \in Nat /\ i \in Int /\ i >= 1 /\ i <= Len(t) + 1
  BY DEF Text
<1>2. i - 1 + 1 = i /\ i - 1 \in i - 1 .. Len(t) /\ (i - 1 < Len(t) => i <= Len(t))
      /\ \A j \in i .. i - 1 : FALSE
  BY <1>1
<1>3. Spans(t, i, S, i - 1)
  BY <1>2 DEF Spans
<1> QED BY <1>3, SpanIs

LEMMA SpanOne ==
    ASSUME NEW t \in Text, NEW i \in 1 .. Len(t), NEW S, t[i] \in S,
           i + 1 <= Len(t) => t[i + 1] \notin S
    PROVE  Span(t, i, S) = i
<1>1. Len(t) \in Nat /\ i \in Int /\ i >= 1 /\ i <= Len(t)
  BY DEF Text
<1>2. i \in i - 1 .. Len(t) /\ (i < Len(t) => i + 1 <= Len(t))
      /\ (\A j \in i .. i : j = i) /\ i \in 1 .. Len(t) + 1
  BY <1>1
<1>3. Spans(t, i, S, i)
  BY <1>2 DEF Spans
<1> QED BY <1>2, <1>3, SpanIs

(* A number starts within the text or just behind it.                      *)
LEMMA UnsignedIn ==
    ASSUME NEW t \in Text
    PROVE  Unsigned(t) \in 1 .. Len(t) + 1
<1> DEFINE k == Span(t, 1, {Space})
           signed == \E sign \in {"-", "+"} : Starts(t, k + 1, <<sign>>)
<1>1. Len(t) \in Nat /\ 1 \in 1 .. Len(t) + 1
  BY DEF Text
<1>2. k \in Int /\ k >= 0 /\ k <= Len(t)
  BY <1>1, SpanIs DEF Spans
<1> HIDE DEF k
<1>3. k + 1 \in Nat \ {0} /\ \A sign \in {"-", "+"} : sign \in Alphabet
  BY <1>2, Marks
<1>4. signed => k + 1 <= Len(t)
  BY <1>3, StartsOne
<1>5. Unsigned(t) = IF signed THEN k + 2 ELSE k + 1
  BY DEF Unsigned, k
<1> HIDE DEF signed
<1> QED BY <1>1, <1>2, <1>4, <1>5

(* With neither a space nor a sign in front it starts at once.             *)
LEMMA UnsignedAtOnce ==
    ASSUME NEW t \in Text, t # <<>> => t[1] \notin {Space, "-", "+"}
    PROVE  Unsigned(t) = 1
<1> DEFINE k == Span(t, 1, {Space})
           signed == \E sign \in {"-", "+"} : Starts(t, k + 1, <<sign>>)
<1>1. Len(t) \in Nat /\ 1 \in 1 .. Len(t) + 1 /\ (1 <= Len(t) => t # <<>>)
  BY DEF Text
<1>2. k = 0
  <2>1. 1 <= Len(t) => t[1] \notin {Space}
    BY <1>1
  <2> QED BY <1>1, <2>1, SpanNone
<1> HIDE DEF k
<1>3. ~signed
  <2> SUFFICES ASSUME NEW sign \in {"-", "+"}, Starts(t, k + 1, <<sign>>) PROVE FALSE
    OBVIOUS
  <2>1. sign \in Alphabet /\ k + 1 = 1 /\ 1 \in Nat \ {0}
    BY <1>2, Marks
  <2>2. 1 <= Len(t) /\ t[1] = sign
    BY <2>1, StartsOne
  <2> QED BY <1>1, <2>2
<1>4. Unsigned(t) = IF signed THEN k + 2 ELSE k + 1
  BY DEF Unsigned, k
<1> QED BY <1>2, <1>3, <1>4

(* A number of base 16 starts with "0x" or "0X".                           *)
LEMMA HexAtIs ==
    ASSUME NEW t \in Text, NEW i \in 1 .. Len(t) + 1, HexAt(t, i) \/ HexPointAt(t, i)
    PROVE  i + 1 <= Len(t) /\ t[i] = "0" /\ t[i + 1] \in Prefixes
<1>1. i \in Nat \ {0} /\ Len(t) \in Nat
  BY DEF Text
<1>2. CASE HexAt(t, i)
  <2>1. PICK x \in Prefixes : Starts(t, i, <<"0", x>>)
    BY <1>2 DEF HexAt, Prefixes
  <2>2. i + 1 <= Len(t) /\ t[i] = "0" /\ t[i + 1] = x
    BY <1>1, <2>1, StartsHex
  <2> QED BY <2>2
<1>3. CASE HexPointAt(t, i)
  <2>1. PICK x \in Prefixes : Starts(t, i, <<"0", x, ".">>)
    BY <1>3 DEF HexPointAt, Prefixes
  <2>2. i + 2 <= Len(t) /\ t[i] = "0" /\ t[i + 1] = x
    BY <1>1, <2>1, StartsHexPoint
  <2> QED BY <1>1, <2>2
<1> QED BY <1>2, <1>3

(* Which characters are digits.                                            *)
LEMMA DigitsAre ==
    ASSUME NEW base \in {8, 10, 16}
    PROVE  /\ "0" \in Digits(base)
           /\ \A x \in Prefixes : x \notin Digits(base)
           /\ \A c \in Alphabet : Digit[c] >= 16 => c \notin Digits(base)
<1>1. \A c \in Alphabet : Digit[c] \in Nat
  BY ConvertAssumption
<1>2. \A c \in Alphabet : Digit[c] >= 16 => c \notin Digits(base)
  BY <1>1 DEF Digits
<1>3. "0" \in Digits(base)
  BY ConvertAssumption DEF Digits
<1>4. "x" \in Alphabet /\ "X" \in Alphabet /\ Digit["x"] >= 16 /\ Digit["X"] >= 16
  BY ConvertAssumption
<1> QED BY <1>2, <1>3, <1>4 DEF Prefixes

-----------------------------------------------------------------------------
(* How far strtoll goes.                                                   *)
From(t, base) ==
    IF base = 16 /\ HexAt(t, Unsigned(t)) THEN Unsigned(t) + 2 ELSE Unsigned(t)

LEMMA FromIn ==
    ASSUME NEW t \in Text, NEW base
    PROVE  From(t, base) \in 1 .. Len(t) + 1
<1>1. Unsigned(t) \in 1 .. Len(t) + 1 /\ Len(t) \in Nat
  BY UnsignedIn DEF Text
<1>2. HexAt(t, Unsigned(t)) => Unsigned(t) + 1 <= Len(t)
  BY <1>1, HexAtIs
<1> QED BY <1>1, <1>2 DEF From

LEMMA StrtollIs ==
    ASSUME NEW t, NEW base
    PROVE  LET f == From(t, base)
               k == Span(t, f, Digits(base))
               v == Sign(t) * Number(t, f, k, base)
           IN  Strtoll(t, base) =
                 IF k < f THEN [end |-> 0, val |-> 0, range |-> FALSE]
                 ELSE [end |-> k, val |-> v,
                       range |-> v > LLONG_MAX \/ v < -LLONG_MAX - 1]
BY DEF Strtoll, From

(* A text is no integer if its digits end before it does.                  *)
LEMMA NotIntegral ==
    ASSUME NEW t \in Text, t # <<>>, NEW base,
           Span(t, From(t, base), Digits(base)) < Len(t)
    PROVE  Integral(t, base) = Answer(0, 0)
<1> DEFINE f == From(t, base)
           k == Span(t, f, Digits(base))
<1>1. Len(t) \in Nat /\ Len(t) # 0
  BY DEF Text
<1>2. Strtoll(t, base).end = IF k < f THEN 0 ELSE k
  BY StrtollIs
<1>3. Strtoll(t, base).end < Len(t)
  BY <1>1, <1>2
<1> QED BY <1>3 DEF Integral

(* A text that is one is digits to its end.                                *)
LEMMA IntegralIs ==
    ASSUME NEW t \in Text, t # <<>>, NEW base, Integral(t, base).ret # 0
    PROVE  LET f == From(t, base)
           IN  /\ Span(t, f, Digits(base)) = Len(t)
               /\ f <= Len(t)
               /\ \A j \in f .. Len(t) : t[j] \in Digits(base)
               /\ Integral(t, base).ret = 1 =>
                    Integral(t, base).val = Sign(t) * Number(t, f, Len(t), base)
<1> DEFINE f == From(t, base)
           k == Span(t, f, Digits(base))
<1>1. Len(t) \in Nat /\ Len(t) # 0 /\ f \in 1 .. Len(t) + 1
  BY FromIn DEF Text
<1> HIDE DEF f
<1>2. Spans(t, f, Digits(base), k)
  BY <1>1, SpanIs
<1> HIDE DEF k
<1>3. k \in Int /\ k >= f - 1 /\ k <= Len(t) /\ f \in Int
  BY <1>1, <1>2 DEF Spans
<1>4. ~(k < Len(t))
  BY NotIntegral DEF Answer, k, f
<1>5. k = Len(t)
  BY <1>1, <1>3, <1>4
<1>6. Strtoll(t, base) =
         IF k < f THEN [end |-> 0, val |-> 0, range |-> FALSE]
         ELSE [end |-> k, val |-> Sign(t) * Number(t, f, k, base),
               range |-> Sign(t) * Number(t, f, k, base) > LLONG_MAX
                         \/ Sign(t) * Number(t, f, k, base) < -LLONG_MAX - 1]
  BY StrtollIs DEF k, f
<1>7. ~(k < f)
  <2> SUFFICES ASSUME k < f PROVE FALSE
    OBVIOUS
  <2>1. Strtoll(t, base).end = 0
    BY <1>6
  <2>2. Strtoll(t, base).end < Len(t)
    BY <1>1, <2>1
  <2> QED BY <2>2 DEF Integral, Answer
<1>8. Strtoll(t, base).val = Sign(t) * Number(t, f, k, base)
  BY <1>6, <1>7
<1>9. Integral(t, base).ret = 1 => Integral(t, base).val = Strtoll(t, base).val
  BY DEF Integral, Answer
<1>10. f <= Len(t)
  BY <1>3, <1>5, <1>7
<1>11. \A j \in f .. k : t[j] \in Digits(base)
  BY <1>2 DEF Spans
<1> QED BY <1>5, <1>8, <1>9, <1>10, <1>11 DEF k, f

(* A zero is 0 in every base.                                              *)
LEMMA NumberOfZero ==
    ASSUME NEW t \in Text, t[1] = "0", NEW base \in {8, 10, 16}
    PROVE  Number(t, 1, 1, base) = 0
<1> DEFINE value(v, j) == IF j = 1 - 1 THEN 0
                          ELSE IF t[j] \in Digits(base)
                               THEN v[j - 1] * base + Digit[t[j]] ELSE v[j - 1]
           Is(v) == v = [j \in 1 - 1 .. 1 |-> value(v, j)]
           g == [j \in 1 - 1 .. 1 |-> 0]
           val == CHOOSE v : Is(v)
<1>1. Number(t, 1, 1, base) = val[1]
  BY DEF Number
<1>2. "0" \in Digits(base) /\ Digit["0"] = 0 /\ base \in Nat /\ 0 * base + 0 = 0
  BY DigitsAre, ConvertAssumption
<1>3. 1 - 1 = 0 /\ \A j \in 0 .. 1 : j = 0 \/ j = 1
  OBVIOUS
<1>4. ASSUME NEW j \in 1 - 1 .. 1 PROVE value(g, j) = 0
  <2>1. CASE j = 0
    BY <1>3, <2>1
  <2>2. CASE j = 1
    <3>1. g[j - 1] = 0
      BY <2>2
    <3>2. value(g, j) = g[j - 1] * base + Digit[t[j]]
      BY <1>2, <2>2
    <3> QED BY <1>2, <2>2, <3>1, <3>2
  <2> QED BY <1>3, <2>1, <2>2
<1>5. Is(g)
  BY <1>4
<1> HIDE DEF g
<1>6. Is(val)
  BY <1>5
<1> HIDE DEF val
<1>7. val[0] = 0
  BY <1>6
<1>8. val[1] = val[0] * base + Digit[t[1]]
  BY <1>2, <1>6
<1> QED BY <1>1, <1>2, <1>7, <1>8

(* A prefix that is not taken for one ends the number at its "0".          *)
LEMMA PrefixNone ==
    ASSUME NEW t \in Text, NEW base \in {8, 10, 16},
           From(t, base) = Unsigned(t), Unsigned(t) + 1 <= Len(t),
           t[Unsigned(t)] = "0", t[Unsigned(t) + 1] \in Prefixes
    PROVE  Integral(t, base) = Answer(0, 0)
<1> DEFINE i == Unsigned(t)
<1>1. i \in 1 .. Len(t) + 1 /\ Len(t) \in Nat
  BY UnsignedIn DEF Text
<1>2. i \in 1 .. Len(t) /\ i < Len(t) /\ t # <<>>
  BY <1>1 DEF Text
<1>3. t[i] \in Digits(base) /\ t[i + 1] \notin Digits(base)
  BY DigitsAre
<1>4. Span(t, i, Digits(base)) = i
  BY <1>2, <1>3, SpanOne
<1>5. Span(t, From(t, base), Digits(base)) < Len(t)
  BY <1>2, <1>4
<1> QED BY <1>2, <1>5, NotIntegral

(* "0" is 0 in every base.                                                 *)
LEMMA ZeroAlone ==
    ASSUME NEW t \in Text, Len(t) = 1, t[1] = "0", Unsigned(t) = 1,
           NEW base \in {8, 10, 16}
    PROVE  Integral(t, base) = Answer(1, 0)
<1>1. t # <<>> /\ 1 \in 1 .. Len(t) /\ 1 \in 1 .. Len(t) + 1 /\ ~(1 + 1 <= Len(t))
  <2>1. Len(t) # 0 /\ 1 \in 1 .. 1 /\ 1 \in 1 .. 1 + 1 /\ ~(1 + 1 <= 1)
    OBVIOUS
  <2>2. t # <<>>
    BY <2>1
  <2> QED BY <2>1, <2>2, Zenon
<1>2. From(t, base) = 1
  <2>1. ~HexAt(t, 1)
    BY <1>1, HexAtIs
  <2> QED BY <2>1 DEF From
<1>3. t[1] \in Digits(base)
  BY DigitsAre
<1>4. Span(t, 1, Digits(base)) = 1
  BY <1>1, <1>3, SpanOne
<1>5. Sign(t) = 1
  BY DEF Sign
<1>6. Sign(t) * Number(t, 1, 1, base) = 0
  <2>1. Number(t, 1, 1, base) = 0
    BY NumberOfZero
  <2> QED BY <1>5, <2>1
<1>7. Strtoll(t, base) =
         IF 1 < 1 THEN [end |-> 0, val |-> 0, range |-> FALSE]
         ELSE [end |-> 1, val |-> 0,
               range |-> 0 > LLONG_MAX \/ 0 < -LLONG_MAX - 1]
  BY <1>2, <1>4, <1>6, StrtollIs
<1>8. LLONG_MAX \in Nat
  BY ConvertAssumption
<1>9. ~(1 < 1) /\ (0 > LLONG_MAX \/ 0 < -LLONG_MAX - 1) = FALSE
  BY <1>8
<1>10. Strtoll(t, base) = [end |-> 1, val |-> 0, range |-> FALSE]
  BY <1>7, <1>9, Zenon
<1>11. Strtoll(t, base).end = 1 /\ Strtoll(t, base).val = 0 /\ ~Strtoll(t, base).range
  BY <1>10
<1> QED BY <1>11 DEF Integral

(* Where the numeral is the first thing in the text, the base found there  *)
(* is the one C finds, as far as the answer tells, but for "0X".           *)
LEMMA BaseAtOnce ==
    ASSUME NEW t \in Text, Unsigned(t) = 1
    PROVE  \/ Integral(t, Base(t)) = Integral(t, OwnBase(t))
           \/ /\ OwnBase(t) = 16 /\ ~Starts(t, 1, <<"0", "x">>)
              /\ Integral(t, Base(t)) = Answer(0, 0)
<1>1. /\ Len(t) \in Nat /\ 1 \in Nat \ {0} /\ 1 \in 1 .. Len(t) + 1
      /\ "0" \in Alphabet /\ "x" \in Prefixes
  BY Marks DEF Text, Prefixes
<1>2. Starts(t, 1, <<"0">>) <=> 1 <= Len(t) /\ t[1] = "0"
  BY <1>1, StartsOne
<1>3. Starts(t, 1, <<"0", "x">>) <=> 1 + 1 <= Len(t) /\ t[1] = "0" /\ t[1 + 1] = "x"
  BY <1>1, StartsHex
<1>4. OwnBase(t) = IF HexAt(t, 1) THEN 16 ELSE IF Starts(t, 1, <<"0">>) THEN 8 ELSE 10
  BY DEF OwnBase
<1>5. CASE ~Starts(t, 1, <<"0">>)
  <2>1. ~Starts(t, 1, <<"0", "x">>)
    BY <1>1, <1>2, <1>3, <1>5
  <2>2. ~HexAt(t, 1)
    <3> SUFFICES ASSUME HexAt(t, 1) PROVE FALSE
      OBVIOUS
    <3>1. 1 + 1 <= Len(t) /\ t[1] = "0"
      BY <1>1, HexAtIs
    <3> QED BY <1>1, <1>2, <1>5, <3>1
  <2> QED BY <1>4, <1>5, <2>1, <2>2 DEF Base
<1>6. CASE Starts(t, 1, <<"0", "x">>)
  <2>1. 1 + 1 <= Len(t) /\ t[1] = "0" /\ t[1 + 1] \in Prefixes
    BY <1>1, <1>3, <1>6
  <2>2. Base(t) = 16
    BY <1>6 DEF Base
  <2>3. CASE HexAt(t, 1)
    BY <1>4, <2>2, <2>3
  <2>4. CASE ~HexAt(t, 1)
    <3>1. ASSUME NEW base \in {8, 10, 16} PROVE Integral(t, base) = Answer(0, 0)
      <4>1. From(t, base) = 1
        BY <2>4 DEF From
      <4> QED BY <2>1, <4>1, PrefixNone
    <3>2. OwnBase(t) \in {8, 10, 16}
      BY DEF OwnBase
    <3> QED BY <2>2, <3>1, <3>2
  <2> QED BY <2>3, <2>4
<1>7. CASE Starts(t, 1, <<"0">>) /\ ~Starts(t, 1, <<"0", "x">>) /\ HexAt(t, 1)
  <2>1. 1 + 1 <= Len(t) /\ t[1] = "0" /\ t[1 + 1] \in Prefixes
    BY <1>1, <1>7, HexAtIs
  <2>2. Base(t) = 8 /\ OwnBase(t) = 16
    <3>1. Len(t) > 1
      BY <1>1, <2>1
    <3> QED BY <1>4, <1>7, <3>1 DEF Base
  <2>3. From(t, 8) = 1
    BY DEF From
  <2>4. Integral(t, 8) = Answer(0, 0)
    BY <2>1, <2>3, PrefixNone
  <2> QED BY <1>7, <2>2, <2>4
<1>8. CASE Starts(t, 1, <<"0">>) /\ ~Starts(t, 1, <<"0", "x">>) /\ ~HexAt(t, 1)
  <2>1. OwnBase(t) = 8
    BY <1>4, <1>8
  <2>2. CASE Len(t) > 1
    BY <1>8, <2>1, <2>2 DEF Base
  <2>3. CASE ~(Len(t) > 1)
    <3>1. t[1] = "0" /\ 1 <= Len(t)
      BY <1>2, <1>8
    <3>2. Len(t) = 1
      BY <1>1, <2>3, <3>1
    <3>3. \A base \in {8, 10, 16} : Integral(t, base) = Answer(1, 0)
      BY <3>1, <3>2, ZeroAlone
    <3>4. Base(t) \in {8, 10, 16}
      BY DEF Base
    <3>5. Integral(t, Base(t)) = Answer(1, 0) /\ Integral(t, 8) = Answer(1, 0)
      BY <3>3, <3>4
    <3> QED BY <2>1, <3>5
  <2> QED BY <2>2, <2>3
<1> QED BY <1>5, <1>6, <1>7, <1>8

(* Behind a blank or a sign the code does not see a base, C does.          *)
LEMMA BaseBehind ==
    ASSUME NEW t \in Text, Unsigned(t) # 1
    PROVE  /\ Base(t) = 10
           /\ OwnBase(t) = 16 => /\ ~Starts(t, 1, <<"0", "x">>)
                                 /\ Integral(t, 10) = Answer(0, 0)
<1> DEFINE i == Unsigned(t)
<1>1. i \in 1 .. Len(t) + 1 /\ Len(t) \in Nat /\ 1 \in Nat \ {0} /\ "x" \in Prefixes
      /\ "0" \in Alphabet
  BY UnsignedIn, Marks DEF Text, Prefixes
<1>2. t # <<>> /\ t[1] \in {Space, "-", "+"}
  BY UnsignedAtOnce
<1>3. t[1] # "0"
  <2>1. Digit["0"] = 0 /\ \A c \in {Space, "-", "+"} : Digit[c] >= 16
    BY ConvertAssumption
  <2> QED BY <1>2, <2>1
<1>4. ~Starts(t, 1, <<"0">>) /\ ~Starts(t, 1, <<"0", "x">>)
  BY <1>1, <1>3, StartsOne, StartsHex
<1>5. Base(t) = 10
  BY <1>4 DEF Base
<1>6. ASSUME OwnBase(t) = 16 PROVE Integral(t, 10) = Answer(0, 0)
  <2>1. HexAt(t, i)
    BY <1>6 DEF OwnBase
  <2>2. i + 1 <= Len(t) /\ t[i] = "0" /\ t[i + 1] \in Prefixes
    BY <1>1, <2>1, HexAtIs
  <2>3. From(t, 10) = i
    BY DEF From
  <2> QED BY <2>2, <2>3, PrefixNone
<1> QED BY <1>4, <1>5, <1>6

-----------------------------------------------------------------------------
(* What the state is: a text, and what it is as each type.                 *)
CInv ==
    /\ text \in Text
    /\ integer = StringToInteger(text)
    /\ float = StringToFloat(text)
    /\ bool = StringToBool(text)

LEMMA Converting == Spec => []CInv
<1>1. Init => CInv
  BY DEF Init, CInv, Text
<1>2. CInv /\ [Next]_vars => CInv'
  <2> SUFFICES ASSUME CInv, [Next]_vars PROVE CInv'
    OBVIOUS
  <2>1. CASE Next
    <3>1. PICK c \in Alphabet : text' = Append(text, c)
      BY <2>1 DEF Next
    <3>2. text' \in Text
      BY <3>1 DEF CInv, Text
    <3> QED BY <2>1, <3>2 DEF Next, Convert, CInv
  <2>2. CASE UNCHANGED vars
    BY <2>2 DEF CInv, vars
  <2> QED BY <2>1, <2>2
<1> QED BY <1>1, <1>2, PTL DEF Spec

(* A text is the integer strtoll makes of it in the base C finds, or one   *)
(* of the two exceptions, however long the text, whatever the alphabet and *)
(* the largest integer (convert.c, sconf_string_to_integer).               *)
THEOREM AlwaysBaseAsInC == Spec => []BaseAsInC
<1>1. CInv => BaseAsInC
  <2> SUFFICES ASSUME CInv PROVE BaseAsInC
    OBVIOUS
  <2>1. text \in Text /\ integer = Integral(text, Base(text))
    BY DEF CInv, StringToInteger
  <2>2. CASE Unsigned(text) = 1
    BY <2>1, <2>2, BaseAtOnce DEF BaseAsInC
  <2>3. CASE Unsigned(text) # 1
    <3>1. Unsigned(text) > 1
      <4>1. Unsigned(text) \in 1 .. Len(text) + 1 /\ Len(text) \in Nat
        BY <2>1, UnsignedIn DEF Text
      <4> QED BY <2>3, <4>1
    <3>2. integer = Integral(text, 10)
      BY <2>1, <2>3, BaseBehind
    <3>3. CASE OwnBase(text) = 16
      BY <2>1, <2>3, <3>2, <3>3, BaseBehind DEF BaseAsInC
    <3>4. CASE OwnBase(text) # 16
      <4>1. OwnBase(text) \in {8, 10}
        BY <3>4 DEF OwnBase
      <4> QED BY <3>1, <3>2, <4>1 DEF BaseAsInC
    <3> QED BY <3>3, <3>4
  <2> QED BY <2>2, <2>3
<1> QED BY <1>1, Converting, PTL

-----------------------------------------------------------------------------
(* What strtod finds, part by part.                                        *)
FloatBase(t) == IF HexAt(t, Unsigned(t)) \/ HexPointAt(t, Unsigned(t)) THEN 16 ELSE 10

FloatFrom(t) == IF FloatBase(t) = 16 THEN Unsigned(t) + 2 ELSE Unsigned(t)

Whole(t) == Span(t, FloatFrom(t), Digits(FloatBase(t)))

Part(t) ==
    IF Starts(t, Whole(t) + 1, <<".">>)
    THEN Span(t, Whole(t) + 2, Digits(FloatBase(t))) ELSE Whole(t)

NoNumeral(t) == Whole(t) < FloatFrom(t) /\ Part(t) < FloatFrom(t) + 1

WordsAt(t) == {w \in FloatWords : Starts(t, Unsigned(t), w)}

LEMMA StrtodIs ==
    ASSUME NEW t
    PROVE  Strtod(t) =
             IF NoNumeral(t) /\ WordsAt(t) = {}
             THEN [end |-> 0, num |-> 0, point |-> 0, range |-> FALSE]
             ELSE IF NoNumeral(t)
             THEN [end |-> Unsigned(t) + Len(CHOOSE w \in WordsAt(t) : TRUE) - 1,
                   num |-> CHOOSE w \in WordsAt(t) : TRUE,
                   point |-> 0, range |-> FALSE]
             ELSE [end |-> Part(t),
                   num |-> Sign(t) * Number(t, FloatFrom(t), Part(t), FloatBase(t)),
                   point |-> IF Part(t) > Whole(t) THEN Part(t) - Whole(t) - 1 ELSE 0,
                   range |-> Number(t, FloatFrom(t), Whole(t), FloatBase(t)) > FLOAT_MAX]
BY DEF Strtod, FloatBase, FloatFrom, Whole, Part, NoNumeral, WordsAt

(* What is an integer in base 10 or 16 starts where the float does and has *)
(* the float's base.                                                       *)
LEMMA SameNumeral ==
    ASSUME NEW t \in Text, t # <<>>, Integral(t, Base(t)).ret # 0, Base(t) # 8
    PROVE  FloatBase(t) = Base(t) /\ FloatFrom(t) = From(t, Base(t))
<1> DEFINE i == Unsigned(t)
           f == From(t, Base(t))
<1>1. Len(t) \in Nat /\ i \in 1 .. Len(t) + 1 /\ i \in Int /\ 1 \in Nat \ {0}
  BY UnsignedIn DEF Text
<1>2. \A j \in f .. Len(t) : t[j] \in Digits(Base(t))
  BY IntegralIs
<1>3. CASE Base(t) = 16
  <2>1. Starts(t, 1, <<"0", "x">>)
    BY <1>3 DEF Base
  <2>2. 1 + 1 <= Len(t) /\ t[1] = "0" /\ t[1 + 1] \in Prefixes
    <3>1. "x" \in Prefixes
      BY DEF Prefixes
    <3> QED BY <1>1, <2>1, <3>1, StartsHex
  <2>3. t[1] \notin {Space, "-", "+"}
    <3>1. Digit["0"] = 0 /\ \A c \in {Space, "-", "+"} : Digit[c] >= 16
      BY ConvertAssumption
    <3> QED BY <2>2, <3>1
  <2>4. i = 1
    BY <2>3, UnsignedAtOnce
  <2>5. HexAt(t, 1)
    <3> SUFFICES ASSUME ~HexAt(t, 1) PROVE FALSE
      OBVIOUS
    <3>1. f = 1
      BY <2>4 DEF From
    <3>2. 1 + 1 \in f .. Len(t)
      BY <1>1, <2>2, <3>1
    <3>3. t[1 + 1] \in Digits(16)
      BY <1>2, <1>3, <3>2
    <3>4. \A x \in Prefixes : x \notin Digits(16)
      BY DigitsAre
    <3> QED BY <2>2, <3>3, <3>4
  <2> QED BY <1>3, <2>4, <2>5 DEF FloatBase, FloatFrom, From
<1>4. CASE Base(t) = 10
  <2>1. f = i
    BY <1>4 DEF From
  <2>2. ASSUME HexAt(t, i) \/ HexPointAt(t, i) PROVE FALSE
    <3>1. i + 1 <= Len(t) /\ t[i + 1] \in Prefixes
      BY <1>1, <2>2, HexAtIs
    <3>2. i + 1 \in f .. Len(t)
      BY <1>1, <2>1, <3>1
    <3>3. t[i + 1] \in Digits(10)
      BY <1>2, <1>4, <3>2
    <3>4. \A x \in Prefixes : x \notin Digits(10)
      BY DigitsAre
    <3> QED BY <3>1, <3>3, <3>4
  <2>3. FloatBase(t) = 10
    BY <2>2 DEF FloatBase
  <2> QED BY <1>4, <2>1, <2>3 DEF FloatFrom
<1>5. Base(t) \in {8, 10, 16}
  BY DEF Base
<1> QED BY <1>3, <1>4, <1>5

(* A text that is an integer and a float is the same number, unless it is  *)
(* octal.                                                                  *)
LEMMA FloatOfIntegral ==
    ASSUME NEW t \in Text, t # <<>>, StringToInteger(t).ret = 1, Base(t) # 8,
           StringToFloat(t).ret = 1
    PROVE  StringToFloat(t).val = <<StringToInteger(t).val, 0>>
<1> DEFINE b == Base(t)
           f == From(t, b)
<1>1. StringToInteger(t) = Integral(t, b)
  BY DEF StringToInteger
<1>2. /\ Span(t, f, Digits(b)) = Len(t) /\ f <= Len(t)
      /\ Integral(t, b).val = Sign(t) * Number(t, f, Len(t), b)
  BY <1>1, IntegralIs
<1>3. FloatBase(t) = b /\ FloatFrom(t) = f
  BY <1>1, SameNumeral
<1>4. Len(t) \in Nat /\ f \in 1 .. Len(t) + 1
  BY FromIn DEF Text
<1> HIDE DEF b, f
<1>5. Whole(t) = Len(t)
  BY <1>2, <1>3 DEF Whole
<1>6. ~Starts(t, Len(t) + 1, <<".">>)
  <2>1. Len(t) + 1 \in Nat \ {0} /\ ~(Len(t) + 1 <= Len(t)) /\ "." \in Alphabet
    BY <1>4, ConvertAssumption
  <2> QED BY <2>1, StartsOne
<1>7. Part(t) = Len(t)
  BY <1>5, <1>6 DEF Part
<1>8. ~(Len(t) < f) /\ ~(Len(t) > Len(t)) /\ ~(Len(t) < Len(t))
  BY <1>2, <1>4
<1>9. ~NoNumeral(t)
  BY <1>3, <1>5, <1>8 DEF NoNumeral
<1>10. Strtod(t) =
          [end |-> Part(t),
           num |-> Sign(t) * Number(t, FloatFrom(t), Part(t), FloatBase(t)),
           point |-> IF Part(t) > Whole(t) THEN Part(t) - Whole(t) - 1 ELSE 0,
           range |-> Number(t, FloatFrom(t), Whole(t), FloatBase(t)) > FLOAT_MAX]
  BY <1>9, StrtodIs
<1>11. Strtod(t).num = Integral(t, b).val /\ Strtod(t).point = 0
  BY <1>2, <1>3, <1>5, <1>7, <1>8, <1>10
<1>12. StringToFloat(t).val = <<Strtod(t).num, Strtod(t).point>>
  BY DEF StringToFloat, Answer
<1> QED BY <1>1, <1>11, <1>12

-----------------------------------------------------------------------------
(* A word for a boolean is neither the start of an integer nor of a float. *)
LEMMA NoNumber ==
    ASSUME NEW t \in Text, NEW w \in TrueWords \cup FalseWords, Starts(t, 1, w)
    PROVE  StringToInteger(t).ret = 0 /\ StringToFloat(t).ret = 0
<1>1. /\ w \in Seq(Alphabet) /\ w # <<>>
      /\ Digit[w[1]] >= 16 /\ w[1] \notin {Space, "-", "+", "."}
      /\ \A v \in FloatWords : v \in Seq(Alphabet) /\ ~Starts(v, 1, w)
  BY WordsAssumption
<1>2. Len(t) \in Nat /\ Len(w) \in Nat /\ Len(w) >= 1 /\ 1 \in Nat \ {0} /\ w \in Text
  BY <1>1 DEF Text
<1>3. 1 + Len(w) - 1 <= Len(t) /\ \A j \in 1 .. Len(w) : t[1 + j - 1] = w[j]
  BY <1>2, StartsIs
<1>4. Len(w) <= Len(t) /\ \A j \in 1 .. Len(w) : t[j] = w[j]
  <2>1. 1 + Len(w) - 1 = Len(w) /\ \A j \in 1 .. Len(w) : 1 + j - 1 = j
    BY <1>2
  <2> QED BY <1>3, <2>1
<1>5. 1 \in 1 .. Len(t) /\ 1 \in 1 .. Len(t) + 1 /\ t[1] = w[1] /\ t # <<>>
  BY <1>2, <1>4 DEF Text
<1>6. t[1] \in Alphabet /\ Digit[t[1]] >= 16 /\ t[1] \notin {Space, "-", "+", "."} /\ t[1] # "0"
  <2>1. t[1] \in Alphabet /\ ~(0 >= 16)
    BY <1>5 DEF Text
  <2>2. Digit["0"] = 0
    BY ConvertAssumption
  <2> QED BY <1>1, <1>5, <2>1, <2>2
<1>7. Unsigned(t) = 1
  BY <1>6, UnsignedAtOnce
<1>8. ~HexAt(t, 1) /\ ~HexPointAt(t, 1)
  BY <1>5, <1>6, HexAtIs
<1>9. \A base \in {8, 10, 16} : Span(t, 1, Digits(base)) = 0
  <2>1. ASSUME NEW base \in {8, 10, 16} PROVE Span(t, 1, Digits(base)) = 1 - 1
    <3>1. t[1] \notin Digits(base)
      BY <1>6, DigitsAre
    <3> QED BY <1>5, <3>1, SpanNone
  <2> QED BY <2>1
<1>10. StringToInteger(t).ret = 0
  <2>1. Base(t) \in {8, 10, 16}
    BY DEF Base
  <2>2. From(t, Base(t)) = 1
    BY <1>7, <1>8 DEF From
  <2>3. Span(t, From(t, Base(t)), Digits(Base(t))) < Len(t)
    BY <1>2, <1>4, <1>9, <2>1, <2>2
  <2> QED BY <1>5, <2>3, NotIntegral DEF StringToInteger, Answer
<1>11. StringToFloat(t).ret = 0
  <2>1. FloatBase(t) = 10 /\ FloatFrom(t) = 1
    BY <1>7, <1>8 DEF FloatBase, FloatFrom
  <2>2. Whole(t) = 0
    BY <1>9, <2>1 DEF Whole
  <2>3. ~Starts(t, 1, <<".">>)
    <3>1. "." \in Alphabet
      BY ConvertAssumption
    <3> QED BY <1>2, <1>6, <3>1, StartsOne
  <2>4. Part(t) = 0
    <3>1. Whole(t) + 1 = 1
      BY <2>2
    <3> QED BY <2>2, <2>3, <3>1 DEF Part
  <2>5. NoNumeral(t)
    BY <2>1, <2>2, <2>4 DEF NoNumeral
  <2>6. Strtod(t).end < Len(t)
    <3>1. CASE WordsAt(t) = {}
      <4>1. Strtod(t).end = 0
        BY <2>5, <3>1, StrtodIs
      <4> QED BY <1>2, <1>4, <4>1
    <3>2. CASE WordsAt(t) # {}
      <4> DEFINE v == CHOOSE v \in WordsAt(t) : TRUE
      <4>1. v \in WordsAt(t)
        BY <3>2
      <4> HIDE DEF v
      <4>2. v \in FloatWords /\ Starts(t, 1, v) /\ v \in Text
        BY <1>1, <1>7, <4>1 DEF WordsAt, Text
      <4>3. Len(v) \in Nat /\ 1 + Len(v) - 1 = Len(v) /\ 1 + Len(w) - 1 = Len(w)
            /\ \A j \in 1 .. Len(v) : 1 + j - 1 = j
        BY <1>2, <4>2 DEF Text
      <4>4. \A j \in 1 .. Len(v) : t[1 + j - 1] = v[j]
        BY <1>2, <4>2, StartsIs
      <4>5. \A j \in 1 .. Len(v) : t[j] = v[j]
        BY <4>3, <4>4
      <4>6. ~(Len(w) <= Len(v))
        <5> SUFFICES ASSUME Len(w) <= Len(v) PROVE FALSE
          OBVIOUS
        <5>1. \A j \in 1 .. Len(w) : j \in 1 .. Len(v) /\ 1 + j - 1 = j
          BY <1>2, <4>3
        <5>2. \A j \in 1 .. Len(w) : v[1 + j - 1] = w[j]
          BY <1>4, <4>5, <5>1
        <5>3. 1 + Len(w) - 1 <= Len(v)
          BY <4>3
        <5>4. Starts(v, 1, w)
          BY <1>2, <4>2, <5>2, <5>3, StartsIs
        <5> QED BY <1>1, <4>2, <5>4
      <4>7. Strtod(t).end = Unsigned(t) + Len(v) - 1
        BY <2>5, <3>2, StrtodIs DEF v
      <4>8. Strtod(t).end = Len(v)
        BY <1>7, <4>3, <4>7
      <4> QED BY <1>2, <1>4, <4>3, <4>6, <4>8
    <3> QED BY <3>1, <3>2
  <2> QED BY <2>6 DEF StringToFloat, Answer
<1> QED BY <1>10, <1>11

LEMMA BoolIsNone ==
    ASSUME NEW t \in Text, StringToBool(t).ret = 1
    PROVE  StringToInteger(t).ret = 0 /\ StringToFloat(t).ret = 0
<1>1. \E w \in TrueWords \cup FalseWords : Starts(t, 1, w)
  BY DEF StringToBool, Answer
<1> QED BY <1>1, NoNumber

(* The answers of the three conversions.                                   *)
LEMMA Answers ==
    ASSUME NEW t
    PROVE  /\ StringToInteger(t).ret \in {-1, 0, 1}
           /\ StringToFloat(t).ret \in {-1, 0, 1}
           /\ StringToBool(t).ret \in {0, 1}
<1>1. StringToInteger(t).ret \in {-1, 0, 1}
  BY DEF StringToInteger, Integral, Answer
<1>2. StringToFloat(t).ret \in {-1, 0, 1}
  BY DEF StringToFloat, Answer
<1>3. StringToBool(t).ret \in {0, 1}
  BY DEF StringToBool, Answer
<1> QED BY <1>1, <1>2, <1>3

LEMMA GivenIs ==
    ASSUME NEW type, NEW answer
    PROVE  /\ Given(type, answer).ret = 0 <=> answer.ret = 1
           /\ Given(type, answer).type = type
           /\ Given(type, answer).val = answer.val
BY DEF Given, Scalar

LEMMA OthersRefused ==
    ASSUME NEW type, NEW answer, answer.ret # 1
    PROVE  Given(type, answer).ret = -1
BY DEF Given, Scalar

(* An unquoted scalar of a file and the same text given to an option, the  *)
(* environment or a default agree, for every text, all words and all sizes *)
(* (yaml.c, opts.c, environment.c and defaults.c over convert.c).          *)
THEOREM AlwaysSourcesAgree == Spec => []SourcesAgree
<1>1. CInv => SourcesAgree
  <2> SUFFICES ASSUME CInv PROVE SourcesAgree
    OBVIOUS
  <2> DEFINE file == YamlScalar(FALSE)
  <2>1. YamlScalar(TRUE) = GivenScalar("str")
    BY DEF YamlScalar, GivenScalar
  <2>2. /\ GivenScalar("int") = Given("int", integer)
        /\ GivenScalar("float") = Given("float", float)
        /\ GivenScalar("bool") = Given("bool", bool)
    BY DEF GivenScalar
  <2>3. integer.ret \in {-1, 0, 1} /\ float.ret \in {-1, 0, 1} /\ bool.ret \in {0, 1}
    BY Answers DEF CInv
  <2>11. ASSUME text # <<>>, integer.ret # 0
         PROVE  file = Given("int", integer)
    BY <2>11, Zenon DEF YamlScalar
  <2>12. ASSUME text # <<>>, integer.ret = 0, float.ret # 0
         PROVE  file = Given("float", float)
    BY <2>12, Zenon DEF YamlScalar
  <2>13. ASSUME text # <<>>, integer.ret = 0, float.ret = 0, bool.ret # 0
         PROVE  file = Given("bool", bool)
    BY <2>13, Zenon DEF YamlScalar
  <2> HIDE DEF file
  <2>5. ASSUME text # <<>>, Given("int", integer).ret = 0
        PROVE  Same(file, Given("int", integer))
    <3>1. integer.ret # 0
      BY <2>5, GivenIs
    <3>2. file = Given("int", integer)
      BY <2>5, <2>11, <3>1
    <3> QED BY <3>2, Zenon DEF Same
  <2>6. ASSUME text # <<>>, Given("bool", bool).ret = 0
        PROVE  Same(file, Given("bool", bool))
    <3>1. bool.ret = 1
      BY <2>6, GivenIs
    <3>2. integer.ret = 0 /\ float.ret = 0
      BY <3>1, BoolIsNone DEF CInv
    <3>3. bool.ret # 0
      BY <3>1
    <3>4. file = Given("bool", bool)
      BY <2>6, <2>13, <3>2, <3>3
    <3> QED BY <3>4, Zenon DEF Same
  <2>7. ASSUME text # <<>>, Given("float", float).ret = 0
        PROVE  \/ Same(file, Given("float", float))
               \/ file = Given("int", integer) /\ Given("float", float).val = <<integer.val, 0>>
               \/ file.type = "int" /\ Base(text) = 8
               \/ file.ret = -1 /\ integer.ret = -1
    <3>1. float.ret = 1
      BY <2>7, GivenIs
    <3>2. CASE integer.ret = 0
      <4>1. float.ret # 0
        BY <3>1
      <4>2. file = Given("float", float)
        BY <2>7, <2>12, <3>2, <4>1
      <4> QED BY <4>2, Zenon DEF Same
    <3>3. CASE integer.ret = -1
      <4>1. file = Given("int", integer)
        BY <2>7, <2>11, <3>3
      <4>2. file.ret = -1
        BY <3>3, <4>1, OthersRefused
      <4> QED BY <3>3, <4>2
    <3>4. CASE integer.ret = 1 /\ Base(text) = 8
      <4>1. file = Given("int", integer)
        BY <2>7, <2>11, <3>4
      <4>2. file.type = "int"
        BY <4>1, GivenIs
      <4> QED BY <3>4, <4>2
    <3>5. CASE integer.ret = 1 /\ Base(text) # 8
      <4>1. file = Given("int", integer)
        BY <2>7, <2>11, <3>5
      <4>2. float.val = <<integer.val, 0>>
        BY <2>7, <3>1, <3>5, FloatOfIntegral DEF CInv
      <4>3. Given("float", float).val = <<integer.val, 0>>
        BY <4>2, GivenIs
      <4> QED BY <4>1, <4>3
    <3> QED BY <2>3, <3>2, <3>3, <3>4, <3>5
  <2>8. ASSUME text # <<>>, file.type = "str"
        PROVE  /\ Given("int", integer).ret = -1
               /\ Given("float", float).ret = -1
               /\ Given("bool", bool).ret = -1
    <3>1. /\ Given("int", integer).type # "str"
          /\ Given("float", float).type # "str"
          /\ Given("bool", bool).type # "str"
      BY GivenIs
    <3>2. integer.ret = 0 /\ float.ret = 0 /\ bool.ret = 0
      BY <2>8, <2>11, <2>12, <2>13, <3>1
    <3>3. integer.ret # 1 /\ float.ret # 1 /\ bool.ret # 1
      BY <3>2
    <3> QED BY <3>3, OthersRefused
  <2>9. \A type \in {"int", "bool"} :
            text # <<>> /\ GivenScalar(type).ret = 0 => Same(file, GivenScalar(type))
    BY <2>2, <2>5, <2>6
  <2>10. text # <<>> /\ file.type = "str" =>
            \A type \in {"int", "float", "bool"} : GivenScalar(type).ret = -1
    BY <2>2, <2>8
  <2> QED BY <2>1, <2>2, <2>7, <2>9, <2>10 DEF SourcesAgree, file
<1> QED BY <1>1, Converting, PTL
=============================================================================
