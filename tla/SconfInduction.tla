---------------------------- MODULE SconfInduction ----------------------------
(***************************************************************************)
(* Induction for the proofs about paths: sconf_set and sconf_get walk from *)
(* token to token, and what they reach is stated by recursive functions    *)
(* (GetWalk, Trail).                                                       *)
(*                                                                         *)
(* Everything is stated with sets, not with predicates: an induction is    *)
(* the absence of a least counterexample, which is all that is taken from  *)
(* WellFoundedInduction.                                                   *)
(***************************************************************************)
EXTENDS Integers, WellFoundedInduction, TLAPS

(* A set of naturals that is not empty has a least element.                *)
LEMMA LeastNatural ==
    ASSUME NEW S \in SUBSET Nat, S # {}
    PROVE  \E m \in S : \A k \in S : m <= k
<1> DEFINE R == OpToRel(<, Nat)
<1>1. IsWellFoundedOn(R, Nat)
  BY NatLessThanWellFounded
<1>2. \A x, y \in Nat : <<x, y>> \in R <=> x < y
  BY DEF OpToRel
<1> HIDE DEF R
<1>3. PICK m \in S : \A k \in S : ~ (<<k, m>> \in R)
  BY <1>1, WFMin
<1>4. ASSUME NEW k \in S PROVE m <= k
  <2>1. m \in Nat /\ k \in Nat /\ ~(k < m)
    BY <1>2, <1>3
  <2> QED BY <2>1
<1> QED BY <1>4

(* What holds of 0, and of each number after one of which it holds, holds  *)
(* up to N.                                                                *)
LEMMA UpTo ==
    ASSUME NEW N \in Nat, NEW T, 0 \in T,
           \A n \in 0 .. N - 1 : n \in T => n + 1 \in T
    PROVE  \A n \in 0 .. N : n \in T
<1> SUFFICES ASSUME NEW n \in 0 .. N, n \notin T PROVE FALSE
  OBVIOUS
<1> DEFINE S == (0 .. N) \ T
<1>1. S \in SUBSET Nat /\ S # {}
  OBVIOUS
<1>2. PICK m \in S : \A k \in S : m <= k
  BY <1>1, LeastNatural
<1>3. m \in 1 .. N
  OBVIOUS
<1>4. m - 1 \in 0 .. N - 1 /\ ~(m <= m - 1) /\ (m - 1) + 1 = m
  BY <1>3
<1>5. m - 1 \in T
  BY <1>2, <1>4
<1> QED BY <1>3, <1>4, <1>5

(* A walk over S takes N steps from s0, the i-th one by step[<<i, s>>].     *)
Stepping(step, N, S) == step \in [(1 .. N) \X S -> S]

Walking(g, N, S, s0, step) ==
    /\ g \in [0 .. N -> S]
    /\ g[0] = s0
    /\ \A i \in 1 .. N : g[i] = step[<<i, g[i - 1]>>]

(* A walk of N steps exists: what justifies walk[i \in 0 .. N] == ...      *)
LEMMA WalkExists ==
    ASSUME NEW N \in Nat, NEW S, NEW s0 \in S, NEW step, Stepping(step, N, S)
    PROVE  \E g : Walking(g, N, S, s0, step)
<1> DEFINE Walk(n, g) ==
             g = [i \in 0 .. n |-> IF i = 0 THEN s0 ELSE step[<<i, g[i - 1]>>]]
           T == {n \in 0 .. N : \E g \in [0 .. n -> S] : Walk(n, g)}
<1>1. 0 \in T
  <2> DEFINE g == [i \in 0 .. 0 |-> s0]
  <2>1. g \in [0 .. 0 -> S] /\ Walk(0, g)
    OBVIOUS
  <2> HIDE DEF g
  <2>2. \E f \in [0 .. 0 -> S] : Walk(0, f)
    BY <2>1
  <2> QED BY <2>2
<1>2. ASSUME NEW n \in 0 .. N - 1, n \in T
      PROVE  n + 1 \in T
  <2>1. PICK h \in [0 .. n -> S] : Walk(n, h)
    BY <1>2
  <2> DEFINE g == [i \in 0 .. n + 1 |->
                      IF i <= n THEN h[i] ELSE step[<<n + 1, h[n]>>]]
  <2>2. <<n + 1, h[n]>> \in (1 .. N) \X S
    OBVIOUS
  <2>3. g \in [0 .. n + 1 -> S]
    BY <2>2 DEF Stepping
  <2>4. ASSUME NEW i \in 0 .. n + 1
        PROVE  g[i] = IF i = 0 THEN s0 ELSE step[<<i, g[i - 1]>>]
    <3>1. CASE i = n + 1
      <4>1. g[i] = step[<<n + 1, h[n]>>] /\ g[n] = h[n] /\ i - 1 = n /\ i # 0
        BY <3>1
      <4> QED BY <3>1, <4>1
    <3>2. CASE i # n + 1 /\ i # 0
      <4>1. i \in 0 .. n /\ i - 1 \in 0 .. n
        BY <3>2
      <4>2. g[i] = h[i] /\ g[i - 1] = h[i - 1]
        BY <4>1
      <4>3. h[i] = step[<<i, h[i - 1]>>]
        BY <2>1, <3>2, <4>1
      <4> QED BY <3>2, <4>2, <4>3
    <3>3. CASE i = 0
      <4>1. h[0] = s0 /\ g[0] = h[0]
        BY <2>1
      <4> QED BY <3>3, <4>1
    <3> QED BY <3>1, <3>2, <3>3
  <2> HIDE DEF g
  <2>5. Walk(n + 1, g)
    BY <2>3, <2>4
  <2>6. n + 1 \in 0 .. N
    OBVIOUS
  <2> QED BY <2>3, <2>5, <2>6
<1> HIDE DEF T
<1>3. N \in T
  BY <1>1, <1>2, UpTo
<1>4. PICK g \in [0 .. N -> S] : Walk(N, g)
  BY <1>3 DEF T
<1>5. Walking(g, N, S, s0, step)
  BY <1>4 DEF Walking
<1> QED BY <1>5
=============================================================================
