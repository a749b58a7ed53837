--------------------------- MODULE SconfApi_proofs ---------------------------
(***************************************************************************)
(* Proofs about SconfApi: who owns which node, and what an iteration and a *)
(* destroy do, for every program that keeps to the rules.                  *)
(***************************************************************************)
EXTENDS SconfApi, SconfNodes_proofs, SconfInduction, FiniteSetTheorems, TLAPS

-----------------------------------------------------------------------------
(* What is below a node.  Subtree goes down as often as there are nodes;   *)
(* the proofs only use that it is the least set that holds the node and    *)
(* the children of what it holds.                                          *)

Closed(h, S) == \A m \in S, k \in Keys : h[m].kids[k] \in Ids => h[m].kids[k] \in S

(* The sets that Subtree goes through.                                     *)
LEMMA SubtreeDef ==
    ASSUME NEW h, NEW n \in Ids
    PROVE  \E reach \in [0 .. Cardinality(Ids) -> SUBSET Ids] :
              /\ Cardinality(Ids) \in Nat
              /\ reach[0] = {n}
              /\ \A i \in 1 .. Cardinality(Ids) :
                    reach[i] = reach[i - 1] \cup Children(h, reach[i - 1])
              /\ Subtree(h, n) = reach[Cardinality(Ids)]
<1> DEFINE N == Cardinality(Ids)
           S == SUBSET Ids
           step == [x \in (1 .. N) \X S |-> x[2] \cup Children(h, x[2])]
<1>0. N \in Nat /\ {n} \in S
  BY ApiAssumption, FS_CardinalityType
<1>1. Stepping(step, N, S)
  BY DEF Stepping, Children
<1>2. \A i \in 1 .. N, r \in S : step[<<i, r>>] = r \cup Children(h, r)
  OBVIOUS
<1> HIDE DEF step
<1>3. PICK g : Walking(g, N, S, {n}, step)
  <2> HIDE DEF N, S
  <2> QED BY <1>0, <1>1, WalkExists
<1>4. g = [i \in 0 .. N |-> IF i = 0 THEN {n}
                 ELSE LET r == g[i - 1] IN r \cup Children(h, r)]
  <2>1. \A i \in 0 .. N : i # 0 => i \in 1 .. N /\ g[i - 1] \in S
    BY <1>0, <1>3 DEF Walking
  <2>2. \A i \in 0 .. N : i # 0 => g[i] = g[i - 1] \cup Children(h, g[i - 1])
    BY <1>2, <1>3, <2>1 DEF Walking
  <2>3. g = [i \in 0 .. N |-> g[i]] /\ g[0] = {n}
    <3> HIDE DEF N, S
    <3> QED BY <1>3 DEF Walking
  <2> HIDE DEF N, S
  <2> QED BY <2>2, <2>3
<1> DEFINE reach[i \in 0 .. N] ==
             IF i = 0 THEN {n}
             ELSE LET r == reach[i - 1] IN r \cup Children(h, r)
<1>5. reach = [i \in 0 .. N |-> IF i = 0 THEN {n}
                 ELSE LET r == reach[i - 1] IN r \cup Children(h, r)]
  BY <1>4
<1>6. Subtree(h, n) = reach[N]
  BY DEF Subtree
<1> HIDE DEF reach
<1>7. /\ reach[0] = {n}
      /\ \A i \in 1 .. N : reach[i] = reach[i - 1] \cup Children(h, reach[i - 1])
  <2>1. 0 \in 0 .. N /\ \A i \in 1 .. N : i \in 0 .. N /\ i # 0
    BY <1>0
  <2> HIDE DEF N, S
  <2>2. reach[0] = {n}
    BY <1>5, <2>1
  <2>3. \A i \in 0 .. N : i # 0 => reach[i] = reach[i - 1] \cup Children(h, reach[i - 1])
    BY <1>5
  <2> QED BY <2>1, <2>2, <2>3
<1>8. reach \in [0 .. N -> S]
  <2> DEFINE T == {i \in 0 .. N : reach[i] \in S}
  <2>1. 0 \in T
    BY <1>0, <1>7
  <2>2. ASSUME NEW i \in 0 .. N - 1, i \in T PROVE i + 1 \in T
    <3>1. i + 1 \in 1 .. N /\ (i + 1) - 1 = i /\ reach[i] \in S
      BY <1>0, <2>2
    <3>2. reach[i + 1] = reach[i] \cup Children(h, reach[i])
      BY <1>7, <3>1
    <3> QED BY <3>1, <3>2 DEF Children
  <2> HIDE DEF T
  <2>3. \A i \in 0 .. N : i \in T
    BY <1>0, <2>1, <2>2, UpTo
  <2> QED BY <1>5, <2>3 DEF T
<1> HIDE DEF S
<1>9. reach \in [0 .. N -> SUBSET Ids]
  BY <1>8 DEF S
<1> HIDE DEF N
<1> QED BY <1>0, <1>6, <1>7, <1>9 DEF N

(* A set that grows in each of N steps has N members more at the end.      *)
LEMMA SubtreeClosed ==
    ASSUME NEW h, NEW n \in Ids
    PROVE  /\ n \in Subtree(h, n) /\ Subtree(h, n) \subseteq Ids
           /\ Closed(h, Subtree(h, n))
<1> DEFINE N == Cardinality(Ids)
<1>1. PICK reach \in [0 .. N -> SUBSET Ids] :
              /\ N \in Nat
              /\ reach[0] = {n}
              /\ \A i \in 1 .. N : reach[i] = reach[i - 1] \cup Children(h, reach[i - 1])
              /\ Subtree(h, n) = reach[N]
  BY SubtreeDef, ZenonT(30)
<1> DEFINE T == {i \in 0 .. N :
                    /\ n \in reach[i]
                    /\ Closed(h, reach[i]) \/ Cardinality(reach[i]) >= i + 1}
<1>0. \A A \in SUBSET Ids : IsFiniteSet(A) /\ Cardinality(A) \in Nat /\ Cardinality(A) <= N
  BY ApiAssumption, FS_Subset, FS_CardinalityType
<1> HIDE DEF N
<1>2. 0 \in T
  <2>1. Cardinality(reach[0]) = 1
    BY <1>1, FS_Singleton
  <2>2. Cardinality(reach[0]) >= 0 + 1 /\ n \in reach[0] /\ 0 \in 0 .. N
    BY <1>1, <2>1
  <2> QED BY <2>2
<1>3. ASSUME NEW i \in 0 .. N - 1, i \in T PROVE i + 1 \in T
  <2>1. i + 1 \in 1 .. N /\ i + 1 \in 0 .. N /\ (i + 1) - 1 = i /\ i \in 0 .. N
    BY <1>1
  <2> DEFINE A == reach[i]
             B == reach[i + 1]
  <2>2. /\ A \in SUBSET Ids /\ B \in SUBSET Ids /\ B = A \cup Children(h, A)
        /\ n \in A /\ (Closed(h, A) \/ Cardinality(A) >= i + 1)
    BY <1>1, <1>3, <2>1
  <2> HIDE DEF A, B
  <2>3. CASE Closed(h, A)
    <3>1. B = A
      BY <2>2, <2>3 DEF Closed, Children
    <3> QED BY <2>1, <2>2, <2>3, <3>1 DEF A, B
  <2>4. CASE ~Closed(h, A)
    <3>1. PICK x \in B : x \notin A
      BY <2>2, <2>4 DEF Closed, Children
    <3>2. Cardinality(A \cup {x}) = Cardinality(A) + 1 /\ IsFiniteSet(A)
      BY <1>0, <2>2, <3>1, FS_AddElement
    <3>3. A \cup {x} \in SUBSET B /\ IsFiniteSet(B)
      BY <1>0, <2>2, <3>1
    <3>4. Cardinality(A \cup {x}) <= Cardinality(B)
      BY <3>3, FS_Subset
    <3>5. Cardinality(A) \in Nat /\ Cardinality(B) \in Nat
      BY <1>0, <2>2
    <3>6. Cardinality(B) >= (i + 1) + 1
      BY <2>1, <2>2, <2>4, <3>2, <3>4, <3>5
    <3>7. n \in B
      BY <2>2
    <3> QED BY <2>1, <3>6, <3>7 DEF B
  <2> QED BY <2>3, <2>4
<1> HIDE DEF T
<1>4. \A i \in 0 .. N : i \in T
  BY <1>1, <1>2, <1>3, UpTo
<1>5. N \in T /\ N \in 0 .. N /\ reach[N] \in SUBSET Ids
  BY <1>1, <1>4
<1>6. n \in reach[N] /\ (Closed(h, reach[N]) \/ Cardinality(reach[N]) >= N + 1)
  BY <1>5 DEF T
<1>7. ~(Cardinality(reach[N]) >= N + 1)
  <2>1. Cardinality(reach[N]) \in Nat /\ Cardinality(reach[N]) <= N
    BY <1>0, <1>5
  <2> QED BY <1>1, <2>1
<1> QED BY <1>1, <1>5, <1>6, <1>7

(* Nothing else is in Subtree.                                             *)
LEMMA SubtreeLeast ==
    ASSUME NEW h, NEW n \in Ids, NEW C, n \in C, Closed(h, C)
    PROVE  Subtree(h, n) \subseteq C
<1> DEFINE N == Cardinality(Ids)
<1>1. PICK reach \in [0 .. N -> SUBSET Ids] :
              /\ N \in Nat
              /\ reach[0] = {n}
              /\ \A i \in 1 .. N : reach[i] = reach[i - 1] \cup Children(h, reach[i - 1])
              /\ Subtree(h, n) = reach[N]
  BY SubtreeDef, ZenonT(30)
<1> DEFINE T == {i \in 0 .. N : reach[i] \subseteq C}
<1> HIDE DEF N
<1>2. 0 \in T
  BY <1>1
<1>3. ASSUME NEW i \in 0 .. N - 1, i \in T PROVE i + 1 \in T
  <2>1. i + 1 \in 1 .. N /\ i + 1 \in 0 .. N /\ (i + 1) - 1 = i
    BY <1>1
  <2>2. reach[i + 1] = reach[i] \cup Children(h, reach[i]) /\ reach[i] \subseteq C
    BY <1>1, <1>3, <2>1
  <2> QED BY <2>1, <2>2 DEF Children, Closed
<1> HIDE DEF T
<1>4. \A i \in 0 .. N : i \in T
  BY <1>1, <1>2, <1>3, UpTo
<1>5. N \in T
  BY <1>1, <1>4
<1> QED BY <1>1, <1>5 DEF T

(* What is below a node but not the node itself is held by something that  *)
(* is below it.                                                            *)
LEMMA SubtreeHolder ==
    ASSUME NEW h, NEW n \in Ids, NEW m \in Subtree(h, n), m # n
    PROVE  \E p \in Subtree(h, n), k \in Keys : h[p].kids[k] = m
<1> SUFFICES ASSUME \A p \in Subtree(h, n), k \in Keys : h[p].kids[k] # m
             PROVE  FALSE
  OBVIOUS
<1> DEFINE C == Subtree(h, n) \ {m}
<1>1. n \in C /\ Closed(h, C)
  BY SubtreeClosed DEF Closed
<1> HIDE DEF C
<1>2. Subtree(h, n) \subseteq C
  BY <1>1, SubtreeLeast
<1> QED BY <1>2 DEF C

(* What is below something below a node is below the node.                 *)
LEMMA SubtreeWithin ==
    ASSUME NEW h, NEW n \in Ids, NEW m \in Subtree(h, n)
    PROVE  Subtree(h, m) \subseteq Subtree(h, n)
  BY SubtreeClosed, SubtreeLeast

(* The children two heaps give to a node are the same.                     *)
SameKids(h, h2, m) ==
    \A k \in Keys : h[m].kids[k] \in Ids \/ h2[m].kids[k] \in Ids =>
                        h2[m].kids[k] = h[m].kids[k]

(* What is below a node depends only on the children of what is.           *)
LEMMA SubtreeSame ==
    ASSUME NEW h, NEW h2, NEW n \in Ids,
           \A m \in Subtree(h, n) : SameKids(h, h2, m)
    PROVE  Subtree(h2, n) = Subtree(h, n)
<1> DEFINE A == Subtree(h, n)
           B == Subtree(h2, n)
<1>1. n \in A /\ Closed(h, A) /\ n \in B /\ Closed(h2, B)
  BY SubtreeClosed
<1>2. Closed(h2, A)
  BY <1>1 DEF Closed, SameKids
<1>3. B \subseteq A
  BY <1>1, <1>2, SubtreeLeast
<1>4. Closed(h, B)
  BY <1>1, <1>3 DEF Closed, SameKids
<1>5. A \subseteq B
  BY <1>1, <1>4, SubtreeLeast
<1> QED BY <1>3, <1>5

-----------------------------------------------------------------------------
(* Ownership.  While sconf_node_destroy runs, the nodes D that it frees    *)
(* are neither the program's nor in anything but each other; afterwards D  *)
(* is empty.                                                               *)

Acyclic(h) ==
    \A n \in Ids, k \in Keys :
        h[n].kids[k] \in Ids => n \notin Subtree(h, h[n].kids[k])

Rooted(h, own, D) ==
    \A n \in Ids \ D : Live(h, n) => \E r \in own : n \in Subtree(h, r)

Ownership(h, own, D) ==
    /\ own \subseteq Ids \ D
    /\ \A n \in own : Live(h, n)
    /\ \A n \in Ids, k \in Keys : h[n].kids[k] \in Ids =>
          /\ Live(h, n)
          /\ h[n].kids[k] \notin own
          /\ n \in D <=> h[n].kids[k] \in D
          /\ n \notin D => Live(h, h[n].kids[k])
    /\ OneParent(h)
    /\ Acyclic(h)
    /\ Rooted(h, own, D)

(* Grafted: n is put into a slot of p; nothing else gets or loses a child. *)
Grafted(h, h2, p, k, n) ==
    /\ p \in Ids /\ k \in Keys /\ n \in Ids
    /\ h2[p].kids[k] = n
    /\ \A m \in Ids : Live(h2, m) <=> Live(h, m)
    /\ \A m \in Ids, j \in Keys : <<m, j>> # <<p, k>> =>
          (h[m].kids[j] \in Ids \/ h2[m].kids[j] \in Ids =>
              h2[m].kids[j] = h[m].kids[j])

(* A node put into a slot is the program's no longer; what was in the slot *)
(* before is again.                                                        *)
LEMMA GraftOwnership ==
    ASSUME NEW h, NEW h2, NEW own, NEW p, NEW k, NEW n,
           Ownership(h, own, {}), Grafted(h, h2, p, k, n),
           Live(h, p), n \in own, p \notin Subtree(h, n)
    PROVE  Ownership(h2, (own \ {n}) \cup ({h[p].kids[k]} \cap Ids), {})
<1> DEFINE d    == h[p].kids[k]
           own2 == (own \ {n}) \cup ({d} \cap Ids)
<1>0. /\ p \in Ids /\ k \in Keys /\ n \in Ids
      /\ own \subseteq Ids /\ \A m \in own : Live(h, m)
      /\ d \in Ids => Live(h, d) /\ d # n
      /\ own2 \subseteq Ids
  BY DEF Ownership, Grafted
<1>1. \A m \in Ids, j \in Keys : h[m].kids[j] \in Ids =>
          /\ Live(h, m) /\ Live(h, h[m].kids[j]) /\ h[m].kids[j] \notin own
          /\ <<m, j>> # <<p, k>> => h[m].kids[j] # d
  <2>1. \A m \in Ids, j \in Keys : h[m].kids[j] \in Ids =>
            Live(h, m) /\ Live(h, h[m].kids[j]) /\ h[m].kids[j] \notin own
    BY DEF Ownership
  <2>2. OneParent(h)
    BY DEF Ownership
  <2> QED BY <1>0, <2>1, <2>2 DEF OneParent
<1>2. \A m \in Ids, j \in Keys : h2[m].kids[j] \in Ids =>
          \/ m = p /\ j = k /\ h2[m].kids[j] = n
          \/ /\ <<m, j>> # <<p, k>>
             /\ h2[m].kids[j] = h[m].kids[j] /\ h[m].kids[j] \in Ids
  BY DEF Grafted
<1>3. \A m \in Ids : Live(h2, m) <=> Live(h, m)
  BY DEF Grafted
<1>4. \A m \in own2 : Live(h2, m)
  BY <1>0, <1>3
<1>5. \A m \in Ids, j \in Keys : h2[m].kids[j] \in Ids =>
          Live(h2, m) /\ Live(h2, h2[m].kids[j]) /\ h2[m].kids[j] \notin own2
  <2> SUFFICES ASSUME NEW m \in Ids, NEW j \in Keys, h2[m].kids[j] \in Ids
               PROVE  /\ Live(h2, m) /\ Live(h2, h2[m].kids[j])
                      /\ h2[m].kids[j] \notin own2
    OBVIOUS
  <2>1. CASE m = p /\ j = k /\ h2[m].kids[j] = n
    BY <1>0, <1>3, <2>1
  <2>2. CASE /\ <<m, j>> # <<p, k>>
             /\ h2[m].kids[j] = h[m].kids[j] /\ h[m].kids[j] \in Ids
    BY <1>0, <1>1, <1>3, <2>2
  <2> QED BY <1>2, <2>1, <2>2
<1>6. OneParent(h2)
  <2> SUFFICES ASSUME NEW m \in Ids, NEW q \in Ids, NEW j \in Keys, NEW l \in Keys,
                      h2[m].kids[j] \in Ids, h2[m].kids[j] = h2[q].kids[l]
               PROVE  m = q /\ j = l
    BY DEF OneParent
  <2>1. h[m].kids[j] \in Ids /\ h[m].kids[j] = h[q].kids[l] => m = q /\ j = l
    BY DEF Ownership, OneParent
  <2>2. n \in own
    OBVIOUS
  <2> QED BY <1>1, <1>2, <2>1, <2>2
<1>7. ASSUME NEW r \in Ids
      PROVE  Closed(h2, Subtree(h, r) \cup Subtree(h, n))
  <2>1. Closed(h, Subtree(h, r)) /\ Closed(h, Subtree(h, n)) /\ n \in Subtree(h, n)
        /\ Subtree(h, r) \subseteq Ids /\ Subtree(h, n) \subseteq Ids
    BY <1>0, SubtreeClosed
  <2> QED BY <1>2, <2>1 DEF Closed
<1>8. ASSUME NEW r \in Ids, p \notin Subtree(h, r)
      PROVE  Subtree(h2, r) \subseteq Subtree(h, r)
  <2>1. Closed(h, Subtree(h, r)) /\ r \in Subtree(h, r) /\ Subtree(h, r) \subseteq Ids
    BY SubtreeClosed
  <2>2. Closed(h2, Subtree(h, r))
    BY <1>2, <1>8, <2>1 DEF Closed
  <2> HIDE DEF Closed
  <2> QED BY <2>1, <2>2, SubtreeLeast
<1>9. ASSUME NEW r \in Ids
      PROVE  Subtree(h2, r) \subseteq Subtree(h, r) \cup Subtree(h, n)
  <2>1. r \in Subtree(h, r)
    BY SubtreeClosed
  <2> QED BY <1>7, <2>1, SubtreeLeast
<1>10. Acyclic(h2)
  <2> SUFFICES ASSUME NEW m \in Ids, NEW j \in Keys, h2[m].kids[j] \in Ids,
                      m \in Subtree(h2, h2[m].kids[j])
               PROVE  FALSE
    BY DEF Acyclic
  <2>1. CASE m = p /\ j = k /\ h2[m].kids[j] = n
    BY <1>0, <1>8, <2>1
  <2>2. CASE /\ <<m, j>> # <<p, k>>
             /\ h2[m].kids[j] = h[m].kids[j] /\ h[m].kids[j] \in Ids
    <3> DEFINE c == h[m].kids[j]
    <3>1. c \in Ids /\ m \in Subtree(h2, c)
      BY <2>2
    <3>2. m \notin Subtree(h, c)
      BY <2>2 DEF Ownership, Acyclic
    <3> HIDE DEF c
    <3>3. m \in Subtree(h, n) /\ p \in Subtree(h, c)
      BY <1>8, <1>9, <3>1, <3>2
    <3>4. c \in Subtree(h, n)
      BY <1>0, <2>2, <3>1, <3>3, SubtreeClosed DEF c, Closed
    <3>5. Subtree(h, c) \subseteq Subtree(h, n)
      BY <1>0, <3>4, SubtreeWithin
    <3> QED BY <3>3, <3>5
  <2> QED BY <1>2, <2>1, <2>2
<1>11. Rooted(h2, own2, {})
  <2> DEFINE Below(m) == \E r \in own2 : m \in Subtree(h2, r)
  <2>1. ASSUME NEW r \in Ids, NEW m \in Subtree(h, r)
        PROVE  m \in Subtree(h2, r) \/ (d \in Ids /\ m \in Subtree(h2, d))
    <3> DEFINE C == Subtree(h2, r) \cup (IF d \in Ids THEN Subtree(h2, d) ELSE {})
    <3>1. r \in C /\ C \subseteq Ids
      BY SubtreeClosed
    <3>2. Closed(h, C)
      <4>1. /\ Closed(h2, Subtree(h2, r))
            /\ d \in Ids => Closed(h2, Subtree(h2, d)) /\ d \in Subtree(h2, d)
        BY SubtreeClosed
      <4>2. \A q \in Ids, j \in Keys : h[q].kids[j] \in Ids =>
                h[q].kids[j] = d \/ h2[q].kids[j] = h[q].kids[j]
        BY DEF Grafted
      <4> HIDE DEF d
      <4> QED BY <3>1, <4>1, <4>2 DEF Closed
    <3> HIDE DEF C
    <3>3. Subtree(h, r) \subseteq C
      BY <3>1, <3>2, SubtreeLeast
    <3> QED BY <3>3 DEF C
  <2>2. d \in Ids => d \in own2
    OBVIOUS
  <2>3. ASSUME NEW m \in Ids, NEW r \in own, r # n, m \in Subtree(h, r)
        PROVE  Below(m)
    <3>1. r \in Ids /\ r \in own2
      BY <1>0, <2>3
    <3> HIDE DEF own2, d
    <3> QED BY <2>1, <2>2, <2>3, <3>1
  <2>4. Below(n)
    <3>1. PICK r \in own : p \in Subtree(h, r)
      BY <1>0 DEF Ownership, Rooted
    <3>2. r # n
      BY <3>1
    <3>3. Below(p)
      BY <1>0, <2>3, <3>1, <3>2
    <3>4. PICK s \in own2 : p \in Subtree(h2, s)
      BY <3>3
    <3>5. n \in Subtree(h2, s)
      BY <1>0, <3>4, SubtreeClosed DEF Closed, Grafted
    <3> QED BY <3>5
  <2>5. ASSUME NEW m \in Ids, m \in Subtree(h, n)
        PROVE  Below(m)
    <3>1. CASE m \in Subtree(h2, n)
      <4>1. PICK s \in own2 : n \in Subtree(h2, s)
        BY <2>4
      <4>2. Subtree(h2, n) \subseteq Subtree(h2, s)
        BY <1>0, <4>1, SubtreeWithin
      <4> QED BY <3>1, <4>2
    <3>2. CASE d \in Ids /\ m \in Subtree(h2, d)
      BY <2>2, <3>2
    <3> QED BY <1>0, <2>1, <2>5, <3>1, <3>2
  <2>6. ASSUME NEW m \in Ids, Live(h2, m) PROVE Below(m)
    <3>1. PICK r \in own : m \in Subtree(h, r)
      BY <1>3, <2>6 DEF Ownership, Rooted
    <3> QED BY <2>3, <2>5, <3>1
  <2> QED BY <2>6 DEF Rooted
<1> HIDE DEF own2
<1>12. Ownership(h2, own2, {})
  BY <1>0, <1>4, <1>5, <1>6, <1>10, <1>11 DEF Ownership
<1> QED BY <1>12 DEF own2

(* Where no child moves and no node comes or goes, nothing changes hands.  *)
LEMMA SameOwnership ==
    ASSUME NEW h, NEW h2, NEW own, NEW D, Ownership(h, own, D),
           \A m \in Ids : SameKids(h, h2, m) /\ (Live(h2, m) <=> Live(h, m))
    PROVE  Ownership(h2, own, D)
<1>1. \A n \in Ids : Subtree(h2, n) = Subtree(h, n)
  <2> SUFFICES ASSUME NEW n \in Ids PROVE Subtree(h2, n) = Subtree(h, n)
    OBVIOUS
  <2>1. Subtree(h, n) \subseteq Ids
    BY SubtreeClosed
  <2> QED BY <2>1, SubtreeSame
<1>2. \A n \in Ids, k \in Keys : h2[n].kids[k] \in Ids =>
          h2[n].kids[k] = h[n].kids[k] /\ h[n].kids[k] \in Ids
  BY DEF SameKids
<1>3. OneParent(h2)
  BY <1>2 DEF Ownership, OneParent
<1>4. Acyclic(h2)
  BY <1>1, <1>2 DEF Ownership, Acyclic
<1>5. own \subseteq Ids
  BY DEF Ownership
<1>6. Rooted(h2, own, D)
  BY <1>1, <1>5 DEF Ownership, Rooted
<1>7. own \subseteq Ids \ D /\ \A n \in own : Live(h2, n)
  BY <1>5 DEF Ownership
<1>8. \A n \in Ids, k \in Keys : h2[n].kids[k] \in Ids =>
          /\ Live(h2, n)
          /\ h2[n].kids[k] \notin own
          /\ n \in D <=> h2[n].kids[k] \in D
          /\ n \notin D => Live(h2, h2[n].kids[k])
  BY <1>2 DEF Ownership
<1> QED BY <1>3, <1>4, <1>6, <1>7, <1>8 DEF Ownership

(* A node that is created is the program's.                                *)
Created(h, h2, n) ==
    /\ n \in Ids /\ ~Live(h, n) /\ Live(h2, n)
    /\ \A k \in Keys : h2[n].kids[k] \notin Ids
    /\ \A m \in Ids \ {n} : SameKids(h, h2, m) /\ (Live(h2, m) <=> Live(h, m))

(* sconf_node_create gives the program one node more.                      *)
LEMMA CreateOwnership ==
    ASSUME NEW h, NEW h2, NEW own, NEW n,
           Ownership(h, own, {}), Created(h, h2, n)
    PROVE  Ownership(h2, own \cup {n}, {})
<1>0. /\ n \in Ids /\ ~Live(h, n) /\ Live(h2, n) /\ own \subseteq Ids
      /\ \A m \in own : Live(h, m)
  BY DEF Created, Ownership
<1>1. \A m \in Ids : SameKids(h, h2, m)
  BY DEF Created, SameKids, Ownership
<1>2. \A m \in Ids : Live(h2, m) <=> (Live(h, m) \/ m = n)
  BY DEF Created
<1>3. \A m \in Ids : Subtree(h2, m) = Subtree(h, m)
  <2> SUFFICES ASSUME NEW m \in Ids PROVE Subtree(h2, m) = Subtree(h, m)
    OBVIOUS
  <2>1. Subtree(h, m) \subseteq Ids
    BY SubtreeClosed
  <2> QED BY <1>1, <2>1, SubtreeSame
<1>4. \A m \in Ids, k \in Keys : h2[m].kids[k] \in Ids =>
          h2[m].kids[k] = h[m].kids[k] /\ h[m].kids[k] \in Ids
  BY <1>1 DEF SameKids
<1>5. \A m \in Ids, k \in Keys : h2[m].kids[k] \in Ids =>
          Live(h2, m) /\ Live(h2, h2[m].kids[k]) /\ h2[m].kids[k] \notin own \cup {n}
  BY <1>0, <1>2, <1>4 DEF Ownership
<1>6. OneParent(h2)
  BY <1>4 DEF Ownership, OneParent
<1>7. Acyclic(h2)
  BY <1>3, <1>4 DEF Ownership, Acyclic
<1>8. Rooted(h2, own \cup {n}, {})
  <2> SUFFICES ASSUME NEW m \in Ids, Live(h2, m)
               PROVE  \E r \in own \cup {n} : m \in Subtree(h2, r)
    BY DEF Rooted
  <2>1. CASE m = n
    BY <1>0, <2>1, SubtreeClosed
  <2>2. CASE m # n
    <3>1. PICK r \in own : m \in Subtree(h, r)
      BY <1>2, <2>2 DEF Ownership, Rooted
    <3> QED BY <1>0, <1>3, <3>1
  <2> QED BY <2>1, <2>2
<1>9. own \cup {n} \subseteq Ids /\ \A m \in own \cup {n} : Live(h2, m)
  BY <1>0, <1>2
<1> QED BY <1>5, <1>6, <1>7, <1>8, <1>9 DEF Ownership

(* A destroy takes what is below a node of the program's, and nothing of   *)
(* what is below another.                                                  *)
LEMMA DestroyOwnership ==
    ASSUME NEW h, NEW own, NEW n \in own, Ownership(h, own, {})
    PROVE  Ownership(h, own \ {n}, Subtree(h, n))
<1> DEFINE D == Subtree(h, n)
<1>0. n \in Ids /\ own \subseteq Ids
  BY DEF Ownership
<1>1. n \in D /\ D \subseteq Ids /\ Closed(h, D)
  BY <1>0, SubtreeClosed
<1>2. \A m \in D : m # n => \E p \in D, k \in Keys : h[p].kids[k] = m
  BY <1>0, SubtreeHolder
<1> HIDE DEF D
<1>3. \A m \in Ids, k \in Keys : h[m].kids[k] \in Ids =>
          Live(h, m) /\ Live(h, h[m].kids[k]) /\ h[m].kids[k] \notin own
  BY DEF Ownership
<1>4. \A m \in Ids, k \in Keys : h[m].kids[k] \in Ids => (m \in D <=> h[m].kids[k] \in D)
  <2> SUFFICES ASSUME NEW m \in Ids, NEW k \in Keys, h[m].kids[k] \in D
               PROVE  m \in D
    BY <1>1 DEF Closed
  <2>1. h[m].kids[k] # n /\ h[m].kids[k] \in Ids
    BY <1>1, <1>3
  <2>2. PICK p \in D, j \in Keys : h[p].kids[j] = h[m].kids[k]
    BY <1>2, <2>1
  <2>3. p = m
    BY <1>1, <2>1, <2>2 DEF Ownership, OneParent
  <2> QED BY <2>3
<1>5. own \ {n} \subseteq Ids \ D
  <2> SUFFICES ASSUME NEW m \in own, m # n, m \in D PROVE FALSE
    BY <1>0
  <2>1. PICK p \in D, k \in Keys : h[p].kids[k] = m
    BY <1>2
  <2> QED BY <1>0, <1>1, <1>3, <2>1
<1>6. Rooted(h, own \ {n}, D)
  BY DEF D, Ownership, Rooted
<1> HIDE DEF Acyclic, OneParent
<1>7. OneParent(h) /\ Acyclic(h) /\ \A m \in own : Live(h, m)
  BY DEF Ownership
<1>8. Ownership(h, own \ {n}, D)
  BY <1>3, <1>4, <1>5, <1>6, <1>7 DEF Ownership
<1> QED BY <1>8 DEF D

(* Freeing a node of D leaves the rest alone.                              *)
Freed(h, h2, t) ==
    /\ t \in Ids /\ ~Live(h2, t)
    /\ \A k \in Keys : h2[t].kids[k] \notin Ids
    /\ \A m \in Ids \ {t} : h2[m] = h[m]

(* Without t, less is below a node, and as much where t was not.           *)
LEMMA SubtreeFreed ==
    ASSUME NEW h, NEW h2, NEW t, Freed(h, h2, t), NEW n \in Ids
    PROVE  /\ Subtree(h2, n) \subseteq Subtree(h, n)
           /\ t \notin Subtree(h, n) => Subtree(h2, n) = Subtree(h, n)
<1>1. n \in Subtree(h, n) /\ Subtree(h, n) \subseteq Ids /\ Closed(h, Subtree(h, n))
  BY SubtreeClosed
<1>2. Closed(h2, Subtree(h, n))
  BY <1>1 DEF Closed, Freed
<1>3. Subtree(h2, n) \subseteq Subtree(h, n)
  BY <1>1, <1>2, SubtreeLeast
<1>4. ASSUME t \notin Subtree(h, n) PROVE Subtree(h2, n) = Subtree(h, n)
  <2>1. \A m \in Subtree(h, n) : SameKids(h, h2, m)
    BY <1>1, <1>4 DEF Freed, SameKids
  <2> QED BY <2>1, SubtreeSame
<1> QED BY <1>3, <1>4

(* Freeing a doomed node changes nothing for the others.                   *)
LEMMA FreeOwnership ==
    ASSUME NEW h, NEW h2, NEW own, NEW D, NEW t,
           Ownership(h, own, D), Freed(h, h2, t), t \in D
    PROVE  Ownership(h2, own, D)
<1>1. \A m \in Ids, k \in Keys : h2[m].kids[k] \in Ids =>
          m # t /\ h2[m] = h[m] /\ h2[m].kids[k] = h[m].kids[k]
  BY DEF Freed
<1>2. \A m \in Ids : Live(h2, m) <=> Live(h, m) /\ m # t
  BY DEF Freed, Live
<1>3. own \subseteq Ids \ D /\ \A m \in own : Live(h2, m)
  BY <1>2 DEF Ownership
<1>4. \A m \in Ids, k \in Keys : h2[m].kids[k] \in Ids =>
          /\ Live(h2, m)
          /\ h2[m].kids[k] \notin own
          /\ m \in D <=> h2[m].kids[k] \in D
          /\ m \notin D => Live(h2, h2[m].kids[k])
  BY <1>1, <1>2 DEF Ownership
<1>5. OneParent(h2)
  BY <1>1 DEF Ownership, OneParent
<1>6. Acyclic(h2)
  BY <1>1, SubtreeFreed DEF Ownership, Acyclic
<1>7. Rooted(h2, own, D)
  <2> SUFFICES ASSUME NEW m \in Ids \ D, Live(h2, m)
               PROVE  \E r \in own : m \in Subtree(h2, r)
    BY DEF Rooted
  <2>1. PICK r \in own : m \in Subtree(h, r)
    BY <1>2 DEF Ownership, Rooted
  <2>2. r \in Ids \ D /\ Closed(h, Ids \ D)
    BY DEF Ownership, Closed
  <2>3. t \notin Subtree(h, r)
    BY <2>2, SubtreeLeast
  <2> QED BY <2>1, <2>2, <2>3, SubtreeFreed
<1> QED BY <1>3, <1>4, <1>5, <1>6, <1>7 DEF Ownership

(* When all of D is freed, what is left is owned as ever.                  *)
LEMMA DestroyedOwnership ==
    ASSUME NEW h, NEW own, NEW D, Ownership(h, own, D),
           \A n \in D : ~Live(h, n)
    PROVE  Ownership(h, own, {})
<1>1. \A n \in Ids, k \in Keys : h[n].kids[k] \in Ids =>
          Live(h, n) /\ h[n].kids[k] \notin own /\ Live(h, h[n].kids[k])
  BY DEF Ownership
<1>2. own \subseteq Ids \ {} /\ (\A n \in own : Live(h, n))
      /\ OneParent(h) /\ Acyclic(h) /\ Rooted(h, own, D)
  BY DEF Ownership
<1>3. Rooted(h, own, {})
  BY <1>2 DEF Rooted
<1> HIDE DEF OneParent, Acyclic, Rooted
<1> QED BY <1>1, <1>2, <1>3 DEF Ownership

(* What OneOwner says of the program's nodes and of the parents of others. *)
LEMMA OwnershipMeans ==
    ASSUME NEW own, NEW D, NEW h, h = heap, Ownership(h, own, D)
    PROVE  LET live == {n \in Ids : Live(h, n)} \ D
           IN  /\ own = {n \in live : Parents(n) = {}}
               /\ \A n \in live \ own : Cardinality(Parents(n)) = 1
               /\ live = UNION {Subtree(h, r) : r \in own}
<1> DEFINE live == {n \in Ids : Live(h, n)} \ D
<1>1. own \subseteq live
  BY DEF Ownership
<1>2. ASSUME NEW n \in own PROVE Parents(n) = {}
  BY <1>1, <1>2 DEF Ownership, Parents
<1>3. ASSUME NEW n \in live \ own
      PROVE  Cardinality(Parents(n)) = 1 /\ Parents(n) # {}
  <2>1. PICK r \in own : n \in Subtree(h, r)
    BY DEF Ownership, Rooted
  <2>2. r \in Ids /\ n # r
    BY <1>1, <2>1
  <2>3. Subtree(h, r) \subseteq Ids
    BY <2>2, SubtreeClosed
  <2>4. PICK p \in Ids, k \in Keys : h[p].kids[k] = n
    BY <2>1, <2>2, <2>3, SubtreeHolder
  <2>5. \A q \in Ids, j \in Keys : h[q].kids[j] = n => q = p /\ j = k
    BY <2>4 DEF Ownership, OneParent
  <2>6. Parents(n) = {<<p, k>>}
    BY <2>4, <2>5 DEF Parents
  <2> QED BY <2>6, FS_Singleton
<1>4. ASSUME NEW r \in own PROVE Subtree(h, r) \subseteq live
  <2>1. r \in live /\ Closed(h, live)
    BY <1>1 DEF Ownership, Closed
  <2> HIDE DEF live
  <2>2. r \in Ids
    BY DEF Ownership
  <2> QED BY <2>1, <2>2, SubtreeLeast
<1>5. \A n \in live : \E r \in own : n \in Subtree(h, r)
  BY DEF Ownership, Rooted
<1>6. live = UNION {Subtree(h, r) : r \in own}
  <2> HIDE DEF live
  <2> QED BY <1>4, <1>5
<1>7. own = {n \in live : Parents(n) = {}}
  <2> HIDE DEF live
  <2> QED BY <1>1, <1>2, <1>3
<1> QED BY <1>3, <1>6, <1>7

-----------------------------------------------------------------------------
(* What a call does to the heap.                                           *)

(* A node that is no array has nothing in the slots of one.                *)
Plain(h) ==
    \A n \in Ids, k \in Indexes : h[n].type # "array" => h[n].kids[k] = NULL

Sound(h) == h \in Heaps /\ Slots(h) /\ Plain(h)

(* What a node holds is what it holds nodes under.                         *)
LEMMA FilledMeans ==
    ASSUME NEW h, Sound(h), NEW n \in Ids
    PROVE  /\ Filled(h, n) = {k \in Keys : h[n].kids[k] \in Ids}
           /\ h[n].type = "array" => Filled(h, n) \subseteq Indexes
           /\ h[n].type # "array" => Filled(h, n) \subseteq Tokens
<1>1. /\ h[n] \in Cell /\ CellSlots(h[n])
      /\ \A k \in Indexes : h[n].type # "array" => h[n].kids[k] = NULL
  BY DEF Sound, Slots, Plain, Heaps
<1>2. h[n].kids \in [Keys -> Ids \cup {NULL, UNINIT}] /\ h[n].size \in Nat
      /\ Indexes \subseteq Nat
  BY <1>1, IndexAssumption DEF Cell, Indexes
<1>3. ASSUME NEW k \in Keys, h[n].kids[k] \in Ids
      PROVE  /\ h[n].kids[k] # NULL
             /\ h[n].type = "array" => k \in Indexes /\ k < h[n].size
             /\ h[n].type # "array" => k \in Tokens
  <2>1. h[n].kids[k] # NULL
    BY <1>3, IdsAssumption
  <2>2. CASE k \in Tokens
    BY <1>1, <1>3, <2>1, <2>2 DEF CellSlots
  <2>3. CASE k \in Indexes
    BY <1>1, <1>2, <1>3, <2>1, <2>3 DEF CellSlots
  <2> QED BY <2>2, <2>3 DEF Keys
<1>4. ASSUME NEW k \in Keys, h[n].kids[k] # NULL, h[n].type = "array" => k < h[n].size
      PROVE  h[n].kids[k] \in Ids
  <2>1. CASE k \in Tokens
    BY <1>1, <1>2, <1>4, <2>1 DEF CellSlots
  <2>2. CASE k \in Indexes
    BY <1>1, <1>2, <1>4, <2>2 DEF CellSlots
  <2> QED BY <2>1, <2>2 DEF Keys
<1> QED BY <1>3, <1>4 DEF Filled

(* sconf_node_create, sconf_node_destroy, the dictionary and the array     *)
(* keep nodes plain.                                                       *)
LEMMA CreatePlain ==
    ASSUME NEW h \in Heaps, Plain(h), NEW n \in Ids,
           NEW type \in NodeTypes, NEW data \in Values \cup {NULL}
    PROVE  Plain(Create(h, n, type, data))
<1>1. Indexes \subseteq Keys
  BY DEF Keys
<1>2. /\ NewCell(type, data).type = type
      /\ \A k \in Indexes : type # "array" => NewCell(type, data).kids[k] = NULL
  BY <1>1, NewCellType
<1>3. Create(h, n, type, data) = [h EXCEPT ![n] = NewCell(type, data)]
  BY DEF Create
<1> HIDE DEF Plain
<1>4. \A m \in Ids : Create(h, n, type, data)[m] = IF m = n THEN NewCell(type, data) ELSE h[m]
  BY <1>3 DEF Heaps
<1> QED BY <1>2, <1>4 DEF Plain

(* sconf_node_destroy.                                                     *)
LEMMA ReleasePlain ==
    ASSUME NEW h, DOMAIN h = Ids, Plain(h), NEW n \in Ids
    PROVE  Plain(Release(h, n))
<1>1. \A m \in Ids : Release(h, n)[m] = IF m = n THEN FreeCell ELSE h[m]
  BY DEF Release
<1>2. \A k \in Indexes : FreeCell.kids[k] = NULL
  BY DEF FreeCell, Keys
<1> QED BY <1>1, <1>2 DEF Plain

(* sconf_node_dict_insert.                                                 *)
LEMMA DictPlain ==
    ASSUME NEW h \in Heaps, Plain(h), NEW p \in Ids, NEW name \in Tokens, NEW n
    PROVE  Plain([h EXCEPT ![p].kids[name] = n])
<1>1. \A k \in Indexes : k # name /\ k \in Keys
  BY TokensAssumption, IndexAssumption DEF Indexes, Keys
<1>2. \A m \in Ids : h[m] \in Cell
  BY DEF Heaps
<1> DEFINE h2 == [h EXCEPT ![p].kids[name] = n]
<1>3. \A m \in Ids : h2[m].type = h[m].type /\ \A k \in Indexes : h2[m].kids[k] = h[m].kids[k]
  BY <1>1, <1>2 DEF Heaps, Cell
<1> HIDE DEF h2
<1>4. Plain(h2)
  BY <1>3 DEF Plain
<1> QED BY <1>4 DEF h2

(* sconf_node_array_insert, on all of its ways out.                        *)
LEMMA ArrayPlain ==
    ASSUME NEW h \in Heaps, Plain(h), NEW p \in Ids, h[p].type = "array",
           NEW i, NEW n, NEW fault
    PROVE  /\ Plain(ArrayInsert(h, i, p, n, fault).heap)
           /\ DOMAIN ArrayInsert(h, i, p, n, fault).heap = Ids
<1> DEFINE needed == (i + 1) % UIntMod
           h1 == ArrayGrow(h, p, needed)
           h2 == IF needed > h[p].size THEN h1 ELSE h
           h3 == [h2 EXCEPT ![p].kids[i] = n]
<1>1. \A m \in Ids : h[m] \in Cell
  BY DEF Heaps
<1>2. DOMAIN h1 = Ids /\ \A m \in Ids \ {p} : h1[m] = h[m]
  BY DEF ArrayGrow, Heaps
<1>3. h1[p].type = "array"
  BY <1>1 DEF ArrayGrow, Heaps, Cell
<1> HIDE DEF h1
<1>4. DOMAIN h2 = Ids /\ h2[p].type = "array" /\ \A m \in Ids \ {p} : h2[m] = h[m]
  BY <1>2, <1>3 DEF Heaps
<1>5. ArrayInsert(h, i, p, n, fault).heap \in {h, h2, h3}
  BY DEF ArrayInsert, Error, Ok, Result, h1
<1> HIDE DEF h2
<1>6. DOMAIN h3 = Ids /\ h3[p].type = "array" /\ \A m \in Ids \ {p} : h3[m] = h[m]
  BY <1>4
<1>9. DOMAIN h = Ids
  BY DEF Heaps
<1> HIDE DEF h3
<1>7. Plain(h2)
  BY <1>4 DEF Plain
<1>8. Plain(h3)
  BY <1>6 DEF Plain
<1> HIDE DEF Plain
<1> QED BY <1>4, <1>5, <1>6, <1>7, <1>8, <1>9

(* A call for a node that is there already.                                *)
LEMMA ReplacePlain ==
    ASSUME NEW h \in Heaps, Plain(h), NEW n \in Ids, NEW type, NEW data, NEW fault
    PROVE  Plain(Replace(h, n, type, data, fault).heap)
<1> DEFINE res == Replace(h, n, type, data, fault).heap
<1>1. \E v : res = [h EXCEPT ![n].val = v]
  BY DEF Replace, Error, Ok, Result
<1>2. PICK v : res = [h EXCEPT ![n].val = v]
  BY <1>1
<1> HIDE DEF res
<1>3. h[n] \in Cell
  BY DEF Heaps
<1>4. \A m \in Ids : res[m].type = h[m].type /\ res[m].kids = h[m].kids
  BY <1>2, <1>3 DEF Heaps, Cell
<1>5. Plain(res)
  BY <1>4 DEF Plain
<1> QED BY <1>5 DEF res

(* What a call leaves an iteration to rely on: the nodes keep their types, *)
(* and an array keeps its elements where they are.                         *)
Grows(h, h2) ==
    \A n \in Ids : Live(h, n) =>
        /\ h2[n].type = h[n].type
        /\ h[n].type = "array" =>
              \A k \in Keys : h[n].kids[k] \in Ids => h2[n].kids[k] = h[n].kids[k]

(* What sconf_node_array_insert may do.                                    *)
ArrayOutcome(h, p, i, n, res) ==
    \/ res.status = "error" /\ res.heap = h
    \/ /\ res.status = "ok"
       /\ Sound(res.heap)
       /\ Grafted(h, res.heap, p, i, n)
       /\ h[p].kids[i] \notin Ids
       /\ \A m \in Ids : res.heap[m].type = h[m].type

(* It has no other outcome for an index that does not wrap round.          *)
LEMMA ArrayInsertCall ==
    ASSUME NEW h, Sound(h), NEW p \in Ids, h[p].type = "array", NEW n \in Ids,
           NEW i \in 0 .. UIntMod - 2, NEW fault
    PROVE  ArrayOutcome(h, p, i, n, ArrayInsert(h, i, p, n, fault))
<1> DEFINE needed  == (i + 1) % UIntMod
           growing == needed > h[p].size
           h2      == IF growing THEN ArrayGrow(h, p, needed) ELSE h
           h3      == [h2 EXCEPT ![p].kids[i] = n]
           res     == ArrayInsert(h, i, p, n, fault)
<1>0. /\ h \in Heaps /\ Slots(h) /\ Plain(h) /\ h[p] \in Cell
      /\ h[p].size \in 0 .. ArrayMax
      /\ needed = i + 1
      /\ i \in Nat
  <2>1. i \in 0 .. UIntMod - 1 /\ i + 1 # UIntMod
    BY IndexAssumption
  <2> QED BY <2>1, Successor DEF Sound, Heaps, Cell
<1>9. Plain(res.heap)
  BY <1>0, ArrayPlain
<1> HIDE DEF needed
<1>1. CASE growing /\ (needed > ArrayMax \/ fault = "grow")
  <2>1. res = Error(h)
    BY <1>1 DEF ArrayInsert, needed
  <2> QED BY <2>1 DEF Error, Result, ArrayOutcome
<1>2. CASE ~(growing /\ (needed > ArrayMax \/ fault = "grow"))
  <2>1. i \in Indexes /\ needed \in 1 .. ArrayMax /\ i \in Keys
    BY <1>0, <1>2, IndexAssumption DEF Indexes, Keys
  <2>2. /\ h2 \in Heaps
        /\ Slots(h2)
        /\ \A m \in Ids \ {p} : h2[m] = h[m]
        /\ h2[p].type = h[p].type
        /\ i < h2[p].size
        /\ h2[p].kids[i] # NULL => h2 = h
        /\ \A k \in Keys :
              \/ h2[p].kids[k] = h[p].kids[k]
              \/ h2[p].kids[k] = NULL /\ h[p].kids[k] \notin Ids
    <3>1. CASE growing
      <4>1. h2 = ArrayGrow(h, p, needed)
        BY <3>1
      <4>2. needed - 1 = i /\ needed > h[p].size
        BY <1>0, <2>1, <3>1
      <4> HIDE DEF h2
      <4> QED BY <1>0, <2>1, <4>1, <4>2, GrowArray
    <3>2. CASE ~growing
      <4>1. h2 = h /\ i < h[p].size
        BY <1>0, <2>1, <3>2
      <4> QED BY <1>0, <4>1
    <3> QED BY <3>1, <3>2
  <2>3. res = IF h2[p].kids[i] # NULL THEN Error(h2) ELSE Ok(n, h3)
    BY <1>2, <2>1 DEF ArrayInsert, needed
  <2> HIDE DEF h2, growing, res
  <2>4. CASE h2[p].kids[i] # NULL
    BY <2>2, <2>3, <2>4 DEF Error, Result, ArrayOutcome, res
  <2>5. CASE h2[p].kids[i] = NULL
    <3>1. /\ h3 \in Heaps
          /\ Slots(h3)
          /\ \A m \in Ids \ {p} : h3[m] = h2[m]
          /\ h3[p].type = h2[p].type
          /\ h3[p].kids[i] = n
          /\ \A k \in Keys \ {i} : h3[p].kids[k] = h2[p].kids[k]
      BY <2>1, <2>2, FillSlot
    <3>2. res.status = "ok" /\ res.heap = h3
      BY <2>3, <2>5 DEF Ok, Result
    <3> HIDE DEF h3
    <3>3. h[p].kids[i] \notin Ids
      BY <2>1, <2>2, <2>5, IdsAssumption
    <3>4. \A m \in Ids : h3[m].type = h[m].type
      BY <2>2, <3>1
    <3>5. \A m \in Ids, j \in Keys : <<m, j>> # <<p, i>> =>
              (h[m].kids[j] \in Ids \/ h3[m].kids[j] \in Ids =>
                  h3[m].kids[j] = h[m].kids[j])
      <4> SUFFICES ASSUME NEW m \in Ids, NEW j \in Keys, <<m, j>> # <<p, i>>,
                          h[m].kids[j] \in Ids \/ h3[m].kids[j] \in Ids
                   PROVE  h3[m].kids[j] = h[m].kids[j]
        OBVIOUS
      <4>1. CASE m # p
        BY <2>2, <3>1, <4>1
      <4>2. CASE m = p
        <5>1. j # i
          BY <4>2
        <5> QED BY <2>2, <3>1, <4>2, <5>1, IdsAssumption
      <4> QED BY <4>1, <4>2
    <3>6. Grafted(h, h3, p, i, n)
      BY <2>1, <3>1, <3>4, <3>5 DEF Grafted, Live
    <3>7. Sound(h3)
      BY <1>9, <3>1, <3>2 DEF Sound
    <3> QED BY <3>2, <3>3, <3>4, <3>6, <3>7 DEF ArrayOutcome, res
  <2> QED BY <2>4, <2>5
<1> QED BY <1>1, <1>2

(* What sconf_node_dict_insert does, to a name that is taken too.          *)
LEMMA DictInsertCall ==
    ASSUME NEW h, Sound(h), NEW p \in Ids, h[p].type = "dict", NEW n \in Ids,
           NEW name \in Tokens
    PROVE  LET res == DictInsert(h, name, p, n)
           IN  /\ Sound(res.heap)
               /\ Grafted(h, res.heap, p, name, n)
               /\ \A m \in Ids : res.heap[m].type = h[m].type
               /\ \A m \in Ids \ {p} : res.heap[m].kids = h[m].kids
               /\ h[p].kids[name] \in Ids \cup {NULL}
               /\ res.status = IF h[p].kids[name] = NULL THEN "ok" ELSE "error"
<1> DEFINE h2 == [h EXCEPT ![p].kids[name] = n]
           res == DictInsert(h, name, p, n)
<1>0. /\ h \in Heaps /\ Slots(h) /\ Plain(h) /\ h[p] \in Cell /\ name \in Keys
      /\ CellSlots(h[p])
  BY DEF Sound, Heaps, Slots, Keys
<1>1. /\ res.heap = h2
      /\ res.status = IF h[p].kids[name] = NULL THEN "ok" ELSE "error"
  BY DEF DictInsert, Ok, Error, Result
<1>2. h[p].kids[name] \in Ids \cup {NULL}
  BY <1>0 DEF CellSlots, Cell
<1>3. /\ h2 \in Heaps
      /\ \A m \in Ids \ {p} : h2[m] = h[m]
      /\ h2[p].type = h[p].type /\ h2[p].size = h[p].size
      /\ h2[p].kids[name] = n
      /\ \A k \in Keys \ {name} : h2[p].kids[k] = h[p].kids[k]
  BY <1>0 DEF Heaps, Cell
<1>4. Plain(h2)
  BY <1>0, DictPlain
<1> HIDE DEF h2, res
<1>5. name \notin Indexes
  BY TokensAssumption, IndexAssumption DEF Indexes
<1>6. CellSlots(h2[p])
  BY <1>0, <1>3, <1>5, IdsAssumption DEF CellSlots, Keys
<1>7. Sound(h2)
  BY <1>0, <1>3, <1>4, <1>6 DEF Sound, Slots
<1>8. \A m \in Ids : h2[m].type = h[m].type
  BY <1>3
<1>9. Grafted(h, h2, p, name, n)
  BY <1>0, <1>3, <1>8 DEF Grafted, Live
<1> QED BY <1>1, <1>2, <1>3, <1>7, <1>8, <1>9 DEF res

(* What sconf_node_create does when it does not fail.                      *)
LEMMA CreateCall ==
    ASSUME NEW h, Sound(h), NEW type, NEW data \in Values, NEW fault,
           CanCreate(h, type, fault)
    PROVE  LET n  == Fresh(h)
               h2 == Create(h, n, type, data)
           IN  Sound(h2) /\ Created(h, h2, n) /\ \A m \in Ids \ {n} : h2[m] = h[m]
<1> DEFINE n  == Fresh(h)
           h2 == Create(h, n, type, data)
<1>1. n \in Ids /\ ~Live(h, n) /\ type \in NodeTypes
  BY DEF CanCreate, Unused, Fresh, Live
<1> HIDE DEF n
<1>2. h \in Heaps /\ Slots(h) /\ Plain(h)
  BY DEF Sound
<1>3. /\ h2 \in Heaps /\ Slots(h2)
      /\ \A m \in Ids \ {n} : h2[m] = h[m]
      /\ Live(h2, n)
      /\ \A k \in Keys : h2[n].kids[k] \notin Ids
  BY <1>1, <1>2, NodeCreated
<1>4. Plain(h2)
  BY <1>1, <1>2, CreatePlain
<1> HIDE DEF h2
<1>5. Created(h, h2, n)
  BY <1>1, <1>3 DEF Created, SameKids, Live
<1> QED BY <1>2, <1>3, <1>4, <1>5 DEF Sound, n, h2

(* sconf_node_create_and_insert keeps nodes plain too.                     *)
LEMMA CallPlain ==
    ASSUME NEW h, Sound(h), Dense(h),
           NEW name \in Tokens \cup {NULL}, NEW type,
           NEW parent \in Ids, Live(h, parent),
           NEW index \in 0 .. UIntMod - 1,
           NEW data \in Values, NEW fault
    PROVE  Plain(CreateAndInsert(h, name, type, parent, index, data, fault).heap)
<1> DEFINE res  == CreateAndInsert(h, name, type, parent, index, data, fault)
           node == Lookup(h, name, parent, index)
<1>0. h \in Heaps /\ Slots(h) /\ Plain(h)
  BY DEF Sound
<1>1. CASE Unusable(h, name, type, parent, index)
  <2>1. res.heap = h
    BY <1>1 DEF CreateAndInsert, Error, Result
  <2> QED BY <1>0, <2>1
<1>2. CASE ~Unusable(h, name, type, parent, index) /\ node # NULL
  <2>1. h[parent].type \in Containers /\ (h[parent].type = "dict" => name # NULL)
    BY <1>2 DEF Unusable
  <2>2. node \in Ids
    BY <1>0, <1>2, <2>1, LookupFinds
  <2>3. res = Replace(h, node, type, data, fault)
    BY <1>2 DEF CreateAndInsert
  <2> HIDE DEF res, node
  <2>4. Plain(Replace(h, node, type, data, fault).heap)
    BY <1>0, <2>2, ReplacePlain
  <2> QED BY <2>3, <2>4 DEF res
<1>3. CASE ~Unusable(h, name, type, parent, index) /\ node = NULL
  <2> DEFINE n   == Fresh(h)
             h1  == Create(h, n, type, data)
             att == Attach(h1, name, parent, index, n, fault)
  <2>1. h[parent].type \in Containers /\ (h[parent].type = "dict" => name \in Tokens)
    BY <1>3 DEF Unusable
  <2>2. res = IF ~CanCreate(h, type, fault) THEN Error(h)
              ELSE IF att.status = "error" THEN Error(Release(att.heap, n))
              ELSE att
    BY <1>3 DEF CreateAndInsert, AddNew
  <2>3. CASE ~CanCreate(h, type, fault)
    <3>1. res.heap = h
      BY <2>2, <2>3 DEF Error, Result
    <3> QED BY <1>0, <3>1
  <2>4. CASE CanCreate(h, type, fault)
    <3>1. Sound(h1) /\ Created(h, h1, n) /\ \A m \in Ids \ {n} : h1[m] = h[m]
      BY <2>4, CreateCall
    <3> HIDE DEF n
    <3> HIDE DEF h1
    <3>2. n \in Ids /\ parent # n /\ h1[parent] = h[parent]
          /\ h1 \in Heaps /\ Plain(h1)
      BY <3>1 DEF Created, Sound
    <3>4. CASE h[parent].type = "dict"
      <4>1. att.heap = [h1 EXCEPT ![parent].kids[name] = n] /\ name \in Tokens
        BY <2>1, <3>2, <3>4 DEF Attach, DictInsert, Ok, Error, Result
      <4>2. Plain(att.heap)
        BY <3>2, <4>1, DictPlain
      <4>3. res.heap = att.heap \/ (att.status = "error" /\ res.heap = Release(att.heap, n))
        BY <2>2, <2>4 DEF Error, Result
      <4>4. att.status = "ok"
        <5>1. h1[parent].kids[name] = NULL
          BY <1>3, <3>2, <3>4 DEF Lookup, DictSearch
        <5> QED BY <3>2, <3>4, <5>1 DEF Attach, DictInsert, Ok, Result
      <4> QED BY <4>2, <4>3, <4>4
    <3>5. CASE h[parent].type = "array"
      <4> DEFINE i == Element(name, index)
      <4>1. att = ArrayInsert(h1, i, parent, n, fault)
        BY <3>2, <3>5 DEF Attach
      <4> HIDE DEF i, att
      <4>2. Plain(att.heap) /\ DOMAIN att.heap = Ids
        BY <3>2, <3>5, <4>1, ArrayPlain
      <4>3. Plain(Release(att.heap, n))
        BY <3>2, <4>2, ReleasePlain
      <4>4. res.heap = att.heap \/ res.heap = Release(att.heap, n)
        BY <2>2, <2>4 DEF Error, Result
      <4> QED BY <4>2, <4>3, <4>4
    <3> QED BY <2>1, <3>4, <3>5 DEF Containers
  <2> QED BY <2>3, <2>4
<1> QED BY <1>1, <1>2, <1>3

(* What sconf_node_create_and_insert does to what a program owns: nothing. *)
(* A call that fails has moved no node either.                             *)
InsertOutcome(h, own, res) ==
    /\ Sound(res.heap)
    /\ Ownership(res.heap, own, {})
    /\ Grows(h, res.heap)
    /\ res.status # "ok" =>
          \A n \in Ids : SameKids(h, res.heap, n) /\ res.heap[n].type = h[n].type

(* A heap with the same nodes and children will do.                        *)
LEMMA KeptOutcome ==
    ASSUME NEW h, Sound(h), NEW own, Ownership(h, own, {}), NEW res,
           Kept(h, res.heap), Plain(res.heap)
    PROVE  InsertOutcome(h, own, res)
<1> DEFINE h2 == res.heap
<1>1. h2 \in Heaps /\ Slots(h2)
      /\ \A n \in Ids : SameKids(h, h2, n) /\ h2[n].type = h[n].type
  BY DEF Kept, SameKids
<1> HIDE DEF h2
<1>2. \A n \in Ids : SameKids(h, h2, n) /\ (Live(h2, n) <=> Live(h, n))
  BY <1>1 DEF Live
<1>3. Ownership(h2, own, {})
  BY <1>2, SameOwnership
<1>4. Grows(h, h2)
  BY <1>1 DEF Grows, SameKids
<1>5. Plain(h2)
  BY DEF h2
<1>6. Sound(h2)
  BY <1>1, <1>5 DEF Sound
<1> QED BY <1>1, <1>3, <1>4, <1>6 DEF InsertOutcome, h2

(* Whichever outcome a call has, the program owns what it owned.           *)
LEMMA InsertCall ==
    ASSUME NEW h, Sound(h), NEW own, Ownership(h, own, {}),
           NEW name \in Tokens \cup {NULL}, NEW type,
           NEW parent \in Ids, Live(h, parent),
           NEW index \in 0 .. UIntMod - 2,
           NEW data \in Values, NEW fault
    PROVE  InsertOutcome(h, own,
               CreateAndInsert(h, name, type, parent, index, data, fault))
<1> DEFINE res  == CreateAndInsert(h, name, type, parent, index, data, fault)
           slot == Slot(h, name, parent, index)
           h2   == res.heap
<1>1. h \in Heaps /\ Slots(h) /\ Dense(h) /\ index \in 0 .. UIntMod - 1
  BY IndexAssumption DEF Sound, Ownership, Dense
<1>2. CallOutcome(h, name, type, parent, index, data, res)
  BY <1>1, CreateAndInsertCall
<1>3. Plain(res.heap)
  BY <1>1, CallPlain
<1> HIDE DEF res
<1>4. CASE Kept(h, h2)
  BY <1>3, <1>4, KeptOutcome DEF res
<1>5. CASE res.status = "fault" /\ h[parent].type = "array" /\ slot = UIntMod - 1
  <2>1. slot = Element(name, index)
    BY <1>5 DEF Slot
  <2> QED BY <1>5, <2>1, ApiAssumption, IndexAssumption DEF Element
<1>6. ASSUME Addition(h, h2, parent, slot, res.node, type, data), res.status = "ok"
      PROVE  InsertOutcome(h, own, res)
  <2> DEFINE n  == res.node
             h1 == [h EXCEPT ![n] = h2[n]]
  <2>0. /\ Slots(h2) /\ h2 \in Heaps
        /\ n \in Ids /\ slot \in Keys /\ parent # n
        /\ ~Live(h, n) /\ Live(h2, n)
        /\ h[parent].kids[slot] \notin Ids
        /\ \A m \in Ids \ {parent, n} : h2[m] = h[m]
        /\ \A j \in Keys : h2[n].kids[j] \notin Ids
        /\ h2[parent].type = h[parent].type
        /\ h2[parent].kids[slot] = n
        /\ \A j \in Keys \ {slot} :
              \/ h2[parent].kids[j] = h[parent].kids[j]
              \/ h2[parent].kids[j] \notin Ids /\ h[parent].kids[j] \notin Ids
    BY <1>6 DEF Addition, Linked
  <2> HIDE DEF h2, slot, n
  <2>1. h1[n] = h2[n] /\ \A m \in Ids \ {n} : h1[m] = h[m]
    BY <1>1, <2>0 DEF Heaps
  <2> HIDE DEF h1
  <2>2. Created(h, h1, n)
    BY <2>0, <2>1 DEF Created, SameKids, Live
  <2>3. Ownership(h1, own \cup {n}, {})
    BY <2>2, CreateOwnership
  <2>4. Closed(h1, {n})
    BY <2>0, <2>1 DEF Closed
  <2>5. parent \notin Subtree(h1, n)
    BY <2>0, <2>4, SubtreeLeast
  <2>6. \A m \in Ids, j \in Keys : <<m, j>> # <<parent, slot>> =>
            (h1[m].kids[j] \in Ids \/ h2[m].kids[j] \in Ids =>
                h2[m].kids[j] = h1[m].kids[j])
    <3> SUFFICES ASSUME NEW m \in Ids, NEW j \in Keys, <<m, j>> # <<parent, slot>>,
                        h1[m].kids[j] \in Ids \/ h2[m].kids[j] \in Ids
                 PROVE  h2[m].kids[j] = h1[m].kids[j]
      OBVIOUS
    <3>1. CASE m = n
      BY <2>1, <3>1
    <3>2. CASE m = parent
      BY <2>0, <2>1, <3>2
    <3>3. CASE m \notin {n, parent}
      BY <2>0, <2>1, <3>3
    <3> QED BY <3>1, <3>2, <3>3
  <2>7. \A m \in Ids : Live(h2, m) <=> Live(h1, m)
    BY <2>0, <2>1 DEF Live
  <2>8. Grafted(h1, h2, parent, slot, n)
    BY <2>0, <2>6, <2>7 DEF Grafted
  <2>9. h1[parent] = h[parent] /\ Live(h1, parent)
    BY <2>0, <2>1 DEF Live
  <2> DEFINE own2 == ((own \cup {n}) \ {n}) \cup ({h1[parent].kids[slot]} \cap Ids)
  <2>10. Ownership(h2, own2, {})
    BY <2>3, <2>5, <2>8, <2>9, GraftOwnership
  <2>11. own2 = own
    BY <2>0, <2>9 DEF Ownership
  <2>12. Grows(h, h2)
    <3> SUFFICES ASSUME NEW m \in Ids, Live(h, m)
                 PROVE  /\ h2[m].type = h[m].type
                        /\ \A k \in Keys : h[m].kids[k] \in Ids =>
                                               h2[m].kids[k] = h[m].kids[k]
      BY DEF Grows
    <3>1. m # n
      BY <2>0
    <3>2. CASE m = parent
      BY <2>0, <3>2
    <3>3. CASE m # parent
      BY <2>0, <3>1, <3>3
    <3> QED BY <3>2, <3>3
  <2>13. Ownership(h2, own, {})
    BY <2>10, <2>11
  <2>14. Sound(h2)
    BY <1>3, <2>0 DEF Sound, h2
  <2> QED BY <1>6, <2>12, <2>13, <2>14 DEF InsertOutcome, h2
<1> QED BY <1>2, <1>4, <1>5, <1>6 DEF CallOutcome, Refusal, Overwrite, res, h2, slot

-----------------------------------------------------------------------------
(* The invariant.                                                          *)

Cursors == [node : Ids \cup {NULL}, next : 0 .. ArrayMax, todo : SUBSET Tokens]

Frames == [node : Ids, todo : SUBSET Keys]

Typed ==
    /\ Sound(heap)
    /\ owned \subseteq Ids
    /\ ret \in {-1, 0, 1}
    /\ cursor \in Cursors
    /\ seen \subseteq Keys
    /\ missed \subseteq Indexes
    /\ frames \in Seq(Frames)
    /\ doomed \subseteq Ids

(* A call of sconf_node_destroy is for a live node.  What it has still to  *)
(* do is whole; what it has done is freed, but for the node of the call it *)
(* is waiting for.                                                         *)
FrameOK(h, fr, D, i) ==
    /\ fr[i].node \in D /\ Live(h, fr[i].node)
    /\ \A k \in fr[i].todo :
          /\ h[fr[i].node].kids[k] \in Ids
          /\ \A m \in Subtree(h, h[fr[i].node].kids[k]) : Live(h, m)
    /\ i > 1 => \E k \in Keys \ fr[i].todo : h[fr[i].node].kids[k] = fr[i - 1].node
    /\ \A k \in Keys \ fr[i].todo : h[fr[i].node].kids[k] \in Ids =>
          \/ ~Live(h, h[fr[i].node].kids[k])
          \/ i > 1 /\ h[fr[i].node].kids[k] = fr[i - 1].node

(* No two calls are for the same node, no call is for a node below one     *)
(* that is still to come, and every node that is to be freed is the node   *)
(* of a call or below one that is to come.                                 *)
FramesApart(h, fr) ==
    \A i, j \in 1 .. Len(fr) :
        /\ fr[i].node = fr[j].node => i = j
        /\ \A k \in fr[i].todo : fr[j].node \notin Subtree(h, h[fr[i].node].kids[k])

FramesCover(h, fr, D) ==
    \A n \in D : Live(h, n) =>
        \E i \in 1 .. Len(fr) :
            \/ n = fr[i].node
            \/ \E k \in fr[i].todo : n \in Subtree(h, h[fr[i].node].kids[k])

Destroying(h, fr, D) ==
    /\ fr = <<>> => D = {}
    /\ \A i \in 1 .. Len(fr) : FrameOK(h, fr, D, i)
    /\ FramesApart(h, fr)
    /\ FramesCover(h, fr, D)

(* An iteration is over a live container.  Of an array it has visited what *)
(* is behind its position but what was put there since, of a dictionary    *)
(* all but what is to come.                                                *)
IterationOK(h, cur, sn, ms, D) ==
    cur.node # NULL =>
        /\ cur.node \notin D /\ Live(h, cur.node)
        /\ h[cur.node].type \in Containers
        /\ sn \cap ms = {}
        /\ h[cur.node].type = "array" =>
              sn \cup ms = {k \in Filled(h, cur.node) : k < cur.next}
        /\ h[cur.node].type = "dict" =>
              /\ sn \cup cur.todo = Filled(h, cur.node)
              /\ sn \cap cur.todo = {}
              /\ ms = {}

IInv ==
    /\ Typed
    /\ Ownership(heap, owned, doomed)
    /\ Destroying(heap, frames, doomed)
    /\ frames # <<>> => ret = 0
    /\ IterationOK(heap, cursor, seen, missed, doomed)

-----------------------------------------------------------------------------
(* The steps of sconf_node_destroy.                                        *)

(* Below a node are the node and what is below its children.               *)
LEMMA SubtreeSplit ==
    ASSUME NEW h, NEW n \in Ids, NEW m \in Subtree(h, n), m # n
    PROVE  \E k \in Keys : h[n].kids[k] \in Ids /\ m \in Subtree(h, h[n].kids[k])
<1> DEFINE C == {n} \cup {q \in Ids : \E k \in Keys : /\ h[n].kids[k] \in Ids
                                                    /\ q \in Subtree(h, h[n].kids[k])}
<1>1. \A c \in Ids : c \in Subtree(h, c) /\ Closed(h, Subtree(h, c))
  BY SubtreeClosed
<1>2. Closed(h, C)
  <2> SUFFICES ASSUME NEW q \in C, NEW j \in Keys, h[q].kids[j] \in Ids
               PROVE  \E k \in Keys : /\ h[n].kids[k] \in Ids
                                      /\ h[q].kids[j] \in Subtree(h, h[n].kids[k])
    BY DEF Closed
  <2>1. CASE q = n
    BY <1>1, <2>1
  <2>2. CASE q # n
    BY <1>1, <2>2 DEF Closed
  <2> QED BY <2>1, <2>2
<1>3. n \in C
  OBVIOUS
<1> HIDE DEF C
<1>4. Subtree(h, n) \subseteq C
  BY <1>2, <1>3, SubtreeLeast
<1> QED BY <1>4 DEF C

(* A call for node n that has all of its children to come.                 *)
Whole(h, f, n) == f.node = n /\ f.todo = {k \in Keys : h[n].kids[k] \in Ids}

(* The first call: everything below the node is to come.                   *)
LEMMA DestroyStart ==
    ASSUME NEW h, NEW own, NEW n \in own, Ownership(h, own, {}),
           NEW fr, Len(fr) = 1, fr # <<>>, Whole(h, fr[1], n)
    PROVE  Destroying(h, fr, Subtree(h, n))
<1> DEFINE live == {m \in Ids : Live(h, m)}
           D    == Subtree(h, n)
<1>1. n \in Ids /\ n \in live
  BY DEF Ownership
<1>2. \A m \in Ids, k \in Keys : h[m].kids[k] \in Ids => h[m].kids[k] \in live
  BY DEF Ownership
<1>3. Closed(h, live)
  BY <1>2 DEF Closed
<1>4. \A m \in live : Subtree(h, m) \subseteq live
  <2> SUFFICES ASSUME NEW m \in live PROVE Subtree(h, m) \subseteq live
    OBVIOUS
  <2> HIDE DEF live
  <2> QED BY <1>3, SubtreeLeast DEF live
<1>5. n \in D /\ (\A m \in D : m # n => \E k \in Keys :
                      h[n].kids[k] \in Ids /\ m \in Subtree(h, h[n].kids[k]))
  BY <1>1, SubtreeClosed, SubtreeSplit
<1>6. \A k \in Keys : h[n].kids[k] \in Ids => n \notin Subtree(h, h[n].kids[k])
  BY <1>1 DEF Ownership, Acyclic
<1>7. 1 .. Len(fr) = {1}
  OBVIOUS
<1> HIDE DEF D
<1>8. FrameOK(h, fr, D, 1)
  BY <1>1, <1>2, <1>4, <1>5 DEF FrameOK, Whole
<1>9. FramesApart(h, fr)
  BY <1>6, <1>7 DEF FramesApart, Whole
<1>10. FramesCover(h, fr, D)
  BY <1>5, <1>7 DEF FramesCover, Whole
<1> HIDE DEF FrameOK, FramesApart, FramesCover
<1>11. Destroying(h, fr, D)
  BY <1>7, <1>8, <1>9, <1>10 DEF Destroying
<1> QED BY <1>11 DEF D

(* The innermost call makes one for its child under k.                     *)
Entered(h, fr, fr2, k) ==
    /\ Len(fr2) = Len(fr) + 1
    /\ k \in fr[1].todo
    /\ Whole(h, fr2[1], h[fr[1].node].kids[k])
    /\ \A i \in 1 .. Len(fr) : /\ fr2[i + 1].node = fr[i].node
                               /\ fr2[i + 1].todo = IF i = 1 THEN fr[1].todo \ {k}
                                                    ELSE fr[i].todo

(* The new call has all of the child's children to come; the one that      *)
(* makes it has one less.                                                  *)
LEMMA DestroyEnter ==
    ASSUME NEW h, NEW own, NEW D \in SUBSET Ids, Ownership(h, own, D),
           NEW fr, Len(fr) \in Nat \ {0}, Destroying(h, fr, D),
           \A i \in 1 .. Len(fr) : fr[i].node \in Ids /\ fr[i].todo \subseteq Keys,
           NEW fr2, fr2 # <<>>, NEW k, Entered(h, fr, fr2, k)
    PROVE  Destroying(h, fr2, D)
<1> DEFINE N == Len(fr)
           t == fr[1].node
           c == h[t].kids[k]
           Kid(i, j) == h[fr[i].node].kids[j]
<1>0. /\ N \in Nat \ {0} /\ 1 \in 1 .. N /\ t \in Ids /\ k \in Keys /\ k \in fr[1].todo
      /\ Len(fr2) = N + 1
      /\ \A i \in 2 .. N + 1 : i - 1 \in 1 .. N /\ (i - 1) + 1 = i
      /\ \A i \in 1 .. N : i + 1 \in 2 .. N + 1
      /\ 1 .. N + 1 = {1} \cup 2 .. N + 1
  BY DEF Entered
<1>1. /\ \A i \in 1 .. N : FrameOK(h, fr, D, i)
      /\ FramesApart(h, fr) /\ FramesCover(h, fr, D)
  BY DEF Destroying
<1>2. \A i \in 1 .. N : \A j \in fr[i].todo :
          j \in Keys /\ Kid(i, j) \in Ids /\ \A m \in Subtree(h, Kid(i, j)) : Live(h, m)
  BY <1>1 DEF FrameOK
<1>3. c \in Ids /\ c \in Subtree(h, c) /\ Live(h, c)
      /\ \A m \in Subtree(h, c) : Live(h, m)
  <2>1. c \in Ids /\ \A m \in Subtree(h, c) : Live(h, m)
    BY <1>0, <1>2
  <2> QED BY <2>1, SubtreeClosed
<1>4. t \in D /\ c \in D
  <2>1. t \in D
    BY <1>0, <1>1 DEF FrameOK
  <2> QED BY <1>0, <1>3, <2>1 DEF Ownership
<1>5. \A j \in Keys : h[c].kids[j] \in Ids =>
          /\ h[c].kids[j] \in Subtree(h, c)
          /\ Subtree(h, h[c].kids[j]) \subseteq Subtree(h, c)
          /\ c \notin Subtree(h, h[c].kids[j])
  <2> SUFFICES ASSUME NEW j \in Keys, h[c].kids[j] \in Ids
               PROVE  /\ h[c].kids[j] \in Subtree(h, c)
                      /\ Subtree(h, h[c].kids[j]) \subseteq Subtree(h, c)
                      /\ c \notin Subtree(h, h[c].kids[j])
    OBVIOUS
  <2> DEFINE d == h[c].kids[j]
  <2>1. c \notin Subtree(h, d)
    BY <1>3 DEF Ownership, Acyclic
  <2>2. d \in Subtree(h, c)
    BY <1>3, SubtreeClosed DEF Closed
  <2> HIDE DEF d, c
  <2>3. Subtree(h, d) \subseteq Subtree(h, c)
    BY <1>3, <2>2, SubtreeWithin
  <2> QED BY <2>1, <2>2, <2>3 DEF d
<1>6. \A i, j \in 1 .. N :
          /\ fr[i].node = fr[j].node => i = j
          /\ \A l \in fr[i].todo : fr[j].node \notin Subtree(h, Kid(i, l))
  BY <1>1 DEF FramesApart
<1>7. \A q \in Ids, l \in Keys : h[q].kids[l] = c => q = t /\ l = k
  <2> HIDE DEF N
  <2> QED BY <1>0, <1>3 DEF Ownership, OneParent
<1>8. ASSUME NEW i \in 1 .. N, NEW l \in fr[i].todo, ~(i = 1 /\ l = k)
      PROVE  c \notin Subtree(h, Kid(i, l))
  <2> DEFINE d == Kid(i, l)
  <2>1. d \in Ids /\ l \in Keys /\ fr[i].node \in Ids
    BY <1>2, <1>8
  <2>2. c # d
    <3>1. c = d => fr[i].node = t /\ l = k
      BY <1>7, <2>1
    <3> QED BY <1>0, <1>6, <1>8, <3>1
  <2>3. t \notin Subtree(h, d)
    BY <1>0, <1>6, <1>8
  <2> HIDE DEF d, c, t
  <2>4. c \in Subtree(h, d) => \E p \in Subtree(h, d), j \in Keys : h[p].kids[j] = c
    BY <2>1, <2>2, SubtreeHolder
  <2>5. Subtree(h, d) \subseteq Ids
    BY <2>1, SubtreeClosed
  <2>6. c \notin Subtree(h, d)
    BY <1>7, <2>3, <2>4, <2>5
  <2> QED BY <2>6 DEF d
<1>9. fr2[1].node = c /\ fr2[1].todo = {j \in Keys : h[c].kids[j] \in Ids}
  BY DEF Entered, Whole
<1>10. \A i \in 2 .. N + 1 :
          /\ fr2[i].node = fr[i - 1].node
          /\ fr2[i].todo = IF i = 2 THEN fr[1].todo \ {k} ELSE fr[i - 1].todo
  <2> SUFFICES ASSUME NEW i \in 2 .. N + 1
               PROVE  /\ fr2[i].node = fr[i - 1].node
                      /\ fr2[i].todo = IF i = 2 THEN fr[1].todo \ {k} ELSE fr[i - 1].todo
    OBVIOUS
  <2>1. i - 1 \in 1 .. N /\ (i - 1) + 1 = i /\ (i - 1 = 1 <=> i = 2)
    BY <1>0
  <2> QED BY <2>1 DEF Entered
<1> HIDE DEF c, t, N
<1>11. FrameOK(h, fr2, D, 1)
  BY <1>3, <1>4, <1>5, <1>9 DEF FrameOK
<1>12. ASSUME NEW i \in 2 .. N + 1 PROVE FrameOK(h, fr2, D, i)
  <2> DEFINE j == i - 1
  <2>1. j \in 1 .. N /\ FrameOK(h, fr, D, j) /\ i > 1
    BY <1>0, <1>1
  <2>2. fr2[i].node = fr[j].node /\ fr2[i].todo \subseteq fr[j].todo
    BY <1>10
  <2>3. CASE i = 2
    <3>1. /\ j = 1 /\ i - 1 = 1
          /\ fr2[2].node = t /\ fr2[2].todo = fr[1].todo \ {k} /\ fr2[1].node = c
          /\ h[t].kids[k] = c
      <4>1. j = 1 /\ i - 1 = 1
        BY <2>3
      <4>2. /\ fr2[i].node = fr[i - 1].node
            /\ fr2[i].todo = IF i = 2 THEN fr[1].todo \ {k} ELSE fr[i - 1].todo
        BY <1>10
      <4>3. fr2[2].node = fr[1].node /\ fr2[2].todo = fr[1].todo \ {k}
        BY <2>3, <4>1, <4>2
      <4> QED BY <1>9, <4>1, <4>3 DEF t, c
    <3>2. FrameOK(h, fr, D, 1) /\ t = fr[1].node
      BY <2>1, <3>1 DEF t
    <3>3. \A l \in Keys \ fr2[2].todo : h[t].kids[l] \in Ids =>
              \/ ~Live(h, h[t].kids[l])
              \/ h[t].kids[l] = c
      BY <3>1, <3>2 DEF FrameOK
    <3>4. /\ t \in D /\ Live(h, t)
          /\ \A l \in fr2[2].todo :
                /\ h[t].kids[l] \in Ids
                /\ \A m \in Subtree(h, h[t].kids[l]) : Live(h, m)
      BY <3>1, <3>2 DEF FrameOK
    <3>5. k \in Keys \ fr2[2].todo
      BY <1>0, <3>1
    <3> HIDE DEF j
    <3>6. FrameOK(h, fr2, D, 2)
      BY <3>1, <3>3, <3>4, <3>5 DEF FrameOK
    <3> QED BY <2>3, <3>6
  <2>4. CASE i # 2
    <3>1. j > 1 /\ j \in 2 .. N + 1 /\ i - 1 = j
      BY <1>0, <2>1, <2>4
    <3>2. fr2[j].node = fr[j - 1].node /\ fr2[i].todo = fr[j].todo
      BY <1>10, <2>4, <3>1
    <3> HIDE DEF j
    <3> QED BY <2>1, <2>2, <3>1, <3>2 DEF FrameOK
  <2> QED BY <2>3, <2>4
<1>13. ASSUME NEW i \in 1 .. N + 1, NEW j \in 1 .. N + 1
       PROVE  /\ fr2[i].node = fr2[j].node => i = j
              /\ \A l \in fr2[i].todo : fr2[j].node \notin Subtree(h, h[fr2[i].node].kids[l])
  <2>1. CASE i = 1 /\ j = 1
    BY <1>5, <1>9, <2>1
  <2>2. CASE i = 1 /\ j # 1
    <3>1. j \in 2 .. N + 1 /\ j - 1 \in 1 .. N
      BY <1>0, <2>2
    <3>2. fr2[j].node = fr[j - 1].node /\ fr[j - 1].node \notin Subtree(h, c)
      BY <1>0, <1>6, <1>10, <3>1 DEF c, t
    <3> QED BY <1>3, <1>5, <1>9, <2>2, <3>2
  <2>3. CASE i # 1 /\ j = 1
    <3>1. i \in 2 .. N + 1 /\ i - 1 \in 1 .. N /\ (i - 1 = 1 <=> i = 2)
      BY <1>0, <2>3
    <3>2. fr[i - 1].node \notin Subtree(h, c)
      BY <1>0, <1>6, <3>1 DEF c, t
    <3>3. \A l \in fr2[i].todo : l \in fr[i - 1].todo /\ ~(i - 1 = 1 /\ l = k)
      BY <1>10, <3>1
    <3>4. fr2[i].node = fr[i - 1].node
      BY <1>10, <3>1
    <3> QED BY <1>3, <1>8, <1>9, <2>3, <3>1, <3>2, <3>3, <3>4
  <2>4. CASE i # 1 /\ j # 1
    <3>1. /\ i \in 2 .. N + 1 /\ i - 1 \in 1 .. N
          /\ j \in 2 .. N + 1 /\ j - 1 \in 1 .. N /\ (i - 1 = j - 1 => i = j)
      BY <1>0, <2>4
    <3>2. fr2[i].node = fr[i - 1].node /\ fr2[j].node = fr[j - 1].node
          /\ fr2[i].todo \subseteq fr[i - 1].todo
      BY <1>10, <3>1
    <3> QED BY <1>6, <3>1, <3>2
  <2> QED BY <2>1, <2>2, <2>3, <2>4
<1>14. ASSUME NEW n \in D, Live(h, n)
       PROVE  \E i \in 1 .. N + 1 :
                  \/ n = fr2[i].node
                  \/ \E l \in fr2[i].todo : n \in Subtree(h, h[fr2[i].node].kids[l])
  <2>1. PICK i \in 1 .. N : \/ n = fr[i].node
                            \/ \E l \in fr[i].todo : n \in Subtree(h, Kid(i, l))
    BY <1>1, <1>14 DEF FramesCover, N
  <2>2. /\ i + 1 \in 2 .. N + 1 /\ i + 1 \in 1 .. N + 1 /\ (i + 1) - 1 = i
        /\ 1 \in 1 .. N + 1 /\ (i + 1 = 2 <=> i = 1)
    BY <1>0
  <2>3. /\ fr2[i + 1].node = fr[i].node
        /\ fr2[i + 1].todo = IF i = 1 THEN fr[1].todo \ {k} ELSE fr[i].todo
    BY <1>10, <2>2
  <2>4. CASE n = fr[i].node
    BY <2>2, <2>3, <2>4
  <2>5. ASSUME NEW l \in fr[i].todo, n \in Subtree(h, Kid(i, l)), ~(i = 1 /\ l = k)
        PROVE  \E l2 \in fr2[i + 1].todo : n \in Subtree(h, h[fr2[i + 1].node].kids[l2])
    BY <2>3, <2>5
  <2>6. CASE n \in Subtree(h, c)
    <3>1. n # c => \E j \in Keys : h[c].kids[j] \in Ids /\ n \in Subtree(h, h[c].kids[j])
      BY <1>3, <2>6, SubtreeSplit
    <3> QED BY <1>9, <2>2, <3>1
  <2> QED BY <2>1, <2>2, <2>4, <2>5, <2>6 DEF c, t
<1>15. FramesApart(h, fr2)
  BY <1>0, <1>13 DEF FramesApart
<1>16. FramesCover(h, fr2, D)
  BY <1>0, <1>14 DEF FramesCover
<1>17. \A i \in 1 .. Len(fr2) : FrameOK(h, fr2, D, i)
  BY <1>0, <1>11, <1>12
<1> QED BY <1>15, <1>16, <1>17 DEF Destroying

(* The innermost call, which has no child to come, frees its node t.       *)
Left(fr, fr2) ==
    /\ Len(fr2) = Len(fr) - 1
    /\ fr[1].todo = {}
    /\ \A i \in 1 .. Len(fr2) : fr2[i] = fr[i + 1]

(* The calls that remain are as they should be; the last one leaves        *)
(* nothing.                                                                *)
LEMMA DestroyLeave ==
    ASSUME NEW h, NEW h2, NEW D \in SUBSET Ids,
           NEW fr, Len(fr) \in Nat \ {0}, Destroying(h, fr, D),
           \A i \in 1 .. Len(fr) : fr[i].node \in Ids /\ fr[i].todo \subseteq Keys,
           NEW fr2, fr2 = <<>> <=> Len(fr2) = 0, Left(fr, fr2),
           Freed(h, h2, fr[1].node)
    PROVE  /\ fr2 # <<>> => Destroying(h2, fr2, D)
           /\ fr2 = <<>> => \A n \in D : ~Live(h2, n)
<1> DEFINE N == Len(fr)
           t == fr[1].node
           Kid(i, l) == h[fr[i].node].kids[l]
<1>0. /\ N \in Nat \ {0} /\ 1 \in 1 .. N /\ t \in Ids
      /\ Len(fr2) = N - 1
      /\ \A i \in 1 .. N - 1 : i + 1 \in 1 .. N /\ i + 1 # 1 /\ i + 1 > 1 /\ (i + 1) - 1 = i
      /\ \A i \in 1 .. N : i # 1 => i - 1 \in 1 .. N - 1 /\ (i - 1) + 1 = i
  BY DEF Left
<1>1. /\ \A i \in 1 .. N : FrameOK(h, fr, D, i)
      /\ FramesApart(h, fr) /\ FramesCover(h, fr, D)
  BY DEF Destroying
<1>2. \A i, j \in 1 .. N :
          /\ fr[i].node = fr[j].node => i = j
          /\ \A l \in fr[i].todo : fr[j].node \notin Subtree(h, Kid(i, l))
  BY <1>1 DEF FramesApart
<1>3. \A m \in Ids : /\ m # t => h2[m] = h[m] /\ (Live(h2, m) <=> Live(h, m))
                     /\ Live(h2, m) => m # t
  BY DEF Freed, Live
<1>4. \A i \in 1 .. N - 1 : fr2[i] = fr[i + 1]
  BY <1>0 DEF Left
<1>5. \A i \in 1 .. N : i # 1 => fr[i].node # t /\ h2[fr[i].node] = h[fr[i].node]
  BY <1>0, <1>2, <1>3
<1>6. \A i \in 1 .. N : \A l \in fr[i].todo :
          /\ Kid(i, l) \in Ids /\ t \notin Subtree(h, Kid(i, l))
          /\ Subtree(h2, Kid(i, l)) = Subtree(h, Kid(i, l))
          /\ Subtree(h, Kid(i, l)) \subseteq Ids
          /\ \A m \in Subtree(h, Kid(i, l)) : Live(h2, m)
  <2> SUFFICES ASSUME NEW i \in 1 .. N, NEW l \in fr[i].todo
               PROVE  /\ Kid(i, l) \in Ids /\ t \notin Subtree(h, Kid(i, l))
                      /\ Subtree(h2, Kid(i, l)) = Subtree(h, Kid(i, l))
                      /\ Subtree(h, Kid(i, l)) \subseteq Ids
                      /\ \A m \in Subtree(h, Kid(i, l)) : Live(h2, m)
    OBVIOUS
  <2> DEFINE d == Kid(i, l)
  <2>1. d \in Ids /\ \A m \in Subtree(h, d) : Live(h, m)
    BY <1>1 DEF FrameOK
  <2>2. t \notin Subtree(h, d)
    BY <1>0, <1>2
  <2> HIDE DEF d, t
  <2>3. Subtree(h2, d) = Subtree(h, d)
    BY <2>1, <2>2, SubtreeFreed DEF t
  <2>4. Subtree(h, d) \subseteq Ids
    BY <2>1, SubtreeClosed
  <2>5. \A m \in Subtree(h, d) : Live(h2, m)
    BY <1>3, <2>1, <2>2, <2>4
  <2> QED BY <2>1, <2>2, <2>3, <2>4, <2>5 DEF d
<1>7. fr[1].todo = {} /\ ~Live(h2, t)
  BY DEF Left, Freed
<1> HIDE DEF N, t
<1>8. ASSUME NEW i \in 1 .. N - 1 PROVE FrameOK(h2, fr2, D, i)
  <2> DEFINE j == i + 1
  <2>1. j \in 1 .. N /\ j # 1 /\ fr2[i] = fr[j] /\ FrameOK(h, fr, D, j) /\ j > 1 /\ j - 1 = i
    BY <1>0, <1>1, <1>4
  <2>2. fr[j].node # t /\ h2[fr[j].node] = h[fr[j].node] /\ fr[j].node \in Ids
    BY <1>5, <2>1 DEF N
  <2>3. /\ fr2[i].node \in D /\ Live(h2, fr2[i].node)
        /\ \A l \in fr2[i].todo :
              /\ h2[fr2[i].node].kids[l] \in Ids
              /\ \A m \in Subtree(h2, h2[fr2[i].node].kids[l]) : Live(h2, m)
    BY <1>3, <1>6, <2>1, <2>2 DEF FrameOK
  <2>4. i > 1 => fr2[i - 1] = fr[i]
    <3> SUFFICES ASSUME i > 1 PROVE fr2[i - 1] = fr[i]
      OBVIOUS
    <3>1. i - 1 \in 1 .. N - 1 /\ (i - 1) + 1 = i
      BY <1>0
    <3> QED BY <1>4, <3>1
  <2>5. i > 1 => \E k \in Keys \ fr2[i].todo : h2[fr2[i].node].kids[k] = fr2[i - 1].node
    BY <2>1, <2>2, <2>4 DEF FrameOK
  <2>6. ASSUME NEW k \in Keys \ fr2[i].todo, h2[fr2[i].node].kids[k] \in Ids
        PROVE  \/ ~Live(h2, h2[fr2[i].node].kids[k])
               \/ i > 1 /\ h2[fr2[i].node].kids[k] = fr2[i - 1].node
    <3> DEFINE d == h[fr[j].node].kids[k]
    <3>1. d = h2[fr2[i].node].kids[k] /\ d \in Ids
      BY <2>1, <2>2, <2>6
    <3>2. ~Live(h, d) \/ d = fr[i].node
      BY <2>1, <2>2, <2>6 DEF FrameOK
    <3>3. ~Live(h, d) => ~Live(h2, d)
      BY <1>3, <1>7, <3>1
    <3>4. i = 1 => fr[i].node = t
      BY DEF t
    <3>5. i = 1 \/ i > 1
      BY <1>0
    <3> QED BY <1>7, <2>4, <3>1, <3>2, <3>3, <3>4, <3>5
  <2> QED BY <2>3, <2>5, <2>6 DEF FrameOK
<1>9. FramesApart(h2, fr2)
  <2> SUFFICES ASSUME NEW i \in 1 .. N - 1, NEW j \in 1 .. N - 1
               PROVE  /\ fr2[i].node = fr2[j].node => i = j
                      /\ \A l \in fr2[i].todo :
                            fr2[j].node \notin Subtree(h2, h2[fr2[i].node].kids[l])
    BY <1>0 DEF FramesApart
  <2>1. /\ fr2[i] = fr[i + 1] /\ fr2[j] = fr[j + 1] /\ i + 1 \in 1 .. N /\ j + 1 \in 1 .. N
        /\ (i + 1 = j + 1 => i = j) /\ i + 1 # 1
    BY <1>0, <1>4
  <2>2. h2[fr[i + 1].node] = h[fr[i + 1].node]
    BY <1>5, <2>1
  <2> QED BY <1>2, <1>6, <2>1, <2>2
<1>10. ASSUME NEW n \in D, Live(h2, n)
       PROVE  \E i \in 1 .. N - 1 :
                  \/ n = fr2[i].node
                  \/ \E l \in fr2[i].todo : n \in Subtree(h2, h2[fr2[i].node].kids[l])
  <2>1. n # t /\ Live(h, n)
    BY <1>3, <1>10
  <2>2. PICK i \in 1 .. N : \/ n = fr[i].node
                            \/ \E l \in fr[i].todo : n \in Subtree(h, Kid(i, l))
    BY <1>1, <2>1 DEF FramesCover, N
  <2>3. i # 1
    BY <1>7, <2>1, <2>2 DEF t
  <2>4. i - 1 \in 1 .. N - 1 /\ fr2[i - 1] = fr[i] /\ h2[fr[i].node] = h[fr[i].node]
    BY <1>0, <1>4, <1>5, <2>3
  <2> QED BY <1>6, <2>2, <2>4
<1>11. ASSUME fr2 # <<>> PROVE Destroying(h2, fr2, D)
  <2>1. FramesCover(h2, fr2, D)
    BY <1>0, <1>10 DEF FramesCover
  <2>2. \A i \in 1 .. Len(fr2) : FrameOK(h2, fr2, D, i)
    BY <1>0, <1>8
  <2> QED BY <1>9, <1>11, <2>1, <2>2 DEF Destroying
<1>12. ASSUME fr2 = <<>>, NEW n \in D PROVE ~Live(h2, n)
  <2>1. N - 1 = 0
    BY <1>0, <1>12
  <2>2. \A i : i \notin 1 .. N - 1
    BY <2>1
  <2> QED BY <1>10, <2>2
<1> QED BY <1>11, <1>12

-----------------------------------------------------------------------------
(* The steps.  Each keeps the invariant and does what the three action     *)
(* properties say.                                                         *)

Safely == IInv' /\ VisitsExactly /\ RefusesUnmoved /\ FreesDoomed

(* While the program runs nothing is doomed.                               *)
LEMMA NothingDoomed ==
    ASSUME IInv, Running
    PROVE  doomed = {} /\ Ownership(heap, owned, {}) /\ Sound(heap)
<1>1. doomed = {}
  BY DEF IInv, Running, Destroying
<1> QED BY <1>1 DEF IInv, Typed

(* When no call is open there is nothing to say.                           *)
LEMMA NoFrames == Destroying(heap', <<>>, {})
  BY DEF Destroying, FramesApart, FramesCover

(* An iteration goes on after any call that only adds.                     *)
LEMMA IterationGrows ==
    ASSUME NEW h, NEW h2, Sound(h), Sound(h2), Grows(h, h2),
           NEW cur \in Cursors, NEW sn, NEW ms, NEW ms2,
           IterationOK(h, cur, sn, ms, {}),
           cur.node # NULL => /\ cur.node \in Ids
                              /\ h[cur.node].type = "dict" =>
                                    h2[cur.node].kids = h[cur.node].kids /\ ms2 = ms
                              /\ h[cur.node].type = "array" =>
                                    ms2 = ms \cup {k \in Filled(h2, cur.node) :
                                                      /\ k < cur.next
                                                      /\ k \notin Filled(h, cur.node)}
    PROVE  IterationOK(h2, cur, sn, ms2, {})
<1> SUFFICES ASSUME cur.node # NULL PROVE IterationOK(h2, cur, sn, ms2, {})
  BY DEF IterationOK
<1> DEFINE c == cur.node
<1>1. /\ c \in Ids /\ Live(h, c) /\ h[c].type \in Containers
      /\ sn \cap ms = {}
      /\ h[c].type = "array" => sn \cup ms = {k \in Filled(h, c) : k < cur.next}
      /\ h[c].type = "dict" => /\ sn \cup cur.todo = Filled(h, c)
                               /\ sn \cap cur.todo = {}
                               /\ ms = {}
  BY DEF IterationOK
<1>2. h2[c].type = h[c].type /\ Live(h2, c)
  BY <1>1 DEF Grows, Live
<1>3. /\ Filled(h, c) = {k \in Keys : h[c].kids[k] \in Ids}
      /\ Filled(h2, c) = {k \in Keys : h2[c].kids[k] \in Ids}
  BY <1>1, FilledMeans
<1>4. CASE h[c].type = "dict"
  <2>1. Filled(h2, c) = Filled(h, c) /\ ms2 = ms
    BY <1>3, <1>4
  <2> HIDE DEF c
  <2> QED BY <1>1, <1>2, <1>4, <2>1 DEF IterationOK, c
<1>5. CASE h[c].type = "array"
  <2>1. Filled(h, c) \subseteq Filled(h2, c)
    BY <1>1, <1>3, <1>5 DEF Grows
  <2>2. ms2 = ms \cup {k \in Filled(h2, c) : k < cur.next /\ k \notin Filled(h, c)}
    BY <1>5
  <2>3. sn \cup ms2 = {k \in Filled(h2, c) : k < cur.next} /\ sn \cap ms2 = {}
    <3> HIDE DEF c
    <3> QED BY <1>1, <1>5, <2>1, <2>2
  <2>4. IterationOK(h2, cur, sn, ms2, {})
    BY <1>1, <1>2, <1>5, <2>3 DEF IterationOK
  <2> QED BY <2>4
<1> QED BY <1>1, <1>4, <1>5 DEF Containers

(* A call that leaves the heap h.                                          *)
LEMMA LeaveSafely ==
    ASSUME IInv, Running, NEW h, NEW r \in {-1, 0}, Sound(h), Grows(heap, h),
           Leave(h, r), Ownership(h, owned', {}), r = -1 => RefusesUnmoved
    PROVE  Safely
<1>1. doomed = {} /\ Ownership(heap, owned, {}) /\ Sound(heap)
  BY NothingDoomed
<1>2. /\ heap' = h /\ ret' = r /\ cursor' = cursor /\ seen' = seen
      /\ frames' = frames /\ doomed' = doomed /\ frames = <<>>
      /\ Iterating("dict") => h[cursor.node].kids = heap[cursor.node].kids
      /\ missed' = IF ~Iterating("array") THEN missed
                   ELSE missed \cup {k \in Filled(h, cursor.node) :
                                        /\ k < cursor.next
                                        /\ k \notin Filled(heap, cursor.node)}
  BY DEF Leave, Running
<1>3. /\ cursor \in Cursors /\ seen \subseteq Keys /\ missed \subseteq Indexes
      /\ frames \in Seq(Frames) /\ doomed \subseteq Ids
      /\ IterationOK(heap, cursor, seen, missed, {})
  BY <1>1 DEF IInv, Typed
<1>4. cursor.node # NULL => cursor.node \in Ids
  BY <1>3 DEF Cursors
<1>5. IterationOK(h, cursor, seen, missed', {})
  <2>1. cursor.node # NULL =>
            /\ cursor.node \in Ids
            /\ heap[cursor.node].type = "dict" =>
                  h[cursor.node].kids = heap[cursor.node].kids /\ missed' = missed
            /\ heap[cursor.node].type = "array" =>
                  missed' = missed \cup {k \in Filled(h, cursor.node) :
                                            /\ k < cursor.next
                                            /\ k \notin Filled(heap, cursor.node)}
    BY <1>2, <1>4 DEF Iterating
  <2> HIDE DEF IterationOK, Sound, Grows
  <2> QED BY <1>1, <1>3, <2>1, IterationGrows
<1>6. missed' \subseteq Indexes
  <2>1. Iterating("array") => Filled(h, cursor.node) \subseteq Indexes
    <3> SUFFICES ASSUME Iterating("array") PROVE Filled(h, cursor.node) \subseteq Indexes
      OBVIOUS
    <3>1. cursor.node \in Ids /\ h[cursor.node].type = "array"
      BY <1>4 DEF Iterating, Grows, Live
    <3> QED BY <3>1, FilledMeans
  <2> QED BY <1>2, <1>3, <2>1
<1>7. owned' \subseteq Ids
  BY DEF Ownership
<1>8. Typed'
  BY <1>2, <1>3, <1>6, <1>7 DEF Typed
<1>9. IInv'
  BY <1>1, <1>2, <1>5, <1>8, NoFrames DEF IInv
<1>10. VisitsExactly
  BY <1>2 DEF VisitsExactly
<1>11. RefusesUnmoved
  BY <1>2 DEF RefusesUnmoved
<1>12. FreesDoomed
  <2>1. \A n \in Ids : Live(heap, n) => Live(heap', n)
    BY <1>2 DEF Grows, Live
  <2> QED BY <1>2, <2>1 DEF FreesDoomed
<1> QED BY <1>9, <1>10, <1>11, <1>12 DEF Safely

(* A call that returns -1 at once.                                         *)
LEMMA RefuseSafely ==
    ASSUME IInv, Running, Refuse
    PROVE  Safely
<1>1. Sound(heap) /\ Ownership(heap, owned, {})
  BY NothingDoomed
<1>2. owned' = owned /\ heap' = heap
  BY DEF Refuse
<1>3. Leave(heap, -1)
  BY DEF Refuse, Leave, iteration
<1>4. Grows(heap, heap)
  BY DEF Grows
<1>5. RefusesUnmoved
  BY <1>2 DEF RefusesUnmoved, Moved
<1>6. Ownership(heap, owned', {})
  BY <1>1, <1>2
<1> QED BY <1>1, <1>3, <1>4, <1>5, <1>6, LeaveSafely

(* sconf_node_create.                                                      *)
LEMMA CreateNodeSafely ==
    ASSUME IInv, NEW type, NEW val \in Values, NEW fault, CreateNode(type, val, fault)
    PROVE  Safely
<1>0. Running /\ Sound(heap) /\ Ownership(heap, owned, {})
  BY NothingDoomed DEF CreateNode
<1>1. CASE ~CanCreate(heap, type, fault)
  <2>1. Refuse
    BY <1>1 DEF CreateNode
  <2> QED BY <1>0, <2>1, RefuseSafely
<1>2. CASE CanCreate(heap, type, fault)
  <2> DEFINE n == Fresh(heap)
             h == Create(heap, n, type, val)
  <2>1. Leave(h, 0) /\ owned' = owned \cup {n}
    BY <1>2 DEF CreateNode
  <2>2. Sound(h) /\ Created(heap, h, n) /\ \A m \in Ids \ {n} : h[m] = heap[m]
    BY <1>0, <1>2, CreateCall
  <2> HIDE DEF n, h
  <2>3. Ownership(h, owned', {})
    BY <1>0, <2>1, <2>2, CreateOwnership
  <2>4. Grows(heap, h)
    BY <2>2 DEF Grows, Created
  <2> QED BY <1>0, <2>1, <2>2, <2>3, <2>4, LeaveSafely
<1> QED BY <1>1, <1>2

(* sconf_node_dict_insert: an error has put the node in all the same.      *)
LEMMA DictInsertNodeSafely ==
    ASSUME IInv, NEW name \in Tokens \cup {NULL}, NEW p \in Ids, NEW n \in Ids,
           DictInsertNode(name, p, n)
    PROVE  Safely
<1>0. /\ Running /\ Sound(heap) /\ Ownership(heap, owned, {})
      /\ n \in owned /\ Live(heap, p) /\ p \notin Subtree(heap, n)
  BY NothingDoomed DEF DictInsertNode, MayInsert
<1>1. CASE name = NULL \/ heap[p].type # "dict"
  <2>1. Refuse
    BY <1>1 DEF DictInsertNode
  <2> QED BY <1>0, <2>1, RefuseSafely
<1>2. CASE ~(name = NULL \/ heap[p].type # "dict")
  <2> DEFINE res == DictInsert(heap, name, p, n)
             h   == res.heap
             d   == heap[p].kids[name]
             r   == IF res.status = "ok" THEN 0 ELSE -1
  <2>1. Leave(h, r) /\ owned' = (owned \ {n}) \cup ({d} \ {NULL})
    BY <1>2 DEF DictInsertNode, DictSearch
  <2>2. /\ Sound(h)
        /\ Grafted(heap, h, p, name, n)
        /\ \A m \in Ids : h[m].type = heap[m].type
        /\ \A m \in Ids \ {p} : h[m].kids = heap[m].kids
        /\ d \in Ids \cup {NULL}
        /\ res.status = IF d = NULL THEN "ok" ELSE "error"
    BY <1>0, <1>2, DictInsertCall
  <2> HIDE DEF res, h, d
  <2>3. owned' = (owned \ {n}) \cup ({d} \cap Ids)
    BY <2>1, <2>2, IdsAssumption
  <2>4. Ownership(h, owned', {})
    BY <1>0, <2>2, <2>3, GraftOwnership DEF d
  <2>5. Grows(heap, h)
    BY <1>2, <2>2 DEF Grows
  <2>6. ASSUME r = -1 PROVE RefusesUnmoved
    <3>1. d \in Ids /\ name \in Tokens /\ name \in Keys
      BY <1>2, <2>2, <2>6 DEF Keys
    <3>2. heap' = h
      BY <2>1 DEF Leave
    <3>3. d \notin owned /\ n # d
      BY <1>0, <3>1 DEF Ownership, d
    <3>4. h[p].kids[name] = n /\ heap[p].kids[name] = d
      BY <2>2 DEF Grafted, d
    <3>5. \A m \in Ids, k \in Keys : Moved(m, k) <=> <<m, k>> = <<p, name>>
      <4> SUFFICES ASSUME NEW m \in Ids, NEW k \in Keys
                   PROVE  Moved(m, k) <=> <<m, k>> = <<p, name>>
        OBVIOUS
      <4>1. CASE <<m, k>> = <<p, name>>
        BY <3>2, <3>3, <3>4, <4>1 DEF Moved
      <4>2. CASE <<m, k>> # <<p, name>>
        BY <2>2, <3>2, <4>2 DEF Moved, Grafted
      <4> QED BY <4>1, <4>2
    <3>6. owned \ owned' = {heap'[p].kids[name]} /\ owned' \ owned = {heap[p].kids[name]}
      BY <1>0, <2>3, <3>1, <3>2, <3>3, <3>4
    <3>7. \A m \in Ids : heap'[m].type = heap[m].type
      BY <2>2, <3>2
    <3> QED BY <3>1, <3>5, <3>6, <3>7 DEF RefusesUnmoved
  <2>7. r \in {-1, 0}
    OBVIOUS
  <2> HIDE DEF r
  <2> QED BY <1>0, <2>1, <2>2, <2>4, <2>5, <2>6, <2>7, LeaveSafely
<1> QED BY <1>1, <1>2

(* sconf_node_array_insert.                                                *)
LEMMA ArrayInsertNodeSafely ==
    ASSUME IInv, NEW index \in Positions, NEW p \in Ids, NEW n \in Ids, NEW fault,
           ArrayInsertNode(index, p, n, fault)
    PROVE  Safely
<1>0. /\ Running /\ Sound(heap) /\ Ownership(heap, owned, {})
      /\ n \in owned /\ Live(heap, p) /\ p \notin Subtree(heap, n)
  BY NothingDoomed DEF ArrayInsertNode, MayInsert
<1>1. CASE heap[p].type # "array"
  <2>1. Refuse
    BY <1>1 DEF ArrayInsertNode
  <2> QED BY <1>0, <2>1, RefuseSafely
<1>2. CASE heap[p].type = "array"
  <2> DEFINE res == ArrayInsert(heap, index, p, n, fault)
             h   == res.heap
  <2>1. IF res.status = "ok" THEN Leave(h, 0) /\ owned' = owned \ {n}
        ELSE Leave(h, -1) /\ owned' = owned
    BY <1>2 DEF ArrayInsertNode
  <2>2. ArrayOutcome(heap, p, index, n, res)
    <3>1. index \in 0 .. UIntMod - 2
      BY ApiAssumption
    <3> QED BY <1>0, <1>2, <3>1, ArrayInsertCall
  <2> HIDE DEF res
  <2>3. CASE res.status = "error" /\ h = heap
    <3>1. Leave(heap, -1) /\ owned' = owned
      BY <2>1, <2>3
    <3>2. Refuse
      <4>1. {k \in Filled(heap, cursor.node) : k < cursor.next
                                        /\ k \notin Filled(heap, cursor.node)} = {}
        OBVIOUS
      <4>2. missed' = missed
        BY <3>1, <4>1 DEF Leave
      <4> QED BY <3>1, <4>2 DEF Leave, Refuse, iteration
    <3> QED BY <1>0, <3>2, RefuseSafely
  <2>4. CASE /\ res.status = "ok"
             /\ Sound(h)
             /\ Grafted(heap, h, p, index, n)
             /\ heap[p].kids[index] \notin Ids
             /\ \A m \in Ids : h[m].type = heap[m].type
    <3> HIDE DEF h
    <3>1. Leave(h, 0) /\ owned' = (owned \ {n}) \cup ({heap[p].kids[index]} \cap Ids)
      BY <2>1, <2>4 DEF h
    <3>2. Ownership(h, owned', {})
      BY <1>0, <2>4, <3>1, GraftOwnership
    <3>3. Grows(heap, h)
      <4>1. \A m \in Ids, k \in Keys : heap[m].kids[k] \in Ids =>
                h[m].kids[k] = heap[m].kids[k]
        BY <2>4 DEF Grafted
      <4> QED BY <2>4, <4>1 DEF Grows
    <3> QED BY <1>0, <2>4, <3>1, <3>2, <3>3, LeaveSafely
  <2> QED BY <2>2, <2>3, <2>4 DEF ArrayOutcome, h
<1> QED BY <1>1, <1>2

(* sconf_node_create_and_insert.                                           *)
LEMMA CreateInsertedSafely ==
    ASSUME IInv, NEW name \in Tokens \cup {NULL}, NEW type, NEW p \in Ids,
           NEW index \in Positions, NEW val \in Values, NEW fault,
           CreateInserted(name, type, p, index, val, fault)
    PROVE  Safely
<1> DEFINE res == CreateAndInsert(heap, name, type, p, index, val, fault)
           h   == res.heap
           r   == IF res.status = "ok" THEN 0 ELSE -1
<1>0. /\ Running /\ Sound(heap) /\ Ownership(heap, owned, {}) /\ Live(heap, p)
      /\ Leave(h, r) /\ owned' = owned
  BY NothingDoomed DEF CreateInserted
<1>1. InsertOutcome(heap, owned, res)
  <2>1. index \in 0 .. UIntMod - 2
    BY ApiAssumption
  <2> QED BY <1>0, <2>1, InsertCall
<1> HIDE DEF res
<1>2. /\ Sound(h) /\ Ownership(h, owned, {}) /\ Grows(heap, h)
      /\ res.status # "ok" =>
            \A m \in Ids : SameKids(heap, h, m) /\ h[m].type = heap[m].type
  BY <1>1 DEF InsertOutcome
<1>3. ASSUME r = -1 PROVE RefusesUnmoved
  <2>1. heap' = h
    BY <1>0 DEF Leave
  <2>2. \A m \in Ids : SameKids(heap, h, m) /\ h[m].type = heap[m].type
    BY <1>2, <1>3
  <2> HIDE DEF h
  <2>3. \A m \in Ids, k \in Keys : ~Moved(m, k)
    BY <2>1, <2>2 DEF Moved, SameKids
  <2> QED BY <1>0, <2>1, <2>2, <2>3 DEF RefusesUnmoved
<1>4. r \in {-1, 0}
  OBVIOUS
<1> HIDE DEF h, r
<1>5. Ownership(h, owned', {})
  BY <1>0, <1>2
<1> QED BY <1>0, <1>2, <1>3, <1>4, <1>5, LeaveSafely

(* A step of an iteration: the heap stays as it is.                        *)
LEMMA IterationSafely ==
    ASSUME IInv, Running, UNCHANGED <<heap, owned, frames, doomed>>,
           ret' \in {-1, 0, 1}, cursor' \in Cursors, seen' \subseteq Keys,
           missed' \subseteq Indexes,
           IterationOK(heap, cursor', seen', missed', {}),
           VisitsExactly
    PROVE  Safely
<1>1. doomed = {} /\ Ownership(heap, owned, {}) /\ Sound(heap)
  BY NothingDoomed
<1>2. /\ heap' = heap /\ owned' = owned /\ frames' = frames /\ doomed' = doomed
      /\ frames = <<>>
  BY DEF Running
<1>3. owned \subseteq Ids /\ frames \in Seq(Frames) /\ doomed \subseteq Ids
  BY DEF IInv, Typed
<1>4. Typed'
  BY <1>1, <1>2, <1>3 DEF Typed
<1>5. IInv'
  BY <1>1, <1>2, <1>4, NoFrames DEF IInv
<1>6. RefusesUnmoved
  BY <1>2 DEF RefusesUnmoved, Moved
<1>7. FreesDoomed
  BY <1>2 DEF FreesDoomed
<1> QED BY <1>5, <1>6, <1>7 DEF Safely

(* What an iteration that is over has to satisfy: nothing.                 *)
LEMMA NoIteration ==
    /\ NoCursor \in Cursors
    /\ NoCursor.node = NULL
    /\ \A h, sn, ms, D : IterationOK(h, NoCursor, sn, ms, D)
<1>1. 0 \in 0 .. ArrayMax
  BY IndexAssumption
<1> QED BY <1>1 DEF NoCursor, Cursors, IterationOK

(* An iteration begins: nothing is behind its position.                    *)
LEMMA StartIterationSafely ==
    ASSUME IInv, NEW n \in Ids, NEW type \in Containers, StartIteration(n, type)
    PROVE  Safely
<1>0. Running /\ Sound(heap) /\ Live(heap, n) /\ cursor.node = NULL
  BY NothingDoomed DEF StartIteration
<1>1. CASE heap[n].type # type
  <2>1. Refuse
    BY <1>1 DEF StartIteration
  <2> QED BY <1>0, <2>1, RefuseSafely
<1>2. CASE heap[n].type = type
  <2> DEFINE cur == [node |-> n, next |-> 0,
                     todo |-> IF type = "dict" THEN Filled(heap, n) ELSE {}]
  <2>1. /\ cursor' = cur /\ seen' = {} /\ missed' = {} /\ ret' = 0
        /\ UNCHANGED <<heap, owned, frames, doomed>>
    BY <1>2 DEF StartIteration
  <2>2. /\ type = "array" => Filled(heap, n) \subseteq Indexes
        /\ type = "dict" => Filled(heap, n) \subseteq Tokens
    BY <1>0, <1>2, FilledMeans
  <2>3. cur \in Cursors
    BY <2>2, IndexAssumption DEF Cursors
  <2>4. IterationOK(heap, cur, {}, {}, {})
    <3>1. type = "array" => {k \in Filled(heap, n) : k < 0} = {}
      <4>1. \A k \in Indexes : ~(k < 0)
        BY IndexAssumption DEF Indexes
      <4> QED BY <2>2, <4>1
    <3>2. cur.node = n /\ cur.next = 0 /\ (type = "dict" => cur.todo = Filled(heap, n))
      OBVIOUS
    <3> HIDE DEF cur
    <3> QED BY <1>0, <1>2, <3>1, <3>2 DEF IterationOK
  <2>5. VisitsExactly
    BY <1>0, <2>1 DEF VisitsExactly
  <2> HIDE DEF cur
  <2>6. IterationOK(heap, cursor', seen', missed', {})
    BY <2>1, <2>4
  <2> QED BY <1>0, <2>1, <2>3, <2>5, <2>6, IterationSafely
<1> QED BY <1>1, <1>2

(* The first of a set of indexes.                                          *)
LEMMA FirstIsLeast ==
    ASSUME NEW S \in SUBSET Indexes, S # {}
    PROVE  First(S) \in S /\ \A k \in S : First(S) <= k
<1>1. S \in SUBSET Nat
  BY IndexAssumption DEF Indexes
<1>2. \E m \in S : \A k \in S : m <= k
  BY <1>1, LeastNatural
<1> QED BY <1>2 DEF First

(* The next element is the first that is not behind the position.          *)
LEMMA VisitElementSafely ==
    ASSUME IInv, VisitElement
    PROVE  Safely
<1> DEFINE c == cursor.node
           F == Filled(heap, c)
           rest == {i \in F : i >= cursor.next}
           f == First(rest)
<1>0. /\ Running /\ Sound(heap) /\ UNCHANGED <<heap, owned, frames, doomed>>
      /\ missed' = missed /\ c # NULL /\ heap[c].type = "array"
  BY NothingDoomed DEF VisitElement, Iterating
<1>1. /\ cursor \in Cursors /\ seen \subseteq Keys /\ missed \subseteq Indexes
      /\ IterationOK(heap, cursor, seen, missed, {})
  BY <1>0, NothingDoomed DEF IInv, Typed
<1>2. c \in Ids /\ cursor.next \in 0 .. ArrayMax /\ cursor.todo \subseteq Tokens
  BY <1>0, <1>1 DEF Cursors
<1>3. F \subseteq Indexes /\ F = {k \in Keys : heap[c].kids[k] \in Ids}
  BY <1>0, <1>2, FilledMeans
<1>4. /\ Live(heap, c) /\ seen \cap missed = {}
      /\ seen \cup missed = {k \in F : k < cursor.next}
  BY <1>0, <1>1 DEF IterationOK
<1>5. \A k \in F : k \in Int
  BY <1>3, IndexAssumption DEF Indexes
<1>6. CASE rest # {}
  <2>1. /\ cursor' = [cursor EXCEPT !.next = f + 1]
        /\ seen' = seen \cup {f} /\ ret' = 1
    BY <1>6 DEF VisitElement
  <2>2. f \in rest /\ \A k \in rest : f <= k
    <3>1. rest \in SUBSET Indexes
      BY <1>3
    <3> HIDE DEF rest
    <3> QED BY <1>6, <3>1, FirstIsLeast
  <2> HIDE DEF f
  <2>3. f \in F /\ f >= cursor.next /\ f \in Indexes /\ f \in Keys /\ heap[c].kids[f] \in Ids
    BY <1>3, <2>2
  <2>4. {k \in F : k < f + 1} = {k \in F : k < cursor.next} \cup {f}
    <3>1. ASSUME NEW k \in F PROVE k < f + 1 <=> (k < cursor.next \/ k = f)
      <4>1. k \in Int /\ f \in Int /\ cursor.next \in Int
        BY <1>2, <1>5, <2>3
      <4>2. k >= cursor.next => f <= k
        BY <2>2
      <4> QED BY <2>3, <4>1, <4>2
    <3> HIDE DEF F
    <3> QED BY <2>3, <3>1
  <2>5. f + 1 \in 0 .. ArrayMax
    BY <2>3, IndexAssumption DEF Indexes
  <2>6. /\ cursor'.node = c /\ cursor'.next = f + 1 /\ cursor'.todo = cursor.todo
        /\ cursor' \in Cursors
    <3>1. cursor' = [node |-> c, next |-> f + 1, todo |-> cursor.todo]
      BY <1>1, <2>1 DEF Cursors
    <3> QED BY <1>2, <2>5, <3>1 DEF Cursors
  <2>7. f \notin seen /\ f \notin missed
    <3>1. ~(f < cursor.next)
      BY <1>2, <1>5, <2>3
    <3> QED BY <1>4, <3>1
  <2> HIDE DEF F, c
  <2>8. IterationOK(heap, cursor', seen', missed', {})
    <3>1. seen' \cap missed' = {} /\ seen' \cup missed' = {k \in F : k < f + 1}
      BY <1>0, <1>4, <2>1, <2>4, <2>7
    <3>2. F = Filled(heap, c) /\ heap[c].type # "dict" /\ heap[c].type \in Containers
      BY <1>0 DEF F, c, Containers
    <3> QED BY <1>0, <1>4, <2>6, <3>1, <3>2 DEF IterationOK
  <2>9. VisitsExactly
    <3>1. seen' \ seen = {f}
      BY <2>1, <2>7
    <3>2. Cardinality(seen' \ seen) = 1
      BY <3>1, FS_Singleton
    <3> QED BY <2>1, <2>3, <3>1, <3>2 DEF VisitsExactly, c
  <2>10. seen' \subseteq Keys /\ missed' \subseteq Indexes /\ ret' \in {-1, 0, 1}
    BY <1>0, <1>1, <2>1, <2>3
  <2> QED BY <1>0, <2>6, <2>8, <2>9, <2>10, IterationSafely
<1>7. CASE rest = {}
  <2>1. cursor' = NoCursor /\ ret' = 0 /\ seen' = seen
    BY <1>7 DEF VisitElement, EndIteration
  <2>2. {k \in F : k < cursor.next} = F
    BY <1>2, <1>5, <1>7
  <2>3. VisitsExactly
    BY <1>4, <2>1, <2>2 DEF VisitsExactly
  <2>4. /\ cursor' \in Cursors /\ IterationOK(heap, cursor', seen', missed', {})
        /\ seen' \subseteq Keys /\ missed' \subseteq Indexes /\ ret' \in {-1, 0, 1}
    BY <1>0, <1>1, <2>1, NoIteration
  <2> QED BY <1>0, <2>3, <2>4, IterationSafely
<1> QED BY <1>6, <1>7

(* The next name is one that was to come.                                  *)
LEMMA VisitNameSafely ==
    ASSUME IInv, VisitName
    PROVE  Safely
<1> DEFINE c == cursor.node
           F == Filled(heap, c)
<1>0. /\ Running /\ Sound(heap) /\ UNCHANGED <<heap, owned, frames, doomed>>
      /\ missed' = missed /\ c # NULL /\ heap[c].type = "dict"
  BY NothingDoomed DEF VisitName, Iterating
<1>1. /\ cursor \in Cursors /\ seen \subseteq Keys /\ missed \subseteq Indexes
      /\ IterationOK(heap, cursor, seen, missed, {})
  BY <1>0, NothingDoomed DEF IInv, Typed
<1>2. c \in Ids /\ cursor.next \in 0 .. ArrayMax /\ cursor.todo \subseteq Tokens
  BY <1>0, <1>1 DEF Cursors
<1>3. F = {k \in Keys : heap[c].kids[k] \in Ids}
  BY <1>0, <1>2, FilledMeans
<1>4. /\ Live(heap, c) /\ seen \cup cursor.todo = F
      /\ seen \cap cursor.todo = {} /\ missed = {}
  BY <1>0, <1>1 DEF IterationOK
<1>5. CASE cursor.todo # {}
  <2>1. PICK name \in cursor.todo : /\ cursor' = [cursor EXCEPT !.todo = @ \ {name}]
                                    /\ seen' = seen \cup {name} /\ ret' = 1
    BY <1>5 DEF VisitName
  <2>2. name \notin seen /\ name \in Keys /\ heap[c].kids[name] \in Ids
    BY <1>3, <1>4
  <2>3. /\ cursor'.node = c /\ cursor'.todo = cursor.todo \ {name}
        /\ cursor' \in Cursors
    <3>1. cursor' = [node |-> c, next |-> cursor.next, todo |-> cursor.todo \ {name}]
      BY <1>1, <2>1 DEF Cursors
    <3> QED BY <1>2, <3>1 DEF Cursors
  <2> HIDE DEF F, c
  <2>4. IterationOK(heap, cursor', seen', missed', {})
    <3>1. seen' \cup cursor'.todo = F /\ seen' \cap cursor'.todo = {} /\ missed' = {}
          /\ seen' \cap missed' = {}
      BY <1>0, <1>4, <2>1, <2>2, <2>3
    <3>2. F = Filled(heap, c) /\ heap[c].type # "array" /\ heap[c].type \in Containers
      BY <1>0 DEF F, c, Containers
    <3> QED BY <1>0, <1>4, <2>3, <3>1, <3>2 DEF IterationOK
  <2>5. VisitsExactly
    <3>1. seen' \ seen = {name}
      BY <2>1, <2>2
    <3>2. Cardinality(seen' \ seen) = 1
      BY <3>1, FS_Singleton
    <3> QED BY <2>1, <2>2, <3>1, <3>2 DEF VisitsExactly, c
  <2>6. seen' \subseteq Keys /\ missed' \subseteq Indexes /\ ret' \in {-1, 0, 1}
    BY <1>0, <1>1, <2>1, <2>2
  <2> QED BY <1>0, <2>3, <2>4, <2>5, <2>6, IterationSafely
<1>6. CASE cursor.todo = {}
  <2>1. cursor' = NoCursor /\ ret' = 0 /\ seen' = seen
    BY <1>6 DEF VisitName, EndIteration
  <2>2. VisitsExactly
    BY <1>4, <1>6, <2>1 DEF VisitsExactly
  <2>3. /\ cursor' \in Cursors /\ IterationOK(heap, cursor', seen', missed', {})
        /\ seen' \subseteq Keys /\ missed' \subseteq Indexes /\ ret' \in {-1, 0, 1}
    BY <1>0, <1>1, <2>1, NoIteration
  <2> QED BY <1>0, <2>2, <2>3, IterationSafely
<1> QED BY <1>5, <1>6

(* An iteration may be left at any time.                                   *)
LEMMA StopIterationSafely ==
    ASSUME IInv, StopIteration
    PROVE  Safely
<1>1. /\ Running /\ UNCHANGED <<heap, owned, frames, doomed>>
      /\ cursor' = NoCursor /\ ret' = -1 /\ seen' = seen /\ missed' = missed
  BY DEF StopIteration, EndIteration
<1>2. VisitsExactly
  BY <1>1 DEF VisitsExactly
<1>3. /\ cursor' \in Cursors /\ IterationOK(heap, cursor', seen', missed', {})
      /\ seen' \subseteq Keys /\ missed' \subseteq Indexes /\ ret' \in {-1, 0, 1}
  BY <1>1, NoIteration DEF IInv, Typed
<1> QED BY <1>1, <1>2, <1>3, IterationSafely

(* A step of sconf_node_destroy moves nothing and visits nothing.          *)
LEMMA DestroyQuiet ==
    ASSUME ret' = 0, cursor' = cursor, seen' = seen
    PROVE  VisitsExactly /\ RefusesUnmoved
  BY DEF VisitsExactly, RefusesUnmoved

(* sconf_node_destroy is called for a node of the program's.               *)
LEMMA DestroyNodeSafely ==
    ASSUME IInv, NEW n \in Ids, DestroyNode(n)
    PROVE  Safely
<1>0. /\ Running /\ Sound(heap) /\ Ownership(heap, owned, {}) /\ doomed = {}
      /\ n \in owned /\ cursor.node \notin Subtree(heap, n)
      /\ frames' = <<Frame(n)>> /\ doomed' = Subtree(heap, n)
      /\ owned' = owned \ {n} /\ ret' = 0 /\ heap' = heap
      /\ cursor' = cursor /\ seen' = seen /\ missed' = missed
  BY NothingDoomed DEF DestroyNode, iteration
<1>1. Frame(n) = [node |-> n, todo |-> Filled(heap, n)] /\ Frame(n) \in Frames
      /\ Filled(heap, n) = {k \in Keys : heap[n].kids[k] \in Ids}
  BY <1>0, FilledMeans DEF Frame, Frames
<1>2. /\ Len(frames') = 1 /\ frames' # <<>> /\ frames'[1] = Frame(n)
      /\ frames' \in Seq(Frames)
  BY <1>0, <1>1
<1>3. Whole(heap, frames'[1], n)
  BY <1>1, <1>2 DEF Whole
<1>4. Destroying(heap, frames', Subtree(heap, n))
  BY <1>0, <1>2, <1>3, DestroyStart
<1>5. Ownership(heap, owned \ {n}, Subtree(heap, n))
  BY <1>0, DestroyOwnership
<1>6. IterationOK(heap, cursor, seen, missed, Subtree(heap, n))
  BY <1>0 DEF IInv, IterationOK
<1>7. Subtree(heap, n) \subseteq Ids
  BY SubtreeClosed
<1>8. Typed'
  BY <1>0, <1>2, <1>7 DEF IInv, Typed
<1>9. IInv'
  BY <1>0, <1>4, <1>5, <1>6, <1>8 DEF IInv
<1>10. FreesDoomed
  BY <1>0, <1>2 DEF FreesDoomed, Running
<1> QED BY <1>0, <1>9, <1>10, DestroyQuiet DEF Safely

(* What a call on the stack is.                                            *)
LEMMA FramesTyped ==
    ASSUME NEW s \in Seq(Frames), NEW i \in 1 .. Len(s)
    PROVE  s[i].node \in Ids /\ s[i].todo \subseteq Keys
<1>1. s[i] \in Frames
  OBVIOUS
<1> QED BY <1>1 DEF Frames

(* The stack of calls when one returns.                                    *)
LEMMA PopFrame ==
    ASSUME NEW F, NEW s \in Seq(F), s # <<>>
    PROVE  /\ Head(s) = s[1] /\ Len(s) \in Nat \ {0} /\ 1 \in 1 .. Len(s)
           /\ Tail(s) \in Seq(F) /\ Len(Tail(s)) = Len(s) - 1
           /\ Tail(s) = <<>> <=> Len(Tail(s)) = 0
           /\ \A i \in 1 .. Len(Tail(s)) : Tail(s)[i] = s[i + 1]
<1>1. Head(s) = s[1] /\ Len(s) \in Nat \ {0} /\ 1 \in 1 .. Len(s)
  OBVIOUS
<1>2. Tail(s) \in Seq(F) /\ Len(Tail(s)) = Len(s) - 1
  OBVIOUS
<1>3. Tail(s) = <<>> <=> Len(Tail(s)) = 0
  <2> DEFINE t == Tail(s)
  <2>1. t \in Seq(F)
    BY <1>2
  <2> HIDE DEF t
  <2>2. t = <<>> <=> Len(t) = 0
    BY <2>1
  <2> QED BY <2>2 DEF t
<1>4. \A i \in 1 .. Len(Tail(s)) : Tail(s)[i] = s[i + 1]
  BY <1>1, <1>2
<1> QED BY <1>1, <1>2, <1>3, <1>4

(* The stack of calls when one is entered.                                 *)
LEMMA PushFrame ==
    ASSUME NEW F, NEW s \in Seq(F), s # <<>>, NEW a \in F, NEW b \in F
    PROVE  LET s2 == <<a, b>> \o Tail(s)
           IN  /\ s2 \in Seq(F) /\ s2 # <<>> /\ Len(s2) = Len(s) + 1
               /\ s2[1] = a
               /\ \A i \in 1 .. Len(s) : s2[i + 1] = IF i = 1 THEN b ELSE s[i]
<1> DEFINE t  == Tail(s)
           s2 == <<a, b>> \o t
<1>1. Len(s) \in Nat \ {0} /\ t \in Seq(F) /\ Len(t) = Len(s) - 1
  OBVIOUS
<1>2. \A i \in 1 .. Len(t) : t[i] = s[i + 1]
  OBVIOUS
<1>3. <<a, b>> \in Seq(F) /\ Len(<<a, b>>) = 2 /\ <<a, b>>[1] = a /\ <<a, b>>[2] = b
  OBVIOUS
<1> HIDE DEF t
<1>4. s2 \in Seq(F) /\ Len(s2) = Len(t) + 2
  BY <1>1, <1>3
<1>5. s2[1] = a /\ s2[2] = b
  BY <1>1, <1>3
<1>6. \A i \in 1 .. Len(t) : s2[i + 2] = t[i]
  BY <1>1, <1>3
<1> HIDE DEF s2
<1>7. ASSUME NEW i \in 1 .. Len(s) PROVE s2[i + 1] = IF i = 1 THEN b ELSE s[i]
  <2>1. CASE i = 1
    BY <1>5, <2>1
  <2>2. CASE i # 1
    <3>1. i - 1 \in 1 .. Len(t) /\ (i - 1) + 2 = i + 1 /\ (i - 1) + 1 = i
      BY <1>1, <2>2
    <3>2. s2[i + 1] = t[i - 1] /\ t[i - 1] = s[i]
      BY <1>2, <1>6, <3>1
    <3> QED BY <2>2, <3>2
  <2> QED BY <2>1, <2>2
<1>8. Len(s2) = Len(s) + 1 /\ s2 # <<>>
  BY <1>1, <1>4
<1> QED BY <1>4, <1>5, <1>7, <1>8 DEF s2, t

(* The recursion goes into a child.                                        *)
LEMMA DestroyChildSafely ==
    ASSUME IInv, DestroyChild
    PROVE  Safely
<1>0. /\ Sound(heap) /\ Ownership(heap, owned, doomed) /\ Destroying(heap, frames, doomed)
      /\ frames \in Seq(Frames) /\ frames # <<>> /\ ret = 0
      /\ doomed \in SUBSET Ids
      /\ UNCHANGED <<heap, owned, ret, cursor, seen, missed, doomed>>
  BY DEF IInv, Typed, DestroyChild, iteration
<1>1. PICK k \in Top.todo :
          frames' = <<Frame(heap[Top.node].kids[k]),
                      [Top EXCEPT !.todo = @ \ {k}]>> \o Tail(frames)
  BY DEF DestroyChild
<1> DEFINE t == Top.node
           c == heap[t].kids[k]
           a == Frame(c)
           b == [Top EXCEPT !.todo = @ \ {k}]
<1>2. Top = frames[1] /\ Top \in Frames /\ Len(frames) \in Nat \ {0} /\ 1 \in 1 .. Len(frames)
  BY <1>0 DEF Top
<1>3. c \in Ids /\ t \in Ids
  BY <1>0, <1>2 DEF Destroying, FrameOK, Frames
<1>4. /\ a = [node |-> c, todo |-> Filled(heap, c)] /\ a \in Frames
      /\ Filled(heap, c) = {j \in Keys : heap[c].kids[j] \in Ids}
  <2> HIDE DEF c
  <2> QED BY <1>0, <1>3, FilledMeans DEF Frame, Frames
<1>5. b \in Frames /\ b.node = t /\ b.todo = Top.todo \ {k}
  BY <1>2 DEF Frames
<1>6. frames' = <<a, b>> \o Tail(frames)
  BY <1>1
<1>7. /\ frames' \in Seq(Frames) /\ frames' # <<>> /\ Len(frames') = Len(frames) + 1
      /\ frames'[1] = a
      /\ \A i \in 1 .. Len(frames) : frames'[i + 1] = IF i = 1 THEN b ELSE frames[i]
  <2>1. a \in Frames /\ b \in Frames /\ frames \in Seq(Frames) /\ frames # <<>>
    BY <1>0, <1>4, <1>5
  <2> DEFINE s2 == <<a, b>> \o Tail(frames)
  <2> HIDE DEF a, b, Frames
  <2>2. /\ s2 \in Seq(Frames) /\ s2 # <<>> /\ Len(s2) = Len(frames) + 1
        /\ s2[1] = a
        /\ \A i \in 1 .. Len(frames) : s2[i + 1] = IF i = 1 THEN b ELSE frames[i]
    BY <2>1, PushFrame
  <2>3. frames' = s2
    BY <1>6
  <2> HIDE DEF s2
  <2> QED BY <2>2, <2>3
<1>8. \A i \in 1 .. Len(frames) : frames[i].node \in Ids /\ frames[i].todo \subseteq Keys
  BY <1>0, FramesTyped
<1>9. Entered(heap, frames, frames', k)
  <2>1. Whole(heap, frames'[1], heap[frames[1].node].kids[k])
    <3>1. heap[frames[1].node].kids[k] = c /\ frames'[1] = a
      BY <1>2, <1>7
    <3> HIDE DEF a, c
    <3>2. a.node = c /\ a.todo = {j \in Keys : heap[c].kids[j] \in Ids}
      BY <1>4
    <3> QED BY <3>1, <3>2 DEF Whole
  <2> HIDE DEF a, b
  <2>2. \A i \in 1 .. Len(frames) :
            /\ frames'[i + 1].node = frames[i].node
            /\ frames'[i + 1].todo = IF i = 1 THEN frames[1].todo \ {k} ELSE frames[i].todo
    BY <1>2, <1>5, <1>7
  <2> QED BY <1>2, <1>7, <2>1, <2>2 DEF Entered
<1>10. Destroying(heap, frames', doomed)
  BY <1>0, <1>2, <1>7, <1>8, <1>9, DestroyEnter
<1>11. Typed'
  BY <1>0, <1>7 DEF IInv, Typed
<1>12. IInv'
  BY <1>0, <1>10, <1>11 DEF IInv
<1>13. FreesDoomed
  BY <1>0, <1>7 DEF FreesDoomed
<1> QED BY <1>0, <1>12, <1>13, DestroyQuiet DEF Safely

(* Freeing a node keeps the heap as it has to be.                          *)
LEMMA ReleaseSound ==
    ASSUME NEW h, Sound(h), NEW t \in Ids
    PROVE  Sound(Release(h, t)) /\ Freed(h, Release(h, t), t)
<1> DEFINE h2 == Release(h, t)
<1>1. h \in Heaps /\ Slots(h) /\ Plain(h)
  BY DEF Sound
<1>2. FreeCell \in Cell /\ \A k \in Keys : FreeCell.kids[k] = NULL
  BY IndexAssumption DEF FreeCell, Cell
<1>3. CellSlots(FreeCell)
  <2>1. FreeCell.type = "free" /\ FreeCell.size = 0
    BY DEF FreeCell
  <2> QED BY <1>2, <2>1, IdsAssumption DEF CellSlots, Keys
<1>4. h2 \in Heaps /\ h2[t] = FreeCell /\ \A m \in Ids \ {t} : h2[m] = h[m]
  BY <1>1, <1>2 DEF Release, Heaps
<1>5. Plain(h2)
  BY <1>1, ReleasePlain DEF Heaps
<1> HIDE DEF h2
<1>6. Sound(h2)
  BY <1>1, <1>3, <1>4, <1>5 DEF Sound, Slots
<1>7. Freed(h, h2, t)
  <2>1. FreeCell.type = "free"
    BY DEF FreeCell
  <2> QED BY <1>2, <1>4, <2>1, IdsAssumption DEF Freed, Live
<1> QED BY <1>6, <1>7 DEF h2

(* The recursion comes back from a node and frees it.                      *)
LEMMA DestroyFreeSafely ==
    ASSUME IInv, DestroyFree
    PROVE  Safely
<1> DEFINE t == frames[1].node
           freed == {n \in Ids : Live(heap, n) /\ ~Live(heap', n)}
<1>0. /\ Sound(heap) /\ Ownership(heap, owned, doomed) /\ Destroying(heap, frames, doomed)
      /\ frames \in Seq(Frames) /\ frames # <<>> /\ ret = 0
      /\ doomed \in SUBSET Ids
      /\ UNCHANGED <<owned, ret, cursor, seen, missed>>
      /\ heap' = Release(heap, Top.node) /\ Top.todo = {}
      /\ frames' = Tail(frames)
      /\ doomed' = IF frames' = <<>> THEN {} ELSE doomed
      /\ IterationOK(heap, cursor, seen, missed, doomed)
  BY DEF IInv, Typed, DestroyFree, iteration
<1>1. /\ Top = frames[1] /\ Len(frames) \in Nat \ {0} /\ 1 \in 1 .. Len(frames)
      /\ Tail(frames) \in Seq(Frames) /\ Len(Tail(frames)) = Len(frames) - 1
      /\ Tail(frames) = <<>> <=> Len(Tail(frames)) = 0
      /\ \A i \in 1 .. Len(Tail(frames)) : Tail(frames)[i] = frames[i + 1]
      /\ \A i \in 1 .. Len(frames) : frames[i].node \in Ids /\ frames[i].todo \subseteq Keys
  <2>1. /\ Head(frames) = frames[1] /\ Len(frames) \in Nat \ {0} /\ 1 \in 1 .. Len(frames)
        /\ Tail(frames) \in Seq(Frames) /\ Len(Tail(frames)) = Len(frames) - 1
        /\ Tail(frames) = <<>> <=> Len(Tail(frames)) = 0
        /\ \A i \in 1 .. Len(Tail(frames)) : Tail(frames)[i] = frames[i + 1]
    <3> HIDE DEF Frames
    <3> QED BY <1>0, PopFrame
  <2>2. \A i \in 1 .. Len(frames) : frames[i].node \in Ids /\ frames[i].todo \subseteq Keys
    BY <1>0, FramesTyped
  <2> QED BY <2>1, <2>2 DEF Top
<1>2. Left(frames, frames')
  BY <1>0, <1>1 DEF Left
<1>3. Sound(heap') /\ Freed(heap, heap', t) /\ t \in Ids
  BY <1>0, <1>1, ReleaseSound
<1>4. t \in doomed /\ FrameOK(heap, frames, doomed, 1)
  BY <1>0, <1>1 DEF Destroying, FrameOK
<1>5. /\ frames' # <<>> => Destroying(heap', frames', doomed)
      /\ frames' = <<>> => \A n \in doomed : ~Live(heap', n)
  <2>1. frames' = <<>> <=> Len(frames') = 0
    BY <1>0, <1>1
  <2> QED BY <1>0, <1>1, <1>2, <1>3, <2>1, DestroyLeave
<1>6. Ownership(heap', owned, doomed)
  BY <1>0, <1>3, <1>4, FreeOwnership
<1>7. Ownership(heap', owned', doomed')
  <2>1. frames' = <<>> => Ownership(heap', owned, {})
    BY <1>5, <1>6, DestroyedOwnership
  <2> QED BY <1>0, <1>6, <2>1
<1>8. Destroying(heap', frames', doomed')
  BY <1>0, <1>5, NoFrames
<1>9. \A n \in Ids : n # t => heap'[n] = heap[n]
  BY <1>3 DEF Freed
<1>10. IterationOK(heap', cursor, seen, missed, doomed')
  <2>1. cursor.node # NULL => cursor.node \in Ids /\ cursor.node # t
    BY <1>0, <1>4 DEF IInv, Typed, Cursors, IterationOK
  <2>2. cursor.node # NULL => /\ heap'[cursor.node] = heap[cursor.node]
                              /\ Filled(heap', cursor.node) = Filled(heap, cursor.node)
                              /\ Live(heap, cursor.node) <=> Live(heap', cursor.node)
    BY <1>9, <2>1 DEF Filled, Live
  <2>3. doomed' \subseteq doomed
    BY <1>0
  <2> QED BY <1>0, <2>2, <2>3 DEF IterationOK
<1>11. Typed'
  BY <1>0, <1>1, <1>3 DEF IInv, Typed
<1>12. IInv'
  BY <1>0, <1>7, <1>8, <1>10, <1>11 DEF IInv
<1>13. FreesDoomed
  <2>1. freed \subseteq {t}
    BY <1>9 DEF Live
  <2>2. \A k \in Filled(heap, t) : ~Live(heap, heap[t].kids[k])
    <3>1. Filled(heap, t) = {k \in Keys : heap[t].kids[k] \in Ids}
      BY <1>0, <1>3, FilledMeans
    <3>2. frames[1].todo = {}
      BY <1>0, <1>1
    <3> QED BY <1>4, <3>1, <3>2 DEF FrameOK
  <2>3. freed \subseteq doomed /\ \A n \in freed : n = t
    BY <1>4, <2>1
  <2> QED BY <1>5, <2>2, <2>3 DEF FreesDoomed
<1> QED BY <1>0, <1>12, <1>13, DestroyQuiet DEF Safely

-----------------------------------------------------------------------------
(* The theorems.                                                           *)

(* Before the first call there is no node.                                 *)
LEMMA InitInvariant == Init => IInv
<1> SUFFICES ASSUME Init PROVE IInv
  OBVIOUS
<1>1. /\ heap = [n \in Ids |-> FreeCell] /\ owned = {} /\ ret = 0 /\ cursor = NoCursor
      /\ seen = {} /\ missed = {} /\ frames = <<>> /\ doomed = {}
  BY DEF Init
<1>2. FreeCell \in Cell /\ FreeCell.type = "free" /\ FreeCell.size = 0
      /\ \A k \in Keys : FreeCell.kids[k] = NULL
  BY IndexAssumption DEF FreeCell, Cell
<1>3. CellSlots(FreeCell)
  BY <1>2, IdsAssumption DEF CellSlots, Keys
<1>4. \A n \in Ids : heap[n] = FreeCell
  BY <1>1
<1>5. heap \in Heaps
  BY <1>1, <1>2 DEF Heaps
<1> HIDE DEF FreeCell
<1>6. Sound(heap)
  BY <1>2, <1>3, <1>4, <1>5 DEF Sound, Slots, Plain, Keys
<1>7. \A n \in Ids : ~Live(heap, n) /\ \A k \in Keys : heap[n].kids[k] \notin Ids
  BY <1>2, <1>4, IdsAssumption DEF Live
<1>8. Ownership(heap, owned, doomed)
  BY <1>1, <1>7 DEF Ownership, OneParent, Acyclic, Rooted
<1>9. Destroying(heap, frames, doomed)
  BY <1>1 DEF Destroying, FramesApart, FramesCover
<1>10. Typed
  BY <1>1, <1>6, NoIteration DEF Typed
<1> QED BY <1>1, <1>8, <1>9, <1>10, NoIteration DEF IInv

(* Every step keeps the invariant and the action properties.               *)
LEMMA NextSafely ==
    ASSUME IInv, [Next]_vars
    PROVE  IInv' /\ [VisitsExactly]_vars /\ [RefusesUnmoved]_vars /\ [FreesDoomed]_vars
<1>1. CASE UNCHANGED vars
  <2>1. /\ heap' = heap /\ owned' = owned /\ ret' = ret /\ cursor' = cursor /\ seen' = seen
        /\ missed' = missed /\ frames' = frames /\ doomed' = doomed
    BY <1>1 DEF vars, iteration
  <2>2. IInv'
    BY <2>1 DEF IInv, Typed
  <2> QED BY <1>1, <2>2
<1>2. CASE Next
  <2> SUFFICES Safely
    BY DEF Safely
  <2>1. ASSUME NEW type \in NewTypes, NEW val \in Values, NEW fault \in AllocFaults,
               CreateNode(type, val, fault)
        PROVE  Safely
    BY <2>1, CreateNodeSafely
  <2>2. ASSUME NEW name \in Tokens \cup {NULL}, NEW parent \in Ids, NEW node \in Ids,
               DictInsertNode(name, parent, node)
        PROVE  Safely
    BY <2>2, DictInsertNodeSafely
  <2>3. ASSUME NEW index \in Positions, NEW parent \in Ids, NEW node \in Ids,
               NEW fault \in AllocFaults, ArrayInsertNode(index, parent, node, fault)
        PROVE  Safely
    BY <2>3, ArrayInsertNodeSafely
  <2>4. ASSUME NEW name \in Tokens \cup {NULL}, NEW type \in NewTypes, NEW parent \in Ids,
               NEW index \in Positions, NEW val \in Values, NEW fault \in AllocFaults,
               CreateInserted(name, type, parent, index, val, fault)
        PROVE  Safely
    BY <2>4, CreateInsertedSafely
  <2>5. ASSUME NEW n \in Ids, NEW type \in Containers, StartIteration(n, type)
        PROVE  Safely
    BY <2>5, StartIterationSafely
  <2>6. CASE VisitElement
    BY <2>6, VisitElementSafely
  <2>7. CASE VisitName
    BY <2>7, VisitNameSafely
  <2>8. CASE StopIteration
    BY <2>8, StopIterationSafely
  <2>9. ASSUME NEW n \in Ids, DestroyNode(n)
        PROVE  Safely
    BY <2>9, DestroyNodeSafely
  <2>10. CASE DestroyChild
    BY <2>10, DestroyChildSafely
  <2>11. CASE DestroyFree
    BY <2>11, DestroyFreeSafely
  <2> QED
    BY <1>2, <2>1, <2>2, <2>3, <2>4, <2>5, <2>6, <2>7, <2>8, <2>9, <2>10, <2>11 DEF Next
<1> QED BY <1>1, <1>2

(* So the invariant holds throughout.                                      *)
LEMMA AlwaysInvariant == Spec => []IInv
<1>1. IInv /\ [Next]_vars => IInv'
  BY NextSafely
<1> QED BY <1>1, InitInvariant, PTL DEF Spec

(* The heap, what the program owns, the iteration and the calls of         *)
(* sconf_node_destroy stay what they are declared to be.                   *)
THEOREM AlwaysTypeOK == Spec => []TypeOK
<1>1. IInv => TypeOK
  <2> SUFFICES ASSUME IInv PROVE TypeOK
    OBVIOUS
  <2>1. /\ heap \in Heaps /\ owned \subseteq Ids /\ ret \in {-1, 0, 1} /\ cursor \in Cursors
        /\ seen \subseteq Keys /\ missed \subseteq Indexes /\ frames \in Seq(Frames)
        /\ doomed \subseteq Ids
    BY DEF IInv, Typed, Sound
  <2>2. \A i \in DOMAIN frames : frames[i] \in Frames
    BY <2>1
  <2> QED BY <2>1, <2>2 DEF TypeOK, Cursors, Frames
<1> QED BY <1>1, AlwaysInvariant, PTL

(* Whatever a program calls and whatever fails, every node that is not     *)
(* being destroyed has one owner: the program, or the one slot that holds  *)
(* it; and the program reaches every node from those it owns.              *)
THEOREM AlwaysOneOwner == Spec => []OneOwner
<1>1. IInv => OneOwner
  <2> SUFFICES ASSUME IInv PROVE OneOwner
    OBVIOUS
  <2>1. Ownership(heap, owned, doomed)
    BY DEF IInv
  <2> HIDE DEF Ownership
  <2> QED BY <2>1, OwnershipMeans DEF OneOwner
<1> QED BY <1>1, AlwaysInvariant, PTL

(* The open calls of sconf_node_destroy are a branch of the tree that is   *)
(* destroyed, and neither they nor what they have to do touch a freed node. *)
THEOREM AlwaysFramesAreBranch == Spec => []FramesAreBranch
<1>1. IInv => FramesAreBranch
  <2> SUFFICES ASSUME IInv, NEW i \in DOMAIN frames
               PROVE  /\ Live(heap, frames[i].node)
                      /\ frames[i].node \in doomed
                      /\ i > 1 => \E k \in Keys \ frames[i].todo :
                                      heap[frames[i].node].kids[k] = frames[i - 1].node
                      /\ \A k \in frames[i].todo : Live(heap, heap[frames[i].node].kids[k])
    BY DEF FramesAreBranch
  <2>1. frames \in Seq(Frames) /\ Destroying(heap, frames, doomed)
    BY DEF IInv, Typed
  <2>2. FrameOK(heap, frames, doomed, i)
    BY <2>1 DEF Destroying
  <2>3. \A k \in frames[i].todo : Live(heap, heap[frames[i].node].kids[k])
    BY <2>2, SubtreeClosed DEF FrameOK
  <2> QED BY <2>2, <2>3 DEF FrameOK
<1> QED BY <1>1, AlwaysInvariant, PTL

(* sconf_node_array_next, the foreach functions and art_iter visit what is *)
(* there once and leave nothing out, whatever is inserted and created      *)
(* meanwhile.                                                              *)
THEOREM AlwaysIterationExact == Spec => IterationExact
<1>1. IInv /\ [Next]_vars => [VisitsExactly]_vars
  BY NextSafely
<1> QED BY <1>1, AlwaysInvariant, PTL DEF Spec, IterationExact

(* A call that returns -1 leaves no trace but the one that                 *)
(* sconf_node_dict_insert leaves when the name was taken.                  *)
THEOREM AlwaysRefusalsHarmless == Spec => RefusalsHarmless
<1>1. IInv /\ [Next]_vars => [RefusesUnmoved]_vars
  BY NextSafely
<1> QED BY <1>1, AlwaysInvariant, PTL DEF Spec, RefusalsHarmless

(* sconf_node_destroy frees all that is below the node and nothing else,   *)
(* each after what it holds.                                               *)
THEOREM AlwaysDestroyExact == Spec => DestroyExact
<1>1. IInv /\ [Next]_vars => [FreesDoomed]_vars
  BY NextSafely
<1> QED BY <1>1, AlwaysInvariant, PTL DEF Spec, DestroyExact
=============================================================================
