------------------------------- MODULE Induction -------------------------------
(***************************************************************************)
(* Induction and recursion over the natural numbers, stated about sets and  *)
(* functions: what the recursive functions of PacketQueue and Helpers rest  *)
(* on, which run over a queue or a list from its front.                     *)
(***************************************************************************)
EXTENDS Integers, WellFoundedInduction, TLAPS

\* Every set of natural numbers has a least element.
LEMMA LeastNat ==
    ASSUME NEW T \in SUBSET Nat, T # {}
    PROVE  \E m \in T : \A n \in T : m <= n
<1>1. PICK m \in T : \A n \in T : <<n, m>> \notin OpToRel(<, Nat)
  BY NatLessThanWellFounded, WFMin
<1>2. ASSUME NEW n \in T PROVE m <= n
  <2>1. ~(n < m)
    BY <1>1 DEF OpToRel
  <2> QED
    BY <2>1
<1> QED
  BY <1>2

\* A set with 0 and the successor of each of its numbers has all of them.
LEMMA SetInduction ==
    ASSUME NEW S, 0 \in S, \A n \in Nat : n \in S => n + 1 \in S
    PROVE  Nat \subseteq S
<1> SUFFICES ASSUME Nat \ S # {} PROVE FALSE
  OBVIOUS
<1>1. PICK m \in Nat \ S : \A n \in Nat \ S : m <= n
  BY LeastNat
<1>2. m - 1 \in Nat
  BY <1>1
<1>3. m - 1 \in S
  BY <1>1, <1>2
<1>4. (m - 1) + 1 = m
  BY <1>1
<1> QED
  BY <1>1, <1>2, <1>3, <1>4

\* The same up to a bound.
LEMMA SetInductionUpTo ==
    ASSUME NEW N \in Nat, NEW S, 0 \in S,
           \A n \in 0 .. N : n < N /\ n \in S => n + 1 \in S
    PROVE  0 .. N \subseteq S
<1> DEFINE T == {n \in Nat : n <= N => n \in S}
<1>1. 0 \in T
  OBVIOUS
<1>2. ASSUME NEW n \in Nat, n \in T PROVE n + 1 \in T
  <2>1. CASE n + 1 <= N
    <3>1. n \in 0 .. N /\ n < N /\ n \in S
      BY <1>2, <2>1
    <3> QED
      BY <3>1
  <2>2. CASE ~(n + 1 <= N)
    BY <2>2
  <2> QED
    BY <2>1, <2>2
<1>3. Nat \subseteq T
  <2> HIDE DEF T
  <2> QED
    BY <1>1, <1>2, SetInduction
<1> QED
  BY <1>3

-----------------------------------------------------------------------------
\* g is the run of step from start over 1 .. N.
IsRun(g, N, start, step) ==
    g = [n \in 0 .. N |-> IF n = 0 THEN start ELSE step[n][g[n - 1]]]

LEMMA RunValues ==
    ASSUME NEW N \in Nat, NEW start, NEW step, NEW g, IsRun(g, N, start, step)
    PROVE  /\ g[0] = start /\ g = [n \in 0 .. N |-> g[n]]
           /\ \A n \in 1 .. N : g[n] = step[n][g[n - 1]]
<1>1. g[0] = start /\ \A n \in 1 .. N : g[n] = step[n][g[n - 1]]
  BY DEF IsRun
<1>2. g = [n \in 0 .. N |-> g[n]]
  <2> DEFINE G(n) == IF n = 0 THEN start ELSE step[n][g[n - 1]]
  <2>1. g = [n \in 0 .. N |-> G(n)]
    BY DEF IsRun
  <2> HIDE DEF G
  <2> QED
    BY <2>1
<1> QED
  BY <1>1, <1>2

\* A function that is defined from its value one below exists.
LEMMA RunExists ==
    ASSUME NEW A, NEW start \in A, NEW step \in [Nat -> [A -> A]], NEW N \in Nat
    PROVE  \E g \in [0 .. N -> A] : IsRun(g, N, start, step)
<1> DEFINE S == {n \in Nat : \E g \in [0 .. n -> A] : IsRun(g, n, start, step)}
<1>1. 0 \in S
  <2> DEFINE g == [n \in 0 .. 0 |-> start]
  <2>1. g \in [0 .. 0 -> A]
    OBVIOUS
  <2>2. g = [n \in 0 .. 0 |-> IF n = 0 THEN start ELSE step[n][g[n - 1]]]
    OBVIOUS
  <2> QED
    BY <2>1, <2>2 DEF IsRun
<1>2. ASSUME NEW n \in Nat, n \in S PROVE n + 1 \in S
  <2>1. PICK g \in [0 .. n -> A] : IsRun(g, n, start, step)
    BY <1>2
  <2> DEFINE h == [k \in 0 .. (n + 1) |-> IF k = n + 1 THEN step[n + 1][g[n]] ELSE g[k]]
  <2>2. step[n + 1][g[n]] \in A
    OBVIOUS
  <2>3. h \in [0 .. (n + 1) -> A]
    BY <2>2
  <2>4. ASSUME NEW k \in 0 .. (n + 1)
        PROVE  h[k] = IF k = 0 THEN start ELSE step[k][h[k - 1]]
    <3>1. CASE k = n + 1
      <4>1. k # 0 /\ k - 1 = n /\ k - 1 \in 0 .. n /\ k - 1 # n + 1
        BY <3>1
      <4> QED
        BY <3>1, <4>1
    <3>2. CASE k # n + 1
      <4>1. k \in 0 .. n /\ (k # 0 => k - 1 \in 0 .. n /\ k - 1 # n + 1)
        BY <3>2
      <4>2. g[k] = IF k = 0 THEN start ELSE step[k][g[k - 1]]
        BY <2>1, <4>1 DEF IsRun
      <4> QED
        BY <3>2, <4>1, <4>2
    <3> QED
      BY <3>1, <3>2
  <2>5. IsRun(h, n + 1, start, step)
    <3> HIDE DEF h
    <3> QED
      BY <2>3, <2>4 DEF IsRun
  <2> QED
    BY <2>3, <2>5
<1>3. Nat \subseteq S
  <2> HIDE DEF S
  <2> QED
    BY <1>1, <1>2, SetInduction
<1> QED
  BY <1>3
================================================================================
