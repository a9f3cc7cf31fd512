----------------------------- MODULE Induction -----------------------------
(***************************************************************************)
(* Induction and recursion over the natural numbers, with a set in place   *)
(* of the predicate and functions in place of the operators, so that the   *)
(* lemmas can be instantiated by every prover.                             *)
(***************************************************************************)
EXTENDS Naturals, WellFoundedInduction, TLAPS

\* A set of numbers with 0 and every successor has them all: from the least number that
\* it lacks.
LEMMA NatSet ==
  ASSUME NEW P \in SUBSET Nat, 0 \in P, \A n \in P : n + 1 \in P
  PROVE  P = Nat
  <1>1. SUFFICES ASSUME Nat \ P # {} PROVE FALSE
    OBVIOUS
  <1>2. PICK x \in Nat \ P : \A y \in Nat \ P : ~ (<<y, x>> \in OpToRel(<, Nat))
    BY <1>1, NatLessThanWellFounded, WFMin
  <1>3. \A y \in Nat \ P : ~ (y < x)
    BY <1>2 DEF OpToRel
  <1>4. x # 0 /\ x \in Nat
    BY <1>2
  <1>5. x - 1 \in Nat /\ (x - 1) + 1 = x /\ x - 1 < x
    BY <1>4
  <1>6. x - 1 \in P
    BY <1>3, <1>5
  <1>7. (x - 1) + 1 \in P
    BY <1>6
  <1>8. QED
    BY <1>5, <1>7

\* f starts from base and goes on by the steps, which are functions on T.
Steps(T) == [Nat -> [T -> T]]
Iterates(f, T, base, step) ==
  /\ f \in [Nat -> T]
  /\ f[0] = base /\ \A n \in Nat : f[n + 1] = step[n + 1][f[n]]

\* A function may be defined by its first value and a step from each value to the next.
LEMMA Recursion ==
  ASSUME NEW T, NEW base \in T, NEW step \in Steps(T)
  PROVE  \E f : Iterates(f, T, base, step)
  <1> USE DEF Steps
  <1> DEFINE G(n) == {g \in [0..n -> T] : g[0] = base /\ \A i \in 0..(n - 1) : g[i + 1] = step[i + 1][g[i]]}
             P == {n \in Nat : G(n) # {}}
  <1>1. 0 \in P
    <2>1. [i \in 0..0 |-> base] \in G(0)
      OBVIOUS
    <2>2. QED
      BY <2>1
  <1>2. ASSUME NEW n \in P
        PROVE  n + 1 \in P
    <2>1. PICK g : g \in G(n)
      OBVIOUS
    <2> DEFINE h == [i \in 0..(n + 1) |-> IF i = n + 1 THEN step[n + 1][g[n]] ELSE g[i]]
    <2>2. g[n] \in T /\ step[n + 1][g[n]] \in T
      BY <2>1
    <2>3. h \in [0..(n + 1) -> T]
      BY <2>1, <2>2
    <2>4. h[0] = base
      BY <2>1
    <2>5. ASSUME NEW i \in 0..((n + 1) - 1)
          PROVE  h[i + 1] = step[i + 1][h[i]]
      BY <2>1
    <2> HIDE DEF h
    <2>6. h \in G(n + 1)
      BY <2>3, <2>4, <2>5
    <2>7. n + 1 \in Nat /\ G(n + 1) # {}
      BY <2>6
    <2>8. QED
      BY <2>7
  <1>3. P = Nat
    BY <1>1, <1>2, NatSet
  <1>4. ASSUME NEW n \in Nat, NEW k \in Nat, k <= n, NEW g \in G(n), NEW h \in G(k)
        PROVE  h[k] = g[k]
    <2> DEFINE Q == {i \in Nat : i <= k => h[i] = g[i]}
    <2>1. 0 \in Q
      BY <1>4
    <2>2. ASSUME NEW i \in Q
          PROVE  i + 1 \in Q
      <3>1. CASE i + 1 <= k
        <4>1. h[i] = g[i] /\ i \in 0..(k - 1) /\ i \in 0..(n - 1)
          BY <1>4, <3>1
        <4>2. h[i + 1] = step[i + 1][h[i]] /\ g[i + 1] = step[i + 1][g[i]]
          BY <4>1
        <4>3. QED
          BY <4>1, <4>2
      <3>2. QED
        BY <3>1
    <2>3. Q = Nat
      BY <2>1, <2>2, NatSet
    <2>4. QED
      BY <2>3
  <1> DEFINE f == [n \in Nat |-> (CHOOSE g : g \in G(n))[n]]
  <1>5. ASSUME NEW n \in Nat
        PROVE  /\ (CHOOSE g : g \in G(n)) \in G(n)
    BY <1>3
  <1>6. f \in [Nat -> T]
    <2>1. ASSUME NEW n \in Nat PROVE (CHOOSE g : g \in G(n))[n] \in T
      <3> DEFINE c == CHOOSE g : g \in G(n)
      <3>1. c \in [0..n -> T] 
        BY <1>5
      <3> HIDE DEF c
      <3>2. c[n] \in T
        BY <3>1
      <3>3. QED
        BY <3>2 DEF c
    <2>2. QED
      BY <2>1
  <1>7. f[0] = base
    BY <1>5
  <1>8. ASSUME NEW n \in Nat
        PROVE  f[n + 1] = step[n + 1][f[n]]
    <2> DEFINE g == CHOOSE g : g \in G(n + 1)
               h == CHOOSE h : h \in G(n)
    <2>1. g \in G(n + 1) /\ h \in G(n)
      <3>1. n + 1 \in Nat
        OBVIOUS
      <3> HIDE DEF G
      <3>2. QED
        BY <1>5, <3>1
    <2>2. f[n + 1] = g[n + 1] /\ f[n] = h[n]
      OBVIOUS
    <2> HIDE DEF g, h, f
    <2>3. h[n] = g[n]
      <3>1. n + 1 \in Nat /\ n <= n + 1
        OBVIOUS
      <3> HIDE DEF G
      <3>2. QED
        BY <1>4, <2>1, <3>1
    <2>4. g[n + 1] = step[n + 1][g[n]]
      BY <2>1
    <2>5. QED
      BY <2>2, <2>3, <2>4
  <1>9. QED
    BY <1>6, <1>7, <1>8 DEF Iterates
=============================================================================
