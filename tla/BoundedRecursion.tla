-------------------------- MODULE BoundedRecursion --------------------------
(***************************************************************************)
(* Induction over the first numbers, and the existence of a function that  *)
(* is defined by recursion over them: what the proofs about definitions    *)
(*   LET f[n \in 0..N] == IF n = 0 THEN base ELSE ... f[n - 1] ...         *)
(* rest on.                                                                *)
(***************************************************************************)
EXTENDS Integers, TLAPS, WellFoundedInduction

LEMMA LeastNumber ==
  ASSUME NEW T, T \subseteq Nat, T # {}
  PROVE  \E n \in T : \A m \in T : n <= m
<1> DEFINE R == OpToRel(<, Nat)
<1>1. IsWellFoundedOn(R, Nat)
  BY NatLessThanWellFounded
<1>2. \E n \in T : \A m \in T : <<m, n>> \notin R
  BY <1>1, WFMin
<1>3. \A m, n \in Nat : <<m, n>> \notin R => n <= m
  BY SMT DEF OpToRel
<1> QED
  BY <1>2, <1>3

(* Induction over the numbers up to N, with a set for the hypothesis. *)
LEMMA BoundedInduction ==
  ASSUME NEW N \in Nat, NEW P, 0 \in P,
         \A n \in 1..N : n - 1 \in P => n \in P
  PROVE  \A n \in 0..N : n \in P
<1> DEFINE T == {n \in 0..N : n \notin P}
<1> SUFFICES ASSUME T # {} PROVE FALSE
  OBVIOUS
<1>0. T \subseteq Nat
  OBVIOUS
<1> HIDE DEF T
<1>1. PICK n \in T : \A m \in T : n <= m
  BY <1>0, LeastNumber
<1> USE DEF T
<1>2. n \in 1..N /\ n - 1 \in 0..N /\ n - 1 \notin T
  BY <1>1
<1> QED
  BY <1>1, <1>2

(* The steps of a recursion, and that it is defined: two names, to cite    *)
(* the lemma by.                                                           *)
Steps(N, S) == [1..N -> [S -> S]]

IsDefined(N, S, base, step) ==
  \E f \in [0..N -> S] : f[0] = base /\ \A n \in 1..N : f[n] = step[n][f[n - 1]]

LEMMA RecursiveFunction ==
  ASSUME NEW N \in Nat, NEW S, NEW base \in S, NEW step \in Steps(N, S)
  PROVE  IsDefined(N, S, base, step)
<1> USE DEF Steps, IsDefined
<1> DEFINE Is(f, k) == /\ f \in [0..k -> S] /\ f[0] = base
                       /\ \A n \in 1..k : f[n] = step[n][f[n - 1]]
           P == {k \in 0..N : \E f : Is(f, k)}
<1>1. 0 \in P
  <2> DEFINE f == [n \in 0..0 |-> base]
  <2>1. Is(f, 0)
    OBVIOUS
  <2> HIDE DEF f, Is
  <2> QED
    BY <2>1
<1>2. ASSUME NEW k \in 1..N, k - 1 \in P PROVE k \in P
  <2>1. PICK g : Is(g, k - 1)
    BY <1>2
  <2> DEFINE f == [n \in 0..k |-> IF n = k THEN step[k][g[k - 1]] ELSE g[n]]
  <2>2. g[k - 1] \in S /\ step[k][g[k - 1]] \in S
    BY <2>1
  <2>3. f \in [0..k -> S]
    BY <2>1, <2>2
  <2>4. f[0] = base
    BY <2>1
  <2>5. ASSUME NEW n \in 1..k PROVE f[n] = step[n][f[n - 1]]
    <3>1. CASE n = k
      <4>1. f[k] = step[k][g[k - 1]] /\ f[k - 1] = g[k - 1]
        OBVIOUS
      <4> QED
        BY <3>1, <4>1
    <3>2. CASE n # k
      <4>1. f[n] = g[n] /\ f[n - 1] = g[n - 1] /\ n \in 1..(k - 1)
        BY <3>2
      <4> QED
        BY <2>1, <4>1
    <3> QED
      BY <3>1, <3>2
  <2>6. Is(f, k)
    BY <2>3, <2>4, <2>5
  <2> HIDE DEF f, Is
  <2> QED
    BY <2>6
<1> HIDE DEF P
<1>3. \A k \in 0..N : k \in P
  BY <1>1, <1>2, BoundedInduction
<1>4. \E f : Is(f, N)
  <2> HIDE DEF Is
  <2> QED
    BY <1>3 DEF P
<1>5. PICK f : Is(f, N)
  BY <1>4
<1>6. f \in [0..N -> S]
  BY <1>5
<1>7. f[0] = base /\ \A n \in 1..N : f[n] = step[n][f[n - 1]]
  BY <1>5
<1> QED
  BY <1>6, <1>7, Zenon
=============================================================================
