------------------------------- MODULE Recursion -------------------------------
(***************************************************************************)
(* Induction on natural numbers and the existence of functions defined by  *)
(* recursion, stated with sets and functions for parameters, so that they  *)
(* can be cited with any.                                                  *)
(***************************************************************************)
EXTENDS Integers, WellFoundedInduction, TLAPS

(* A set of natural numbers has a least element. *)
LEMMA LeastNat ==
    ASSUME NEW T, T \subseteq Nat, T # {}
    PROVE  \E x \in T : \A y \in T : x <= y
  <1>1. PICK x \in T : \A y \in T : ~(<<y, x>> \in OpToRel(<, Nat))
    BY NatLessThanWellFounded, WFMin
  <1>2. \A y \in T : <<y, x>> \in OpToRel(<, Nat) <=> y < x
    BY SMT DEF OpToRel
  <1>3. \A y \in T : ~(y < x) /\ x \in Nat /\ y \in Nat
    BY <1>1, <1>2
  <1> QED BY <1>3

(* A set that has 0 and with every number the next has them all. *)
LEMMA Induction ==
    ASSUME NEW T, 0 \in T, \A n \in Nat : n \in T => n + 1 \in T
    PROVE  \A n \in Nat : n \in T
  <1> SUFFICES ASSUME Nat \ T # {} PROVE FALSE
    OBVIOUS
  <1>1. PICK x \in Nat \ T : \A y \in Nat \ T : x <= y
    BY LeastNat
  <1>2. x - 1 \in Nat
    BY <1>1
  <1>3. x - 1 \in T
    BY <1>1, <1>2
  <1> QED BY <1>1, <1>2, <1>3

(* Recursion over 0..N: G gives a value from the value before and the      *)
(* number.                                                                 *)
Recurses(S, base, N, G) ==
    \E f \in [0..N -> S] : f[0] = base /\ \A i \in 1..N : f[i] = G[<<f[i - 1], i>>]

LEMMA Recursive ==
    ASSUME NEW S, NEW base \in S, NEW N \in Nat, NEW G \in [S \X (1..N) -> S]
    PROVE  Recurses(S, base, N, G)
  <1> DEFINE Upto(n) == \E f \in [0..n -> S] :
                           f[0] = base /\ \A i \in 1..n : f[i] = G[<<f[i - 1], i>>]
             T == {n \in Nat : n <= N => Upto(n)}
  <1>1. 0 \in T
    <2> DEFINE h == [i \in 0..0 |-> base]
    <2>1. h \in [0..0 -> S] /\ h[0] = base
      OBVIOUS
    <2>2. \A i \in 1..0 : h[i] = G[<<h[i - 1], i>>]
      OBVIOUS
    <2> HIDE DEF h
    <2>3. Upto(0)
      BY <2>1, <2>2
    <2> QED BY <2>3
  <1>2. ASSUME NEW n \in Nat, n \in T PROVE n + 1 \in T
    <2> SUFFICES ASSUME n + 1 <= N PROVE Upto(n + 1)
      OBVIOUS
    <2>1. Upto(n)
      BY <1>2
    <2>2. PICK f \in [0..n -> S] : f[0] = base /\ \A i \in 1..n : f[i] = G[<<f[i - 1], i>>]
      BY <2>1
    <2> DEFINE g == [i \in 0..(n + 1) |-> IF i <= n THEN f[i] ELSE G[<<f[n], n + 1>>]]
    <2>3. <<f[n], n + 1>> \in S \X (1..N)
      OBVIOUS
    <2>4. g \in [0..(n + 1) -> S]
      BY <2>3
    <2>5. g[0] = base
      BY <2>2
    <2>6. ASSUME NEW i \in 1..(n + 1) PROVE g[i] = G[<<g[i - 1], i>>]
      <3>1. CASE i <= n
        BY <3>1, <2>2
      <3>2. CASE i = n + 1
        BY <3>2
      <3> QED BY <3>1, <3>2
    <2> HIDE DEF g
    <2> QED BY <2>4, <2>5, <2>6
  <1> HIDE DEF T
  <1>3. N \in T
    BY <1>1, <1>2, Induction
  <1> QED BY <1>3 DEF T, Recurses
=============================================================================
