--------------------------- MODULE UncompressProofs ---------------------------
(***************************************************************************)
(* Proofs, for any alphabet and width of codes, any texts, files and       *)
(* command lines, of the properties of Uncompress.                         *)
(***************************************************************************)
EXTENDS LzwInv, Recursion, FiniteSetTheorems, SequenceTheorems

-----------------------------------------------------------------------------
(* 1 << n *)

ShlAt(n) == CHOOSE a : a = [k \in 0..n |-> IF k = 0 THEN 1 ELSE 2 * a[k - 1]]

LEMMA ShlAtStep ==
    ASSUME NEW n \in Nat
    PROVE  /\ ShlAt(n) \in [0..n -> Nat] /\ ShlAt(n)[0] = 1
           /\ \A k \in 1..n : ShlAt(n)[k] = 2 * ShlAt(n)[k - 1]
  <1> DEFINE G == [p \in Nat \X (1..n) |-> 2 * p[1]]
             Is(b) == b = [k \in 0..n |-> IF k = 0 THEN 1 ELSE 2 * b[k - 1]]
  <1>1. G \in [Nat \X (1..n) -> Nat]
    OBVIOUS
  <1>2. PICK a \in [0..n -> Nat] : a[0] = 1 /\ \A k \in 1..n : a[k] = G[<<a[k - 1], k>>]
    <2>1. Recurses(Nat, 1, n, G)
      <3> HIDE DEF G
      <3> QED BY <1>1, Recursive
    <2> QED BY <2>1 DEF Recurses
  <1>3. \A k \in 1..n : a[k] = 2 * a[k - 1]
    <2> SUFFICES ASSUME NEW k \in 1..n PROVE a[k] = 2 * a[k - 1]
      OBVIOUS
    <2>1. <<a[k - 1], k>> \in Nat \X (1..n)
      BY <1>2
    <2> QED BY <1>2, <2>1
  <1>4. Is(a)
    BY <1>2, <1>3
  <1> DEFINE c == CHOOSE b : Is(b)
  <1>5. Is(c)
    <2> HIDE DEF Is
    <2> QED BY <1>4
  <1>6. ShlAt(n) = c
    BY DEF ShlAt
  <1> HIDE DEF c, G
  <1>7. c[0] = 1 /\ \A k \in 1..n : c[k] = 2 * c[k - 1]
    BY <1>5
  <1>8. c \in [0..n -> Nat]
    <2> DEFINE T == {k \in Nat : k <= n => c[k] \in Nat}
    <2>1. 0 \in T
      BY <1>7
    <2>2. \A k \in Nat : k \in T => k + 1 \in T
      BY <1>7
    <2> HIDE DEF T
    <2>3. \A k \in Nat : k \in T
      BY <2>1, <2>2, Induction
    <2>4. \A k \in 0..n : c[k] \in Nat
      BY <2>3 DEF T
    <2> QED BY <1>5, <2>4
  <1> QED BY <1>6, <1>7, <1>8

LEMMA ShlStep ==
    /\ Shl(0) = 1
    /\ \A n \in Nat : Shl(n) \in Nat \ {0} /\ Shl(n + 1) = 2 * Shl(n)
  <1>1. \A n \in Nat : Shl(n) = ShlAt(n)[n]
    BY DEF Shl, ShlAt
  <1> DEFINE T == {k \in Nat : \A n \in Nat : k <= n => ShlAt(n)[k] = ShlAt(k)[k] /\ ShlAt(n)[k] > 0}
  <1>2. 0 \in T
    BY ShlAtStep
  <1>3. ASSUME NEW k \in Nat, k \in T PROVE k + 1 \in T
    <2> SUFFICES ASSUME NEW n \in Nat, k + 1 <= n
                 PROVE  ShlAt(n)[k + 1] = ShlAt(k + 1)[k + 1] /\ ShlAt(n)[k + 1] > 0
      OBVIOUS
    <2>1. ShlAt(n)[k + 1] = 2 * ShlAt(n)[k] /\ ShlAt(k + 1)[k + 1] = 2 * ShlAt(k + 1)[k]
      <3>1. \A j \in 1..n : ShlAt(n)[j] = 2 * ShlAt(n)[j - 1]
        BY ShlAtStep
      <3>2. \A j \in 1..(k + 1) : ShlAt(k + 1)[j] = 2 * ShlAt(k + 1)[j - 1]
        BY ShlAtStep
      <3> QED BY <3>1, <3>2
    <2>2. ShlAt(n)[k] = ShlAt(k)[k] /\ ShlAt(k + 1)[k] = ShlAt(k)[k] /\ ShlAt(n)[k] > 0
      BY <1>3
    <2>3. ShlAt(n)[k] \in Nat
      BY ShlAtStep
    <2> QED BY <2>1, <2>2, <2>3
  <1> HIDE DEF T
  <1>4. \A k \in Nat : k \in T
    BY <1>2, <1>3, Induction
  <1>5. \A k, n \in Nat : k <= n => ShlAt(n)[k] = ShlAt(k)[k] /\ ShlAt(n)[k] > 0
    BY <1>4 DEF T
  <1> SUFFICES ASSUME NEW n \in Nat PROVE Shl(0) = 1 /\ Shl(n) \in Nat \ {0} /\ Shl(n + 1) = 2 * Shl(n)
    OBVIOUS
  <1>6. ShlAt(n + 1)[n + 1] = 2 * ShlAt(n + 1)[n]
    <2>1. \A j \in 1..(n + 1) : ShlAt(n + 1)[j] = 2 * ShlAt(n + 1)[j - 1]
      BY ShlAtStep
    <2> QED BY <2>1
  <1>7. ShlAt(n + 1)[n] = ShlAt(n)[n] /\ ShlAt(n)[n] > 0 /\ ShlAt(n)[n] \in Nat /\ ShlAt(0)[0] = 1
    BY <1>5, ShlAtStep
  <1>8. Shl(0) = ShlAt(0)[0] /\ Shl(n) = ShlAt(n)[n] /\ Shl(n + 1) = ShlAt(n + 1)[n + 1]
    BY <1>1
  <1> QED BY <1>6, <1>7, <1>8

LEMMA ShlGrows ==
    ASSUME NEW m \in Nat, NEW n \in Nat, m <= n
    PROVE  Shl(m) <= Shl(n)
  <1> DEFINE T == {k \in Nat : Shl(m) <= Shl(m + k)}
  <1>1. 0 \in T
    BY ShlStep
  <1>2. ASSUME NEW k \in Nat, k \in T PROVE k + 1 \in T
    <2>1. Shl(m + k + 1) = 2 * Shl(m + k) /\ Shl(m + k) \in Nat /\ Shl(m) \in Nat
      BY ShlStep
    <2>2. Shl(m) <= Shl(m + k)
      BY <1>2
    <2>3. Shl(m) <= Shl(m + (k + 1))
      BY <2>1, <2>2
    <2> QED BY <2>3
  <1> HIDE DEF T
  <1>3. n - m \in T
    BY <1>1, <1>2, Induction
  <1> QED BY <1>3 DEF T

-----------------------------------------------------------------------------
(* Codes as bits *)

ShrAt(s, n) == CHOOSE a : a = [k \in 0..n |-> IF k = 0 THEN s ELSE a[k - 1] \div 2]

LEMMA ShrAtStep ==
    ASSUME NEW s \in Nat, NEW n \in Nat
    PROVE  /\ ShrAt(s, n) \in [0..n -> Nat] /\ ShrAt(s, n)[0] = s
           /\ \A k \in 1..n : ShrAt(s, n)[k] = ShrAt(s, n)[k - 1] \div 2
  <1> DEFINE G == [p \in Nat \X (1..n) |-> p[1] \div 2]
             Is(b) == b = [k \in 0..n |-> IF k = 0 THEN s ELSE b[k - 1] \div 2]
  <1>1. G \in [Nat \X (1..n) -> Nat]
    OBVIOUS
  <1>2. PICK a \in [0..n -> Nat] : a[0] = s /\ \A k \in 1..n : a[k] = G[<<a[k - 1], k>>]
    <2>1. Recurses(Nat, s, n, G)
      <3> HIDE DEF G
      <3> QED BY <1>1, Recursive
    <2> QED BY <2>1 DEF Recurses
  <1>3. \A k \in 1..n : a[k] = a[k - 1] \div 2
    <2> SUFFICES ASSUME NEW k \in 1..n PROVE a[k] = a[k - 1] \div 2
      OBVIOUS
    <2>1. <<a[k - 1], k>> \in Nat \X (1..n)
      BY <1>2
    <2> QED BY <1>2, <2>1
  <1>4. Is(a)
    BY <1>2, <1>3
  <1> DEFINE c == CHOOSE b : Is(b)
  <1>5. Is(c)
    <2> HIDE DEF Is
    <2> QED BY <1>4
  <1>6. ShrAt(s, n) = c
    BY DEF ShrAt
  <1> HIDE DEF c, G
  <1>7. c[0] = s /\ \A k \in 1..n : c[k] = c[k - 1] \div 2
    BY <1>5
  <1>8. c \in [0..n -> Nat]
    <2> DEFINE T == {k \in Nat : k <= n => c[k] \in Nat}
    <2>1. 0 \in T
      BY <1>7
    <2>2. ASSUME NEW k \in Nat, k \in T PROVE k + 1 \in T
      <3> SUFFICES ASSUME k + 1 <= n PROVE c[k + 1] \in Nat
        OBVIOUS
      <3>1. c[k + 1] = c[k] \div 2 /\ c[k] \in Nat
        BY <1>7, <2>2
      <3> QED BY <3>1
    <2> HIDE DEF T
    <2>3. \A k \in Nat : k \in T
      BY <2>1, <2>2, Induction
    <2>4. \A k \in 0..n : c[k] \in Nat
      BY <2>3 DEF T
    <2> QED BY <1>5, <2>4
  <1> QED BY <1>6, <1>7, <1>8

LEMMA ShrStep ==
    ASSUME NEW s \in Nat
    PROVE  /\ Shr(s, 0) = s
           /\ \A n \in Nat : Shr(s, n) \in Nat /\ Shr(s, n + 1) = Shr(s, n) \div 2
  <1>1. \A n \in Nat : Shr(s, n) = ShrAt(s, n)[n]
    BY DEF Shr, ShrAt
  <1> DEFINE T == {k \in Nat : \A n \in Nat : k <= n => ShrAt(s, n)[k] = ShrAt(s, k)[k]}
  <1>2. 0 \in T
    BY ShrAtStep
  <1>3. ASSUME NEW k \in Nat, k \in T PROVE k + 1 \in T
    <2> SUFFICES ASSUME NEW n \in Nat, k + 1 <= n PROVE ShrAt(s, n)[k + 1] = ShrAt(s, k + 1)[k + 1]
      OBVIOUS
    <2>1. ShrAt(s, n)[k + 1] = ShrAt(s, n)[k] \div 2
      <3>1. \A j \in 1..n : ShrAt(s, n)[j] = ShrAt(s, n)[j - 1] \div 2
        BY ShrAtStep
      <3> QED BY <3>1
    <2>2. ShrAt(s, k + 1)[k + 1] = ShrAt(s, k + 1)[k] \div 2
      <3>1. \A j \in 1..(k + 1) : ShrAt(s, k + 1)[j] = ShrAt(s, k + 1)[j - 1] \div 2
        BY ShrAtStep
      <3> QED BY <3>1
    <2>3. ShrAt(s, n)[k] = ShrAt(s, k)[k] /\ ShrAt(s, k + 1)[k] = ShrAt(s, k)[k]
      BY <1>3
    <2> QED BY <2>1, <2>2, <2>3
  <1> HIDE DEF T
  <1>4. \A k \in Nat : k \in T
    BY <1>2, <1>3, Induction
  <1>5. \A k, n \in Nat : k <= n => ShrAt(s, n)[k] = ShrAt(s, k)[k]
    BY <1>4 DEF T
  <1> SUFFICES ASSUME NEW n \in Nat
               PROVE  Shr(s, 0) = s /\ Shr(s, n) \in Nat /\ Shr(s, n + 1) = Shr(s, n) \div 2
    OBVIOUS
  <1>6. ShrAt(s, n + 1)[n + 1] = ShrAt(s, n + 1)[n] \div 2
    <2>1. \A j \in 1..(n + 1) : ShrAt(s, n + 1)[j] = ShrAt(s, n + 1)[j - 1] \div 2
      BY ShrAtStep
    <2> QED BY <2>1
  <1>7. ShrAt(s, n + 1)[n] = ShrAt(s, n)[n] /\ ShrAt(s, n)[n] \in Nat /\ ShrAt(s, 0)[0] = s
    <2>1. ShrAt(s, n + 1)[n] = ShrAt(s, n)[n]
      BY <1>5
    <2>2. ShrAt(s, n) \in [0..n -> Nat] /\ ShrAt(s, 0)[0] = s
      BY ShrAtStep
    <2> QED BY <2>1, <2>2
  <1>8. Shr(s, 0) = ShrAt(s, 0)[0] /\ Shr(s, n) = ShrAt(s, n)[n]
        /\ Shr(s, n + 1) = ShrAt(s, n + 1)[n + 1]
    BY <1>1
  <1> QED BY <1>6, <1>7, <1>8

LEMMA BitsOfType ==
    ASSUME NEW s \in Nat, NEW n \in Nat
    PROVE  BitsOf(s, n) \in Seq({0, 1}) /\ Len(BitsOf(s, n)) = n
           /\ \A k \in 1..n : BitsOf(s, n)[k] = Shr(s, k - 1) % 2
  <1>1. \A k \in 1..n : Shr(s, k - 1) % 2 \in {0, 1}
    <2> SUFFICES ASSUME NEW k \in 1..n PROVE Shr(s, k - 1) % 2 \in {0, 1}
      OBVIOUS
    <2>1. k - 1 \in Nat
      OBVIOUS
    <2>2. Shr(s, k - 1) \in Nat
      BY <2>1, ShrStep
    <2> QED BY <2>2
  <1>2. BitsOf(s, n) \in [1..n -> {0, 1}]
    BY <1>1 DEF BitsOf
  <1> QED BY <1>2 DEF BitsOf

ValueAt(b) == CHOOSE a : a = [k \in 0..Len(b) |-> IF k = 0 THEN 0 ELSE b[Len(b) + 1 - k] + 2 * a[k - 1]]

LEMMA ValueAtStep ==
    ASSUME NEW b \in Seq({0, 1})
    PROVE  /\ ValueAt(b) \in [0..Len(b) -> Nat] /\ ValueAt(b)[0] = 0
           /\ \A k \in 1..Len(b) : ValueAt(b)[k] = b[Len(b) + 1 - k] + 2 * ValueAt(b)[k - 1]
           /\ ValueOf(b) = ValueAt(b)[Len(b)]
  <1> DEFINE n == Len(b)
             G == [p \in Nat \X (1..n) |-> b[n + 1 - p[2]] + 2 * p[1]]
             Is(e) == e = [k \in 0..n |-> IF k = 0 THEN 0 ELSE b[n + 1 - k] + 2 * e[k - 1]]
  <1>0. n \in Nat /\ \A k \in 1..n : b[k] \in {0, 1} /\ n + 1 - k \in 1..n
    OBVIOUS
  <1> HIDE DEF n
  <1>1. G \in [Nat \X (1..n) -> Nat]
    <2>1. ASSUME NEW p \in Nat \X (1..n) PROVE b[n + 1 - p[2]] + 2 * p[1] \in Nat
      <3>1. n + 1 - p[2] \in 1..n
        BY <1>0
      <3>2. b[n + 1 - p[2]] \in {0, 1}
        BY <3>1, <1>0
      <3> QED BY <3>2
    <2> QED BY <2>1
  <1>2. PICK a \in [0..n -> Nat] : a[0] = 0 /\ \A k \in 1..n : a[k] = G[<<a[k - 1], k>>]
    <2>1. Recurses(Nat, 0, n, G)
      <3> HIDE DEF G
      <3> QED BY <1>0, <1>1, Recursive
    <2> QED BY <2>1 DEF Recurses
  <1>3. \A k \in 1..n : a[k] = b[n + 1 - k] + 2 * a[k - 1]
    <2> SUFFICES ASSUME NEW k \in 1..n PROVE a[k] = b[n + 1 - k] + 2 * a[k - 1]
      OBVIOUS
    <2>1. <<a[k - 1], k>> \in Nat \X (1..n)
      BY <1>0, <1>2
    <2> QED BY <1>2, <2>1
  <1>4. Is(a)
    BY <1>0, <1>2, <1>3
  <1> DEFINE c == CHOOSE e : Is(e)
  <1>5. Is(c)
    <2> HIDE DEF Is
    <2> QED BY <1>4
  <1>6. ValueAt(b) = c /\ ValueOf(b) = ValueAt(b)[n]
    BY DEF ValueAt, ValueOf, n
  <1> HIDE DEF c, G
  <1>7. c[0] = 0 /\ \A k \in 1..n : c[k] = b[n + 1 - k] + 2 * c[k - 1]
    BY <1>0, <1>5
  <1>8. c \in [0..n -> Nat]
    <2> DEFINE T == {k \in Nat : k <= n => c[k] \in Nat}
    <2>1. 0 \in T
      BY <1>7
    <2>2. ASSUME NEW k \in Nat, k \in T PROVE k + 1 \in T
      <3> SUFFICES ASSUME k + 1 <= n PROVE c[k + 1] \in Nat
        OBVIOUS
      <3>1. c[k + 1] = b[n + 1 - (k + 1)] + 2 * c[k] /\ c[k] \in Nat
        BY <1>0, <1>7, <2>2
      <3>2. b[n + 1 - (k + 1)] \in {0, 1}
        BY <1>0
      <3> QED BY <3>1, <3>2
    <2> HIDE DEF T
    <2>3. \A k \in Nat : k \in T
      BY <2>1, <2>2, Induction
    <2>4. \A k \in 0..n : c[k] \in Nat
      BY <2>3 DEF T
    <2> QED BY <1>5, <2>4
  <1> QED BY <1>6, <1>7, <1>8 DEF n

LEMMA ValueType ==
    ASSUME NEW b \in Seq({0, 1})
    PROVE  ValueOf(b) \in Nat /\ ValueOf(b) < Shl(Len(b))
  <1> DEFINE T == {k \in Nat : k <= Len(b) => ValueAt(b)[k] < Shl(k)}
  <1>1. 0 \in T
    <2>1. ValueAt(b)[0] = 0 /\ Shl(0) = 1
      BY ValueAtStep, ShlStep
    <2> QED BY <2>1
  <1>2. ASSUME NEW k \in Nat, k \in T PROVE k + 1 \in T
    <2> SUFFICES ASSUME k + 1 <= Len(b) PROVE ValueAt(b)[k + 1] < Shl(k + 1)
      OBVIOUS
    <2>1. ValueAt(b)[k + 1] = b[Len(b) + 1 - (k + 1)] + 2 * ValueAt(b)[k]
      <3>1. \A j \in 1..Len(b) : ValueAt(b)[j] = b[Len(b) + 1 - j] + 2 * ValueAt(b)[j - 1]
        BY ValueAtStep
      <3> QED BY <3>1
    <2>2. ValueAt(b)[k] < Shl(k) /\ ValueAt(b)[k] \in Nat /\ Shl(k) \in Nat /\ Shl(k + 1) = 2 * Shl(k)
      <3>1. ValueAt(b) \in [0..Len(b) -> Nat]
        BY ValueAtStep
      <3>2. ValueAt(b)[k] \in Nat /\ ValueAt(b)[k] < Shl(k)
        BY <3>1, <1>2
      <3> QED BY <3>2, ShlStep
    <2>3. b[Len(b) + 1 - (k + 1)] \in {0, 1}
      OBVIOUS
    <2> QED BY <2>1, <2>2, <2>3
  <1> HIDE DEF T
  <1>3. \A k \in Nat : k \in T
    BY <1>1, <1>2, Induction
  <1>4. Len(b) \in Nat
    OBVIOUS
  <1>5. ValueAt(b)[Len(b)] < Shl(Len(b)) /\ ValueAt(b)[Len(b)] \in Nat
    BY <1>3, <1>4, ValueAtStep DEF T
  <1> QED BY <1>5, ValueAtStep

(* getsym reads what outsym wrote, cut to the width. *)
LEMMA ValueOfBits ==
    ASSUME NEW s \in Nat, NEW n \in Nat
    PROVE  ValueOf(BitsOf(s, n)) = s % Shl(n)
  <1> DEFINE b == BitsOf(s, n)
             a == ValueAt(b)
             T == {k \in Nat : k <= n => a[k] = Shr(s, n - k) - Shl(k) * Shr(s, n)}
  <1>0. b \in Seq({0, 1}) /\ Len(b) = n /\ \A k \in 1..n : b[k] = Shr(s, k - 1) % 2
    BY BitsOfType
  <1>1. a[0] = 0 /\ ValueOf(b) = a[n] /\ \A k \in 1..n : a[k] = b[n + 1 - k] + 2 * a[k - 1]
    BY <1>0, ValueAtStep
  <1> HIDE DEF b, a
  <1>2. 0 \in T
    <2>1. Shr(s, n) \in Nat /\ Shl(0) = 1
      BY ShrStep, ShlStep
    <2> QED BY <1>1, <2>1
  <1>3. ASSUME NEW k \in Nat, k \in T PROVE k + 1 \in T
    <2> SUFFICES ASSUME k + 1 <= n PROVE a[k + 1] = Shr(s, n - (k + 1)) - Shl(k + 1) * Shr(s, n)
      OBVIOUS
    <2>1. n - (k + 1) \in Nat /\ n - k = n - (k + 1) + 1
      OBVIOUS
    <2> DEFINE r == Shr(s, n - (k + 1))
               q == Shr(s, n)
               l == Shl(k)
    <2>2. r \in Nat /\ q \in Nat /\ l \in Nat /\ Shr(s, n - k) = r \div 2 /\ Shl(k + 1) = 2 * l
      BY <2>1, ShrStep, ShlStep
    <2>3. a[k + 1] = b[n + 1 - (k + 1)] + 2 * a[k] /\ a[k] = Shr(s, n - k) - l * q
      BY <1>1, <1>3
    <2>4. b[n + 1 - (k + 1)] = r % 2
      <3>1. n + 1 - (k + 1) \in 1..n /\ n + 1 - (k + 1) - 1 = n - (k + 1)
        BY <2>1
      <3> QED BY <3>1, <1>0
    <2> HIDE DEF r, q, l
    <2>5. a[k + 1] = (r % 2) + 2 * (r \div 2 - l * q)
      BY <2>2, <2>3, <2>4
    <2>6. (r % 2) + 2 * (r \div 2) = r
      BY <2>2
    <2>7. (2 * l) * q = 2 * (l * q) /\ l * q \in Nat
      BY <2>2, SMTT(30)
    <2> DEFINE p == l * q
    <2> HIDE DEF p
    <2>8. a[k + 1] = r - 2 * p
      <3>1. r \div 2 \in Nat /\ r % 2 \in Nat /\ p \in Nat
        BY <2>2, <2>7 DEF p
      <3>2. a[k + 1] = (r % 2) + 2 * (r \div 2 - p)
        BY <2>5 DEF p
      <3> QED BY <3>1, <3>2, <2>6, <2>2
    <2> QED BY <2>8, <2>7, <2>2 DEF p, r, q
  <1> HIDE DEF T
  <1>4. n \in T
    BY <1>2, <1>3, Induction
  <1>5. a[n] = s - Shl(n) * Shr(s, n)
    <2>1. n - n = 0 /\ Shr(s, 0) = s
      BY ShrStep
    <2> QED BY <1>4, <2>1 DEF T
  <1>6. a[n] \in Nat /\ a[n] < Shl(n)
    BY <1>0, <1>1, ValueType DEF b
  <1> DEFINE r == a[n]
             q == Shr(s, n)
             l == Shl(n)
  <1>7. r \in Nat /\ q \in Nat /\ l \in Nat \ {0} /\ r < l /\ s = l * q + r
    <2>1. q \in Nat /\ l \in Nat \ {0}
      BY ShrStep, ShlStep
    <2>2. l * q \in Nat
      BY <2>1, SMTT(30)
    <2> QED BY <2>1, <2>2, <1>5, <1>6
  <1> HIDE DEF r, q, l
  <1>8. s % l = r
    BY <1>7, SMTT(60)
  <1> QED BY <1>8, <1>1 DEF r, l, b

-----------------------------------------------------------------------------
(* Strings of codes *)

Acc == [code : Nat, str : Seq(Byte), well : BOOLEAN]
AtCode(s) == [code |-> s, str |-> <<>>, well |-> FALSE]

LEMMA DictType ==
    ASSUME NEW d, IsDict(d)
    PROVE  /\ \A k \in DOMAIN d.entry : d.entry[k][1] \in Nat /\ d.entry[k][2] \in Byte
           /\ \A k \in DOMAIN d.entry : k \in Nat /\ k > CLEAR
           /\ d.nexti \in Nat /\ d.bits \in Nat
  <1>0. PICK m \in CLEAR..(Shl(DMAX) - 1) : d.entry \in [(CLEAR + 1)..m -> Nat \X Byte]
    BY DEF IsDict
  <1>1. \A k \in DOMAIN d.entry : d.entry[k] \in Nat \X Byte /\ k \in (CLEAR + 1)..m
    BY <1>0
  <1>2. CLEAR \in Nat
    BY Widths DEF CLEAR
  <1>3. \A k \in DOMAIN d.entry : d.entry[k][1] \in Nat /\ d.entry[k][2] \in Byte
    <2> SUFFICES ASSUME NEW k \in DOMAIN d.entry PROVE d.entry[k][1] \in Nat /\ d.entry[k][2] \in Byte
      OBVIOUS
    <2>1. PICK e \in Nat \X Byte : e = d.entry[k]
      BY <1>1
    <2> HIDE DEF Byte
    <2> QED BY <2>1
  <1> QED BY <1>1, <1>2, <1>3 DEF IsDict

LEMMA WalkType ==
    ASSUME NEW d, IsDict(d), NEW acc \in Acc
    PROVE  Walk(d, acc) \in Acc
  <1>1. CASE acc.well \/ acc.code \notin (0..(ALPHA - 1)) \cup DOMAIN d.entry
    BY <1>1 DEF Walk
  <1>2. CASE ~acc.well /\ acc.code \in (0..(ALPHA - 1)) \cup DOMAIN d.entry /\ acc.code < ALPHA
    <2>1. acc.code \in Byte
      BY <1>2, Widths DEF Acc, Byte
    <2>2. Walk(d, acc) = [acc EXCEPT !.str = <<acc.code>> \o acc.str, !.well = TRUE]
      BY <1>2 DEF Walk
    <2>3. <<acc.code>> \o acc.str \in Seq(Byte)
      BY <2>1 DEF Acc
    <2> QED BY <2>2, <2>3 DEF Acc
  <1>3. CASE ~acc.well /\ acc.code \in (0..(ALPHA - 1)) \cup DOMAIN d.entry /\ ~(acc.code < ALPHA)
    <2>1. acc.code \in DOMAIN d.entry
      BY <1>3, Widths DEF Acc
    <2>2. Walk(d, acc) = [acc EXCEPT !.str = <<d.entry[acc.code][2]>> \o acc.str, !.code = d.entry[acc.code][1]]
      BY <1>3 DEF Walk
    <2>3. d.entry[acc.code][2] \in Byte /\ d.entry[acc.code][1] \in Nat
      BY <2>1, DictType
    <2>4. <<d.entry[acc.code][2]>> \o acc.str \in Seq(Byte)
      BY <2>3 DEF Acc
    <2> QED BY <2>2, <2>3, <2>4 DEF Acc
  <1> QED BY <1>1, <1>2, <1>3

WalkedAt(d, s, n) == CHOOSE a : a = [k \in 0..n |-> IF k = 0 THEN AtCode(s) ELSE Walk(d, a[k - 1])]

LEMMA WalkedAtStep ==
    ASSUME NEW d, IsDict(d), NEW s \in Nat, NEW n \in Nat
    PROVE  /\ WalkedAt(d, s, n) \in [0..n -> Acc] /\ WalkedAt(d, s, n)[0] = AtCode(s)
           /\ \A k \in 1..n : WalkedAt(d, s, n)[k] = Walk(d, WalkedAt(d, s, n)[k - 1])
  <1> DEFINE S == Acc
             G == [p \in S \X (1..n) |-> Walk(d, p[1])]
             Is(b) == b = [k \in 0..n |-> IF k = 0 THEN AtCode(s) ELSE Walk(d, b[k - 1])]
  <1>0. AtCode(s) \in S
    BY DEF AtCode, Acc
  <1>1. \A a \in S : Walk(d, a) \in S
    BY WalkType
  <1> HIDE DEF S
  <1>2. G \in [S \X (1..n) -> S]
    BY <1>1
  <1>3. PICK a \in [0..n -> S] : a[0] = AtCode(s) /\ \A k \in 1..n : a[k] = G[<<a[k - 1], k>>]
    <2>1. Recurses(S, AtCode(s), n, G)
      <3> HIDE DEF G
      <3> QED BY <1>0, <1>2, Recursive
    <2> QED BY <2>1 DEF Recurses
  <1>4. \A k \in 1..n : a[k] = Walk(d, a[k - 1])
    <2> SUFFICES ASSUME NEW k \in 1..n PROVE a[k] = Walk(d, a[k - 1])
      OBVIOUS
    <2>1. <<a[k - 1], k>> \in S \X (1..n)
      BY <1>3
    <2> QED BY <1>3, <2>1
  <1>5. Is(a)
    BY <1>3, <1>4
  <1> DEFINE c == CHOOSE b : Is(b)
  <1>6. Is(c)
    <2> HIDE DEF Is
    <2> QED BY <1>5
  <1>7. WalkedAt(d, s, n) = c
    BY DEF WalkedAt
  <1> HIDE DEF c, G
  <1>8. c[0] = AtCode(s) /\ \A k \in 1..n : c[k] = Walk(d, c[k - 1])
    BY <1>6
  <1>9. c \in [0..n -> S]
    <2> DEFINE T == {k \in Nat : k <= n => c[k] \in S}
    <2>1. 0 \in T
      BY <1>0, <1>8
    <2>2. ASSUME NEW k \in Nat, k \in T PROVE k + 1 \in T
      <3> SUFFICES ASSUME k + 1 <= n PROVE c[k + 1] \in S
        OBVIOUS
      <3>1. c[k + 1] = Walk(d, c[k]) /\ c[k] \in S
        BY <1>8, <2>2
      <3> QED BY <3>1, <1>1
    <2> HIDE DEF T
    <2>3. \A k \in Nat : k \in T
      BY <2>1, <2>2, Induction
    <2>4. \A k \in 0..n : c[k] \in S
      BY <2>3 DEF T
    <2> QED BY <1>6, <2>4
  <1> QED BY <1>7, <1>8, <1>9 DEF S

LEMMA WalkedStep ==
    ASSUME NEW d, IsDict(d), NEW s \in Nat
    PROVE  /\ Walked(d, s, 0) = AtCode(s)
           /\ \A n \in Nat : Walked(d, s, n) \in Acc /\ Walked(d, s, n + 1) = Walk(d, Walked(d, s, n))
  <1> DEFINE A(n) == WalkedAt(d, s, n)
  <1>1. \A n \in Nat : Walked(d, s, n) = A(n)[n]
    BY DEF Walked, WalkedAt, AtCode
  <1>a. \A n \in Nat : A(n) \in [0..n -> Acc] /\ A(n)[0] = AtCode(s) /\ \A k \in 1..n : A(n)[k] = Walk(d, A(n)[k - 1])
    BY WalkedAtStep
  <1> HIDE DEF A
  <1> DEFINE T == {k \in Nat : \A n \in Nat : k <= n => A(n)[k] = A(k)[k]}
  <1>2. 0 \in T
    BY <1>a
  <1>3. ASSUME NEW k \in Nat, k \in T PROVE k + 1 \in T
    <2> SUFFICES ASSUME NEW n \in Nat, k + 1 <= n PROVE A(n)[k + 1] = A(k + 1)[k + 1]
      OBVIOUS
    <2>1. A(n)[k + 1] = Walk(d, A(n)[k])
      <3>1. \A j \in 1..n : A(n)[j] = Walk(d, A(n)[j - 1])
        BY <1>a
      <3> QED BY <3>1
    <2>2. A(k + 1)[k + 1] = Walk(d, A(k + 1)[k])
      <3>1. \A j \in 1..(k + 1) : A(k + 1)[j] = Walk(d, A(k + 1)[j - 1])
        BY <1>a
      <3> QED BY <3>1
    <2>3. A(n)[k] = A(k)[k] /\ A(k + 1)[k] = A(k)[k]
      BY <1>3
    <2> QED BY <2>1, <2>2, <2>3
  <1> HIDE DEF T
  <1>4. \A k \in Nat : k \in T
    BY <1>2, <1>3, Induction
  <1>5. \A k, n \in Nat : k <= n => A(n)[k] = A(k)[k]
    BY <1>4 DEF T
  <1> SUFFICES ASSUME NEW n \in Nat
               PROVE  /\ Walked(d, s, 0) = AtCode(s)
                      /\ Walked(d, s, n) \in Acc /\ Walked(d, s, n + 1) = Walk(d, Walked(d, s, n))
    OBVIOUS
  <1>6. A(n + 1)[n + 1] = Walk(d, A(n + 1)[n])
    <2>1. \A j \in 1..(n + 1) : A(n + 1)[j] = Walk(d, A(n + 1)[j - 1])
      BY <1>a
    <2> QED BY <2>1
  <1>7. A(n + 1)[n] = A(n)[n]
    BY <1>5
  <1>8. A(n)[n] \in Acc /\ A(0)[0] = AtCode(s)
    <2>1. A(n) \in [0..n -> Acc] /\ A(0)[0] = AtCode(s)
      BY <1>a
    <2> HIDE DEF Acc
    <2> QED BY <2>1
  <1>9. Walked(d, s, 0) = A(0)[0] /\ Walked(d, s, n) = A(n)[n] /\ Walked(d, s, n + 1) = A(n + 1)[n + 1]
    BY <1>1
  <1> QED BY <1>6, <1>7, <1>8, <1>9

(* What buildstr returns is bytes, at least one when it is well. *)
LEMMA BuildType ==
    ASSUME NEW d, IsDict(d), NEW s \in Nat
    PROVE  /\ buildstr(d, s) \in Acc
           /\ buildstr(d, s).well => buildstr(d, s).str # <<>>
  <1> DEFINE T == {n \in Nat : Walked(d, s, n).well => Walked(d, s, n).str # <<>>}
  <1>1. 0 \in T
    BY WalkedStep DEF AtCode
  <1>2. ASSUME NEW n \in Nat, n \in T PROVE n + 1 \in T
    <2>1. PICK a \in Acc : a = Walked(d, s, n)
      BY WalkedStep
    <2>2. Walked(d, s, n + 1) = Walk(d, a)
      BY <2>1, WalkedStep
    <2>3. a.well => a.str # <<>>
      BY <1>2, <2>1
    <2>4. Walk(d, a).well => Walk(d, a).str # <<>>
      <3>1. CASE a.well \/ a.code \notin (0..(ALPHA - 1)) \cup DOMAIN d.entry
        BY <3>1, <2>3 DEF Walk
      <3>2. CASE ~a.well /\ a.code \in (0..(ALPHA - 1)) \cup DOMAIN d.entry /\ a.code < ALPHA
        <4>1. Walk(d, a) = [a EXCEPT !.str = <<a.code>> \o a.str, !.well = TRUE]
          BY <3>2 DEF Walk
        <4>2. a.str \in Seq(Byte)
          BY DEF Acc
        <4>3. <<a.code>> \o a.str # <<>>
          BY <4>2
        <4> QED BY <4>1, <4>3 DEF Acc
      <3>3. CASE ~a.well /\ a.code \in (0..(ALPHA - 1)) \cup DOMAIN d.entry /\ ~(a.code < ALPHA)
        <4>1. Walk(d, a) = [a EXCEPT !.str = <<d.entry[a.code][2]>> \o a.str, !.code = d.entry[a.code][1]]
          BY <3>3 DEF Walk
        <4> QED BY <4>1, <3>3 DEF Acc
      <3> QED BY <3>1, <3>2, <3>3
    <2> QED BY <2>2, <2>4
  <1> HIDE DEF T
  <1>3. \A n \in Nat : n \in T
    BY <1>1, <1>2, Induction
  <1>4. Cardinality(DOMAIN d.entry) + 1 \in Nat
    <2>1. PICK m \in CLEAR..(Shl(DMAX) - 1) : d.entry \in [(CLEAR + 1)..m -> Nat \X Byte]
      BY DEF IsDict
    <2>2. CLEAR \in Nat /\ m \in Nat /\ DOMAIN d.entry = (CLEAR + 1)..m
      BY <2>1, Widths DEF CLEAR
    <2>3. Cardinality((CLEAR + 1)..m) \in Nat
      BY <2>2, FS_Interval, FS_CardinalityType
    <2> QED BY <2>2, <2>3
  <1> QED BY <1>3, <1>4, WalkedStep DEF buildstr, T

(* A walk from an entry is a walk from its prefix with its suffix behind.  *)
Behind(a, b, c) == a.code = b.code /\ a.well = b.well /\ a.str = b.str \o <<c>>

LEMMA WalkBehind ==
    ASSUME NEW d, IsDict(d), NEW b \in Acc, NEW c \in Byte, NEW a \in Acc, Behind(a, b, c)
    PROVE  Behind(Walk(d, a), Walk(d, b), c)
  <1>1. a.code = b.code /\ a.well = b.well /\ a.str = b.str \o <<c>> /\ b.str \in Seq(Byte)
    BY DEF Behind, Acc
  <1>2. CASE b.well \/ b.code \notin (0..(ALPHA - 1)) \cup DOMAIN d.entry
    <2>1. Walk(d, a) = a /\ Walk(d, b) = b
      BY <1>1, <1>2 DEF Walk
    <2> QED BY <2>1
  <1> DEFINE x == IF b.code < ALPHA THEN b.code ELSE d.entry[b.code][2]
  <1>3. CASE ~(b.well \/ b.code \notin (0..(ALPHA - 1)) \cup DOMAIN d.entry)
    <2>1. x \in Byte
      <3>1. b.code < ALPHA => b.code \in Byte
        BY Widths DEF Byte, Acc
      <3>2. ~(b.code < ALPHA) => b.code \in DOMAIN d.entry
        BY <1>3, Widths DEF Acc
      <3>3. ~(b.code < ALPHA) => d.entry[b.code][2] \in Byte
        BY <3>2, DictType
      <3> QED BY <3>1, <3>3
    <2> HIDE DEF x
    <2>2. <<x>> \o (b.str \o <<c>>) = (<<x>> \o b.str) \o <<c>>
      <3> DEFINE S == Byte
                 s1 == <<x>>
                 s2 == b.str
                 s3 == <<c>>
      <3>1. s1 \in Seq(S) /\ s2 \in Seq(S) /\ s3 \in Seq(S)
        BY <2>1, <1>1
      <3>2. (s1 \o s2) \o s3 = s1 \o (s2 \o s3)
        <4> HIDE DEF S, s1, s2, s3
        <4> QED BY <3>1, ConcatAssociative
      <3> QED BY <3>2
    <2>3. CASE b.code < ALPHA
      <3>1. x = b.code
        BY <2>3 DEF x
      <3>2. Walk(d, b) = [code |-> b.code, str |-> <<x>> \o b.str, well |-> TRUE]
        <4>1. Walk(d, b) = [b EXCEPT !.str = <<b.code>> \o b.str, !.well = TRUE]
          BY <1>3, <2>3 DEF Walk
        <4> QED BY <4>1, <3>1 DEF Acc
      <3>3. Walk(d, a) = [code |-> b.code, str |-> <<x>> \o (b.str \o <<c>>), well |-> TRUE]
        <4>1. Walk(d, a) = [a EXCEPT !.str = <<a.code>> \o a.str, !.well = TRUE]
          BY <1>1, <1>3, <2>3 DEF Walk
        <4> QED BY <4>1, <1>1, <3>1 DEF Acc
      <3>4. Walk(d, a).code = b.code /\ Walk(d, b).code = b.code
        BY <3>2, <3>3
      <3>5. Walk(d, a).well = TRUE /\ Walk(d, b).well = TRUE
        BY <3>2, <3>3
      <3>6. Walk(d, a).str = Walk(d, b).str \o <<c>>
        <4>1. Walk(d, b).str = <<x>> \o b.str
          BY <3>2
        <4>2. Walk(d, a).str = <<x>> \o (b.str \o <<c>>)
          <5> DEFINE y == <<x>> \o (b.str \o <<c>>)
          <5>1. Walk(d, a) = [code |-> b.code, str |-> y, well |-> TRUE]
            BY <3>3
          <5> HIDE DEF y
          <5>2. Walk(d, a).str = y
            BY <5>1
          <5> QED BY <5>2 DEF y
        <4> QED BY <4>1, <4>2, <2>2, Zenon
      <3>7. Walk(d, a).code = Walk(d, b).code
        BY <3>4
      <3>8. Walk(d, a).well = Walk(d, b).well
        BY <3>5, Zenon
      <3> QED BY <3>6, <3>7, <3>8, Zenon DEF Behind
    <2>4. CASE ~(b.code < ALPHA)
      <3>1. x = d.entry[b.code][2]
        BY <2>4 DEF x
      <3> DEFINE p == d.entry[b.code][1]
      <3>2. Walk(d, b) = [code |-> p, str |-> <<x>> \o b.str, well |-> b.well]
        <4>1. Walk(d, b) = [b EXCEPT !.str = <<d.entry[b.code][2]>> \o b.str, !.code = d.entry[b.code][1]]
          BY <1>3, <2>4 DEF Walk
        <4> QED BY <4>1, <3>1 DEF Acc
      <3>3. Walk(d, a) = [code |-> p, str |-> <<x>> \o (b.str \o <<c>>), well |-> b.well]
        <4>1. Walk(d, a) = [a EXCEPT !.str = <<d.entry[a.code][2]>> \o a.str, !.code = d.entry[a.code][1]]
          BY <1>1, <1>3, <2>4 DEF Walk
        <4> QED BY <4>1, <1>1, <3>1 DEF Acc
      <3> HIDE DEF p
      <3>4. Walk(d, a).code = Walk(d, b).code
        BY <3>2, <3>3
      <3>5. Walk(d, a).well = b.well /\ Walk(d, b).well = b.well
        BY <3>2, <3>3
      <3>6. Walk(d, a).str = Walk(d, b).str \o <<c>>
        <4>1. Walk(d, b).str = <<x>> \o b.str
          BY <3>2
        <4>2. Walk(d, a).str = <<x>> \o (b.str \o <<c>>)
          <5> DEFINE y == <<x>> \o (b.str \o <<c>>)
          <5>1. Walk(d, a) = [code |-> p, str |-> y, well |-> b.well]
            BY <3>3
          <5> HIDE DEF y
          <5>2. Walk(d, a).str = y
            BY <5>1
          <5> QED BY <5>2 DEF y
        <4> QED BY <4>1, <4>2, <2>2, Zenon
      <3>7. Walk(d, a).well = Walk(d, b).well
        BY <3>5, Zenon
      <3> QED BY <3>4, <3>6, <3>7, Zenon DEF Behind
    <2> QED BY <2>3, <2>4
  <1> QED BY <1>2, <1>3

LEMMA WalkedBehind ==
    ASSUME NEW d, IsDict(d), NEW h \in DOMAIN d.entry
    PROVE  \A n \in Nat : Behind(Walked(d, h, n + 1), Walked(d, d.entry[h][1], n), d.entry[h][2])
  <1> DEFINE p == d.entry[h][1]
             c == d.entry[h][2]
             T == {n \in Nat : Behind(Walked(d, h, n + 1), Walked(d, p, n), c)}
  <1>0. p \in Nat /\ c \in Byte /\ h \in Nat /\ h > CLEAR
    BY DictType
  <1>1. Behind(Walked(d, h, 0 + 1), Walked(d, p, 0), c)
    <2>1. Walked(d, h, 0 + 1) = Walk(d, AtCode(h))
      BY <1>0, WalkedStep
    <2>2. Walk(d, AtCode(h)) = [code |-> p, str |-> <<c>>, well |-> FALSE]
      <3>1. ~(h < ALPHA)
        BY <1>0, Widths DEF CLEAR
      <3>2. Walk(d, AtCode(h)) = [AtCode(h) EXCEPT !.str = <<d.entry[h][2]>> \o << >>, !.code = d.entry[h][1]]
        BY <3>1 DEF Walk, AtCode
      <3>3. <<c>> \o << >> = <<c>>
        OBVIOUS
      <3> QED BY <3>2, <3>3 DEF AtCode
    <2>3. Walked(d, p, 0) = AtCode(p)
      BY <1>0, WalkedStep
    <2>4. << >> \o <<c>> = <<c>>
      OBVIOUS
    <2> HIDE DEF p, c
    <2>5. Walked(d, h, 0 + 1).code = Walked(d, p, 0).code
      BY <2>1, <2>2, <2>3 DEF AtCode
    <2>6. Walked(d, h, 0 + 1).well = FALSE /\ Walked(d, p, 0).well = FALSE
      BY <2>1, <2>2, <2>3 DEF AtCode
    <2>7. Walked(d, h, 0 + 1).str = Walked(d, p, 0).str \o <<c>>
      <3>1. Walked(d, h, 0 + 1).str = <<c>>
        BY <2>1, <2>2
      <3>2. Walked(d, p, 0).str = << >>
        BY <2>3 DEF AtCode
      <3> QED BY <3>1, <3>2, <2>4, Zenon
    <2>8. Walked(d, h, 0 + 1).well = Walked(d, p, 0).well
      BY <2>6, Zenon
    <2> QED BY <2>5, <2>7, <2>8, Zenon DEF Behind
  <1> HIDE DEF p, c
  <1>2. 0 \in T
    BY <1>1
  <1>3. ASSUME NEW n \in Nat, n \in T PROVE n + 1 \in T
    <2>1. Behind(Walked(d, h, n + 1), Walked(d, p, n), c)
      BY <1>3
    <2>2. Walked(d, h, n + 1) \in Acc /\ Walked(d, p, n) \in Acc
      BY <1>0, WalkedStep
    <2>3. Behind(Walk(d, Walked(d, h, n + 1)), Walk(d, Walked(d, p, n)), c)
      BY <2>1, <2>2, <1>0, WalkBehind
    <2>4. Walked(d, h, (n + 1) + 1) = Walk(d, Walked(d, h, n + 1)) /\ Walked(d, p, n + 1) = Walk(d, Walked(d, p, n))
      BY <1>0, WalkedStep
    <2> QED BY <2>3, <2>4
  <1> HIDE DEF T
  <1>4. \A n \in Nat : n \in T
    BY <1>2, <1>3, Induction
  <1> QED BY <1>4 DEF T, p, c

(* The entries of d up to top stand for the strings s gives their codes.   *)
Spells(d, top, s) ==
    /\ (CLEAR + 1)..top \subseteq DOMAIN d.entry
    /\ s \in [Byte \cup (CLEAR + 1)..top -> Seq(Byte)]
    /\ \A b \in Byte : s[b] = <<b>>
    /\ \A h \in (CLEAR + 1)..top :
        /\ d.entry[h][1] \in Byte \cup (CLEAR + 1)..(h - 1)
        /\ s[h] = Append(s[d.entry[h][1]], d.entry[h][2])

LEMMA Meaning ==
    ASSUME NEW d, IsDict(d), NEW top \in Nat, NEW s, Spells(d, top, s),
           NEW c \in Byte \cup (CLEAR + 1)..top
    PROVE  buildstr(d, c).well /\ buildstr(d, c).str = s[c]
  <1> DEFINE Good(a, e) == a.well = TRUE /\ a.str = s[e]
             T == {n \in Nat : \A e \in Byte \cup (CLEAR + 1)..top :
                                 (e \in Byte \/ e - CLEAR <= n) => Good(Walked(d, e, n + 1), e)}
  <1>0. CLEAR \in Nat /\ CLEAR = ALPHA /\ Byte \subseteq Nat /\ \A b \in Byte : b < ALPHA
    BY Widths DEF CLEAR, Byte
  <1>1. \A b \in Byte : Good(Walked(d, b, 0 + 1), b)
    <2> SUFFICES ASSUME NEW b \in Byte PROVE Good(Walked(d, b, 0 + 1), b)
      OBVIOUS
    <2>1. Walked(d, b, 0 + 1) = Walk(d, AtCode(b))
      BY <1>0, WalkedStep
    <2>2. Walk(d, AtCode(b)) = [AtCode(b) EXCEPT !.str = <<b>> \o << >>, !.well = TRUE]
      BY <1>0 DEF Walk, AtCode, Byte
    <2>3. <<b>> \o << >> = <<b>>
      OBVIOUS
    <2>4. s[b] = <<b>>
      BY DEF Spells
    <2> QED BY <2>1, <2>2, <2>3, <2>4 DEF AtCode
  <1>2. 0 \in T
    <2> SUFFICES ASSUME NEW e \in Byte \cup (CLEAR + 1)..top, e \in Byte \/ e - CLEAR <= 0
                 PROVE  Good(Walked(d, e, 0 + 1), e)
      OBVIOUS
    <2>1. e \in Byte
      BY <1>0
    <2> QED BY <2>1, <1>1
  <1>3. ASSUME NEW n \in Nat, n \in T PROVE n + 1 \in T
    <2> HIDE DEF Good
    <2> SUFFICES ASSUME NEW e \in Byte \cup (CLEAR + 1)..top, e \in Byte \/ e - CLEAR <= n + 1
                 PROVE  Good(Walked(d, e, (n + 1) + 1), e)
      OBVIOUS
    <2> USE DEF Good
    <2>1. CASE e \in Byte
      <3>1. PICK a \in Acc : a = Walked(d, e, n + 1)
        BY <2>1, <1>0, WalkedStep
      <3>2. Good(a, e)
        BY <1>3, <2>1, <3>1
      <3>3. Walked(d, e, (n + 1) + 1) = Walk(d, a)
        BY <2>1, <1>0, <3>1, WalkedStep
      <3>4. Walk(d, a) = a
        BY <3>2 DEF Walk
      <3> QED BY <3>2, <3>3, <3>4
    <2>2. CASE e \in (CLEAR + 1)..top
      <3> DEFINE p == d.entry[e][1]
                 x == d.entry[e][2]
      <3>1. e \in DOMAIN d.entry /\ p \in Byte \cup (CLEAR + 1)..(e - 1) /\ s[e] = Append(s[p], x)
        BY <2>2 DEF Spells
      <3>2. x \in Byte /\ p \in Nat
        BY <3>1, DictType
      <3>3. Behind(Walked(d, e, (n + 1) + 1), Walked(d, p, n + 1), x)
        <4>1. \A k \in Nat : Behind(Walked(d, e, k + 1), Walked(d, p, k), x)
          BY <3>1, WalkedBehind
        <4>2. n + 1 \in Nat
          OBVIOUS
        <4> HIDE DEF p, x
        <4> QED BY <4>1, <4>2
      <3> HIDE DEF p, x
      <3>4. p \in Byte \cup (CLEAR + 1)..top /\ (p \in Byte \/ p - CLEAR <= n)
        BY <3>1, <2>2, <1>0
      <3>5. Good(Walked(d, p, n + 1), p)
        BY <1>3, <3>4
      <3>6. s[p] \in Seq(Byte)
        BY <3>4 DEF Spells
      <3>7. s[p] \o <<x>> = Append(s[p], x)
        BY <3>6, <3>2
      <3> QED BY <3>1, <3>3, <3>5, <3>7 DEF Behind
    <2> QED BY <2>1, <2>2
  <1> HIDE DEF T
  <1>4. \A n \in Nat : n \in T
    BY <1>2, <1>3, Induction
  <1>5. PICK n \in Nat : Cardinality(DOMAIN d.entry) = n /\ (c \in Byte \/ c - CLEAR <= n)
    <2>1. PICK m \in CLEAR..(Shl(DMAX) - 1) : d.entry \in [(CLEAR + 1)..m -> Nat \X Byte]
      BY DEF IsDict
    <2>2. m \in Nat /\ m >= CLEAR /\ DOMAIN d.entry = (CLEAR + 1)..m
      BY <2>1, <1>0
    <2>3. Cardinality((CLEAR + 1)..m) = m - CLEAR
      <3> DEFINE a == CLEAR + 1
      <3>1. a \in Int /\ m \in Int /\ a <= m + 1
        BY <2>2, <1>0
      <3>2. Cardinality(a..m) = (IF a > m THEN 0 ELSE m - a + 1)
        <4> HIDE DEF a
        <4> QED BY <3>1, FS_Interval
      <3> QED BY <3>1, <3>2, <1>0, <2>2
    <2>4. c \in Byte \/ c \in (CLEAR + 1)..m
      BY <2>2 DEF Spells
    <2> QED BY <2>2, <2>3, <2>4, <1>0
  <1>6. Good(Walked(d, c, n + 1), c)
    BY <1>4, <1>5 DEF T
  <1> QED BY <1>5, <1>6 DEF buildstr

-----------------------------------------------------------------------------
(* Types *)

LEMMA Sizes ==
    /\ CLEAR \in Nat /\ BITS0 \in Nat /\ DMAX \in Nat /\ Byte \subseteq Nat
    /\ \A b \in BITS0..DMAX : /\ b \in Nat /\ Shl(b) \in Nat
                              /\ CLEAR + 1 < Shl(b) /\ Shl(b) <= Shl(DMAX)
                              /\ Shl(b + 1) = 2 * Shl(b)
  <1>1. CLEAR \in Nat /\ BITS0 \in Nat /\ DMAX \in Nat /\ Byte \subseteq Nat
    BY Widths, UncompressAssumption DEF CLEAR, Byte
  <1> SUFFICES ASSUME NEW b \in BITS0..DMAX
               PROVE  /\ b \in Nat /\ Shl(b) \in Nat
                      /\ CLEAR + 1 < Shl(b) /\ Shl(b) <= Shl(DMAX)
                      /\ Shl(b + 1) = 2 * Shl(b)
    BY <1>1
  <1>2. b \in Nat
    BY <1>1
  <1>3. Shl(b) \in Nat /\ Shl(DMAX) \in Nat /\ Shl(BITS0) \in Nat /\ Shl(b + 1) = 2 * Shl(b)
    BY <1>1, <1>2, ShlStep
  <1>4. Shl(BITS0) <= Shl(b) /\ Shl(b) <= Shl(DMAX)
    BY <1>1, <1>2, ShlGrows
  <1>5. Shl(BITS0) > CLEAR + 1
    BY Widths DEF CLEAR
  <1> QED BY <1>1, <1>2, <1>3, <1>4, <1>5

LEMMA DictRecord ==
    ASSUME NEW e, NEW n \in Nat, NEW b \in Nat,
           \E m \in CLEAR..(Shl(DMAX) - 1) : e \in [(CLEAR + 1)..m -> Nat \X Byte],
           (CLEAR + 1)..(n - 1) \subseteq DOMAIN e
    PROVE  IsDict([entry |-> e, nexti |-> n, bits |-> b])
  BY DEF IsDict, Live

LEMMA DictParts ==
    ASSUME NEW d, IsDict(d)
    PROVE  /\ d = [entry |-> d.entry, nexti |-> d.nexti, bits |-> d.bits]
           /\ \E m \in CLEAR..(Shl(DMAX) - 1) : d.entry \in [(CLEAR + 1)..m -> Nat \X Byte]
           /\ d.nexti \in Nat /\ d.bits \in Nat /\ (CLEAR + 1)..(d.nexti - 1) \subseteq DOMAIN d.entry
  BY DEF IsDict, Live

LEMMA NoDictType == Named(NoDict)
  <1>1. CLEAR \in Nat /\ BITS0 \in BITS0..DMAX /\ BITS0 \in Nat /\ CLEAR + 1 < Shl(BITS0)
        /\ Shl(BITS0) <= Shl(DMAX) /\ Shl(BITS0) \in Nat /\ Shl(DMAX) \in Nat
    <2>1. BITS0 \in BITS0..DMAX
      BY Sizes, UncompressAssumption
    <2> QED BY <2>1, Sizes, ShlStep
  <1>2. << >> \in [(CLEAR + 1)..CLEAR -> Nat \X Byte]
    <2> DEFINE S == Nat \X Byte
    <2>1. (CLEAR + 1)..CLEAR = {}
      BY <1>1
    <2> HIDE DEF S
    <2>2. << >> \in [{} -> S]
      OBVIOUS
    <2> QED BY <2>1, <2>2 DEF S
  <1>3. \E m \in CLEAR..(Shl(DMAX) - 1) : << >> \in [(CLEAR + 1)..m -> Nat \X Byte]
    <2>1. CLEAR \in CLEAR..(Shl(DMAX) - 1)
      BY <1>1
    <2> QED BY <2>1, <1>2
  <1>4. (CLEAR + 1)..(CLEAR + 1 - 1) \subseteq DOMAIN << >>
    BY <1>1
  <1>5. IsDict(NoDict)
    <2> DEFINE e == << >>
               n == CLEAR + 1
    <2>1. n \in Nat /\ BITS0 \in Nat /\ (CLEAR + 1)..(n - 1) \subseteq DOMAIN e
      BY <1>1, <1>4
    <2>2. \E m \in CLEAR..(Shl(DMAX) - 1) : e \in [(CLEAR + 1)..m -> Nat \X Byte]
      BY <1>3
    <2>3. NoDict = [entry |-> e, nexti |-> n, bits |-> BITS0]
      BY DEF NoDict
    <2> HIDE DEF e, n
    <2> QED BY <2>1, <2>2, <2>3, DictRecord
  <1> QED BY <1>1, <1>5 DEF Named, NoDict

LEMMA ClearType ==
    ASSUME NEW d, IsDict(d)
    PROVE  /\ Named(cleardict(d)) /\ cleardict(d).nexti = CLEAR + 1 /\ cleardict(d).bits = BITS0
           /\ cleardict(d).entry = d.entry
  <1>1. cleardict(d) = [entry |-> d.entry, nexti |-> CLEAR + 1, bits |-> BITS0]
    BY DEF cleardict
  <1>2. CLEAR \in Nat /\ BITS0 \in BITS0..DMAX /\ BITS0 \in Nat /\ CLEAR + 1 < Shl(BITS0) /\ Shl(BITS0) \in Nat
    <2>1. BITS0 \in BITS0..DMAX
      BY Sizes, UncompressAssumption
    <2> QED BY <2>1, Sizes
  <1>3. IsDict([entry |-> d.entry, nexti |-> CLEAR + 1, bits |-> BITS0])
    <2> DEFINE e == d.entry
               n == CLEAR + 1
    <2>1. n \in Nat /\ BITS0 \in Nat /\ (CLEAR + 1)..(n - 1) \subseteq DOMAIN e
      BY <1>2
    <2>2. \E m \in CLEAR..(Shl(DMAX) - 1) : e \in [(CLEAR + 1)..m -> Nat \X Byte]
      BY DictParts
    <2> HIDE DEF e, n
    <2>3. IsDict([entry |-> e, nexti |-> n, bits |-> BITS0])
      BY <2>1, <2>2, DictRecord
    <2> QED BY <2>3 DEF e, n
  <1> QED BY <1>1, <1>2, <1>3 DEF Named

LEMMA AddedType ==
    ASSUME NEW d, IsDict(d), d.nexti \in (CLEAR + 1)..(Shl(DMAX) - 1),
           NEW p \in Nat, NEW c \in Byte
    PROVE  /\ IsDict(Added(d, p, c))
           /\ Added(d, p, c).nexti = d.nexti + 1 /\ Added(d, p, c).bits = d.bits
           /\ Added(d, p, c).entry[d.nexti] = <<p, c>>
           /\ \A h \in Live(d) : Added(d, p, c).entry[h] = d.entry[h]
  <1> DEFINE n == d.nexti
             e == With(d.entry, n, <<p, c>>)
             b == d.bits
             S == Nat \X Byte
             v == <<p, c>>
  <1>0. CLEAR \in Nat /\ n \in Nat /\ b \in Nat /\ v \in S /\ DMAX \in Nat
    BY Sizes, DictParts
  <1>a. Shl(DMAX) \in Nat
    BY <1>0, ShlStep
  <1>1. Added(d, p, c) = [entry |-> e, nexti |-> n + 1, bits |-> b]
    BY DEF Added
  <1>2. PICK m \in CLEAR..(Shl(DMAX) - 1) : d.entry \in [(CLEAR + 1)..m -> S]
    BY DictParts
  <1>3. (CLEAR + 1)..(n - 1) \subseteq (CLEAR + 1)..m
    BY <1>2, DictParts
  <1>4. n \in (CLEAR + 1)..(Shl(DMAX) - 1) /\ n <= m + 1
    <2>1. CASE n = CLEAR + 1
      BY <2>1, <1>0, <1>2
    <2>2. CASE n # CLEAR + 1
      <3>1. n - 1 \in (CLEAR + 1)..(n - 1)
        BY <2>2, <1>0
      <3> QED BY <3>1, <1>3, <1>0
    <2> QED BY <2>1, <2>2
  <1> DEFINE k == IF n = m + 1 THEN n ELSE m
  <1>5. k \in CLEAR..(Shl(DMAX) - 1)
    BY <1>2, <1>4, <1>0, <1>a
  <1>6. e = [x \in (CLEAR + 1)..k |-> IF x = n THEN v ELSE d.entry[x]]
    <2>1. (DOMAIN d.entry) \cup {n} = (CLEAR + 1)..k
      BY <1>2, <1>4, <1>0
    <2> QED BY <2>1 DEF With
  <1> HIDE DEF e, S, v, b, n
  <1>7. e \in [(CLEAR + 1)..k -> S]
    <2>1. \A x \in (CLEAR + 1)..k : x # n => d.entry[x] \in S
      BY <1>2, <1>4, <1>0
    <2> QED BY <2>1, <1>6, <1>0
  <1>8. (CLEAR + 1)..(n + 1 - 1) \subseteq DOMAIN e
    <2>1. n <= k
      BY <1>4, <1>2, <1>0
    <2> QED BY <2>1, <1>7, <1>5, <1>0
  <1>9. IsDict([entry |-> e, nexti |-> n + 1, bits |-> b])
    <2> DEFINE n1 == n + 1
    <2>1. n1 \in Nat /\ (CLEAR + 1)..(n1 - 1) \subseteq DOMAIN e
      BY <1>8, <1>0
    <2>2. \E x \in CLEAR..(Shl(DMAX) - 1) : e \in [(CLEAR + 1)..x -> Nat \X Byte]
      BY <1>5, <1>7 DEF S
    <2> HIDE DEF n1
    <2>3. IsDict([entry |-> e, nexti |-> n1, bits |-> b])
      BY <2>1, <2>2, <1>0, DictRecord
    <2> QED BY <2>3 DEF n1
  <1>10. e[n] = v
    <2>1. n \in (CLEAR + 1)..k
      BY <1>4, <1>2, <1>0
    <2> QED BY <2>1, <1>6
  <1>11. \A h \in (CLEAR + 1)..(n - 1) : e[h] = d.entry[h]
    <2> SUFFICES ASSUME NEW h \in (CLEAR + 1)..(n - 1) PROVE e[h] = d.entry[h]
      OBVIOUS
    <2>1. h \in (CLEAR + 1)..k /\ h # n
      BY <1>4, <1>2, <1>0
    <2> QED BY <2>1, <1>6
  <1> QED BY <1>1, <1>9, <1>10, <1>11 DEF n, b, v, Live

LEMMA WiderType ==
    ASSUME NEW d, IsDict(d)
    PROVE  /\ [d EXCEPT !.bits = @ + 1] = [entry |-> d.entry, nexti |-> d.nexti, bits |-> d.bits + 1]
           /\ IsDict([entry |-> d.entry, nexti |-> d.nexti, bits |-> d.bits + 1])
  <1>1. [d EXCEPT !.bits = @ + 1] = [entry |-> d.entry, nexti |-> d.nexti, bits |-> d.bits + 1]
    BY DictParts
  <1> DEFINE e == d.entry
             n == d.nexti
             b == d.bits + 1
  <1>2. n \in Nat /\ b \in Nat /\ (CLEAR + 1)..(n - 1) \subseteq DOMAIN e
        /\ \E m \in CLEAR..(Shl(DMAX) - 1) : e \in [(CLEAR + 1)..m -> Nat \X Byte]
    BY DictParts
  <1> HIDE DEF e, n, b
  <1>3. IsDict([entry |-> e, nexti |-> n, bits |-> b])
    BY <1>2, DictRecord
  <1> QED BY <1>1, <1>3 DEF e, n, b

LEMMA AdddictType ==
    ASSUME NEW d, Named(d), NEW p \in Nat, NEW c \in Byte
    PROVE  Named(adddict(d, p, c))
  <1>0. IsDict(d) /\ d.nexti \in (CLEAR + 1)..Shl(d.bits) /\ d.bits \in BITS0..DMAX
    BY DEF Named
  <1> DEFINE n == d.nexti
             b == d.bits
             e == Added(d, p, c)
  <1>1. CLEAR \in Nat /\ n \in Nat /\ b \in Nat /\ Shl(b) \in Nat /\ Shl(b) <= Shl(DMAX)
        /\ Shl(b + 1) = 2 * Shl(b) /\ DMAX \in Nat /\ BITS0 \in Nat
    BY <1>0, Sizes
  <1>a. Shl(DMAX) \in Nat
    BY <1>1, ShlStep
  <1>2. CASE n = Shl(b)
    BY <1>2 DEF adddict
  <1>3. CASE n # Shl(b)
    <2>1. n \in (CLEAR + 1)..(Shl(DMAX) - 1) /\ n < Shl(b)
      BY <1>0, <1>1, <1>3, <1>a
    <2>2. IsDict(e) /\ e.nexti = n + 1 /\ e.bits = b
      <3>1. d.nexti \in (CLEAR + 1)..(Shl(DMAX) - 1)
        BY <2>1
      <3> QED BY <3>1, <1>0, AddedType
    <2> HIDE DEF e, n, b
    <2>3. CASE Widens(e)
      <3> DEFINE f == [entry |-> e.entry, nexti |-> n + 1, bits |-> b + 1]
      <3>1. adddict(d, p, c) = f /\ IsDict(f)
        <4>1. [e EXCEPT !.bits = @ + 1] = f /\ IsDict(f)
          <5>1. [e EXCEPT !.bits = @ + 1] = [entry |-> e.entry, nexti |-> e.nexti, bits |-> e.bits + 1]
            BY <2>2, WiderType
          <5>2. IsDict([entry |-> e.entry, nexti |-> e.nexti, bits |-> e.bits + 1])
            BY <2>2, WiderType
          <5> QED BY <5>1, <5>2, <2>2
        <4>2. adddict(d, p, c) = [e EXCEPT !.bits = @ + 1]
          BY <1>3, <2>3 DEF adddict, e, n, b
        <4> QED BY <4>1, <4>2
      <3>2. b < DMAX
        BY <2>3, <2>2 DEF Widens
      <3>3. f.nexti = n + 1 /\ f.bits = b + 1
        OBVIOUS
      <3>4. n + 1 \in (CLEAR + 1)..Shl(b + 1) /\ b + 1 \in BITS0..DMAX
        BY <3>2, <2>1, <1>0, <1>1 DEF b
      <3> HIDE DEF f
      <3> QED BY <3>1, <3>3, <3>4 DEF Named
    <2>4. CASE ~Widens(e)
      <3>1. adddict(d, p, c) = e
        BY <1>3, <2>4 DEF adddict, e, n, b
      <3>2. n + 1 \in (CLEAR + 1)..Shl(b)
        BY <2>1, <1>0, <1>1
      <3>3. b \in BITS0..DMAX
        BY <1>0 DEF b
      <3> QED BY <3>1, <3>2, <3>3, <2>2 DEF Named
    <2> QED BY <2>3, <2>4
  <1> QED BY <1>2, <1>3

LEMMA TypedTypes == Typed => TypeOK
  <1> SUFFICES ASSUME Typed PROVE TypeOK
    OBVIOUS
  <1>1. zbits \in Seq({0, 1})
    BY DEF Typed, EncoderTyped
  <1>2. Range(zbits) \subseteq {0, 1}
    BY <1>1 DEF Range
  <1> QED BY <1>2 DEF Typed, EncoderTyped, DecoderTyped, TypeOK, Named, mymaxbits, Byte

LEMMA TypedInit == Init => Typed
  <1> SUFFICES ASSUME Init PROVE Typed
    OBVIOUS
  <1>1. text \in Seq(Byte)
    BY UncompressAssumption DEF Init, Byte
  <1>2. Named(NoDict) /\ NoDict.bits = BITS0
    BY NoDictType DEF NoDict
  <1>3. BUFZ \in Nat \ {0} /\ MaxFaults \in Nat /\ \A n \in DOMAIN OldZs : OldZs[n].bits \in Seq({0, 1})
    BY UncompressAssumption
  <1>4. << >> \in Seq({0, 1}) /\ << >> \in Seq(Byte) /\ Len(<< >>) = 0
    OBVIOUS
  <1>5. EncoderTyped
    BY <1>1, <1>2, <1>4 DEF Init, CInit, EncoderTyped
  <1>6. DecoderTyped
    BY <1>2, <1>3, <1>4 DEF Init, CInit, DecoderTyped
  <1> QED BY <1>5, <1>6 DEF Typed

LEMMA TypedText ==
    ASSUME Typed, NEW ch \in Byte, Ready(ch)
    PROVE  cpc = "read" /\ text # << >> /\ ch = Head(text) /\ Tail(text) \in Seq(Byte)
  BY DEF Typed, EncoderTyped, Ready

LEMMA TypedStart == Typed /\ CStart => EncoderTyped'
  <1> SUFFICES ASSUME Typed, CStart PROVE EncoderTyped'
    OBVIOUS
  <1>1. text \in Seq(Byte) /\ zbits \in Seq({0, 1}) /\ IsDict(ed)
    BY DEF Typed, EncoderTyped, Named
  <1>2. PICK d : d = cleardict(ed)
    OBVIOUS
  <1>3. Named(d) /\ d.bits = BITS0 /\ ed' = d
    BY <1>1, <1>2, ClearType DEF CStart
  <1>4. w' \in Nat /\ text' \in Seq(Byte)
    <2>1. CASE text = << >>
      BY <2>1, <1>1 DEF CStart, Minus1
    <2>2. CASE text # << >>
      <3>1. Head(text) \in Byte /\ Tail(text) \in Seq(Byte)
        BY <1>1, <2>2
      <3> QED BY <2>2, <3>1, Sizes DEF CStart
    <2> QED BY <2>1, <2>2
  <1>5. cpc' = "read" /\ zbits' = zbits
    BY DEF CStart
  <1> QED BY <1>1, <1>3, <1>4, <1>5 DEF EncoderTyped

LEMMA TypedOut ==
    ASSUME Typed, NEW s \in Nat, NEW n \in Nat, outsym(s, n)
    PROVE  zbits' \in Seq({0, 1})
  <1>1. BitsOf(s, n) \in Seq({0, 1})
    BY BitsOfType
  <1> QED BY <1>1 DEF Typed, EncoderTyped, outsym

LEMMA TypedLonger == Typed /\ Longer => EncoderTyped'
  <1> SUFFICES ASSUME Typed, Longer PROVE EncoderTyped'
    OBVIOUS
  <1>0. PICK ch \in Byte : \E h \in Found(String(ch)) :
          Ready(ch) /\ w' = h /\ text' = Tail(text) /\ UNCHANGED <<cpc, ed, zbits>>
    BY DEF Longer, Byte
  <1>1. PICK h \in Found(String(ch)) :
          Ready(ch) /\ w' = h /\ text' = Tail(text) /\ UNCHANGED <<cpc, ed, zbits>>
    BY <1>0
  <1>2. h \in Nat
    <2>1. h \in (CLEAR + 1)..(ed.nexti - 1) /\ ed.nexti \in Nat /\ CLEAR \in Nat
      BY <1>1, Sizes DEF Found, Entries, Typed, EncoderTyped, Named, IsDict
    <2> QED BY <2>1
  <1> QED BY <1>1, <1>2, TypedText DEF Typed, EncoderTyped

LEMMA TypedAdd == Typed /\ AddEntry => EncoderTyped'
  <1> SUFFICES ASSUME Typed, AddEntry PROVE EncoderTyped'
    OBVIOUS
  <1>1. PICK ch \in Byte :
          /\ Ready(ch) /\ ~(Full /\ ed.bits = mymaxbits)
          /\ LET d == IF Full THEN [ed EXCEPT !.bits = @ + 1] ELSE ed
             IN  ed' = Added(d, w, ch) /\ outsym(w, d.bits)
          /\ w' = ch /\ text' = Tail(text) /\ cpc' = cpc
    BY DEF AddEntry, Byte, New
  <1>2. Named(ed) /\ ed.bits = BITS0 /\ w \in Nat
    BY DEF Typed, EncoderTyped
  <1>3. ~Full
    BY <1>1, <1>2 DEF mymaxbits
  <1>4. ed' = Added(ed, w, ch) /\ outsym(w, BITS0)
    BY <1>1, <1>2, <1>3
  <1>5. PICK d, e : d = ed /\ e = Added(d, w, ch)
    OBVIOUS
  <1>6. d.nexti \in (CLEAR + 1)..(Shl(BITS0) - 1) /\ Shl(BITS0) <= Shl(DMAX)
        /\ Shl(BITS0) \in Nat /\ Shl(DMAX) \in Nat /\ BITS0 \in Nat /\ CLEAR \in Nat /\ BITS0 \in BITS0..DMAX
    <2>1. BITS0 \in BITS0..DMAX
      BY UncompressAssumption, Sizes
    <2>2. Shl(BITS0) <= Shl(DMAX) /\ Shl(BITS0) \in Nat /\ Shl(DMAX) \in Nat /\ CLEAR \in Nat /\ BITS0 \in Nat
      BY <2>1, Sizes, ShlStep
    <2>3. d.nexti \in (CLEAR + 1)..Shl(BITS0) /\ d.nexti # Shl(BITS0)
      BY <1>2, <1>3, <1>5 DEF Named, Full
    <2> QED BY <2>1, <2>2, <2>3
  <1>7. IsDict(e) /\ e.nexti = d.nexti + 1 /\ e.bits = BITS0
    <2>1. IsDict(d) /\ d.nexti \in (CLEAR + 1)..(Shl(DMAX) - 1) /\ d.bits = BITS0
      BY <1>2, <1>5, <1>6 DEF Named
    <2> QED BY <1>2, <1>5, <2>1, AddedType
  <1>8. Named(e)
    BY <1>6, <1>7 DEF Named
  <1>9. zbits' \in Seq({0, 1})
    BY <1>2, <1>4, <1>6, TypedOut
  <1>10. ed' = e
    BY <1>4, <1>5
  <1>11. w' \in Nat /\ text' \in Seq(Byte) /\ cpc' = cpc /\ cpc \in {"start", "read", "done", "runaway"}
    BY <1>1, Sizes, TypedText DEF Typed, EncoderTyped
  <1> QED BY <1>7, <1>8, <1>9, <1>10, <1>11 DEF EncoderTyped

LEMMA TypedClear == Typed /\ ClearDict => EncoderTyped'
  <1> SUFFICES ASSUME Typed, ClearDict PROVE EncoderTyped'
    OBVIOUS
  <1>1. PICK ch \in Byte :
          /\ Ready(ch) /\ outsym(CLEAR, ed.bits) /\ ed' = cleardict(ed)
          /\ text' = Tail(text) /\ cpc' = cpc /\ w' = w
    BY DEF ClearDict, Byte, New
  <1>2. PICK d : d = cleardict(ed)
    OBVIOUS
  <1>3. Named(d) /\ d.bits = BITS0 /\ ed' = d
    BY <1>1, <1>2, ClearType DEF Typed, EncoderTyped, Named
  <1>4. zbits' \in Seq({0, 1})
    <2>1. CLEAR \in Nat /\ ed.bits \in Nat
      BY Sizes DEF Typed, EncoderTyped, Named, IsDict
    <2> QED BY <1>1, <2>1, TypedOut
  <1>5. text' \in Seq(Byte)
    BY <1>1, TypedText
  <1> QED BY <1>1, <1>3, <1>4, <1>5 DEF EncoderTyped, Typed

(* What fills the last byte. *)
Pad == [k \in 1..((BYTE - ((Len(zbits) + ed.bits) % BYTE)) % BYTE) |-> 0]

LEMMA PadType ==
    ASSUME Typed
    PROVE  Pad \in Seq({0, 1}) /\ Len(Pad) < BYTE /\ Len(Pad) \in Nat
  <1> DEFINE n == Len(zbits) + ed.bits
  <1>1. n \in Nat /\ BYTE \in Nat \ {0}
    BY Widths, Sizes DEF Typed, EncoderTyped
  <1> HIDE DEF n
  <1>2. n % BYTE \in 0..(BYTE - 1)
    BY <1>1
  <1> DEFINE r == n % BYTE
  <1> HIDE DEF r
  <1>3. (BYTE - r) % BYTE \in 0..(BYTE - 1)
    BY <1>1, <1>2 DEF r
  <1> DEFINE l == (BYTE - r) % BYTE
  <1>4. Pad = [k \in 1..l |-> 0]
    BY DEF Pad, l, r, n
  <1> HIDE DEF l
  <1>5. l \in Nat /\ l < BYTE
    BY <1>1, <1>3 DEF l
  <1>6. [k \in 1..l |-> 0] \in Seq({0, 1}) /\ Len([k \in 1..l |-> 0]) = l
    BY <1>5
  <1> QED BY <1>4, <1>5, <1>6

LEMMA TypedEnd == Typed /\ CEnd => EncoderTyped'
  <1> SUFFICES ASSUME Typed, CEnd PROVE EncoderTyped'
    OBVIOUS
  <1>1. zbits' = zbits \o BitsOf(w, ed.bits) \o Pad /\ cpc' = "done" /\ UNCHANGED <<text, w, ed>>
    BY DEF CEnd, Pad
  <1>2. zbits \in Seq({0, 1}) /\ BitsOf(w, ed.bits) \in Seq({0, 1}) /\ Pad \in Seq({0, 1})
    <2>1. w \in Nat /\ ed.bits \in Nat /\ zbits \in Seq({0, 1})
      BY Sizes DEF Typed, EncoderTyped
    <2> QED BY <2>1, PadType, BitsOfType
  <1>3. zbits' \in Seq({0, 1})
    BY <1>1, <1>2
  <1> QED BY <1>1, <1>3 DEF Typed, EncoderTyped

LEMMA TypedCompress == Typed /\ compress => EncoderTyped'
  <1>1. Typed /\ RunAway => EncoderTyped'
    BY DEF Typed, EncoderTyped, RunAway
  <1> QED BY <1>1, TypedStart, TypedLonger, TypedAdd, TypedClear, TypedEnd DEF compress

LEMMA SymType ==
    ASSUME Typed
    PROVE  Sym \in Nat /\ (getsym => inb' \in Seq({0, 1}))
  <1> DEFINE S == {0, 1}
             n == dd.bits
  <1>1. inb \in Seq(S) /\ n \in Nat /\ S = {0, 1}
    BY Sizes DEF Typed, DecoderTyped, Named
  <1>2. Sym = ValueOf(SubSeq(inb, 1, IF Len(inb) < n THEN Len(inb) ELSE n))
    BY DEF Sym, eof
  <1>3. getsym => inb' = IF Len(inb) < n THEN << >> ELSE SubSeq(inb, n + 1, Len(inb))
    BY DEF getsym, eof
  <1> HIDE DEF S, n
  <1>4. SubSeq(inb, 1, IF Len(inb) < n THEN Len(inb) ELSE n) \in Seq(S)
    <2>1. CASE Len(inb) < n
      BY <1>1, <2>1
    <2>2. CASE ~(Len(inb) < n)
      BY <1>1, <2>2
    <2> QED BY <2>1, <2>2
  <1>5. SubSeq(inb, n + 1, Len(inb)) \in Seq(S) /\ << >> \in Seq(S)
    BY <1>1
  <1>6. Sym \in Nat
    BY <1>1, <1>2, <1>4, ValueType
  <1>7. getsym => inb' \in Seq(S)
    BY <1>3, <1>5
  <1> QED BY <1>1, <1>6, <1>7

LEMMA DivMod ==
    ASSUME NEW l \in Nat, NEW b \in Nat \ {0}
    PROVE  (l \div b) * b \in Nat /\ (l \div b) * b <= l /\ l - (l \div b) * b < b
  BY SMTT(60)

LEMMA OutType ==
    ASSUME Typed, NEW s \in Seq(Byte), outbytes(s)
    PROVE  obuf' \in Seq(Byte) /\ Len(obuf') < BUFZ
  <1> DEFINE all == obuf \o s
             n   == (Len(all) \div BUFZ) * BUFZ
             S == Byte
  <1>1. all \in Seq(S) /\ BUFZ \in Nat \ {0}
    BY UncompressAssumption DEF Typed, DecoderTyped
  <1>2. obuf' = SubSeq(all, n + 1, Len(all))
    BY DEF outbytes
  <1> HIDE DEF all, S
  <1>3. n \in Nat /\ n <= Len(all) /\ Len(all) - n < BUFZ
    <2> DEFINE l == Len(all)
    <2>1. l \in Nat
      BY <1>1
    <2> HIDE DEF l
    <2>2. (l \div BUFZ) * BUFZ \in Nat /\ (l \div BUFZ) * BUFZ <= l /\ l - (l \div BUFZ) * BUFZ < BUFZ
      BY <2>1, <1>1, DivMod
    <2> QED BY <2>2 DEF l
  <1> HIDE DEF n
  <1>4. SubSeq(all, n + 1, Len(all)) \in Seq(S)
    BY <1>1, <1>3
  <1>5. Len(SubSeq(all, n + 1, Len(all))) = Len(all) - n
    BY <1>1, <1>3
  <1> QED BY <1>2, <1>3, <1>4, <1>5 DEF S

LEMMA PrintType ==
    ASSUME Typed, NEW d, IsDict(d), NEW s \in Nat, printsym(d, s)
    PROVE  obuf' \in Seq(Byte) /\ Len(obuf') < BUFZ /\ upc' \in {"next", "runaway"}
  <1>1. CASE Means(d, s)
    <2>1. PICK a \in Acc : a = buildstr(d, s)
      BY BuildType
    <2>2. a.str \in Seq(Byte)
      BY DEF Acc
    <2>3. outbytes(a.str) /\ upc' = "next"
      BY <1>1, <2>1 DEF printsym, Go
    <2> QED BY <2>2, <2>3, OutType
  <1>2. CASE ~Means(d, s)
    BY <1>2 DEF printsym, Go, Typed, DecoderTyped
  <1> QED BY <1>1, <1>2

(* What the steps that do not decode leave as it is. *)
LEMMA TypedStays ==
    ASSUME Typed, upc # "wait", UNCHANGED <<cpc, zbits, zs>>, UNCHANGED <<text, w, ed>>,
           Named(dd)', prev' \in Nat, inb' \in Seq({0, 1}),
           obuf' \in Seq(Byte), Len(obuf') < BUFZ, faults' \in 0..MaxFaults,
           upc' \in {"args", "ask", "openout", "header", "first", "next", "flush", "abort",
                     "exit0", "exit1", "runaway", "overflow"},
           upc' \in {"ask", "openout", "header"} => input' \in DOMAIN zs
    PROVE  Typed'
  BY DEF Typed, EncoderTyped, DecoderTyped

LEMMA TypedQuiet ==
    ASSUME Typed, upc # "wait", UNCHANGED cvars, UNCHANGED zs, UNCHANGED <<inb, dd, prev, obuf>>,
           faults' \in 0..MaxFaults,
           upc' \in {"args", "ask", "openout", "header", "first", "next", "flush", "abort",
                     "exit0", "exit1", "runaway", "overflow"},
           upc' \in {"ask", "openout", "header"} => input' \in DOMAIN zs
    PROVE  Typed'
  <1>1. Named(dd)'
    BY DEF Typed, DecoderTyped, Named, IsDict, Live
  <1> QED BY <1>1, TypedStays DEF cvars, Typed, DecoderTyped

LEMMA TypedCompressed == Typed /\ Compressed => Typed'
  <1> SUFFICES ASSUME Typed, Compressed PROVE Typed'
    OBVIOUS
  <1>1. zs' = With(zs, "a", [id |-> TRUE, max |-> mymaxbits, bits |-> zbits])
    BY DEF Compressed
  <1>2. "a" \in DOMAIN zs' /\ zs'["a"].bits = zbits
    BY <1>1 DEF With
  <1>3. \A n \in DOMAIN zs' : zs'[n].bits \in Seq({0, 1})
    <2> SUFFICES ASSUME NEW n \in DOMAIN zs' PROVE zs'[n].bits \in Seq({0, 1})
      OBVIOUS
    <2>1. CASE n = "a"
      BY <2>1, <1>2 DEF Typed, EncoderTyped
    <2>2. CASE n # "a"
      <3>1. n \in DOMAIN zs /\ zs'[n] = zs[n]
        BY <1>1, <2>2 DEF With
      <3> QED BY <3>1 DEF Typed, DecoderTyped
    <2> QED BY <2>1, <2>2
  <1>4. upc' = "args" /\ cpc = "done" /\ UNCHANGED cvars /\ UNCHANGED <<inb, dd, prev, obuf, faults>>
    BY DEF Compressed, Go, decoder
  <1>5. Named(dd)'
    BY <1>4 DEF Typed, DecoderTyped, Named, IsDict, Live
  <1> QED BY <1>2, <1>3, <1>4, <1>5 DEF Typed, EncoderTyped, DecoderTyped, cvars

LEMMA TypedMain == Typed /\ main => Typed'
  <1>1. ASSUME Typed, Option PROVE Typed'
    <2>1. upc = "args" /\ upc' \in {"args", "exit1"}
      BY <1>1 DEF Option, Arg, Go
    <2>2. UNCHANGED cvars /\ UNCHANGED zs /\ UNCHANGED <<inb, dd, prev, obuf>> /\ faults' = faults
      BY <1>1 DEF Option, decoder, rest
    <2> QED BY <1>1, <2>1, <2>2, TypedQuiet DEF Typed, DecoderTyped
  <1>2. ASSUME Typed, pipeit PROVE Typed'
    <2>1. upc = "args" /\ upc' = "header" /\ input' = "a"
      BY <1>2 DEF pipeit, Arg, Go
    <2>2. UNCHANGED cvars /\ UNCHANGED zs /\ UNCHANGED <<inb, dd, prev, obuf>> /\ faults' = faults
      BY <1>2 DEF pipeit, rest
    <2>3. "a" \in DOMAIN zs
      BY <1>2, <2>1 DEF Typed, DecoderTyped
    <2> QED BY <1>2, <2>1, <2>2, <2>3, TypedQuiet DEF Typed, DecoderTyped
  <1>3. ASSUME Typed, OpenIn PROVE Typed'
    <2>1. PICK a \in Range(argv) :
            /\ upc = "args" /\ input' = a.name
            /\ upc' = IF a.name \notin DOMAIN zs THEN "exit1"
                      ELSE IF Asks(a.name) THEN "ask" ELSE "openout"
      BY <1>3 DEF OpenIn, Arg, Go
    <2>2. UNCHANGED cvars /\ UNCHANGED zs /\ UNCHANGED <<inb, dd, prev, obuf>> /\ faults' = faults
      BY <1>3 DEF OpenIn, rest
    <2>3. upc' \in {"exit1", "ask", "openout"} /\ (upc' \in {"ask", "openout"} => input' \in DOMAIN zs)
      BY <2>1
    <2> QED BY <1>3, <2>1, <2>2, <2>3, TypedQuiet DEF Typed, DecoderTyped
  <1>4. ASSUME Typed, Answer PROVE Typed'
    <2>1. upc = "ask" /\ upc' \in {"openout", "abort", "overflow"} /\ input' = input
      BY <1>4 DEF Answer, Go, EndsIn, target
    <2>2. UNCHANGED cvars /\ UNCHANGED zs /\ UNCHANGED <<inb, dd, prev, obuf>> /\ faults' = faults
      BY <1>4 DEF Answer, decoder
    <2> QED BY <1>4, <2>1, <2>2, TypedQuiet DEF Typed, DecoderTyped
  <1>5. ASSUME Typed, OpenOut PROVE Typed'
    <2>1. upc = "openout" /\ upc' = "header" /\ input' = input
      BY <1>5 DEF OpenOut, Go
    <2>2. UNCHANGED cvars /\ UNCHANGED zs /\ UNCHANGED <<inb, dd, prev, obuf>> /\ faults' = faults
      BY <1>5 DEF OpenOut, decoder, rest
    <2> QED BY <1>5, <2>1, <2>2, TypedQuiet DEF Typed, DecoderTyped
  <1>6. ASSUME Typed, CallFails PROVE Typed'
    <2>1. upc = "openout" /\ upc' \in {"abort", "overflow"} /\ faults < MaxFaults /\ faults' = faults + 1
      BY <1>6 DEF CallFails, Go, EndsIn, Fault
    <2>2. UNCHANGED cvars /\ UNCHANGED zs /\ UNCHANGED <<inb, dd, prev, obuf>>
      BY <1>6 DEF CallFails, decoder
    <2>3. faults' \in 0..MaxFaults
      BY <1>6, <2>1, UncompressAssumption DEF Typed, DecoderTyped
    <2> QED BY <1>6, <2>1, <2>2, <2>3, TypedQuiet
  <1>7. ASSUME Typed, Exit PROVE Typed'
    <2>1. upc = "args" /\ upc' \in {"exit0", "overflow"}
      BY <1>7 DEF Exit, Go, EndsIn
    <2>2. UNCHANGED cvars /\ UNCHANGED zs /\ UNCHANGED <<inb, dd, prev, obuf>> /\ faults' = faults
      BY <1>7 DEF Exit, decoder, rest
    <2> QED BY <1>7, <2>1, <2>2, TypedQuiet DEF Typed, DecoderTyped
  <1>8. ASSUME Typed, Abort PROVE Typed'
    <2>1. upc = "abort" /\ upc' = "exit1" /\ obuf' = << >>
      BY <1>8 DEF Abort, Go
    <2>2. UNCHANGED cvars /\ UNCHANGED zs /\ UNCHANGED <<inb, dd, prev>> /\ faults' = faults
      BY <1>8 DEF Abort, rest
    <2>3. << >> \in Seq(Byte) /\ Len(<< >>) < BUFZ
      BY UncompressAssumption
    <2>4. Named(dd)'
      BY <1>8, <2>2 DEF Typed, DecoderTyped, Named, IsDict, Live
    <2> QED BY <1>8, <2>1, <2>2, <2>3, <2>4, TypedStays DEF Typed, DecoderTyped, cvars
  <1> QED BY <1>1, <1>2, <1>3, <1>4, <1>5, <1>6, <1>7, <1>8 DEF main

LEMMA TypedDecompress == Typed /\ decompress => Typed'
  <1>1. ASSUME Typed, Header PROVE Typed'
    <2>1. upc = "header" /\ upc' \in {"first", "abort"} /\ inb' = zs[input].bits /\ dd' = cleardict(dd)
      BY <1>1 DEF Header, Go
    <2>2. UNCHANGED cvars /\ UNCHANGED zs /\ UNCHANGED <<prev, obuf>> /\ faults' = faults
      BY <1>1 DEF Header, rest
    <2>3. inb' \in Seq({0, 1})
      BY <1>1, <2>1 DEF Typed, DecoderTyped
    <2>4. PICK d : d = cleardict(dd)
      OBVIOUS
    <2>5. Named(d)
      BY <1>1, <2>4, ClearType DEF Typed, DecoderTyped, Named
    <2>6. Named(dd)'
      BY <2>1, <2>4, <2>5 DEF Named, IsDict, Live
    <2> QED BY <1>1, <2>1, <2>2, <2>3, <2>6, TypedStays DEF Typed, DecoderTyped, cvars
  <1>2. ASSUME Typed, FirstSym PROVE Typed'
    <2>1. upc = "first" /\ inb' \in Seq({0, 1}) /\ prev' = Sym /\ Sym \in Nat /\ printsym(dd, Sym)
      BY <1>2, SymType DEF FirstSym
    <2>2. UNCHANGED cvars /\ UNCHANGED zs /\ dd' = dd /\ faults' = faults
      BY <1>2 DEF FirstSym, rest
    <2>3. IsDict(dd)
      BY <1>2 DEF Typed, DecoderTyped, Named
    <2>4. PICK d, s : d = dd /\ s = Sym
      OBVIOUS
    <2>5. obuf' \in Seq(Byte) /\ Len(obuf') < BUFZ /\ upc' \in {"next", "runaway"}
      BY <1>2, <2>1, <2>3, <2>4, PrintType
    <2>6. Named(dd)'
      BY <1>2, <2>2 DEF Typed, DecoderTyped, Named, IsDict, Live
    <2> QED BY <1>2, <2>1, <2>2, <2>5, <2>6, TypedStays DEF Typed, DecoderTyped, cvars
  <1>3. ASSUME Typed, NextSym PROVE Typed'
    <2>1. upc = "next" /\ inb' \in Seq({0, 1}) /\ prev' = Sym /\ Sym \in Nat
      BY <1>3, SymType DEF NextSym
    <2>2. UNCHANGED cvars /\ UNCHANGED zs /\ faults' = faults
      BY <1>3 DEF NextSym, rest
    <2>3. Named(dd) /\ IsDict(dd) /\ prev \in Nat
      BY <1>3 DEF Typed, DecoderTyped, Named
    <2>4. CASE Lead(Sym).well
      <3>1. PICK a \in Acc : a = Lead(Sym)
        <4>1. Lead(Sym) = buildstr(dd, prev) \/ Lead(Sym) = buildstr(dd, Sym)
          BY DEF Lead
        <4>2. buildstr(dd, prev) \in Acc /\ buildstr(dd, Sym) \in Acc
          BY <2>1, <2>3, BuildType
        <4> QED BY <4>1, <4>2
      <3>2. a.well => a.str # << >>
        <4>1. Lead(Sym) = buildstr(dd, prev) \/ Lead(Sym) = buildstr(dd, Sym)
          BY DEF Lead
        <4>2. /\ buildstr(dd, prev).well => buildstr(dd, prev).str # << >>
              /\ buildstr(dd, Sym).well => buildstr(dd, Sym).str # << >>
          BY <2>1, <2>3, BuildType
        <4> QED BY <4>1, <4>2, <3>1
      <3>3. a.str \in Seq(Byte) /\ a.str # << >>
        BY <2>4, <3>1, <3>2 DEF Acc
      <3>4. Head(a.str) \in Byte
        BY <3>3
      <3>5. dd' = adddict(dd, prev, Head(a.str)) /\ printsym(dd', Sym)
        BY <1>3, <2>4, <3>1 DEF NextSym
      <3>6. PICK d, s : d = adddict(dd, prev, Head(a.str)) /\ s = Sym
        OBVIOUS
      <3>7. Named(d) /\ IsDict(d) /\ dd' = d /\ printsym(d, s)
        BY <2>3, <3>4, <3>5, <3>6, AdddictType DEF Named
      <3>8. obuf' \in Seq(Byte) /\ Len(obuf') < BUFZ /\ upc' \in {"next", "runaway"}
        BY <1>3, <2>1, <3>6, <3>7, PrintType
      <3>9. Named(dd)'
        BY <3>7 DEF Named, IsDict, Live
      <3> QED BY <1>3, <2>1, <2>2, <3>8, <3>9, TypedStays DEF Typed, DecoderTyped, cvars
    <2>5. CASE ~Lead(Sym).well
      <3>1. dd' = dd /\ obuf' = obuf /\ upc' = "runaway"
        BY <1>3, <2>5 DEF NextSym, Go
      <3>2. Named(dd)'
        BY <2>3, <3>1 DEF Named, IsDict, Live
      <3> QED BY <1>3, <2>1, <2>2, <3>1, <3>2, TypedStays DEF Typed, DecoderTyped, cvars
    <2> QED BY <2>4, <2>5
  <1>4. ASSUME Typed, Cleared PROVE Typed'
    <2>1. upc = "next" /\ upc' = "first" /\ inb' \in Seq({0, 1}) /\ dd' = cleardict(dd)
      BY <1>4, SymType DEF Cleared, Go
    <2>2. UNCHANGED cvars /\ UNCHANGED zs /\ UNCHANGED <<prev, obuf>> /\ faults' = faults
      BY <1>4 DEF Cleared, rest
    <2>4. PICK d : d = cleardict(dd)
      OBVIOUS
    <2>5. Named(d)
      BY <1>4, <2>4, ClearType DEF Typed, DecoderTyped, Named
    <2>6. Named(dd)'
      BY <2>1, <2>4, <2>5 DEF Named, IsDict, Live
    <2> QED BY <1>4, <2>1, <2>2, <2>6, TypedStays DEF Typed, DecoderTyped, cvars
  <1>5. ASSUME Typed, BadStream \/ EndOfFile PROVE Typed'
    <2>1. upc = "next" /\ upc' \in {"abort", "flush"} /\ inb' \in Seq({0, 1})
      BY <1>5, SymType DEF BadStream, EndOfFile, Go
    <2>2. UNCHANGED cvars /\ UNCHANGED zs /\ UNCHANGED <<dd, prev, obuf>> /\ faults' = faults
      BY <1>5 DEF BadStream, EndOfFile, rest
    <2>3. Named(dd)'
      BY <1>5, <2>2 DEF Typed, DecoderTyped, Named, IsDict, Live
    <2> QED BY <1>5, <2>1, <2>2, <2>3, TypedStays DEF Typed, DecoderTyped, cvars
  <1>6. ASSUME Typed, Flush PROVE Typed'
    <2>1. upc = "flush" /\ upc' \in {"exit0", "args"} /\ obuf' = << >>
      BY <1>6 DEF Flush, Go
    <2>2. UNCHANGED cvars /\ UNCHANGED zs /\ UNCHANGED <<inb, dd, prev>> /\ faults' = faults
      BY <1>6 DEF Flush, rest
    <2>3. << >> \in Seq(Byte) /\ Len(<< >>) < BUFZ
      BY UncompressAssumption
    <2>4. Named(dd)'
      BY <1>6, <2>2 DEF Typed, DecoderTyped, Named, IsDict, Live
    <2> QED BY <1>6, <2>1, <2>2, <2>3, <2>4, TypedStays DEF Typed, DecoderTyped, cvars
  <1>7. ASSUME Typed, WriteFails PROVE Typed'
    <2>1. upc # "wait" /\ upc' = "overflow" /\ faults < MaxFaults /\ faults' = faults + 1
      BY <1>7 DEF WriteFails, Go, Fault
    <2>2. UNCHANGED cvars /\ UNCHANGED zs /\ UNCHANGED <<inb, dd, prev, obuf>>
      BY <1>7 DEF WriteFails, decoder
    <2>3. faults' \in 0..MaxFaults
      BY <1>7, <2>1, UncompressAssumption DEF Typed, DecoderTyped
    <2> QED BY <1>7, <2>1, <2>2, <2>3, TypedQuiet
  <1> QED BY <1>1, <1>2, <1>3, <1>4, <1>5, <1>6, <1>7 DEF decompress

LEMMA TypedNext == Typed /\ [Next]_vars => Typed'
  <1>1. ASSUME Typed, UNCHANGED vars PROVE Typed'
    <2>1. UNCHANGED cvars /\ UNCHANGED <<upc, zs, input, faults>> /\ UNCHANGED <<inb, dd, prev, obuf>>
      BY <1>1 DEF vars, rest, target, decoder
    <2>2. Named(dd)'
      BY <1>1, <2>1 DEF Typed, DecoderTyped, Named, IsDict, Live
    <2>3. Named(ed)'
      BY <1>1, <2>1 DEF Typed, EncoderTyped, Named, IsDict, Live, cvars
    <2> QED BY <1>1, <2>1, <2>2, <2>3 DEF Typed, EncoderTyped, DecoderTyped, cvars
  <1>2. ASSUME Typed, upc = "wait", compress, UNCHANGED <<upc, args, files, target, decoder, rest>>
        PROVE  Typed'
    <2>1. UNCHANGED <<upc, zs, input, faults>> /\ UNCHANGED <<inb, dd, prev, obuf>>
      BY <1>2 DEF rest, target, decoder
    <2>2. Named(dd)'
      BY <1>2, <2>1 DEF Typed, DecoderTyped, Named, IsDict, Live
    <2>3. EncoderTyped'
      BY <1>2, TypedCompress
    <2> QED BY <1>2, <2>1, <2>2, <2>3 DEF Typed, DecoderTyped
  <1> QED BY <1>1, <1>2, TypedCompressed, TypedMain, TypedDecompress DEF Next

(* The variables have their types; the encoder's dictionary never has more *)
(* entries than its codes can name (compress.c:246-274).                   *)
THEOREM Types == Spec => []TypeOK
  <1>1. Spec => []Typed
    BY TypedInit, TypedNext, PTL DEF Spec
  <1> QED BY <1>1, TypedTypes, PTL

-----------------------------------------------------------------------------
(* Files that were there *)

KeptInv == TargetInv /\ OldKept

LEMMA KeptInit == Init => KeptInv
  <1> SUFFICES ASSUME Init PROVE KeptInv
    OBVIOUS
  <1>1. old = files /\ output = Stdout /\ upc = "wait"
    BY DEF Init
  <1> QED BY <1>1 DEF KeptInv, TargetInv, OldKept, Agreed

(* No file changes, and who agreed has. *)
LEMMA KeptQuiet ==
    ASSUME KeptInv, UNCHANGED <<files, old>>, fflg => fflg', agreed \subseteq agreed',
           Agreed(output)', upc' = "openout" => Agreed(input)'
    PROVE  KeptInv'
  <1>1. \A n : Agreed(n) => Agreed(n)'
    BY DEF Agreed
  <1>2. TargetInv'
    BY DEF KeptInv, TargetInv
  <1>3. OldKept'
    BY DEF KeptInv, OldKept
  <1> QED BY <1>2, <1>3 DEF KeptInv

LEMMA KeptStays ==
    ASSUME KeptInv, UNCHANGED <<files, old, fflg, agreed, output>>, upc' # "openout"
    PROVE  KeptInv'
  <1>1. Agreed(output)'
    BY DEF KeptInv, TargetInv, Agreed
  <1> QED BY <1>1, KeptQuiet

(* The output is written. *)
LEMMA KeptWrites ==
    ASSUME KeptInv, NEW s, files' = [files EXCEPT ![output] = Over(@, pos, s)],
           UNCHANGED <<old, fflg, agreed, output>>, upc' # "openout"
    PROVE  KeptInv'
  <1>1. DOMAIN files' = DOMAIN files /\ \A n \in DOMAIN files : n # output => files'[n] = files[n]
    OBVIOUS
  <1>2. Agreed(output)
    BY DEF KeptInv, TargetInv
  <1>3. TargetInv'
    BY <1>1, <1>2 DEF KeptInv, TargetInv, Agreed
  <1>4. OldKept'
    <2> SUFFICES ASSUME NEW n \in DOMAIN old \ {Stdout}
                 PROVE  n \in DOMAIN files' /\ (files'[n] # old[n] => fflg \/ n \in agreed)
      BY DEF OldKept
    <2>1. n \in DOMAIN files /\ (files[n] # old[n] => fflg \/ n \in agreed)
      BY DEF KeptInv, OldKept
    <2>2. CASE n = output
      BY <2>1, <2>2, <1>1, <1>2 DEF Agreed
    <2>3. CASE n # output
      BY <2>1, <2>3, <1>1
    <2> QED BY <2>2, <2>3
  <1> QED BY <1>3, <1>4 DEF KeptInv

(* The output is made, or left as it is. *)
LEMMA KeptMade ==
    ASSUME KeptInv, files' = files \/ files' = Made(input), UNCHANGED <<old, fflg, agreed>>,
           Agreed(output'), upc' # "openout"
    PROVE  KeptInv'
  <1>1. /\ DOMAIN files \subseteq DOMAIN files'
        /\ \A n \in DOMAIN files : files'[n] = files[n]
    BY DEF Made, With
  <1>2. TargetInv'
    BY <1>1 DEF KeptInv, TargetInv, Agreed
  <1>3. OldKept'
    BY <1>1 DEF KeptInv, OldKept
  <1> QED BY <1>2, <1>3 DEF KeptInv

LEMMA KeptNext == KeptInv /\ [Next]_vars => KeptInv'
  <1> SUFFICES ASSUME KeptInv, [Next]_vars PROVE KeptInv'
    OBVIOUS
  <1>1. CASE UNCHANGED vars
    BY <1>1 DEF KeptInv, TargetInv, OldKept, Agreed, vars, args, target, rest
  <1>2. CASE upc = "wait" /\ compress /\ UNCHANGED <<upc, args, files, target, decoder, rest>>
    BY <1>2, KeptStays DEF args, target, rest
  <1>3. CASE Compressed
    BY <1>3, KeptStays DEF Compressed, Go, args, target
  <1>4. CASE Option
    <2>1. UNCHANGED <<files, old, agreed, output>> /\ (fflg => fflg') /\ upc' # "openout"
      BY <1>4 DEF Option, Go, rest, target
    <2>2. Agreed(output)'
      BY <2>1 DEF KeptInv, TargetInv, Agreed
    <2> QED BY <2>1, <2>2, KeptQuiet
  <1>5. CASE pipeit
    <2>1. UNCHANGED <<files, old, agreed, fflg>> /\ output' = Stdout /\ upc' # "openout"
      BY <1>5 DEF pipeit, Go, rest
    <2>2. Agreed(output)'
      BY <2>1 DEF Agreed
    <2> QED BY <2>1, <2>2, KeptQuiet
  <1>6. CASE OpenIn
    <2>1. PICK a \in Range(argv) :
            /\ input' = a.name
            /\ upc' = IF a.name \notin DOMAIN zs THEN "exit1"
                      ELSE IF Asks(a.name) THEN "ask" ELSE "openout"
      BY <1>6 DEF OpenIn, Go
    <2>2. UNCHANGED <<files, old, agreed, fflg, output>>
      BY <1>6 DEF OpenIn, rest
    <2>3. upc' = "openout" => Agreed(input)'
      <3> SUFFICES ASSUME upc' = "openout" PROVE Agreed(input)'
        OBVIOUS
      <3>1. ~Asks(a.name)
        BY <2>1
      <3> QED BY <3>1, <2>1, <2>2 DEF Asks, KeptInv, TargetInv, Agreed
    <2>4. Agreed(output)'
      BY <2>2 DEF KeptInv, TargetInv, Agreed
    <2> QED BY <2>2, <2>3, <2>4, KeptQuiet
  <1>7. CASE Answer
    <2>1. UNCHANGED <<files, old, fflg, output, input>>
      BY <1>7 DEF Answer, args, target
    <2>2. agreed \subseteq agreed' /\ (upc' = "openout" => input \in agreed')
      BY <1>7 DEF Answer, Go, EndsIn
    <2>3. Agreed(output)' /\ (upc' = "openout" => Agreed(input)')
      BY <2>1, <2>2 DEF KeptInv, TargetInv, Agreed
    <2> QED BY <2>1, <2>2, <2>3, KeptQuiet
  <1>8. CASE OpenOut
    <2>1. UNCHANGED <<old, fflg, agreed>> /\ (files' = files \/ files' = Made(input)) /\ upc' # "openout"
      BY <1>8 DEF OpenOut, Go, args, rest
    <2>2. Agreed(output')
      <3>1. upc = "openout" /\ (output' = Stdout \/ output' = input)
        BY <1>8 DEF OpenOut
      <3> QED BY <3>1 DEF KeptInv, TargetInv, Agreed
    <2> QED BY <2>1, <2>2, KeptMade
  <1>9. CASE CallFails
    <2>1. UNCHANGED <<old, fflg, agreed, output>> /\ (files' = files \/ files' = Made(input)) /\ upc' # "openout"
      BY <1>9 DEF CallFails, Go, EndsIn, args, target
    <2>2. Agreed(output')
      BY <2>1 DEF KeptInv, TargetInv
    <2> QED BY <2>1, <2>2, KeptMade
  <1>10. CASE Exit \/ Header \/ Cleared \/ BadStream \/ EndOfFile \/ WriteFails
    BY <1>10, KeptStays DEF Exit, Header, Cleared, BadStream, EndOfFile, WriteFails, Go, EndsIn, args, target, rest
  <1>11. CASE Abort
    <2>1. UNCHANGED <<old, fflg, agreed, output>> /\ upc' # "openout"
      BY <1>11 DEF Abort, Go, args, rest
    <2>2. CASE obuf = << >>
      BY <1>11, <2>1, <2>2, KeptStays DEF Abort
    <2>3. CASE obuf # << >>
      BY <1>11, <2>1, <2>3, KeptWrites DEF Abort, Write
    <2> QED BY <2>2, <2>3
  <1>12. CASE Flush
    <2>1. UNCHANGED <<old, fflg, agreed, output>> /\ upc' # "openout"
      BY <1>12 DEF Flush, Go, args, rest
    <2> QED BY <1>12, <2>1, KeptWrites DEF Flush, Write
  <1> DEFINE Prints(d, s) == printsym(d, s) /\ UNCHANGED <<old, fflg, agreed, output>>
  <1>13. ASSUME NEW d, NEW s, Prints(d, s) PROVE KeptInv'
    <2>1. upc' # "openout"
      BY <1>13 DEF printsym, Go
    <2>2. CASE Means(d, s)
      <3>1. PICK t : Write(t)
        BY <1>13, <2>2 DEF printsym, outbytes
      <3> QED BY <1>13, <2>1, <3>1, KeptWrites DEF Write
    <2>3. CASE ~Means(d, s)
      BY <1>13, <2>1, <2>3, KeptStays DEF printsym
    <2> QED BY <2>2, <2>3
  <1>14. CASE FirstSym
    <2>1. PICK d, s : d = dd /\ s = Sym
      OBVIOUS
    <2>2. Prints(d, s)
      BY <1>14, <2>1 DEF FirstSym, args, rest
    <2> QED BY <1>13, <2>2
  <1>15. CASE NextSym
    <2>1. UNCHANGED <<old, fflg, agreed, output>>
      BY <1>15 DEF NextSym, args, rest
    <2>2. CASE Lead(Sym).well
      <3>1. PICK d, s : d = dd' /\ s = Sym
        OBVIOUS
      <3>2. Prints(d, s)
        BY <1>15, <2>1, <2>2, <3>1 DEF NextSym
      <3> QED BY <1>13, <3>2
    <2>3. CASE ~Lead(Sym).well
      BY <1>15, <2>1, <2>3, KeptStays DEF NextSym, Go
    <2> QED BY <2>2, <2>3
  <1> QED BY <1>1, <1>2, <1>3, <1>4, <1>5, <1>6, <1>7, <1>8, <1>9, <1>10, <1>11, <1>12, <1>14, <1>15
          DEF Next, main, decompress

(* A file that was there is only changed if -f came before it or the user  *)
(* said yes to that file (uncompress.c:346-363).                           *)
THEOREM OldStays == Spec => []OldKept
  <1>1. Spec => []KeptInv
    BY KeptInit, KeptNext, PTL DEF Spec
  <1>2. KeptInv => OldKept
    BY DEF KeptInv
  <1> QED BY <1>1, <1>2, PTL

-----------------------------------------------------------------------------
(* Codes in step *)

LEMMA PrefixIff ==
    ASSUME NEW S, NEW s \in Seq(S), NEW t \in Seq(S)
    PROVE  IsPrefix(s, t) <=> Len(s) <= Len(t) /\ \A i \in 1..Len(s) : s[i] = t[i]
  <1> DEFINE n == Len(s)
             a == SubSeq(s, 1, n)
             b == SubSeq(t, 1, n)
  <1>1. IsPrefix(s, t) <=> n <= Len(t) /\ a = b
    BY DEF IsPrefix
  <1> SUFFICES ASSUME n <= Len(t) PROVE a = b <=> \A i \in 1..n : s[i] = t[i]
    BY <1>1
  <1>2. a \in Seq(S) /\ b \in Seq(S) /\ Len(a) = n /\ Len(b) = n
        /\ \A i \in 1..n : a[i] = s[i] /\ b[i] = t[i]
    OBVIOUS
  <1>3. (\A i \in 1..n : s[i] = t[i]) => a = b
    <2> SUFFICES ASSUME \A i \in 1..n : s[i] = t[i] PROVE a = b
      OBVIOUS
    <2> HIDE DEF a, b, n
    <2>1. \A i \in 1..Len(a) : a[i] = b[i]
      BY <1>2
    <2> QED BY <1>2, <2>1, SeqEqual
  <1> HIDE DEF a, b
  <1>4. a = b => \A i \in 1..n : s[i] = t[i]
    BY <1>2
  <1> QED BY <1>3, <1>4

(* Where a code is among the bits. *)
LEMMA Times ==
    ASSUME NEW l \in Nat, NEW k \in 1..l, NEW b \in Nat
    PROVE  /\ l * b \in Nat /\ k * b \in Nat /\ (k - 1) * b \in Nat
           /\ k * b <= l * b /\ (k - 1) * b + b = k * b /\ (l + 1) * b = l * b + b
  <1>1. l * b \in Nat /\ k * b \in Nat /\ (k - 1) * b \in Nat
    BY SMTT(30)
  <1>2. k * b <= l * b
    BY SMTT(60)
  <1>3. (k - 1) * b + b = k * b
    BY SMTT(30)
  <1>4. (l + 1) * b = l * b + b
    BY SMTT(30)
  <1> QED BY <1>1, <1>2, <1>3, <1>4

Pieced(y, z, b, p, l) ==
    /\ \A k \in 1..l : Piece(y, k) = Piece(z, k)
    /\ Piece(y, l + 1) = b
    /\ Len(y) = (l + 1) * BITS0 + Len(p)

LEMMA Pieces ==
    ASSUME NEW z \in Seq({0, 1}), NEW b \in Seq({0, 1}), NEW p \in Seq({0, 1}), NEW l \in Nat,
           Len(z) = l * BITS0, Len(b) = BITS0
    PROVE  Pieced((z \o b) \o p, z, b, p, l)
  <1> DEFINE S == {0, 1}
             y == (z \o b) \o p
             m == l * BITS0
  <1>0. BITS0 \in Nat
    BY Sizes
  <1>1. m \in Nat /\ (l + 1) * BITS0 = m + BITS0
    BY <1>0, SMTT(30)
  <1>2. z \in Seq(S) /\ b \in Seq(S) /\ p \in Seq(S) /\ y \in Seq(S)
    OBVIOUS
  <1>3. Len(y) = m + BITS0 + Len(p)
        /\ (\A i \in 1..m : y[i] = z[i]) /\ (\A i \in 1..BITS0 : y[m + i] = b[i])
    <2>1. Len(z) = m /\ Len(b) = BITS0
      OBVIOUS
    <2>2. z \o b \in Seq(S) /\ Len(z \o b) = m + BITS0
          /\ \A i \in 1..(m + BITS0) : (z \o b)[i] = IF i <= m THEN z[i] ELSE b[i - m]
      <3> HIDE DEF S, m
      <3>1. /\ z \o b \in Seq(S)
            /\ Len(z \o b) = Len(z) + Len(b)
            /\ \A i \in 1..(Len(z) + Len(b)) : (z \o b)[i] = IF i <= Len(z) THEN z[i] ELSE b[i - Len(z)]
        BY <1>2, ConcatProperties, Zenon
      <3> QED BY <3>1, <2>1
    <2> DEFINE x == z \o b
    <2> HIDE DEF x, m, S
    <2>3. Len(x \o p) = m + BITS0 + Len(p)
          /\ \A i \in 1..(m + BITS0 + Len(p)) : (x \o p)[i] = IF i <= m + BITS0 THEN x[i] ELSE p[i - (m + BITS0)]
      <3>1. x \in Seq(S) /\ Len(x) = m + BITS0
        BY <2>2 DEF x
      <3>2. /\ x \o p \in Seq(S)
            /\ Len(x \o p) = Len(x) + Len(p)
            /\ \A i \in 1..(Len(x) + Len(p)) : (x \o p)[i] = IF i <= Len(x) THEN x[i] ELSE p[i - Len(x)]
        <4> HIDE DEF y
        <4>1. x \in Seq(S) /\ p \in Seq(S)
          BY <3>1, <1>2
        <4> QED BY <4>1, ConcatProperties, Zenon
      <3> QED BY <3>1, <3>2
    <2>4. y = x \o p /\ Len(p) \in Nat
      BY <1>2 DEF x
    <2>5. \A i \in 1..m : y[i] = z[i]
      <3> SUFFICES ASSUME NEW i \in 1..m PROVE y[i] = z[i]
        OBVIOUS
      <3>1. i \in 1..(m + BITS0) /\ i \in 1..(m + BITS0 + Len(p)) /\ i <= m /\ i <= m + BITS0
        BY <1>0, <1>1, <2>4
      <3>2. y[i] = x[i]
        BY <3>1, <2>3, <2>4
      <3>3. x[i] = z[i]
        BY <3>1, <2>2 DEF x
      <3> QED BY <3>2, <3>3
    <2>6. \A i \in 1..BITS0 : y[m + i] = b[i]
      <3> SUFFICES ASSUME NEW i \in 1..BITS0 PROVE y[m + i] = b[i]
        OBVIOUS
      <3> DEFINE g == m + i
      <3>1. g \in 1..(m + BITS0) /\ g \in 1..(m + BITS0 + Len(p)) /\ ~(g <= m) /\ g <= m + BITS0 /\ g - m = i
        BY <1>0, <1>1, <2>4
      <3> HIDE DEF g
      <3>2. y[g] = x[g]
        BY <3>1, <2>3, <2>4
      <3>3. x[g] = b[i]
        BY <3>1, <2>2 DEF x
      <3> QED BY <3>2, <3>3 DEF g
    <2> QED BY <2>3, <2>4, <2>5, <2>6
  <1> HIDE DEF y, m, S
  <1>4. \A k \in 1..l : Piece(y, k) = Piece(z, k)
    <2> SUFFICES ASSUME NEW k \in 1..l PROVE Piece(y, k) = Piece(z, k)
      OBVIOUS
    <2> DEFINE f == (k - 1) * BITS0
               h == k * BITS0
    <2>1. f \in Nat /\ h \in Nat /\ h <= m /\ f + BITS0 = h
      BY <1>0, Times DEF m
    <2> HIDE DEF f, h
    <2>2. SubSeq(y, f + 1, h) = SubSeq(z, f + 1, h)
      <3> DEFINE u == SubSeq(y, f + 1, h)
                 v == SubSeq(z, f + 1, h)
      <3>1. u \in Seq(S) /\ v \in Seq(S) /\ Len(u) = BITS0 /\ Len(v) = BITS0
            /\ \A i \in 1..BITS0 : u[i] = y[f + i] /\ v[i] = z[f + i]
        BY <2>1, <1>0, <1>1, <1>2, <1>3, Len(z) = m DEF m
      <3>2. \A i \in 1..Len(u) : u[i] = v[i]
        <4> SUFFICES ASSUME NEW i \in 1..BITS0 PROVE u[i] = v[i]
          BY <3>1
        <4>1. f + i \in 1..m
          BY <2>1, <1>0, <1>1
        <4>2. y[f + i] = z[f + i]
          BY <4>1, <1>3
        <4> HIDE DEF u, v
        <4> QED BY <4>2, <3>1
      <3> HIDE DEF u, v
      <3>3. u = v
        BY <3>1, <3>2, SeqEqual
      <3> QED BY <3>3 DEF u, v
    <2> QED BY <2>2 DEF Piece, f, h
  <1>5. Piece(y, l + 1) = b
    <2> DEFINE u == SubSeq(y, m + 1, m + BITS0)
    <2>1. Piece(y, l + 1) = u
      <3>1. l + 1 - 1 = l
        OBVIOUS
      <3>2. (l + 1 - 1) * BITS0 = m
        BY <3>1 DEF m
      <3> DEFINE k == l + 1
      <3>3. (k - 1) * BITS0 = m /\ k * BITS0 = m + BITS0
        BY <3>2, <1>1
      <3> HIDE DEF k
      <3>4. Piece(y, k) = u
        BY <3>3 DEF Piece
      <3> QED BY <3>4 DEF k
    <2>2. u \in Seq(S) /\ Len(u) = BITS0 /\ \A i \in 1..BITS0 : u[i] = y[m + i]
      BY <1>0, <1>1, <1>2, <1>3
    <2> HIDE DEF u
    <2>3. \A i \in 1..Len(u) : u[i] = b[i]
      BY <2>2, <1>3
    <2>4. u = b
      BY <2>2, <2>3, <1>2, SeqEqual
    <2> QED BY <2>1, <2>4
  <1>6. Len(y) = (l + 1) * BITS0 + Len(p)
    BY <1>1, <1>3
  <1>7. Pieced(y, z, b, p, l)
    BY <1>4, <1>5, <1>6, Zenon DEF Pieced
  <1> QED BY <1>7 DEF y

LEMMA Appended ==
    ASSUME sent \in Seq(Nat \X {BITS0}), NEW n \in Nat, n = Len(sent), NEW c \in Nat,
           sent' = Append(sent, <<c, BITS0>>)
    PROVE  /\ sent' \in Seq(Nat \X {BITS0}) /\ Len(sent') = n + 1
           /\ \A k \in 1..n : sent'[k] = sent[k] /\ Code(k)' = Code(k)
           /\ Code(n + 1)' = c
           /\ \A k \in 1..(n + 1) : Starts(k)' <=> Starts(k)
           /\ \A j \in 1..(n + 1), k \in 0..n : Run(j, k)' <=> Run(j, k)
  <1> DEFINE S == Nat \X {BITS0}
             v == <<c, BITS0>>
  <1>1. v \in S /\ sent \in Seq(S) /\ sent' = Append(sent, v) /\ v[1] = c
    OBVIOUS
  <1> HIDE DEF S, v
  <1>2. sent' \in Seq(S) /\ Len(sent') = n + 1 /\ sent'[n + 1] = v
        /\ \A k \in 1..n : sent'[k] = sent[k]
    <2>1. /\ Append(sent, v) \in Seq(S)
          /\ Append(sent, v) # << >>
          /\ Len(Append(sent, v)) = Len(sent) + 1
          /\ \A i \in 1..Len(sent) : Append(sent, v)[i] = sent[i]
          /\ Append(sent, v)[Len(sent) + 1] = v
      BY <1>1, AppendProperties, Zenon
    <2>2. PICK z : z = Append(sent, v) /\ z = sent'
      BY <1>1
    <2> QED BY <2>1, <2>2, Zenon
  <1>3. \A k \in 1..n : sent'[k] = sent[k] /\ Code(k)' = Code(k)
    BY <1>2 DEF Code
  <1>4. Code(n + 1)' = c
    BY <1>1, <1>2 DEF Code
  <1>5. \A k \in 1..(n + 1) : Starts(k)' <=> Starts(k)
    <2> SUFFICES ASSUME NEW k \in 1..(n + 1) PROVE Starts(k)' <=> Starts(k)
      OBVIOUS
    <2>1. CASE k = 1
      BY <2>1 DEF Starts
    <2>2. CASE k # 1
      <3>1. k - 1 \in 1..n
        BY <2>2
      <3>2. Code(k - 1)' = Code(k - 1)
        BY <3>1, <1>3
      <3> QED BY <3>2 DEF Starts
    <2> QED BY <2>1, <2>2
  <1>6. \A j \in 1..(n + 1), k \in 0..n : Run(j, k)' <=> Run(j, k)
    <2> SUFFICES ASSUME NEW j \in 1..(n + 1), NEW k \in 0..n PROVE Run(j, k)' <=> Run(j, k)
      OBVIOUS
    <2>1. Starts(j)' <=> Starts(j)
      BY <1>5
    <2>2. \A i \in j..k : Code(i)' = Code(i)
      <3> SUFFICES ASSUME NEW i \in j..k PROVE Code(i)' = Code(i)
        OBVIOUS
      <3>1. i \in 1..n
        OBVIOUS
      <3> QED BY <3>1, <1>3
    <2> QED BY <2>1, <2>2 DEF Run
  <1> QED BY <1>2, <1>3, <1>4, <1>5, <1>6 DEF S

(* A run has one beginning. *)
LEMMA RunStart ==
    ASSUME NEW n \in Nat, NEW i \in 1..(n + 1), NEW j \in 1..(n + 1), Run(i, n), Run(j, n)
    PROVE  i = j
  <1>1. ~(i < j)
    <2> SUFFICES ASSUME i < j PROVE FALSE
      OBVIOUS
    <2>1. j - 1 \in i..n /\ j # 1
      OBVIOUS
    <2> QED BY <2>1 DEF Run, Starts
  <1>2. ~(j < i)
    <2> SUFFICES ASSUME j < i PROVE FALSE
      OBVIOUS
    <2>1. i - 1 \in j..n /\ i # 1
      OBVIOUS
    <2> QED BY <2>1 DEF Run, Starts
  <1> QED BY <1>1, <1>2

LEMMA Packs ==
    ASSUME Typed, Packed, cpc # "done", NEW n \in Nat, n = Len(sent), NEW s \in Nat, NEW p \in Seq({0, 1}),
           zbits' = (zbits \o BitsOf(s, BITS0)) \o p,
           sent' = Append(sent, <<s % Shl(BITS0), BITS0>>),
           IF cpc' = "done" THEN Len(p) \in 0..(BYTE - 1) ELSE Len(p) = 0
    PROVE  Packed' /\ s % Shl(BITS0) \in Nat
  <1> DEFINE b == BitsOf(s, BITS0)
             c == s % Shl(BITS0)
  <1>0. BITS0 \in Nat /\ BYTE \in Nat
    BY Sizes, Widths
  <1>1. c \in Nat /\ ValueOf(b) = c /\ b \in Seq({0, 1}) /\ Len(b) = BITS0
    <2>1. Shl(BITS0) \in Nat \ {0}
      BY <1>0, ShlStep
    <2>2. c \in Nat
      BY <2>1
    <2> QED BY <2>2, <1>0, ValueOfBits, BitsOfType
  <1>2. zbits \in Seq({0, 1}) /\ Len(zbits) = n * BITS0 /\ sent \in Seq(Nat \X {BITS0})
    BY DEF Typed, EncoderTyped, Packed
  <1>3. /\ \A k \in 1..n : Piece(zbits', k) = Piece(zbits, k)
        /\ Piece(zbits', n + 1) = b
        /\ Len(zbits') = (n + 1) * BITS0 + Len(p)
    <2> HIDE DEF b
    <2>1. zbits' = (zbits \o b) \o p
      BY DEF b
    <2>2. PICK z : z = zbits
      OBVIOUS
    <2>3. z \in Seq({0, 1}) /\ Len(z) = n * BITS0 /\ b \in Seq({0, 1}) /\ Len(b) = BITS0
      BY <1>1, <1>2, <2>2
    <2>4. Pieced((z \o b) \o p, z, b, p, n)
      BY <2>3, Pieces
    <2>5. Pieced(zbits', zbits, b, p, n)
      BY <2>1, <2>2, <2>4
    <2> QED BY <2>5, Zenon DEF Pieced
  <1> HIDE DEF b, c
  <1>4. /\ sent' \in Seq(Nat \X {BITS0}) /\ Len(sent') = n + 1
        /\ \A k \in 1..n : Code(k)' = Code(k)
        /\ Code(n + 1)' = c
    <2>1. sent' = Append(sent, <<c, BITS0>>)
      BY DEF c
    <2> QED BY <2>1, <1>1, <1>2, Appended
  <1>5. \A k \in 1..(n + 1) : ValueOf(Piece(zbits', k)) = Code(k)'
    <2> SUFFICES ASSUME NEW k \in 1..(n + 1) PROVE ValueOf(Piece(zbits', k)) = Code(k)'
      OBVIOUS
    <2>1. CASE k = n + 1
      BY <2>1, <1>1, <1>3, <1>4
    <2>2. CASE k # n + 1
      <3>1. k \in 1..n
        BY <2>2
      <3>2. ValueOf(Piece(zbits, k)) = Code(k)
        BY <3>1 DEF Packed
      <3> QED BY <3>1, <3>2, <1>3, <1>4
    <2> QED BY <2>1, <2>2
  <1>6. IF cpc' = "done" THEN sent' # << >> /\ Len(zbits') - Len(sent') * BITS0 \in 0..(BYTE - 1)
        ELSE Len(zbits') = Len(sent') * BITS0
    <2> DEFINE m == (n + 1) * BITS0
    <2>1. m \in Nat /\ Len(sent') * BITS0 = m /\ Len(p) \in Nat
      <3>1. m \in Nat
        BY <1>0, SMTT(30)
      <3> QED BY <3>1, <1>4
    <2>2. Len(zbits') = m + Len(p)
      BY <1>3
    <2>3. sent' # << >>
      BY <1>4
    <2> HIDE DEF m
    <2> QED BY <2>1, <2>2, <2>3, <1>0
  <1> QED BY <1>1, <1>4, <1>5, <1>6 DEF Packed, Piece, c

LEMMA RunsShortNext ==
    ASSUME Typed, EncodeInv, cpc = "read", NEW n \in Nat, n = Len(sent), NEW c \in Nat,
           sent' = Append(sent, <<c, BITS0>>),
           c = CLEAR => ~Starts(n + 1) \/ cpc' = "done"
    PROVE  RunsShort'
  <1>1. sent \in Seq(Nat \X {BITS0}) /\ RunsShort
    BY DEF EncodeInv, Packed
  <1>2. /\ Len(sent') = n + 1
        /\ \A k \in 1..n : Code(k)' = Code(k)
        /\ Code(n + 1)' = c
        /\ \A k \in 1..(n + 1) : Starts(k)' <=> Starts(k)
        /\ \A j \in 1..(n + 1), k \in 0..n : Run(j, k)' <=> Run(j, k)
    BY <1>1, Appended
  <1>3. ASSUME NEW j \in 1..(n + 1), Starts(j)', (j = n + 1) => cpc' # "done"
        PROVE  Code(j)' # CLEAR
    <2>1. CASE j = n + 1
      BY <2>1, <1>2, <1>3
    <2>2. CASE j # n + 1
      <3>1. j \in 1..n /\ Starts(j)
        BY <2>2, <1>2, <1>3
      <3> QED BY <3>1, <1>1, <1>2 DEF RunsShort
    <2> QED BY <2>1, <2>2
  <1>4. ASSUME NEW k \in 1..n, NEW j \in 1..k, Run(j, k)'
        PROVE  k - j + 1 <= Room
    <2>1. Run(j, k)
      BY <1>2, <1>4
    <2>2. CASE k = n
      <3>1. PICK i \in 1..(n + 1) : Run(i, n) /\ ed.nexti = CLEAR + 2 + n - i
        BY DEF EncodeInv, Writing
      <3>2. i = j
        BY <2>1, <2>2, <3>1, RunStart
      <3>3. ed.nexti \in (CLEAR + 1)..Shl(BITS0) /\ CLEAR \in Nat /\ Shl(BITS0) \in Nat
        <4>1. ed.bits = BITS0 /\ ed.nexti \in (CLEAR + 1)..Shl(ed.bits) /\ BITS0 \in Nat
          BY Sizes DEF Typed, EncoderTyped, Named
        <4> QED BY <4>1, Sizes, ShlStep
      <3> QED BY <2>2, <3>1, <3>2, <3>3 DEF Room
    <2>3. CASE k # n
      <3>1. k \in 1..(n - 1)
        BY <2>3
      <3> QED BY <3>1, <2>1, <1>1 DEF RunsShort
    <2> QED BY <2>2, <2>3
  <1>5. /\ \A j \in 1..(n + 1) : Starts(j)' /\ ((j = n + 1) => cpc' # "done") => Code(j)' # CLEAR
        /\ \A k \in 1..n : \A j \in 1..k : Run(j, k)' => k - j + 1 <= Room
    BY <1>3, <1>4
  <1>6. Len(sent') = n + 1 /\ Len(sent') - 1 = n
    BY <1>2
  <1> QED BY <1>5, <1>6 DEF RunsShort, Room

LEMMA EncodeStays ==
    ASSUME EncodeInv, zbits' = zbits, sent' = sent,
           cpc' = cpc \/ (cpc # "done" /\ cpc' = "runaway"),
           cpc' = "read" => ed'.nexti = ed.nexti,
           \/ cpc' # "start" /\ w' \in Byte \cup (CLEAR + 1)..(Shl(BITS0) - 1)
           \/ w' = w /\ text' = text /\ kept' = kept
    PROVE  EncodeInv'
  <1>1. Packed'
    BY DEF EncodeInv, Packed, Piece, Code
  <1>2. RunsShort'
    BY DEF EncodeInv, RunsShort, Starts, Run, Code
  <1>3. cpc' = "read" =>
         /\ cpc = "read"
         /\ \E j \in 1..(Len(sent') + 1) : Writing(j)'
    BY DEF EncodeInv, Writing, Run, Starts, Code
  <1>4. cpc' = "start" => cpc = "start" /\ sent' = << >> /\ kept' = << >>
    BY DEF EncodeInv
  <1>5. cpc' = "read" => \/ w' \in Byte \cup (CLEAR + 1)..(Shl(BITS0) - 1)
                         \/ text' = << >> /\ sent' = << >> /\ kept' = << >>
    BY <1>3 DEF EncodeInv
  <1> QED BY <1>1, <1>2, <1>3, <1>4, <1>5 DEF EncodeInv

LEMMA EncodeStart == Typed /\ EncodeInv /\ CStart => EncodeInv'
  <1> SUFFICES ASSUME Typed, EncodeInv, CStart PROVE EncodeInv'
    OBVIOUS
  <1>1. cpc = "start" /\ sent = << >> /\ kept = << >> /\ cpc' = "read" /\ sent' = << >> /\ zbits' = zbits
    BY DEF EncodeInv, CStart
  <1>2. Packed'
    BY <1>1 DEF EncodeInv, Packed, Piece, Code
  <1>3. RunsShort'
    <2>1. Len(sent') = 0
      BY <1>1
    <2>2. \A k \in 1..(0 - 1) : FALSE
      OBVIOUS
    <2> QED BY <2>1, <2>2 DEF RunsShort
  <1>4. \E j \in 1..(Len(sent') + 1) : Writing(j)'
    <2>1. ed'.nexti = CLEAR + 1
      BY DEF CStart, cleardict
    <2>2. Len(sent') = 0 /\ CLEAR \in Nat
      BY <1>1, Sizes
    <2>3. Writing(1)'
      BY <2>1, <2>2 DEF Writing, Run, Starts
    <2> QED BY <2>2, <2>3
  <1>5. \/ w' \in Byte \cup (CLEAR + 1)..(Shl(BITS0) - 1)
        \/ text' = << >> /\ sent' = << >> /\ kept' = << >>
    <2>1. CASE text = << >>
      BY <1>1, <2>1 DEF CStart
    <2>2. CASE text # << >>
      <3>1. Head(text) \in Byte
        BY <2>2 DEF Typed, EncoderTyped
      <3> QED BY <2>2, <3>1 DEF CStart
    <2> QED BY <2>1, <2>2
  <1> QED BY <1>1, <1>2, <1>3, <1>4, <1>5 DEF EncodeInv

LEMMA EncodeLonger == Typed /\ EncodeInv /\ Longer => EncodeInv'
  <1> SUFFICES ASSUME Typed, EncodeInv, Longer PROVE EncodeInv'
    OBVIOUS
  <1>1. PICK ch \in Byte : \E h \in Found(String(ch)) : w' = h
    BY DEF Longer, Byte
  <1>2. PICK h \in Found(String(ch)) : w' = h
    BY <1>1
  <1>3. h \in (CLEAR + 1)..(Shl(BITS0) - 1)
    <2>1. h \in (CLEAR + 1)..(ed.nexti - 1) /\ CLEAR \in Nat /\ BITS0 \in Nat
      BY Sizes DEF Found, Entries
    <2>2. ed.nexti \in (CLEAR + 1)..Shl(BITS0) /\ Shl(BITS0) \in Nat
      BY <2>1, ShlStep DEF Typed, EncoderTyped, Named
    <2> QED BY <2>1, <2>2
  <1>4. UNCHANGED <<cpc, ed, zbits, sent>> /\ cpc = "read"
    BY DEF Longer, Ready
  <1>5. zbits' = zbits /\ sent' = sent /\ cpc' = cpc /\ ed'.nexti = ed.nexti /\ cpc' # "start"
        /\ w' \in Byte \cup (CLEAR + 1)..(Shl(BITS0) - 1)
    BY <1>2, <1>3, <1>4
  <1> QED BY <1>5, EncodeStays

(* What w is when a byte follows. *)
LEMMA CodeOfW ==
    ASSUME Typed, EncodeInv, cpc = "read", text # << >>
    PROVE  w \in Byte \cup (CLEAR + 1)..(Shl(BITS0) - 1) /\ w \in Nat
           /\ w # CLEAR /\ w % Shl(BITS0) = w
  <1>1. w \in Byte \cup (CLEAR + 1)..(Shl(BITS0) - 1) /\ w \in Nat
    BY DEF EncodeInv, Typed, EncoderTyped
  <1>2. CLEAR = ALPHA /\ ALPHA \in Nat /\ BITS0 \in Nat /\ Shl(BITS0) \in Nat \ {0}
        /\ ALPHA + 1 < Shl(BITS0)
    BY Widths, ShlStep DEF CLEAR
  <1>3. w # CLEAR /\ w < Shl(BITS0)
    BY <1>1, <1>2 DEF Byte
  <1> DEFINE m == Shl(BITS0)
  <1>4. m \in Nat \ {0} /\ w < m
    BY <1>2, <1>3
  <1> HIDE DEF m
  <1>5. w % m = w
    BY <1>1, <1>4
  <1> QED BY <1>1, <1>3, <1>5 DEF m

(* outsym with nothing behind, for Packs. *)
LEMMA OutBits ==
    ASSUME Typed, NEW s \in Nat, outsym(s, BITS0)
    PROVE  /\ zbits' = (zbits \o BitsOf(s, BITS0)) \o << >>
           /\ sent' = Append(sent, <<s % Shl(BITS0), BITS0>>)
  <1>1. zbits \o BitsOf(s, BITS0) \in Seq({0, 1})
    BY Sizes, BitsOfType DEF Typed, EncoderTyped
  <1> QED BY <1>1 DEF outsym

LEMMA EncodeAdd == Typed /\ EncodeInv /\ AddEntry => EncodeInv'
  <1> SUFFICES ASSUME Typed, EncodeInv, AddEntry PROVE EncodeInv'
    OBVIOUS
  <1>1. PICK ch \in Byte :
          /\ Ready(ch) /\ ~(Full /\ ed.bits = mymaxbits)
          /\ LET d == IF Full THEN [ed EXCEPT !.bits = @ + 1] ELSE ed
             IN  ed' = Added(d, w, ch) /\ outsym(w, d.bits)
          /\ w' = ch /\ cpc' = cpc
    BY DEF AddEntry, Byte, New
  <1>2. cpc = "read" /\ text # << >> /\ ed.bits = BITS0 /\ ~Full
    BY <1>1 DEF Ready, Typed, EncoderTyped, mymaxbits
  <1>3. ed' = Added(ed, w, ch) /\ outsym(w, BITS0)
    BY <1>1, <1>2
  <1>4. PICK n \in Nat : n = Len(sent)
    BY DEF EncodeInv, Packed
  <1>5. w \in Nat /\ w # CLEAR /\ w % Shl(BITS0) = w
    BY <1>2, CodeOfW
  <1>6. Packed'
    <2>1. zbits' = (zbits \o BitsOf(w, BITS0)) \o << >> /\ sent' = Append(sent, <<w % Shl(BITS0), BITS0>>)
      BY <1>3, <1>5, OutBits
    <2>2. << >> \in Seq({0, 1}) /\ Len(<< >>) = 0 /\ cpc # "done" /\ cpc' # "done" /\ Packed
      BY <1>1, <1>2 DEF EncodeInv
    <2> QED BY <1>4, <1>5, <2>1, <2>2, Packs
  <1>7. sent' = Append(sent, <<w, BITS0>>)
    BY <1>3, <1>5 DEF outsym
  <1>8. RunsShort'
    BY <1>1, <1>2, <1>4, <1>5, <1>7, RunsShortNext
  <1>9. /\ Len(sent') = n + 1 /\ Code(n + 1)' = w
        /\ \A j \in 1..(n + 1), k \in 0..n : Run(j, k)' <=> Run(j, k)
    BY <1>4, <1>5, <1>7, Appended DEF EncodeInv, Packed
  <1>10. PICK j \in 1..(n + 1) : Run(j, n) /\ ed.nexti = CLEAR + 2 + n - j
    BY <1>2, <1>4 DEF EncodeInv, Writing
  <1>11. Run(j, n)'
    BY <1>9, <1>10
  <1>12. Starts(j)' /\ \A i \in j..(n + 1) : Code(i)' # CLEAR
    <2>1. Starts(j)' /\ \A i \in j..n : Code(i)' # CLEAR
      BY <1>11 DEF Run
    <2> QED BY <2>1, <1>5, <1>9
  <1>13. ed'.nexti = CLEAR + 2 + (n + 1) - j
    <2>1. ed'.nexti = ed.nexti + 1 /\ CLEAR \in Nat
      BY <1>3, Sizes DEF Added
    <2> QED BY <2>1, <1>10
  <1>14. Writing(j)'
    BY <1>9, <1>12, <1>13 DEF Writing, Run
  <1>15. j \in 1..(Len(sent') + 1)
    BY <1>9
  <1> QED BY <1>1, <1>2, <1>6, <1>8, <1>14, <1>15 DEF EncodeInv

LEMMA EncodeClear == Typed /\ EncodeInv /\ ClearDict => EncodeInv'
  <1> SUFFICES ASSUME Typed, EncodeInv, ClearDict PROVE EncodeInv'
    OBVIOUS
  <1>1. PICK ch \in Byte :
          /\ Ready(ch) /\ Full /\ outsym(CLEAR, ed.bits) /\ ed' = cleardict(ed)
          /\ cpc' = cpc /\ w' = w
    BY DEF ClearDict, Byte, New
  <1>2. cpc = "read" /\ text # << >> /\ ed.bits = BITS0
    BY <1>1 DEF Ready, Typed, EncoderTyped
  <1>4. PICK n \in Nat : n = Len(sent)
    BY DEF EncodeInv, Packed
  <1>5. CLEAR \in Nat /\ CLEAR % Shl(BITS0) = CLEAR /\ CLEAR + 1 < Shl(BITS0) /\ Shl(BITS0) \in Nat
    <2> DEFINE m == Shl(BITS0)
    <2>1. CLEAR \in Nat /\ CLEAR + 1 < m /\ m \in Nat
      <3>1. BITS0 \in BITS0..DMAX
        BY Sizes, UncompressAssumption
      <3> QED BY <3>1, Sizes
    <2> HIDE DEF m
    <2>2. CLEAR % m = CLEAR
      BY <2>1
    <2> QED BY <2>1, <2>2 DEF m
  <1>3. outsym(CLEAR, BITS0)
    BY <1>1, <1>2
  <1>6. Packed'
    <2>1. zbits' = (zbits \o BitsOf(CLEAR, BITS0)) \o << >> /\ sent' = Append(sent, <<CLEAR % Shl(BITS0), BITS0>>)
      BY <1>3, <1>5, OutBits
    <2>2. << >> \in Seq({0, 1}) /\ Len(<< >>) = 0 /\ cpc # "done" /\ cpc' # "done" /\ Packed
      BY <1>1, <1>2 DEF EncodeInv
    <2> QED BY <1>4, <1>5, <2>1, <2>2, Packs
  <1>7. sent' = Append(sent, <<CLEAR, BITS0>>)
    BY <1>3, <1>5 DEF outsym
  <1>8. ~Starts(n + 1)
    <2> SUFFICES ASSUME Starts(n + 1) PROVE FALSE
      OBVIOUS
    <2>1. Run(n + 1, n)
      BY DEF Run
    <2>2. PICK j \in 1..(n + 1) : Run(j, n) /\ ed.nexti = CLEAR + 2 + n - j
      BY <1>2, <1>4 DEF EncodeInv, Writing
    <2>3. j = n + 1
      BY <2>1, <2>2, RunStart
    <2>4. ed.nexti = Shl(BITS0)
      BY <1>1, <1>2 DEF Full
    <2> QED BY <2>2, <2>3, <2>4, <1>5
  <1>9. RunsShort'
    BY <1>2, <1>4, <1>5, <1>7, <1>8, RunsShortNext
  <1>10. Len(sent') = n + 1 /\ Code(n + 1)' = CLEAR
    BY <1>4, <1>5, <1>7, Appended DEF EncodeInv, Packed
  <1>11. Starts(n + 2)' /\ \A i \in (n + 2)..(n + 1) : Code(i)' # CLEAR
    <2>1. n + 2 - 1 = n + 1 /\ n + 2 # 1
      OBVIOUS
    <2> QED BY <2>1, <1>10 DEF Starts
  <1>12. ed'.nexti = CLEAR + 2 + (n + 1) - (n + 2)
    BY <1>1, <1>5 DEF cleardict
  <1>13. Writing(n + 2)'
    BY <1>10, <1>11, <1>12 DEF Writing, Run
  <1>14. n + 2 \in 1..(Len(sent') + 1)
    BY <1>10
  <1>15. w' \in Byte \cup (CLEAR + 1)..(Shl(BITS0) - 1)
    BY <1>1, <1>2, CodeOfW
  <1>16. \E j \in 1..(Len(sent') + 1) : Writing(j)'
    <2>1. PICK j \in 1..(Len(sent') + 1) : j = n + 2
      BY <1>14
    <2>2. Writing(j)'
      BY <1>13, <2>1
    <2> QED BY <2>2
  <1> QED BY <1>1, <1>2, <1>6, <1>9, <1>15, <1>16 DEF EncodeInv

LEMMA EncodeEnd == Typed /\ EncodeInv /\ CEnd => EncodeInv'
  <1> SUFFICES ASSUME Typed, EncodeInv, CEnd PROVE EncodeInv'
    OBVIOUS
  <1>1. cpc = "read" /\ cpc' = "done" /\ ed.bits = BITS0 /\ w \in Nat
        /\ zbits' = zbits \o BitsOf(w, ed.bits) \o Pad
        /\ sent' = Append(sent, <<w % Shl(ed.bits), ed.bits>>)
    BY DEF CEnd, Pad, Typed, EncoderTyped
  <1>2. PICK n \in Nat : n = Len(sent)
    BY DEF EncodeInv, Packed
  <1>3. zbits' = (zbits \o BitsOf(w, BITS0)) \o Pad /\ sent' = Append(sent, <<w % Shl(BITS0), BITS0>>)
    BY <1>1
  <1>4. PICK p \in Seq({0, 1}) : p = Pad /\ Len(p) \in 0..(BYTE - 1)
    <2>1. Pad \in Seq({0, 1}) /\ Len(Pad) < BYTE /\ Len(Pad) \in Nat /\ BYTE \in Nat
      BY PadType, Widths
    <2> QED BY <2>1
  <1>5. Packed' /\ w % Shl(BITS0) \in Nat
    <2>1. zbits' = (zbits \o BitsOf(w, BITS0)) \o p /\ Packed /\ cpc # "done" /\ cpc' = "done"
      BY <1>1, <1>3, <1>4 DEF EncodeInv
    <2> QED BY <1>1, <1>2, <1>3, <1>4, <2>1, Packs
  <1>6. RunsShort'
    BY <1>1, <1>2, <1>3, <1>5, RunsShortNext
  <1> QED BY <1>1, <1>5, <1>6 DEF EncodeInv

LEMMA EncodeInit == Init => EncodeInv
  <1> SUFFICES ASSUME Init PROVE EncodeInv
    OBVIOUS
  <1>1. cpc = "start" /\ sent = << >> /\ kept = << >> /\ zbits = << >>
    BY DEF Init, CInit
  <1>2. Packed
    <2>1. sent \in Seq(Nat \X {BITS0}) /\ Len(sent) = 0 /\ Len(zbits) = 0 /\ 0 * BITS0 = 0
      BY <1>1, Sizes
    <2>2. \A k \in 1..Len(sent) : FALSE
      BY <2>1
    <2> QED BY <1>1, <2>1, <2>2 DEF Packed
  <1>3. RunsShort
    <2>1. Len(sent) = 0
      BY <1>1
    <2>2. \A k \in 1..(0 - 1) : FALSE
      OBVIOUS
    <2> QED BY <2>1, <2>2 DEF RunsShort
  <1> QED BY <1>1, <1>2, <1>3 DEF EncodeInv

LEMMA EncodeNext == Typed /\ EncodeInv /\ [Next]_vars => EncodeInv'
  <1>1. ASSUME Typed, EncodeInv, UNCHANGED cvars PROVE EncodeInv'
    <2>1. zbits' = zbits /\ sent' = sent /\ cpc' = cpc /\ ed'.nexti = ed.nexti
          /\ w' = w /\ text' = text /\ kept' = kept
      BY <1>1 DEF cvars
    <2> QED BY <1>1, <2>1, EncodeStays
  <1>2. ASSUME Typed, EncodeInv, compress PROVE EncodeInv'
    <2>1. CASE RunAway
      BY <1>2, <2>1, EncodeStays DEF RunAway, Ready
    <2> QED BY <1>2, <2>1, EncodeStart, EncodeLonger, EncodeAdd, EncodeClear, EncodeEnd DEF compress
  <1>3. Compressed \/ main \/ decompress => UNCHANGED cvars
    BY DEF Compressed, main, Option, pipeit, OpenIn, Answer, OpenOut, CallFails, Exit, Abort,
           decompress, Header, FirstSym, NextSym, Cleared, BadStream, EndOfFile, Flush, WriteFails
  <1>4. UNCHANGED vars => UNCHANGED cvars
    BY DEF vars
  <1> QED BY <1>1, <1>2, <1>3, <1>4 DEF Next

(* Where code g + 1 is what comes next. *)
At(g) ==
    /\ g < Len(sent) /\ dd.bits = BITS0
    /\ inb = SubSeq(zbits, g * BITS0 + 1, Len(zbits))

LEMMA SentType ==
    ASSUME EncodeInv
    PROVE  sent \in Seq(Nat \X Nat) /\ \A k \in 1..Len(sent) : sent[k] = <<Code(k), BITS0>>
  <1> DEFINE S == Nat \X {BITS0}
  <1>1. sent \in Seq(S)
    BY DEF EncodeInv, Packed
  <1>2. \A k \in 1..Len(sent) : sent[k] \in S
    <2> HIDE DEF S
    <2> QED BY <1>1
  <1>3. \A k \in 1..Len(sent) : sent[k] \in Nat \X Nat
    BY <1>2, Sizes
  <1>4. \A k \in 1..Len(sent) : sent[k] = <<Code(k), BITS0>>
    BY <1>2 DEF Code
  <1>5. sent \in Seq(Nat \X Nat)
    <2> DEFINE T == Nat \X Nat
    <2>1. \A k \in 1..Len(sent) : sent[k] \in T
      BY <1>3
    <2> HIDE DEF S, T
    <2>2. sent \in [1..Len(sent) -> T] /\ Len(sent) \in Nat
      BY <1>1, <2>1
    <2>3. sent \in Seq(T)
      BY <2>2
    <2> QED BY <2>3 DEF T
  <1> QED BY <1>4, <1>5

(* The bits are long enough for the codes that were sent. *)
LEMMA BitsThere ==
    ASSUME EncodeInv, cpc = "done", NEW g \in Nat, g < Len(sent)
    PROVE  /\ g * BITS0 \in Nat /\ (g + 1) * BITS0 = g * BITS0 + BITS0
           /\ (g + 1) * BITS0 <= Len(zbits)
           /\ g + 1 = Len(sent) => Len(zbits) - (g + 1) * BITS0 < BITS0
  <1> DEFINE l == Len(sent)
             m == l * BITS0
             a == g * BITS0
             b == (g + 1) * BITS0
  <1>1. l \in Nat /\ g + 1 \in 1..l
    BY DEF EncodeInv, Packed
  <1> HIDE DEF l
  <1>2. BITS0 \in Nat /\ BYTE \in Nat /\ BYTE < BITS0
    BY Sizes, Widths
  <1>3. a \in Nat /\ b = a + BITS0
    BY <1>2, SMTT(30)
  <1>4. m \in Nat /\ b <= m
    BY <1>1, <1>2, Times
  <1>5. Len(zbits) - m \in 0..(BYTE - 1)
    BY DEF EncodeInv, Packed, m, l
  <1>6. g + 1 = l => b = m
    OBVIOUS
  <1> HIDE DEF m, a, b
  <1>7. b <= Len(zbits) /\ (b = m => Len(zbits) - b < BITS0)
    <2>1. PICK x \in 0..(BYTE - 1) : x = Len(zbits) - m
      BY <1>5
    <2>2. PICK y : y = Len(zbits)
      OBVIOUS
    <2> QED BY <2>1, <2>2, <1>2, <1>3, <1>4, Len(zbits) \in Nat
  <1> QED BY <1>3, <1>6, <1>7 DEF a, b, l

LEMMA ReadsBits ==
    ASSUME Typed, EncodeInv, cpc = "done", NEW g \in Nat, At(g)
    PROVE  /\ ~eof /\ Sym = Code(g + 1)
           /\ getsym => /\ got' = Append(got, <<Code(g + 1), BITS0>>)
                        /\ inb' = SubSeq(zbits, (g + 1) * BITS0 + 1, Len(zbits))
                        /\ g + 1 = Len(sent) => Len(inb') < BITS0
  <1> DEFINE S == {0, 1}
             a == g * BITS0
             b == (g + 1) * BITS0
             n == Len(zbits)
  <1>1. a \in Nat /\ b = a + BITS0 /\ b <= n /\ (g + 1 = Len(sent) => n - b < BITS0)
    BY BitsThere DEF At
  <1>2. zbits \in Seq(S) /\ n \in Nat /\ BITS0 \in Nat \ {0}
    BY Sizes, Widths DEF Typed, EncoderTyped
  <1>3. inb = SubSeq(zbits, a + 1, n) /\ dd.bits = BITS0
    BY DEF At
  <1>4. Piece(zbits, g + 1) = SubSeq(zbits, a + 1, b)
    <2> DEFINE k == g + 1
    <2>1. (k - 1) * BITS0 = a /\ k * BITS0 = b
      <3>1. k - 1 = g
        OBVIOUS
      <3> QED BY <3>1
    <2> HIDE DEF k, a, b
    <2>2. Piece(zbits, k) = SubSeq(zbits, a + 1, b)
      BY <2>1 DEF Piece
    <2> QED BY <2>2 DEF k
  <1>5. ValueOf(Piece(zbits, g + 1)) = Code(g + 1)
    BY DEF EncodeInv, Packed, At
  <1> HIDE DEF S, a, b, n
  <1>6. Len(inb) = n - a
    BY <1>1, <1>2, <1>3 DEF n
  <1>7. ~eof
    BY <1>1, <1>2, <1>3, <1>6 DEF eof
  <1>8. SubSeq(inb, 1, BITS0) = SubSeq(zbits, a + 1, b)
    <2> DEFINE i == a + 1
               one == 1
    <2>1. i \in 1..Len(zbits) /\ n \in 1..Len(zbits) /\ one \in 1..(n - i + 1) /\ BITS0 \in 1..(n - i + 1)
      BY <1>1, <1>2 DEF n
    <2>2. i + one - 1 = i /\ i + BITS0 - 1 = b /\ one = 1
      BY <1>1, <1>2
    <2> HIDE DEF i, one
    <2>3. SubSeq(SubSeq(zbits, i, n), one, BITS0) = SubSeq(zbits, i + one - 1, i + BITS0 - 1)
      BY <1>2, <2>1, SubSeqOfSubSeq
    <2>4. SubSeq(SubSeq(zbits, i, n), 1, BITS0) = SubSeq(zbits, i, b)
      BY <2>2, <2>3
    <2> QED BY <2>4, <1>3 DEF i
  <1>9. Sym = Code(g + 1)
    BY <1>3, <1>4, <1>5, <1>7, <1>8 DEF Sym
  <1>10. SubSeq(inb, BITS0 + 1, Len(inb)) = SubSeq(zbits, b + 1, n)
    <2> DEFINE u == SubSeq(inb, BITS0 + 1, Len(inb))
               v == SubSeq(zbits, b + 1, n)
    <2>1. inb \in Seq(S) /\ \A i \in 1..(n - a) : inb[i] = zbits[a + i]
      BY <1>1, <1>2, <1>3 DEF n
    <2>2. u \in Seq(S) /\ Len(u) = n - a - BITS0 /\ \A i \in 1..(n - a - BITS0) : u[i] = inb[BITS0 + i]
      <3> DEFINE m == Len(inb)
      <3>1. m = n - a /\ m \in Nat /\ BITS0 <= m /\ inb \in Seq(S)
        BY <1>1, <1>2, <1>6, <2>1
      <3>2. \A i \in (BITS0 + 1)..m : inb[i] \in S
        BY <3>1, <1>2
      <3>3. u \in Seq(S) /\ Len(u) = (IF BITS0 + 1 <= m THEN m - (BITS0 + 1) + 1 ELSE 0)
            /\ \A i \in 1..(m - (BITS0 + 1) + 1) : u[i] = inb[BITS0 + 1 + i - 1]
        BY <3>1, <3>2, <1>2, SubSeqProperties
      <3> HIDE DEF m, u
      <3>4. \A i \in 1..(m - (BITS0 + 1) + 1) : BITS0 + 1 + i - 1 = BITS0 + i
        BY <1>2
      <3>5. m - (BITS0 + 1) + 1 = n - a - BITS0
        BY <3>1, <1>1, <1>2
      <3>6. (IF BITS0 + 1 <= m THEN m - (BITS0 + 1) + 1 ELSE 0) = n - a - BITS0
        BY <3>1, <1>1, <1>2
      <3>7. \A i \in 1..(n - a - BITS0) : u[i] = inb[BITS0 + i]
        <4> SUFFICES ASSUME NEW i \in 1..(n - a - BITS0) PROVE u[i] = inb[BITS0 + i]
          OBVIOUS
        <4>1. u[i] = inb[BITS0 + 1 + i - 1] /\ BITS0 + 1 + i - 1 = BITS0 + i
          BY <3>3, <3>4, <3>5, Zenon
        <4> QED BY <4>1, Zenon
      <3>8. u \in Seq(S) /\ Len(u) = n - a - BITS0
        BY <3>3, <3>6
      <3> QED BY <3>7, <3>8
    <2>3. v \in Seq(S) /\ Len(v) = n - b /\ \A i \in 1..(n - b) : v[i] = zbits[b + i]
      BY <1>1, <1>2 DEF n
    <2> HIDE DEF u, v
    <2>4. \A i \in 1..Len(u) : u[i] = v[i]
      <3> SUFFICES ASSUME NEW i \in 1..(n - a - BITS0) PROVE u[i] = v[i]
        BY <2>2
      <3>1. BITS0 + i \in 1..(n - a) /\ i \in 1..(n - b)
        BY <1>1, <1>2
      <3>2. u[i] = zbits[a + (BITS0 + i)]
        BY <3>1, <2>1, <2>2
      <3>3. v[i] = zbits[b + i] /\ a + (BITS0 + i) = b + i
        BY <3>1, <2>3, <1>1, <1>2
      <3> QED BY <3>2, <3>3
    <2>5. u = v
      <3>1. Len(u) = Len(v)
        BY <2>2, <2>3, <1>1, <1>2
      <3> QED BY <2>2, <2>3, <2>4, <3>1, SeqEqual
    <2> QED BY <2>5 DEF u, v
  <1>11. ASSUME getsym
         PROVE  /\ got' = Append(got, <<Code(g + 1), BITS0>>)
                /\ inb' = SubSeq(zbits, b + 1, n)
    BY <1>3, <1>7, <1>9, <1>10, <1>11 DEF getsym
  <1>12. Len(SubSeq(zbits, b + 1, n)) = n - b
    BY <1>1, <1>2 DEF n
  <1> QED BY <1>1, <1>7, <1>9, <1>11, <1>12 DEF b, n

LEMMA ReadsOn ==
    ASSUME Typed, EncodeInv, got \in Seq(Nat \X Nat), IsPrefix(got, sent), cpc = "done",
           NEW g \in Nat, g = Len(got), At(g), getsym
    PROVE  /\ got' \in Seq(Nat \X Nat) /\ Len(got') = g + 1 /\ IsPrefix(got', sent)
  <1> DEFINE S == Nat \X Nat
  <1>1. got' = Append(got, <<Code(g + 1), BITS0>>) /\ g < Len(sent)
    BY ReadsBits DEF At
  <1>2. PICK v : v = <<Code(g + 1), BITS0>>
    OBVIOUS
  <1>3. sent \in Seq(S) /\ sent[g + 1] = v
    <2>1. g + 1 \in 1..Len(sent)
      BY <1>1, SentType
    <2> QED BY <2>1, <1>2, SentType
  <1>4. v \in S
    <2>1. g + 1 \in 1..Len(sent)
      BY <1>1, <1>3
    <2>2. sent[g + 1] \in S
      <3> HIDE DEF S
      <3> QED BY <1>3, <2>1
    <2> QED BY <2>2, <1>3
  <1> HIDE DEF S
  <1>5. got \in Seq(S)
    BY DEF S
  <1>6. got' \in Seq(S) /\ Len(got') = g + 1 /\ got'[g + 1] = v /\ \A i \in 1..g : got'[i] = got[i]
    <2>1. got' = Append(got, v)
      BY <1>1, <1>2
    <2> QED BY <2>1, <1>4, <1>5
  <1>7. \A i \in 1..g : got[i] = sent[i]
    BY <1>3, <1>5, PrefixIff
  <1>8. Len(got') <= Len(sent) /\ \A i \in 1..Len(got') : got'[i] = sent[i]
    <2>1. Len(got') <= Len(sent)
      BY <1>1, <1>3, <1>6
    <2>2. \A i \in 1..(g + 1) : got'[i] = sent[i]
      <3> SUFFICES ASSUME NEW i \in 1..(g + 1) PROVE got'[i] = sent[i]
        OBVIOUS
      <3>1. CASE i = g + 1
        BY <3>1, <1>3, <1>6
      <3>2. CASE i # g + 1
        <4>1. i \in 1..g
          BY <3>2
        <4> QED BY <4>1, <1>6, <1>7
      <3> QED BY <3>1, <3>2
    <2> QED BY <2>1, <2>2, <1>6
  <1>9. IsPrefix(got', sent)
    BY <1>3, <1>6, <1>8, PrefixIff
  <1> QED BY <1>6, <1>9 DEF S

LEMMA DecodeAway ==
    ASSUME DecodeInv, got' = got, upc' \in {"wait", "args", "exit0", "exit1", "overflow"}
    PROVE  DecodeInv'
  BY DEF DecodeInv, InStep

LEMMA EmptyPrefix ==
    ASSUME NEW S, NEW t \in Seq(S)
    PROVE  IsPrefix(<< >>, t)
  <1>1. << >> \in Seq(S) /\ Len(<< >>) = 0 /\ Len(t) \in Nat
    OBVIOUS
  <1>2. PICK s : s = << >>
    OBVIOUS
  <1>3. s \in Seq(S) /\ Len(s) <= Len(t) /\ \A i \in 1..Len(s) : s[i] = t[i]
    BY <1>1, <1>2
  <1>4. IsPrefix(s, t)
    BY <1>3, PrefixIff
  <1> QED BY <1>2, <1>4

LEMMA DecodeOpen ==
    ASSUME EncodeInv, sent' = sent, got' = << >>,
           upc' \in {"ask", "openout", "header", "abort", "exit1", "overflow"}
    PROVE  DecodeInv'
  <1>1. IsPrefix(<< >>, sent)
    BY SentType, EmptyPrefix
  <1>2. << >> \in Seq(Nat \X Nat)
    OBVIOUS
  <1> QED BY <1>1, <1>2 DEF DecodeInv, InStep

LEMMA DecodeMain == Typed /\ EncodeInv /\ DecodeInv /\ main => DecodeInv'
  <1> SUFFICES ASSUME Typed, EncodeInv, DecodeInv, main PROVE DecodeInv'
    OBVIOUS
  <1>1. CASE Option
    <2>1. got' = got /\ upc' \in {"args", "exit1"}
      BY <1>1 DEF Option, Go, decoder
    <2> QED BY <2>1, DecodeAway
  <1>2. CASE pipeit
    <2>1. got' = << >> /\ sent' = sent /\ upc' = "header"
      BY <1>2 DEF pipeit, Go, cvars
    <2> QED BY <2>1, DecodeOpen
  <1>3. CASE OpenIn
    <2>1. got' = << >> /\ sent' = sent /\ upc' \in {"exit1", "ask", "openout"}
      BY <1>3 DEF OpenIn, Go, cvars
    <2> QED BY <2>1, DecodeOpen
  <1>4. CASE Answer \/ OpenOut \/ CallFails
    <2>1. got' = got /\ sent' = sent /\ upc \in {"ask", "openout"} /\ upc' \in {"openout", "abort", "header", "overflow"}
      BY <1>4 DEF Answer, OpenOut, CallFails, Go, EndsIn, cvars, decoder
    <2>2. got' = << >>
      BY <2>1 DEF DecodeInv
    <2> QED BY <2>1, <2>2, DecodeOpen
  <1>5. CASE Exit \/ Abort
    <2>1. got' = got /\ upc' \in {"exit0", "exit1", "overflow"}
      BY <1>5 DEF Exit, Abort, Go, EndsIn, decoder
    <2> QED BY <2>1, DecodeAway
  <1> QED BY <1>1, <1>2, <1>3, <1>4, <1>5 DEF main

LEMMA DecodeHeader == Typed /\ EncodeInv /\ DecodeInv /\ Header => DecodeInv'
  <1> SUFFICES ASSUME Typed, EncodeInv, DecodeInv, Header PROVE DecodeInv'
    OBVIOUS
  <1>1. got' = << >> /\ sent' = sent /\ input' = input /\ zbits' = zbits /\ upc' \in {"first", "abort"}
        /\ inb' = zs[input].bits /\ dd' = cleardict(dd) /\ upc = "header"
    BY DEF Header, Go, cvars, DecodeInv, target
  <1>2. CASE upc' = "abort"
    BY <1>1, <1>2, DecodeOpen
  <1>3. CASE upc' = "first"
    <2>1. << >> \in Seq(Nat \X Nat) /\ IsPrefix(<< >>, sent) /\ Len(<< >>) = 0
      BY SentType, EmptyPrefix
    <2>2. ASSUME input = "a" PROVE Decoding'
      <3>1. inb' = zbits /\ cpc = "done"
        BY <1>1, <2>2 DEF Typed, DecoderTyped
      <3>2. sent # << >> /\ sent \in Seq(Nat \X Nat)
        BY <3>1, SentType DEF EncodeInv, Packed
      <3>3. Len(sent) # 0
        BY <3>2
      <3>4. inb' = SubSeq(zbits, 0 * BITS0 + 1, Len(zbits))
        <4> DEFINE S == {0, 1}
        <4>1. 0 * BITS0 + 1 = 1 /\ zbits \in Seq(S)
          BY Sizes DEF Typed, EncoderTyped
        <4> HIDE DEF S
        <4>2. SubSeq(zbits, 1, Len(zbits)) = zbits
          BY <4>1, SubSeqFull
        <4> QED BY <3>1, <4>1, <4>2
      <3>5. dd'.nexti = CLEAR + 1 /\ dd'.bits = BITS0
        BY <1>1 DEF cleardict
      <3>6. Starts(0 + 1)'
        BY DEF Starts
      <3>7. Len(got') = 0
        BY <1>1, <2>1
      <3> HIDE DEF Starts
      <3>8. Starts(Len(got) + 1)'
        BY <3>6, <3>7
      <3> QED BY <1>1, <1>3, <2>1, <3>3, <3>4, <3>5, <3>7, <3>8 DEF Decoding
    <2> QED BY <1>1, <1>3, <2>1, <2>2 DEF DecodeInv, InStep
  <1> QED BY <1>1, <1>2, <1>3

(* A code is read from another file. *)
LEMMA DecodeOther ==
    ASSUME Typed, DecodeInv, input # "a", input' = input, getsym,
           upc' \in {"first", "next", "flush", "abort", "runaway"}
    PROVE  DecodeInv'
  <1>1. Sym \in Nat /\ dd.bits \in Nat
    BY SymType, Sizes DEF Typed, DecoderTyped, Named
  <1>2. PICK v : v = <<Sym, dd.bits>>
    OBVIOUS
  <1>3. v \in Nat \X Nat /\ (got' = got \/ got' = Append(got, v))
    BY <1>1, <1>2 DEF getsym
  <1>4. got' \in Seq(Nat \X Nat)
    <2> DEFINE S == Nat \X Nat
    <2>1. got \in Seq(S) /\ v \in S
      BY <1>3 DEF DecodeInv
    <2> HIDE DEF S
    <2>2. got' \in Seq(S)
      BY <2>1, <1>3
    <2> QED BY <2>2 DEF S
  <1> QED BY <1>4 DEF DecodeInv, InStep

(* No code is left. *)
LEMMA DecodeEnds ==
    ASSUME Typed, EncodeInv, DecodeInv, input = "a", input' = input, upc \in {"first", "next"},
           getsym, sent' = sent, Len(got) = Len(sent),
           upc' \in {"first", "next", "flush", "abort", "runaway"}
    PROVE  DecodeInv' /\ eof
  <1>1. Decoding
    BY DEF DecodeInv
  <1>2. Len(inb) < BITS0 /\ dd.bits \in BITS0..DMAX /\ BITS0 \in Nat \ {0} /\ DMAX \in Nat
    BY <1>1, Sizes, Widths DEF Decoding, Typed, DecoderTyped, Named
  <1>3. Len(inb) \in Nat
    BY DEF Typed, DecoderTyped
  <1>4. eof
    BY <1>2, <1>3 DEF eof
  <1>5. got' = got /\ inb' = << >>
    BY <1>4 DEF getsym
  <1>6. Len(inb') < BITS0 /\ Len(got') = Len(sent')
    BY <1>2, <1>5
  <1>7. Len(sent) \in Nat
    BY SentType
  <1>8. Decoding'
    BY <1>1, <1>5, <1>6, <1>7 DEF Decoding
  <1> QED BY <1>4, <1>5, <1>8, <1>1 DEF DecodeInv, InStep, Decoding

LEMMA DecodeReads ==
    ASSUME Typed, EncodeInv, DecodeInv, input = "a", input' = input, upc \in {"first", "next"},
           getsym, sent' = sent, zbits' = zbits, NEW g \in Nat, g = Len(got), g < Len(sent),
           upc' \in {"first", "next", "flush", "abort", "runaway"},
           g + 1 < Len(sent) =>
             /\ upc' \in {"first", "next"} => dd'.bits = BITS0
             /\ upc' = "first" => Starts(g + 2) /\ dd'.nexti = CLEAR + 1
             /\ upc' = "next" => \E j \in 1..(g + 1) : Run(j, g + 1) /\ dd'.nexti = CLEAR + 1 + (g + 1) - j
    PROVE  DecodeInv'
  <1>1. Decoding /\ cpc = "done"
    BY DEF DecodeInv, Typed, DecoderTyped
  <1>2. At(g)
    BY <1>1 DEF Decoding, At
  <1>3. got' \in Seq(Nat \X Nat) /\ Len(got') = g + 1 /\ IsPrefix(got', sent)
    BY <1>1, <1>2, ReadsOn DEF DecodeInv, Decoding
  <1>4. inb' = SubSeq(zbits, (g + 1) * BITS0 + 1, Len(zbits)) /\ (g + 1 = Len(sent) => Len(inb') < BITS0)
    BY <1>1, <1>2, ReadsBits
  <1>5. ASSUME upc' \in {"first", "next"} PROVE Decoding'
    <2>1. IsPrefix(got', sent')
      BY <1>3
    <2>2. Len(got') = Len(sent') => Len(inb') < BITS0
      BY <1>3, <1>4
    <2>3. ASSUME Len(got') < Len(sent')
          PROVE  /\ inb' = SubSeq(zbits', Len(got') * BITS0 + 1, Len(zbits')) /\ dd'.bits = BITS0
                 /\ upc' = "first" => Starts(Len(got) + 1)' /\ dd'.nexti = CLEAR + 1
                 /\ upc' = "next" => \E j \in 1..Len(got') : Reading(j)'
      <3>1. inb' = SubSeq(zbits', Len(got') * BITS0 + 1, Len(zbits')) /\ dd'.bits = BITS0
        BY <1>3, <1>4, <1>5, <2>3
      <3>2. ASSUME upc' = "first" PROVE Starts(Len(got) + 1)' /\ dd'.nexti = CLEAR + 1
        <4>1. Starts(g + 2) /\ dd'.nexti = CLEAR + 1
          BY <1>3, <2>3, <3>2
        <4>2. Starts(g + 2)'
          BY <4>1 DEF Starts, Code
        <4>3. Len(got') + 1 = g + 2
          BY <1>3
        <4> QED BY <4>1, <4>2, <4>3
      <3>3. ASSUME upc' = "next" PROVE \E j \in 1..Len(got') : Reading(j)'
        <4>1. PICK j \in 1..(g + 1) : Run(j, g + 1) /\ dd'.nexti = CLEAR + 1 + (g + 1) - j
          BY <1>3, <2>3, <3>3
        <4>2. Run(j, g + 1)'
          BY <4>1 DEF Run, Starts, Code
        <4>3. Reading(j)'
          BY <1>3, <4>1, <4>2 DEF Reading
        <4> QED BY <1>3, <4>3
      <3> QED BY <3>1, <3>2, <3>3
    <2> QED BY <2>1, <2>2, <2>3 DEF Decoding
  <1> QED BY <1>3, <1>5 DEF DecodeInv, InStep

(* Whether codes are left, and which is next. *)
LEMMA DecodeCases ==
    ASSUME Typed, EncodeInv, DecodeInv, input = "a", upc \in {"first", "next"}
    PROVE  \E g \in Nat :
             /\ g = Len(got) /\ g <= Len(sent) /\ Len(sent) \in Nat /\ cpc = "done"
             /\ g < Len(sent) => At(g) /\ ~eof /\ Sym = Code(g + 1)
  <1>1. Decoding /\ cpc = "done" /\ got \in Seq(Nat \X Nat) /\ sent \in Seq(Nat \X Nat)
    BY SentType DEF DecodeInv, Typed, DecoderTyped
  <1>2. PICK g \in Nat : g = Len(got)
    BY <1>1
  <1>3. g <= Len(sent)
    BY <1>1, <1>2, PrefixIff DEF Decoding
  <1>4. g < Len(sent) => At(g)
    BY <1>1, <1>2 DEF Decoding, At
  <1> QED BY <1>1, <1>2, <1>3, <1>4, ReadsBits

LEMMA DecodeFirst == Typed /\ EncodeInv /\ DecodeInv /\ FirstSym => DecodeInv'
  <1> SUFFICES ASSUME Typed, EncodeInv, DecodeInv, FirstSym PROVE DecodeInv'
    OBVIOUS
  <1>1. upc = "first" /\ getsym /\ input' = input /\ sent' = sent /\ zbits' = zbits /\ dd' = dd
    BY DEF FirstSym, cvars
  <1>2. upc' \in {"next", "runaway"}
    BY DEF FirstSym, printsym, Go
  <1>3. CASE input # "a"
    BY <1>1, <1>2, <1>3, DecodeOther
  <1>4. CASE input = "a"
    <2>1. PICK g \in Nat :
            /\ g = Len(got) /\ g <= Len(sent) /\ Len(sent) \in Nat /\ cpc = "done"
            /\ g < Len(sent) => At(g) /\ ~eof /\ Sym = Code(g + 1)
      BY <1>1, <1>4, DecodeCases
    <2>2. CASE g = Len(sent)
      BY <1>1, <1>2, <1>4, <2>1, <2>2, DecodeEnds
    <2>3. CASE g < Len(sent)
      <3>1. Starts(g + 1) /\ dd.nexti = CLEAR + 1 /\ dd.bits = BITS0
        BY <1>1, <1>4, <2>1, <2>3 DEF DecodeInv, Decoding
      <3>2. ASSUME g + 1 < Len(sent)
            PROVE  Run(g + 1, g + 1) /\ dd'.nexti = CLEAR + 1 + (g + 1) - (g + 1)
        <4>1. Code(g + 1) # CLEAR
          BY <2>1, <3>1, <3>2 DEF EncodeInv, RunsShort
        <4>2. \A i \in (g + 1)..(g + 1) : Code(i) # CLEAR
          <5> SUFFICES ASSUME NEW i \in (g + 1)..(g + 1) PROVE Code(i) # CLEAR
            OBVIOUS
          <5>1. i = g + 1
            OBVIOUS
          <5> QED BY <5>1, <4>1
        <4>3. dd'.nexti = CLEAR + 1 + (g + 1) - (g + 1)
          BY <1>1, <3>1, Sizes
        <4> QED BY <3>1, <4>2, <4>3 DEF Run
      <3>3. g + 1 < Len(sent) =>
             /\ upc' \in {"first", "next"} => dd'.bits = BITS0
             /\ upc' = "first" => Starts(g + 2) /\ dd'.nexti = CLEAR + 1
             /\ upc' = "next" => \E j \in 1..(g + 1) : Run(j, g + 1) /\ dd'.nexti = CLEAR + 1 + (g + 1) - j
        <4> SUFFICES ASSUME g + 1 < Len(sent)
                     PROVE  \E j \in 1..(g + 1) : Run(j, g + 1) /\ dd'.nexti = CLEAR + 1 + (g + 1) - j
          BY <1>1, <1>2, <3>1
        <4>1. g + 1 \in 1..(g + 1)
          OBVIOUS
        <4> QED BY <3>2, <4>1
      <3> QED BY <1>1, <1>2, <1>4, <2>1, <2>3, <3>3, DecodeReads
    <2> QED BY <2>1, <2>2, <2>3
  <1> QED BY <1>3, <1>4

(* The dictionary at the next code of a run. *)
LEMMA NextEntry ==
    ASSUME EncodeInv, NEW g \in Nat, g < Len(sent), NEW j \in 1..g, Run(j, g),
           dd.nexti = CLEAR + 1 + g - j, dd.bits = BITS0, NEW p, NEW c
    PROVE  /\ dd.nexti # Shl(dd.bits) /\ dd.nexti \in (CLEAR + 1)..(Shl(BITS0) - 1)
           /\ adddict(dd, p, c).nexti = dd.nexti + 1
           /\ adddict(dd, p, c).entry = Added(dd, p, c).entry
           /\ g + 1 < Len(sent) /\ Code(g + 1) # CLEAR => adddict(dd, p, c).bits = BITS0 /\ Run(j, g + 1)
  <1>1. CLEAR \in Nat /\ Shl(BITS0) \in Nat /\ BITS0 \in Nat
    BY Sizes, ShlStep
  <1>2. Len(sent) \in Nat /\ RunsShort
    BY SentType DEF EncodeInv
  <1>3. g - j + 1 <= Room
    <2>1. g \in 1..(Len(sent) - 1)
      BY <1>2
    <2> QED BY <2>1, <1>2 DEF RunsShort
  <1>4. dd.nexti \in (CLEAR + 1)..(Shl(BITS0) - 1)
    BY <1>1, <1>3 DEF Room
  <1>5. dd.nexti # Shl(dd.bits)
    BY <1>1, <1>4
  <1> DEFINE e == Added(dd, p, c)
  <1>6. e.nexti = dd.nexti + 1 /\ e.bits = BITS0
    BY DEF Added
  <1>7. adddict(dd, p, c) = IF Widens(e) THEN [e EXCEPT !.bits = @ + 1] ELSE e
    BY <1>5 DEF adddict
  <1>8. [e EXCEPT !.bits = @ + 1] = [entry |-> e.entry, nexti |-> e.nexti, bits |-> e.bits + 1]
    BY DEF Added
  <1> HIDE DEF e
  <1>9. adddict(dd, p, c).nexti = e.nexti /\ adddict(dd, p, c).entry = e.entry
    BY <1>7, <1>8
  <1>10. ASSUME g + 1 < Len(sent), Code(g + 1) # CLEAR
         PROVE  adddict(dd, p, c).bits = BITS0 /\ Run(j, g + 1)
    <2>1. Run(j, g + 1)
      <3>1. \A i \in j..(g + 1) : Code(i) # CLEAR
        <4> SUFFICES ASSUME NEW i \in j..(g + 1) PROVE Code(i) # CLEAR
          OBVIOUS
        <4>1. CASE i = g + 1
          BY <4>1, <1>10
        <4>2. CASE i # g + 1
          <5>1. i \in j..g
            BY <4>2
          <5> QED BY <5>1 DEF Run
        <4> QED BY <4>1, <4>2
      <3> QED BY <3>1 DEF Run
    <2>2. (g + 1) - j + 1 <= Room
      <3>1. g + 1 \in 1..(Len(sent) - 1) /\ j \in 1..(g + 1)
        BY <1>2, <1>10
      <3> QED BY <2>1, <3>1, <1>2 DEF RunsShort
    <2>3. e.nexti < Shl(BITS0)
      BY <1>1, <1>6, <2>2 DEF Room
    <2>4. ~Widens(e)
      BY <1>1, <1>6, <2>3 DEF Widens
    <2> QED BY <1>6, <1>7, <2>1, <2>4
  <1> QED BY <1>4, <1>5, <1>6, <1>9, <1>10 DEF e

LEMMA DecodeNextSym == Typed /\ EncodeInv /\ DecodeInv /\ NextSym => DecodeInv'
  <1> SUFFICES ASSUME Typed, EncodeInv, DecodeInv, NextSym PROVE DecodeInv'
    OBVIOUS
  <1>1. upc = "next" /\ getsym /\ input' = input /\ sent' = sent /\ zbits' = zbits /\ ~eof /\ Sym # CLEAR
    BY DEF NextSym, cvars
  <1>2. upc' \in {"next", "runaway"}
    BY DEF NextSym, printsym, Go
  <1>3. CASE input # "a"
    BY <1>1, <1>2, <1>3, DecodeOther
  <1>4. CASE input = "a"
    <2>1. PICK g \in Nat :
            /\ g = Len(got) /\ g <= Len(sent) /\ Len(sent) \in Nat /\ cpc = "done"
            /\ g < Len(sent) => At(g) /\ ~eof /\ Sym = Code(g + 1)
      BY <1>1, <1>4, DecodeCases
    <2>2. CASE g = Len(sent)
      BY <1>1, <1>2, <1>4, <2>1, <2>2, DecodeEnds
    <2>3. CASE g < Len(sent)
      <3>1. PICK j \in 1..g : Run(j, g) /\ dd.nexti = CLEAR + 1 + g - j /\ dd.bits = BITS0
        BY <1>1, <1>4, <2>1, <2>3 DEF DecodeInv, Decoding, Reading
      <3>2. ASSUME g + 1 < Len(sent), upc' = "next" \/ Lead(Sym).well
            PROVE  dd'.bits = BITS0 /\ Run(j, g + 1) /\ dd'.nexti = CLEAR + 1 + (g + 1) - j
        <4>1. Lead(Sym).well
          BY <3>2 DEF NextSym, Go
        <4>2. PICK d, p, c : d = dd' /\ p = prev /\ c = Head(Lead(Sym).str)
          OBVIOUS
        <4>3. d = adddict(dd, p, c)
          BY <4>1, <4>2 DEF NextSym
        <4>4. /\ adddict(dd, p, c).nexti = dd.nexti + 1
              /\ g + 1 < Len(sent) /\ Code(g + 1) # CLEAR => adddict(dd, p, c).bits = BITS0 /\ Run(j, g + 1)
          BY <2>3, <3>1, NextEntry
        <4>5. Code(g + 1) # CLEAR
          BY <1>1, <2>1, <2>3
        <4>6. d.nexti = dd.nexti + 1 /\ d.bits = BITS0 /\ Run(j, g + 1)
          BY <3>2, <4>3, <4>4, <4>5
        <4>7. CLEAR \in Nat
          BY Sizes
        <4> QED BY <4>2, <4>6, <4>7, <3>1
      <3>3. g + 1 < Len(sent) =>
             /\ upc' \in {"first", "next"} => dd'.bits = BITS0
             /\ upc' = "first" => Starts(g + 2) /\ dd'.nexti = CLEAR + 1
             /\ upc' = "next" => \E k \in 1..(g + 1) : Run(k, g + 1) /\ dd'.nexti = CLEAR + 1 + (g + 1) - k
        <4> SUFFICES ASSUME g + 1 < Len(sent), upc' = "next"
                     PROVE  /\ dd'.bits = BITS0
                            /\ \E k \in 1..(g + 1) : Run(k, g + 1) /\ dd'.nexti = CLEAR + 1 + (g + 1) - k
          BY <1>2
        <4>1. j \in 1..(g + 1)
          OBVIOUS
        <4> QED BY <3>2, <4>1
      <3> QED BY <1>1, <1>2, <1>4, <2>1, <2>3, <3>3, DecodeReads
    <2> QED BY <2>1, <2>2, <2>3
  <1> QED BY <1>3, <1>4

LEMMA DecodeOthers == Typed /\ EncodeInv /\ DecodeInv /\ (Cleared \/ BadStream \/ EndOfFile) => DecodeInv'
  <1> SUFFICES ASSUME Typed, EncodeInv, DecodeInv, Cleared \/ BadStream \/ EndOfFile PROVE DecodeInv'
    OBVIOUS
  <1>1. upc = "next" /\ getsym /\ input' = input /\ sent' = sent /\ zbits' = zbits
    BY DEF Cleared, BadStream, EndOfFile, cvars, target
  <1>2. /\ upc' \in {"first", "abort", "flush"}
        /\ upc' = "first" => Sym = CLEAR /\ dd' = cleardict(dd)
    BY DEF Cleared, BadStream, EndOfFile, Go
  <1>3. CASE input # "a"
    BY <1>1, <1>2, <1>3, DecodeOther
  <1>4. CASE input = "a"
    <2>1. PICK g \in Nat :
            /\ g = Len(got) /\ g <= Len(sent) /\ Len(sent) \in Nat /\ cpc = "done"
            /\ g < Len(sent) => At(g) /\ ~eof /\ Sym = Code(g + 1)
      BY <1>1, <1>4, DecodeCases
    <2>2. CASE g = Len(sent)
      BY <1>1, <1>2, <1>4, <2>1, <2>2, DecodeEnds
    <2>3. CASE g < Len(sent)
      <3>1. ASSUME upc' = "first"
            PROVE  dd'.bits = BITS0 /\ dd'.nexti = CLEAR + 1 /\ Starts(g + 2)
        <4>1. Code(g + 1) = CLEAR
          BY <1>2, <2>1, <2>3, <3>1
        <4>2. g + 2 - 1 = g + 1
          OBVIOUS
        <4>3. dd'.bits = BITS0 /\ dd'.nexti = CLEAR + 1
          BY <1>2, <3>1 DEF cleardict
        <4> QED BY <4>1, <4>2, <4>3 DEF Starts
      <3>2. g + 1 < Len(sent) =>
             /\ upc' \in {"first", "next"} => dd'.bits = BITS0
             /\ upc' = "first" => Starts(g + 2) /\ dd'.nexti = CLEAR + 1
             /\ upc' = "next" => \E k \in 1..(g + 1) : Run(k, g + 1) /\ dd'.nexti = CLEAR + 1 + (g + 1) - k
        BY <1>2, <3>1
      <3> QED BY <1>1, <1>2, <1>4, <2>1, <2>3, <3>2, DecodeReads
    <2> QED BY <2>1, <2>2, <2>3
  <1> QED BY <1>3, <1>4

LEMMA DecodeNext == Typed /\ EncodeInv /\ DecodeInv /\ [Next]_vars => DecodeInv'
  <1> SUFFICES ASSUME Typed, EncodeInv, DecodeInv, [Next]_vars PROVE DecodeInv'
    OBVIOUS
  <1>1. CASE UNCHANGED vars
    BY <1>1 DEF vars, cvars, decoder, target, DecodeInv, InStep, Decoding, Reading, Run, Starts, Code
  <1>2. CASE upc = "wait" /\ compress /\ UNCHANGED <<upc, args, files, target, decoder, rest>>
    BY <1>2, DecodeAway DEF decoder
  <1>3. CASE Compressed
    BY <1>3, DecodeAway DEF Compressed, decoder, Go
  <1>4. CASE Flush \/ WriteFails
    <2>1. got' = got /\ upc' \in {"args", "exit0", "overflow"}
      BY <1>4 DEF Flush, WriteFails, Go, decoder
    <2> QED BY <2>1, DecodeAway
  <1> QED BY <1>1, <1>2, <1>3, <1>4, DecodeMain, DecodeHeader, DecodeFirst, DecodeNextSym, DecodeOthers
          DEF Next, decompress

LEMMA DecodeInit == Init => DecodeInv
  <1>1. << >> \in Seq(Nat \X Nat)
    OBVIOUS
  <1> QED BY <1>1 DEF Init, DecodeInv, InStep

(* The decoder, one entry behind, reads every code in the width it was put *)
(* out, past every CLEAR and whatever is in the dictionary (compress.c:142 *)
(* and 277, uncompress.c:170).                                             *)
THEOREM WidthsAgree == Spec => []InStep
  <1> DEFINE Inv == Typed /\ EncodeInv /\ DecodeInv
  <1>1. Init => Inv
    BY TypedInit, EncodeInit, DecodeInit
  <1>2. Inv /\ [Next]_vars => Inv'
    BY TypedNext, EncodeNext, DecodeNext
  <1>3. Inv => InStep
    BY DEF DecodeInv
  <1> HIDE DEF Inv
  <1>4. Spec => []Inv
    BY <1>1, <1>2, PTL DEF Spec
  <1> QED BY <1>3, <1>4, PTL

-----------------------------------------------------------------------------
(* Codes mean text *)

LEMMA CodeType ==
    ASSUME EncodeInv
    PROVE  \A k \in 1..Len(sent) : Code(k) \in Nat /\ (Code(k) # CLEAR => Code(k) \in Byte \/ Code(k) > CLEAR)
  <1> SUFFICES ASSUME NEW k \in 1..Len(sent)
               PROVE  Code(k) \in Nat /\ (Code(k) # CLEAR => Code(k) \in Byte \/ Code(k) > CLEAR)
    OBVIOUS
  <1>1. sent[k] = <<Code(k), BITS0>> /\ sent \in Seq(Nat \X Nat)
    BY SentType
  <1>2. sent[k] \in Nat \X Nat
    <2> DEFINE S == Nat \X Nat
    <2>1. sent \in Seq(S)
      BY <1>1
    <2> HIDE DEF S
    <2>2. sent[k] \in S
      BY <2>1
    <2> QED BY <2>2 DEF S
  <1>3. Code(k) \in Nat
    BY <1>1, <1>2
  <1>4. CLEAR = ALPHA /\ ALPHA \in Nat
    BY Widths DEF CLEAR
  <1> QED BY <1>3, <1>4 DEF Byte

LEMMA CutFacts ==
    ASSUME Cut, kept \in Seq(Byte), EncodeInv
    PROVE  /\ Len(sent) \in Nat /\ Len(kept) \in Nat /\ Len(ends) = Len(sent)
           /\ \A k \in 1..Len(sent) :
                /\ ends[k] \in Nat /\ Before(k) \in Nat
                /\ Before(k) <= ends[k] /\ ends[k] <= Len(kept)
                /\ Before(k + 1) = ends[k]
           /\ Before(1) = 0 /\ Before(Len(sent) + 1) \in Nat /\ Before(Len(sent) + 1) <= Len(kept)
           /\ \A i, k \in 1..Len(sent) : i <= k => ends[i] <= ends[k]
           /\ \A k \in 1..Len(sent) : \A j \in 1..k : Run(j, k) => Before(k) < ends[k]
  <1> DEFINE n == Len(sent)
  <1>1. n \in Nat /\ Len(kept) \in Nat /\ Len(ends) = n /\ ends \in [1..n -> Nat]
    <2>1. n \in Nat /\ Len(kept) \in Nat
      BY SentType
    <2>2. ends \in Seq(Nat) /\ Len(ends) = n
      BY DEF Cut, CutAt
    <2> QED BY <2>1, <2>2
  <1> HIDE DEF n
  <1>2. \A k \in 1..n : /\ ends[k] \in Nat /\ Before(k) \in Nat
                        /\ Before(k) <= ends[k] /\ ends[k] <= Len(kept)
                        /\ Before(k + 1) = ends[k]
    <2> SUFFICES ASSUME NEW k \in 1..n
                 PROVE  /\ ends[k] \in Nat /\ Before(k) \in Nat
                        /\ Before(k) <= ends[k] /\ ends[k] <= Len(kept)
                        /\ Before(k + 1) = ends[k]
      OBVIOUS
    <2>1. ends[k] \in Nat
      BY <1>1
    <2>2. Before(k) \in Nat
      <3>1. CASE k = 1
        BY <3>1 DEF Before
      <3>2. CASE k # 1
        <4>1. k - 1 \in 1..n
          BY <3>2, <1>1
        <4>2. ends[k - 1] \in Nat
          BY <4>1, <1>1
        <4> QED BY <3>2, <4>2 DEF Before
      <3> QED BY <3>1, <3>2
    <2>3. Before(k) <= ends[k] /\ ends[k] <= Len(kept)
      BY DEF Cut, CutAt, n
    <2>4. Before(k + 1) = ends[k]
      <3>1. k + 1 # 1 /\ k + 1 - 1 = k
        OBVIOUS
      <3> QED BY <3>1 DEF Before
    <2> QED BY <2>1, <2>2, <2>3, <2>4
  <1>3. Before(1) = 0
    BY DEF Before
  <1>4. Before(n + 1) \in Nat /\ Before(n + 1) <= Len(kept)
    <2>1. CASE n = 0
      <3>1. n + 1 = 1
        BY <2>1
      <3> QED BY <3>1, <1>1, <1>3
    <2>2. CASE n # 0
      <3>1. n \in 1..n
        BY <2>2, <1>1
      <3> QED BY <3>1, <1>2
    <2> QED BY <2>1, <2>2
  <1>5. \A i, k \in 1..n : i <= k => ends[i] <= ends[k]
    <2> SUFFICES ASSUME NEW i \in 1..n PROVE \A k \in 1..n : i <= k => ends[i] <= ends[k]
      OBVIOUS
    <2> DEFINE T == {x \in Nat : i + x <= n => ends[i] <= ends[i + x]}
    <2>1. 0 \in T
      BY <1>2
    <2>2. ASSUME NEW x \in Nat, x \in T PROVE x + 1 \in T
      <3> SUFFICES ASSUME i + (x + 1) <= n PROVE ends[i] <= ends[i + (x + 1)]
        OBVIOUS
      <3>1. ends[i] <= ends[i + x] /\ i + x \in 1..n /\ i + (x + 1) \in 1..n
        BY <2>2, <1>1
      <3>2. Before((i + x) + 1) = ends[i + x] /\ (i + x) + 1 = i + (x + 1)
        BY <3>1, <1>2
      <3>3. Before(i + (x + 1)) <= ends[i + (x + 1)]
        BY <3>1, <1>2
      <3>4. ends[i] \in Nat /\ ends[i + x] \in Nat /\ ends[i + (x + 1)] \in Nat
        BY <3>1, <1>2
      <3> QED BY <3>1, <3>2, <3>3, <3>4
    <2> HIDE DEF T
    <2>3. \A x \in Nat : x \in T
      BY <2>1, <2>2, Induction
    <2>4. ASSUME NEW k \in 1..n, i <= k PROVE ends[i] <= ends[k]
      <3>1. k - i \in Nat /\ i + (k - i) = k
        BY <2>4
      <3>2. k - i \in T
        BY <3>1, <2>3
      <3> QED BY <3>1, <3>2 DEF T
    <2> QED BY <2>4
  <1>6. ASSUME NEW k \in 1..n, NEW j \in 1..k, Run(j, k) PROVE Before(k) < ends[k]
    <2>1. Code(k) # CLEAR /\ Code(k) \in Nat /\ (Code(k) \in Byte \/ Code(k) > CLEAR)
      <3>1. Code(k) # CLEAR
        BY <1>6 DEF Run
      <3> QED BY <3>1, CodeType DEF n
    <2>2. Means_(j, Code(k), Before(k), ends[k]) /\ (Code(k) > CLEAR => Maker(j, Code(k)) \in j..(k - 1))
      BY <1>6 DEF Cut, CutAt, n
    <2>3. CASE Code(k) \in Byte
      <3>1. ends[k] = Before(k) + 1
        BY <2>2, <2>3 DEF Means_
      <3> QED BY <3>1, <1>2
    <2>4. CASE Code(k) > CLEAR
      <3>1. PICK q \in 1..n : q = Maker(j, Code(k))
        BY <2>2, <2>4, <1>1
      <3>2. ends[k] - Before(k) = ends[q] - Before(q) + 1
        BY <2>2, <2>4, <3>1 DEF Means_
      <3>3. Before(q) <= ends[q] /\ Before(q) \in Nat /\ ends[q] \in Nat /\ Before(k) \in Nat /\ ends[k] \in Nat
        BY <1>2
      <3> QED BY <3>2, <3>3
    <2> QED BY <2>1, <2>3, <2>4
  <1> QED BY <1>1, <1>2, <1>3, <1>4, <1>5, <1>6 DEF n

(* The strings of a dictionary whose entries are made by the codes from j  *)
(* to r.                                                                   *)
Top(j, r) == CLEAR + 1 + r - j
StringOf(j, r) ==
    [c \in Byte \cup (CLEAR + 1)..Top(j, r) |->
        IF c \in Byte THEN <<c>> ELSE SubSeq(kept, Before(Maker(j, c)) + 1, ends[Maker(j, c)] + 1)]

(* Codes j to r are codes of one run, and another byte follows.            *)
Makes(j, r) ==
    /\ j \in Nat /\ j >= 1 /\ r \in Nat /\ j <= r + 1 /\ r <= Len(sent) /\ Run(j, r)
    /\ \A q \in j..r : ends[q] < Len(kept)

LEMMA MakerType ==
    ASSUME NEW j \in Nat, NEW r \in Nat, NEW h \in (CLEAR + 1)..Top(j, r)
    PROVE  Maker(j, h) \in j..r /\ h = CLEAR + 1 + Maker(j, h) - j /\ h \notin Byte
  <1>1. CLEAR \in Nat /\ CLEAR = ALPHA
    BY Sizes DEF CLEAR
  <1> QED BY <1>1 DEF Maker, Top, Byte

LEMMA RunPart ==
    ASSUME NEW j \in Nat, NEW r \in Nat, Run(j, r), NEW q \in j..r
    PROVE  Run(j, q)
  BY DEF Run

(* u is what is kept behind a, up to e. *)
IsPiece(u, a, e) ==
    /\ a \in Nat /\ e \in Nat /\ a <= e /\ e <= Len(kept)
    /\ u = SubSeq(kept, a + 1, e) /\ u \in Seq(Byte) /\ Len(u) = e - a
    /\ \A i \in 1..(e - a) : u[i] = kept[a + i]

LEMMA PieceOf ==
    ASSUME kept \in Seq(Byte), NEW a \in Nat, NEW e \in Nat, a <= e, e <= Len(kept)
    PROVE  IsPiece(SubSeq(kept, a + 1, e), a, e)
  <1> DEFINE S == Byte
  <1>1. kept \in Seq(S)
    OBVIOUS
  <1> HIDE DEF S
  <1>2. SubSeq(kept, a + 1, e) \in Seq(S) /\ Len(SubSeq(kept, a + 1, e)) = e - a
        /\ \A i \in 1..(e - a) : SubSeq(kept, a + 1, e)[i] = kept[a + i]
    BY <1>1
  <1>3. SubSeq(kept, a + 1, e) \in Seq(Byte)
    BY <1>2, Zenon DEF S
  <1> QED BY <1>2, <1>3, Zenon DEF IsPiece

LEMMA SamePiece ==
    ASSUME NEW u, NEW v, NEW a, NEW e, NEW b, NEW g, IsPiece(u, a, e), IsPiece(v, b, g),
           e - a = g - b, Repeats(b, a, g - b)
    PROVE  u = v
  <1>1. u \in Seq(Byte) /\ v \in Seq(Byte) /\ Len(u) = e - a /\ Len(v) = g - b
    BY DEF IsPiece
  <1>2. Len(u) = Len(v)
    BY <1>1
  <1>3. \A i \in 1..Len(u) : u[i] = v[i]
    <2> SUFFICES ASSUME NEW i \in 1..Len(u) PROVE u[i] = v[i]
      OBVIOUS
    <2>1. i \in 1..(e - a) /\ i \in 1..(g - b)
      BY <1>1, <1>2
    <2>2. u[i] = kept[a + i] /\ v[i] = kept[b + i]
      BY <2>1, Zenon DEF IsPiece
    <2>3. kept[b + i] = kept[a + i]
      BY <2>1, Zenon DEF Repeats
    <2> QED BY <2>2, <2>3
  <1> QED BY <1>1, <1>2, <1>3, SeqEqual

LEMMA StringType ==
    ASSUME Cut, kept \in Seq(Byte), EncodeInv, NEW j, NEW r, Makes(j, r),
           NEW h \in (CLEAR + 1)..Top(j, r), NEW q, q = Maker(j, h)
    PROVE  /\ q \in j..r /\ q \in 1..Len(sent) /\ Run(j, q)
           /\ Before(q) \in Nat /\ ends[q] \in Nat /\ Before(q) < ends[q] /\ ends[q] < Len(kept)
           /\ IsPiece(StringOf(j, r)[h], Before(q), ends[q] + 1)
  <1>0. j \in Nat /\ r \in Nat /\ j >= 1 /\ r <= Len(sent) /\ Len(sent) \in Nat /\ Run(j, r)
    BY SentType DEF Makes
  <1>1. q \in j..r /\ h \notin Byte
    BY <1>0, MakerType
  <1>2. q \in 1..Len(sent) /\ j \in 1..q
    BY <1>0, <1>1
  <1>3. Run(j, q)
    BY <1>0, <1>1, RunPart
  <1>4. Before(q) \in Nat /\ ends[q] \in Nat /\ Before(q) < ends[q] /\ Len(kept) \in Nat
    BY <1>2, <1>3, CutFacts
  <1>5. ends[q] < Len(kept)
    BY <1>1 DEF Makes
  <1>6. StringOf(j, r)[h] = SubSeq(kept, Before(q) + 1, ends[q] + 1)
    BY <1>1 DEF StringOf
  <1>7. ends[q] + 1 \in Nat /\ Before(q) <= ends[q] + 1 /\ ends[q] + 1 <= Len(kept)
    BY <1>4, <1>5
  <1>8. IsPiece(SubSeq(kept, Before(q) + 1, ends[q] + 1), Before(q), ends[q] + 1)
    BY <1>4, <1>7, PieceOf
  <1> QED BY <1>1, <1>2, <1>3, <1>4, <1>5, <1>6, <1>8, Zenon

(* What a code means is the string of its bytes. *)
LEMMA MeansText ==
    ASSUME Cut, kept \in Seq(Byte), EncodeInv, NEW j, NEW r, Makes(j, r),
           NEW c \in Byte \cup (CLEAR + 1)..Top(j, r),
           NEW a \in Nat, NEW e \in Nat, a <= e, e <= Len(kept), Means_(j, c, a, e)
    PROVE  StringOf(j, r)[c] = SubSeq(kept, a + 1, e)
  <1> DEFINE u == StringOf(j, r)[c]
             v == SubSeq(kept, a + 1, e)
  <1>1. IsPiece(v, a, e)
    BY PieceOf
  <1>2. CASE c \in Byte
    <2>1. u = <<c>>
      BY <1>2 DEF StringOf
    <2>2. e = a + 1 /\ kept[e] = c
      BY <1>2 DEF Means_
    <2>3. u \in Seq(Byte) /\ Len(u) = 1 /\ u[1] = c
      BY <2>1, <1>2
    <2> HIDE DEF u, v
    <2>4. v \in Seq(Byte) /\ Len(v) = 1 /\ v[1] = c
      <3>1. 1 \in 1..(e - a) /\ a + 1 = e /\ e - a = 1
        BY <2>2
      <3>2. v \in Seq(Byte) /\ Len(v) = e - a /\ v[1] = kept[a + 1]
        BY <1>1, <3>1, Zenon DEF IsPiece
      <3> QED BY <3>1, <3>2, <2>2
    <2>5. \A i \in 1..Len(u) : u[i] = v[i]
      BY <2>3, <2>4
    <2>6. u = v
      BY <2>3, <2>4, <2>5, SeqEqual
    <2> QED BY <2>6 DEF u, v
  <1>3. CASE c \in (CLEAR + 1)..Top(j, r)
    <2>1. PICK q : q = Maker(j, c)
      OBVIOUS
    <2>2. c > CLEAR
      BY <1>3, Sizes
    <2>3. e - a = ends[q] - Before(q) + 1 /\ Repeats(a, Before(q), e - a)
      BY <2>1, <2>2 DEF Means_
    <2>4. IsPiece(u, Before(q), ends[q] + 1) /\ Before(q) \in Nat /\ ends[q] \in Nat
      BY <1>3, <2>1, StringType, Zenon
    <2>5. (ends[q] + 1) - Before(q) = e - a
      BY <2>3, <2>4
    <2> HIDE DEF u, v
    <2>6. u = v
      BY <1>1, <2>3, <2>4, <2>5, SamePiece
    <2> QED BY <2>6 DEF u, v
  <1> QED BY <1>2, <1>3

LEMMA PieceGrows ==
    ASSUME kept \in Seq(Byte), NEW a \in Nat, NEW e \in Nat, a <= e, e < Len(kept)
    PROVE  SubSeq(kept, a + 1, e + 1) = Append(SubSeq(kept, a + 1, e), kept[e + 1])
  <1> DEFINE S == Byte
             u == SubSeq(kept, a + 1, e + 1)
             v == SubSeq(kept, a + 1, e)
             x == kept[e + 1]
             z == Append(v, x)
  <1>1. kept \in Seq(S)
    OBVIOUS
  <1> HIDE DEF S
  <1>2. u \in Seq(S) /\ Len(u) = e + 1 - a /\ \A i \in 1..(e + 1 - a) : u[i] = kept[a + i]
    BY <1>1
  <1>3. v \in Seq(S) /\ Len(v) = e - a /\ \A i \in 1..(e - a) : v[i] = kept[a + i]
    BY <1>1
  <1>4. x \in S
    BY <1>1
  <1> HIDE DEF u, v, x
  <1>5. z \in Seq(S) /\ Len(z) = Len(v) + 1 /\ z[Len(v) + 1] = x /\ \A i \in 1..Len(v) : z[i] = v[i]
    BY <1>3, <1>4
  <1> HIDE DEF z
  <1>6. \A i \in 1..Len(u) : u[i] = z[i]
    <2> SUFFICES ASSUME NEW i \in 1..Len(u) PROVE u[i] = z[i]
      OBVIOUS
    <2>1. CASE i = e + 1 - a
      <3>1. u[i] = kept[a + i] /\ a + i = e + 1 /\ i = Len(v) + 1
        BY <2>1, <1>2, <1>3
      <3> QED BY <3>1, <1>5 DEF x
    <2>2. CASE i # e + 1 - a
      <3>1. i \in 1..(e - a) /\ i \in 1..(e + 1 - a) /\ i \in 1..Len(v)
        BY <2>2, <1>2, <1>3
      <3> QED BY <3>1, <1>2, <1>3, <1>5
    <2> QED BY <2>1, <2>2
  <1>7. u = z
    <2>1. Len(u) = Len(z)
      BY <1>2, <1>3, <1>5
    <2> QED BY <1>2, <1>5, <1>6, <2>1, SeqEqual
  <1> QED BY <1>7 DEF u, v, x, z

(* A dictionary that holds them has those strings. *)
LEMMA SpellsText ==
    ASSUME Cut, kept \in Seq(Byte), EncodeInv, NEW j, NEW r, Makes(j, r),
           NEW d, IsDict(d), d.nexti = Top(j, r) + 1, Holds(d, j)
    PROVE  Spells(d, Top(j, r), StringOf(j, r))
  <1> DEFINE s == StringOf(j, r)
  <1>0. j \in Nat /\ r \in Nat /\ j >= 1 /\ j <= r + 1 /\ CLEAR \in Nat /\ CLEAR = ALPHA
    BY Sizes DEF Makes, CLEAR
  <1>1. PICK top \in Nat : top = Top(j, r)
    BY <1>0 DEF Top
  <1>2. Live(d) = (CLEAR + 1)..top
    BY <1>1 DEF Live
  <1>3. (CLEAR + 1)..top \subseteq DOMAIN d.entry
    BY <1>2 DEF IsDict
  <1>4. \A b \in Byte : s[b] = <<b>>
    BY DEF StringOf
  <1>5. ASSUME NEW c \in Byte \cup (CLEAR + 1)..top PROVE s[c] \in Seq(Byte)
    <2>1. CASE c \in Byte
      <3>1. <<c>> \in Seq(Byte) /\ s[c] = <<c>>
        BY <2>1, <1>4
      <3> HIDE DEF s
      <3> QED BY <3>1
    <2>2. CASE c \in (CLEAR + 1)..top
      <3>1. PICK q : q = Maker(j, c)
        OBVIOUS
      <3>2. IsPiece(s[c], Before(q), ends[q] + 1)
        BY <2>2, <3>1, <1>1, StringType, Zenon
      <3> QED BY <3>2 DEF IsPiece
    <2> QED BY <2>1, <2>2
  <1>6. s \in [Byte \cup (CLEAR + 1)..top -> Seq(Byte)]
    <2>1. s = [c \in Byte \cup (CLEAR + 1)..top |-> s[c]]
      BY <1>1 DEF StringOf
    <2> HIDE DEF s
    <2> QED BY <2>1, <1>5
  <1>7. ASSUME NEW h \in (CLEAR + 1)..top
        PROVE  /\ d.entry[h][1] \in Byte \cup (CLEAR + 1)..(h - 1)
               /\ s[h] = Append(s[d.entry[h][1]], d.entry[h][2])
    <2>1. PICK q : q = Maker(j, h)
      OBVIOUS
    <2>2. /\ q \in j..r /\ q \in 1..Len(sent) /\ Run(j, q)
          /\ Before(q) \in Nat /\ ends[q] \in Nat /\ Before(q) < ends[q] /\ ends[q] < Len(kept)
          /\ s[h] = SubSeq(kept, Before(q) + 1, ends[q] + 1)
      <3>1. /\ q \in j..r /\ q \in 1..Len(sent) /\ Run(j, q)
            /\ Before(q) \in Nat /\ ends[q] \in Nat /\ Before(q) < ends[q] /\ ends[q] < Len(kept)
            /\ IsPiece(s[h], Before(q), ends[q] + 1)
        BY <2>1, <1>1, StringType, Zenon
      <3>2. s[h] = SubSeq(kept, Before(q) + 1, ends[q] + 1)
        BY <3>1, Zenon DEF IsPiece
      <3> QED BY <3>1, <3>2, Zenon
    <2>3. h = CLEAR + 1 + q - j
      BY <2>1, <1>0, <1>1, MakerType
    <2>4. d.entry[h] = <<Code(q), kept[ends[q] + 1]>>
      BY <1>2, <2>1 DEF Holds
    <2>5. PICK c : c = Code(q)
      OBVIOUS
    <2>6. j \in 1..q /\ q \in j..q
      BY <1>0, <2>2
    <2>7. c \in Nat /\ (c \in Byte \/ c > CLEAR)
      <3>1. c # CLEAR
        BY <2>2, <2>5, <2>6 DEF Run
      <3> QED BY <2>2, <2>5, <3>1, CodeType
    <2>8. (c > CLEAR => Maker(j, c) \in j..(q - 1)) /\ Means_(j, c, Before(q), ends[q])
      BY <2>2, <2>5, <2>6 DEF Cut, CutAt
    <2>9. c \in Byte \cup (CLEAR + 1)..(h - 1)
      BY <2>2, <2>3, <2>7, <2>8, <1>0 DEF Maker
    <2>10. c \in Byte \cup (CLEAR + 1)..Top(j, r)
      <3>1. h - 1 <= top
        BY <1>0
      <3> QED BY <2>9, <3>1, <1>0, <1>1
    <2>11. s[c] = SubSeq(kept, Before(q) + 1, ends[q])
      <3>1. PICK a \in Nat, e \in Nat : a = Before(q) /\ e = ends[q]
        BY <2>2
      <3>2. a <= e /\ e <= Len(kept) /\ Means_(j, c, a, e)
        BY <2>2, <2>8, <3>1
      <3>3. s[c] = SubSeq(kept, a + 1, e)
        BY <2>10, <3>2, MeansText
      <3> HIDE DEF s
      <3> QED BY <3>1, <3>3
    <2>12. SubSeq(kept, Before(q) + 1, ends[q] + 1)
             = Append(SubSeq(kept, Before(q) + 1, ends[q]), kept[ends[q] + 1])
      <3>1. PICK a \in Nat, e \in Nat : a = Before(q) /\ e = ends[q]
        BY <2>2
      <3>2. a <= e /\ e < Len(kept)
        BY <2>2, <3>1
      <3>3. SubSeq(kept, a + 1, e + 1) = Append(SubSeq(kept, a + 1, e), kept[e + 1])
        BY <3>2, PieceGrows
      <3> QED BY <3>1, <3>3, Zenon
    <2>13. d.entry[h][1] = c /\ d.entry[h][2] = kept[ends[q] + 1]
      BY <2>4, <2>5
    <2> HIDE DEF s
    <2> QED BY <2>2, <2>9, <2>11, <2>12, <2>13
  <1> HIDE DEF s
  <1>8. Spells(d, top, s)
    BY <1>3, <1>4, <1>6, <1>7 DEF Spells
  <1> QED BY <1>1, <1>8 DEF s

(* What the codes of d are is known. *)
Knows(d, j, r) ==
    \A c \in Byte \cup (CLEAR + 1)..Top(j, r) :
        buildstr(d, c).well /\ buildstr(d, c).str = StringOf(j, r)[c]

LEMMA KnowsText ==
    ASSUME Cut, kept \in Seq(Byte), EncodeInv, NEW j, NEW r, Makes(j, r),
           NEW d, IsDict(d), d.nexti = Top(j, r) + 1, Holds(d, j)
    PROVE  Knows(d, j, r)
  <1>1. j \in Nat /\ r \in Nat /\ j >= 1 /\ j <= r + 1 /\ CLEAR \in Nat
    BY Sizes DEF Makes
  <1>2. PICK top \in Nat : top = Top(j, r)
    BY <1>1 DEF Top
  <1>3. PICK s : s = StringOf(j, r)
    OBVIOUS
  <1>4. Spells(d, top, s)
    BY <1>2, <1>3, SpellsText
  <1>5. \A c \in Byte \cup (CLEAR + 1)..top : buildstr(d, c).well /\ buildstr(d, c).str = s[c]
    BY <1>4, Meaning
  <1> QED BY <1>2, <1>3, <1>5, Zenon DEF Knows

-----------------------------------------------------------------------------
(* The encoder: what is sent stays the text it was. *)

Grows ==
    /\ kept' \in Seq(Byte) /\ Len(kept) <= Len(kept')
    /\ \A i \in 1..Len(kept) : kept'[i] = kept[i]

LEMMA GrowsBy ==
    ASSUME kept \in Seq(Byte), NEW ch \in Byte, kept' = Append(kept, ch)
    PROVE  Grows /\ Len(kept') = Len(kept) + 1 /\ kept'[Len(kept) + 1] = ch
  <1> DEFINE S == Byte
  <1>1. kept \in Seq(S) /\ ch \in S
    OBVIOUS
  <1> HIDE DEF S
  <1>2. /\ Append(kept, ch) \in Seq(S)
        /\ Append(kept, ch) # << >>
        /\ Len(Append(kept, ch)) = Len(kept) + 1
        /\ \A i \in 1..Len(kept) : Append(kept, ch)[i] = kept[i]
        /\ Append(kept, ch)[Len(kept) + 1] = ch
    BY <1>1, AppendProperties, Zenon
  <1>3. PICK z : z = Append(kept, ch) /\ z = kept'
    OBVIOUS
  <1>4. kept' \in Seq(Byte) /\ Len(kept') = Len(kept) + 1 /\ kept'[Len(kept) + 1] = ch
        /\ \A i \in 1..Len(kept) : kept'[i] = kept[i]
    BY <1>2, <1>3, Zenon DEF S
  <1>5. Len(kept) \in Nat
    BY <1>1
  <1>6. Len(kept) <= Len(kept')
    BY <1>4, <1>5
  <1> QED BY <1>4, <1>6, Zenon DEF Grows

LEMMA GrowsNot ==
    ASSUME kept \in Seq(Byte), kept' = kept
    PROVE  Grows
  <1>1. Len(kept) \in Nat
    OBVIOUS
  <1>2. Len(kept) <= Len(kept')
    BY <1>1
  <1> QED BY <1>2, Zenon DEF Grows

(* The first n codes end where they did. *)
EndsOn(n) == \A k \in 1..n : ends'[k] = ends[k]

LEMMA BeforeStays ==
    ASSUME NEW n \in Nat, EndsOn(n)
    PROVE  \A k \in 1..(n + 1) : Before(k)' = Before(k)
  <1> SUFFICES ASSUME NEW k \in 1..(n + 1) PROVE Before(k)' = Before(k)
    OBVIOUS
  <1>1. CASE k = 1
    BY <1>1 DEF Before
  <1>2. CASE k # 1
    <2>1. k - 1 \in 1..n
      BY <1>2
    <2>2. ends'[k - 1] = ends[k - 1]
      BY <2>1 DEF EndsOn
    <2> QED BY <1>2, <2>2 DEF Before
  <1> QED BY <1>1, <1>2

LEMMA MeansStays ==
    ASSUME kept \in Seq(Byte), Grows, NEW n \in Nat, EndsOn(n),
           NEW j \in Nat, NEW c \in Nat, NEW a \in Nat, NEW e \in Nat, a <= e, e <= Len(kept),
           \A k \in 1..n : Before(k) \in Nat /\ ends[k] \in Nat,
           c > CLEAR => Maker(j, c) \in 1..n /\ ends[Maker(j, c)] <= a,
           Means_(j, c, a, e)
    PROVE  Means_(j, c, a, e)'
  <1>1. c \in Byte => e = a + 1 /\ kept'[e] = c
    <2> SUFFICES ASSUME c \in Byte PROVE e = a + 1 /\ kept'[e] = c
      OBVIOUS
    <2>1. e = a + 1 /\ kept[e] = c
      BY DEF Means_
    <2>2. e \in 1..Len(kept)
      BY <2>1
    <2> QED BY <2>1, <2>2 DEF Grows
  <1>2. ASSUME c > CLEAR
        PROVE  e - a = ends'[Maker(j, c)] - Before(Maker(j, c))' + 1 /\ Repeats(a, Before(Maker(j, c)), e - a)'
    <2>1. PICK q \in 1..n : q = Maker(j, c) /\ ends[q] <= a
      BY <1>2
    <2>2. e - a = ends[q] - Before(q) + 1 /\ Repeats(a, Before(q), e - a)
      BY <1>2, <2>1 DEF Means_
    <2>3. ends'[q] = ends[q] /\ Before(q)' = Before(q)
      <3>1. q \in 1..(n + 1)
        OBVIOUS
      <3> QED BY <3>1, BeforeStays DEF EndsOn
    <2>4. PICK b \in Nat : b = Before(q)
      OBVIOUS
    <2>5. \A i \in 1..(e - a) : kept'[a + i] = kept'[b + i]
      <3> SUFFICES ASSUME NEW i \in 1..(e - a) PROVE kept'[a + i] = kept'[b + i]
        OBVIOUS
      <3>1. a + i \in 1..Len(kept)
        OBVIOUS
      <3>2. b + i \in 1..Len(kept)
        <4>1. Len(kept) \in Nat
          OBVIOUS
        <4>2. PICK x \in Nat : x = ends[q]
          OBVIOUS
        <4>3. e - a = x - b + 1 /\ x <= a
          BY <2>1, <2>2, <2>4, <4>2
        <4> QED BY <4>1, <4>3
      <3>3. kept[a + i] = kept[b + i]
        BY <2>2, <2>4 DEF Repeats
      <3> QED BY <3>1, <3>2, <3>3 DEF Grows
    <2>6. Repeats(a, b, e - a)'
      BY <2>5, Zenon DEF Repeats
    <2>7. Maker(j, c)' = q
      BY <2>1 DEF Maker
    <2> QED BY <2>1, <2>2, <2>3, <2>4, <2>6
  <1> QED BY <1>1, <1>2 DEF Means_, Maker

LEMMA CutKeeps ==
    ASSUME Cut, kept \in Seq(Byte), EncodeInv, Grows, NEW n \in Nat, n = Len(sent), EndsOn(n),
           \A k \in 1..n : Code(k)' = Code(k) /\ (Starts(k)' <=> Starts(k)),
           \A k \in 1..n : \A j \in 1..k : Run(j, k)' <=> Run(j, k)
    PROVE  \A k \in 1..n : CutAt(k)'
  <1> SUFFICES ASSUME NEW k \in 1..n PROVE CutAt(k)'
    OBVIOUS
  <1>1. PICK a \in Nat, e \in Nat, c \in Nat : a = Before(k) /\ e = ends[k] /\ c = Code(k)
    BY CutFacts, CodeType
  <1>2. a = Before(k)' /\ e = ends'[k] /\ c = Code(k)'
    <2>1. k \in 1..(n + 1)
      OBVIOUS
    <2> QED BY <1>1, <2>1, BeforeStays DEF EndsOn
  <1>3. CutAt(k)
    BY DEF Cut
  <1>4. a <= e /\ e <= Len(kept) /\ Len(kept) \in Nat
    BY <1>1, CutFacts
  <1>5. e <= Len(kept')
    <2>1. Len(kept) <= Len(kept') /\ Len(kept') \in Nat
      <3> DEFINE S == Byte
      <3>1. kept' \in Seq(S) /\ Len(kept) <= Len(kept')
        BY DEF Grows
      <3> HIDE DEF S
      <3> QED BY <3>1
    <2> QED BY <2>1, <1>4
  <1>6. (c = CLEAR => e = a) /\ (Starts(k)' => c \in Byte)
    BY <1>1, <1>3 DEF CutAt
  <1>7. ASSUME NEW j \in 1..k, Run(j, k)'
        PROVE  /\ c > CLEAR => Maker(j, c) \in j..(k - 1)
               /\ Means_(j, c, a, e)'
               /\ e - a <= k - j + 1
    <2>1. Run(j, k)
      BY <1>7
    <2>2. /\ c > CLEAR => Maker(j, c) \in j..(k - 1)
          /\ Means_(j, c, a, e)
          /\ e - a <= k - j + 1
      BY <1>1, <1>3, <2>1 DEF CutAt
    <2>3. ASSUME c > CLEAR PROVE Maker(j, c) \in 1..n /\ ends[Maker(j, c)] <= a
      <3>1. PICK q \in j..(k - 1) : q = Maker(j, c)
        BY <2>2, <2>3
      <3>2. q \in 1..n /\ k - 1 \in 1..n /\ q <= k - 1
        OBVIOUS
      <3>3. ends[q] <= ends[k - 1]
        BY <3>2, CutFacts
      <3>4. Before(k) = ends[k - 1]
        BY <3>2 DEF Before
      <3> QED BY <1>1, <3>1, <3>2, <3>3, <3>4
    <2>4. \A i \in 1..n : Before(i) \in Nat /\ ends[i] \in Nat
      BY CutFacts
    <2>5. Means_(j, c, a, e)'
      BY <1>4, <2>2, <2>3, <2>4, MeansStays
    <2> QED BY <2>2, <2>5
  <1> QED BY <1>2, <1>4, <1>5, <1>6, <1>7 DEF CutAt, Maker

LEMMA CutSame ==
    ASSUME Cut, kept \in Seq(Byte), EncodeInv, Grows, sent' = sent, ends' = ends
    PROVE  Cut'
  <1>1. PICK n \in Nat : n = Len(sent)
    BY SentType
  <1>2. EndsOn(n)
    BY DEF EndsOn
  <1>3. \A k \in 1..n : Code(k)' = Code(k) /\ (Starts(k)' <=> Starts(k))
    BY DEF Code, Starts
  <1>4. \A k \in 1..n : \A j \in 1..k : Run(j, k)' <=> Run(j, k)
    BY DEF Code, Starts, Run
  <1>5. \A k \in 1..n : CutAt(k)'
    BY <1>1, <1>2, <1>3, <1>4, CutKeeps
  <1> QED BY <1>1, <1>5 DEF Cut

(* A code more. *)
Cuts(n, c, a, e) ==
    /\ n \in Nat /\ n = Len(sent) /\ c \in Nat /\ e \in Nat /\ a \in Nat /\ a = Before(n + 1)
    /\ sent' = Append(sent, <<c, BITS0>>) /\ ends' = Append(ends, e)
    /\ a <= e /\ e <= Len(kept) /\ (c = CLEAR => e = a) /\ (Starts(n + 1) => c \in Byte)
    /\ \A j \in 1..(n + 1) : Run(j, n) /\ c # CLEAR =>
         /\ c > CLEAR => Maker(j, c) \in j..n
         /\ Means_(j, c, a, e)
         /\ e - a <= n - j + 2

LEMMA CutMore ==
    ASSUME Cut, kept \in Seq(Byte), EncodeInv, Grows, NEW n, NEW c, NEW a, NEW e, Cuts(n, c, a, e)
    PROVE  /\ Cut' /\ EndsOn(n) /\ ends'[n + 1] = e /\ Len(ends') = n + 1
           /\ Before(n + 1)' = a /\ Before(n + 2)' = e
  <1> n \in Nat /\ n = Len(sent) /\ c \in Nat /\ e \in Nat /\ a \in Nat /\ a = Before(n + 1)
    BY DEF Cuts
  <1> sent' = Append(sent, <<c, BITS0>>) /\ ends' = Append(ends, e)
    BY DEF Cuts
  <1> a <= e /\ e <= Len(kept) /\ (c = CLEAR => e = a) /\ (Starts(n + 1) => c \in Byte)
    BY DEF Cuts
  <1> \A j \in 1..(n + 1) : Run(j, n) /\ c # CLEAR =>
         /\ c > CLEAR => Maker(j, c) \in j..n
         /\ Means_(j, c, a, e)
         /\ e - a <= n - j + 2
    BY DEF Cuts
  <1>1. /\ sent' \in Seq(Nat \X {BITS0}) /\ Len(sent') = n + 1
        /\ \A k \in 1..n : sent'[k] = sent[k] /\ Code(k)' = Code(k)
        /\ Code(n + 1)' = c
        /\ \A k \in 1..(n + 1) : Starts(k)' <=> Starts(k)
        /\ \A j \in 1..(n + 1), k \in 0..n : Run(j, k)' <=> Run(j, k)
    BY Appended DEF EncodeInv, Packed
  <1>2. ends \in Seq(Nat) /\ Len(ends) = n
    BY DEF Cut
  <1>3. ends' \in Seq(Nat) /\ Len(ends') = n + 1 /\ ends'[n + 1] = e /\ \A k \in 1..n : ends'[k] = ends[k]
    BY <1>2
  <1>4. EndsOn(n)
    BY <1>3 DEF EndsOn
  <1>5. \A k \in 1..n : CutAt(k)'
    <2>1. \A k \in 1..n : Code(k)' = Code(k) /\ (Starts(k)' <=> Starts(k))
      BY <1>1
    <2>2. \A k \in 1..n : \A j \in 1..k : Run(j, k)' <=> Run(j, k)
      <3> SUFFICES ASSUME NEW k \in 1..n, NEW j \in 1..k PROVE Run(j, k)' <=> Run(j, k)
        OBVIOUS
      <3>1. j \in 1..(n + 1) /\ k \in 0..n
        OBVIOUS
      <3> QED BY <3>1, <1>1, Zenon
    <2> QED BY <1>4, <2>1, <2>2, CutKeeps, Zenon
  <1>6. Before(n + 1)' = a
    BY <1>4, BeforeStays
  <1>7. Before(n + 2)' = e
    <2>1. n + 2 # 1 /\ n + 2 - 1 = n + 1
      OBVIOUS
    <2> QED BY <2>1, <1>3 DEF Before
  <1>8. e <= Len(kept')
    <2>1. Len(kept) <= Len(kept') /\ Len(kept') \in Nat /\ Len(kept) \in Nat
      <3> DEFINE S == Byte
      <3>1. kept \in Seq(S) /\ kept' \in Seq(S) /\ Len(kept) <= Len(kept')
        BY DEF Grows
      <3> HIDE DEF S
      <3> QED BY <3>1
    <2> QED BY <2>1
  <1>9. ASSUME NEW j \in 1..(n + 1), Run(j, n + 1)'
        PROVE  /\ c > CLEAR => Maker(j, c) \in j..n
               /\ Means_(j, c, a, e)'
               /\ e - a <= n - j + 2
    <2>1. Starts(j)' /\ \A i \in j..(n + 1) : Code(i)' # CLEAR
      BY <1>9 DEF Run
    <2>2. c # CLEAR
      <3>1. n + 1 \in j..(n + 1)
        OBVIOUS
      <3> QED BY <2>1, <3>1, <1>1
    <2>3. Run(j, n)'
      BY <2>1 DEF Run
    <2>4. Run(j, n)
      BY <2>3, <1>1
    <2>5. /\ c > CLEAR => Maker(j, c) \in j..n
          /\ Means_(j, c, a, e)
          /\ e - a <= n - j + 2
      BY <2>2, <2>4
    <2>6. ASSUME c > CLEAR PROVE Maker(j, c) \in 1..n /\ ends[Maker(j, c)] <= a
      <3>1. PICK q \in j..n : q = Maker(j, c)
        BY <2>5, <2>6
      <3>2. q \in 1..n /\ n \in 1..n /\ q <= n
        OBVIOUS
      <3>3. ends[q] <= ends[n] /\ Before(n + 1) = ends[n]
        BY <3>2, CutFacts
      <3> QED BY <3>1, <3>2, <3>3
    <2>7. \A i \in 1..n : Before(i) \in Nat /\ ends[i] \in Nat
      BY CutFacts
    <2>8. Means_(j, c, a, e)'
      <3>1. j \in Nat
        OBVIOUS
      <3> QED BY <1>4, <2>5, <2>6, <2>7, <3>1, MeansStays, Zenon
    <2> QED BY <2>5, <2>8
  <1>10. CutAt(n + 1)'
    <2>1. (n + 1) - 1 = n /\ \A j \in 1..(n + 1) : (n + 1) - j + 1 = n - j + 2
      OBVIOUS
    <2>2. Starts(n + 1)' => c \in Byte
      BY <1>1
    <2> QED BY <1>1, <1>3, <1>6, <1>8, <1>9, <2>1, <2>2 DEF CutAt, Maker
  <1>11. \A k \in 1..(n + 1) : CutAt(k)'
    <2> SUFFICES ASSUME NEW k \in 1..(n + 1) PROVE CutAt(k)'
      OBVIOUS
    <2>1. CASE k = n + 1
      BY <2>1, <1>10
    <2>2. CASE k # n + 1
      <3>1. k \in 1..n
        BY <2>2
      <3> QED BY <3>1, <1>5
    <2> QED BY <2>1, <2>2
  <1> QED BY <1>1, <1>3, <1>4, <1>6, <1>7, <1>11 DEF Cut

(* Where the encoder is when it is writing a run from code j on. *)
Stands(j, n) ==
    /\ Writing(j) /\ Holds(ed, j) /\ Pending(j) /\ Makes(j, n) /\ Knows(ed, j, n)
    /\ w \in Byte \cup (CLEAR + 1)..Top(j, n)
    /\ Entries = (CLEAR + 1)..Top(j, n)
    /\ Before(n + 1) \in Nat /\ Len(kept) \in Nat /\ Before(n + 1) < Len(kept)
    /\ IsPiece(buildstr(ed, w).str, Before(n + 1), Len(kept))

LEMMA Standing ==
    ASSUME Typed, EncodeInv, EncodedInv, Sound, cpc = "read", NEW n \in Nat, n = Len(sent),
           NEW j \in 1..(n + 1), Writing(j)
    PROVE  kept \in Seq(Byte) /\ Cut /\ Stands(j, n)
  <1>1. kept \in Seq(Byte) /\ Cut /\ Holds(ed, j) /\ Pending(j)
    BY DEF EncodedInv
  <1>2. CLEAR \in Nat /\ CLEAR = ALPHA
    BY Sizes DEF CLEAR
  <1>3. Run(j, n) /\ ed.nexti = CLEAR + 2 + n - j
    BY DEF Writing
  <1>4. Before(n + 1) \in Nat /\ Len(kept) \in Nat /\ Before(n + 1) < Len(kept)
    BY <1>1, CutFacts DEF Pending
  <1>5. Makes(j, n)
    <2>1. ASSUME NEW q \in j..n PROVE ends[q] < Len(kept)
      <3>1. q \in 1..n /\ n \in 1..n /\ q <= n
        OBVIOUS
      <3>2. ends[q] <= ends[n] /\ Before(n + 1) = ends[n] /\ ends[q] \in Nat
        BY <1>1, <3>1, CutFacts
      <3> QED BY <3>2, <1>4
    <2> QED BY <1>3, <2>1 DEF Makes
  <1>6. ed.nexti = Top(j, n) + 1 /\ Entries = (CLEAR + 1)..Top(j, n)
    BY <1>2, <1>3 DEF Top, Entries
  <1>7. Knows(ed, j, n)
    <2>1. PICK d : d = ed
      OBVIOUS
    <2>2. IsDict(d) /\ d.nexti = Top(j, n) + 1 /\ Holds(d, j)
      BY <1>1, <1>6, <2>1 DEF Typed, EncoderTyped, Named
    <2>3. Knows(d, j, n)
      BY <1>1, <1>5, <2>2, KnowsText, Zenon
    <2> QED BY <2>1, <2>3
  <1>8. w \in Byte \cup (CLEAR + 1)..Top(j, n)
    <2>1. w \in Byte \cup (CLEAR + 1)..(Shl(BITS0) - 1)
      BY DEF EncodeInv, Sound
    <2>2. CASE w \in Byte
      BY <2>2
    <2>3. CASE w \in (CLEAR + 1)..(Shl(BITS0) - 1)
      <3>1. w > CLEAR /\ w \in Nat
        BY <2>3, <1>2
      <3>2. Maker(j, w) \in j..n
        BY <1>1, <3>1 DEF Pending
      <3> QED BY <3>1, <3>2, <1>2 DEF Maker, Top
    <2> QED BY <2>1, <2>2, <2>3
  <1>9. IsPiece(buildstr(ed, w).str, Before(n + 1), Len(kept))
    <2>1. PICK a, e, c : a = Before(n + 1) /\ e = Len(kept) /\ c = w
      BY <1>4
    <2>2. /\ a \in Nat /\ e \in Nat /\ a <= e /\ e <= Len(kept) /\ Means_(j, c, a, e)
          /\ c \in Byte \cup (CLEAR + 1)..Top(j, n)
      BY <1>1, <1>4, <1>8, <2>1 DEF Pending
    <2>3. StringOf(j, n)[c] = SubSeq(kept, a + 1, e)
      BY <1>1, <1>5, <2>2, MeansText
    <2>4. IsPiece(SubSeq(kept, a + 1, e), a, e)
      BY <1>1, <2>2, PieceOf
    <2>5. buildstr(ed, c).str = StringOf(j, n)[c]
      BY <2>2, <1>7 DEF Knows
    <2> QED BY <2>1, <2>3, <2>4, <2>5
  <1> QED BY <1>1, <1>4, <1>5, <1>6, <1>7, <1>8, <1>9, Zenon DEF Stands

LEMMA SomeRun ==
    ASSUME Typed, EncodeInv, EncodedInv, Sound, cpc = "read"
    PROVE  \E n \in Nat : n = Len(sent) /\ \E j \in 1..(n + 1) :
              kept \in Seq(Byte) /\ Cut /\ Stands(j, n)
  <1>1. PICK n \in Nat : n = Len(sent)
    BY SentType
  <1>2. PICK j \in 1..(n + 1) : Writing(j)
    BY <1>1 DEF EncodeInv
  <1> QED BY <1>1, <1>2, Standing

(* Every lookup ends. *)
LEMMA NoRunAway == Typed /\ EncodeInv /\ EncodedInv /\ RunAway => ~Sound
  <1> SUFFICES ASSUME Typed, EncodeInv, EncodedInv, RunAway, Sound PROVE FALSE
    OBVIOUS
  <1>1. PICK s : cpc = "read" /\ Endless(s)
    BY DEF RunAway, Ready
  <1>2. PICK n \in Nat : n = Len(sent) /\ \E j \in 1..(n + 1) :
              kept \in Seq(Byte) /\ Cut /\ Stands(j, n)
    BY <1>1, SomeRun
  <1>3. PICK j \in 1..(n + 1) : Stands(j, n)
    BY <1>2
  <1>4. \A c \in Byte \cup Entries : buildstr(ed, c).well
    BY <1>3 DEF Stands, Knows
  <1>5. w \in Byte \cup Entries
    BY <1>3 DEF Stands
  <1> QED BY <1>1, <1>4, <1>5 DEF Endless

LEMMA SameEncoded ==
    ASSUME EncodedInv, UNCHANGED cvars
    PROVE  EncodedInv'
  <1>1. cpc' = cpc /\ text' = text /\ w' = w /\ ed' = ed /\ sent' = sent /\ kept' = kept
        /\ ends' = ends /\ stale' = stale
    BY DEF cvars
  <1>2. Sound' = Sound
    BY <1>1 DEF Sound
  <1>3. \A k \in 1..Len(sent) : CutAt(k) => CutAt(k)'
    BY <1>1 DEF CutAt, Before, Code, Starts, Run, Means_, Maker, Repeats
  <1>4. Cut => Cut'
    BY <1>1, <1>3 DEF Cut
  <1>5. \A j \in 1..(Len(sent) + 1) : Writing(j)' => Writing(j)
    BY <1>1 DEF Writing, Run, Starts, Code
  <1>6. \A j \in 1..(Len(sent) + 1) : Holds(ed, j) => Holds(ed, j)'
    BY <1>1 DEF Holds, Live, Maker, Code
  <1>7. \A j \in 1..(Len(sent) + 1) : Pending(j) => Pending(j)'
    BY <1>1 DEF Pending, Means_, Maker, Before, Repeats
  <1>8. Code(Len(sent))' = Code(Len(sent))
    BY <1>1 DEF Code
  <1> QED BY <1>1, <1>2, <1>4, <1>5, <1>6, <1>7, <1>8 DEF EncodedInv

LEMMA EncodedInit == Init => EncodedInv
  <1>1. << >> \in Seq(Byte)
    OBVIOUS
  <1> QED BY <1>1 DEF Init, CInit, EncodedInv, Sound

LEMMA EncodedLonger == Typed /\ EncodeInv /\ EncodedInv /\ Longer => EncodedInv'
  <1> SUFFICES ASSUME Typed, EncodeInv, EncodedInv, Longer PROVE EncodedInv'
    OBVIOUS
  <1>1. PICK ch, h :
          /\ ch \in Byte /\ h \in Found(String(ch)) /\ Ready(ch)
          /\ w' = h /\ kept' = Append(kept, ch) /\ cpc' = cpc /\ ed' = ed
          /\ sent' = sent /\ ends' = ends /\ stale' = stale
    <2>1. PICK ch \in Byte : \E h \in Found(String(ch)) :
            /\ Ready(ch) /\ ~Endless(String(ch))
            /\ w' = h /\ text' = Tail(text) /\ kept' = Append(kept, ch)
            /\ UNCHANGED <<cpc, ed, zbits, sent, ends, stale>>
      BY DEF Longer, Byte
    <2> QED BY <2>1
  <1>2. cpc = "read" /\ kept # << >> /\ kept \in Seq(Byte)
    BY <1>1 DEF Ready, EncodedInv
  <1>3. Grows /\ Len(kept') = Len(kept) + 1 /\ kept'[Len(kept) + 1] = ch
    BY <1>1, <1>2, GrowsBy
  <1>4. kept' \in Seq(Byte) /\ kept' # << >>
    BY <1>1, <1>2, <1>3 DEF Grows
  <1> SUFFICES ASSUME Sound' PROVE Cut' /\ \A j \in 1..(Len(sent) + 1) : Writing(j)' => Holds(ed, j)' /\ Pending(j)'
    BY <1>1, <1>2, <1>4 DEF EncodedInv
  <1>5. Sound
    BY <1>1, <1>2 DEF Sound
  <1>6. PICK n \in Nat : n = Len(sent)
    BY SentType
  <1>7. Cut
    BY <1>5 DEF EncodedInv
  <1>8. Cut'
    BY <1>1, <1>2, <1>3, <1>7, CutSame
  <1>9. EndsOn(n)
    BY <1>1 DEF EndsOn
  <1>10. ASSUME NEW j \in 1..(n + 1), Writing(j)' PROVE Holds(ed, j)' /\ Pending(j)'
    <2>1. Writing(j)
      BY <1>1, <1>10 DEF Writing, Run, Starts, Code
    <2>2. Stands(j, n)
      BY <1>2, <1>5, <1>6, <2>1, Standing
    <2>3. Makes(j, n) /\ Holds(ed, j)
      BY <2>2 DEF Stands
    <2>4. CLEAR \in Nat
      BY Sizes
    <2>5. Live(ed) = (CLEAR + 1)..Top(j, n)
      BY <2>2 DEF Stands, Live, Entries
    <2>6. ASSUME NEW x \in Live(ed) PROVE ed.entry[x] = <<Code(Maker(j, x)), kept'[ends[Maker(j, x)] + 1]>>
      <3>1. PICK q : q = Maker(j, x)
        OBVIOUS
      <3>2. q \in j..n /\ x \in (CLEAR + 1)..Top(j, n)
        BY <2>5, <3>1, MakerType
      <3>3. ends[q] < Len(kept) /\ ends[q] \in Nat
        BY <1>2, <1>6, <1>7, <2>3, <3>2, CutFacts DEF Makes
      <3>4. ends[q] + 1 \in 1..Len(kept)
        BY <3>3, <2>2 DEF Stands
      <3>5. kept'[ends[q] + 1] = kept[ends[q] + 1]
        BY <3>4, <1>3 DEF Grows
      <3> QED BY <2>3, <3>1, <3>5 DEF Holds
    <2>7. Holds(ed, j)'
      BY <1>1, <2>6 DEF Holds, Live, Maker, Code
    <2>8. h \in (CLEAR + 1)..Top(j, n) /\ buildstr(ed, h).str = Append(buildstr(ed, w).str, ch)
      BY <1>1, <2>2 DEF Found, Match, String, Stands
    <2>9. PICK q : q = Maker(j, h)
      OBVIOUS
    <2>10. PICK b \in Nat, g \in Nat, a \in Nat, e \in Nat :
             b = Before(q) /\ g = ends[q] /\ a = Before(n + 1) /\ e = Len(kept)
      BY <1>2, <1>6, <1>7, <2>2, <2>3, <2>8, <2>9, StringType, Zenon DEF Stands
    <2>11. q \in j..n /\ b < g /\ g < e /\ IsPiece(buildstr(ed, h).str, b, g + 1)
      <3>1. q \in j..n /\ b < g /\ g < e /\ IsPiece(StringOf(j, n)[h], b, g + 1)
        BY <1>2, <1>6, <1>7, <2>3, <2>8, <2>9, <2>10, StringType, Zenon
      <3>2. buildstr(ed, h).str = StringOf(j, n)[h]
        BY <2>2, <2>8 DEF Stands, Knows
      <3> QED BY <3>1, <3>2, Zenon
    <2>12. IsPiece(buildstr(ed, w).str, a, e)
      BY <2>2, <2>10, Zenon DEF Stands
    <2>13. (g + 1) - b = (e - a) + 1 /\ \A i \in 1..((e + 1) - a) : kept'[a + i] = kept'[b + i]
      <3> DEFINE S == Byte
      <3>1. PICK u, v : u = buildstr(ed, w).str /\ v = buildstr(ed, h).str
        OBVIOUS
      <3>2. /\ a <= e /\ u \in Seq(S) /\ Len(u) = e - a /\ \A i \in 1..(e - a) : u[i] = kept[a + i]
            /\ Len(v) = (g + 1) - b /\ \A i \in 1..((g + 1) - b) : v[i] = kept[b + i]
            /\ v = Append(u, ch) /\ ch \in S
        <4>1. IsPiece(u, a, e) /\ IsPiece(v, b, g + 1) /\ v = Append(u, ch) /\ ch \in Byte
          BY <1>1, <2>8, <2>11, <2>12, <3>1, Zenon
        <4> QED BY <4>1, Zenon DEF IsPiece
      <3> HIDE DEF S
      <3>3. Len(v) = Len(u) + 1 /\ v[Len(u) + 1] = ch /\ \A i \in 1..Len(u) : v[i] = u[i]
        BY <3>2
      <3>4. (g + 1) - b = (e - a) + 1
        BY <3>2, <3>3
      <3>5. ASSUME NEW i \in 1..((e + 1) - a) PROVE kept'[a + i] = kept'[b + i]
        <4>1. v[i] = kept'[b + i]
          <5>1. i \in 1..((g + 1) - b) /\ b + i \in 1..e
            BY <3>2, <3>4, <2>11
          <5> QED BY <5>1, <3>2, <1>3, <2>10 DEF Grows
        <4>2. v[i] = kept'[a + i]
          <5>1. CASE i \in 1..(e - a)
            <6>1. a + i \in 1..e
              BY <5>1
            <6> QED BY <5>1, <6>1, <3>2, <3>3, <1>3, <2>10 DEF Grows
          <5>2. CASE i \notin 1..(e - a)
            <6>1. i = (e - a) + 1 /\ a + i = e + 1
              BY <5>2
            <6> QED BY <6>1, <3>2, <3>3, <1>3, <2>10
          <5> QED BY <5>1, <5>2
        <4> QED BY <4>1, <4>2
      <3> QED BY <3>4, <3>5
    <2>14. Before(q)' = b /\ ends'[q] = g /\ Before(n + 1)' = a /\ Len(kept') = e + 1 /\ Len(sent') = n
           /\ Maker(j, h)' = q
      <3>1. q \in 1..(n + 1) /\ n + 1 \in 1..(n + 1)
        BY <2>11
      <3> QED BY <1>1, <1>3, <1>6, <1>9, <2>9, <2>10, <3>1, BeforeStays DEF Maker
    <2>15. Means_(j, h, a, e + 1)'
      <3>1. h \notin Byte
        BY <2>8, MakerType
      <3>2. Repeats(a, b, (e + 1) - a)'
        BY <2>13, Zenon DEF Repeats
      <3>3. (e + 1) - a = g - b + 1
        BY <2>13
      <3> QED BY <3>1, <3>2, <3>3, <2>14 DEF Means_
    <2>16. g - b <= q - j + 1
      <3>1. q \in 1..n /\ j \in 1..q /\ Run(j, q)
        BY <1>6, <1>7, <1>2, <2>3, <2>8, <2>9, <2>11, StringType
      <3> QED BY <1>6, <1>7, <3>1, <2>10 DEF Cut, CutAt
    <2>17. a < e + 1 /\ (e + 1) - a <= n - j + 2
      <3>1. a < e
        BY <2>2, <2>10 DEF Stands
      <3> QED BY <3>1, <2>11, <2>13, <2>16
    <2>18. Pending(j)'
      <3>1. w' = h
        BY <1>1
      <3> QED BY <3>1, <2>11, <2>14, <2>15, <2>17 DEF Pending
    <2> QED BY <2>7, <2>18
  <1> QED BY <1>6, <1>8, <1>10

(* What w stands for, for the code that it is put out as. *)
LEMMA CodeW ==
    ASSUME Typed, EncodeInv, EncodedInv, Sound, cpc = "read", NEW n \in Nat, n = Len(sent)
    PROVE  /\ w \in Nat /\ w # CLEAR /\ w % Shl(BITS0) = w /\ CLEAR \in Nat
           /\ Starts(n + 1) => w \in Byte
           /\ \A j \in 1..(n + 1) : Run(j, n) =>
                Writing(j) /\ Pending(j)
  <1>1. w \in Byte \cup (CLEAR + 1)..(Shl(BITS0) - 1) /\ w \in Nat
    BY DEF EncodeInv, Sound, Typed, EncoderTyped
  <1>2. CLEAR = ALPHA /\ ALPHA \in Nat /\ BITS0 \in Nat /\ Shl(BITS0) \in Nat \ {0}
        /\ ALPHA + 1 < Shl(BITS0)
    BY Widths, ShlStep DEF CLEAR
  <1>3. w # CLEAR /\ w < Shl(BITS0)
    BY <1>1, <1>2 DEF Byte
  <1> DEFINE m == Shl(BITS0)
  <1>4. m \in Nat \ {0} /\ w < m
    BY <1>2, <1>3
  <1> HIDE DEF m
  <1>5. w % m = w
    BY <1>1, <1>4
  <1>6. ASSUME NEW j \in 1..(n + 1), Run(j, n) PROVE Writing(j) /\ Pending(j)
    <2>1. PICK i \in 1..(n + 1) : Writing(i)
      BY DEF EncodeInv
    <2>2. i = j
      BY <1>6, <2>1, RunStart DEF Writing
    <2>3. Writing(j)
      BY <2>1, <2>2
    <2> QED BY <2>3 DEF EncodedInv
  <1>7. ASSUME Starts(n + 1) PROVE w \in Byte
    <2>1. Run(n + 1, n)
      BY <1>7 DEF Run
    <2>2. n + 1 \in 1..(n + 1)
      OBVIOUS
    <2>3. w > CLEAR => Maker(n + 1, w) \in (n + 1)..n
      BY <1>6, <2>1, <2>2 DEF Pending
    <2>4. (n + 1)..n = {}
      OBVIOUS
    <2> QED BY <2>3, <2>4, <1>1, <1>2
  <1> QED BY <1>1, <1>2, <1>3, <1>5, <1>6, <1>7 DEF m

(* w is put out, and kept is cut behind it. *)
LEMMA CutW ==
    ASSUME Typed, EncodeInv, EncodedInv, Sound, cpc = "read", NEW n \in Nat, n = Len(sent), Grows,
           sent' = Append(sent, <<w, BITS0>>), ends' = Append(ends, Len(kept))
    PROVE  /\ Cut' /\ EndsOn(n) /\ ends'[n + 1] = Len(kept)
           /\ Before(n + 1)' = Before(n + 1) /\ Before(n + 2)' = Len(kept)
  <1>1. /\ w \in Nat /\ w # CLEAR
        /\ Starts(n + 1) => w \in Byte
        /\ \A j \in 1..(n + 1) : Run(j, n) => Writing(j) /\ Pending(j)
    BY CodeW
  <1>2. kept \in Seq(Byte) /\ Cut
    BY DEF EncodedInv
  <1>3. PICK c \in Nat, e \in Nat, a \in Nat : c = w /\ e = Len(kept) /\ a = Before(n + 1)
    BY <1>1, <1>2, CutFacts
  <1>4. a <= e
    BY <1>2, <1>3, CutFacts
  <1>5. \A j \in 1..(n + 1) : Run(j, n) /\ c # CLEAR =>
          /\ c > CLEAR => Maker(j, c) \in j..n
          /\ Means_(j, c, a, e)
          /\ e - a <= n - j + 2
    <2> SUFFICES ASSUME NEW j \in 1..(n + 1), Run(j, n)
                 PROVE  /\ c > CLEAR => Maker(j, c) \in j..n
                        /\ Means_(j, c, a, e)
                        /\ e - a <= n - j + 2
      OBVIOUS
    <2>1. Pending(j)
      BY <1>1
    <2> QED BY <2>1, <1>3 DEF Pending
  <1>6. sent' = Append(sent, <<c, BITS0>>) /\ ends' = Append(ends, e)
    BY <1>3
  <1>7. e <= Len(kept) /\ (c = CLEAR => e = a) /\ (Starts(n + 1) => c \in Byte)
    BY <1>1, <1>3
  <1>8. Cuts(n, c, a, e)
    BY <1>3, <1>4, <1>5, <1>6, <1>7, Zenon DEF Cuts
  <1>9. /\ Cut' /\ EndsOn(n) /\ ends'[n + 1] = e /\ Len(ends') = n + 1
        /\ Before(n + 1)' = a /\ Before(n + 2)' = e
    BY <1>2, <1>8, CutMore, Zenon
  <1> QED BY <1>3, <1>9

LEMMA EncodedAdd == Typed /\ EncodeInv /\ EncodedInv /\ AddEntry => EncodedInv'
  <1> SUFFICES ASSUME Typed, EncodeInv, EncodedInv, AddEntry PROVE EncodedInv'
    OBVIOUS
  <1>1. PICK ch \in Byte :
          /\ Ready(ch) /\ ~(Full /\ ed.bits = mymaxbits)
          /\ LET d == IF Full THEN [ed EXCEPT !.bits = @ + 1] ELSE ed
             IN  ed' = Added(d, w, ch) /\ outsym(w, d.bits)
          /\ w' = ch /\ cpc' = cpc /\ kept' = Append(kept, ch) /\ stale' = stale
    BY DEF AddEntry, Byte, New
  <1>2. cpc = "read" /\ text # << >> /\ ed.bits = BITS0 /\ ~Full /\ kept # << >> /\ kept \in Seq(Byte)
    BY <1>1 DEF Ready, Typed, EncoderTyped, mymaxbits, EncodedInv
  <1>3. ed' = Added(ed, w, ch) /\ outsym(w, BITS0)
    BY <1>1, <1>2
  <1>4. Grows /\ Len(kept') = Len(kept) + 1 /\ kept'[Len(kept) + 1] = ch
    BY <1>1, <1>2, GrowsBy
  <1>5. kept' \in Seq(Byte) /\ kept' # << >>
    BY <1>1, <1>2, <1>4 DEF Grows
  <1> SUFFICES ASSUME Sound' PROVE Cut' /\ \A j \in 1..(Len(sent') + 1) : Writing(j)' => Holds(ed, j)' /\ Pending(j)'
    BY <1>1, <1>2, <1>5 DEF EncodedInv
  <1>6. Sound
    BY <1>1, <1>2 DEF Sound
  <1>7. PICK n \in Nat : n = Len(sent)
    BY SentType
  <1>8. w \in Nat /\ w # CLEAR /\ w % Shl(BITS0) = w /\ CLEAR \in Nat
    BY <1>2, <1>6, <1>7, CodeW
  <1>9. sent' = Append(sent, <<w, BITS0>>) /\ ends' = Append(ends, Len(kept))
    BY <1>3, <1>8 DEF outsym
  <1>10. /\ Cut' /\ EndsOn(n) /\ ends'[n + 1] = Len(kept)
         /\ Before(n + 1)' = Before(n + 1) /\ Before(n + 2)' = Len(kept)
    BY <1>2, <1>4, <1>6, <1>7, <1>9, CutW
  <1>11. /\ Len(sent') = n + 1 /\ Code(n + 1)' = w
         /\ \A k \in 1..n : Code(k)' = Code(k)
         /\ \A j \in 1..(n + 1), k \in 0..n : Run(j, k)' <=> Run(j, k)
    BY <1>7, <1>8, <1>9, Appended DEF EncodeInv, Packed
  <1>12. ASSUME NEW j \in 1..(n + 2), Writing(j)' PROVE Holds(ed, j)' /\ Pending(j)'
    <2>1. Starts(j)' /\ (\A i \in j..(n + 1) : Code(i)' # CLEAR) /\ ed'.nexti = CLEAR + 2 + (n + 1) - j
      BY <1>11, <1>12 DEF Writing, Run
    <2>2. j \in 1..(n + 1)
      <3> SUFFICES ASSUME j = n + 2 PROVE FALSE
        OBVIOUS
      <3>1. j # 1 /\ j - 1 = n + 1
        OBVIOUS
      <3> QED BY <2>1, <3>1, <1>8, <1>11 DEF Starts
    <2>3. Run(j, n)'
      BY <2>1 DEF Run
    <2>4. Run(j, n)
      BY <1>11, <2>2, <2>3
    <2>5. Writing(j)
      BY <1>2, <1>6, <1>7, <2>2, <2>4, CodeW
    <2>6. Stands(j, n)
      BY <1>2, <1>6, <1>7, <2>2, <2>5, Standing
    <2>7. Makes(j, n) /\ Holds(ed, j) /\ Len(kept) \in Nat /\ ed.nexti = CLEAR + 2 + n - j
      BY <2>5, <2>6, <1>7 DEF Stands, Writing
    <2>8. Live(ed) = (CLEAR + 1)..Top(j, n)
      BY <2>6 DEF Stands, Live, Entries
    <2>9. ASSUME NEW x \in (CLEAR + 1)..(ed'.nexti - 1)
          PROVE  ed'.entry[x] = <<Code(Maker(j, x))', kept'[ends'[Maker(j, x)] + 1]>>
      <3>1. PICK q : q = Maker(j, x)
        OBVIOUS
      <3>2. CASE x = ed.nexti
        <4>1. q = n + 1
          BY <2>7, <3>1, <3>2, <1>8 DEF Maker
        <4>2. ed'.entry[x] = <<w, ch>>
          BY <1>3, <3>2 DEF Added, With
        <4> QED BY <3>1, <4>1, <4>2, <1>4, <1>10, <1>11
      <3>3. CASE x # ed.nexti
        <4>1. x \in (CLEAR + 1)..Top(j, n) /\ x \in Live(ed)
          BY <2>1, <2>7, <2>8, <3>3, <1>8 DEF Top
        <4>2. q \in j..n /\ q \in 1..n
          BY <3>1, <4>1, MakerType
        <4>3. ed.entry[x] = <<Code(q), kept[ends[q] + 1]>>
          BY <2>7, <3>1, <4>1 DEF Holds
        <4>4. ed'.entry[x] = ed.entry[x]
          <5>1. x \in DOMAIN ed.entry
            BY <4>1 DEF Typed, EncoderTyped, Named, IsDict
          <5> QED BY <1>3, <3>3, <5>1 DEF Added, With
        <4>5. ends[q] < Len(kept) /\ ends[q] \in Nat /\ ends'[q] = ends[q]
          BY <1>2, <1>6, <1>7, <1>10, <2>7, <4>2, CutFacts DEF Makes, EncodedInv, EndsOn
        <4>6. ends[q] + 1 \in 1..Len(kept)
          BY <4>5, <2>7
        <4>7. kept'[ends[q] + 1] = kept[ends[q] + 1]
          BY <4>6, <1>4 DEF Grows
        <4> QED BY <3>1, <4>2, <4>3, <4>4, <4>5, <4>7, <1>11
      <3> QED BY <3>2, <3>3
    <2>10. Holds(ed, j)'
      BY <2>9 DEF Holds, Live, Maker
    <2>11. Pending(j)'
      <3>1. PICK a \in Nat : a = Len(kept)
        BY <2>7
      <3>2. ~(ch > CLEAR)
        BY <1>8 DEF Byte, CLEAR
      <3>3. Means_(j, ch, a, a + 1)'
        BY <3>1, <3>2, <1>4 DEF Means_
      <3>4. Len(kept') = a + 1 /\ Before((n + 1) + 1)' = a /\ Len(sent') = n + 1 /\ w' = ch
        <4>1. (n + 1) + 1 = n + 2
          OBVIOUS
        <4> QED BY <4>1, <3>1, <1>1, <1>4, <1>10, <1>11
      <3>5. a < a + 1 /\ (a + 1) - a <= (n + 1) - j + 2
        BY <2>2
      <3> QED BY <3>2, <3>3, <3>4, <3>5 DEF Pending
    <2> QED BY <2>10, <2>11
  <1>13. Len(sent') + 1 = n + 2
    BY <1>11
  <1> QED BY <1>10, <1>12, <1>13

LEMMA EncodedClear == Typed /\ EncodeInv /\ EncodedInv /\ ClearDict => EncodedInv'
  <1> SUFFICES ASSUME Typed, EncodeInv, EncodedInv, ClearDict PROVE EncodedInv'
    OBVIOUS
  <1>1. /\ cpc = "read" /\ text # << >> /\ Full /\ outsym(CLEAR, ed.bits) /\ ed' = cleardict(ed)
        /\ cpc' = cpc /\ w' = w /\ kept' = kept /\ stale' = (stale \/ w >= CLEAR)
    BY DEF ClearDict, New, Ready
  <1>2. ed.bits = BITS0 /\ kept # << >> /\ kept \in Seq(Byte)
    BY <1>1 DEF Typed, EncoderTyped, EncodedInv
  <1> SUFFICES ASSUME Sound' PROVE Cut' /\ \A j \in 1..(Len(sent') + 1) : Writing(j)' => Holds(ed, j)' /\ Pending(j)'
    BY <1>1, <1>2 DEF EncodedInv
  <1>3. Sound /\ ~(w >= CLEAR)
    BY <1>1, <1>2 DEF Sound
  <1>4. PICK n \in Nat : n = Len(sent)
    BY SentType
  <1>5. CLEAR \in Nat /\ CLEAR % Shl(BITS0) = CLEAR /\ CLEAR + 1 < Shl(BITS0) /\ Shl(BITS0) \in Nat
    <2> DEFINE m == Shl(BITS0)
    <2>1. CLEAR \in Nat /\ CLEAR + 1 < m /\ m \in Nat
      <3>1. BITS0 \in BITS0..DMAX
        BY Sizes, UncompressAssumption
      <3> QED BY <3>1, Sizes
    <2> HIDE DEF m
    <2>2. CLEAR % m = CLEAR
      BY <2>1
    <2> QED BY <2>1, <2>2 DEF m
  <1>6. w \in Byte
    BY <1>1, <1>2, <1>3, <1>5 DEF EncodeInv, Byte, CLEAR
  <1>7. PICK j \in 1..(n + 1) : Run(j, n) /\ ed.nexti = CLEAR + 2 + n - j
    BY <1>1, <1>4 DEF EncodeInv, Writing
  <1>8. Pending(j)
    BY <1>1, <1>3, <1>4, <1>7, CodeW
  <1>9. ~Starts(n + 1)
    <2> SUFFICES ASSUME Starts(n + 1) PROVE FALSE
      OBVIOUS
    <2>1. Run(n + 1, n)
      BY DEF Run
    <2>2. j = n + 1
      BY <2>1, <1>7, RunStart
    <2>3. ed.nexti = Shl(BITS0)
      BY <1>1, <1>2 DEF Full
    <2> QED BY <2>2, <2>3, <1>5, <1>7
  <1>10. Cut
    BY <1>3 DEF EncodedInv
  <1>11. PICK a \in Nat : a = Before(n + 1)
    BY <1>2, <1>4, <1>10, CutFacts
  <1>12. sent' = Append(sent, <<CLEAR, BITS0>>) /\ ends' = Append(ends, a)
    <2>1. outsym(CLEAR, BITS0)
      BY <1>1, <1>2
    <2> QED BY <2>1, <1>4, <1>5, <1>11 DEF outsym
  <1>13. PICK c \in Nat : c = CLEAR
    BY <1>5
  <1>14. Cuts(n, c, a, a)
    <2>1. a <= a /\ a <= Len(kept)
      BY <1>2, <1>4, <1>10, <1>11, CutFacts
    <2> QED BY <2>1, <1>4, <1>9, <1>11, <1>12, <1>13, Zenon DEF Cuts
  <1>15. Grows
    BY <1>1, <1>2, GrowsNot
  <1>16. Cut' /\ Before(n + 2)' = a
    BY <1>2, <1>10, <1>14, <1>15, CutMore, Zenon
  <1>17. /\ Len(sent') = n + 1 /\ Code(n + 1)' = CLEAR
    BY <1>4, <1>5, <1>12, Appended DEF EncodeInv, Packed
  <1>18. ASSUME NEW i \in 1..(n + 2), Writing(i)' PROVE Holds(ed, i)' /\ Pending(i)'
    <2>1. \A x \in i..(n + 1) : Code(x)' # CLEAR
      BY <1>17, <1>18 DEF Writing, Run
    <2>2. i = n + 2
      <3> SUFFICES ASSUME i # n + 2 PROVE FALSE
        OBVIOUS
      <3>1. n + 1 \in i..(n + 1)
        OBVIOUS
      <3> QED BY <3>1, <2>1, <1>17
    <2>3. Holds(ed, i)'
      <3>1. ed'.nexti = CLEAR + 1
        BY <1>1 DEF cleardict
      <3>2. Live(ed)' = {}
        BY <3>1, <1>5 DEF Live
      <3> HIDE DEF Live
      <3> QED BY <3>2 DEF Holds
    <2>4. w \in Byte /\ w' = w /\ ~(w > CLEAR)
      BY <1>1, <1>3, <1>5, <1>6 DEF Byte
    <2>5. PICK e \in Nat : e = Len(kept)
      BY <1>2
    <2>6. e = a + 1 /\ kept[e] = w
      BY <1>4, <1>8, <1>11, <2>4, <2>5 DEF Pending, Means_
    <2>7. PICK v : v = w
      OBVIOUS
    <2>8. Means_(i, v, a, e)'
      BY <1>1, <2>4, <2>6, <2>7 DEF Means_
    <2>9. Len(kept') = e /\ Before((n + 1) + 1)' = a /\ Len(sent') = n + 1 /\ w' = v
      <3>1. (n + 1) + 1 = n + 2
        OBVIOUS
      <3> QED BY <3>1, <1>1, <1>16, <1>17, <2>5, <2>7
    <2>10. a < e /\ e - a <= (n + 1) - i + 2
      BY <2>2, <2>6
    <2> QED BY <2>3, <2>4, <2>7, <2>8, <2>9, <2>10 DEF Pending
  <1>19. Len(sent') + 1 = n + 2
    BY <1>17
  <1> QED BY <1>16, <1>18, <1>19

LEMMA EncodedEnd == Typed /\ EncodeInv /\ EncodedInv /\ CEnd => EncodedInv'
  <1> SUFFICES ASSUME Typed, EncodeInv, EncodedInv, CEnd PROVE EncodedInv'
    OBVIOUS
  <1>1. /\ cpc = "read" /\ cpc' = "done" /\ ed.bits = BITS0 /\ w \in Nat
        /\ sent' = Append(sent, <<w % Shl(BITS0), BITS0>>) /\ ends' = Append(ends, Len(kept))
        /\ kept' = kept /\ stale' = stale /\ kept \in Seq(Byte)
    BY DEF CEnd, Typed, EncoderTyped, EncodedInv
  <1> SUFFICES ASSUME Sound'
               PROVE  Cut' /\ Len(sent') > 0 /\ Code(Len(sent))' # CLEAR /\ ends'[Len(sent')] = Len(kept')
    BY <1>1 DEF EncodedInv
  <1>2. Sound /\ Grows
    BY <1>1, GrowsNot DEF Sound
  <1>3. PICK n \in Nat : n = Len(sent)
    BY SentType
  <1>4. w # CLEAR /\ w % Shl(BITS0) = w
    BY <1>1, <1>2, <1>3, CodeW
  <1>5. sent' = Append(sent, <<w, BITS0>>)
    BY <1>1, <1>4
  <1>6. Cut' /\ ends'[n + 1] = Len(kept)
    BY <1>1, <1>2, <1>3, <1>5, CutW
  <1>7. Len(sent') = n + 1 /\ Code(n + 1)' = w
    BY <1>1, <1>3, <1>5, Appended DEF EncodeInv, Packed
  <1>10. Code(Len(sent))' = w
    BY <1>7
  <1>8. n + 1 > 0
    OBVIOUS
  <1>9. Len(sent') > 0
    BY <1>7, <1>8
  <1> QED BY <1>1, <1>4, <1>6, <1>7, <1>9, <1>10, Zenon

LEMMA EncodedStart == Typed /\ EncodeInv /\ EncodedInv /\ CStart => EncodedInv'
  <1> SUFFICES ASSUME Typed, EncodeInv, EncodedInv, CStart PROVE EncodedInv'
    OBVIOUS
  <1>1. /\ cpc = "start" /\ cpc' = "read" /\ sent = << >> /\ sent' = sent /\ ends = << >> /\ ends' = ends
        /\ kept = << >> /\ ed' = cleardict(ed)
    BY DEF CStart, EncodeInv, EncodedInv
  <1>2. CASE text = << >>
    <2>1. kept' = << >> /\ text' = << >>
      BY <1>1, <1>2 DEF CStart
    <2>2. kept' \in Seq(Byte)
      BY <2>1
    <2> QED BY <1>1, <2>1, <2>2 DEF EncodedInv, Sound
  <1>3. CASE text # << >>
    <2>1. PICK ch \in Byte : ch = Head(text)
      <3>1. text \in Seq(Byte)
        BY DEF Typed, EncoderTyped
      <3> QED BY <1>3, <3>1, HeadTailProperties
    <2>2. w' = ch /\ kept' = <<ch>>
      BY <1>3, <2>1 DEF CStart
    <2>3. kept' \in Seq(Byte) /\ Len(kept') = 1 /\ kept'[1] = ch /\ kept' # << >>
      BY <2>2
    <2>4. Len(sent') = 0 /\ CLEAR \in Nat /\ CLEAR = ALPHA
      BY <1>1, Sizes DEF CLEAR
    <2>5. Cut'
      <3>1. ends' \in Seq(Nat) /\ Len(ends') = 0
        BY <1>1
      <3>2. \A k \in 1..0 : FALSE
        OBVIOUS
      <3> QED BY <2>4, <3>1, <3>2 DEF Cut
    <2>6. ASSUME NEW j \in 1..1 PROVE Holds(ed, j)' /\ Pending(j)'
      <3>1. Live(ed)' = {}
        BY <1>1, <2>4 DEF Live, cleardict
      <3>2. Holds(ed, j)'
        <4> HIDE DEF Live
        <4> QED BY <3>1 DEF Holds
      <3>3. Before(0 + 1)' = 0
        BY DEF Before
      <3>4. ~(ch > CLEAR) /\ 1 - 0 <= 0 - j + 2 /\ 0 < 1
        BY <2>4 DEF Byte
      <3>5. Means_(j, ch, 0, 1)'
        BY <2>3, <3>4 DEF Means_
      <3>6. Pending(j)'
        BY <2>2, <2>3, <2>4, <3>3, <3>4, <3>5 DEF Pending
      <3> QED BY <3>2, <3>6
    <2>7. \A j \in 1..(Len(sent') + 1) : Writing(j)' => Holds(ed, j)' /\ Pending(j)'
      BY <2>4, <2>6
    <2> QED BY <1>1, <2>3, <2>5, <2>7 DEF EncodedInv
  <1> QED BY <1>2, <1>3

LEMMA EncodedNext == Typed /\ EncodeInv /\ EncodedInv /\ [Next]_vars => EncodedInv'
  <1>1. ASSUME Typed, EncodeInv, EncodedInv, compress PROVE EncodedInv'
    <2>1. CASE RunAway
      <3>1. ~Sound
        BY <1>1, <2>1, NoRunAway
      <3>2. Sound' = Sound /\ cpc' = "runaway" /\ kept' = kept
        BY <2>1 DEF RunAway, Sound
      <3> QED BY <1>1, <3>1, <3>2 DEF EncodedInv
    <2> QED BY <1>1, <2>1, EncodedStart, EncodedLonger, EncodedAdd, EncodedClear, EncodedEnd DEF compress
  <1>2. Compressed \/ main \/ decompress => UNCHANGED cvars
    BY DEF Compressed, main, Option, pipeit, OpenIn, Answer, OpenOut, CallFails, Exit, Abort,
           decompress, Header, FirstSym, NextSym, Cleared, BadStream, EndOfFile, Flush, WriteFails
  <1>3. UNCHANGED vars => UNCHANGED cvars
    BY DEF vars
  <1> QED BY <1>1, <1>2, <1>3, SameEncoded DEF Next

-----------------------------------------------------------------------------
(* The strings fit. *)

LEMMA FitsRead ==
    ASSUME Typed, EncodeInv, EncodedInv, FitsInv
    PROVE  Fits
  <1>1. CASE cpc # "read"
    BY <1>1 DEF FitsInv
  <1>2. CASE cpc = "read" /\ kept = << >>
    <2>1. Entries = {}
      BY <1>2, Sizes DEF FitsInv, Entries
    <2> HIDE DEF Entries
    <2> QED BY <2>1 DEF Fits
  <1>3. CASE cpc = "read" /\ kept # << >>
    <2> SUFFICES ASSUME ~stale, NEW h \in Entries PROVE Len(buildstr(ed, h).str) <= Shl(BITS0) - ALPHA
      BY DEF Fits
    <2>1. Sound
      BY <1>3 DEF Sound
    <2>2. PICK n \in Nat : n = Len(sent) /\ \E j \in 1..(n + 1) :
              kept \in Seq(Byte) /\ Cut /\ Stands(j, n)
      BY <1>3, <2>1, SomeRun
    <2>3. PICK j \in 1..(n + 1) : Stands(j, n)
      BY <2>2
    <2>4. Makes(j, n) /\ h \in (CLEAR + 1)..Top(j, n) /\ buildstr(ed, h).str = StringOf(j, n)[h]
      BY <2>3 DEF Stands, Knows
    <2>5. PICK q : q = Maker(j, h)
      OBVIOUS
    <2>6. /\ q \in j..n /\ q \in 1..Len(sent) /\ Run(j, q)
          /\ Before(q) \in Nat /\ ends[q] \in Nat
          /\ IsPiece(StringOf(j, n)[h], Before(q), ends[q] + 1)
      BY <2>2, <2>4, <2>5, StringType, Zenon
    <2>7. Len(buildstr(ed, h).str) = (ends[q] + 1) - Before(q)
      BY <2>4, <2>6, Zenon DEF IsPiece
    <2>8. ends[q] - Before(q) <= q - j + 1
      <3>1. j \in 1..q
        BY <2>6
      <3> QED BY <2>2, <2>6, <3>1 DEF Cut, CutAt
    <2>9. ed.nexti = CLEAR + 2 + n - j /\ ed.nexti <= Shl(BITS0) /\ Shl(BITS0) \in Nat /\ CLEAR \in Nat /\ CLEAR = ALPHA
      <3>1. ed.nexti \in (CLEAR + 1)..Shl(BITS0)
        BY DEF Typed, EncoderTyped, Named
      <3>2. Shl(BITS0) \in Nat /\ CLEAR \in Nat /\ CLEAR = ALPHA
        BY Sizes, ShlStep, Widths DEF CLEAR
      <3> QED BY <2>2, <2>3, <3>1, <3>2 DEF Stands, Writing
    <2> QED BY <2>6, <2>7, <2>8, <2>9
  <1> QED BY <1>1, <1>2, <1>3

LEMMA FitsNext == Typed /\ EncodeInv /\ EncodedInv /\ FitsInv /\ [Next]_vars => FitsInv'
  <1> SUFFICES ASSUME Typed, EncodeInv, EncodedInv, FitsInv, [Next]_vars PROVE FitsInv'
    OBVIOUS
  <1>1. Fits
    BY FitsRead
  <1>2. ASSUME ed' = ed, stale' = stale, kept' = kept PROVE FitsInv'
    BY <1>1, <1>2 DEF FitsInv, Fits, Entries
  <1>3. ASSUME ed' = cleardict(ed), cpc' = "read" PROVE FitsInv'
    BY <1>3 DEF FitsInv, cleardict
  <1>4. CASE Longer \/ AddEntry
    <2>1. PICK ch \in Byte : Ready(ch) /\ kept' = Append(kept, ch) /\ cpc' = cpc
      BY <1>4 DEF Longer, AddEntry, New, Byte
    <2>2. kept \in Seq(Byte)
      BY DEF EncodedInv
    <2>3. Len(kept') = Len(kept) + 1 /\ Len(kept) \in Nat
      BY <2>1, <2>2, GrowsBy
    <2>4. kept' # << >>
      BY <2>3
    <2> QED BY <2>1, <2>4 DEF FitsInv, Ready
  <1>5. CASE CStart \/ ClearDict
    BY <1>3, <1>5 DEF CStart, ClearDict, New, Ready
  <1>6. CASE RunAway \/ CEnd
    BY <1>2, <1>6 DEF RunAway, CEnd
  <1>7. Compressed \/ main \/ decompress => UNCHANGED cvars
    BY DEF Compressed, main, Option, pipeit, OpenIn, Answer, OpenOut, CallFails, Exit, Abort,
           decompress, Header, FirstSym, NextSym, Cleared, BadStream, EndOfFile, Flush, WriteFails
  <1>8. UNCHANGED cvars => FitsInv'
    BY <1>2 DEF cvars
  <1> QED BY <1>4, <1>5, <1>6, <1>7, <1>8 DEF Next, compress, vars

LEMMA FitsInit == Init => FitsInv
  <1>1. CLEAR \in Nat
    BY Sizes
  <1>2. (CLEAR + 1)..(CLEAR + 1 - 1) = {}
    BY <1>1
  <1>3. Init => ed.nexti = CLEAR + 1
    BY DEF Init, CInit, NoDict
  <1>4. Init => Entries = {}
    <2> SUFFICES ASSUME Init PROVE Entries = {}
      OBVIOUS
    <2>1. ed.nexti = CLEAR + 1
      BY <1>3
    <2>2. ASSUME NEW h \in Entries PROVE FALSE
      <3>1. h \in Int /\ CLEAR + 1 <= h /\ h <= ed.nexti - 1
        BY <2>1, <1>1 DEF Entries
      <3> QED BY <2>1, <3>1, <1>1
    <2> QED BY <2>2
  <1> HIDE DEF Entries
  <1> QED BY <1>3, <1>4 DEF FitsInv, Fits

(* The string of every entry fits the buffers st and st1 of the encoder    *)
(* (compress.c:200-217).                                                   *)
THEOREM StringsFit == Spec => []Fits
  <1> DEFINE Inv == Typed /\ EncodeInv /\ EncodedInv /\ FitsInv
  <1>1. Init => Inv
    BY TypedInit, EncodeInit, EncodedInit, FitsInit
  <1>2. Inv /\ [Next]_vars => Inv'
    BY TypedNext, EncodeNext, EncodedNext, FitsNext
  <1>3. Inv => Fits
    BY FitsRead
  <1> QED BY <1>1, <1>2, <1>3, PTL DEF Spec

-----------------------------------------------------------------------------
(* The files. *)

(* z is s and behind it t, m and l their lengths. *)
Joins(z, S, s, t, m, l) ==
    /\ z \in Seq(S) /\ Len(z) = m + l /\ m \in Nat /\ l \in Nat
    /\ \A i \in 1..m : z[i] = s[i]
    /\ \A i \in 1..l : z[m + i] = t[i]

LEMMA Joined ==
    ASSUME NEW S, NEW s \in Seq(S), NEW t \in Seq(S), NEW m, m = Len(s), NEW l, l = Len(t)
    PROVE  Joins(s \o t, S, s, t, m, l)
  <1> DEFINE z == s \o t
  <1>1. m \in Nat /\ l \in Nat
    OBVIOUS
  <1>2. /\ z \in Seq(S)
        /\ Len(z) = Len(s) + Len(t)
        /\ \A i \in 1..(Len(s) + Len(t)) : z[i] = IF i <= Len(s) THEN s[i] ELSE t[i - Len(s)]
    BY ConcatProperties, Zenon
  <1> HIDE DEF z
  <1>3. \A i \in 1..m : z[i] = s[i]
    BY <1>1, <1>2
  <1>4. \A i \in 1..l : z[m + i] = t[i]
    <2> SUFFICES ASSUME NEW i \in 1..l PROVE z[m + i] = t[i]
      OBVIOUS
    <2>1. m + i \in 1..(m + l) /\ ~(m + i <= m) /\ (m + i) - m = i
      BY <1>1
    <2>2. z[m + i] = IF m + i <= m THEN s[m + i] ELSE t[(m + i) - m]
      BY <1>2, <2>1
    <2> QED BY <2>1, <2>2
  <1>5. Joins(z, S, s, t, m, l)
    BY <1>1, <1>2, <1>3, <1>4 DEF Joins
  <1> QED BY <1>5 DEF z

LEMMA OverType ==
    ASSUME NEW S, NEW f \in Seq(S), NEW s \in Seq(S), NEW p \in 0..Len(f), NEW a \in 0..p
    PROVE  /\ Over(f, p, s) \in Seq(S) /\ p + Len(s) \in 0..Len(Over(f, p, s))
           /\ SubSeq(Over(f, p, s), a + 1, p + Len(s)) = SubSeq(f, a + 1, p) \o s
  <1> DEFINE l == Len(s)
             x == SubSeq(f, 1, p)
             z == SubSeq(f, p + l + 1, Len(f))
             y == x \o s
             o == y \o z
             e == p + l
             u == SubSeq(o, a + 1, e)
             t == SubSeq(f, a + 1, p)
             v == t \o s
  <1>1. Over(f, p, s) = o
    BY DEF Over
  <1>2. l \in Nat /\ Len(f) \in Nat /\ e \in Nat /\ p \in Nat /\ a \in Nat
    OBVIOUS
  <1>3. x \in Seq(S) /\ Len(x) = p /\ \A i \in 1..p : x[i] = f[i]
    OBVIOUS
  <1>4. z \in Seq(S)
    BY <1>2
  <1>5. t \in Seq(S) /\ Len(t) = p - a /\ \A i \in 1..(p - a) : t[i] = f[a + i]
    BY <1>2
  <1> HIDE DEF x, z, t
  <1>6. y \in Seq(S) /\ Len(y) = e /\ (\A i \in 1..p : y[i] = x[i]) /\ \A i \in 1..l : y[p + i] = s[i]
    <2>1. p = Len(x) /\ l = Len(s)
      BY <1>3
    <2> HIDE DEF l
    <2>2. Joins(x \o s, S, x, s, p, l)
      BY <1>3, <2>1, Joined
    <2> QED BY <2>2, Zenon DEF y, e, Joins
  <1>7. v \in Seq(S) /\ Len(v) = (p - a) + l /\ (\A i \in 1..(p - a) : v[i] = t[i])
        /\ \A i \in 1..l : v[(p - a) + i] = s[i]
    <2>1. PICK b : b = p - a
      OBVIOUS
    <2>2. b = Len(t) /\ l = Len(s)
      BY <1>5, <2>1
    <2> HIDE DEF l
    <2>3. Joins(t \o s, S, t, s, b, l)
      BY <1>5, <2>2, Joined
    <2> QED BY <2>1, <2>3, Zenon DEF v, Joins
  <1> HIDE DEF y, v, l, e
  <1>8. o \in Seq(S) /\ Len(o) = e + Len(z) /\ Len(z) \in Nat /\ \A i \in 1..e : o[i] = y[i]
    <2>1. PICK m : m = Len(z)
      OBVIOUS
    <2>2. Joins(y \o z, S, y, z, e, m)
      BY <1>4, <1>6, <2>1, Joined
    <2> QED BY <2>1, <2>2, Zenon DEF o, Joins
  <1> HIDE DEF o
  <1>9. u \in Seq(S) /\ Len(u) = e - a /\ \A i \in 1..(e - a) : u[i] = o[a + i]
    <2>1. a <= e /\ e <= Len(o)
      BY <1>2, <1>8 DEF e
    <2> QED BY <1>2, <1>8, <2>1
  <1> HIDE DEF u
  <1>10. Len(u) = Len(v)
    BY <1>2, <1>7, <1>9 DEF e
  <1>11. \A i \in 1..Len(u) : u[i] = v[i]
    <2> SUFFICES ASSUME NEW i \in 1..(e - a) PROVE u[i] = v[i]
      BY <1>9
    <2>1. u[i] = y[a + i]
      <3>1. a + i \in 1..e
        BY <1>2
      <3> QED BY <3>1, <1>8, <1>9
    <2>2. CASE i \in 1..(p - a)
      <3>1. a + i \in 1..p
        BY <2>2, <1>2
      <3> QED BY <2>1, <2>2, <3>1, <1>3, <1>5, <1>6, <1>7
    <2>3. CASE i \notin 1..(p - a)
      <3>1. PICK k \in 1..l : i = (p - a) + k
        <4>1. i - (p - a) \in 1..l /\ i = (p - a) + (i - (p - a))
          BY <2>3, <1>2 DEF e
        <4> QED BY <4>1
      <3>2. a + i = p + k
        BY <3>1, <1>2
      <3>3. y[p + k] = s[k] /\ v[(p - a) + k] = s[k]
        BY <3>1, <1>6, <1>7
      <3> QED BY <2>1, <3>1, <3>2, <3>3
    <2> QED BY <2>2, <2>3
  <1>12. u = v
    BY <1>7, <1>9, <1>10, <1>11, SeqEqual
  <1>13. p + l \in 0..Len(o)
    BY <1>2, <1>8 DEF e
  <1> QED BY <1>1, <1>8, <1>12, <1>13 DEF u, v, t, l, e

(* A write puts its bytes behind those of this run. *)
Wrote(s) ==
    /\ \A n \in DOMAIN files' : files'[n] \in Seq(Byte)
    /\ DOMAIN files' = DOMAIN files
    /\ pos' = pos + Len(s) /\ pos' \in 0..Len(files'[output]) /\ start \in 0..pos'
    /\ SubSeq(files'[output], start + 1, pos') = SubSeq(files[output], start + 1, pos) \o s

LEMMA Writes ==
    ASSUME \A n \in DOMAIN files : files[n] \in Seq(Byte), Opened, NEW s \in Seq(Byte), Write(s)
    PROVE  Wrote(s)
  <1>1. PICK f, p, a, l, o : f = files[output] /\ p = pos /\ a = start /\ l = Len(s) /\ o = Over(f, p, s)
    OBVIOUS
  <1>2. f \in Seq(Byte) /\ p \in 0..Len(f) /\ a \in 0..p /\ output \in DOMAIN files
    BY <1>1 DEF Opened
  <1>3. /\ o \in Seq(Byte) /\ p + l \in 0..Len(o)
        /\ SubSeq(o, a + 1, p + l) = SubSeq(f, a + 1, p) \o s
    <2> DEFINE S == Byte
    <2>1. f \in Seq(S) /\ s \in Seq(S)
      BY <1>2
    <2> HIDE DEF S
    <2>2. /\ Over(f, p, s) \in Seq(S) /\ p + Len(s) \in 0..Len(Over(f, p, s))
          /\ SubSeq(Over(f, p, s), a + 1, p + Len(s)) = SubSeq(f, a + 1, p) \o s
      BY <1>2, <2>1, OverType
    <2> QED BY <2>2, <1>1, Zenon DEF S
  <1>4. files' = [files EXCEPT ![output] = o] /\ pos' = p + l
    BY <1>1 DEF Write
  <1>5. DOMAIN files' = DOMAIN files /\ files'[output] = o /\ \A n \in DOMAIN files : n # output => files'[n] = files[n]
    BY <1>2, <1>4
  <1>6. \A n \in DOMAIN files' : files'[n] \in Seq(Byte)
    <2> SUFFICES ASSUME NEW n \in DOMAIN files PROVE files'[n] \in Seq(Byte)
      BY <1>5
    <2>1. CASE n = output
      BY <2>1, <1>3, <1>5
    <2>2. CASE n # output
      BY <2>2, <1>5
    <2> QED BY <2>1, <2>2
  <1>7. a \in 0..(p + l)
    <2>1. l \in Nat
      BY <1>1
    <2> QED BY <1>2, <2>1
  <1>8. pos' = pos + Len(s) /\ pos' \in 0..Len(files'[output]) /\ start \in 0..pos'
    BY <1>1, <1>3, <1>4, <1>5, <1>7
  <1>9. SubSeq(files'[output], start + 1, pos') = SubSeq(files[output], start + 1, pos) \o s
    BY <1>1, <1>3, <1>4, <1>5
  <1> QED BY <1>5, <1>6, <1>8, <1>9, Zenon DEF Wrote

LEMMA OutWritten ==
    ASSUME Typed, \A n \in DOMAIN files : files[n] \in Seq(Byte), Opened, NEW s \in Seq(Byte),
           outbytes(s), output' = output, start' = start
    PROVE  /\ \A n \in DOMAIN files' : files'[n] \in Seq(Byte)
           /\ DOMAIN files' = DOMAIN files /\ Opened' /\ Written' = Written \o s
  <1> DEFINE all == obuf \o s
             n   == (Len(all) \div BUFZ) * BUFZ
             S == Byte
             x == SubSeq(all, 1, n)
             y == SubSeq(all, n + 1, Len(all))
  <1>1. all \in Seq(S) /\ BUFZ \in Nat \ {0} /\ obuf \in Seq(S) /\ s \in Seq(S)
    BY UncompressAssumption DEF Typed, DecoderTyped
  <1>2. obuf' = y /\ Write(x)
    BY DEF outbytes
  <1> HIDE DEF all, S
  <1>3. n \in Nat /\ n <= Len(all)
    <2> DEFINE l == Len(all)
    <2>1. l \in Nat
      BY <1>1
    <2> HIDE DEF l
    <2>2. (l \div BUFZ) * BUFZ \in Nat /\ (l \div BUFZ) * BUFZ <= l
      BY <2>1, <1>1, DivMod
    <2> QED BY <2>2 DEF l
  <1> HIDE DEF n
  <1>4. x \in Seq(S) /\ y \in Seq(S)
    BY <1>1, <1>3
  <1>5. x \o y = all
    <2>1. 1 \in 1..(Len(all) + 1) /\ n \in (1 - 1)..Len(all) /\ Len(all) \in n..Len(all)
      BY <1>1, <1>3
    <2>2. SubSeq(all, 1, n) \o SubSeq(all, n + 1, Len(all)) = SubSeq(all, 1, Len(all))
      BY <1>1, <2>1, ConcatAdjacentSubSeq, Zenon
    <2>3. SubSeq(all, 1, Len(all)) = all
      BY <1>1, SubSeqFull, Zenon
    <2> QED BY <2>2, <2>3 DEF x, y
  <1> HIDE DEF x, y
  <1>6. Wrote(x)
    <2>1. x \in Seq(Byte)
      BY <1>4 DEF S
    <2> QED BY <1>2, <2>1, Writes
  <1>7. (\A i \in DOMAIN files' : files'[i] \in Seq(Byte)) /\ DOMAIN files' = DOMAIN files
    BY <1>6 DEF Wrote
  <1>8. Opened'
    BY <1>6 DEF Wrote, Opened
  <1>9. PICK t : t = SubSeq(files[output], start + 1, pos)
    OBVIOUS
  <1>10. t \in Seq(S)
    <2>1. PICK f, p, a : f = files[output] /\ p = pos /\ a = start
      OBVIOUS
    <2>2. f \in Seq(S) /\ p \in 0..Len(f) /\ a \in 0..p
      BY <2>1 DEF Opened, S
    <2>3. SubSeq(f, a + 1, p) \in Seq(S)
      BY <2>2
    <2> QED BY <1>9, <2>1, <2>3
  <1>11. Written = t \o obuf
    BY <1>9 DEF Written, Opened
  <1>12. Written' = (t \o x) \o y
    <2>1. output' \in DOMAIN files'
      BY <1>8 DEF Opened
    <2>2. SubSeq(files'[output], start + 1, pos') = t \o x
      BY <1>6, <1>9 DEF Wrote
    <2> QED BY <1>2, <2>1, <2>2 DEF Written
  <1>13. (t \o x) \o y = t \o (x \o y)
    BY <1>4, <1>10, ConcatAssociative
  <1>14. t \o all = (t \o obuf) \o s
    BY <1>1, <1>10, ConcatAssociative DEF all
  <1>15. Written' = Written \o s
    BY <1>5, <1>11, <1>12, <1>13, <1>14
  <1> QED BY <1>7, <1>8, <1>15

Busy == {"header", "first", "next", "flush"}
Ahead == {"wait", "args", "ask", "openout", "header"}

LEMMA FilesInit == Init => FilesTyped
  <1> SUFFICES ASSUME Init PROVE FilesTyped
    OBVIOUS
  <1>1. files \in OldFiles /\ obuf = << >> /\ upc = "wait"
    BY DEF Init
  <1>2. Stdout \in DOMAIN files /\ \A n \in DOMAIN files : files[n] \in Seq(Byte)
    BY <1>1, UncompressAssumption DEF Byte
  <1> QED BY <1>1, <1>2 DEF FilesTyped

(* No file and nothing about the output changes. *)
LEMMA FilesQuiet ==
    ASSUME FilesTyped, UNCHANGED <<files, output, start, pos, obuf>>,
           upc' \in Busy => upc \in Busy, upc' \in Ahead => upc \in Ahead,
           upc' = "header" => upc = "header"
    PROVE  FilesTyped'
  <1>1. Opened => Opened'
    BY DEF Opened
  <1>2. /\ \A n \in DOMAIN files' : files'[n] \in Seq(Byte)
        /\ Stdout \in DOMAIN files'
    BY DEF FilesTyped
  <1>3. (obuf \notin {<< >>} \/ upc \in Busy) => Opened
    BY DEF FilesTyped, Busy
  <1>4. (obuf' # << >> \/ upc' \in Busy) => Opened'
    BY <1>1, <1>3
  <1>5. upc' \in Ahead => obuf' = << >>
    BY DEF FilesTyped, Ahead
  <1>6. upc' = "header" => pos' = start'
    BY DEF FilesTyped
  <1> QED BY <1>2, <1>4, <1>5, <1>6 DEF FilesTyped, Busy, Ahead

(* The output is opened, and made if it is not there. *)
LEMMA MadeOpened ==
    ASSUME FilesTyped, NEW n, NEW f \in {files, Made(n)}
    PROVE  Stdout \in DOMAIN f /\ (\A m \in DOMAIN f : f[m] \in Seq(Byte)) /\ n \in DOMAIN Made(n)
           /\ \A m \in DOMAIN files : m \in DOMAIN f /\ f[m] = files[m]
  <1>1. << >> \in Seq(Byte)
    OBVIOUS
  <1>2. (\A m \in DOMAIN files : files[m] \in Seq(Byte)) /\ Stdout \in DOMAIN files
    BY DEF FilesTyped
  <1>3. CASE n \in DOMAIN files
    BY <1>2, <1>3 DEF Made
  <1>4. CASE n \notin DOMAIN files
    <2>1. PICK g : g = With(files, n, << >>)
      OBVIOUS
    <2>2. /\ DOMAIN g = DOMAIN files \cup {n} /\ g[n] = << >>
          /\ \A m \in DOMAIN files : g[m] = files[m]
      BY <2>1, <1>4 DEF With
    <2>3. Made(n) = g
      BY <2>1, <1>4 DEF Made
    <2> QED BY <1>1, <1>2, <2>2, <2>3
  <1> QED BY <1>3, <1>4

LEMMA FilesOpens ==
    ASSUME FilesTyped, upc \in Ahead, obuf' = obuf, upc' = "header", Opens(output'),
           output' \in DOMAIN files', Stdout \in DOMAIN files',
           \A m \in DOMAIN files' : files'[m] \in Seq(Byte),
           files'[Stdout] = files[Stdout]
    PROVE  FilesTyped'
  <1>1. obuf' = << >>
    BY DEF FilesTyped, Ahead
  <1>2. PICK m \in Nat : m = Len(files'[Stdout])
    OBVIOUS
  <1>3. PICK k \in Nat : k = Len(files'[output'])
    OBVIOUS
  <1>4. pos' = start' /\ start' \in {0, m} /\ (start' # 0 => output' = Stdout)
    BY <1>2 DEF Opens
  <1>5. start' \in 0..pos' /\ pos' \in 0..k
    BY <1>2, <1>3, <1>4
  <1>6. Opened'
    BY <1>3, <1>5 DEF Opened
  <1> QED BY <1>1, <1>4, <1>6 DEF FilesTyped

LEMMA FilesWrite ==
    ASSUME FilesTyped, Opened, NEW s \in Seq(Byte), Write(s), obuf' = << >>,
           UNCHANGED <<output, start>>, upc' \in {"exit0", "exit1", "args"}
    PROVE  FilesTyped'
  <1>1. Wrote(s)
    BY Writes DEF FilesTyped
  <1> QED BY <1>1 DEF Wrote, FilesTyped

(* What is printed goes behind what was written. *)
LEMMA FilesPrint ==
    ASSUME Typed, FilesTyped, upc \in {"first", "next"}, NEW d, IsDict(d), NEW s \in Nat,
           printsym(d, s), UNCHANGED <<output, start>>
    PROVE  /\ FilesTyped'
           /\ Means(d, s) => upc' = "next" /\ Written' = Written \o buildstr(d, s).str
           /\ ~Means(d, s) => upc' = "runaway"
  <1>1. CASE Means(d, s)
    <2>1. PICK a \in Acc : a = buildstr(d, s)
      BY BuildType
    <2>2. a.str \in Seq(Byte)
      BY DEF Acc
    <2>3. outbytes(a.str) /\ upc' = "next"
      BY <1>1, <2>1 DEF printsym, Go
    <2>4. Opened /\ Stdout \in DOMAIN files /\ \A n \in DOMAIN files : files[n] \in Seq(Byte)
      BY DEF FilesTyped
    <2>5. /\ \A n \in DOMAIN files' : files'[n] \in Seq(Byte)
          /\ DOMAIN files' = DOMAIN files /\ Opened' /\ Written' = Written \o a.str
      BY <2>2, <2>3, <2>4, OutWritten
    <2>6. FilesTyped'
      BY <2>3, <2>4, <2>5 DEF FilesTyped
    <2> QED BY <1>1, <2>1, <2>3, <2>5, <2>6
  <1>2. CASE ~Means(d, s)
    <2>1. upc' = "runaway" /\ UNCHANGED <<files, pos, obuf>>
      BY <1>2 DEF printsym, Go
    <2> QED BY <1>2, <2>1, FilesQuiet DEF Busy, Ahead
  <1> QED BY <1>1, <1>2

LEMMA FilesReads ==
    ASSUME Typed, FilesTyped, FirstSym \/ NextSym
    PROVE  FilesTyped'
  <1>1. upc \in {"first", "next"} /\ UNCHANGED <<output, start>> /\ Sym \in Nat
    BY SymType DEF FirstSym, NextSym
  <1>2. PICK s \in Nat : s = Sym
    BY <1>1
  <1>3. CASE FirstSym
    <2>1. IsDict(dd) /\ printsym(dd, s)
      BY <1>2, <1>3 DEF FirstSym, Typed, DecoderTyped, Named
    <2> QED BY <1>1, <2>1, FilesPrint
  <1>4. CASE NextSym
    <2>1. CASE Lead(Sym).well
      <3>1. Typed'
        BY <1>4, TypedNext DEF Next, decompress
      <3>2. PICK d : d = dd'
        OBVIOUS
      <3>3. IsDict(d) /\ printsym(d, s)
        BY <1>2, <1>4, <2>1, <3>1, <3>2 DEF NextSym, Typed, DecoderTyped, Named, IsDict, Live
      <3> QED BY <1>1, <3>3, FilesPrint
    <2>2. CASE ~Lead(Sym).well
      <3>1. upc' = "runaway" /\ UNCHANGED <<files, pos, obuf>>
        BY <1>4, <2>2 DEF NextSym, Go
      <3> QED BY <1>1, <3>1, FilesQuiet DEF Busy, Ahead
    <2> QED BY <2>1, <2>2
  <1> QED BY <1>3, <1>4

LEMMA FilesNext == Typed /\ FilesTyped /\ [Next]_vars => FilesTyped'
  <1> SUFFICES ASSUME Typed, FilesTyped, [Next]_vars PROVE FilesTyped'
    OBVIOUS
  <1>1. CASE UNCHANGED vars
    BY <1>1, FilesQuiet DEF vars, target, decoder
  <1>2. CASE UNCHANGED <<upc, args, files, target, decoder, rest>>
    BY <1>2, FilesQuiet DEF target, decoder
  <1>3. CASE Compressed \/ Option \/ OpenIn \/ Answer \/ Exit
    <2>1. upc' \in {"args", "exit1", "ask", "openout", "abort", "exit0", "overflow"} /\ upc \in Ahead
      BY <1>3 DEF Compressed, Option, OpenIn, Answer, Exit, Arg, Go, EndsIn, Ahead
    <2>2. UNCHANGED <<files, output, start, pos, obuf>>
      BY <1>3 DEF Compressed, Option, OpenIn, Answer, Exit, target, decoder
    <2> QED BY <2>1, <2>2, FilesQuiet DEF Busy
  <1>4. CASE pipeit
    <2>1. upc \in Ahead /\ upc' = "header" /\ UNCHANGED <<files, obuf>> /\ output' = Stdout /\ Opens(output')
      BY <1>4 DEF pipeit, Arg, Go, Ahead
    <2> QED BY <2>1, FilesOpens DEF FilesTyped
  <1>5. CASE OpenOut
    <2>1. /\ upc \in Ahead /\ upc' = "header" /\ obuf' = obuf /\ Opens(output')
          /\ output' = IF cflg THEN Stdout ELSE input
          /\ files' = IF cflg THEN files ELSE Made(input)
      BY <1>5 DEF OpenOut, Go, Ahead, decoder
    <2>2. PICK f \in {files, Made(input)} : f = files'
      BY <2>1
    <2>3. /\ Stdout \in DOMAIN f /\ \A m \in DOMAIN f : f[m] \in Seq(Byte)
          /\ input \in DOMAIN Made(input) /\ \A m \in DOMAIN files : m \in DOMAIN f /\ f[m] = files[m]
      BY MadeOpened
    <2>4. output' \in DOMAIN files' /\ files'[Stdout] = files[Stdout]
      BY <2>1, <2>2, <2>3 DEF FilesTyped
    <2> QED BY <2>1, <2>2, <2>3, <2>4, FilesOpens
  <1>6. CASE CallFails
    <2>1. /\ upc = "openout" /\ upc' \in {"abort", "overflow"} /\ obuf' = obuf
          /\ files' \in {files, Made(input)}
      BY <1>6 DEF CallFails, Go, EndsIn, decoder
    <2>2. PICK f \in {files, Made(input)} : f = files'
      BY <2>1
    <2>3. Stdout \in DOMAIN f /\ \A m \in DOMAIN f : f[m] \in Seq(Byte)
      BY MadeOpened
    <2>4. obuf' = << >>
      BY <2>1 DEF FilesTyped
    <2> QED BY <2>1, <2>2, <2>3, <2>4 DEF FilesTyped
  <1>7. CASE Abort
    <2>1. upc = "abort" /\ upc' = "exit1" /\ obuf' = << >> /\ UNCHANGED <<output, start>>
      BY <1>7 DEF Abort, Go
    <2>2. CASE obuf = << >>
      BY <1>7, <2>1, <2>2, FilesQuiet DEF Abort, Busy, Ahead
    <2>3. CASE obuf # << >>
      <3>1. Write(obuf) /\ obuf \in Seq(Byte) /\ Opened
        BY <1>7, <2>3 DEF Abort, Typed, DecoderTyped, FilesTyped
      <3> QED BY <2>1, <3>1, FilesWrite
    <2> QED BY <2>2, <2>3
  <1>8. CASE Header \/ Cleared \/ BadStream \/ EndOfFile \/ WriteFails
    <2>1. upc \in Busy /\ upc' \in {"first", "abort", "flush", "overflow"}
      BY <1>8 DEF Header, Cleared, BadStream, EndOfFile, WriteFails, Go, Busy
    <2>2. UNCHANGED <<files, output, start, pos, obuf>>
      BY <1>8 DEF Header, Cleared, BadStream, EndOfFile, WriteFails, target, decoder
    <2> QED BY <2>1, <2>2, FilesQuiet DEF Ahead
  <1>9. CASE Flush
    <2>1. Write(obuf) /\ obuf' = << >> /\ upc' \in {"exit0", "args"} /\ upc = "flush" /\ UNCHANGED <<output, start>>
      BY <1>9 DEF Flush, Go
    <2>2. obuf \in Seq(Byte) /\ Opened
      BY <2>1 DEF Typed, DecoderTyped, FilesTyped
    <2> QED BY <2>1, <2>2, FilesWrite
  <1> QED BY <1>1, <1>2, <1>3, <1>4, <1>5, <1>6, <1>7, <1>8, <1>9, FilesReads DEF Next, main, decompress

-----------------------------------------------------------------------------
(* The decoder: what is written is the text so far *)

(* Before code k of a run from code j on, the codes in front of it have    *)
(* made their entries, and it is one of those, or a byte.                  *)
LEMMA MakesRun ==
    ASSUME Cut, kept \in Seq(Byte), EncodeInv, NEW k \in 1..Len(sent), NEW j \in 1..k, Run(j, k)
    PROVE  Makes(j, k - 1) /\ Code(k) \in Byte \cup (CLEAR + 1)..Top(j, k - 1)
  <1>1. CLEAR \in Nat /\ Len(sent) \in Nat /\ Len(kept) \in Nat
    BY Sizes, CutFacts
  <1>2. Run(j, k - 1)
    BY DEF Run
  <1>3. ASSUME NEW q \in j..(k - 1) PROVE ends[q] < Len(kept)
    <2>1. q \in 1..Len(sent) /\ k - 1 \in 1..Len(sent) /\ q <= k - 1 /\ (k - 1) + 1 = k
      BY <1>1
    <2>2. ends[q] <= ends[k - 1] /\ Before(k) = ends[k - 1]
      BY <2>1, CutFacts
    <2>3. Before(k) < ends[k] /\ ends[k] <= Len(kept)
      BY CutFacts
    <2>4. ends[q] \in Nat /\ ends[k] \in Nat /\ Before(k) \in Nat
      BY <2>1, CutFacts
    <2> QED BY <1>1, <2>2, <2>3, <2>4
  <1>4. Makes(j, k - 1)
    BY <1>1, <1>2, <1>3 DEF Makes
  <1>5. Code(k) \in Nat /\ (Code(k) \in Byte \/ Code(k) > CLEAR)
    <2>1. Code(k) # CLEAR
      BY DEF Run
    <2> QED BY <2>1, CodeType
  <1>6. Code(k) > CLEAR => Maker(j, Code(k)) \in j..(k - 1)
    BY DEF Cut, CutAt
  <1>7. Code(k) > CLEAR => Code(k) \in (CLEAR + 1)..Top(j, k - 1)
    BY <1>1, <1>5, <1>6 DEF Maker, Top
  <1> QED BY <1>4, <1>5, <1>7

LEMMA ReadText ==
    ASSUME Cut, kept \in Seq(Byte), EncodeInv, NEW k \in 1..Len(sent), NEW j \in 1..k, Run(j, k),
           NEW r, Makes(j, r), NEW c \in Byte \cup (CLEAR + 1)..Top(j, r), c = Code(k),
           NEW d, Knows(d, j, r)
    PROVE  /\ buildstr(d, c).well
           /\ IsPiece(buildstr(d, c).str, Before(k), ends[k])
  <1>1. PICK a \in Nat, e \in Nat : a = Before(k) /\ e = ends[k]
    BY CutFacts
  <1>2. a <= e /\ e <= Len(kept)
    BY <1>1, CutFacts
  <1>3. Means_(j, c, a, e)
    BY <1>1 DEF Cut, CutAt
  <1>4. StringOf(j, r)[c] = SubSeq(kept, a + 1, e)
    BY <1>2, <1>3, MeansText
  <1>5. buildstr(d, c).well /\ buildstr(d, c).str = StringOf(j, r)[c]
    BY DEF Knows
  <1>6. IsPiece(SubSeq(kept, a + 1, e), a, e)
    BY <1>2, PieceOf
  <1> QED BY <1>1, <1>4, <1>5, <1>6

LEMMA PieceHead ==
    ASSUME NEW u, NEW a, NEW e, IsPiece(u, a, e), a < e
    PROVE  u # << >> /\ Head(u) = kept[a + 1] /\ kept[a + 1] \in Byte
  <1> DEFINE S == Byte
  <1>1. a \in Nat /\ e \in Nat /\ u \in Seq(S) /\ Len(u) = e - a /\ \A i \in 1..(e - a) : u[i] = kept[a + i]
    BY DEF IsPiece
  <1> HIDE DEF S
  <1>2. 1 \in 1..(e - a) /\ 1 \in 1..Len(u)
    BY <1>1
  <1>3. u[1] = kept[a + 1] /\ u[1] \in S
    BY <1>1, <1>2
  <1>4. u # << >> /\ Head(u) = u[1]
    BY <1>1, <1>2
  <1> QED BY <1>3, <1>4 DEF S

(* What is out when a code more is read. *)
LEMMA RestoredMore ==
    ASSUME kept \in Seq(Byte), kept' = kept, NEW a \in Nat, NEW e \in Nat, NEW u,
           IsPiece(u, a, e), a = Before(Len(got) + 1), e = Before(Len(got) + 1)'
    PROVE  Restored' = Restored \o u
  <1> DEFINE S == Byte
  <1>1. kept \in Seq(S) /\ a <= e /\ e <= Len(kept) /\ u = SubSeq(kept, a + 1, e)
    BY DEF IsPiece
  <1> HIDE DEF S
  <1>2. 1 \in 1..(Len(kept) + 1) /\ a \in (1 - 1)..Len(kept) /\ e \in a..Len(kept)
    BY <1>1
  <1>3. SubSeq(kept, 1, a) \o SubSeq(kept, a + 1, e) = SubSeq(kept, 1, e)
    BY <1>1, <1>2, ConcatAdjacentSubSeq, Zenon
  <1>4. Restored = SubSeq(kept, 1, a) /\ Restored' = SubSeq(kept, 1, e)
    BY DEF Restored
  <1> QED BY <1>1, <1>3, <1>4

(* The dictionary of the decoder, with one entry more. *)
LEMMA HoldsMore ==
    ASSUME Typed, EncodeInv, NEW g \in Nat, g < Len(sent), NEW j \in 1..g, Run(j, g),
           dd.nexti = CLEAR + 1 + g - j, dd.bits = BITS0, Holds(dd, j),
           NEW p, p = Code(g), NEW c, c = kept[ends[g] + 1],
           NEW d, d = adddict(dd, p, c)
    PROVE  Holds(d, j) /\ d.nexti = Top(j, g) + 1
  <1>1. CLEAR \in Nat
    BY Sizes
  <1>2. d.nexti = dd.nexti + 1 /\ d.entry = Added(dd, p, c).entry
    BY NextEntry
  <1>3. d.entry = With(dd.entry, dd.nexti, <<p, c>>)
    BY <1>2 DEF Added
  <1>4. PICK e, x : e = dd.entry /\ x = dd.nexti
    OBVIOUS
  <1>5. Live(dd) \subseteq DOMAIN e
    BY <1>4 DEF Typed, DecoderTyped, Named, IsDict
  <1>6. ASSUME NEW h \in Live(d) PROVE d.entry[h] = <<Code(Maker(j, h)), kept[ends[Maker(j, h)] + 1]>>
    <2>1. CASE h = x
      <3>1. Maker(j, h) = g
        BY <1>1, <1>4, <2>1 DEF Maker
      <3>2. d.entry[h] = <<p, c>>
        BY <1>3, <1>4, <2>1 DEF With
      <3> QED BY <3>1, <3>2
    <2>2. CASE h # x
      <3>1. h \in Live(dd)
        BY <1>1, <1>2, <1>4, <2>2 DEF Live
      <3>2. d.entry[h] = e[h]
        BY <1>3, <1>4, <1>5, <2>2, <3>1 DEF With
      <3>3. dd.entry[h] = <<Code(Maker(j, h)), kept[ends[Maker(j, h)] + 1]>>
        BY <3>1 DEF Holds
      <3> QED BY <3>2, <3>3, <1>4
    <2> QED BY <2>1, <2>2
  <1>7. Holds(d, j)
    BY <1>6, Zenon DEF Holds
  <1>8. d.nexti = Top(j, g) + 1
    BY <1>1, <1>2 DEF Top
  <1> QED BY <1>7, <1>8

(* All that is known of both programs. *)
Legible == Typed /\ EncodeInv /\ EncodedInv /\ DecodeInv /\ FilesTyped /\ DecodedInv

(* Where the decoder is between two codes. *)
Between(g) ==
    /\ g \in Nat /\ g = Len(got) /\ g <= Len(sent) /\ Len(sent) \in Nat
    /\ cpc = "done" /\ Cut /\ kept \in Seq(Byte) /\ Written = Restored
    /\ Len(sent) > 0 /\ ends[Len(sent)] = Len(kept) /\ Code(Len(sent)) # CLEAR
    /\ g < Len(sent) => At(g) /\ ~eof /\ Sym = Code(g + 1)

LEMMA ReadState ==
    ASSUME Legible, Sound, input = "a", upc \in {"first", "next"}
    PROVE  \E g \in Nat : Between(g)
  <1>1. PICK g \in Nat :
          /\ g = Len(got) /\ g <= Len(sent) /\ Len(sent) \in Nat /\ cpc = "done"
          /\ g < Len(sent) => At(g) /\ ~eof /\ Sym = Code(g + 1)
    BY DecodeCases DEF Legible
  <1>2. /\ Cut /\ kept \in Seq(Byte) /\ Len(sent) > 0
        /\ Code(Len(sent)) # CLEAR /\ ends[Len(sent)] = Len(kept)
    BY <1>1 DEF Legible, EncodedInv
  <1>3. Written = Restored
    BY DEF Legible, DecodedInv
  <1> QED BY <1>1, <1>2, <1>3 DEF Between

LEMMA SymRead ==
    ASSUME Legible, Sound, input = "a", upc \in {"first", "next"}, getsym, UNCHANGED cvars,
           NEW g, Between(g), g < Len(sent)
    PROVE  /\ g + 1 \in 1..Len(sent) /\ Len(got') = g + 1 /\ Before(Len(got) + 1)' = ends[g + 1]
           /\ Before(g + 1) \in Nat /\ ends[g + 1] \in Nat
  <1>1. Decoding /\ got \in Seq(Nat \X Nat)
    BY DEF Legible, DecodeInv
  <1>2. g \in Nat /\ g = Len(got) /\ At(g) /\ cpc = "done" /\ g + 1 \in 1..Len(sent)
    BY DEF Between
  <1>3. Len(got') = g + 1
    BY <1>1, <1>2, ReadsOn DEF Decoding, Legible
  <1>4. PICK l : l = Len(got') + 1
    OBVIOUS
  <1>5. l # 1 /\ l - 1 = g + 1
    BY <1>2, <1>3, <1>4
  <1>6. Before(Len(got) + 1)' = ends[g + 1]
    BY <1>4, <1>5 DEF Before, cvars
  <1>7. Before(g + 1) \in Nat /\ ends[g + 1] \in Nat
    BY <1>2, CutFacts DEF Between, Legible
  <1> QED BY <1>2, <1>3, <1>6, <1>7

(* A code that the dictionary has brings its bytes. *)
LEMMA Brings ==
    ASSUME Legible, Sound, input = "a", upc \in {"first", "next"}, getsym, UNCHANGED cvars,
           NEW g, Between(g), g < Len(sent), NEW j \in 1..(g + 1), Run(j, g + 1),
           NEW d, IsDict(d), d.nexti = Top(j, g) + 1, Holds(d, j),
           NEW c, c = Code(g + 1), printsym(d, c), UNCHANGED <<output, start>>
    PROVE  upc' = "next" /\ Written' = Restored' /\ FilesTyped'
  <1>1. /\ g + 1 \in 1..Len(sent) /\ Before(Len(got) + 1)' = ends[g + 1]
        /\ Before(g + 1) \in Nat /\ ends[g + 1] \in Nat
    BY SymRead
  <1>2. g \in Nat /\ g = Len(got) /\ Cut /\ kept \in Seq(Byte) /\ Written = Restored /\ EncodeInv /\ Typed /\ FilesTyped
    BY DEF Between, Legible
  <1>3. Makes(j, g) /\ c \in Byte \cup (CLEAR + 1)..Top(j, g)
    <2>1. PICK k \in 1..Len(sent) : k = g + 1
      BY <1>1
    <2>2. Makes(j, k - 1) /\ Code(k) \in Byte \cup (CLEAR + 1)..Top(j, k - 1)
      BY <2>1, <1>2, MakesRun
    <2>3. k - 1 = g
      BY <2>1, <1>2
    <2> QED BY <2>1, <2>2, <2>3
  <1>4. Knows(d, j, g)
    BY <1>2, <1>3, KnowsText
  <1>5. PICK a \in Nat, e \in Nat : a = Before(g + 1) /\ e = ends[g + 1]
    BY <1>1
  <1>6. buildstr(d, c).well /\ IsPiece(buildstr(d, c).str, a, e)
    BY <1>1, <1>2, <1>3, <1>4, <1>5, ReadText
  <1>7. PICK u : u = buildstr(d, c).str
    OBVIOUS
  <1>8. Restored' = Restored \o u
    <2>1. a = Before(Len(got) + 1) /\ e = Before(Len(got) + 1)'
      BY <1>1, <1>2, <1>5
    <2>2. kept' = kept
      BY DEF cvars
    <2> QED BY <1>2, <1>6, <1>7, <2>1, <2>2, RestoredMore
  <1>9. c \in Nat
    <2>1. CLEAR \in Nat
      BY Sizes
    <2> QED BY <1>3, <2>1 DEF Byte
  <1>10. FilesTyped' /\ upc' = "next" /\ Written' = Written \o u
    BY <1>2, <1>6, <1>7, <1>9, FilesPrint DEF Means
  <1> QED BY <1>2, <1>8, <1>10

LEMMA DecodedFirst ==
    ASSUME Legible, Sound, input = "a", FirstSym
    PROVE  DecodedInv'
  <1>1. /\ upc = "first" /\ getsym /\ UNCHANGED cvars /\ UNCHANGED <<input, output, start>> /\ dd' = dd
        /\ prev' = Sym /\ printsym(dd, Sym)
    BY DEF FirstSym
  <1>2. PICK g \in Nat : Between(g)
    BY <1>1, ReadState
  <1>3. g = Len(got) /\ g < Len(sent) /\ Sym = Code(g + 1)
    BY <1>1, <1>2 DEF Between, Legible, DecodedInv
  <1>4. Starts(g + 1) /\ dd.nexti = CLEAR + 1
    BY <1>1, <1>3 DEF Legible, DecodeInv, Decoding
  <1>5. g + 1 \in 1..Len(sent) /\ Len(got') = g + 1
    BY <1>1, <1>2, <1>3, SymRead
  <1>6. CLEAR \in Nat /\ CLEAR = ALPHA
    BY Sizes DEF CLEAR
  <1>7. Run(g + 1, g + 1)
    <2>1. Code(g + 1) # CLEAR
      BY <1>2, <1>4, <1>5, <1>6 DEF Between, Cut, CutAt, Byte
    <2>2. \A i \in (g + 1)..(g + 1) : Code(i) # CLEAR
      <3> SUFFICES ASSUME NEW i \in (g + 1)..(g + 1) PROVE Code(i) # CLEAR
        OBVIOUS
      <3>1. i = g + 1
        OBVIOUS
      <3> QED BY <3>1, <2>1
    <2> QED BY <1>4, <2>2 DEF Run
  <1>8. PICK d, c : d = dd /\ c = Sym
    OBVIOUS
  <1>9. Live(d) = {} /\ d.nexti = Top(g + 1, g) + 1 /\ IsDict(d)
    BY <1>4, <1>6, <1>8 DEF Live, Top, Legible, Typed, DecoderTyped, Named
  <1>10. Holds(d, g + 1)
    BY <1>9 DEF Holds
  <1>11. upc' = "next" /\ Written' = Restored'
    <2>1. g + 1 \in 1..(g + 1) /\ c = Code(g + 1) /\ printsym(d, c)
      BY <1>1, <1>3, <1>8
    <2> QED BY <1>1, <1>2, <1>3, <1>7, <1>9, <1>10, <2>1, Brings
  <1>12. prev' = Code(Len(got))'
    <2>1. prev' = Code(g + 1)
      BY <1>1, <1>3
    <2> QED BY <1>1, <1>5, <2>1 DEF Code, cvars
  <1>13. \A j \in 1..Len(got') : Holds(dd, j)'
    BY <1>1, <1>8, <1>9 DEF Holds, Live
  <1> QED BY <1>11, <1>12, <1>13 DEF DecodedInv

(* The first byte of a code, whether the dictionary has it yet or not. *)
LEMMA LeadText ==
    ASSUME Legible, Sound, input = "a", upc = "next", ~eof, NEW g, Between(g), g < Len(sent),
           NEW j \in 1..g, Run(j, g), dd.nexti = CLEAR + 1 + g - j, Holds(dd, j), prev = Code(g),
           Code(g + 1) # CLEAR
    PROVE  /\ Sym <= dd.nexti /\ Lead(Sym).well
           /\ Head(Lead(Sym).str) = kept[ends[g] + 1] /\ Run(j, g + 1)
  <1>1. g \in Nat /\ Cut /\ kept \in Seq(Byte) /\ EncodeInv /\ Sym = Code(g + 1) /\ Len(sent) \in Nat
    BY DEF Between, Legible
  <1>2. CLEAR \in Nat /\ CLEAR = ALPHA
    BY Sizes DEF CLEAR
  <1>3. Run(j, g + 1)
    <2>1. \A i \in j..(g + 1) : Code(i) # CLEAR
      <3> SUFFICES ASSUME NEW i \in j..(g + 1) PROVE Code(i) # CLEAR
        OBVIOUS
      <3>1. i = g + 1 \/ i \in j..g
        BY <1>1
      <3> QED BY <3>1 DEF Run
    <2> QED BY <2>1 DEF Run
  <1>4. PICK k \in 1..Len(sent), l \in 1..Len(sent), r \in Nat : k = g + 1 /\ l = g /\ r = g - 1
    <2>1. g + 1 \in 1..Len(sent) /\ g \in 1..Len(sent) /\ g - 1 \in Nat
      BY <1>1
    <2> QED BY <2>1
  <1>5. k - 1 = l /\ l - 1 = r /\ l = k - 1 /\ j \in 1..k /\ j \in 1..l
    BY <1>1, <1>4
  <1>6. Makes(j, k - 1) /\ Code(k) \in Byte \cup (CLEAR + 1)..Top(j, k - 1)
    BY <1>1, <1>3, <1>4, <1>5, MakesRun
  <1>7. Makes(j, l - 1) /\ Code(l) \in Byte \cup (CLEAR + 1)..Top(j, l - 1)
    BY <1>1, <1>4, <1>5, MakesRun
  <1>8. dd.nexti = Top(j, r) + 1 /\ dd.nexti = Top(j, l)
    BY <1>1, <1>2, <1>4 DEF Top
  <1>9. PICK d, c, p : d = dd /\ c = Sym /\ p = prev
    OBVIOUS
  <1>10. Knows(d, j, r)
    BY <1>1, <1>5, <1>7, <1>8, <1>9, KnowsText DEF Legible, Typed, DecoderTyped, Named
  <1>11. c <= d.nexti /\ c \in Nat
    BY <1>1, <1>2, <1>4, <1>5, <1>6, <1>8, <1>9 DEF Byte, Top
  <1>12. PICK a \in Nat, m \in Nat, e \in Nat : a = Before(l) /\ m = ends[l] /\ e = ends[k]
    BY <1>1, CutFacts
  <1>13. a < m /\ m < e /\ Before(k) = m
    <2>1. Before(l) < ends[l] /\ Before(k) < ends[k]
      BY <1>1, <1>3, <1>4, <1>5, CutFacts
    <2>2. Before(l + 1) = ends[l] /\ l + 1 = k
      BY <1>1, <1>4, CutFacts
    <2> QED BY <1>12, <2>1, <2>2
  <1>14. CASE c = d.nexti
    <2>1. buildstr(d, p).well /\ IsPiece(buildstr(d, p).str, a, m)
      <3>1. p \in Byte \cup (CLEAR + 1)..Top(j, r) /\ p = Code(l) /\ Makes(j, r) /\ Run(j, l)
        BY <1>4, <1>5, <1>7, <1>9
      <3> QED BY <1>1, <1>5, <1>10, <1>12, <3>1, ReadText
    <2>2. Head(buildstr(d, p).str) = kept[a + 1]
      <3>1. PICK u : u = buildstr(d, p).str
        OBVIOUS
      <3> QED BY <1>13, <2>1, <3>1, PieceHead
    <2>3. kept[m + 1] = kept[a + 1]
      <3>1. c > CLEAR /\ Maker(j, c) = l
        BY <1>1, <1>2, <1>4, <1>8, <1>9, <1>14 DEF Top, Maker
      <3>2. Means_(j, c, m, e)
        <4>1. Means_(j, Code(k), Before(k), ends[k])
          BY <1>1, <1>3, <1>4, <1>5 DEF Cut, CutAt
        <4> QED BY <1>1, <1>4, <1>9, <1>12, <1>13, <4>1
      <3>3. Repeats(m, a, e - m)
        BY <1>12, <3>1, <3>2 DEF Means_
      <3>4. 1 \in 1..(e - m)
        BY <1>13
      <3> QED BY <3>3, <3>4 DEF Repeats
    <2>4. Lead(Sym) = buildstr(d, p)
      BY <1>9, <1>14 DEF Lead
    <2> QED BY <1>3, <1>4, <1>9, <1>11, <1>12, <2>1, <2>2, <2>3, <2>4
  <1>15. CASE c # d.nexti
    <2>1. c \in Byte \cup (CLEAR + 1)..Top(j, r)
      <3>1. Top(j, r) + 1 = Top(j, l) /\ Top(j, r) \in Int
        BY <1>1, <1>2, <1>4 DEF Top
      <3>2. c \in Byte \/ c \in (CLEAR + 1)..Top(j, l)
        BY <1>1, <1>4, <1>5, <1>6, <1>9
      <3> QED BY <1>2, <1>8, <1>9, <1>11, <1>15, <3>1, <3>2
    <2>2. buildstr(d, c).well /\ IsPiece(buildstr(d, c).str, m, e)
      <3>1. c = Code(k) /\ Makes(j, r) /\ Run(j, k)
        BY <1>1, <1>3, <1>4, <1>5, <1>7, <1>9
      <3> QED BY <1>1, <1>5, <1>10, <1>12, <1>13, <2>1, <3>1, ReadText
    <2>3. Head(buildstr(d, c).str) = kept[m + 1]
      <3>1. PICK u : u = buildstr(d, c).str
        OBVIOUS
      <3> QED BY <1>13, <2>2, <3>1, PieceHead
    <2>4. Lead(Sym) = buildstr(d, c)
      BY <1>9, <1>15 DEF Lead
    <2> QED BY <1>3, <1>4, <1>9, <1>11, <1>12, <2>2, <2>3, <2>4
  <1> QED BY <1>14, <1>15

LEMMA DecodedNextSym ==
    ASSUME Legible, Sound, input = "a", NextSym
    PROVE  DecodedInv'
  <1>1. /\ upc = "next" /\ ~eof /\ Sym # CLEAR /\ getsym /\ prev' = Sym
        /\ UNCHANGED cvars /\ UNCHANGED <<input, output, start>>
    BY DEF NextSym
  <1>2. PICK g \in Nat : Between(g)
    BY <1>1, ReadState
  <1>3. g = Len(got) /\ g <= Len(sent) /\ Len(sent) \in Nat
    BY <1>2 DEF Between
  <1>4. g < Len(sent)
    <2>1. upc' \in {"next", "runaway"} /\ sent' = sent
      BY <1>1 DEF NextSym, printsym, Go, cvars
    <2>2. g # Len(sent)
      BY <1>1, <1>3, <2>1, DecodeEnds DEF Legible
    <2> QED BY <1>3, <2>2
  <1>5. Sym = Code(g + 1) /\ Code(g + 1) # CLEAR
    BY <1>1, <1>2, <1>4 DEF Between
  <1>6. PICK j \in 1..g : Run(j, g) /\ dd.nexti = CLEAR + 1 + g - j /\ dd.bits = BITS0
    BY <1>1, <1>3, <1>4 DEF Legible, DecodeInv, Decoding, Reading
  <1>7. Holds(dd, j) /\ prev = Code(g)
    <2>1. j \in 1..Len(got) /\ Reading(j)
      BY <1>3, <1>6 DEF Reading
    <2> QED BY <1>1, <1>3, <1>4, <2>1 DEF Legible, DecodedInv
  <1>8. /\ Sym <= dd.nexti /\ Lead(Sym).well
        /\ Head(Lead(Sym).str) = kept[ends[g] + 1] /\ Run(j, g + 1)
    BY <1>1, <1>2, <1>4, <1>5, <1>6, <1>7, LeadText
  <1>9. PICK d, p, c, s : d = dd' /\ p = prev /\ c = kept[ends[g] + 1] /\ s = Sym
    OBVIOUS
  <1>10. d = adddict(dd, p, c) /\ printsym(d, s)
    BY <1>8, <1>9 DEF NextSym
  <1>11. Holds(d, j) /\ d.nexti = Top(j, g) + 1
    <2>1. Typed /\ EncodeInv
      BY DEF Legible
    <2> QED BY <1>4, <1>6, <1>7, <1>9, <1>10, <2>1, HoldsMore
  <1>12. IsDict(d)
    <2>1. Typed'
      BY TypedNext DEF Legible, Next, decompress
    <2> QED BY <1>9, <2>1 DEF Typed, DecoderTyped, Named, IsDict, Live
  <1>13. j \in 1..(g + 1)
    OBVIOUS
  <1>14. upc' = "next" /\ Written' = Restored'
    BY <1>1, <1>2, <1>4, <1>5, <1>8, <1>9, <1>10, <1>11, <1>12, <1>13, Brings
  <1>15. Len(got') = g + 1
    BY <1>1, <1>2, <1>4, SymRead
  <1>16. prev' = Code(Len(got))'
    <2>1. prev' = Code(g + 1)
      BY <1>1, <1>5
    <2> QED BY <1>1, <1>15, <2>1 DEF Code, cvars
  <1>17. ASSUME NEW i \in 1..Len(got'), Reading(i)' PROVE Holds(dd, i)'
    <2>1. d.nexti = CLEAR + 1 + (g + 1) - i
      BY <1>9, <1>15, <1>17 DEF Reading
    <2>2. i = j
      <3>1. CLEAR \in Nat /\ i \in Nat
        BY Sizes, <1>15
      <3> QED BY <1>11, <2>1, <3>1 DEF Top
    <2> QED BY <1>1, <1>9, <1>11, <2>2 DEF Holds, Live, Maker, Code, cvars
  <1> QED BY <1>14, <1>16, <1>17 DEF DecodedInv

LEMMA SameWritten ==
    ASSUME UNCHANGED <<files, target, obuf>>
    PROVE  Written' = Written
  BY DEF Written, target

LEMMA DecodedCleared ==
    ASSUME Legible, Sound, input = "a", Cleared
    PROVE  DecodedInv'
  <1>1. upc = "next" /\ ~eof /\ Sym = CLEAR /\ getsym /\ upc' = "first" /\ UNCHANGED cvars /\ Written' = Written
    BY SameWritten DEF Cleared, Go
  <1>2. PICK g \in Nat : Between(g)
    BY <1>1, ReadState
  <1>3. g = Len(got) /\ g <= Len(sent) /\ Len(sent) \in Nat
    BY <1>2 DEF Between
  <1>4. g < Len(sent)
    <2>1. sent' = sent /\ input' = input
      BY <1>1 DEF Cleared, cvars, target
    <2>2. g # Len(sent)
      BY <1>1, <1>3, <2>1, DecodeEnds DEF Legible
    <2> QED BY <1>3, <2>2
  <1>5. Code(g + 1) = CLEAR
    BY <1>1, <1>2, <1>4 DEF Between
  <1>6. /\ g + 1 \in 1..Len(sent) /\ Len(got') = g + 1 /\ Before(Len(got) + 1)' = ends[g + 1]
    BY <1>1, <1>2, <1>4, SymRead
  <1>7. ends[g + 1] = Before(g + 1)
    BY <1>2, <1>5, <1>6 DEF Between, Cut, CutAt
  <1>8. Restored' = Restored
    <2>1. Before(Len(got) + 1)' = Before(Len(got) + 1) /\ kept' = kept
      BY <1>1, <1>3, <1>6, <1>7 DEF cvars
    <2> QED BY <2>1 DEF Restored
  <1>9. Written' = Restored'
    BY <1>1, <1>2, <1>8 DEF Between
  <1>10. g + 1 < Len(sent)
    <2>1. Code(Len(sent)) # CLEAR
      BY <1>2 DEF Between
    <2>2. g + 1 # Len(sent)
      BY <1>5, <2>1
    <2> QED BY <1>3, <1>6, <2>2
  <1>11. Len(got') < Len(sent')
    BY <1>1, <1>6, <1>10 DEF cvars
  <1> QED BY <1>1, <1>9, <1>11 DEF DecodedInv

LEMMA NeverBad ==
    ASSUME Legible, Sound, input = "a"
    PROVE  ~BadStream
  <1> SUFFICES ASSUME BadStream PROVE FALSE
    OBVIOUS
  <1>1. upc = "next" /\ ~eof /\ Sym > dd.nexti /\ getsym /\ upc' = "abort" /\ UNCHANGED cvars /\ input' = input
    BY DEF BadStream, Go, target
  <1>2. PICK g \in Nat : Between(g)
    BY <1>1, ReadState
  <1>3. g = Len(got) /\ g <= Len(sent) /\ Len(sent) \in Nat
    BY <1>2 DEF Between
  <1>4. g < Len(sent)
    <2>1. sent' = sent
      BY <1>1 DEF cvars
    <2>2. g # Len(sent)
      BY <1>1, <1>3, <2>1, DecodeEnds DEF Legible
    <2> QED BY <1>3, <2>2
  <1>5. PICK j \in 1..g : Run(j, g) /\ dd.nexti = CLEAR + 1 + g - j
    BY <1>1, <1>3, <1>4 DEF Legible, DecodeInv, Decoding, Reading
  <1>6. CLEAR \in Nat /\ dd.nexti \in Nat /\ dd.nexti > CLEAR
    <2>1. CLEAR \in Nat
      BY Sizes
    <2> QED BY <1>5, <2>1
  <1>7. PICK s : s = Sym
    OBVIOUS
  <1>8. s \in Nat /\ s > dd.nexti /\ s = Code(g + 1)
    <2>1. Sym \in Nat
      BY SymType DEF Legible
    <2> QED BY <1>1, <1>2, <1>4, <1>7, <2>1 DEF Between
  <1>9. Code(g + 1) # CLEAR
    BY <1>6, <1>8
  <1>10. Holds(dd, j) /\ prev = Code(g)
    <2>1. j \in 1..Len(got) /\ Reading(j)
      BY <1>3, <1>5 DEF Reading
    <2> QED BY <1>1, <1>3, <1>4, <2>1 DEF Legible, DecodedInv
  <1>11. s <= dd.nexti
    BY <1>1, <1>2, <1>4, <1>5, <1>7, <1>9, <1>10, LeadText
  <1> QED BY <1>6, <1>8, <1>11

LEMMA DecodedEnd ==
    ASSUME Legible, Sound, input = "a", EndOfFile
    PROVE  DecodedInv'
  <1>1. upc = "next" /\ eof /\ upc' = "flush" /\ kept' = kept /\ Written' = Written
    BY SameWritten DEF EndOfFile, Go, cvars
  <1>2. PICK g \in Nat : Between(g)
    BY <1>1, ReadState
  <1>3. g = Len(got) /\ g = Len(sent) /\ Len(sent) > 0
    BY <1>1, <1>2 DEF Between
  <1>4. Before(g + 1) = Len(kept)
    <2>1. g + 1 # 1 /\ (g + 1) - 1 = g
      BY <1>3
    <2> QED BY <1>2, <1>3, <2>1 DEF Before, Between
  <1>5. Restored = kept
    <2>1. kept \in Seq(Byte)
      BY <1>2 DEF Between
    <2>2. SubSeq(kept, 1, Len(kept)) = kept
      BY <2>1, SubSeqFull, Zenon
    <2> QED BY <1>3, <1>4, <2>2 DEF Restored
  <1>6. Written' = kept'
    BY <1>1, <1>2, <1>5 DEF Between
  <1> QED BY <1>1, <1>6 DEF DecodedInv

LEMMA DecodedHeader ==
    ASSUME Legible, Sound, input = "a", Header
    PROVE  DecodedInv'
  <1>1. /\ upc = "header" /\ upc' \in {"first", "abort"} /\ UNCHANGED <<got, files, target, obuf>>
        /\ UNCHANGED cvars
    BY DEF Header, Go
  <1>2. got = << >> /\ obuf = << >> /\ pos = start /\ Opened /\ cpc = "done"
    BY <1>1 DEF Legible, DecodeInv, FilesTyped, Typed, DecoderTyped
  <1>3. Written = << >>
    <2>1. PICK f, p : f = files[output] /\ p = pos
      OBVIOUS
    <2>2. f \in Seq(Byte) /\ p \in Nat
      BY <1>2, <2>1 DEF Legible, FilesTyped, Opened
    <2>3. SubSeq(f, p + 1, p) = << >>
      BY <2>2
    <2>4. << >> \o << >> = << >>
      OBVIOUS
    <2> QED BY <1>2, <2>1, <2>3, <2>4 DEF Written, Opened
  <1>4. Written' = << >>
    BY <1>1, <1>3, SameWritten
  <1>5. Len(got') = 0 /\ Before(Len(got) + 1)' = 0
    <2>1. Len(got') = 0
      BY <1>1, <1>2
    <2>2. Len(got') + 1 = 1
      BY <2>1
    <2> QED BY <2>1, <2>2 DEF Before
  <1>6. Restored' = << >>
    <2>1. kept' = kept /\ kept \in Seq(Byte)
      BY <1>1 DEF Legible, EncodedInv, cvars
    <2>2. SubSeq(kept, 1, 0) = << >>
      BY <2>1
    <2> QED BY <1>5, <2>1, <2>2 DEF Restored
  <1>7. Len(got') < Len(sent')
    BY <1>1, <1>2, <1>5 DEF Legible, EncodedInv, cvars
  <1>8. got' = << >>
    BY <1>1, <1>2
  <1> QED BY <1>1, <1>4, <1>6, <1>7, <1>8 DEF DecodedInv

LEMMA DecodedNext == Legible /\ [Next]_vars => DecodedInv'
  <1> SUFFICES ASSUME Legible, [Next]_vars, Sound', input' = "a",
                      upc' \in {"runaway", "abort", "flush", "first", "next"}
               PROVE  DecodedInv'
    BY DEF DecodedInv
  <1>1. CASE UNCHANGED vars
    <2>1. UNCHANGED cvars /\ UNCHANGED <<files, target, obuf>> /\ UNCHANGED <<upc, got, dd, prev, input>>
      BY <1>1 DEF vars, target, decoder
    <2>2. Written' = Written
      BY <2>1, SameWritten
    <2>3. Restored' = Restored /\ Code(Len(got))' = Code(Len(got))
      BY <2>1 DEF Restored, Before, Code, cvars
    <2>4. \A j : (Reading(j)' <=> Reading(j)) /\ (Holds(dd, j)' <=> Holds(dd, j))
      BY <2>1 DEF Reading, Run, Starts, Code, Holds, Live, Maker, cvars
    <2>5. UNCHANGED <<sent, kept, stale>>
      BY <2>1 DEF cvars
    <2> QED BY <2>1, <2>2, <2>3, <2>4, <2>5 DEF Legible, DecodedInv, Sound
  <1>2. CASE upc = "wait" /\ UNCHANGED <<upc, args, files, target, decoder, rest>>
    BY <1>2
  <1>3. CASE Compressed \/ Option \/ pipeit \/ OpenIn \/ OpenOut \/ Exit \/ Abort \/ Flush \/ WriteFails
    <2>1. upc' \notin {"runaway", "abort", "flush", "first", "next"}
      BY <1>3 DEF Compressed, Option, pipeit, OpenIn, OpenOut, Exit, Abort, Flush, WriteFails, Go, EndsIn
    <2> QED BY <2>1
  <1>4. CASE Answer \/ CallFails
    <2>1. upc \in {"ask", "openout"} /\ got' = got /\ upc' \in {"abort", "openout", "overflow"}
      BY <1>4 DEF Answer, CallFails, Go, EndsIn, decoder
    <2>2. got' = << >>
      BY <2>1 DEF Legible, DecodeInv
    <2> QED BY <2>1, <2>2 DEF DecodedInv
  <1>5. CASE decompress
    <2>1. CASE Header \/ FirstSym \/ NextSym \/ Cleared \/ BadStream \/ EndOfFile
      <3>1. Sound /\ input = "a"
        BY <2>1 DEF Sound, cvars, target, Header, FirstSym, NextSym, Cleared, BadStream, EndOfFile
      <3> QED BY <2>1, <3>1, DecodedHeader, DecodedFirst, DecodedNextSym, DecodedCleared, NeverBad, DecodedEnd
    <2> QED BY <1>3, <1>5, <2>1 DEF decompress
  <1> QED BY <1>1, <1>2, <1>3, <1>4, <1>5 DEF Next, main

LEMMA DecodedInit == Init => DecodedInv
  BY DEF Init, DecodedInv

LEMMA AllLegible == Spec => []Legible
  <1>1. Init => Legible
    BY TypedInit, EncodeInit, EncodedInit, DecodeInit, FilesInit, DecodedInit DEF Legible
  <1>2. Legible /\ [Next]_vars => Legible'
    <2> SUFFICES ASSUME Legible, [Next]_vars PROVE Legible'
      OBVIOUS
    <2>1. Typed' /\ EncodeInv' /\ EncodedInv' /\ DecodeInv' /\ FilesTyped'
      BY TypedNext, EncodeNext, EncodedNext, DecodeNext, FilesNext DEF Legible
    <2>2. DecodedInv'
      BY DecodedNext
    <2> QED BY <2>1, <2>2 DEF Legible
  <1> QED BY <1>1, <1>2, PTL DEF Spec

LEMMA LegibleDecoded == Legible => Decoded
  <1> SUFFICES ASSUME Legible, Sound, input = "a"
               PROVE  /\ upc \in {"first", "next", "flush"} => IsPrefix(Written, kept)
                      /\ upc = "flush" => Written = kept
    BY DEF Decoded
  <1> DEFINE S == Byte
  <1>1. kept \in Seq(S)
    BY DEF Legible, EncodedInv
  <1> HIDE DEF S
  <1>2. upc = "flush" => Written = kept
    BY DEF Legible, DecodedInv
  <1>3. IsPrefix(kept, kept)
    <2>1. Len(kept) <= Len(kept) /\ \A i \in 1..Len(kept) : kept[i] = kept[i]
      BY <1>1
    <2> QED BY <1>1, <2>1, PrefixIff
  <1>4. ASSUME upc \in {"first", "next"} PROVE IsPrefix(Written, kept)
    <2>1. PICK g \in Nat : Between(g)
      BY <1>4, ReadState
    <2>2. PICK b \in Nat : b = Before(Len(got) + 1) /\ b <= Len(kept)
      <3>1. /\ g = Len(got) /\ g <= Len(sent) /\ Len(sent) \in Nat
            /\ Cut /\ kept \in Seq(Byte) /\ EncodeInv
        BY <2>1 DEF Between, Legible
      <3>2. CASE g = Len(sent)
        BY <3>1, <3>2, CutFacts
      <3>3. CASE g < Len(sent)
        <4>1. g + 1 \in 1..Len(sent)
          BY <3>1, <3>3
        <4>2. Before(g + 1) \in Nat /\ Before(g + 1) <= ends[g + 1] /\ ends[g + 1] <= Len(kept) /\ ends[g + 1] \in Nat /\ Len(kept) \in Nat
          BY <3>1, <4>1, CutFacts
        <4> QED BY <3>1, <4>2
      <3> QED BY <3>1, <3>2, <3>3
    <2>3. PICK u : u = SubSeq(kept, 1, b)
      OBVIOUS
    <2>4. u \in Seq(S) /\ Len(u) = b /\ \A i \in 1..b : u[i] = kept[i]
      BY <1>1, <2>2, <2>3
    <2>5. IsPrefix(u, kept)
      BY <1>1, <2>2, <2>4, PrefixIff
    <2>6. Written = u
      BY <2>1, <2>2, <2>3 DEF Between, Restored
    <2> QED BY <2>5, <2>6
  <1> QED BY <1>2, <1>3, <1>4

(* What uncompress writes for compress's output is the text, but for the   *)
(* byte read at each CLEAR, which is lost: all the way a prefix of it, in  *)
(* the end all of it (compress.c:245-283, uncompress.c:184-236).           *)
THEOREM TextBack == Spec => []Decoded
  BY AllLegible, LegibleDecoded, PTL

(* Neither program follows a prefix that leads back to itself or to no     *)
(* entry, and the decoder does not refuse the stream (buildstr,            *)
(* compress.c:200; printsym and first, uncompress.c:145-160, 220).         *)
THEOREM AllGrounded == Spec => []Grounded
  <1>1. Legible => Grounded
    BY DEF Legible, EncodedInv, DecodedInv, Grounded
  <1> QED BY <1>1, AllLegible, PTL
=============================================================================
