--------------------------- MODULE DecbFilesProofs ---------------------------
(***************************************************************************)
(* Proofs, for disks of every size and any set of files, that Decb         *)
(* implements FileStore, and of the other properties of DecbFiles.         *)
(***************************************************************************)
EXTENDS DecbFilesInv, DecbProofs, Recursion

-----------------------------------------------------------------------------
(* Chains *)

LEMMA LinkType ==
    ASSUME NEW f \in [Gran -> FatByte]
    PROVE  /\ Link(f) \in [Gran \cup {255} -> Gran \cup {255}]
           /\ Link(f)[255] = 255
           /\ \A g \in Gran : Link(f)[g] = IF f[g] \in Gran THEN f[g] ELSE 255
  <1>1. 255 \notin Gran
    BY ByteValues DEF FREE
  <1> QED BY <1>1 DEF Link

LEMMA ChainStep ==
    ASSUME NEW f \in [Gran -> FatByte], NEW g \in Gran \cup {255}
    PROVE  /\ Chain(f, g) \in [0..FATZ -> Gran \cup {255}]
           /\ Chain(f, g)[0] = g
           /\ \A k \in 1..FATZ : Chain(f, g)[k] = Link(f)[Chain(f, g)[k - 1]]
  <1> DEFINE S == Gran \cup {255}
             L == Link(f)
             G == [p \in S \X (1..FATZ) |-> L[p[1]]]
  <1>0. FATZ \in Nat
    BY SizesAssumption
  <1>1. L \in [S -> S] /\ G \in [S \X (1..FATZ) -> S]
    BY LinkType
  <1>2. PICK a \in [0..FATZ -> S] : a[0] = g /\ \A k \in 1..FATZ : a[k] = G[<<a[k - 1], k>>]
    <2>1. Recurses(S, g, FATZ, G)
      <3> HIDE DEF G, L
      <3> QED BY <1>0, <1>1, Recursive
    <2> QED BY <2>1 DEF Recurses
  <1>3. \A k \in 1..FATZ : a[k] = L[a[k - 1]]
    <2> SUFFICES ASSUME NEW k \in 1..FATZ PROVE a[k] = L[a[k - 1]]
      OBVIOUS
    <2>1. <<a[k - 1], k>> \in S \X (1..FATZ)
      BY <1>0, <1>2
    <2> QED BY <1>2, <2>1
  <1> DEFINE Is(b) == b = [k \in 0..FATZ |-> IF k = 0 THEN g ELSE L[b[k - 1]]]
  <1> HIDE DEF L, G
  <1>4. Is(a)
    BY <1>0, <1>2, <1>3
  <1> DEFINE c == CHOOSE b : Is(b)
  <1>5. Is(c)
    <2> HIDE DEF Is
    <2> QED BY <1>4
  <1>6. Chain(f, g) = c
    BY DEF Chain, L
  <1> HIDE DEF c
  <1>7. c[0] = g /\ \A k \in 1..FATZ : c[k] = L[c[k - 1]]
    BY <1>0, <1>5
  <1>8. c \in [0..FATZ -> S]
    <2> DEFINE T == {k \in Nat : k <= FATZ => c[k] \in S}
    <2>1. 0 \in T
      BY <1>7
    <2>2. \A k \in Nat : k \in T => k + 1 \in T
      BY <1>0, <1>1, <1>7
    <2> HIDE DEF T
    <2>3. \A k \in Nat : k \in T
      BY <2>1, <2>2, Induction
    <2>4. \A k \in 0..FATZ : c[k] \in S
      BY <1>0, <2>3 DEF T
    <2>5. c = [k \in 0..FATZ |-> c[k]]
      BY <1>5
    <2> QED BY <2>4, <2>5
  <1> QED BY <1>6, <1>7, <1>8 DEF L

(* Up to a granule, a chain only has granules, each linked to the next. *)
LEMMA ChainPrefix ==
    ASSUME NEW f \in [Gran -> FatByte], NEW g \in Gran \cup {255}, NEW m \in 0..FATZ,
           Chain(f, g)[m] \in Gran
    PROVE  \A k \in 0..(m - 1) : /\ Chain(f, g)[k] \in Gran
                                 /\ f[Chain(f, g)[k]] = Chain(f, g)[k + 1]
                                 /\ Chain(f, g)[k + 1] \in Gran
  <1> DEFINE c == Chain(f, g)
  <1>0. FATZ \in Nat /\ m \in Nat /\ m <= FATZ
    BY SizesAssumption
  <1>1. c \in [0..FATZ -> Gran \cup {255}] /\ \A k \in 1..FATZ : c[k] = Link(f)[c[k - 1]]
    BY ChainStep
  <1> HIDE DEF c
  <1>2. 255 \notin Gran
    BY ByteValues DEF FREE
  <1>3. ASSUME NEW k \in 0..(m - 1), c[k + 1] \in Gran
        PROVE  c[k] \in Gran /\ f[c[k]] = c[k + 1]
    <2>1. k + 1 \in 1..FATZ /\ k \in 0..FATZ /\ k + 1 - 1 = k
      BY <1>0
    <2>2. c[k + 1] = Link(f)[c[k]] /\ c[k] \in Gran \cup {255}
      BY <1>1, <2>1
    <2>3. c[k] # 255
      BY <1>2, <1>3, <2>2, LinkType
    <2> QED BY <1>2, <1>3, <2>2, <2>3, LinkType
  <1> DEFINE T == {j \in Nat : j <= m => c[m - j] \in Gran}
  <1>4. 0 \in T
    BY <1>0 DEF c
  <1>5. ASSUME NEW j \in Nat, j \in T PROVE j + 1 \in T
    <2> SUFFICES ASSUME j + 1 <= m PROVE c[m - (j + 1)] \in Gran
      OBVIOUS
    <2>1. m - (j + 1) \in 0..(m - 1) /\ m - (j + 1) + 1 = m - j
      BY <1>0
    <2>2. c[m - j] \in Gran
      BY <1>0, <1>5
    <2> QED BY <1>3, <2>1, <2>2
  <1> HIDE DEF T
  <1>6. \A j \in Nat : j \in T
    BY <1>4, <1>5, Induction
  <1>7. ASSUME NEW k \in 0..(m - 1) PROVE c[k + 1] \in Gran
    <2>1. m - (k + 1) \in Nat /\ m - (k + 1) <= m /\ m - (m - (k + 1)) = k + 1
      BY <1>0
    <2> QED BY <1>6, <2>1 DEF T
  <1> QED BY <1>3, <1>7 DEF c

(* A chain is as it was while its links are. *)
LEMMA ChainSame ==
    ASSUME NEW f \in [Gran -> FatByte], NEW f2 \in [Gran -> FatByte], NEW g \in Gran,
           NEW m \in 0..FATZ, Chain(f, g)[m] \in Gran,
           \A k \in 0..(m - 1) : f2[Chain(f, g)[k]] = f[Chain(f, g)[k]]
    PROVE  \A k \in 0..m : Chain(f2, g)[k] = Chain(f, g)[k]
  <1> DEFINE c == Chain(f, g)
             d == Chain(f2, g)
  <1>0. FATZ \in Nat /\ m \in Nat /\ m <= FATZ
    BY SizesAssumption
  <1>1. c[0] = g /\ d[0] = g /\ \A k \in 1..FATZ : d[k] = Link(f2)[d[k - 1]]
    BY ChainStep
  <1>2. \A k \in 0..(m - 1) : c[k] \in Gran /\ f[c[k]] = c[k + 1] /\ c[k + 1] \in Gran
    BY ChainPrefix
  <1>3. \A k \in 0..(m - 1) : f2[c[k]] = f[c[k]]
    OBVIOUS
  <1> HIDE DEF c, d
  <1> DEFINE T == {k \in Nat : k <= m => d[k] = c[k]}
  <1>4. 0 \in T
    BY <1>1
  <1>5. ASSUME NEW k \in Nat, k \in T PROVE k + 1 \in T
    <2> SUFFICES ASSUME k + 1 <= m PROVE d[k + 1] = c[k + 1]
      OBVIOUS
    <2>1. k \in 0..(m - 1) /\ k + 1 \in 1..FATZ /\ k + 1 - 1 = k
      BY <1>0
    <2>2. d[k] = c[k]
      BY <1>5, <1>0
    <2>3. d[k + 1] = Link(f2)[c[k]]
      BY <1>1, <2>1, <2>2
    <2>4. c[k] \in Gran /\ f2[c[k]] = c[k + 1] /\ c[k + 1] \in Gran
      BY <1>2, <1>3, <2>1
    <2> QED BY <2>3, <2>4, LinkType
  <1> HIDE DEF T
  <1>6. \A k \in Nat : k \in T
    BY <1>4, <1>5, Induction
  <1>7. \A k \in 0..m : d[k] = c[k]
    BY <1>0, <1>6 DEF T
  <1> QED BY <1>7 DEF c, d

(* Two FATs that agree on a set of granules without a way out have the     *)
(* same chains there. *)
LEMMA ChainClosed ==
    ASSUME NEW f \in [Gran -> FatByte], NEW f2 \in [Gran -> FatByte],
           NEW C \in SUBSET Gran, NEW g \in C,
           \A h \in C : f2[h] = f[h] /\ (f[h] \in Gran => f[h] \in C)
    PROVE  /\ Chain(f2, g) = Chain(f, g)
           /\ \A k \in 0..FATZ : Chain(f, g)[k] \in C \cup {255}
  <1> DEFINE c == Chain(f, g)
             d == Chain(f2, g)
  <1>0. FATZ \in Nat
    BY SizesAssumption
  <1>1. /\ c \in [0..FATZ -> Gran \cup {255}] /\ c[0] = g
        /\ \A k \in 1..FATZ : c[k] = Link(f)[c[k - 1]]
    BY ChainStep
  <1>2. /\ d \in [0..FATZ -> Gran \cup {255}] /\ d[0] = g
        /\ \A k \in 1..FATZ : d[k] = Link(f2)[d[k - 1]]
    BY ChainStep
  <1> HIDE DEF c, d
  <1>3. \A b \in C \cup {255} : Link(f2)[b] = Link(f)[b] /\ Link(f)[b] \in C \cup {255}
    BY LinkType
  <1> DEFINE T == {k \in Nat : k <= FATZ => d[k] = c[k] /\ c[k] \in C \cup {255}}
  <1>4. 0 \in T
    BY <1>1, <1>2
  <1>5. ASSUME NEW k \in Nat, k \in T PROVE k + 1 \in T
    <2> SUFFICES ASSUME k + 1 <= FATZ PROVE d[k + 1] = c[k + 1] /\ c[k + 1] \in C \cup {255}
      OBVIOUS
    <2>1. k <= FATZ /\ k + 1 \in 1..FATZ /\ k + 1 - 1 = k
      BY <1>0
    <2>2. d[k] = c[k] /\ c[k] \in C \cup {255}
      BY <1>5, <2>1
    <2>3. c[k + 1] = Link(f)[c[k]] /\ d[k + 1] = Link(f2)[d[k]]
      BY <1>1, <1>2, <2>1
    <2> QED BY <1>3, <2>2, <2>3
  <1> HIDE DEF T
  <1>6. \A k \in Nat : k \in T
    BY <1>4, <1>5, Induction
  <1>7. \A k \in 0..FATZ : d[k] = c[k] /\ c[k] \in C \cup {255}
    BY <1>0, <1>6 DEF T
  <1>8. d = c
    <2>1. \A k \in 0..FATZ : d[k] = c[k]
      BY <1>7
    <2>2. d = [k \in 0..FATZ |-> d[k]] /\ c = [k \in 0..FATZ |-> c[k]]
      BY <1>1, <1>2
    <2> QED BY <2>1, <2>2, Zenon
  <1> QED BY <1>7, <1>8 DEF c, d

(* Where a chain ends it has as many granules as it took to get there. *)
LEMMA ChainEnds ==
    ASSUME NEW f \in [Gran -> FatByte], NEW g \in Gran \cup {255}, NEW m \in 0..FATZ,
           Chain(f, g)[m] \in Gran, f[Chain(f, g)[m]] \notin Gran
    PROVE  /\ g \in Gran
           /\ \A k \in 0..m : Chain(f, g)[k] \in Gran
           /\ ChainLen(f, g) = m + 1
  <1> DEFINE c == Chain(f, g)
  <1>0. FATZ \in Nat /\ m \in Nat /\ m <= FATZ
    BY SizesAssumption
  <1>1. /\ c \in [0..FATZ -> Gran \cup {255}] /\ c[0] = g
        /\ \A k \in 1..FATZ : c[k] = Link(f)[c[k - 1]]
    BY ChainStep
  <1>2. \A k \in 0..(m - 1) : c[k] \in Gran
    BY ChainPrefix
  <1>3. \A k \in 0..m : c[k] \in Gran
    <2>1. \A k \in 0..m : k \in 0..(m - 1) \/ k = m
      BY <1>0
    <2> QED BY <1>2, <2>1
  <1> DEFINE T == {j \in Nat : m + 1 + j <= FATZ => c[m + 1 + j] = 255}
  <1>4. c[m] \in Gran /\ f[c[m]] \notin Gran
    OBVIOUS
  <1>5. ChainLen(f, g) = Cardinality({k \in 0..FATZ : c[k] # 255})
    BY DEF ChainLen
  <1> HIDE DEF c
  <1>6. 0 \in T
    <2>1. ASSUME m + 1 <= FATZ PROVE c[m + 1] = 255
      <3>1. m + 1 \in 1..FATZ /\ m + 1 - 1 = m
        BY <1>0, <2>1
      <3>2. c[m + 1] = Link(f)[c[m]]
        BY <1>1, <3>1
      <3> QED BY <1>4, <3>2, LinkType
    <2>2. m + 1 + 0 = m + 1
      BY <1>0
    <2> QED BY <2>1, <2>2
  <1>7. ASSUME NEW j \in Nat, j \in T PROVE j + 1 \in T
    <2> SUFFICES ASSUME m + 1 + (j + 1) <= FATZ PROVE c[m + 1 + (j + 1)] = 255
      OBVIOUS
    <2>1. /\ m + 1 + (j + 1) \in 1..FATZ /\ m + 1 + (j + 1) - 1 = m + 1 + j
          /\ m + 1 + j <= FATZ
      BY <1>0
    <2>2. c[m + 1 + (j + 1)] = Link(f)[c[m + 1 + j]]
      BY <1>1, <2>1
    <2> QED BY <1>7, <2>1, <2>2, LinkType
  <1> HIDE DEF T
  <1>8. \A j \in Nat : j \in T
    BY <1>6, <1>7, Induction
  <1>9. ASSUME NEW k \in (m + 1)..FATZ PROVE c[k] = 255
    <2>1. k - (m + 1) \in Nat /\ m + 1 + (k - (m + 1)) = k
      BY <1>0
    <2> QED BY <1>8, <2>1 DEF T
  <1>10. {k \in 0..FATZ : c[k] # 255} = 0..m
    <2>1. 255 \notin Gran
      BY ByteValues DEF FREE
    <2>2. \A k \in 0..FATZ : k \in 0..m \/ k \in (m + 1)..FATZ
      BY <1>0
    <2>3. 0..m \subseteq 0..FATZ
      BY <1>0
    <2>4. \A k \in (m + 1)..FATZ : k \notin 0..m
      BY <1>0
    <2> QED BY <1>3, <1>9, <2>1, <2>2, <2>3, <2>4
  <1>11. Cardinality(0..m) = m + 1
    BY <1>0, FS_Interval
  <1>12. g \in Gran
    BY <1>0, <1>1, <1>3
  <1> QED BY <1>3, <1>5, <1>10, <1>11, <1>12 DEF c

-----------------------------------------------------------------------------
(* Files *)

(* The granule of a chain, and the place in it, where byte i of a file is. *)
LEMMA Place ==
    ASSUME NEW i \in Nat, i >= 1, NEW m \in Nat
    PROVE  /\ (i - 1) \div GRANZ \in Nat /\ 1 + ((i - 1) % GRANZ) \in 1..GRANZ
           /\ i = ((i - 1) \div GRANZ) * GRANZ + (1 + ((i - 1) % GRANZ))
           /\ i <= m * GRANZ => (i - 1) \div GRANZ <= m - 1
           /\ i > m * GRANZ => (i - 1) \div GRANZ >= m
           /\ i <= m * GRANZ + GRANZ => (i - 1) \div GRANZ <= m
  <1> DEFINE G == GRANZ
  <1>1. G \in Nat /\ G > 0
    BY GranzPositive
  <1> HIDE DEF G
  <1>2. PICK q \in Nat, r \in 0..(G - 1) : i - 1 = q * G + r
    <2>1. (i - 1) \div G \in Nat /\ (i - 1) % G \in 0..(G - 1)
          /\ i - 1 = ((i - 1) \div G) * G + ((i - 1) % G)
      BY <1>1, SMTT(30)
    <2> QED BY <2>1
  <1>3. (i - 1) \div G = q /\ (i - 1) % G = r
    BY <1>1, <1>2, SMTT(30)
  <1>4. i = q * G + (1 + r) /\ 1 + r \in 1..G
    BY <1>1, <1>2
  <1>5. ASSUME q >= m PROVE i > m * G
    <2>1. q * G >= m * G
      BY <1>1, <1>5, SMTT(30)
    <2>2. q * G \in Nat /\ m * G \in Nat
      BY <1>1, SMTT(30)
    <2> QED BY <1>4, <2>1, <2>2
  <1>6. ASSUME q <= m - 1 PROVE i <= m * G
    <2>1. (q + 1) * G <= m * G
      BY <1>1, <1>6, SMTT(30)
    <2>2. q * G \in Nat /\ m * G \in Nat /\ (q + 1) * G = q * G + G
      BY <1>1, SMTT(30)
    <2> QED BY <1>1, <1>4, <2>1, <2>2
  <1>7. ASSUME q >= m + 1 PROVE i > m * G + G
    <2>1. q * G >= (m + 1) * G
      BY <1>1, <1>7, SMTT(30)
    <2>2. q * G \in Nat /\ m * G \in Nat /\ (m + 1) * G = m * G + G
      BY <1>1, SMTT(30)
    <2> QED BY <1>1, <1>4, <2>1, <2>2
  <1>8. m * G \in Nat
    BY <1>1, SMTT(30)
  <1> QED BY <1>1, <1>3, <1>4, <1>5, <1>6, <1>7, <1>8 DEF G

LEMMA EndByte ==
    ASSUME NEW f, NEW c, NEW m, NEW rem, Ends(f, c, m, rem)
    PROVE  f[c[m]] \notin Gran /\ f[c[m]] # FREE /\ IsLast(f[c[m]])
  BY ByteValues DEF Ends

LEMMA FileWhole ==
    ASSUME NEW f \in [Gran -> FatByte], NEW gr, NEW e, e.first \in Gran,
           NEW m \in 0..(FATZ - 1), Ends(f, Chain(f, e.first), m, e.rem)
    PROVE  FileOf(f, gr, e) = File(Bytes(f, gr, Chain(f, e.first), m, e.rem))
  <1> DEFINE c == Chain(f, e.first)
  <1>1. m \in 0..FATZ /\ m \in Nat
    BY SizesAssumption
  <1>2. c[m] \in Gran /\ f[c[m]] \notin Gran /\ f[c[m]] # FREE
    BY EndByte DEF Ends
  <1>3. ChainLen(f, e.first) = m + 1
    BY <1>1, <1>2, ChainEnds
  <1>4. ChainLen(f, e.first) - 1 = m
    BY <1>1, <1>3
  <1> QED BY <1>2, <1>4 DEF FileOf, FileOn

(* A file only depends on the links and contents of granules its chain     *)
(* cannot leave. *)
LEMMA SameFile ==
    ASSUME NEW f \in [Gran -> FatByte], NEW f2 \in [Gran -> FatByte], NEW gr, NEW gr2,
           NEW C \in SUBSET Gran, NEW e, e.first \in C,
           \A h \in C : f2[h] = f[h] /\ (f[h] \in Gran => f[h] \in C),
           \A h \in C : gr2[h] = gr[h],
           Whole(f, e)
    PROVE  Whole(f2, e) /\ FileOf(f2, gr2, e) = FileOf(f, gr, e)
  <1> DEFINE c == Chain(f, e.first)
  <1>1. PICK m \in 0..(FATZ - 1) : Ends(f, c, m, e.rem)
    BY DEF Whole
  <1>2. /\ Chain(f2, e.first) = c
        /\ \A k \in 0..FATZ : c[k] \in C \cup {255}
    BY ChainClosed
  <1>3. m \in Nat /\ m \in 0..FATZ /\ e.first \in Gran
    BY SizesAssumption
  <1>4. c[m] \in Gran /\ f[c[m]] \notin Gran
    BY <1>1, EndByte DEF Ends
  <1>5. \A k \in 0..m : c[k] \in C
    <2>1. \A k \in 0..m : c[k] \in Gran
      BY <1>3, <1>4, ChainEnds
    <2>2. 255 \notin Gran /\ \A k \in 0..m : k \in 0..FATZ
      BY <1>3, ByteValues, SizesAssumption DEF FREE
    <2> QED BY <1>2, <2>1, <2>2
  <1> DEFINE T == TailBytes(f[c[m]], e.rem)
  <1>6. f2[c[m]] = f[c[m]] /\ T \in 0..(GRANZ - 1)
    BY <1>1, <1>3, <1>5 DEF Ends
  <1>7. Ends(f2, Chain(f2, e.first), m, e.rem)
    BY <1>1, <1>2, <1>6 DEF Ends
  <1>8. FileOf(f, gr, e) = File(Bytes(f, gr, c, m, e.rem))
    BY <1>1, <1>3, FileWhole
  <1>9. FileOf(f2, gr2, e) = File(Bytes(f2, gr2, c, m, e.rem))
    BY <1>2, <1>3, <1>7, FileWhole
  <1>10. Bytes(f2, gr2, c, m, e.rem) = Bytes(f, gr, c, m, e.rem)
    <2> HIDE DEF T, c
    <2>1. GRANZ \in Nat /\ m * GRANZ \in Nat
      BY <1>3, GranzPositive, SMTT(20)
    <2>2. ASSUME NEW i \in 1..(m * GRANZ + T)
          PROVE  gr2[c[(i - 1) \div GRANZ]] = gr[c[(i - 1) \div GRANZ]]
      <3>1. i \in Nat /\ i >= 1 /\ i <= m * GRANZ + GRANZ
        BY <1>6, <2>1
      <3>2. (i - 1) \div GRANZ \in Nat /\ (i - 1) \div GRANZ <= m
        BY <1>3, <3>1, Place
      <3>3. (i - 1) \div GRANZ \in 0..m
        BY <1>3, <3>2
      <3> QED BY <1>5, <3>3
    <2> QED BY <1>6, <2>2, Zenon DEF Bytes, T
  <1>11. Whole(f2, e)
    BY <1>3, <1>7 DEF Whole
  <1> QED BY <1>8, <1>9, <1>10, <1>11

(* A file is what it was when only free granules were taken, *)
LEMMA SameInUse ==
    ASSUME NEW f \in [Gran -> FatByte], NEW f2 \in [Gran -> FatByte], NEW gr, NEW gr2,
           NEW d, NEW S, NEW own, Disjoint(f, d, S, own), NEW i \in S, Whole(f, d[i]),
           \A h \in Gran : f[h] # FREE => f2[h] = f[h] /\ gr2[h] = gr[h]
    PROVE  Whole(f2, d[i]) /\ FileOf(f2, gr2, d[i]) = FileOf(f, gr, d[i])
  <1> DEFINE C == {h \in Gran : f[h] # FREE}
  <1>1. d[i].first \in C
    BY DEF Disjoint
  <1>2. \A h \in C : f2[h] = f[h] /\ (f[h] \in Gran => f[h] \in C) /\ gr2[h] = gr[h]
    BY DEF Disjoint
  <1>3. C \in SUBSET Gran
    OBVIOUS
  <1> HIDE DEF C
  <1> QED BY <1>1, <1>2, <1>3, SameFile

(* when the head of another chain was freed, *)
LEMMA SameWithout ==
    ASSUME NEW f \in [Gran -> FatByte], NEW f2 \in [Gran -> FatByte], NEW gr,
           NEW d, NEW S, NEW z \in Gran, Disjoint(f, d, S, z), NEW i \in S, Whole(f, d[i]),
           \A h \in Gran \ {z} : f2[h] = f[h]
    PROVE  Whole(f2, d[i]) /\ FileOf(f2, gr, d[i]) = FileOf(f, gr, d[i])
  <1> DEFINE C == Gran \ {z}
  <1>1. d[i].first \in C
    BY DEF Disjoint
  <1>2. \A h \in C : f2[h] = f[h] /\ (f[h] \in Gran => f[h] \in C) /\ gr[h] = gr[h]
    BY DEF Disjoint
  <1>3. C \in SUBSET Gran
    OBVIOUS
  <1> HIDE DEF C
  <1> QED BY <1>1, <1>2, <1>3, SameFile

(* and when granules B were changed that nothing leads to. *)
LEMMA SameBeside ==
    ASSUME NEW f \in [Gran -> FatByte], NEW f2 \in [Gran -> FatByte], NEW gr, NEW gr2,
           NEW e, e.first \in Gran, Whole(f, e),
           NEW B, e.first \notin B, \A h \in Gran : f[h] \notin B,
           \A h \in Gran \ B : f2[h] = f[h] /\ gr2[h] = gr[h]
    PROVE  Whole(f2, e) /\ FileOf(f2, gr2, e) = FileOf(f, gr, e)
  <1> DEFINE C == Gran \ B
  <1>1. e.first \in C
    OBVIOUS
  <1>2. \A h \in C : f2[h] = f[h] /\ (f[h] \in Gran => f[h] \in C) /\ gr2[h] = gr[h]
    OBVIOUS
  <1>3. C \in SUBSET Gran
    OBVIOUS
  <1> HIDE DEF C
  <1> QED BY <1>1, <1>2, <1>3, SameFile

(* A granule is hung on the end of a chain. *)
LEMMA ChainAppend ==
    ASSUME NEW f \in [Gran -> FatByte], NEW g \in Gran, NEW m \in 0..(FATZ - 2),
           NEW z \in Gran, Chain(f, g)[m] = z, f[z] = LastByte(0),
           NEW h \in Gran, f[h] = FREE,
           NEW f2 \in [Gran -> FatByte], f2[z] = h,
           \A k \in Gran : k # z /\ k # h => f2[k] = f[k]
    PROVE  /\ \A k \in 0..m : Chain(f2, g)[k] = Chain(f, g)[k]
           /\ \A k \in 0..(m - 1) : Chain(f, g)[k] \in Gran /\ Chain(f, g)[k] # z
           /\ Chain(f2, g)[m + 1] = h
  <1>1. m \in 0..FATZ /\ m \in Nat /\ m + 1 \in 1..FATZ /\ m + 1 - 1 = m
    BY SizesAssumption
  <1>2. \A k \in 0..(m - 1) : /\ Chain(f, g)[k] \in Gran
                              /\ f[Chain(f, g)[k]] = Chain(f, g)[k + 1]
                              /\ Chain(f, g)[k + 1] \in Gran
    BY <1>1, ChainPrefix
  <1>3. \A k \in 0..(m - 1) : Chain(f, g)[k] # z /\ Chain(f, g)[k] # h
    BY <1>2, ByteValues
  <1>4. \A k \in 0..m : Chain(f2, g)[k] = Chain(f, g)[k]
    BY <1>1, <1>2, <1>3, ChainSame
  <1>5. Chain(f2, g)[m + 1] = Link(f2)[z]
    <2>1. m \in 0..m
      BY <1>1
    <2> QED BY <1>1, <1>4, <2>1, ChainStep
  <1> QED BY <1>2, <1>3, <1>4, <1>5, LinkType

-----------------------------------------------------------------------------
(* What put writes *)

LEMMA GivenType ==
    ASSUME NEW s \in Seq(Byte)
    PROVE  /\ NlToCr(s) \in Seq(Byte) /\ Len(NlToCr(s)) = Len(s)
           /\ \A i \in 1..Len(s) : NlToCr(s)[i] = IF s[i] = NL THEN CR ELSE s[i]
  <1>1. DOMAIN s = 1..Len(s) /\ Len(s) \in Nat
    OBVIOUS
  <1>2. NlToCr(s) \in Seq(Byte)
    BY TranslateType
  <1>3. NlToCr(s) = [i \in 1..Len(s) |-> IF s[i] = NL THEN CR ELSE s[i]]
    BY <1>1 DEF NlToCr
  <1>4. Len(NlToCr(s)) = Len(s)
    BY <1>1, <1>2, <1>3
  <1> QED BY <1>2, <1>3, <1>4

(* Translating a part of the host file gives that part of the translation. *)
LEMMA GivenPart ==
    ASSUME NEW s \in Seq(Byte), NEW t \in Seq(Byte), NEW k \in Nat,
           \A i \in 1..Len(t) : k + i <= Len(s) /\ t[i] = s[k + i],
           NEW fl
    PROVE  \A i \in 1..Len(t) :
               (IF fl THEN NlToCr(t) ELSE t)[i] = (IF fl THEN NlToCr(s) ELSE s)[k + i]
  <1> SUFFICES ASSUME NEW i \in 1..Len(t)
               PROVE  (IF fl THEN NlToCr(t) ELSE t)[i] = (IF fl THEN NlToCr(s) ELSE s)[k + i]
    OBVIOUS
  <1>1. k + i \in 1..Len(s) /\ t[i] = s[k + i]
    OBVIOUS
  <1>2. NlToCr(t)[i] = NlToCr(s)[k + i]
    BY <1>1, GivenType
  <1> QED BY <1>1, <1>2

(* After a granule was written at the cursor, which is not earlier on the  *)
(* chain, the chain holds so many more bytes. *)
Wrote(c, m, s, t) ==
    \A i \in 1..(m * GRANZ + Len(t)) :
        WriteGran(t)[c[(i - 1) \div GRANZ]][1 + ((i - 1) % GRANZ)] = s[i]

LEMMA Written ==
    ASSUME gran \in [Gran -> [1..GRANZ -> Byte]], x \in Gran,
           NEW m \in Nat, NEW c, c[m] = x,
           \A k \in 0..(m - 1) : c[k] \in Gran /\ c[k] # x,
           NEW s, Begun(gran, c, m, s),
           NEW t \in Seq(Byte), Len(t) <= GRANZ, \A j \in 1..Len(t) : t[j] = s[m * GRANZ + j]
    PROVE  Wrote(c, m, s, t)
  <1> SUFFICES ASSUME NEW i \in 1..(m * GRANZ + Len(t))
               PROVE  WriteGran(t)[c[(i - 1) \div GRANZ]][1 + ((i - 1) % GRANZ)] = s[i]
    BY DEF Wrote
  <1> DEFINE q == (i - 1) \div GRANZ
             j == 1 + ((i - 1) % GRANZ)
             G == GRANZ
  <1>1. G \in Nat /\ m * G \in Nat /\ Len(t) \in Nat /\ Len(t) <= G
    BY GranzPositive, SMTT(20)
  <1>2. i \in Nat /\ i >= 1 /\ i <= m * G + G
    BY <1>1
  <1>3. /\ q \in Nat /\ j \in 1..G /\ i = q * G + j
        /\ i <= m * G => q <= m - 1
        /\ i > m * G => q >= m
        /\ i <= m * G + G => q <= m
    BY <1>2, Place
  <1> HIDE DEF q, j
  <1>4. CASE i <= m * G
    <2>1. q \in 0..(m - 1) /\ i \in 1..(m * GRANZ)
      BY <1>1, <1>2, <1>3, <1>4
    <2>2. c[q] \in Gran /\ c[q] # x
      BY <2>1
    <2>3. WriteGran(t)[c[q]] = gran[c[q]]
      BY <2>2 DEF WriteGran
    <2>4. gran[c[q]][j] = s[i]
      BY <2>1 DEF Begun, q, j
    <2> QED BY <2>3, <2>4 DEF q, j
  <1>5. CASE i > m * G
    <2>1. q = m /\ i = m * G + j
      BY <1>2, <1>3, <1>5
    <2>2. j \in 1..G /\ j \in 1..Len(t) /\ j <= Len(t)
      BY <1>1, <1>3, <2>1
    <2>3. WriteGran(t)[x] = Overlay(gran[x], t)
      BY DEF WriteGran
    <2>4. Overlay(gran[x], t)[j] = t[j]
      BY <2>2 DEF Overlay, G
    <2>5. t[j] = s[i]
      BY <2>1, <2>2
    <2>6. c[q] = x
      BY <2>1
    <2> HIDE DEF G
    <2>7. WriteGran(t)[c[q]][j] = s[i]
      BY <2>3, <2>4, <2>5, <2>6
    <2> QED BY <2>7 DEF q, j
  <1> QED BY <1>1, <1>2, <1>4, <1>5

(* So many granules fit in n bytes. *)
LEMMA GranulesIn ==
    ASSUME NEW n \in Nat, NEW k \in Nat, k * GRANZ <= n
    PROVE  n \div GRANZ \in Nat /\ k <= n \div GRANZ
  <1> DEFINE G == GRANZ
  <1>1. G \in Nat /\ G > 0 /\ k * G <= n
    BY GranzPositive
  <1> HIDE DEF G
  <1>2. n \div G \in Nat /\ n < (n \div G + 1) * G
    BY <1>1, SMTT(30)
  <1>3. ASSUME k >= n \div G + 1 PROVE FALSE
    <2>1. k * G >= (n \div G + 1) * G
      BY <1>1, <1>2, <1>3, SMTT(30)
    <2>2. k * G \in Nat /\ (n \div G + 1) * G \in Nat
      BY <1>1, <1>2, SMTT(30)
    <2> QED BY <1>1, <1>2, <2>1, <2>2
  <1> QED BY <1>2, <1>3 DEF G

(* The FAT byte and the remainder put stores give the number of bytes. *)
LEMMA TailLength ==
    ASSUME NEW n \in Nat, n < GRANZ
    PROVE  TailBytes(LastByte((n + SECZ - 1) \div SECZ), n % SECZ) = n
  <1>1. SECZ \in Nat /\ SECZ > 0
    BY SizesAssumption
  <1>2. PICK q \in Nat, r \in 0..(SECZ - 1) : n = q * SECZ + r
    <2>1. n \div SECZ \in Nat /\ n % SECZ \in 0..(SECZ - 1)
          /\ n = (n \div SECZ) * SECZ + (n % SECZ)
      BY <1>1, SMTT(30)
    <2> QED BY <2>1
  <1>3. n % SECZ = r
    BY <1>1, <1>2, SMTT(30)
  <1>4. r = 0 => (n + SECZ - 1) \div SECZ = q
    BY <1>1, <1>2, SMTT(30)
  <1>5. r # 0 => (n + SECZ - 1) \div SECZ = q + 1
    BY <1>1, <1>2, SMTT(30)
  <1>6. \A k \in Nat : LastByte(k) - LastByte(0) = k
    BY DEF LastByte
  <1> DEFINE k == (n + SECZ - 1) \div SECZ
             b == LastByte(k) - LastByte(0)
  <1>7. TailBytes(LastByte(k), r) = IF r = 0 THEN b * SECZ ELSE (b - 1) * SECZ + r
    BY Zenon DEF TailBytes
  <1>8. CASE r = 0
    <2>1. b = q
      BY <1>2, <1>4, <1>6, <1>8
    <2> HIDE DEF b, k
    <2>2. q * SECZ + 0 = q * SECZ
      BY <1>1, <1>2, SMTT(20)
    <2>3. n = q * SECZ
      BY <1>2, <1>8, <2>2
    <2>4. TailBytes(LastByte(k), r) = b * SECZ
      BY <1>7, <1>8
    <2> QED BY <1>3, <2>1, <2>3, <2>4 DEF k
  <1>9. CASE r # 0
    <2>1. b = q + 1 /\ b - 1 = q
      BY <1>2, <1>5, <1>6, <1>9
    <2> HIDE DEF b, k
    <2>2. TailBytes(LastByte(k), r) = (b - 1) * SECZ + r
      BY <1>7, <1>9
    <2> QED BY <1>2, <1>3, <2>1, <2>2 DEF k
  <1> QED BY <1>8, <1>9

-----------------------------------------------------------------------------
(* The invariant, command by command *)

LEMMA NotGetting == job.op # "get" => GetFaithful
  BY DEF GetFaithful, LastGet

LEMMA ExitFiles ==
    ASSUME Exit("ok") \/ Exit("err"), job'.op \in Op, Sound(fat', dir'),
           AllWhole(fat', dir', LiveSlots(dir')), GetFaithful'
    PROVE  FilesInv'
  BY DEF Exit, FilesInv, PutFiles, RmFiles, GetFiles, RestFiles, Running

LEMMA PutFullFiles ==
    ASSUME RoomAssumed, TypeOK, TypeOK', SoundInv, FilesInv, fails = 0, PutFull
    PROVE  FilesInv'
  <1>1. /\ pc = "put" /\ pc' = "put" /\ Len(src) >= GRANZ
        /\ UNCHANGED <<fat, dir, job, entry, off, dst, fails>>
        /\ src' = AfterChunk(src)
        /\ gran' = WriteGran(IF "l" \in job.flags THEN NlToCr(Chunk(src)) ELSE Chunk(src))
    BY DEF PutFull
  <1>2. /\ job.op = "put" /\ OnlyAdds /\ job.file \in HostFiles
        /\ Needs(job.file) <= FATZ /\ fat[x] = FREE
        /\ Sound(fat, dir) /\ AllWhole(fat, dir, LiveSlots(dir))
        /\ x \in Gran /\ mfat[x] = LastByte(0) /\ entry.first \in Gran
    BY <1>1 DEF FilesInv, PutFiles, RestFiles, Running, SoundInv, PutInv, PutSlotInv
  <1> DEFINE c == Chain(mfat, entry.first)
  <1>3. PICK m \in 0..(FATZ - 1) :
          /\ c[m] = x /\ m * GRANZ + Len(src) = Len(job.file)
          /\ \A j \in 1..Len(src) : src[j] = job.file[m * GRANZ + j]
          /\ Begun(gran, c, m, Given)
    BY <1>1 DEF FilesInv, PutFiles
  <1>4. PICK g \in FreeGrans(mfat) :
          /\ mfat' = Store(Store(mfat, g, LastByte(0)), x, g) /\ x' = g
          /\ g \in Gran /\ mfat[g] = FREE /\ g # x
    BY FindsRoom
  <1>5. /\ mfat'[g] = LastByte(0) /\ mfat'[x] = g
        /\ \A h \in Gran : h # g /\ h # x => mfat'[h] = mfat[h]
    BY <1>2, <1>4, ByteValues DEF Store, TypeOK
  <1>6. /\ src \in Seq(Byte) /\ job.file \in Seq(Byte) /\ mfat \in [Gran -> FatByte]
        /\ mfat' \in [Gran -> FatByte] /\ gran \in [Gran -> [1..GRANZ -> Byte]]
    BY <1>2, DataAssumption DEF TypeOK
  <1>7. /\ GRANZ \in Nat /\ GRANZ > 0 /\ m * GRANZ \in Nat /\ (m + 1) * GRANZ = m * GRANZ + GRANZ
        /\ m \in Nat /\ m \in 0..FATZ /\ Len(src) \in Nat /\ Len(job.file) \in Nat
    BY <1>6, GranzPositive, SizesAssumption, SMTT(30)
  (* There is room for another granule on the chain. *)
  <1>8. m + 1 \in 0..(FATZ - 1) /\ m \in 0..(FATZ - 2)
    <2>1. (m + 1) * GRANZ <= Len(job.file) /\ m + 1 \in Nat
      BY <1>1, <1>3, <1>7
    <2> DEFINE n == Len(job.file) \div GRANZ
    <2>2. m + 1 <= n /\ n \in Nat
      BY <1>7, <2>1, GranulesIn
    <2>3. n + 1 <= FATZ
      BY <1>2 DEF Needs
    <2>4. FATZ \in Nat
      BY SizesAssumption
    <2> HIDE DEF n
    <2> QED BY <1>7, <2>2, <2>3, <2>4
  <1>9. OnlyAdds' /\ fat'[x'] = FREE
    <2>1. fat[g] = FREE
      BY <1>2, <1>4 DEF OnlyAdds
    <2>2. \A h \in Gran : fat[h] # FREE => mfat'[h] = fat[h]
      BY <1>2, <1>5, <2>1 DEF OnlyAdds
    <2> QED BY <1>1, <1>4, <2>1, <2>2 DEF OnlyAdds
  <1> HIDE DEF c
  <1>a. PICK f2 \in [Gran -> FatByte] : f2 = mfat'
    BY <1>6
  <1> DEFINE d == Chain(f2, entry.first)
  <1>10. /\ \A k \in 0..m : d[k] = c[k]
         /\ \A k \in 0..(m - 1) : c[k] \in Gran /\ c[k] # x
         /\ d[m + 1] = g
    <2>1. f2[x] = g /\ \A k \in Gran : k # x /\ k # g => f2[k] = mfat[k]
      BY <1>5, <1>a
    <2>2. Chain(mfat, entry.first)[m] = x
      BY <1>3 DEF c
    <2>3. entry.first \in Gran /\ x \in Gran /\ mfat[x] = LastByte(0)
      BY <1>2
    <2>4. mfat \in [Gran -> FatByte] /\ g \in Gran /\ mfat[g] = FREE
      BY <1>4, <1>6
    <2> HIDE <1>a
    <2> QED BY <1>8, <2>1, <2>2, <2>3, <2>4, ChainAppend DEF c
  <1> DEFINE t == Chunk(src)
             u == IF "l" \in job.flags THEN NlToCr(t) ELSE t
  <1>11. /\ t \in Seq(Byte) /\ Len(t) = GRANZ
         /\ \A j \in 1..GRANZ : t[j] = job.file[m * GRANZ + j]
    <2>1. t = SubSeq(src, 1, GRANZ)
      BY <1>1, <1>7 DEF Chunk
    <2>2. t \in Seq(Byte) /\ Len(t) = GRANZ /\ \A j \in 1..GRANZ : t[j] = src[j]
      BY <1>1, <1>6, <1>7, <2>1
    <2>3. \A j \in 1..GRANZ : j \in 1..Len(src)
      BY <1>1, <1>7
    <2> QED BY <1>3, <2>2, <2>3
  <1> HIDE DEF c, d, t
  <1>12. u \in Seq(Byte) /\ Len(u) = GRANZ /\ \A j \in 1..Len(u) : u[j] = Given[m * GRANZ + j]
    <2>1. \A j \in 1..Len(t) : m * GRANZ + j <= Len(job.file) /\ t[j] = job.file[m * GRANZ + j]
      BY <1>1, <1>3, <1>7, <1>11
    <2>2. \A j \in 1..Len(t) : u[j] = Given[m * GRANZ + j]
      <3> DEFINE fl == "l" \in job.flags
      <3>1. \A j \in 1..Len(t) : (IF fl THEN NlToCr(t) ELSE t)[j]
                                 = (IF fl THEN NlToCr(job.file) ELSE job.file)[m * GRANZ + j]
        <4> HIDE DEF fl
        <4> QED BY <1>6, <1>7, <1>11, <2>1, GivenPart
      <3> QED BY <3>1 DEF Given
    <2> QED BY <1>11, <2>2, GivenType
  <1>13. \A i \in 1..(m * GRANZ + GRANZ) :
           WriteGran(u)[c[(i - 1) \div GRANZ]][1 + ((i - 1) % GRANZ)] = Given[i]
    <2> HIDE DEF u
    <2>1. Len(u) <= GRANZ
      BY <1>7, <1>12
    <2>2. c[m] = x /\ x \in Gran /\ m \in Nat /\ Begun(gran, c, m, Given)
      BY <1>2, <1>3, <1>7
    <2>3. /\ gran \in [Gran -> [1..GRANZ -> Byte]]
          /\ \A k \in 0..(m - 1) : c[k] \in Gran /\ c[k] # x
      BY <1>6, <1>10
    <2>4. Wrote(c, m, Given, u)
      BY <1>12, <2>1, <2>2, <2>3, Written
    <2> QED BY <1>12, <2>4, Zenon DEF Wrote
  <1>14. Begun(gran', d, m + 1, Given)
    <2> SUFFICES ASSUME NEW i \in 1..((m + 1) * GRANZ)
                 PROVE  gran'[d[(i - 1) \div GRANZ]][1 + ((i - 1) % GRANZ)] = Given[i]
      BY DEF Begun
    <2>1. i \in 1..(m * GRANZ + GRANZ) /\ i \in Nat /\ i >= 1 /\ i <= m * GRANZ + GRANZ
      BY <1>7
    <2>2. (i - 1) \div GRANZ \in Nat /\ (i - 1) \div GRANZ <= m
      BY <1>7, <2>1, Place
    <2>3. (i - 1) \div GRANZ \in 0..m
      BY <1>7, <2>2
    <2>4. d[(i - 1) \div GRANZ] = c[(i - 1) \div GRANZ]
      BY <1>10, <2>3
    <2>5. gran' = WriteGran(u)
      BY <1>1 DEF t
    <2> QED BY <1>13, <2>1, <2>4, <2>5
  <1>15. /\ (m + 1) * GRANZ + Len(src') = Len(job.file)
         /\ \A j \in 1..Len(src') : src'[j] = job.file[(m + 1) * GRANZ + j]
    <2>1. src' = SubSeq(src, GRANZ + 1, Len(src))
      BY <1>1, <1>11 DEF AfterChunk, t
    <2>2. Len(src') = Len(src) - GRANZ /\ \A j \in 1..Len(src') : src'[j] = src[GRANZ + j]
      BY <1>1, <1>6, <1>7, <2>1
    <2>3. \A j \in 1..Len(src') : GRANZ + j \in 1..Len(src)
      BY <1>1, <1>7, <2>2
    <2>4. \A j \in 1..Len(src') : m * GRANZ + (GRANZ + j) = (m + 1) * GRANZ + j
      BY <1>1, <1>7, <2>2
    <2>5. (m + 1) * GRANZ + Len(src') = Len(job.file)
      <3> DEFINE a == m * GRANZ
                 b == (m + 1) * GRANZ
                 l == Len(src)
                 l2 == Len(src')
                 h == Len(job.file)
      <3>1. b = a + GRANZ /\ a + l = h /\ l2 = l - GRANZ
        BY <1>3, <1>7, <2>2
      <3>2. a \in Nat /\ l \in Nat /\ h \in Nat /\ GRANZ \in Nat
        BY <1>7
      <3> HIDE DEF a, b, l, l2, h
      <3>3. b + l2 = h
        BY <3>1, <3>2
      <3> QED BY <3>3 DEF b, l2, h
    <2>6. \A j \in 1..Len(src') : src'[j] = job.file[(m + 1) * GRANZ + j]
      BY <1>3, <2>2, <2>3, <2>4
    <2> QED BY <2>5, <2>6
  <1>16. Given' = Given
    BY <1>1 DEF Given
  <1>17. PutFiles'
    <2>1. Chain(mfat', entry'.first) = d
      BY <1>1, <1>a DEF d
    <2>2. \E k \in 0..(FATZ - 1) :
            /\ Chain(mfat', entry'.first)[k] = x'
            /\ k * GRANZ + Len(src') = Len(job'.file)
            /\ \A j \in 1..Len(src') : src'[j] = job'.file[k * GRANZ + j]
            /\ Begun(gran', Chain(mfat', entry'.first), k, Given')
      BY <1>1, <1>4, <1>8, <1>10, <1>14, <1>15, <1>16, <2>1
    <2> QED BY <1>1, <1>2, <1>9, <2>2 DEF PutFiles
  <1>18. RestFiles' /\ job'.op \in Running'[pc']
    BY <1>1, <1>2 DEF RestFiles, Running
  <1> QED BY <1>1, <1>2, <1>17, <1>18, NotGetting DEF FilesInv, RmFiles, GetFiles, GetFaithful, LastGet

LEMMA PutTailFiles ==
    ASSUME TypeOK, TypeOK', SoundInv, FilesInv, fails = 0, PutTail
    PROVE  FilesInv'
  <1> DEFINE k == (Len(src) + SECZ - 1) \div SECZ
             r == Len(src) % SECZ
             u == IF "l" \in job.flags THEN NlToCr(src) ELSE src
  <1>1. /\ pc = "put" /\ pc' = "put_entry" /\ Len(src) < GRANZ
        /\ UNCHANGED <<fat, dir, job, off, dst, fails>>
        /\ entry' = [name |-> job.name, first |-> entry.first, rem |-> r]
        /\ mfat' = Store(mfat, x, LastByte(k))
        /\ gran' = WriteGran(u)
    BY DEF PutTail
  <1>2. /\ job.op = "put" /\ OnlyAdds /\ job.file \in HostFiles /\ fat[x] = FREE
        /\ Sound(fat, dir) /\ AllWhole(fat, dir, LiveSlots(dir))
        /\ x \in Gran /\ mfat[x] = LastByte(0) /\ entry.first \in Gran
    BY <1>1 DEF FilesInv, PutFiles, RestFiles, Running, SoundInv, PutInv, PutSlotInv
  <1> DEFINE c == Chain(mfat, entry.first)
  <1>3. PICK m \in 0..(FATZ - 1) :
          /\ c[m] = x /\ m * GRANZ + Len(src) = Len(job.file)
          /\ \A j \in 1..Len(src) : src[j] = job.file[m * GRANZ + j]
          /\ Begun(gran, c, m, Given)
    BY <1>1 DEF FilesInv, PutFiles
  <1>4. /\ src \in Seq(Byte) /\ job.file \in Seq(Byte) /\ mfat \in [Gran -> FatByte]
        /\ gran \in [Gran -> [1..GRANZ -> Byte]] /\ Given \in Seq(Byte)
        /\ Len(Given) = Len(job.file)
    BY <1>2, DataAssumption, GivenType DEF TypeOK, Given
  <1>5. /\ GRANZ \in Nat /\ GRANZ > 0 /\ m * GRANZ \in Nat /\ Len(src) \in Nat
        /\ m \in Nat /\ m \in 0..FATZ
    BY <1>4, GranzPositive, SizesAssumption, SMTT(30)
  <1>6. k \in 0..SPG /\ TailBytes(LastByte(k), r) = Len(src)
    BY <1>1, <1>5, TailSectors, TailLength
  <1> HIDE DEF c, k, r, u
  <1>7. PICK f2 \in [Gran -> FatByte] : f2 = mfat'
    BY DEF TypeOK
  <1>8. f2[x] = LastByte(k) /\ \A h \in Gran : h # x => f2[h] = mfat[h]
    BY <1>1, <1>2, <1>4, <1>7 DEF Store
  <1> DEFINE d == Chain(f2, entry.first)
  <1>9. \A i \in 0..(m - 1) : c[i] \in Gran /\ c[i] # x
    <2>1. \A i \in 0..(m - 1) : c[i] \in Gran /\ mfat[c[i]] = c[i + 1] /\ c[i + 1] \in Gran
      BY <1>2, <1>3, <1>4, <1>5, ChainPrefix DEF c
    <2> QED BY <1>2, <2>1, ByteValues
  <1>10. \A i \in 0..m : d[i] = c[i]
    <2>1. \A i \in 0..(m - 1) : f2[c[i]] = mfat[c[i]]
      BY <1>8, <1>9
    <2> QED BY <1>2, <1>3, <1>4, <1>5, <2>1, ChainSame DEF c
  <1>11. d[m] = x
    BY <1>3, <1>5, <1>10
  <1> HIDE DEF d
  <1>12. Ends(f2, d, m, r)
    BY <1>1, <1>2, <1>5, <1>6, <1>8, <1>11 DEF Ends
  <1>13. Wrote(c, m, Given, u) /\ Len(u) = Len(src)
    <2>1. u \in Seq(Byte) /\ Len(u) = Len(src) /\ Len(u) <= GRANZ
      BY <1>1, <1>4, <1>5, GivenType DEF u
    <2>2. \A j \in 1..Len(u) : u[j] = Given[m * GRANZ + j]
      <3> DEFINE fl == "l" \in job.flags
      <3>1. \A j \in 1..Len(src) : m * GRANZ + j <= Len(job.file) /\ src[j] = job.file[m * GRANZ + j]
        BY <1>3, <1>5
      <3>2. \A j \in 1..Len(src) : (IF fl THEN NlToCr(src) ELSE src)[j]
                                 = (IF fl THEN NlToCr(job.file) ELSE job.file)[m * GRANZ + j]
        <4> HIDE DEF fl
        <4> QED BY <1>4, <1>5, <3>1, GivenPart
      <3> QED BY <2>1, <3>2 DEF Given, u
    <2>3. c[m] = x /\ x \in Gran /\ m \in Nat /\ Begun(gran, c, m, Given)
      BY <1>2, <1>3, <1>5
    <2>4. gran \in [Gran -> [1..GRANZ -> Byte]]
      BY <1>4
    <2> QED BY <1>9, <2>1, <2>2, <2>3, <2>4, Written
  <1>14. Bytes(f2, gran', d, m, r) = Given
    <2> DEFINE n == m * GRANZ + TailBytes(f2[d[m]], r)
    <2>1. n = Len(Given) /\ n = m * GRANZ + Len(src) /\ n \in Nat
      BY <1>3, <1>4, <1>5, <1>6, <1>8, <1>11
    <2>2. ASSUME NEW i \in 1..n
          PROVE  gran'[d[(i - 1) \div GRANZ]][1 + ((i - 1) % GRANZ)] = Given[i]
      <3>1. i \in Nat /\ i >= 1 /\ i <= m * GRANZ + GRANZ
        BY <1>1, <1>5, <2>1
      <3>2. (i - 1) \div GRANZ \in Nat /\ (i - 1) \div GRANZ <= m
        BY <1>5, <3>1, Place
      <3>3. (i - 1) \div GRANZ \in 0..m
        BY <1>5, <3>2
      <3>4. d[(i - 1) \div GRANZ] = c[(i - 1) \div GRANZ]
        BY <1>10, <3>3
      <3>5. i \in 1..(m * GRANZ + Len(u))
        BY <1>13, <2>1
      <3>6. WriteGran(u)[c[(i - 1) \div GRANZ]][1 + ((i - 1) % GRANZ)] = Given[i]
        BY <1>13, <3>5, Zenon DEF Wrote
      <3> QED BY <1>1, <3>4, <3>6
    <2>3. Bytes(f2, gran', d, m, r)
          = [i \in 1..n |-> gran'[d[(i - 1) \div GRANZ]][1 + ((i - 1) % GRANZ)]]
      BY DEF Bytes
    <2> HIDE DEF n
    <2>4. Given = [i \in 1..n |-> Given[i]]
      BY <1>4, <2>1
    <2> QED BY <2>2, <2>3, <2>4, Zenon
  <1>15. /\ entry'.first = entry.first /\ entry'.rem = r /\ entry'.first \in Gran
         /\ Chain(mfat', entry'.first) = d /\ mfat' = f2
    BY <1>1, <1>2, <1>7 DEF d
  <1>16. Ends(mfat', Chain(mfat', entry'.first), m, entry'.rem)
    BY <1>12, <1>15
  <1>17. FileOf(mfat', gran', entry') = File(Given)
    <2>1. PICK e : e = entry'
      OBVIOUS
    <2>2. Ends(f2, Chain(f2, e.first), m, e.rem) /\ e.first \in Gran
      BY <1>15, <1>16, <2>1
    <2>3. PICK gr : gr = gran'
      OBVIOUS
    <2>4. FileOf(f2, gr, e) = File(Bytes(f2, gr, Chain(f2, e.first), m, e.rem))
      BY <2>2, FileWhole
    <2> QED BY <1>14, <1>15, <2>1, <2>3, <2>4
  <1>18. Holds(mfat, entry)'
    <2>1. Given' = Given
      BY <1>1 DEF Given
    <2> QED BY <1>15, <1>16, <1>17, <2>1 DEF Holds, Whole
  <1>19. OnlyAdds'
    <2>1. \A h \in Gran : fat[h] # FREE => f2[h] = fat[h]
      BY <1>2, <1>8 DEF OnlyAdds
    <2> QED BY <1>1, <1>7, <2>1 DEF OnlyAdds
  <1> QED BY <1>1, <1>2, <1>18, <1>19, NotGetting
          DEF FilesInv, PutFiles, RmFiles, GetFiles, RestFiles, Running, GetFaithful, LastGet

LEMMA PutSaveEntryFiles ==
    ASSUME TypeOK, TypeOK', SoundInv, FilesInv, fails = 0, PutSaveEntry
    PROVE  FilesInv'
  <1>1. /\ pc = "put_entry" /\ pc' = "put_fat" /\ dir' = [dir EXCEPT ![off] = entry]
        /\ UNCHANGED <<fat, gran, job, mfat, entry, off, dst, fails>>
    BY DEF PutSaveEntry, SaveEntry
  <1>2. /\ job.op = "put" /\ OnlyAdds /\ job.file \in HostFiles
        /\ Sound(fat, dir) /\ AllWhole(fat, dir, LiveSlots(dir))
        /\ PutSlotInv /\ entry.name = job.name /\ Holds(mfat, entry)
    BY <1>1 DEF FilesInv, PutFiles, RestFiles, Running, SoundInv, PutInv
  <1>3. Live(entry) /\ off \notin LiveSlots(dir) /\ off \in Slot
    BY <1>2 DEF PutSlotInv, Live, LiveSlots
  <1>4. LiveSlots(dir') = LiveSlots(dir) \cup {off}
    <2>1. /\ dir \in [Slot -> Entry] /\ entry \in Entry /\ ~Live(dir[off])
          /\ \A j \in 0..(off - 1) : Live(dir[j])
          /\ DirSound(dir) /\ \A j \in LiveSlots(dir) : dir[j].name # entry.name
      BY <1>2 DEF PutSlotInv, TypeOK
    <2>2. LiveSlots([dir EXCEPT ![off] = entry]) = LiveSlots(dir) \cup {off}
      BY <1>3, <2>1, FillSlot
    <2> QED BY <1>1, <2>2
  <1>5. LiveSlots(dir') \ {off} = LiveSlots(dir) /\ off \in LiveSlots(dir')
    BY <1>3, <1>4
  <1>6. dir'[off] = entry /\ \A i \in LiveSlots(dir) : dir'[i] = dir[i]
    BY <1>1, <1>3 DEF TypeOK, LiveSlots
  <1>7. Disjoint(fat, dir', LiveSlots(dir') \ {off}, NoOwn)
    <2>1. LiveSlots(dir) \in SUBSET Slot
      BY DEF LiveSlots
    <2>2. Disjoint(fat, [dir EXCEPT ![off] = entry], LiveSlots(dir), NoOwn)
      BY <1>2, <1>3, <2>1, OtherSlots DEF TypeOK, Sound
    <2> QED BY <1>1, <1>5, <2>2
  <1>8. AllWhole(fat, dir', LiveSlots(dir') \ {off})
    BY <1>2, <1>5, <1>6 DEF AllWhole
  <1>9. Holds(mfat, dir[off])'
    <2>1. Given' = Given
      BY <1>1 DEF Given
    <2> QED BY <1>1, <1>2, <1>6, <2>1 DEF Holds
  <1>10. PutFiles'
    <2>1. OnlyAdds'
      BY <1>1, <1>2 DEF OnlyAdds
    <2>2. /\ off' \in LiveSlots(dir') /\ dir'[off'].name = job'.name
          /\ Disjoint(fat', dir', LiveSlots(dir') \ {off'}, NoOwn)
          /\ AllWhole(fat', dir', LiveSlots(dir') \ {off'})
      BY <1>1, <1>2, <1>5, <1>6, <1>7, <1>8
    <2> QED BY <1>1, <1>2, <1>9, <2>1, <2>2 DEF PutFiles
  <1> QED BY <1>1, <1>2, <1>10, NotGetting
          DEF FilesInv, RmFiles, GetFiles, RestFiles, Running, GetFaithful, LastGet

LEMMA PutSaveFatFiles ==
    ASSUME TypeOK, TypeOK', SoundInv, FilesInv, fails = 0, PutSaveFat
    PROVE  FilesInv'
  <1>1. /\ pc = "put_fat" /\ fat' = mfat /\ UNCHANGED <<dir, gran, job>> /\ Exit("ok")
    BY DEF PutSaveFat
  <1>2. /\ job.op = "put" /\ OnlyAdds /\ Sound(mfat, dir) /\ off \in LiveSlots(dir)
        /\ Disjoint(fat, dir, LiveSlots(dir) \ {off}, NoOwn)
        /\ AllWhole(fat, dir, LiveSlots(dir) \ {off}) /\ Holds(mfat, dir[off])
    BY <1>1 DEF FilesInv, PutFiles, Running, SoundInv, PutInv
  <1>3. \A i \in LiveSlots(dir) \ {off} : Whole(mfat, dir[i])
    <2>1. \A h \in Gran : fat[h] # FREE => mfat[h] = fat[h] /\ gran[h] = gran[h]
      BY <1>2 DEF OnlyAdds
    <2>2. fat \in [Gran -> FatByte] /\ mfat \in [Gran -> FatByte]
      BY DEF TypeOK
    <2> QED BY <1>2, <2>1, <2>2, SameInUse DEF AllWhole
  <1>4. AllWhole(mfat, dir, LiveSlots(dir))
    BY <1>2, <1>3 DEF AllWhole, Holds
  <1>5. AllWhole(fat', dir', LiveSlots(dir')) /\ Sound(fat', dir')
    BY <1>1, <1>2, <1>4
  <1>6. job'.op \in Op /\ GetFaithful'
    BY <1>1, <1>2, NotGetting DEF Op, GetFaithful, LastGet
  <1> QED BY <1>1, <1>5, <1>6, ExitFiles

LEMMA RmFilesKept ==
    ASSUME TypeOK, TypeOK', SoundInv, SoundInv', FilesInv, fails = 0,
           RmDelchain \/ RmSaveFat \/ RmSaveEntry
    PROVE  FilesInv'
  <1>1. CASE RmDelchain
    <2>1. /\ pc = "rm" /\ pc' = "rm" /\ ~IsLast(x) /\ mfat' = [mfat EXCEPT ![x] = FREE]
          /\ UNCHANGED <<fat, dir, gran, job, entry, off, dst, fails>>
      BY <1>1 DEF RmDelchain, image
    <2>2. /\ job.op = "rm" /\ dir[off].name = job.name
          /\ Disjoint(mfat, dir, LiveSlots(dir) \ {off}, x)
          /\ Sound(fat, dir) /\ AllWhole(fat, dir, LiveSlots(dir))
          /\ \A i \in LiveSlots(dir) \ {off} :
               Whole(mfat, dir[i]) /\ FileOf(mfat, gran, dir[i]) = FileOf(fat, gran, dir[i])
      BY <2>1 DEF FilesInv, RmFiles, RestFiles, Running, SoundInv, RmInv
    <2>3. x \in Gran /\ mfat \in [Gran -> FatByte]
      BY <2>1, ByteValues DEF TypeOK
    <2>4. PICK f2 \in [Gran -> FatByte] : f2 = mfat'
      BY DEF TypeOK
    <2>5. \A h \in Gran \ {x} : f2[h] = mfat[h]
      BY <2>1, <2>3, <2>4
    <2>6. \A i \in LiveSlots(dir) \ {off} :
            Whole(f2, dir[i]) /\ FileOf(f2, gran, dir[i]) = FileOf(mfat, gran, dir[i])
      <3> DEFINE S == LiveSlots(dir) \ {off}
      <3>1. Disjoint(mfat, dir, S, x) /\ \A i \in S : Whole(mfat, dir[i])
        BY <2>2
      <3> HIDE DEF S
      <3>2. ASSUME NEW i \in S
            PROVE  Whole(f2, dir[i]) /\ FileOf(f2, gran, dir[i]) = FileOf(mfat, gran, dir[i])
        BY <2>3, <2>5, <3>1, SameWithout
      <3> QED BY <3>2 DEF S
    <2>7. \A i \in LiveSlots(dir') \ {off'} :
            /\ Whole(mfat', dir'[i])
            /\ FileOf(mfat', gran', dir'[i]) = FileOf(fat', gran', dir'[i])
      BY <2>1, <2>2, <2>4, <2>6
    <2>8. RmFiles'
      BY <2>1, <2>2, <2>7 DEF RmFiles
    <2> QED BY <2>1, <2>2, <2>8, NotGetting
            DEF FilesInv, PutFiles, GetFiles, RestFiles, Running, GetFaithful, LastGet
  <1>2. CASE RmSaveFat
    <2>1. /\ pc = "rm" /\ pc' = "rm_entry" /\ fat' = mfat
          /\ UNCHANGED <<dir, gran, job, off, fails>>
      BY <1>2 DEF RmSaveFat
    <2>2. /\ job.op = "rm" /\ dir[off].name = job.name
          /\ \A i \in LiveSlots(dir) \ {off} : Whole(mfat, dir[i])
      BY <2>1 DEF FilesInv, RmFiles, Running
    <2>3. AllWhole(fat', dir', LiveSlots(dir') \ {off'})
      BY <2>1, <2>2 DEF AllWhole
    <2>4. RmFiles'
      BY <2>1, <2>2, <2>3 DEF RmFiles
    <2> QED BY <2>1, <2>2, <2>4, NotGetting
            DEF FilesInv, PutFiles, GetFiles, RestFiles, Running, GetFaithful, LastGet
  <1>3. CASE RmSaveEntry
    <2>1. /\ pc = "rm_entry" /\ dir' = [dir EXCEPT ![off] = entry] /\ Exit("ok")
          /\ UNCHANGED <<fat, gran, job, fails>>
      BY <1>3 DEF RmSaveEntry
    <2>2. /\ job.op = "rm" /\ AllWhole(fat, dir, LiveSlots(dir) \ {off})
          /\ off \in LiveSlots(dir) /\ DirSound(dir) /\ entry.name = Deleted
      BY <2>1 DEF FilesInv, RmFiles, Running, SoundInv, RmInv
    <2>3. dir \in [Slot -> Entry] /\ entry \in Entry
      BY DEF TypeOK
    <2>4. LiveSlots([dir EXCEPT ![off] = entry]) = LiveSlots(dir) \ {off}
      BY <2>2, <2>3, EmptySlot
    <2>5. \A i \in LiveSlots(dir) \ {off} : dir'[i] = dir[i]
      BY <2>1, <2>3 DEF LiveSlots
    <2>6. AllWhole(fat', dir', LiveSlots(dir'))
      BY <2>1, <2>2, <2>4, <2>5 DEF AllWhole
    <2>7. Sound(fat', dir')
      BY <2>1 DEF SoundInv, RestInv, Exit
    <2>8. job'.op \in Op /\ GetFaithful'
      BY <2>1, <2>2 DEF Op, GetFaithful, LastGet
    <2> QED BY <2>1, <2>6, <2>7, <2>8, ExitFiles
  <1> QED BY <1>1, <1>2, <1>3

LEMMA MkfsFiles ==
    ASSUME TypeOK, SoundInv, SoundInv', FilesInv, fails = 0, MkfsWrite \/ MkfsSaveFat
    PROVE  FilesInv'
  <1>1. pc = "mkfs" /\ job.op = "mkfs" /\ job' = job
    BY DEF MkfsWrite, MkfsSaveFat, FilesInv, Running
  <1>2. GetFaithful'
    BY <1>1 DEF GetFaithful, LastGet
  <1>3. CASE MkfsWrite
    <2>1. pc' = "mkfs"
      BY <1>1, <1>3 DEF MkfsWrite
    <2> QED BY <1>1, <1>2, <2>1 DEF FilesInv, PutFiles, RmFiles, GetFiles, RestFiles, Running
  <1>4. CASE MkfsSaveFat
    <2>1. Exit("ok") /\ dir' = dir /\ x = FATZ + 2 /\ fails' = fails
      BY <1>4 DEF MkfsSaveFat
    <2>2. \A i \in Slot : dir[i] = Wiped
      BY <1>1, <2>1, SizesAssumption DEF SoundInv, MkfsInv
    <2>3. LiveSlots(dir) = {}
      BY <2>2, NamesAssumption DEF LiveSlots, Live, Wiped
    <2>4. AllWhole(fat', dir', LiveSlots(dir'))
      BY <2>1, <2>3 DEF AllWhole
    <2>5. Sound(fat', dir')
      BY <2>1 DEF SoundInv, RestInv, Exit
    <2>6. job'.op \in Op
      BY <1>1 DEF Op
    <2> QED BY <1>2, <2>1, <2>4, <2>5, <2>6, ExitFiles
  <1> QED BY <1>3, <1>4

(* The boot track is beside every file that putboot may be called with. *)
LEMMA BootBeside ==
    ASSUME TypeOK, SoundInv, fails = 0, pc \in {"walk", "boot"}, job.op = "putboot",
           NEW i \in LiveSlots(dir)
    PROVE  /\ dir[i].first \in Gran /\ dir[i].first \notin BootTrack
           /\ \A h \in Gran : fat[h] \notin BootTrack
  BY DEF SoundInv, WalkInv, RestInv, Sound, Disjoint

LEMMA WalkFiles ==
    ASSUME TypeOK, TypeOK', SoundInv, SoundInv', FilesInv, fails = 0,
           \/ WalkChain \/ WalkEntry \/ ListDone \/ BootBegin \/ BootWrite \/ BootSaveFat
    PROVE  FilesInv'
  <1>1. /\ pc \in {"walk", "boot"} /\ job' = job /\ dir' = dir /\ job.op \in {"ls", "putboot"}
        /\ Sound(fat, dir) /\ AllWhole(fat, dir, LiveSlots(dir))
    BY DEF WalkChain, WalkEntry, ListDone, BootBegin, BootWrite, BootSaveFat, image,
           FilesInv, RestFiles, Running
  <1>2. GetFaithful' /\ job'.op \in Op
    BY <1>1 DEF GetFaithful, LastGet, Op
  <1>3. CASE WalkChain \/ WalkEntry \/ BootBegin \/ BootWrite
    <2>1. /\ fat' = fat /\ fails' = fails
          /\ \/ pc' = "walk"
             \/ pc' = "boot" /\ job.op = "putboot"
      BY <1>3 DEF WalkChain, WalkEntry, BootBegin, BootWrite, image, SoundInv, WalkInv
    <2> QED BY <1>1, <1>2, <2>1 DEF FilesInv, PutFiles, RmFiles, GetFiles, RestFiles, Running
  <1>4. CASE ListDone
    <2>1. Exit("ok") /\ fat' = fat
      BY <1>4 DEF ListDone, image
    <2> QED BY <1>1, <1>2, <2>1, ExitFiles
  <1>5. CASE BootSaveFat
    <2>1. /\ Exit("ok") /\ pc = "boot" /\ job.op = "putboot"
          /\ fat' = [g \in Gran |-> IF g \in BootTrack THEN LastByte(0) ELSE mfat[g]]
          /\ mfat = fat
      BY <1>5 DEF BootSaveFat, SoundInv, WalkInv
    <2>2. PICK f2 \in [Gran -> FatByte] : f2 = fat'
      BY DEF TypeOK
    <2>3. fat \in [Gran -> FatByte] /\ \A h \in Gran \ BootTrack : f2[h] = fat[h]
      BY <2>1, <2>2 DEF TypeOK
    <2>4. ASSUME NEW i \in LiveSlots(dir) PROVE Whole(f2, dir[i])
      <3>1. /\ dir[i].first \in Gran /\ dir[i].first \notin BootTrack
            /\ \A h \in Gran : fat[h] \notin BootTrack
        BY <1>1, <2>1, BootBeside
      <3>2. Whole(fat, dir[i])
        BY <1>1 DEF AllWhole
      <3>3. \A h \in Gran \ BootTrack : f2[h] = fat[h] /\ gran[h] = gran[h]
        BY <2>3
      <3> QED BY <2>3, <3>1, <3>2, <3>3, SameBeside
    <2>5. AllWhole(fat', dir', LiveSlots(dir'))
      BY <1>1, <2>2, <2>4 DEF AllWhole
    <2>6. Sound(fat', dir')
      BY <1>5, <2>1 DEF SoundInv, RestInv, Exit, BootSaveFat
    <2> QED BY <1>2, <2>1, <2>5, <2>6, ExitFiles
  <1> QED BY <1>3, <1>4, <1>5

-----------------------------------------------------------------------------
(* What get reads *)

(* A file is found at the slot that has its name. *)
LEMMA FindLive ==
    ASSUME NEW d \in [Slot -> Entry], DirSound(d), NEW n \in Names
    PROVE  Find(d, n) = {i \in LiveSlots(d) : d[i].name = n}
  <1>1. ASSUME NEW i \in Find(d, n) PROVE i \in LiveSlots(d) /\ d[i].name = n
    BY <1>1 DEF Find, Visible, LiveSlots, Live
  <1>2. ASSUME NEW i \in LiveSlots(d), d[i].name = n PROVE i \in Find(d, n)
    <2>1. i \in Visible(d) /\ \A k \in LiveSlots(d) : d[k].name = n => k = i
      BY <1>2 DEF DirSound
    <2>2. \A k \in 0..(i - 1) : k \in Slot /\ k # i
      BY SizesAssumption DEF LiveSlots, Slot
    <2>3. \A k \in 0..(i - 1) : d[k].name # n
      BY <2>1, <2>2 DEF LiveSlots, Live
    <2> QED BY <1>2, <2>1, <2>3 DEF Find
  <1> QED BY <1>1, <1>2

(* What get takes from the last granule, by the bytes in use there. *)
LEMMA TailRead ==
    ASSUME NEW b, NEW n \in 0..SPG, b = LastByte(n), NEW rem \in 0..(SECZ - 1),
           NEW T \in 0..(GRANZ - 1), T = TailBytes(b, rem), NEW z,
           z = (b - LastByte(0) - 1) * SECZ + rem
    PROVE  /\ z \in Int /\ z < GRANZ
           /\ T = 0 => z < 0
           /\ T # 0 => z = (IF T % SECZ = 0 THEN T - SECZ ELSE T) /\ z >= 0
  <1> DEFINE S == SECZ
             G == GRANZ
  <1>1. S \in Nat /\ S > 0 /\ n \in Nat /\ G \in Nat /\ rem \in Nat /\ rem < S /\ T \in Nat /\ T < G
    BY SizesAssumption, GranzPositive
  <1>2. b - LastByte(0) = n
    BY <1>1 DEF LastByte
  <1>3. T = IF rem = 0 THEN n * S ELSE (n - 1) * S + rem
    BY <1>2 DEF TailBytes
  <1>4. z = (n - 1) * S + rem
    BY <1>2
  <1> HIDE DEF S, G
  <1>5. (n - 1) * S = n * S - S /\ n * S \in Nat
    BY <1>1, SMTT(30)
  <1>6. n = 0 \/ n * S >= S
    BY <1>1, SMTT(30)
  <1>7. n = 0 => n * S = 0
    BY <1>1, SMTT(30)
  <1>8. CASE rem = 0
    <2>1. T = n * S /\ z = T - S
      BY <1>1, <1>3, <1>4, <1>5, <1>8
    <2>2. T % S = 0
      <3>1. PICK q \in Nat, r \in 0..(S - 1) : T = q * S + r /\ r = 0
        <4>1. T = n * S + 0 /\ 0 \in 0..(S - 1)
          BY <1>1, <1>5, <2>1
        <4> QED BY <1>1, <4>1
      <3> QED BY <1>1, <3>1, SMTT(30)
    <2>3. T = 0 \/ T >= S
      BY <1>6, <1>7, <2>1
    <2> QED BY <1>1, <2>1, <2>2, <2>3 DEF S, G
  <1>9. CASE rem # 0
    <2>1. T = (n - 1) * S + rem /\ z = T
      BY <1>3, <1>4, <1>9
    <2>2. n # 0
      BY <1>1, <1>5, <1>7, <2>1
    <2>3. n - 1 \in Nat /\ (n - 1) * S \in Nat
      BY <1>1, <1>5, <1>6, <2>2
    <2>4. T % S = rem
      <3> DEFINE p == n - 1
      <3>1. p \in Nat /\ T = p * S + rem /\ rem \in 0..(S - 1)
        BY <1>1, <2>1, <2>3
      <3> HIDE DEF p
      <3> QED BY <1>1, <3>1, SMTT(30)
    <2>5. T # 0
      BY <1>1, <1>9, <2>1, <2>3
    <2> QED BY <1>1, <1>9, <2>1, <2>4, <2>5 DEF S, G
  <1> QED BY <1>8, <1>9

LEMMA ReceivedType ==
    ASSUME NEW s \in Seq(Byte)
    PROVE  /\ Received(s) \in Seq(Byte) /\ Len(Received(s)) = Len(s)
           /\ \A i \in 1..Len(s) :
                Received(s)[i] = IF "l" \in job.flags /\ s[i] = CR THEN NL ELSE s[i]
  <1>1. DOMAIN s = 1..Len(s) /\ Len(s) \in Nat
    OBVIOUS
  <1>2. CrToNl(s) \in Seq(Byte)
    BY TranslateType
  <1>3. CrToNl(s) = [i \in 1..Len(s) |-> IF s[i] = CR THEN NL ELSE s[i]]
    BY <1>1 DEF CrToNl
  <1>4. Len(CrToNl(s)) = Len(s)
    BY <1>1, <1>2, <1>3
  <1>5. \A i \in 1..Len(s) : CrToNl(s)[i] = IF s[i] = CR THEN NL ELSE s[i]
    BY <1>3
  <1>6. CASE "l" \in job.flags
    <2>1. Received(s) = CrToNl(s)
      BY <1>6 DEF Received
    <2> QED BY <1>2, <1>4, <1>5, <1>6, <2>1
  <1>7. CASE "l" \notin job.flags
    <2>1. Received(s) = s
      BY <1>7 DEF Received
    <2> QED BY <1>7, <2>1
  <1> QED BY <1>6, <1>7

(* At each granule of the file get knows how many bytes to take. *)
GetsMore(c, m) ==
    /\ GetSize = GRANZ /\ m + 1 \in 0..(FATZ - 1)
    /\ c[m + 1] = mfat[x] /\ mfat[x] \in Gran
GetsLast(c, m) ==
    /\ Ends(fat, c, m, entry.rem)
    /\ GetSize \in Int /\ GetSize < GRANZ
    /\ LET T == TailBytes(fat[x], entry.rem)
       IN  /\ T = 0 => GetSize < 0
           /\ T # 0 => GetSize = (IF T % SECZ = 0 THEN T - SECZ ELSE T) /\ GetSize >= 0

LEMMA GetAt ==
    ASSUME TypeOK, FilesInv, fails = 0, pc = "get"
    PROVE  LET c == Chain(fat, entry.first)
           IN  /\ job.op = "get" /\ x \in Gran /\ mfat = fat
               /\ off \in LiveSlots(dir) /\ entry = dir[off] /\ entry.name = job.name
               /\ entry.first \in Gran /\ Sound(fat, dir) /\ AllWhole(fat, dir, LiveSlots(dir))
               /\ \E m \in 0..(FATZ - 1) :
                    c[m] = x /\ Copied(c, m) /\ (GetsMore(c, m) \/ GetsLast(c, m))
  <1> DEFINE c == Chain(fat, entry.first)
  <1>1. /\ job.op = "get" /\ x \in Gran /\ mfat = fat
        /\ off \in LiveSlots(dir) /\ entry = dir[off] /\ entry.name = job.name
        /\ Sound(fat, dir) /\ AllWhole(fat, dir, LiveSlots(dir))
    BY DEF FilesInv, GetFiles, RestFiles, Running
  <1>2. entry.first \in Gran /\ entry.rem \in 0..(SECZ - 1) /\ fat \in [Gran -> FatByte]
    BY <1>1 DEF TypeOK, Sound, Disjoint, Entry
  <1>3. PICK m \in 0..(FATZ - 1) : c[m] = x /\ Copied(c, m)
    BY DEF FilesInv, GetFiles
  <1>4. PICK end \in 0..(FATZ - 1) : Ends(fat, c, end, entry.rem)
    BY <1>1 DEF AllWhole, Whole
  <1>5. m \in 0..FATZ /\ end \in 0..FATZ /\ m \in Nat /\ end \in Nat /\ FATZ \in Nat
    BY SizesAssumption
  <1>6. c[end] \in Gran /\ fat[c[end]] \notin Gran
    BY <1>4, EndByte DEF Ends
  <1>7. \A k \in 0..(m - 1) : c[k] \in Gran /\ fat[c[k]] = c[k + 1] /\ c[k + 1] \in Gran
    BY <1>1, <1>2, <1>3, <1>5, ChainPrefix
  <1>8. \A k \in 0..(end - 1) : c[k] \in Gran /\ fat[c[k]] = c[k + 1] /\ c[k + 1] \in Gran
    BY <1>2, <1>5, <1>6, ChainPrefix
  <1> HIDE DEF c
  <1>9. m <= end
    BY <1>5, <1>6, <1>7
  <1>10. CASE m < end
    <2>1. m \in 0..(end - 1) /\ m + 1 \in 0..(FATZ - 1)
      BY <1>5, <1>10
    <2>2. c[m + 1] = mfat[x] /\ mfat[x] \in Gran
      BY <1>1, <1>3, <1>8, <2>1
    <2>3. ~IsLast(mfat[x])
      BY <2>2, ByteValues
    <2>4. GetSize = GRANZ
      BY <2>3 DEF GetSize
    <2> QED BY <1>1, <1>2, <1>3, <2>1, <2>2, <2>4 DEF GetsMore, c
  <1>11. CASE m = end
    <2>1. Ends(fat, c, m, entry.rem)
      BY <1>4, <1>11
    <2>2. PICK n \in 0..SPG : fat[x] = LastByte(n)
      BY <1>3, <2>1 DEF Ends
    <2>3. TailBytes(fat[x], entry.rem) \in 0..(GRANZ - 1)
      BY <1>3, <2>1 DEF Ends
    <2>4. IsLast(mfat[x])
      BY <1>1, <1>3, <2>1, EndByte
    <2>5. GetSize = (fat[x] - LastByte(0) - 1) * SECZ + entry.rem
      BY <1>1, <2>4 DEF GetSize
    <2> DEFINE T == TailBytes(fat[x], entry.rem)
    <2>6. /\ GetSize \in Int /\ GetSize < GRANZ
          /\ T = 0 => GetSize < 0
          /\ T # 0 => GetSize = (IF T % SECZ = 0 THEN T - SECZ ELSE T) /\ GetSize >= 0
      <3>1. PICK b, r, z : b = fat[x] /\ r = entry.rem /\ z = GetSize
        OBVIOUS
      <3>2. /\ b = LastByte(n) /\ r \in 0..(SECZ - 1) /\ TailBytes(b, r) \in 0..(GRANZ - 1)
            /\ z = (b - LastByte(0) - 1) * SECZ + r
        BY <1>2, <2>2, <2>3, <2>5, <3>1
      <3> DEFINE U == TailBytes(b, r)
      <3>3. /\ z \in Int /\ z < GRANZ
            /\ U = 0 => z < 0
            /\ U # 0 => z = (IF U % SECZ = 0 THEN U - SECZ ELSE U) /\ z >= 0
        BY <3>2, TailRead
      <3> QED BY <3>1, <3>3
    <2> QED BY <1>1, <1>2, <1>3, <2>1, <2>6 DEF GetsLast, c
  <1> QED BY <1>5, <1>9, <1>10, <1>11

CopiedIs(d, c, n) ==
    /\ Len(d) = n
    /\ \A i \in 1..n : d[i] = Received(gran[c[(i - 1) \div GRANZ]])[1 + ((i - 1) % GRANZ)]

LEMMA CopyMore ==
    ASSUME dst \in Seq(Byte), NEW m \in Nat, NEW c, c[m] = x, Copied(c, m),
           NEW t \in Seq(Byte), Len(t) <= GRANZ,
           \A j \in 1..Len(t) : t[j] = Received(gran[x])[j]
    PROVE  CopiedIs(dst \o t, c, m * GRANZ + Len(t))
  <1> DEFINE G == GRANZ
             d == dst \o t
  <1>1. G \in Nat /\ m * G \in Nat /\ Len(t) \in Nat /\ Len(t) <= G
    BY GranzPositive, SMTT(20)
  <1>2. Len(dst) = m * G
    BY DEF Copied
  <1>3. /\ Len(d) = m * G + Len(t)
        /\ \A i \in 1..(m * G) : d[i] = dst[i]
        /\ \A j \in 1..Len(t) : d[m * G + j] = t[j]
    <2> DEFINE a == m * G
    <2>1. a \in Nat /\ Len(dst) = a
      BY <1>1, <1>2
    <2> HIDE DEF a
    <2>2. Len(d) = a + Len(t)
      BY <2>1
    <2>3. \A i \in 1..a : d[i] = dst[i]
      BY <2>1
    <2>4. ASSUME NEW j \in 1..Len(t) PROVE d[a + j] = t[j]
      <3>1. a + j \in (Len(dst) + 1)..(Len(dst) + Len(t)) /\ (a + j) - Len(dst) = j
        BY <1>1, <2>1
      <3>2. d[a + j] = t[(a + j) - Len(dst)]
        BY <3>1
      <3> QED BY <3>1, <3>2
    <2> QED BY <2>2, <2>3, <2>4 DEF a
  <1> SUFFICES ASSUME NEW i \in 1..(m * GRANZ + Len(t))
               PROVE  d[i] = Received(gran[c[(i - 1) \div GRANZ]])[1 + ((i - 1) % GRANZ)]
    BY <1>3 DEF CopiedIs
  <1> DEFINE q == (i - 1) \div GRANZ
             j == 1 + ((i - 1) % GRANZ)
  <1>4. i \in Nat /\ i >= 1 /\ i <= m * G + G
    BY <1>1
  <1>5. /\ q \in Nat /\ j \in 1..G /\ i = q * G + j
        /\ i > m * G => q >= m
        /\ i <= m * G + G => q <= m
    BY <1>4, Place
  <1> HIDE DEF q, j, d
  <1>6. CASE i <= m * G
    <2>1. i \in 1..(m * GRANZ)
      BY <1>1, <1>4, <1>6
    <2>2. dst[i] = Received(gran[c[q]])[j]
      BY <2>1 DEF Copied, q, j
    <2> QED BY <1>3, <2>1, <2>2 DEF q, j
  <1>7. CASE i > m * G
    <2>1. q = m /\ i = m * G + j
      BY <1>4, <1>5, <1>7
    <2>2. j \in 1..Len(t)
      BY <1>1, <1>5, <2>1
    <2>3. d[i] = t[j] /\ t[j] = Received(gran[x])[j]
      BY <1>3, <2>1, <2>2
    <2>4. c[q] = x
      BY <2>1
    <2> QED BY <2>3, <2>4 DEF q, j
  <1> QED BY <1>1, <1>4, <1>6, <1>7

(* s, of w bytes, is the file on chain c up to granule m. *)
FileIs(s, w, f, c, m, rem) ==
    /\ \A k \in 0..m : c[k] \in Gran
    /\ TailBytes(f[c[m]], rem) \in 0..(GRANZ - 1)
    /\ w = m * GRANZ + TailBytes(f[c[m]], rem)
    /\ s = Bytes(f, gran, c, m, rem)

(* What was copied from a file, if it is long enough, is its first bytes, *)
(* with the line ends translated. *)
LEMMA ReadIs ==
    ASSUME gran \in [Gran -> [1..GRANZ -> Byte]],
           NEW f, NEW m \in Nat, NEW c, NEW rem, NEW w, NEW s, FileIs(s, w, f, c, m, rem),
           NEW d \in Seq(Byte), NEW n \in Nat, n <= w, CopiedIs(d, c, n)
    PROVE  s \in Seq(Byte) /\ Len(s) = w /\ d = Received(SubSeq(s, 1, n))
  <1>a. /\ \A k \in 0..m : c[k] \in Gran
        /\ TailBytes(f[c[m]], rem) \in 0..(GRANZ - 1)
        /\ w = m * GRANZ + TailBytes(f[c[m]], rem)
        /\ s = Bytes(f, gran, c, m, rem)
    BY DEF FileIs
  <1> DEFINE T == TailBytes(f[c[m]], rem)
             At(i) == gran[c[(i - 1) \div GRANZ]][1 + ((i - 1) % GRANZ)]
  <1>0. m * GRANZ \in Nat /\ GRANZ \in Nat
    BY GranzPositive, SMTT(20)
  <1>1. T \in Nat /\ T <= GRANZ /\ w \in Nat /\ w = m * GRANZ + T
    BY <1>a, <1>0
  <1>2. s = [i \in 1..w |-> At(i)]
    BY <1>a, Zenon DEF Bytes
  <1>3. \A i \in 1..w : gran[c[(i - 1) \div GRANZ]] \in Seq(Byte)
                        /\ Len(gran[c[(i - 1) \div GRANZ]]) = GRANZ
                        /\ 1 + ((i - 1) % GRANZ) \in 1..GRANZ
    <2> USE <1>0
    <2> HIDE DEF T
    <2> SUFFICES ASSUME NEW i \in 1..w
                 PROVE  gran[c[(i - 1) \div GRANZ]] \in Seq(Byte)
                        /\ Len(gran[c[(i - 1) \div GRANZ]]) = GRANZ
                        /\ 1 + ((i - 1) % GRANZ) \in 1..GRANZ
      OBVIOUS
    <2>1. i \in Nat /\ i >= 1 /\ i <= m * GRANZ + GRANZ
      BY <1>1
    <2>2. /\ (i - 1) \div GRANZ \in Nat /\ (i - 1) \div GRANZ <= m
          /\ 1 + ((i - 1) % GRANZ) \in 1..GRANZ
      BY <1>1, <2>1, Place
    <2>3. (i - 1) \div GRANZ \in 0..m
      BY <1>1, <2>2
    <2>4. c[(i - 1) \div GRANZ] \in Gran
      BY <1>a, <2>3
    <2>5. gran[c[(i - 1) \div GRANZ]] \in [1..GRANZ -> Byte]
      BY <2>4
    <2> QED BY <2>2, <2>5, GranuleIsSeq
  <1>4. \A i \in 1..w : At(i) \in Byte
    BY <1>1, <1>3
  <1> HIDE DEF At
  <1>5. s \in Seq(Byte) /\ Len(s) = w /\ \A i \in 1..w : s[i] = At(i)
    BY <1>1, <1>2, <1>4
  <1> DEFINE p == SubSeq(s, 1, n)
  <1>7. p \in Seq(Byte) /\ Len(p) = n /\ \A i \in 1..n : p[i] = s[i] /\ i \in 1..w
    BY <1>1, <1>5
  <1>8. /\ Received(p) \in Seq(Byte) /\ Len(Received(p)) = n
        /\ \A i \in 1..n : Received(p)[i] = IF "l" \in job.flags /\ p[i] = CR THEN NL ELSE p[i]
    <2> HIDE DEF p
    <2> QED BY <1>7, ReceivedType
  <1> HIDE DEF p
  <1>9. ASSUME NEW i \in 1..n PROVE d[i] = Received(p)[i]
    <2> DEFINE g == gran[c[(i - 1) \div GRANZ]]
               j == 1 + ((i - 1) % GRANZ)
    <2>1. d[i] = Received(g)[j]
      BY Zenon DEF CopiedIs
    <2>2. g \in Seq(Byte) /\ j \in 1..Len(g) /\ p[i] = g[j]
      BY <1>3, <1>5, <1>7 DEF At
    <2> HIDE DEF g, j
    <2>3. Received(g)[j] = IF "l" \in job.flags /\ g[j] = CR THEN NL ELSE g[j]
      BY <2>2, ReceivedType
    <2> QED BY <1>8, <2>1, <2>2, <2>3
  <1>10. Len(d) = n
    BY DEF CopiedIs
  <1>11. d = Received(p)
    <2> DEFINE e == Received(p)
    <2>1. e \in Seq(Byte) /\ Len(e) = n /\ \A i \in 1..n : d[i] = e[i]
      BY <1>8, <1>9
    <2> HIDE DEF e
    <2>2. d = e
      BY <1>10, <2>1
    <2> QED BY <2>2 DEF e
  <1> QED BY <1>5, <1>11 DEF p

LEMMA GetDataIs ==
    ASSUME TypeOK, x \in Gran
    PROVE  GetData = Received(gran[x]) /\ GetData \in Seq(Byte) /\ Len(GetData) = GRANZ
  <1>1. gran[x] \in Seq(Byte) /\ Len(gran[x]) = GRANZ
    BY GranuleIsSeq DEF TypeOK
  <1>2. GetData = Received(gran[x])
    BY DEF GetData, Received
  <1> QED BY <1>1, <1>2, ReceivedType

LEMMA GetNextFiles ==
    ASSUME TypeOK, FilesInv, fails = 0, GetNext
    PROVE  FilesInv'
  <1>1. /\ pc = "get" /\ pc' = "get" /\ GetSize = GRANZ /\ dst' = dst \o GetData /\ x' = mfat[x]
        /\ UNCHANGED <<fat, dir, gran, job, mfat, entry, off, fails>>
    BY DEF GetNext, image
  <1> DEFINE c == Chain(fat, entry.first)
  <1>2. /\ job.op = "get" /\ x \in Gran /\ mfat = fat
        /\ off \in LiveSlots(dir) /\ entry = dir[off] /\ entry.name = job.name
        /\ Sound(fat, dir) /\ AllWhole(fat, dir, LiveSlots(dir))
    BY <1>1, GetAt
  <1>3. PICK m \in 0..(FATZ - 1) :
          c[m] = x /\ Copied(c, m) /\ (GetsMore(c, m) \/ GetsLast(c, m))
    BY <1>1, GetAt
  <1>4. m + 1 \in 0..(FATZ - 1) /\ c[m + 1] = mfat[x] /\ mfat[x] \in Gran /\ m \in Nat
    BY <1>1, <1>3, SizesAssumption DEF GetsMore, GetsLast
  <1> HIDE DEF c
  <1>5. GetData \in Seq(Byte) /\ Len(GetData) = GRANZ /\ GetData = Received(gran[x])
    BY <1>2, GetDataIs
  <1>6. CopiedIs(dst \o GetData, c, m * GRANZ + Len(GetData))
    <2>1. PICK t \in Seq(Byte) : t = GetData /\ Len(t) = GRANZ /\ t = Received(gran[x])
      BY <1>5
    <2>2. dst \in Seq(Byte) /\ Len(t) <= GRANZ /\ \A j \in 1..Len(t) : t[j] = Received(gran[x])[j]
      BY <2>1, GranzPositive DEF TypeOK
    <2>3. CopiedIs(dst \o t, c, m * GRANZ + Len(t))
      BY <1>3, <1>4, <2>2, CopyMore
    <2> QED BY <2>1, <2>3
  <1>7. (m + 1) * GRANZ = m * GRANZ + Len(GetData)
    BY <1>4, <1>5, GranzPositive, SMTT(20)
  <1>8. Copied(c, m + 1)'
    <2>1. CopiedIs(dst', c, (m + 1) * GRANZ)
      BY <1>1, <1>6, <1>7
    <2>2. /\ Len(dst') = (m + 1) * GRANZ
          /\ \A i \in 1..((m + 1) * GRANZ) :
               dst'[i] = Received(gran[c[(i - 1) \div GRANZ]])[1 + ((i - 1) % GRANZ)]
      BY <2>1, Zenon DEF CopiedIs
    <2>3. gran' = gran /\ job' = job /\ c' = c
      BY <1>1 DEF c
    <2> QED BY <2>2, <2>3 DEF Copied, Received
  <1>9. c' = c /\ c'[m + 1] = x' /\ x' \in Gran
    BY <1>1, <1>4 DEF c
  <1>10. GetFiles'
    <2>1. \E k \in 0..(FATZ - 1) : x' \in Gran /\ c'[k] = x' /\ Copied(c, k)'
      BY <1>4, <1>8, <1>9
    <2> QED BY <1>1, <1>2, <2>1 DEF GetFiles, c
  <1>11. RestFiles' /\ GetFaithful'
    BY <1>1, <1>2 DEF RestFiles, GetFaithful, LastGet
  <1> QED BY <1>1, <1>2, <1>10, <1>11 DEF FilesInv, PutFiles, RmFiles, Running

LEMMA ModGranule ==
    ASSUME NEW m \in Nat, NEW t \in 0..(GRANZ - 1)
    PROVE  (m * GRANZ + t) % GRANZ = t
  <1> DEFINE G == GRANZ
  <1>1. G \in Nat /\ G > 0
    BY GranzPositive
  <1> HIDE DEF G
  <1>2. PICK q \in Nat, r \in 0..(G - 1) : m * G + t = q * G + r /\ r = t
    BY <1>1 DEF G
  <1>3. (m * G + t) % G = r
    BY <1>1, <1>2, SMTT(30)
  <1> QED BY <1>2, <1>3 DEF G

LEMMA GetEnds ==
    ASSUME TypeOK, TypeOK', FilesInv, fails = 0, GetLast \/ GetNegative \/ GetUndefined
    PROVE  GetFaithful'
  <1> DEFINE c == Chain(fat, entry.first)
             rem == entry.rem
             T == TailBytes(fat[x], rem)
  <1>1. UNCHANGED <<fat, dir, gran, job>>
    BY DEF GetLast, GetNegative, GetUndefined, image
  <1>2. pc = "get"
    BY DEF GetLast, GetNegative, GetUndefined
  <1>3. /\ job.op = "get" /\ x \in Gran /\ mfat = fat
        /\ off \in LiveSlots(dir) /\ entry = dir[off] /\ entry.name = job.name
        /\ entry.first \in Gran /\ Sound(fat, dir)
    BY <1>2, GetAt
  <1>4. PICK m \in 0..(FATZ - 1) :
          c[m] = x /\ Copied(c, m) /\ (GetsMore(c, m) \/ GetsLast(c, m))
    BY <1>2, GetAt
  <1>5. /\ fat \in [Gran -> FatByte] /\ dir \in [Slot -> Entry] /\ dst \in Seq(Byte)
        /\ gran \in [Gran -> [1..GRANZ -> Byte]]
        /\ m \in Nat /\ m \in 0..FATZ /\ GRANZ \in Nat /\ GRANZ > 0 /\ SECZ \in Nat
    BY SizesAssumption, GranzPositive DEF TypeOK
  <1>6. GetsLast(c, m) /\ ~GetUndefined
    BY <1>3, <1>4, <1>5 DEF GetsMore, GetsLast, GetLast, GetNegative, GetUndefined
  <1>7. /\ Ends(fat, c, m, rem) /\ T \in 0..(GRANZ - 1) /\ GetSize \in Int /\ GetSize < GRANZ
        /\ T = 0 => GetSize < 0
        /\ T # 0 => GetSize = (IF T % SECZ = 0 THEN T - SECZ ELSE T) /\ GetSize >= 0
    <2>1. Ends(fat, c, m, rem) /\ GetSize \in Int /\ GetSize < GRANZ
      BY <1>6 DEF GetsLast
    <2>2. /\ T = 0 => GetSize < 0
          /\ T # 0 => GetSize = (IF T % SECZ = 0 THEN T - SECZ ELSE T) /\ GetSize >= 0
      BY <1>6, Zenon DEF GetsLast
    <2>3. T \in 0..(GRANZ - 1)
      BY <1>4, <2>1 DEF Ends
    <2> QED BY <2>1, <2>2, <2>3
  <1> DEFINE s == Bytes(fat, gran, c, m, rem)
             w == m * GRANZ + T
  <1>8. FileOf(fat, gran, dir[off]) = File(s)
    BY <1>3, <1>5, <1>7, FileWhole
  <1>9. OnDisk(job.name) = {File(s)}
    <2>1. job.name \in Names
      BY <1>3 DEF LiveSlots, Live
    <2>2. Find(dir, job.name) = {i \in LiveSlots(dir) : dir[i].name = job.name}
      BY <1>3, <1>5, <2>1, FindLive DEF Sound
    <2>3. Find(dir, job.name) = {off}
      BY <1>3, <2>2 DEF Sound, DirSound
    <2> HIDE DEF s
    <2> QED BY <1>8, <2>3 DEF OnDisk
  <1>10. \A k \in 0..m : c[k] \in Gran
    <2>1. c[m] \in Gran /\ fat[c[m]] \notin Gran
      BY <1>7, EndByte DEF Ends
    <2> QED BY <1>3, <1>5, <2>1, ChainEnds
  <1>11. T = TailBytes(fat[c[m]], rem) /\ w \in Nat /\ m * GRANZ \in Nat /\ w % GRANZ = T
    <2>1. w % GRANZ = T
      <3> HIDE DEF T
      <3> QED BY <1>5, <1>7, ModGranule
    <2> QED BY <1>4, <1>5, <1>7, <2>1, SMTT(20)
  <1>a. FileIs(s, w, fat, c, m, rem)
    <2>1. TailBytes(fat[c[m]], rem) \in 0..(GRANZ - 1) /\ w = m * GRANZ + TailBytes(fat[c[m]], rem)
      BY <1>7, <1>11
    <2>2. s = Bytes(fat, gran, c, m, rem)
      OBVIOUS
    <2> HIDE DEF c, rem, w, T, s
    <2> QED BY <1>10, <2>1, <2>2 DEF FileIs
  (* Everything get copies is the beginning of the file. *)
  <1>12. ASSUME NEW d \in Seq(Byte), NEW n \in Nat, n <= w, CopiedIs(d, c, n)
         PROVE  d = Received(SubSeq(s, 1, n))
    <2> HIDE DEF c, rem, w, T, s
    <2> QED BY <1>5, <1>a, <1>12, ReadIs
  <1>13. s \in Seq(Byte) /\ Len(s) = w
    <2>1. << >> \in Seq(Byte) /\ CopiedIs(<< >>, c, 0) /\ 0 <= w
      BY <1>11 DEF CopiedIs
    <2>2. PICK d \in Seq(Byte), n \in Nat : CopiedIs(d, c, n) /\ n <= w
      BY <2>1
    <2> HIDE DEF c, rem, w, T, s
    <2> QED BY <1>5, <1>a, <2>2, ReadIs
  <1> HIDE DEF s
  <1>14. SubSeq(s, 1, w) = s
    BY <1>11, <1>13
  <1>15. IF T = 0 THEN status' = "err" /\ dst' = Received(s)
         ELSE /\ status' = "ok"
              /\ dst' = Received(IF T % SECZ = 0 THEN SubSeq(s, 1, w - SECZ) ELSE s)
    <2>1. CASE GetNegative
      <3>1. T = 0 /\ dst' = dst /\ status' = "err"
        BY <1>7, <2>1 DEF GetNegative, Exit
      <3>2. CopiedIs(dst, c, m * GRANZ)
        BY <1>4, Zenon DEF Copied, CopiedIs
      <3>3. w = m * GRANZ
        BY <1>5, <1>11, <3>1
      <3>4. dst = Received(SubSeq(s, 1, w))
        BY <1>5, <1>11, <1>12, <3>2, <3>3
      <3> QED BY <1>14, <3>1, <3>4
    <2>2. CASE GetLast
      <3> DEFINE z == GetSize
                 t == SubSeq(GetData, 1, z)
      <3>1. dst' = dst \o t /\ status' = "ok" /\ z \in 0..(GRANZ - 1) /\ z \in Nat
        BY <1>5, <2>2 DEF GetLast, Exit
      <3> HIDE DEF z, T
      <3>2. T # 0 /\ z = (IF T % SECZ = 0 THEN T - SECZ ELSE T)
        BY <1>7, <3>1 DEF z
      <3>3. GetData = Received(gran[x]) /\ GetData \in Seq(Byte) /\ Len(GetData) = GRANZ
        BY <1>3, GetDataIs
      <3>4. /\ t \in Seq(Byte) /\ Len(t) = z /\ Len(t) <= GRANZ
            /\ \A j \in 1..Len(t) : t[j] = Received(gran[x])[j]
        BY <1>5, <3>1, <3>3
      <3> HIDE DEF t
      <3>5. CopiedIs(dst', c, m * GRANZ + z)
        <4>1. PICK v \in Seq(Byte) : v = t
          BY <3>4
        <4>2. CopiedIs(dst \o v, c, m * GRANZ + Len(v))
          BY <1>4, <1>5, <3>4, <4>1, CopyMore
        <4> QED BY <3>1, <3>4, <4>1, <4>2
      <3>6. m * GRANZ + z \in Nat /\ m * GRANZ + z <= w
        <4> DEFINE a == m * GRANZ
        <4>1. a \in Nat /\ w = a + T /\ T \in Nat
          BY <1>5, <1>7, <1>11
        <4> HIDE DEF a, w
        <4>2. a + z \in Nat /\ a + z <= w
          BY <1>5, <3>1, <3>2, <4>1
        <4> QED BY <4>2 DEF a
      <3>7. dst' = Received(SubSeq(s, 1, m * GRANZ + z))
        <4>1. dst' \in Seq(Byte)
          BY DEF TypeOK
        <4> HIDE DEF c, rem, w
        <4> QED BY <1>12, <3>5, <3>6, <4>1
      <3>8. m * GRANZ + z = IF T % SECZ = 0 THEN w - SECZ ELSE w
        <4> DEFINE a == m * GRANZ
        <4>1. a \in Nat /\ w = a + T /\ T \in Nat
          BY <1>5, <1>7, <1>11
        <4> HIDE DEF a, w
        <4>2. a + z = IF T % SECZ = 0 THEN w - SECZ ELSE w
          BY <1>5, <3>2, <4>1
        <4> QED BY <4>2 DEF a
      <3>9. CASE T % SECZ = 0
        BY <3>1, <3>2, <3>7, <3>8, <3>9
      <3>10. CASE T % SECZ # 0
        BY <1>14, <3>1, <3>2, <3>7, <3>8, <3>10
      <3> QED BY <3>9, <3>10
    <2> QED BY <1>6, <2>1, <2>2
  <1> HIDE DEF c, rem, T, w
  <1>16. OnDisk(job.name)' = {File(s)}
    <2>1. OnDisk(job.name)' = OnDisk(job.name)
      BY <1>1 DEF OnDisk
    <2> QED BY <1>9, <2>1
  <1>17. SUFFICES ASSUME NEW r \in OnDisk(job.name)'
                  PROVE  IF Len(r.data) % GRANZ = 0
                         THEN status' = "err" /\ dst' = Received(r.data)'
                         ELSE /\ status' = "ok"
                              /\ dst' = Received(IF (Len(r.data) % GRANZ) % SECZ = 0
                                                 THEN SubSeq(r.data, 1, Len(r.data) - SECZ)
                                                 ELSE r.data)'
    BY Zenon DEF GetFaithful
  <1>18. r.data = s
    BY <1>16 DEF File
  <1>19. \A q : Received(q)' = Received(q)
    BY <1>1 DEF Received
  <1> QED BY <1>11, <1>13, <1>15, <1>18, <1>19

LEMMA GetFilesKept ==
    ASSUME TypeOK, TypeOK', FilesInv, fails = 0, GetNext \/ GetLast \/ GetNegative \/ GetUndefined
    PROVE  FilesInv'
  <1>1. CASE GetNext
    BY <1>1, GetNextFiles
  <1>2. CASE GetLast \/ GetNegative \/ GetUndefined
    <2>1. pc = "get" /\ (Exit("ok") \/ Exit("err")) /\ UNCHANGED <<fat, dir, job>>
      BY <1>2 DEF GetLast, GetNegative, GetUndefined, image
    <2>2. job.op = "get" /\ Sound(fat, dir) /\ AllWhole(fat, dir, LiveSlots(dir))
      BY <2>1, GetAt
    <2>3. job'.op \in Op /\ AllWhole(fat', dir', LiveSlots(dir')) /\ Sound(fat', dir')
      BY <2>1, <2>2 DEF Op
    <2>4. GetFaithful'
      BY <1>2, GetEnds
    <2> QED BY <2>1, <2>3, <2>4, ExitFiles
  <1> QED BY <1>1, <1>2

-----------------------------------------------------------------------------
(* Commands *)

LEMMA PutOpenFiles ==
    ASSUME RoomAssumed, TypeOK, TypeOK', FilesInv, fails = 0,
           NEW n \in Names, NEW s \in HostFiles, NEW fl \in SUBSET {"l"}, PutOpen(n, s, fl)
    PROVE  FilesInv'
  <1>1. /\ pc = "idle" /\ pc' = "put" /\ job' = NewJob("put", n, s, fl) /\ src' = s
        /\ UNCHANGED <<fat, dir, gran, fails>> /\ Needs(s) <= GranFree(fat)
    BY DEF PutOpen, Begin, image
  <1>2. Sound(fat, dir) /\ AllWhole(fat, dir, LiveSlots(dir))
    BY <1>1 DEF FilesInv, RestFiles
  <1>3. PICK i \in FreeSlot(dir), g \in FindGran(fat) :
          /\ off' = i /\ entry' = WithFirst(dir[i], g)
          /\ mfat' = Store(fat, g, LastByte(0)) /\ x' = g
    BY DEF PutOpen
  <1>4. s \in Seq(Byte) /\ Len(s) \in Nat /\ Len(s) \div GRANZ \in Nat
    BY DataAssumption, GranzPositive
  <1>5. GranFree(fat) \in Nat /\ GranFree(fat) >= 1 /\ GranFree(fat) <= FATZ
    <2>1. GranFree(fat) \in Nat /\ GranFree(fat) >= 1
      BY <1>1, <1>4, FreeFinite DEF Needs
    <2>2. IsFiniteSet(Gran) /\ Cardinality(Gran) = FATZ
      BY SizesAssumption, FS_Interval DEF Gran
    <2>3. FreeGrans(fat) \in SUBSET Gran
      BY DEF FreeGrans
    <2>4. Cardinality(FreeGrans(fat)) <= Cardinality(Gran)
      BY <2>2, <2>3, FS_Subset
    <2> QED BY <2>1, <2>2, <2>4 DEF GranFree
  <1>6. Needs(s) <= FATZ
    <2> DEFINE k == Needs(s)
    <2>1. k \in Nat /\ k <= GranFree(fat)
      BY <1>1, <1>4 DEF Needs
    <2> HIDE DEF k
    <2>2. k <= FATZ
      BY <1>5, <2>1, SizesAssumption
    <2> QED BY <2>2 DEF k
  <1>7. g \in Gran /\ fat[g] = FREE
    BY <1>5, RoomLeft DEF FreeGrans
  <1>8. OnlyAdds'
    <2>1. \A h \in Gran : fat[h] # FREE => mfat'[h] = fat[h]
      BY <1>3, <1>7 DEF Store, TypeOK
    <2> QED BY <1>1, <2>1 DEF OnlyAdds
  <1>9. entry'.first = g /\ job'.file = s /\ job'.op = "put"
    BY <1>1, <1>3 DEF WithFirst, NewJob
  <1>10. /\ 0 \in 0..(FATZ - 1) /\ 0 * GRANZ = 0 /\ 0 * GRANZ + Len(s) = Len(s)
    BY <1>4, GranzPositive, SizesAssumption
  <1>11. /\ Chain(mfat', entry'.first)[0] = x'
         /\ 0 * GRANZ + Len(src') = Len(job'.file)
         /\ \A j \in 1..Len(src') : src'[j] = job'.file[0 * GRANZ + j]
         /\ Begun(gran', Chain(mfat', entry'.first), 0, Given')
    <2>1. Chain(mfat', entry'.first)[0] = x'
      <3>1. PICK f2 \in [Gran -> FatByte] : f2 = mfat'
        BY DEF TypeOK
      <3>2. Chain(f2, g)[0] = g
        BY <1>7, ChainStep
      <3> QED BY <1>3, <1>9, <3>1, <3>2
    <2>2. \A j \in 1..Len(s) : s[j] = s[0 * GRANZ + j]
      BY <1>4, <1>10
    <2>3. Begun(gran', Chain(mfat', entry'.first), 0, Given')
      BY <1>10 DEF Begun
    <2> QED BY <1>1, <1>9, <1>10, <2>1, <2>2, <2>3
  <1>12. PutFiles'
    <2>1. Needs(job'.file) <= FATZ /\ fat'[x'] = FREE /\ job'.file \in HostFiles
      BY <1>1, <1>3, <1>6, <1>7, <1>9
    <2>2. \E m \in 0..(FATZ - 1) :
             /\ Chain(mfat', entry'.first)[m] = x'
             /\ m * GRANZ + Len(src') = Len(job'.file)
             /\ \A j \in 1..Len(src') : src'[j] = job'.file[m * GRANZ + j]
             /\ Begun(gran', Chain(mfat', entry'.first), m, Given')
      BY <1>10, <1>11
    <2> QED BY <1>1, <1>8, <2>1, <2>2 DEF PutFiles
  <1> QED BY <1>1, <1>2, <1>9, <1>12
          DEF FilesInv, RmFiles, GetFiles, RestFiles, Running, GetFaithful, LastGet

LEMMA OpenFiles ==
    ASSUME TypeOK, TypeOK', Sound(fat, dir), NEW n \in Names, OpenFile(n)
    PROVE  /\ off' \in LiveSlots(dir) /\ dir[off'].name = n /\ entry' = dir[off']
           /\ mfat' = fat /\ x' = dir[off'].first /\ x' \in Gran
  <1>1. PICK i \in Find(dir, n) : off' = i /\ entry' = dir[i] /\ x' = dir[i].first /\ mfat' = fat
    BY DEF OpenFile
  <1>2. i \in LiveSlots(dir) /\ dir[i].name = n
    BY FindLive DEF Sound, TypeOK
  <1> QED BY <1>1, <1>2 DEF Sound, Disjoint

LEMMA CommandFiles ==
    ASSUME RoomAssumed, TypeOK, TypeOK', SoundInv, FilesInv, Command, fails = 0
    PROVE  FilesInv'
  <1>1. /\ pc = "idle" /\ Sound(fat, dir) /\ AllWhole(fat, dir, LiveSlots(dir))
        /\ UNCHANGED <<fat, dir, gran, fails>>
    BY DEF Command, MkfsBegin, PutOpen, RmOpen, GetOpen, Refuse, List, PutBoot, WalkBegin,
           GetBoot, Begin, FilesInv, RestFiles, image
  <1>2. Sound(fat', dir') /\ AllWhole(fat', dir', LiveSlots(dir'))
    BY <1>1
  <1>3. ASSUME NEW fl \in SUBSET {"m", "p"}, MkfsBegin(fl) PROVE FilesInv'
    BY <1>3 DEF MkfsBegin, Begin, NewJob, FilesInv, PutFiles, RmFiles, GetFiles, RestFiles,
                Running, GetFaithful, LastGet
  <1>4. ASSUME NEW n \in Names, NEW s \in HostFiles, NEW fl \in SUBSET {"l"},
               PutOpen(n, s, fl)
        PROVE  FilesInv'
    BY <1>4, PutOpenFiles
  <1>5. ASSUME NEW j \in Job, Refuse(j) PROVE FilesInv'
    <2>1. pc' = "idle" /\ job' = j /\ j.op \in Op
      BY <1>1, <1>5 DEF Refuse, Job
    <2>2. j.op = "get" => Find(dir', job'.name) = {}
      BY <1>1, <1>5 DEF Refuse
    <2>3. GetFaithful'
      BY <2>1, <2>2 DEF GetFaithful, LastGet
    <2> QED BY <1>2, <2>1, <2>3 DEF FilesInv, PutFiles, RmFiles, GetFiles, RestFiles, Running
  <1>6. ASSUME NEW n \in Names, RmOpen(n) PROVE FilesInv'
    <2>1. OpenFile(n) /\ pc' = "rm" /\ job'.name = n /\ job'.op = "rm"
      BY <1>6 DEF RmOpen, Begin, NewJob
    <2>2. /\ off' \in LiveSlots(dir) /\ dir[off'].name = n /\ mfat' = fat
      BY <1>1, <2>1, OpenFiles
    <2>3. RmFiles'
      BY <1>1, <2>1, <2>2 DEF RmFiles, AllWhole
    <2> QED BY <1>2, <2>1, <2>3
            DEF FilesInv, PutFiles, GetFiles, RestFiles, Running, GetFaithful, LastGet
  <1>7. ASSUME NEW n \in Names, NEW fl \in SUBSET {"l"}, GetOpen(n, fl) PROVE FilesInv'
    <2>1. OpenFile(n) /\ pc' = "get" /\ job'.name = n /\ job'.op = "get" /\ dst' = << >>
      BY <1>7 DEF GetOpen, Begin, NewJob
    <2>2. /\ off' \in LiveSlots(dir) /\ dir[off'].name = n /\ mfat' = fat /\ entry' = dir[off']
          /\ x' = dir[off'].first /\ x' \in Gran
      BY <1>1, <2>1, OpenFiles
    <2>3. fat \in [Gran -> FatByte] /\ entry'.first = x'
      BY <2>2 DEF TypeOK
    <2>4. Chain(fat', entry'.first)[0] = x'
      <3>1. PICK g \in Gran : g = x'
        BY <2>2
      <3> QED BY <1>1, <2>3, <3>1, ChainStep
    <2>5. 0 \in 0..(FATZ - 1) /\ 0 * GRANZ = 0
      BY SizesAssumption, GranzPositive
    <2>6. Copied(Chain(fat, entry.first), 0)'
      BY <2>1, <2>5 DEF Copied
    <2>7. GetFiles'
      BY <1>1, <2>1, <2>2, <2>4, <2>5, <2>6 DEF GetFiles
    <2> QED BY <1>2, <2>1, <2>7
            DEF FilesInv, PutFiles, RmFiles, RestFiles, Running, GetFaithful, LastGet
  <1>8. CASE List
    BY <1>2, <1>8 DEF List, WalkBegin, Begin, NewJob, FilesInv, PutFiles, RmFiles, GetFiles,
                     RestFiles, Running, GetFaithful, LastGet
  <1>9. ASSUME NEW s \in HostFiles, PutBoot(s) PROVE FilesInv'
    BY <1>2, <1>9 DEF PutBoot, WalkBegin, Begin, NewJob, FilesInv, PutFiles, RmFiles, GetFiles,
                     RestFiles, Running, GetFaithful, LastGet
  <1>10. CASE GetBoot
    <2>1. pc' = "idle" /\ job'.op = "getboot"
      BY <1>1, <1>10 DEF GetBoot, NewJob
    <2> QED BY <1>2, <2>1 DEF FilesInv, PutFiles, RmFiles, GetFiles, RestFiles, Running, Op,
                              GetFaithful, LastGet
  <1>11. \A n \in Names, s \in HostFiles, fl \in SUBSET {"l"} : NewJob("put", n, s, fl) \in Job
    BY JobType DEF Op, Flag
  <1>12. \A n \in Names, fl \in SUBSET {"l"} :
          NewJob("rm", n, << >>, {}) \in Job /\ NewJob("get", n, << >>, fl) \in Job
    BY JobType DEF Op, Flag
  <1> QED BY <1>3, <1>4, <1>5, <1>6, <1>7, <1>8, <1>9, <1>10, <1>11, <1>12 DEF Command

-----------------------------------------------------------------------------
(* The files at every instant *)

LEMMA InitFiles == Init => FilesInv
  <1> SUFFICES ASSUME Init PROVE FilesInv
    OBVIOUS
  <1>1. pc = "idle" /\ job.op = "mkfs" /\ \A i \in Slot : dir[i] = Wiped
    BY DEF Init, NewJob
  <1>2. Sound(fat, dir)
    BY <1>1, InitSound, SizesAssumption DEF Init, SoundInv, RestInv
  <1>3. LiveSlots(dir) = {}
    BY <1>1, NamesAssumption DEF LiveSlots, Live, Wiped
  <1> QED BY <1>1, <1>2, <1>3
          DEF FilesInv, PutFiles, RmFiles, GetFiles, RestFiles, Running, Op, AllWhole,
              GetFaithful, LastGet

LEMMA FilesStep ==
    ASSUME RoomAssumed, TypeOK, TypeOK', SoundInv, SoundInv', FilesInv, [Next]_vars
    PROVE  FilesInv'
  <1> SUFFICES ASSUME fails' = 0 PROVE FilesInv'
    BY DEF FilesInv
  <1>1. CASE UNCHANGED vars
    BY <1>1 DEF vars, FilesInv, PutFiles, OnlyAdds, Holds, Given, RmFiles, GetFiles, Copied,
                Received, RestFiles, GetFaithful, LastGet, OnDisk
  <1>2. CASE Fail
    BY <1>2 DEF Fail, TypeOK
  <1>3. CASE Command
    <2>1. fails = 0
      BY <1>3 DEF Command, MkfsBegin, PutOpen, RmOpen, GetOpen, Refuse, List, PutBoot,
                  WalkBegin, GetBoot
    <2> QED BY <1>3, <2>1, CommandFiles
  <1>4. CASE Step
    <2>1. fails = 0
      BY <1>4 DEF Step, MkfsWrite, MkfsSaveFat, PutFull, PutTail, PutSaveEntry, PutSaveFat,
                  RmDelchain, RmSaveFat, RmSaveEntry, GetNext, GetLast, GetNegative,
                  GetUndefined, WalkChain, WalkEntry, ListDone, BootBegin, BootWrite,
                  BootSaveFat
    <2> QED BY <1>4, <2>1, MkfsFiles, PutFullFiles, PutTailFiles, PutSaveEntryFiles,
               PutSaveFatFiles, RmFilesKept, GetFilesKept, WalkFiles DEF Step
  <1> QED BY <1>1, <1>2, <1>3, <1>4 DEF Next

(* However many commands ran, as long as none died, every file on a disk   *)
(* of any size is whole: what put has written so far is what it read, what *)
(* get has copied is the beginning of the file, and no other file changes. *)
THEOREM FilesAlways ==
    ASSUME RoomAssumed, BootHeeded
    PROVE  Spec => []FilesInv
  <1>1. TypeOK /\ TypeOK' /\ SoundInv /\ SoundInv' /\ FilesInv /\ [Next]_vars => FilesInv'
    BY FilesStep
  <1> QED BY InitFiles, TypeCorrect, SoundAlways, <1>1, PTL DEF Spec

(* get gives back the file that was put, for files of every length on      *)
(* disks of every size, but for the last sector when that sector is full;  *)
(* and it exits with an error when the last granule of the file is empty.  *)
THEOREM GetGivesBack ==
    ASSUME RoomAssumed, BootHeeded
    PROVE  Spec => []GetFaithful
  <1>1. FilesInv => GetFaithful
    BY DEF FilesInv, GetFaithful
  <1> QED BY FilesAlways, <1>1, PTL

LEMMA WholeNotLost ==
    ASSUME NEW f \in [Gran -> FatByte], NEW gr, NEW e, Whole(f, e)
    PROVE  FileOf(f, gr, e) # Lost
  <1>1. e.first \in Gran
    BY DEF Whole
  <1>2. PICK m \in 0..(FATZ - 1) : Ends(f, Chain(f, e.first), m, e.rem)
    BY DEF Whole
  <1>3. FileOf(f, gr, e) = File(Bytes(f, gr, Chain(f, e.first), m, e.rem))
    BY <1>1, <1>2, FileWhole
  <1>4. \A s : File(s).is = "file" /\ Lost.is = "lost"
    BY DEF File, Lost
  <1>5. \A s : File(s) # Lost
    BY <1>4
  <1> QED BY <1>3, <1>5

(* The two writes of put, of the entry and of the FAT, and the two of rm   *)
(* are the only instants at which a crash leaves a file unreadable, and    *)
(* then it is the one being put or removed.                                *)
THEOREM DamageIsBrief ==
    ASSUME RoomAssumed, BootHeeded
    PROVE  Spec => []DamageWindow
  <1>1. TypeOK /\ SoundInv /\ FilesInv => DamageWindow
    <2> SUFFICES ASSUME TypeOK, SoundInv, FilesInv, fails = 0, job.op # "mkfs",
                        NEW n \in Names, Lost \in OnDisk(n)
                 PROVE  n = job.name /\ pc \in {"put_fat", "rm_entry"}
      BY DEF DamageWindow
    <2>1. PICK i \in Find(dir, n) : FileOf(fat, gran, dir[i]) = Lost
      BY DEF OnDisk
    <2>2. i \in LiveSlots(dir) /\ dir[i].name = n
      BY <2>1 DEF Find, Visible, LiveSlots, Live
    <2>3. ~Whole(fat, dir[i])
      BY <2>1, WholeNotLost DEF TypeOK
    <2>4. pc \notin {"idle", "get", "walk", "boot", "put", "put_entry", "rm"}
      BY <2>2, <2>3 DEF FilesInv, RestFiles, AllWhole
    <2>5. pc \in {"put_fat", "rm_entry"}
      BY <2>4 DEF TypeOK, FilesInv, Running
    <2>6. i = off /\ dir[off].name = job.name
      BY <2>2, <2>3, <2>5 DEF FilesInv, PutFiles, RmFiles, AllWhole
    <2> QED BY <2>2, <2>5, <2>6
  <1> QED BY TypeCorrect, SoundAlways, FilesAlways, <1>1, PTL

-----------------------------------------------------------------------------
(* decb implements FileStore *)

FilesNamed(f, gr, d, n) == {FileOf(f, gr, d[i]) : i \in {j \in LiveSlots(d) : d[j].name = n}}

LEMMA OnDiskNow ==
    ASSUME TypeOK, DirSound(dir), NEW n \in Names
    PROVE  OnDisk(n) = FilesNamed(fat, gran, dir, n)
  <1>1. Find(dir, n) = {i \in LiveSlots(dir) : dir[i].name = n}
    BY FindLive DEF TypeOK
  <1> QED BY <1>1 DEF OnDisk, FilesNamed

LEMMA OnDiskNext ==
    ASSUME TypeOK', DirSound(dir'), NEW n \in Names
    PROVE  OnDisk(n)' = FilesNamed(fat', gran', dir', n)
  <1>1. Find(dir', n) = {i \in LiveSlots(dir') : dir'[i].name = n}
    <2>1. PICK d \in [Slot -> Entry] : d = dir'
      BY DEF TypeOK
    <2>2. DirSound(d)
      BY <2>1
    <2>3. Find(d, n) = {i \in LiveSlots(d) : d[i].name = n}
      BY <2>2, FindLive
    <2> QED BY <2>1, <2>3
  <1> QED BY <1>1 DEF OnDisk, FilesNamed

Shown(n) == IF Hidden(n) THEN {} ELSE OnDisk(n)

LEMMA StoredIs ==
    /\ Stored = [n \in Names |-> Shown(n)]
    /\ Stored' = [n \in Names |-> Shown(n)']
  BY DEF Stored, Shown

LEMMA AllKept ==
    ASSUME \A n \in Names : Shown(n)' = Shown(n)
    PROVE  Stored' = Stored
  BY StoredIs, Zenon

(* Steps that change nothing on the image, *)
LEMMA QuietStep ==
    ASSUME UNCHANGED <<fat, dir, gran>>,
           pc \notin {"mkfs", "put_fat", "rm_entry"}, pc' \notin {"mkfs", "put_fat", "rm_entry"}
    PROVE  Stored' = Stored
  <1>1. \A n \in Names : ~Hidden(n) /\ ~Hidden(n)'
    BY DEF Hidden
  <1>2. \A n \in Names : OnDisk(n)' = OnDisk(n)
    BY DEF OnDisk
  <1>3. \A n \in Names : Shown(n)' = Shown(n)
    BY <1>1, <1>2 DEF Shown
  <1> QED BY <1>3, AllKept

(* and steps that leave the directory and each file as they were. *)
LEMMA SameFiles ==
    ASSUME TypeOK, TypeOK', DirSound(dir), dir' = dir,
           \A i \in LiveSlots(dir) : FileOf(fat', gran', dir[i]) = FileOf(fat, gran, dir[i])
    PROVE  \A n \in Names : OnDisk(n)' = OnDisk(n)
  <1>1. DirSound(dir')
    OBVIOUS
  <1> SUFFICES ASSUME NEW n \in Names PROVE OnDisk(n)' = OnDisk(n)
    OBVIOUS
  <1>2. OnDisk(n) = FilesNamed(fat, gran, dir, n) /\ OnDisk(n)' = FilesNamed(fat', gran', dir', n)
    BY <1>1, OnDiskNow, OnDiskNext
  <1>3. FilesNamed(fat', gran', dir, n) = FilesNamed(fat, gran, dir, n)
    BY DEF FilesNamed
  <1> QED BY <1>2, <1>3

LEMMA FormatBegins ==
    ASSUME NEW fl \in SUBSET {"m", "p"}, MkfsBegin(fl)
    PROVE  Store_!Format
  <1>1. \A n \in Names : Hidden(n)'
    BY DEF MkfsBegin, Begin, Hidden
  <1>2. \A n \in Names : Shown(n)' = {}
    BY <1>1 DEF Shown
  <1>3. Stored' = [n \in Names |-> {}]
    BY <1>2, StoredIs, Zenon
  <1> QED BY <1>3 DEF Store_!Format

LEMMA FormatEnds ==
    ASSUME TypeOK, SoundInv, fails = 0, MkfsWrite \/ MkfsSaveFat
    PROVE  Stored' = Stored
  <1>1. \A n \in Names : Shown(n) = {}
    BY DEF MkfsWrite, MkfsSaveFat, Hidden, Shown
  <1>2. CASE MkfsWrite
    <2>1. \A n \in Names : Shown(n)' = {}
      BY <1>2 DEF MkfsWrite, Hidden, Shown
    <2> QED BY <1>1, <2>1, AllKept
  <1>3. CASE MkfsSaveFat
    <2>1. \A i \in Slot : dir'[i] = Wiped
      BY <1>3, SizesAssumption DEF MkfsSaveFat, SoundInv, MkfsInv
    <2>2. \A n \in Names : Find(dir', n) = {}
      BY <2>1, NamesAssumption DEF Find, Visible, Wiped
    <2>3. \A n \in Names : OnDisk(n)' = {}
      BY <2>2 DEF OnDisk
    <2>4. \A n \in Names : Shown(n)' = {}
      BY <2>3 DEF Shown
    <2> QED BY <1>1, <2>4, AllKept
  <1> QED BY <1>2, <1>3

LEMMA PutWrites ==
    ASSUME TypeOK, TypeOK', SoundInv, FilesInv, fails = 0, PutFull \/ PutTail
    PROVE  Stored' = Stored
  <1>1. /\ pc = "put" /\ pc' \in {"put", "put_entry"} /\ UNCHANGED <<fat, dir>>
        /\ \A h \in Gran : h # x => gran'[h] = gran[h]
    BY DEF PutFull, PutTail, WriteGran
  <1>2. Sound(fat, dir) /\ AllWhole(fat, dir, LiveSlots(dir)) /\ fat[x] = FREE
    BY <1>1 DEF FilesInv, PutFiles, RestFiles
  <1>3. PICK gr : gr = gran'
    OBVIOUS
  <1>4. ASSUME NEW i \in LiveSlots(dir)
        PROVE  FileOf(fat, gr, dir[i]) = FileOf(fat, gran, dir[i])
    <2>1. \A h \in Gran : fat[h] # FREE => fat[h] = fat[h] /\ gr[h] = gran[h]
      BY <1>1, <1>2, <1>3
    <2>2. fat \in [Gran -> FatByte] /\ Disjoint(fat, dir, LiveSlots(dir), NoOwn)
      BY <1>2 DEF TypeOK, Sound
    <2>3. Whole(fat, dir[i])
      BY <1>2 DEF AllWhole
    <2> QED BY <2>1, <2>2, <2>3, SameInUse
  <1>5. \A n \in Names : OnDisk(n)' = OnDisk(n)
    BY <1>1, <1>2, <1>3, <1>4, SameFiles DEF Sound
  <1>6. \A n \in Names : ~Hidden(n) /\ ~Hidden(n)'
    BY <1>1 DEF Hidden
  <1>7. \A n \in Names : Shown(n)' = Shown(n)
    BY <1>5, <1>6 DEF Shown
  <1> QED BY <1>7, AllKept

LEMMA PutNames ==
    ASSUME TypeOK, TypeOK', SoundInv, SoundInv', FilesInv, fails = 0, PutSaveEntry
    PROVE  Stored' = Stored
  <1>1. /\ pc = "put_entry" /\ pc' = "put_fat" /\ dir' = [dir EXCEPT ![off] = entry]
        /\ UNCHANGED <<fat, gran, job, fails>>
    BY DEF PutSaveEntry, SaveEntry
  <1>2. PutSlotInv /\ entry.name = job.name /\ DirSound(dir) /\ DirSound(dir')
    BY <1>1 DEF SoundInv, PutInv, PutSlotInv, Sound
  <1>3. dir'[off] = entry /\ \A i \in Slot : i # off => dir'[i] = dir[i]
    BY <1>1, <1>2 DEF TypeOK, PutSlotInv
  <1>4. ASSUME NEW n \in Names, n # job.name PROVE Shown(n)' = Shown(n)
    <2>1. OnDisk(n) = FilesNamed(fat, gran, dir, n) /\ OnDisk(n)' = FilesNamed(fat', gran', dir', n)
      BY <1>2, OnDiskNow, OnDiskNext
    <2>2. {j \in LiveSlots(dir') : dir'[j].name = n} = {j \in LiveSlots(dir) : dir[j].name = n}
      BY <1>2, <1>3, <1>4 DEF LiveSlots, Live, PutSlotInv
    <2>3. \A j \in {j \in LiveSlots(dir) : dir[j].name = n} : dir'[j] = dir[j]
      BY <1>2, <1>3 DEF LiveSlots, PutSlotInv
    <2>4. FilesNamed(fat, gran, dir', n) = FilesNamed(fat, gran, dir, n)
      BY <2>2, <2>3 DEF FilesNamed
    <2>5. ~Hidden(n) /\ ~Hidden(n)'
      BY <1>1, <1>4 DEF Hidden
    <2> QED BY <1>1, <2>1, <2>4, <2>5 DEF Shown
  <1>5. ASSUME NEW n \in Names, n = job.name PROVE Shown(n)' = Shown(n)
    <2>1. Find(dir, n) = {i \in LiveSlots(dir) : dir[i].name = n}
      BY <1>2, FindLive DEF TypeOK
    <2>2. Find(dir, n) = {}
      BY <1>2, <1>5, <2>1 DEF PutSlotInv
    <2>3. Hidden(n)'
      BY <1>1, <1>5 DEF Hidden
    <2> QED BY <2>2, <2>3 DEF Shown, OnDisk
  <1> QED BY <1>4, <1>5, AllKept

LEMMA PutTakesEffect ==
    ASSUME TypeOK, TypeOK', SoundInv, FilesInv, fails = 0, PutSaveFat
    PROVE  Store_!Put(job.name) /\ job.name \in Names
  <1>1. /\ pc = "put_fat" /\ pc' = "idle" /\ fat' = mfat /\ UNCHANGED <<dir, gran, job, fails>>
    BY DEF PutSaveFat, Exit
  <1>2. /\ OnlyAdds /\ job.file \in HostFiles /\ Sound(mfat, dir)
        /\ off \in LiveSlots(dir) /\ dir[off].name = job.name
        /\ Disjoint(fat, dir, LiveSlots(dir) \ {off}, NoOwn)
        /\ AllWhole(fat, dir, LiveSlots(dir) \ {off})
        /\ FileOf(mfat, gran, dir[off]) = File(Given)
    BY <1>1 DEF FilesInv, PutFiles, SoundInv, PutInv, Holds
  <1>3. DirSound(dir) /\ DirSound(dir') /\ job.name \in Names
    BY <1>1, <1>2 DEF Sound, LiveSlots, Live
  <1>4. Shown(job.name) = {}
    BY <1>1 DEF Shown, Hidden
  <1>5. \A n \in Names : Shown(n)' = FilesNamed(mfat, gran, dir, n)
    <2>1. \A n \in Names : OnDisk(n)' = FilesNamed(fat', gran', dir', n)
      BY <1>3, OnDiskNext
    <2>2. \A n \in Names : ~Hidden(n)'
      BY <1>1 DEF Hidden
    <2> QED BY <1>1, <2>1, <2>2 DEF Shown
  <1>6. FilesNamed(mfat, gran, dir, job.name) \in Storable
    <2>1. {j \in LiveSlots(dir) : dir[j].name = job.name} = {off}
      BY <1>2, <1>3 DEF DirSound
    <2>2. FilesNamed(mfat, gran, dir, job.name) = {File(Given)}
      BY <1>2, <2>1 DEF FilesNamed
    <2>3. Given \in HostFiles \cup {NlToCr(t) : t \in HostFiles}
      BY <1>2 DEF Given
    <2> QED BY <2>2, <2>3 DEF Storable
  <1>7. ASSUME NEW n \in Names \ {job.name} PROVE Shown(n)' = Shown(n)
    <2>1. Shown(n) = FilesNamed(fat, gran, dir, n)
      <3>1. OnDisk(n) = FilesNamed(fat, gran, dir, n)
        BY <1>3, OnDiskNow
      <3>2. ~Hidden(n)
        BY <1>1 DEF Hidden
      <3> QED BY <3>1, <3>2 DEF Shown
    <2>2. ASSUME NEW i \in LiveSlots(dir), dir[i].name = n
          PROVE  FileOf(mfat, gran, dir[i]) = FileOf(fat, gran, dir[i])
      <3>1. i \in LiveSlots(dir) \ {off}
        BY <1>2, <2>2
      <3>2. fat \in [Gran -> FatByte] /\ mfat \in [Gran -> FatByte] /\ Whole(fat, dir[i])
        BY <1>2, <3>1 DEF TypeOK, AllWhole
      <3>3. \A h \in Gran : fat[h] # FREE => mfat[h] = fat[h] /\ gran[h] = gran[h]
        BY <1>2 DEF OnlyAdds
      <3> DEFINE S == LiveSlots(dir) \ {off}
      <3>4. Disjoint(fat, dir, S, NoOwn) /\ i \in S
        BY <1>2, <3>1
      <3> HIDE DEF S
      <3> QED BY <3>2, <3>3, <3>4, SameInUse
    <2>3. FilesNamed(mfat, gran, dir, n) = FilesNamed(fat, gran, dir, n)
      BY <2>2 DEF FilesNamed
    <2> QED BY <1>5, <2>1, <2>3
  <1>8. Stored[job.name] = {} /\ Stored'[job.name] \in Storable
    BY <1>3, <1>4, <1>5, <1>6, StoredIs
  <1>9. \A n \in Names \ {job.name} : Stored'[n] = Stored[n]
    BY <1>7, StoredIs
  <1> QED BY <1>3, <1>8, <1>9 DEF Store_!Put, Store_!OthersKept

LEMMA RmTakesEffect ==
    ASSUME TypeOK, TypeOK', SoundInv, FilesInv, fails = 0, RmSaveFat
    PROVE  Store_!Rm(job.name) /\ job.name \in Names
  <1>1. /\ pc = "rm" /\ pc' = "rm_entry" /\ fat' = mfat /\ UNCHANGED <<dir, gran, job>>
    BY DEF RmSaveFat
  <1>2. /\ off \in LiveSlots(dir) /\ dir[off].name = job.name /\ DirSound(dir)
        /\ \A i \in LiveSlots(dir) \ {off} : FileOf(mfat, gran, dir[i]) = FileOf(fat, gran, dir[i])
    BY <1>1 DEF FilesInv, RmFiles, SoundInv, RmInv
  <1>3. DirSound(dir') /\ job.name \in Names
    BY <1>1, <1>2 DEF LiveSlots, Live
  <1>4. \A n \in Names : Shown(n) = FilesNamed(fat, gran, dir, n)
    <2>1. \A n \in Names : OnDisk(n) = FilesNamed(fat, gran, dir, n)
      BY <1>2, OnDiskNow
    <2>2. \A n \in Names : ~Hidden(n)
      BY <1>1 DEF Hidden
    <2> QED BY <2>1, <2>2 DEF Shown
  <1>5. Shown(job.name) # {}
    <2>1. off \in {j \in LiveSlots(dir) : dir[j].name = job.name}
      BY <1>2
    <2>2. FilesNamed(fat, gran, dir, job.name) # {}
      BY <2>1 DEF FilesNamed
    <2> QED BY <1>3, <1>4, <2>2
  <1>6. ASSUME NEW n \in Names, n = job.name PROVE Shown(n)' = {}
    <2>1. Hidden(n)'
      BY <1>1, <1>6 DEF Hidden
    <2> QED BY <2>1 DEF Shown
  <1>7. ASSUME NEW n \in Names \ {job.name} PROVE Shown(n)' = Shown(n)
    <2>1. OnDisk(n)' = FilesNamed(mfat, gran, dir, n)
      BY <1>1, <1>3, OnDiskNext
    <2>2. ~Hidden(n)'
      BY <1>1 DEF Hidden
    <2>3. \A i \in LiveSlots(dir) : dir[i].name = n =>
            FileOf(mfat, gran, dir[i]) = FileOf(fat, gran, dir[i])
      BY <1>2
    <2>4. FilesNamed(mfat, gran, dir, n) = FilesNamed(fat, gran, dir, n)
      BY <2>3 DEF FilesNamed
    <2> QED BY <1>4, <2>1, <2>2, <2>4 DEF Shown
  <1>8. Stored[job.name] # {} /\ Stored'[job.name] = {}
    BY <1>3, <1>5, <1>6, StoredIs
  <1>9. \A n \in Names \ {job.name} : Stored'[n] = Stored[n]
    BY <1>7, StoredIs
  <1> QED BY <1>3, <1>8, <1>9 DEF Store_!Rm, Store_!OthersKept

LEMMA RmForgets ==
    ASSUME TypeOK, TypeOK', SoundInv, SoundInv', FilesInv, fails = 0, RmSaveEntry
    PROVE  Stored' = Stored
  <1>1. /\ pc = "rm_entry" /\ pc' = "idle" /\ dir' = [dir EXCEPT ![off] = entry]
        /\ UNCHANGED <<fat, gran, job, fails>>
    BY DEF RmSaveEntry, Exit
  <1>2. /\ off \in LiveSlots(dir) /\ dir[off].name = job.name /\ entry.name = Deleted
        /\ DirSound(dir) /\ DirSound(dir')
    BY <1>1 DEF FilesInv, RmFiles, SoundInv, RmInv, RestInv, Sound
  <1>3. dir'[off] = entry /\ \A i \in Slot : i # off => dir'[i] = dir[i]
    BY <1>1, <1>2 DEF TypeOK, LiveSlots
  <1>4. ASSUME NEW n \in Names, n # job.name PROVE Shown(n)' = Shown(n)
    <2>1. OnDisk(n) = FilesNamed(fat, gran, dir, n) /\ OnDisk(n)' = FilesNamed(fat', gran', dir', n)
      BY <1>2, OnDiskNow, OnDiskNext
    <2>2. {j \in LiveSlots(dir') : dir'[j].name = n} = {j \in LiveSlots(dir) : dir[j].name = n}
      BY <1>2, <1>3, <1>4, NamesAssumption DEF LiveSlots, Live
    <2>3. \A j \in {j \in LiveSlots(dir) : dir[j].name = n} : dir'[j] = dir[j]
      BY <1>2, <1>3, <1>4 DEF LiveSlots
    <2>4. FilesNamed(fat, gran, dir', n) = FilesNamed(fat, gran, dir, n)
      BY <2>2, <2>3 DEF FilesNamed
    <2>5. ~Hidden(n) /\ ~Hidden(n)'
      BY <1>1, <1>4 DEF Hidden
    <2> QED BY <1>1, <2>1, <2>4, <2>5 DEF Shown
  <1>5. ASSUME NEW n \in Names, n = job.name PROVE Shown(n)' = Shown(n)
    <2>1. OnDisk(n)' = FilesNamed(fat', gran', dir', n)
      BY <1>2, OnDiskNext
    <2>2. {j \in LiveSlots(dir') : dir'[j].name = n} = {}
      BY <1>2, <1>3, <1>5, NamesAssumption DEF LiveSlots, Live, DirSound
    <2>3. FilesNamed(fat', gran', dir', n) = {}
      BY <2>2 DEF FilesNamed
    <2>4. Hidden(n) /\ ~Hidden(n)'
      BY <1>1, <1>5 DEF Hidden
    <2> QED BY <2>1, <2>3, <2>4 DEF Shown
  <1> QED BY <1>4, <1>5, AllKept

LEMMA BootWrites ==
    ASSUME TypeOK, TypeOK', SoundInv, FilesInv, fails = 0, BootWrite \/ BootSaveFat
    PROVE  Stored' = Stored
  <1>1. /\ pc = "boot" /\ pc' \in {"boot", "idle"} /\ dir' = dir /\ job.op = "putboot"
        /\ mfat = fat /\ x \in (FATZ - 2)..FATZ
        /\ Sound(fat, dir) /\ AllWhole(fat, dir, LiveSlots(dir))
    BY DEF BootWrite, BootSaveFat, Exit, SoundInv, WalkInv, FilesInv, RestFiles
  <1>2. \A h \in Gran \ BootTrack : fat'[h] = fat[h] /\ gran'[h] = gran[h]
    <2>1. CASE BootWrite
      <3>1. x \in BootTrack
        BY <1>1, <2>1, SizesAssumption DEF BootWrite, BootTrack
      <3> QED BY <2>1, <3>1 DEF BootWrite, WriteGran
    <2>2. CASE BootSaveFat
      BY <1>1, <2>2 DEF BootSaveFat
    <2> QED BY <2>1, <2>2
  <1>3. PICK f2 \in [Gran -> FatByte] : f2 = fat'
    BY DEF TypeOK
  <1>9. PICK gr : gr = gran'
    OBVIOUS
  <1>4. ASSUME NEW i \in LiveSlots(dir)
        PROVE  FileOf(f2, gr, dir[i]) = FileOf(fat, gran, dir[i])
    <2>1. /\ dir[i].first \in Gran /\ dir[i].first \notin BootTrack
          /\ \A h \in Gran : fat[h] \notin BootTrack
      BY <1>1, BootBeside
    <2>2. \A h \in Gran \ BootTrack : f2[h] = fat[h] /\ gr[h] = gran[h]
      BY <1>2, <1>3, <1>9
    <2>3. fat \in [Gran -> FatByte] /\ Whole(fat, dir[i])
      BY <1>1 DEF TypeOK, AllWhole
    <2> QED BY <2>1, <2>2, <2>3, SameBeside
  <1>5. \A n \in Names : OnDisk(n)' = OnDisk(n)
    BY <1>1, <1>3, <1>4, <1>9, SameFiles DEF Sound
  <1>6. \A n \in Names : ~Hidden(n) /\ ~Hidden(n)'
    BY <1>1 DEF Hidden
  <1>7. \A n \in Names : Shown(n)' = Shown(n)
    BY <1>5, <1>6 DEF Shown
  <1> QED BY <1>7, AllKept

LEMMA CommandStored ==
    ASSUME Command
    PROVE  Store_!Next \/ Stored' = Stored
  <1>1. ASSUME NEW fl \in SUBSET {"m", "p"}, MkfsBegin(fl) PROVE Store_!Next
    BY <1>1, FormatBegins DEF Store_!Next
  <1>2. ASSUME NEW n \in Names, NEW s \in HostFiles, NEW fl \in SUBSET {"l"}, PutOpen(n, s, fl)
        PROVE  Stored' = Stored
    <2>1. pc = "idle" /\ pc' = "put" /\ UNCHANGED <<fat, dir, gran>>
      BY <1>2 DEF PutOpen, Begin, image
    <2> QED BY <2>1, QuietStep
  <1>3. ASSUME NEW j, Refuse(j) PROVE Stored' = Stored
    <2>1. pc = "idle" /\ pc' = "idle" /\ UNCHANGED <<fat, dir, gran>>
      BY <1>3 DEF Refuse, image
    <2> QED BY <2>1, QuietStep
  <1>4. ASSUME NEW n \in Names, RmOpen(n) PROVE Stored' = Stored
    <2>1. pc = "idle" /\ pc' = "rm" /\ UNCHANGED <<fat, dir, gran>>
      BY <1>4 DEF RmOpen, Begin, image
    <2> QED BY <2>1, QuietStep
  <1>5. ASSUME NEW n \in Names, NEW fl \in SUBSET {"l"}, GetOpen(n, fl) PROVE Stored' = Stored
    <2>1. pc = "idle" /\ pc' = "get" /\ UNCHANGED <<fat, dir, gran>>
      BY <1>5 DEF GetOpen, Begin, image
    <2> QED BY <2>1, QuietStep
  <1>6. ASSUME List \/ GetBoot \/ \E s \in HostFiles : PutBoot(s) PROVE Stored' = Stored
    <2>1. pc = "idle" /\ pc' \in {"idle", "walk"} /\ UNCHANGED <<fat, dir, gran>>
      BY <1>6 DEF List, PutBoot, WalkBegin, GetBoot, Begin, image
    <2> QED BY <2>1, QuietStep
  <1> QED BY <1>1, <1>2, <1>3, <1>4, <1>5, <1>6 DEF Command

LEMMA StepStored ==
    ASSUME TypeOK, TypeOK', SoundInv, SoundInv', FilesInv, fails = 0, Step
    PROVE  Store_!Next \/ Stored' = Stored
  <1>1. CASE MkfsWrite \/ MkfsSaveFat
    BY <1>1, FormatEnds
  <1>2. CASE PutFull \/ PutTail
    BY <1>2, PutWrites
  <1>3. CASE PutSaveEntry
    BY <1>3, PutNames
  <1>4. CASE PutSaveFat
    BY <1>4, PutTakesEffect DEF Store_!Next
  <1>5. CASE RmSaveFat
    BY <1>5, RmTakesEffect DEF Store_!Next
  <1>6. CASE RmSaveEntry
    BY <1>6, RmForgets
  <1>7. CASE BootWrite \/ BootSaveFat
    BY <1>7, BootWrites
  <1>8. CASE RmDelchain
    <2>1. pc = "rm" /\ pc' = "rm" /\ UNCHANGED <<fat, dir, gran>>
      BY <1>8 DEF RmDelchain, image
    <2> QED BY <2>1, QuietStep
  <1>9. CASE GetNext \/ GetLast \/ GetNegative \/ GetUndefined
    <2>1. pc = "get" /\ pc' \in {"get", "idle"} /\ UNCHANGED <<fat, dir, gran>>
      BY <1>9 DEF GetNext, GetLast, GetNegative, GetUndefined, Exit, image
    <2> QED BY <2>1, QuietStep
  <1>10. CASE WalkChain \/ WalkEntry \/ ListDone \/ BootBegin
    <2>1. pc = "walk" /\ pc' \in {"walk", "boot", "idle"} /\ UNCHANGED <<fat, dir, gran>>
      BY <1>10 DEF WalkChain, WalkEntry, ListDone, BootBegin, Exit, image
    <2> QED BY <2>1, QuietStep
  <1> QED BY <1>1, <1>2, <1>3, <1>4, <1>5, <1>6, <1>7, <1>8, <1>9, <1>10 DEF Step

(* decb implements a file store on disks of every size: as long as no      *)
(* invocation dies, each step of each command stores one file under a free *)
(* name, removes one, formats the disk, or leaves every file as it is,     *)
(* whatever else is on the disk.                                           *)
THEOREM FileStoreImplemented ==
    ASSUME RoomAssumed, BootHeeded, MaxFail = 0
    PROVE  Spec => ImplementsFileStore
  <1>1. Init => Store_!Init
    <2> SUFFICES ASSUME Init PROVE Stored = [n \in Names |-> {}]
      BY DEF Store_!Init
    <2>1. pc = "idle" /\ \A i \in Slot : dir[i] = Wiped
      BY DEF Init
    <2>2. \A n \in Names : Find(dir, n) = {}
      BY <2>1, NamesAssumption DEF Find, Visible, Wiped
    <2>3. \A n \in Names : Shown(n) = {}
      BY <2>2 DEF Shown, OnDisk
    <2> QED BY <2>3, StoredIs, Zenon
  <1>2. /\ TypeOK /\ TypeOK' /\ SoundInv /\ SoundInv' /\ FilesInv /\ [Next]_vars
        => [Store_!Next]_Stored
    <2> SUFFICES ASSUME TypeOK, TypeOK', SoundInv, SoundInv', FilesInv, [Next]_vars
                 PROVE  Store_!Next \/ Stored' = Stored
      OBVIOUS
    <2>1. fails = 0
      BY DEF TypeOK
    <2>2. CASE UNCHANGED vars
      <3>1. UNCHANGED <<fat, dir, gran, pc, job>>
        BY <2>2 DEF vars
      <3>2. \A n \in Names : Shown(n)' = Shown(n)
        BY <3>1 DEF Shown, Hidden, OnDisk
      <3> QED BY <3>2, AllKept
    <2>3. CASE Command
      BY <2>3, CommandStored
    <2>4. CASE Step
      BY <2>1, <2>4, StepStored
    <2>5. CASE Fail
      BY <2>1, <2>5 DEF Fail
    <2> QED BY <2>2, <2>3, <2>4, <2>5 DEF Next
  <1> QED BY TypeCorrect, SoundAlways, FilesAlways, <1>1, <1>2, PTL
          DEF Spec, ImplementsFileStore, Store_!Spec
=============================================================================
