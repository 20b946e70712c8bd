--------------------------- MODULE DriveWireProofs ---------------------------
(***************************************************************************)
(* Proofs about the DriveWire line, for any images, requests, faults and   *)
(* number of calls: it is type correct, its two ends stay in step on a     *)
(* clean line, and on a bad one what is returned as read or written is.    *)
(* First the lemmas about the operators of Lwwire: bytes on the line,      *)
(* numbers sent as bytes, the sum that guards a sector, requests, images.  *)
(***************************************************************************)
EXTENDS DriveWireInv, Recursion, SequenceTheorems

-----------------------------------------------------------------------------
(* Bytes on the line *)

Bytes == Seq(ByteVal)

LEMMA NoBytes ==
    /\ << >> \in Bytes /\ Len(<< >>) = 0
    /\ \A s \in Bytes : Len(s) \in Nat /\ DOMAIN s = 1..Len(s) /\ (Len(s) = 0 <=> s = << >>)
    /\ \A s \in Bytes : \A i \in 1..Len(s) : s[i] \in ByteVal
  BY DEF Bytes

LEMMA Cat ==
    ASSUME NEW s \in Bytes, NEW t \in Bytes
    PROVE  /\ s \o t \in Bytes
           /\ Len(s \o t) = Len(s) + Len(t)
           /\ \A i \in 1..Len(s) : (s \o t)[i] = s[i]
           /\ \A i \in 1..Len(t) : (s \o t)[Len(s) + i] = t[i]
  BY DEF Bytes

LEMMA Part ==
    ASSUME NEW s \in Bytes, NEW m \in 1..(Len(s) + 1), NEW n \in (m - 1)..Len(s)
    PROVE  /\ SubSeq(s, m, n) \in Bytes
           /\ Len(SubSeq(s, m, n)) = n - m + 1
           /\ \A i \in 1..(n - m + 1) : SubSeq(s, m, n)[i] = s[m + i - 1]
  BY DEF Bytes

LEMMA Rest ==
    ASSUME NEW s \in Bytes, NEW k \in 0..Len(s)
    PROVE  /\ SubSeq(s, k + 1, Len(s)) \in Bytes
           /\ Len(SubSeq(s, k + 1, Len(s))) = Len(s) - k
           /\ \A i \in 1..(Len(s) - k) : SubSeq(s, k + 1, Len(s))[i] = s[k + i]
           /\ SubSeq(s, 1, k) \in Bytes
           /\ Len(SubSeq(s, 1, k)) = k
           /\ \A i \in 1..k : SubSeq(s, 1, k)[i] = s[i]
  BY DEF Bytes

(* r is s and then t; v is u without its first n bytes. *)
Joined(r, s, t) ==
    /\ r \in Bytes /\ Len(r) = Len(s) + Len(t)
    /\ \A i \in 1..Len(s) : r[i] = s[i]
    /\ \A i \in 1..Len(t) : r[Len(s) + i] = t[i]

Dropped(v, u, n) ==
    /\ v \in Bytes /\ Len(v) = Len(u) - n
    /\ \A i \in 1..(Len(u) - n) : v[i] = u[n + i]

LEMMA CatJoined == \A s \in Bytes, t \in Bytes : Joined(s \o t, s, t)
  BY Cat DEF Joined

LEMMA Cat3 ==
    ASSUME NEW s \in Bytes, NEW t \in Bytes, NEW u \in Bytes
    PROVE  /\ s \o t \o u \in Bytes
           /\ Len(s \o t \o u) = Len(s) + Len(t) + Len(u)
           /\ \A i \in 1..Len(s) : (s \o t \o u)[i] = s[i]
           /\ \A i \in 1..Len(t) : (s \o t \o u)[Len(s) + i] = t[i]
           /\ \A i \in 1..Len(u) : (s \o t \o u)[Len(s) + Len(t) + i] = u[i]
  <1> DEFINE b == s \o t
  <1>1. /\ b \in Bytes /\ Len(b) = Len(s) + Len(t) /\ Len(s) \in Nat /\ Len(t) \in Nat
        /\ \A i \in 1..Len(s) : b[i] = s[i]
        /\ \A i \in 1..Len(t) : b[Len(s) + i] = t[i]
    BY Cat, NoBytes
  <1> HIDE DEF b
  <1>2. /\ b \o u \in Bytes
        /\ Len(b \o u) = Len(b) + Len(u)
        /\ \A i \in 1..Len(b) : (b \o u)[i] = b[i]
        /\ \A i \in 1..Len(u) : (b \o u)[Len(b) + i] = u[i]
    BY <1>1, Cat
  <1> QED BY <1>1, <1>2 DEF b

LEMMA TailBytes ==
    ASSUME NEW s \in Bytes, Len(s) >= 1
    PROVE  /\ Tail(s) \in Bytes /\ Len(Tail(s)) = Len(s) - 1
           /\ \A i \in 1..(Len(s) - 1) : Tail(s)[i] = s[i + 1]
  BY DEF Bytes

LEMMA Same ==
    ASSUME NEW s \in Bytes, NEW t \in Bytes, Len(s) = Len(t), \A i \in 1..Len(s) : s[i] = t[i]
    PROVE  s = t
  BY DEF Bytes

LEMMA Removed ==
    ASSUME NEW s \in Bytes, NEW i \in 1..Len(s)
    PROVE  /\ RemoveAt(s, i) \in Bytes
           /\ Len(RemoveAt(s, i)) = Len(s) - 1
           /\ \A j \in 1..(Len(s) - 1) : RemoveAt(s, i)[j] = IF j < i THEN s[j] ELSE s[j + 1]
  <1>1. /\ i \in Int /\ Len(s) \in Nat
        /\ SubSeq(s, 1, i - 1) \in Bytes /\ SubSeq(s, i + 1, Len(s)) \in Bytes
        /\ Len(SubSeq(s, 1, i - 1)) = i - 1 /\ Len(SubSeq(s, i + 1, Len(s))) = Len(s) - i
        /\ \A j \in 1..(i - 1) : SubSeq(s, 1, i - 1)[j] = s[j]
        /\ \A j \in 1..(Len(s) - i) : SubSeq(s, i + 1, Len(s))[j] = s[i + j]
    BY DEF Bytes
  <1> DEFINE a == SubSeq(s, 1, i - 1)
             b == SubSeq(s, i + 1, Len(s))
  <1>2. /\ RemoveAt(s, i) \in Bytes
        /\ Len(RemoveAt(s, i)) = i - 1 + (Len(s) - i)
        /\ \A j \in 1..(i - 1) : RemoveAt(s, i)[j] = a[j]
        /\ \A j \in 1..(Len(s) - i) : RemoveAt(s, i)[i - 1 + j] = b[j]
    <2>1. a \in Bytes /\ b \in Bytes /\ Len(a) = i - 1 /\ Len(b) = Len(s) - i /\ RemoveAt(s, i) = a \o b
      BY <1>1 DEF RemoveAt
    <2> HIDE DEF a, b
    <2>2. /\ a \o b \in Bytes
          /\ Len(a \o b) = Len(a) + Len(b)
          /\ \A j \in 1..Len(a) : (a \o b)[j] = a[j]
          /\ \A j \in 1..Len(b) : (a \o b)[Len(a) + j] = b[j]
      BY <2>1, Cat
    <2> QED BY <2>1, <2>2
  <1>3. ASSUME NEW j \in 1..(Len(s) - 1), j >= i PROVE RemoveAt(s, i)[j] = s[j + 1]
    <2>1. j - i + 1 \in 1..(Len(s) - i) /\ i - 1 + (j - i + 1) = j /\ i + (j - i + 1) = j + 1
      BY <1>1, <1>3
    <2>2. RemoveAt(s, i)[j] = b[j - i + 1]
      <3> HIDE DEF b
      <3> QED BY <1>2, <2>1
    <2> QED BY <1>1, <2>1, <2>2
  <1>4. ASSUME NEW j \in 1..(Len(s) - 1), j < i PROVE RemoveAt(s, i)[j] = s[j]
    <2>1. j \in 1..(i - 1)
      BY <1>1, <1>4
    <2> QED BY <1>1, <1>2, <2>1
  <1> QED BY <1>1, <1>2, <1>3, <1>4

LEMMA Replaced ==
    ASSUME NEW s \in Bytes, NEW i \in 1..Len(s), NEW v \in ByteVal
    PROVE  /\ ReplaceAt(s, i, v) \in Bytes
           /\ Len(ReplaceAt(s, i, v)) = Len(s)
           /\ ReplaceAt(s, i, v) = [s EXCEPT ![i] = v]
           /\ \A j \in 1..Len(s) : ReplaceAt(s, i, v)[j] = IF j = i THEN v ELSE s[j]
  BY ExceptSeq DEF Bytes, ReplaceAt

LEMMA ByteRange == \A x \in ByteVal : x \in Int /\ 0 <= x /\ x <= 255
  BY DEF ByteVal

LEMMA SectorBytes ==
    /\ \A s \in Sector : s \in Bytes /\ Len(s) = SECZ
    /\ \A s \in Bytes : Len(s) = SECZ => s \in Sector
  BY ServerAssumption DEF Bytes, Sector

-----------------------------------------------------------------------------
(* The sum *)

LEMMA SumFun ==
    ASSUME NEW s \in Bytes
    PROVE  \E f \in [0..Len(s) -> Int] :
             /\ f[0] = 0 /\ \A i \in 1..Len(s) : f[i] = f[i - 1] + s[i]
             /\ Sum(s) = f[Len(s)]
  <1> DEFINE N == Len(s)
  <1>1. N \in Nat /\ \A i \in 1..N : s[i] \in Int
    <2>1. \A i \in 1..Len(s) : s[i] \in ByteVal
      BY NoBytes
    <2>2. \A x \in ByteVal : x \in Int
      BY DEF ByteVal
    <2>3. N \in Nat
      BY NoBytes
    <2> QED BY <2>1, <2>2, <2>3
  <1> DEFINE G == [p \in Int \X (1..N) |-> p[1] + s[p[2]]]
  <1>2. G \in [Int \X (1..N) -> Int]
    BY <1>1
  <1>3. PICK f \in [0..N -> Int] : f[0] = 0 /\ \A i \in 1..N : f[i] = G[<<f[i - 1], i>>]
    <2>1. Recurses(Int, 0, N, G)
      <3> HIDE DEF G, N
      <3>1. 0 \in Int
        OBVIOUS
      <3> QED BY <1>1, <1>2, <3>1, Recursive
    <2> QED BY <2>1 DEF Recurses
  <1>4. \A i \in 1..N : f[i] = f[i - 1] + s[i]
    <2> SUFFICES ASSUME NEW i \in 1..N PROVE f[i] = f[i - 1] + s[i]
      OBVIOUS
    <2>1. <<f[i - 1], i>> \in Int \X (1..N)
      BY <1>1
    <2> QED BY <1>3, <2>1
  <1> DEFINE Upto(g) == g = [i \in 0..N |-> IF i = 0 THEN 0 ELSE g[i - 1] + s[i]]
  <1>5. Upto(f)
    BY <1>1, <1>3, <1>4
  <1> DEFINE h == CHOOSE g : Upto(g)
  <1>6. Upto(h)
    <2> HIDE DEF Upto
    <2> QED BY <1>5
  <1>7. Sum(s) = h[N]
    BY DEF Sum
  <1>8. f = h
    <2> DEFINE T == {n \in Nat : n <= N => f[n] = h[n]}
    <2>1. 0 \in T
      <3> HIDE DEF h
      <3>1. 0 \in 0..N
        BY <1>1
      <3> QED BY <1>3, <1>6, <3>1
    <2>2. ASSUME NEW n \in Nat, n \in T PROVE n + 1 \in T
      <3> SUFFICES ASSUME n + 1 <= N PROVE f[n + 1] = h[n + 1]
        OBVIOUS
      <3> HIDE DEF h
      <3>1. h[n + 1] = h[n] + s[n + 1]
        BY <1>1, <1>6
      <3>2. f[n + 1] = f[n] + s[n + 1]
        BY <1>1, <1>4
      <3> QED BY <2>2, <3>1, <3>2, <1>1
    <2> HIDE DEF T
    <2>3. \A n \in Nat : n \in T
      BY <2>1, <2>2, Induction
    <2>4. \A n \in 0..N : f[n] = h[n]
      BY <1>1, <2>3 DEF T
    <2>5. DOMAIN f = 0..N /\ f = [n \in 0..N |-> f[n]]
      BY <1>3
    <2>6. h = [n \in 0..N |-> h[n]]
      <3> HIDE DEF h
      <3> QED BY <1>6
    <2> HIDE DEF h, N
    <2> QED BY <2>4, <2>5, <2>6
  <1> HIDE DEF h
  <1> QED BY <1>3, <1>4, <1>7, <1>8

(* A byte adds at most 255. *)
LEMMA SumType ==
    ASSUME NEW s \in Bytes
    PROVE  Sum(s) \in 0..(255 * Len(s))
  <1>1. PICK f \in [0..Len(s) -> Int] :
            /\ f[0] = 0 /\ \A i \in 1..Len(s) : f[i] = f[i - 1] + s[i]
            /\ Sum(s) = f[Len(s)]
    BY SumFun
  <1>2. Len(s) \in Nat
    BY NoBytes
  <1> DEFINE T == {n \in Nat : n <= Len(s) => f[n] \in 0..(255 * n)}
  <1>3. 0 \in T
    BY <1>1
  <1>4. ASSUME NEW n \in Nat, n \in T PROVE n + 1 \in T
    <2> SUFFICES ASSUME n + 1 <= Len(s) PROVE f[n + 1] \in 0..(255 * (n + 1))
      OBVIOUS
    <2>1. n + 1 \in 1..Len(s) /\ n + 1 - 1 = n
      BY <1>2
    <2>2. f[n + 1] = f[n] + s[n + 1] /\ s[n + 1] \in ByteVal
      BY <1>1, <2>1, NoBytes
    <2>3. f[n] \in 0..(255 * n)
      BY <1>2, <1>4
    <2>4. s[n + 1] \in Int /\ 0 <= s[n + 1] /\ s[n + 1] <= 255
      BY <2>2, ByteRange
    <2>5. f[n] \in Int /\ 0 <= f[n] /\ f[n] <= 255 * n /\ 255 * (n + 1) = 255 * n + 255
      BY <2>3
    <2>6. f[n + 1] \in Int /\ 0 <= f[n + 1] /\ f[n + 1] <= 255 * (n + 1)
      BY <2>2, <2>4, <2>5
    <2> QED BY <2>6
  <1> HIDE DEF T
  <1>5. Len(s) \in T
    BY <1>2, <1>3, <1>4, Induction
  <1> QED BY <1>1, <1>2, <1>5 DEF T

(* A byte that is changed changes the sum by as much. *)
LEMMA SumChanged ==
    ASSUME NEW s \in Bytes, NEW k \in 1..Len(s), NEW v \in ByteVal
    PROVE  Sum([s EXCEPT ![k] = v]) = Sum(s) - s[k] + v
  <1> DEFINE t == [s EXCEPT ![k] = v]
  <1>1. /\ t \in Bytes /\ Len(t) = Len(s)
        /\ \A j \in 1..Len(s) : t[j] = IF j = k THEN v ELSE s[j]
    BY ExceptSeq DEF Bytes
  <1>2. /\ Len(s) \in Nat /\ v \in Int /\ \A i \in 1..Len(s) : s[i] \in Int
        /\ k \in Nat
    <2>1. \A x \in ByteVal : x \in Int
      BY DEF ByteVal
    <2> QED BY <2>1, NoBytes
  <1> HIDE DEF t
  <1>3. PICK f \in [0..Len(s) -> Int] :
            /\ f[0] = 0 /\ \A i \in 1..Len(s) : f[i] = f[i - 1] + s[i]
            /\ Sum(s) = f[Len(s)]
    BY SumFun
  <1>4. PICK g \in [0..Len(s) -> Int] :
            /\ g[0] = 0 /\ \A i \in 1..Len(s) : g[i] = g[i - 1] + t[i]
            /\ Sum(t) = g[Len(s)]
    BY <1>1, SumFun
  <1> DEFINE T == {n \in Nat : n <= Len(s) =>
                      g[n] = IF n < k THEN f[n] ELSE f[n] - s[k] + v}
  <1>5. 0 \in T
    BY <1>2, <1>3, <1>4
  <1>6. ASSUME NEW n \in Nat, n \in T PROVE n + 1 \in T
    <2> SUFFICES ASSUME n + 1 <= Len(s)
                 PROVE  g[n + 1] = IF n + 1 < k THEN f[n + 1] ELSE f[n + 1] - s[k] + v
      OBVIOUS
    <2>0. n + 1 \in 1..Len(s) /\ n + 1 - 1 = n /\ n \in 0..Len(s)
      BY <1>2
    <2>1. /\ f[n + 1] = f[n] + s[n + 1] /\ g[n + 1] = g[n] + t[n + 1]
          /\ f[n] \in Int /\ g[n] \in Int
      BY <2>0, <1>3, <1>4
    <2>2. t[n + 1] = IF n + 1 = k THEN v ELSE s[n + 1]
      BY <1>1, <1>2
    <2>3. g[n] = IF n < k THEN f[n] ELSE f[n] - s[k] + v
      BY <1>2, <1>6
    <2>4. s[n + 1] \in Int /\ s[k] \in Int
      BY <1>2
    <2> QED BY <1>2, <2>1, <2>2, <2>3, <2>4
  <1> HIDE DEF T
  <1>7. Len(s) \in T
    BY <1>2, <1>5, <1>6, Induction
  <1>8. g[Len(s)] = f[Len(s)] - s[k] + v
    BY <1>2, <1>7 DEF T
  <1> QED BY <1>3, <1>4, <1>8 DEF t

-----------------------------------------------------------------------------
(* Numbers as bytes *)

LEMMA WordBytes ==
    ASSUME NEW n \in Nat
    PROVE  /\ Word(n) \in Bytes /\ Len(Word(n)) = 2
           /\ WordOf(Word(n)) = n % 65536
  <1>1. n % 256 \in ByteVal /\ (n \div 256) % 256 \in ByteVal
    BY DEF ByteVal
  <1>2. ((n \div 256) % 256) * 256 + (n % 256) = n % 65536
    OBVIOUS
  <1> QED BY <1>1, <1>2 DEF Word, WordOf, Bytes

LEMMA WordOfType ==
    ASSUME NEW s \in Bytes, Len(s) = 2
    PROVE  WordOf(s) \in Nat /\ WordOf(s) <= 65535
  <1>1. 1 \in 1..Len(s) /\ 2 \in 1..Len(s)
    OBVIOUS
  <1>2. s[1] \in ByteVal /\ s[2] \in ByteVal
    BY <1>1, NoBytes
  <1>3. \A x \in ByteVal, y \in ByteVal : x * 256 + y \in Nat /\ x * 256 + y <= 65535
    BY ByteRange
  <1> QED BY <1>2, <1>3 DEF WordOf

(* The sector number in the bytes of s from byte i on *)
LsnAt(s, i) == s[i] * 65536 + s[i + 1] * 256 + s[i + 2]

LEMMA LsnAtTwo ==
    ASSUME NEW t, NEW s, t[1] = s[2], t[2] = s[3], t[3] = s[4]
    PROVE  LsnOf(t) = LsnAt(s, 2)
  <1>1. LsnAt(s, 2) = s[2] * 65536 + s[3] * 256 + s[4]
    BY DEF LsnAt
  <1> QED BY <1>1 DEF LsnOf

(* and a word in two of them *)
WordAt(s, i) == s[i] * 256 + s[i + 1]

LEMMA WordAtSame ==
    ASSUME NEW t, NEW s, NEW i, t[1] = s[i], t[2] = s[i + 1]
    PROVE  WordOf(t) = WordAt(s, i)
  BY DEF WordOf, WordAt

LEMMA LsnLimit == \A n : n \in Lsn <=> n \in Int /\ 0 <= n /\ n < 16777216
  <1>1. 2^24 = 16777216
    BY SMT
  <1> QED BY <1>1, SMT DEF Lsn

LEMMA LsnBytesOf ==
    ASSUME NEW n \in Lsn
    PROVE  /\ LsnBytes(n) \in Bytes /\ Len(LsnBytes(n)) = 3
           /\ LsnOf(LsnBytes(n)) = n
  <1>1. n \in Int /\ 0 <= n /\ n < 16777216
    BY LsnLimit, SMT
  <1>2. /\ n % 256 \in ByteVal /\ (n \div 256) % 256 \in ByteVal
        /\ (n \div 65536) % 256 \in ByteVal
    BY <1>1, SMT DEF ByteVal
  <1>3. ((n \div 65536) % 256) * 65536 + ((n \div 256) % 256) * 256 + (n % 256) = n
    BY <1>1, SMT
  <1> QED BY <1>2, <1>3 DEF LsnBytes, LsnOf, Bytes

LEMMA LsnOfType ==
    ASSUME NEW s \in Bytes, Len(s) = 3
    PROVE  LsnOf(s) \in Lsn
  <1>1. 1 \in 1..Len(s) /\ 2 \in 1..Len(s) /\ 3 \in 1..Len(s)
    OBVIOUS
  <1>2. s[1] \in ByteVal /\ s[2] \in ByteVal /\ s[3] \in ByteVal
    BY <1>1, NoBytes
  <1>3. \A x \in ByteVal, y \in ByteVal, z \in ByteVal :
           x * 65536 + y * 256 + z \in Lsn
    BY ByteRange, LsnLimit, SMT
  <1> QED BY <1>2, <1>3, SMT DEF LsnOf

-----------------------------------------------------------------------------
(* Opcodes *)

LEMMA TakesOf ==
    /\ DOMAIN Takes = READ \cup READEX \cup WRITE \cup STAT
                        \cup {EXTENSIONOP, PRINT, DWINIT, REQUESTEXT, DISABLEEXT}
    /\ \A o \in READ \cup READEX : Takes[o] = 4
    /\ \A o \in WRITE : Takes[o] = SECZ + 6
    /\ \A o \in STAT \cup {EXTENSIONOP} : Takes[o] = 2
    /\ \A o \in {PRINT, DWINIT, REQUESTEXT, DISABLEEXT} : Takes[o] = 1
  BY ServerAssumption
     DEF Takes, READ, READEX, WRITE, STAT, EXTENSIONOP, PRINT, DWINIT, REQUESTEXT, DISABLEEXT

LEMMA TakesSome == \A o \in DOMAIN Takes : Takes[o] \in Nat /\ Takes[o] >= 1
  BY TakesOf, ServerAssumption

LEMMA Codes ==
    /\ DOMAIN Takes = {82, 114, 210, 242, 87, 119, 71, 83, 243, 80, 90, 240, 241}
    /\ QuietOps = {0, 70, 73, 84, 248, 254, 255} /\ TIME = 35
    /\ READ = {82, 114} /\ WRITE = {87, 119} /\ READEX = {210, 242} /\ STAT = {71, 83}
    /\ DWINIT = 90 /\ PRINT = 80 /\ REQUESTEXT = 240 /\ DISABLEEXT = 241 /\ EXTENSIONOP = 243
  BY TakesOf DEF QuietOps, TIME, READ, READEX, WRITE, STAT, EXTENSIONOP, PRINT, DWINIT,
                 REQUESTEXT, DISABLEEXT

-----------------------------------------------------------------------------
(* Images *)

LEMMA FetchType ==
    ASSUME DiskType, NEW d, NEW n
    PROVE  /\ Fetch(d, n).data \in Sector
           /\ Fetch(d, n).ec = IF d \in Paths THEN 0 ELSE NOTREADY
           /\ Fetch(d, n).ec \in ByteVal
  <1>1. Zeros \in Sector
    BY ServerAssumption DEF Zeros, Sector, ByteVal
  <1>2. NOTREADY \in ByteVal /\ 0 \in ByteVal
    BY DEF NOTREADY, ByteVal
  <1> QED BY <1>1, <1>2 DEF Fetch, DiskType

LEMMA SaveType ==
    ASSUME DiskType, NEW d, NEW n \in Lsn, NEW s \in Sector, Save(d, n, s)
    PROVE  DiskType'
  <1>1. CASE SaveStatus(d) # 0
    BY <1>1 DEF Save, DiskType
  <1>2. CASE SaveStatus(d) = 0
    <2>1. d \in Paths /\ disk' = [disk EXCEPT ![d] = With(disk[d], n, s)]
      BY <1>2 DEF Save, SaveStatus, WRITEERR, NOTREADY
    <2>2. DOMAIN disk' = Paths
      BY <2>1 DEF DiskType
    <2>3. ASSUME NEW e \in Paths
          PROVE  /\ DOMAIN disk'[e] \subseteq Lsn
                 /\ \A m \in DOMAIN disk'[e] : disk'[e][m] \in Sector
      <3>1. CASE e = d
        <4>1. disk'[e] = With(disk[d], n, s)
          BY <2>1, <3>1 DEF DiskType
        <4> QED BY <2>1, <4>1 DEF DiskType, With
      <3>2. CASE e # d
        <4>1. disk'[e] = disk[e]
          BY <2>1, <3>2 DEF DiskType
        <4> QED BY <4>1 DEF DiskType
      <3> QED BY <3>1, <3>2
    <2> QED BY <2>2, <2>3 DEF DiskType
  <1> QED BY <1>1, <1>2

(* What is saved is fetched, on the same drive all else stays. *)
LEMMA SaveFetch ==
    ASSUME DiskType, NEW d, NEW n, NEW s, Save(d, n, s), SaveStatus(d) = 0
    PROVE  Fetch(d, n)' = [ec |-> 0, data |-> s]
  <1>1. d \in Paths /\ disk' = [disk EXCEPT ![d] = With(disk[d], n, s)]
    BY DEF Save, SaveStatus, WRITEERR, NOTREADY
  <1>2. disk'[d] = With(disk[d], n, s)
    BY <1>1 DEF DiskType
  <1>3. n \in DOMAIN disk'[d] /\ disk'[d][n] = s
    BY <1>2 DEF With
  <1> QED BY <1>1, <1>3 DEF Fetch

-----------------------------------------------------------------------------
(* What the server may do next, by where it is *)

LEMMA AtOpcode ==
    ASSUME Server, sp = "op", ~Eof
    PROVE  Dispatch /\ (Ignored \/ TellTime \/ WithArgs \/ Unrecognized)
  BY DEF Server, Ignored, TellTime, WithArgs, Unrecognized, SilenceOver, Dispatch, Handle,
         ReadexStatus, lwwire_proto_read, lwwire_proto_write, lwwire_proto_readex, InitReply, Burn,
         LogPrint, lwwire_proto_requestextension, lwwire_proto_disableextension,
         lwwire_proto_extensionop

LEMMA AtArgs ==
    ASSUME Server, sp = "args", ~Eof
    PROVE  \/ lwwire_proto_read \/ lwwire_proto_write \/ lwwire_proto_readex
           \/ InitReply \/ Burn \/ LogPrint \/ lwwire_proto_requestextension
           \/ lwwire_proto_disableextension \/ lwwire_proto_extensionop
  BY DEF Server, Ignored, TellTime, WithArgs, Unrecognized, SilenceOver, Dispatch,
         ReadexStatus

LEMMA AtCksum == (Server /\ sp = "cksum" /\ ~Eof) => ReadexStatus
  BY DEF Server, Ignored, TellTime, WithArgs, Unrecognized, SilenceOver, Dispatch, Handle,
         lwwire_proto_read, lwwire_proto_write, lwwire_proto_readex, InitReply, Burn,
         LogPrint, lwwire_proto_requestextension, lwwire_proto_disableextension,
         lwwire_proto_extensionop

LEMMA AtSilent == (Server /\ sp = "silent") => SilenceOver
  BY DEF Server, Ignored, TellTime, WithArgs, Unrecognized, Dispatch, Handle, Eof,
         ReadexStatus, Reading, lwwire_proto_read, lwwire_proto_write, lwwire_proto_readex,
         InitReply, Burn, LogPrint, lwwire_proto_requestextension,
         lwwire_proto_disableextension, lwwire_proto_extensionop

LEMMA AtExit == (Server /\ sp = "exited") => FALSE
  BY DEF Server, Ignored, TellTime, WithArgs, Unrecognized, Dispatch, Handle, Eof, SilenceOver,
         ReadexStatus, Reading, lwwire_proto_read, lwwire_proto_write, lwwire_proto_readex,
         InitReply, Burn, LogPrint, lwwire_proto_requestextension,
         lwwire_proto_disableextension, lwwire_proto_extensionop

-----------------------------------------------------------------------------
(* Type correctness of the server *)

LEMMA NeedsType ==
    ASSUME ServerTypeOK, Reading
    PROVE  /\ Needs \in Nat /\ Needs >= 1
           /\ sp = "op" => Needs = 1
           /\ sp = "args" => Needs = Takes[op]
           /\ sp = "cksum" => Needs = 2
  BY TakesSome DEF Needs, Reading, ServerTypeOK

LEMMA TakeBytes ==
    ASSUME ServerTypeOK, Take
    PROVE  /\ Reading /\ Needs \in Nat /\ Needs >= 1 /\ Needs <= Len(up)
           /\ up \in Bytes /\ Args \in Bytes /\ Len(Args) = Needs
           /\ \A i \in 1..Needs : Args[i] = up[i]
           /\ Dropped(up', up, Needs)
  <1>1. Reading /\ Needs \in Nat /\ Needs >= 1 /\ Needs <= Len(up) /\ Len(up) \in Nat
    BY NeedsType DEF Take, ServerTypeOK
  <1>2. up \in Bytes
    BY DEF ServerTypeOK, Bytes
  <1> DEFINE k == Needs
  <1>3. up' = SubSeq(up, k + 1, Len(up)) /\ Args = SubSeq(up, 1, k)
    BY DEF Take, Args
  <1>4. k \in 0..Len(up)
    BY <1>1
  <1>5. k = Needs
    OBVIOUS
  <1> HIDE DEF k
  <1>6. /\ up' \in Bytes /\ Len(up') = Len(up) - k
        /\ \A i \in 1..(Len(up) - k) : up'[i] = up[k + i]
        /\ Args \in Bytes /\ Len(Args) = k
        /\ \A i \in 1..k : Args[i] = up[i]
    BY <1>2, <1>3, <1>4, Rest
  <1>7. Dropped(up', up, k)
    BY <1>6 DEF Dropped
  <1> QED BY <1>1, <1>2, <1>5, <1>6, <1>7

LEMMA DispatchTakes ==
    ASSUME ServerTypeOK, Dispatch
    PROVE  /\ Len(up) >= 1 /\ op' = up[1] /\ op' \in ByteVal
           /\ Dropped(up', up, 1)
  <1>1. Needs = 1 /\ Take /\ op' = Head(up) /\ up # << >> /\ up \in Bytes
    <2>1. Needs = 1 /\ Take /\ op' = Head(up)
      BY DEF Dispatch, Needs
    <2>2. up \in Bytes /\ Needs <= Len(up)
      BY <2>1, TakeBytes
    <2> QED BY <2>1, <2>2, NoBytes
  <1>2. Len(up) >= 1 /\ Dropped(up', up, 1)
    BY <1>1, TakeBytes
  <1>3. Head(up) = up[1]
    BY <1>1 DEF Bytes
  <1>4. 1 \in 1..Len(up)
    BY <1>1, <1>2, NoBytes
  <1> QED BY <1>1, <1>2, <1>3, <1>4, NoBytes

(* What a handler that has its bytes does, in terms of what was on the line. *)

LEMMA Handled ==
    ASSUME ServerTypeOK, NEW ops, Handle(ops)
    PROVE  /\ sp = "args" /\ op \in ops /\ op \in DOMAIN Takes /\ op' = op /\ hangup' = hangup
           /\ Takes[op] \in Nat /\ Takes[op] >= 1 /\ Takes[op] <= Len(up)
           /\ Args \in Bytes /\ Len(Args) = Takes[op]
           /\ \A i \in 1..Takes[op] : Args[i] = up[i]
           /\ Dropped(up', up, Takes[op])
           /\ op # PRINT => lpr' = lpr
  <1>1. sp = "args" /\ op \in ops /\ op \in DOMAIN Takes /\ op' = op /\ hangup' = hangup /\ Take
    BY DEF Handle, ServerTypeOK
  <1>2. Needs = Takes[op]
    BY <1>1 DEF Needs
  <1>3. op # PRINT => lpr' = lpr
    BY DEF Handle
  <1> QED BY <1>1, <1>2, <1>3, TakeBytes

LEMMA Answers1 ==
    ASSUME ServerTypeOK, NEW s \in Bytes, Answer(s)
    PROVE  /\ down' \in Bytes /\ Len(down') = Len(down) + Len(s)
           /\ down = << >> => down' = s
  <1>1. down \in Bytes /\ down' = down \o s
    BY DEF ServerTypeOK, Bytes, Answer
  <1>2. down' \in Bytes /\ Len(down') = Len(down) + Len(s)
    BY <1>1, Cat
  <1>3. << >> \o s = s
    BY ConcatEmptySeq DEF Bytes
  <1> QED BY <1>1, <1>2, <1>3

(* The drive and the sector of a READ or READEX *)
LEMMA ReadArgs ==
    ASSUME ServerTypeOK, NEW ops, ops = READ \/ ops = READEX, Handle(ops)
    PROVE  /\ Len(up) >= 4 /\ Takes[op] = 4
           /\ Args[1] = up[1] /\ LsnOf(Tail(Args)) = LsnAt(up, 2)
           /\ LsnOf(Tail(Args)) \in Lsn
  <1>1. Takes[op] = 4 /\ Args \in Bytes /\ Len(Args) = 4 /\ Len(up) >= 4
    BY Handled, TakesOf
  <1>2. \A i \in 1..4 : Args[i] = up[i]
    BY <1>1, Handled
  <1>3. Tail(Args) \in Bytes /\ Len(Tail(Args)) = 3 /\ \A i \in 1..3 : Tail(Args)[i] = Args[i + 1]
    BY <1>1, TailBytes
  <1>4. LsnOf(Tail(Args)) \in Lsn
    BY <1>3, LsnOfType
  <1>5. Tail(Args)[1] = up[2] /\ Tail(Args)[2] = up[3] /\ Tail(Args)[3] = up[4]
    BY <1>2, <1>3
  <1>6. LsnOf(Tail(Args)) = LsnAt(up, 2)
    BY <1>5, LsnAtTwo
  <1>7. Args[1] = up[1]
    BY <1>2
  <1> QED BY <1>1, <1>4, <1>6, <1>7

LEMMA ReadDoes ==
    ASSUME ServerTypeOK, lwwire_proto_read
    PROVE  /\ sp = "args" /\ op \in READ /\ sp' = "op" /\ Takes[op] = 4 /\ Len(up) >= 4
           /\ disk' = disk /\ reply' = reply /\ lpr' = lpr
           /\ down' \in Bytes
           /\ down = << >> => Len(down') = IF up[1] \in Paths THEN SECZ + 3 ELSE 1
  <1>1. Handle(READ) /\ sp' = "op" /\ disk' = disk /\ reply' = reply
    BY DEF lwwire_proto_read
  <1>2. sp = "args" /\ op \in READ /\ op # PRINT
    BY <1>1, Codes DEF Handle
  <1> DEFINE f == Fetch(Args[1], LsnOf(Tail(Args)))
             a == IF f.ec # 0 THEN <<f.ec>> ELSE <<0>> \o f.data \o Word(Sum(f.data))
  <1>3. Answer(a)
    BY DEF lwwire_proto_read
  <1>4. f.data \in Sector /\ f.ec \in ByteVal /\ f.ec = IF Args[1] \in Paths THEN 0 ELSE NOTREADY
    BY FetchType DEF ServerTypeOK
  <1> HIDE DEF f
  <1>5. f.data \in Bytes /\ Len(f.data) = SECZ /\ SECZ \in Nat
    BY <1>4, SectorBytes, ServerAssumption
  <1>6. Word(Sum(f.data)) \in Bytes /\ Len(Word(Sum(f.data))) = 2
    <2>1. Sum(f.data) \in Nat
      BY <1>5, SumType
    <2> QED BY <2>1, WordBytes
  <1>7. <<0>> \in Bytes /\ Len(<<0>>) = 1 /\ <<f.ec>> \in Bytes /\ Len(<<f.ec>>) = 1
    BY <1>4 DEF Bytes, ByteVal
  <1> DEFINE w == Word(Sum(f.data))
             z == <<0>>
             x == f.data
  <1>8. z \o x \o w \in Bytes /\ Len(z \o x \o w) = SECZ + 3
    <2>1. z \in Bytes /\ Len(z) = 1 /\ w \in Bytes /\ Len(w) = 2 /\ x \in Bytes /\ Len(x) = SECZ
      BY <1>5, <1>6, <1>7
    <2> HIDE DEF w, z, x, a
    <2>2. z \o x \o w \in Bytes /\ Len(z \o x \o w) = Len(z) + Len(x) + Len(w)
      BY <2>1, Cat3
    <2> QED BY <2>1, <2>2, <1>5
  <1>9. a \in Bytes /\ Len(a) = IF f.ec # 0 THEN 1 ELSE SECZ + 3
    BY <1>7, <1>8
  <1>10. Args[1] = up[1] /\ Len(up) >= 4 /\ Takes[op] = 4
    BY <1>1, ReadArgs
  <1>11. f.ec # 0 <=> up[1] \notin Paths
    BY <1>4, <1>10 DEF NOTREADY
  <1> HIDE DEF a
  <1>12. down' \in Bytes /\ (down = << >> => down' = a)
    BY <1>3, <1>9, Answers1
  <1>13. lpr' = lpr
    BY <1>1, <1>2, Handled
  <1> QED BY <1>1, <1>2, <1>9, <1>10, <1>11, <1>12, <1>13

LEMMA ReadexDoes ==
    ASSUME ServerTypeOK, lwwire_proto_readex
    PROVE  /\ sp = "args" /\ op \in READEX /\ sp' = "cksum" /\ Takes[op] = 4 /\ Len(up) >= 4
           /\ disk' = disk /\ lpr' = lpr
           /\ down' \in Bytes
           /\ LsnAt(up, 2) \in Lsn
           /\ down = << >> => down' = Fetch(up[1], LsnAt(up, 2)).data
           /\ reply' = [ec |-> Fetch(up[1], LsnAt(up, 2)).ec,
                        csum |-> Sum(Fetch(up[1], LsnAt(up, 2)).data)]
           /\ reply'.ec \in ByteVal /\ reply'.csum \in Nat
  <1>1. Handle(READEX) /\ sp' = "cksum" /\ disk' = disk
    BY DEF lwwire_proto_readex
  <1>2. sp = "args" /\ op \in READEX /\ op # PRINT
    BY <1>1, Codes DEF Handle
  <1>3. Takes[op] = 4 /\ Len(up) >= 4 /\ LsnAt(up, 2) \in Lsn
    BY <1>1, ReadArgs
  <1> DEFINE f == Fetch(up[1], LsnAt(up, 2))
  <1>4. Answer(f.data) /\ reply' = [ec |-> f.ec, csum |-> Sum(f.data)]
    <2>1. Args[1] = up[1] /\ LsnOf(Tail(Args)) = LsnAt(up, 2)
      BY <1>1, ReadArgs
    <2> QED BY <2>1 DEF lwwire_proto_readex
  <1>5. f.data \in Sector /\ f.ec \in ByteVal
    BY FetchType DEF ServerTypeOK
  <1> HIDE DEF f
  <1>6. f.data \in Bytes
    BY <1>5, SectorBytes
  <1>7. down' \in Bytes /\ (down = << >> => down' = f.data)
    BY <1>4, <1>6, Answers1
  <1>8. Sum(f.data) \in Nat
    BY <1>6, SumType
  <1>9. lpr' = lpr
    BY <1>1, <1>2, Handled
  <1> QED BY <1>1, <1>2, <1>3, <1>4, <1>5, <1>7, <1>8, <1>9 DEF f

(* The sector in a WRITE *)
SectorAt(s) == SubSeq(s, 5, 4 + SECZ)

LEMMA WriteArgs ==
    ASSUME ServerTypeOK, Handle(WRITE)
    PROVE  /\ Len(up) >= SECZ + 6 /\ Takes[op] = SECZ + 6
           /\ Args[1] = up[1]
           /\ LsnOf(SubSeq(Args, 2, 4)) = LsnAt(up, 2) /\ LsnAt(up, 2) \in Lsn
           /\ SubSeq(Args, 5, 4 + SECZ) = SectorAt(up) /\ SectorAt(up) \in Sector
           /\ \A i \in 1..SECZ : SectorAt(up)[i] = up[4 + i]
           /\ WordOf(SubSeq(Args, 5 + SECZ, 6 + SECZ)) = WordAt(up, 5 + SECZ)
  <1>1. /\ Takes[op] = SECZ + 6 /\ Args \in Bytes /\ Len(Args) = SECZ + 6 /\ Len(up) >= SECZ + 6
        /\ SECZ \in Nat /\ SECZ >= 1 /\ up \in Bytes /\ Len(up) \in Nat
        /\ \A i \in 1..(SECZ + 6) : Args[i] = up[i]
    <2>1. op \in WRITE /\ SECZ \in Nat /\ SECZ >= 1 /\ up \in Bytes /\ Len(up) \in Nat
      BY ServerAssumption DEF Handle, ServerTypeOK, Bytes
    <2>2. Takes[op] = SECZ + 6
      BY <2>1, TakesOf
    <2> QED BY <2>1, <2>2, Handled
  <1>2. Args[1] = up[1]
    BY <1>1
  <1> DEFINE a == Args
             n == SubSeq(a, 2, 4)
             d == SubSeq(a, 5, 4 + SECZ)
             w == SubSeq(a, 5 + SECZ, 6 + SECZ)
  <1>3. a \in Bytes /\ Len(a) = SECZ + 6
    BY <1>1
  <1>4. n \in Bytes /\ Len(n) = 3 /\ n[1] = a[2] /\ n[2] = a[3] /\ n[3] = a[4]
    <2> HIDE DEF a
    <2> QED BY <1>1, <1>3 DEF Bytes
  <1>5. d \in Bytes /\ Len(d) = SECZ /\ \A i \in 1..SECZ : d[i] = a[4 + i]
    <2> HIDE DEF a
    <2> QED BY <1>1, <1>3 DEF Bytes
  <1>6. w \in Bytes /\ Len(w) = 2 /\ w[1] = a[5 + SECZ] /\ w[2] = a[5 + SECZ + 1]
    <2> HIDE DEF a
    <2> QED BY <1>1, <1>3 DEF Bytes
  <1>7. /\ SectorAt(up) \in Bytes /\ Len(SectorAt(up)) = SECZ
        /\ \A i \in 1..SECZ : SectorAt(up)[i] = up[4 + i]
    BY <1>1 DEF SectorAt, Bytes
  <1>8. \A i \in 1..SECZ : a[4 + i] = up[4 + i]
    BY <1>1
  <1>9. /\ a[2] = up[2] /\ a[3] = up[3] /\ a[4] = up[4]
        /\ a[5 + SECZ] = up[5 + SECZ] /\ a[5 + SECZ + 1] = up[5 + SECZ + 1]
    BY <1>1
  <1> HIDE DEF a, n, d, w
  <1>10. d = SectorAt(up)
    BY <1>5, <1>7, <1>8, Same
  <1>11. SectorAt(up) \in Sector
    BY <1>7, SectorBytes
  <1>12. LsnOf(n) = LsnAt(up, 2)
    BY <1>4, <1>9, LsnAtTwo
  <1>13. LsnOf(n) \in Lsn
    BY <1>4, LsnOfType
  <1>14. WordOf(w) = WordAt(up, 5 + SECZ)
    BY <1>6, <1>9, WordAtSame
  <1> QED BY <1>1, <1>2, <1>7, <1>10, <1>11, <1>12, <1>13, <1>14 DEF a, n, d, w

LEMMA OneByte == \A v \in ByteVal : <<v>> \in Bytes /\ Len(<<v>>) = 1 /\ <<v>>[1] = v
  BY DEF Bytes

LEMMA Statuses ==
    /\ CHECKSUM \in ByteVal /\ CHECKSUM # 0
    /\ \A d : SaveStatus(d) \in ByteVal /\ (SaveStatus(d) = 0 => d \in Paths)
    /\ 0 \in ByteVal /\ 128 \in ByteVal /\ 85 \in ByteVal /\ 66 \in ByteVal
  BY DEF CHECKSUM, SaveStatus, WRITEERR, NOTREADY, ByteVal

LEMMA WriteDoes ==
    ASSUME ServerTypeOK, lwwire_proto_write
    PROVE  /\ sp = "args" /\ op \in WRITE /\ sp' = "op" /\ Takes[op] = SECZ + 6
           /\ Len(up) >= SECZ + 6
           /\ reply' = reply /\ lpr' = lpr
           /\ LsnAt(up, 2) \in Lsn /\ SectorAt(up) \in Sector
           /\ IF Sum(SectorAt(up)) # WordAt(up, 5 + SECZ)
              THEN disk' = disk
              ELSE Save(up[1], LsnAt(up, 2), SectorAt(up))
           /\ \E v \in ByteVal :
                 /\ Answer(<<v>>)
                 /\ v = IF Sum(SectorAt(up)) # WordAt(up, 5 + SECZ)
                        THEN CHECKSUM ELSE SaveStatus(up[1])
  <1>1. Handle(WRITE) /\ sp' = "op" /\ reply' = reply
    BY DEF lwwire_proto_write
  <1>2. sp = "args" /\ op \in WRITE /\ op # PRINT
    BY <1>1, Codes DEF Handle
  <1>3. lpr' = lpr
    BY <1>1, <1>2, Handled
  <1>4. IF Sum(SectorAt(up)) # WordAt(up, 5 + SECZ)
        THEN Answer(<<CHECKSUM>>) /\ disk' = disk
        ELSE Save(up[1], LsnAt(up, 2), SectorAt(up)) /\ Answer(<<SaveStatus(up[1])>>)
    <2>1. /\ Args[1] = up[1] /\ LsnOf(SubSeq(Args, 2, 4)) = LsnAt(up, 2)
          /\ SubSeq(Args, 5, 4 + SECZ) = SectorAt(up)
          /\ WordOf(SubSeq(Args, 5 + SECZ, 6 + SECZ)) = WordAt(up, 5 + SECZ)
      BY <1>1, WriteArgs
    <2> QED BY <2>1, Zenon DEF lwwire_proto_write
  <1> DEFINE v == IF Sum(SectorAt(up)) # WordAt(up, 5 + SECZ) THEN CHECKSUM ELSE SaveStatus(up[1])
  <1>5. v \in ByteVal /\ Answer(<<v>>)
    BY <1>4, Statuses
  <1> QED BY <1>1, <1>2, <1>3, <1>4, <1>5, WriteArgs

LEMMA StatusDoes ==
    ASSUME ServerTypeOK, ReadexStatus
    PROVE  /\ sp = "cksum" /\ sp' = "op" /\ Len(up) >= 2 /\ hangup' = hangup
           /\ Dropped(up', up, 2)
           /\ disk' = disk /\ op' = op /\ reply' = reply /\ lpr' = lpr
           /\ \E v \in ByteVal :
                 /\ Answer(<<v>>)
                 /\ Len(up) = 2 => v = IF WordOf(up) # reply.csum THEN CHECKSUM ELSE reply.ec
  <1>1. /\ sp = "cksum" /\ Take /\ sp' = "op" /\ hangup' = hangup
        /\ disk' = disk /\ op' = op /\ reply' = reply /\ lpr' = lpr
    BY DEF ReadexStatus
  <1>2. Needs = 2
    BY <1>1 DEF Needs
  <1>3. /\ Len(up) >= 2 /\ Dropped(up', up, 2)
        /\ Args \in Bytes /\ Len(Args) = 2 /\ \A i \in 1..2 : Args[i] = up[i]
        /\ up \in Bytes
    BY <1>1, <1>2, TakeBytes
  <1> DEFINE v == IF WordOf(Args) # reply.csum THEN CHECKSUM ELSE reply.ec
  <1>4. v \in ByteVal /\ Answer(<<v>>)
    BY Statuses DEF ReadexStatus, ServerTypeOK
  <1>5. Len(up) = 2 => Args = up
    BY <1>3, Same
  <1> QED BY <1>1, <1>3, <1>4, <1>5

(* The handlers that answer with a byte whatever the request says *)
LEMMA OthersDo ==
    ASSUME ServerTypeOK,
           \/ InitReply \/ Burn \/ LogPrint \/ lwwire_proto_requestextension
           \/ lwwire_proto_disableextension \/ lwwire_proto_extensionop
    PROVE  /\ Handle({op}) /\ op \in STAT \cup {EXTENSIONOP, PRINT, DWINIT, REQUESTEXT, DISABLEEXT}
           /\ disk' = disk /\ reply' = reply
           /\ sp' = IF op = EXTENSIONOP THEN "silent" ELSE "op"
           /\ IF op \in {DWINIT, REQUESTEXT, DISABLEEXT}
              THEN \E v \in ByteVal : Answer(<<v>>)
              ELSE down' = down
           /\ lpr' \in Seq(ByteVal)
  <1>1. CASE InitReply
    <2>1. Handle({op}) /\ op = DWINIT /\ disk' = disk /\ reply' = reply /\ sp' = "op" /\ Answer(<<128>>)
      BY <1>1 DEF InitReply, Handle
    <2>2. lpr' = lpr
      BY <2>1, Codes DEF Handle
    <2> QED BY <2>1, <2>2, Statuses, Codes DEF ServerTypeOK
  <1>2. CASE lwwire_proto_requestextension
    <2>1. Handle({op}) /\ op = REQUESTEXT /\ disk' = disk /\ reply' = reply /\ sp' = "op" /\ Answer(<<85>>)
      BY <1>2 DEF lwwire_proto_requestextension, Handle
    <2>2. lpr' = lpr
      BY <2>1, Codes DEF Handle
    <2> QED BY <2>1, <2>2, Statuses, Codes DEF ServerTypeOK
  <1>3. CASE lwwire_proto_disableextension
    <2>1. Handle({op}) /\ op = DISABLEEXT /\ disk' = disk /\ reply' = reply /\ sp' = "op" /\ Answer(<<66>>)
      BY <1>3 DEF lwwire_proto_disableextension, Handle
    <2>2. lpr' = lpr
      BY <2>1, Codes DEF Handle
    <2> QED BY <2>1, <2>2, Statuses, Codes DEF ServerTypeOK
  <1>4. CASE Burn
    <2>1. Handle({op}) /\ op \in STAT /\ disk' = disk /\ reply' = reply /\ sp' = "op" /\ down' = down
      BY <1>4 DEF Burn, Handle
    <2>2. lpr' = lpr
      BY <2>1, Codes DEF Handle
    <2> QED BY <2>1, <2>2, Codes DEF ServerTypeOK
  <1>5. CASE lwwire_proto_extensionop
    <2>1. Handle({op}) /\ op = EXTENSIONOP /\ disk' = disk /\ reply' = reply /\ sp' = "silent" /\ down' = down
      BY <1>5 DEF lwwire_proto_extensionop, Handle
    <2>2. lpr' = lpr
      BY <2>1, Codes DEF Handle
    <2> QED BY <2>1, <2>2, Codes DEF ServerTypeOK
  <1>6. CASE LogPrint
    <2>1. /\ Handle({op}) /\ op = PRINT /\ disk' = disk /\ reply' = reply /\ sp' = "op" /\ down' = down
          /\ lpr' = Append(lpr, Args[1])
      BY <1>6 DEF LogPrint, Handle
    <2>2. Args \in Bytes /\ 1 \in 1..Len(Args)
      BY <2>1, Handled
    <2>3. Args[1] \in ByteVal
      BY <2>2, NoBytes
    <2>4. lpr' \in Seq(ByteVal)
      BY <2>1, <2>3 DEF ServerTypeOK
    <2> QED BY <2>1, <2>4, Codes
  <1> QED BY <1>1, <1>2, <1>3, <1>4, <1>5, <1>6

LEMMA AnswerOne ==
    ASSUME ServerTypeOK, NEW v \in ByteVal, Answer(<<v>>)
    PROVE  down' \in Bytes /\ Len(down') = Len(down) + 1 /\ (down = << >> => down' = <<v>>)
  BY OneByte, Answers1

(* Handle takes nothing but bytes and the opcode. *)
LEMMA HandledTypes ==
    ASSUME ServerTypeOK, NEW ops, Handle(ops), DiskType', down' \in Bytes, lpr' \in Seq(ByteVal),
           sp' \in {"op", "cksum", "silent"}, reply'.ec \in ByteVal, reply'.csum \in Nat
    PROVE  ServerTypeOK'
  <1>1. up' \in Bytes /\ op' = op /\ hangup' = hangup
    BY Handled DEF Dropped
  <1> QED BY <1>1 DEF ServerTypeOK, Bytes

LEMMA DispatchTypes ==
    ASSUME ServerTypeOK, Dispatch, down' \in Bytes,
           sp' \in {"op", "silent"} \/ (sp' = "args" /\ op' \in DOMAIN Takes)
    PROVE  ServerTypeOK'
  <1>1. up' \in Bytes /\ op' \in ByteVal
    BY DispatchTakes DEF Dropped
  <1>2. hangup' = hangup /\ disk' = disk /\ reply' = reply /\ lpr' = lpr
    BY DEF Dispatch
  <1>3. DiskType'
    BY <1>2 DEF ServerTypeOK, DiskType
  <1> QED BY <1>1, <1>2, <1>3 DEF ServerTypeOK, Bytes

LEMMA TellTimeDoes ==
    ASSUME ServerTypeOK, TellTime
    PROVE  down' \in Bytes /\ Len(down') = Len(down) + 6 /\ sp' = "op"
  <1>1. Clock \in Bytes /\ Len(Clock) = 6
    BY ServerAssumption DEF Bytes
  <1> QED BY <1>1, Answers1 DEF TellTime, Dispatch

LEMMA ServerTypes ==
    ASSUME ServerTypeOK, Server
    PROVE  ServerTypeOK'
  <1>1. down \in Bytes /\ (disk' = disk => DiskType')
    BY DEF ServerTypeOK, Bytes, DiskType
  <1>2. CASE Ignored
    <2>1. Dispatch /\ sp' = "op" /\ down' = down
      BY <1>2 DEF Ignored, Dispatch
    <2> QED BY <1>1, <2>1, DispatchTypes
  <1>3. CASE TellTime
    <2>1. Dispatch /\ sp' = "op" /\ down' \in Bytes
      BY <1>3, TellTimeDoes DEF TellTime
    <2> QED BY <2>1, DispatchTypes
  <1>4. CASE WithArgs
    <2>1. Dispatch /\ sp' = "args" /\ op' \in DOMAIN Takes /\ down' = down
      BY <1>4 DEF WithArgs
    <2> QED BY <1>1, <2>1, DispatchTypes
  <1>5. CASE Unrecognized
    <2>1. Dispatch /\ sp' = "silent" /\ down' = down
      BY <1>5 DEF Unrecognized
    <2> QED BY <1>1, <2>1, DispatchTypes
  <1>6. CASE SilenceOver
    BY <1>1, <1>6 DEF SilenceOver, line, ServerTypeOK
  <1>7. CASE lwwire_proto_read
    <2>1. /\ Handle(READ) /\ sp' = "op" /\ disk' = disk /\ reply' = reply /\ lpr' = lpr
          /\ down' \in Bytes
      BY <1>7, ReadDoes DEF lwwire_proto_read
    <2>2. lpr' \in Seq(ByteVal) /\ reply'.ec \in ByteVal /\ reply'.csum \in Nat
      BY <2>1 DEF ServerTypeOK
    <2> QED BY <1>1, <2>1, <2>2, HandledTypes
  <1>8. CASE lwwire_proto_write
    <2>1. /\ Handle(WRITE) /\ sp' = "op" /\ reply' = reply /\ lpr' = lpr
          /\ LsnAt(up, 2) \in Lsn /\ SectorAt(up) \in Sector
          /\ disk' = disk \/ Save(up[1], LsnAt(up, 2), SectorAt(up))
      BY <1>8, WriteDoes DEF lwwire_proto_write
    <2>2. PICK v \in ByteVal : Answer(<<v>>)
      BY <1>8, WriteDoes
    <2>3. down' \in Bytes
      BY <2>2, AnswerOne
    <2>4. DiskType'
      BY <1>1, <2>1, SaveType DEF ServerTypeOK
    <2>5. lpr' \in Seq(ByteVal) /\ reply'.ec \in ByteVal /\ reply'.csum \in Nat
      BY <2>1 DEF ServerTypeOK
    <2> QED BY <2>1, <2>3, <2>4, <2>5, HandledTypes
  <1>9. CASE lwwire_proto_readex
    <2>1. /\ Handle(READEX) /\ sp' = "cksum" /\ disk' = disk /\ lpr' = lpr
          /\ down' \in Bytes /\ reply'.ec \in ByteVal /\ reply'.csum \in Nat
      BY <1>9, ReadexDoes DEF lwwire_proto_readex
    <2>2. lpr' \in Seq(ByteVal)
      BY <2>1 DEF ServerTypeOK
    <2> QED BY <1>1, <2>1, <2>2, HandledTypes
  <1>10. CASE ReadexStatus
    <2>1. /\ up' \in Bytes /\ hangup' = hangup /\ sp' = "op" /\ disk' = disk /\ op' = op
          /\ reply' = reply /\ lpr' = lpr
      BY <1>10, StatusDoes DEF Dropped
    <2>2. PICK v \in ByteVal : Answer(<<v>>)
      BY <1>10, StatusDoes
    <2>3. down' \in Bytes
      BY <2>2, AnswerOne
    <2> QED BY <1>1, <2>1, <2>3 DEF ServerTypeOK, Bytes
  <1>11. CASE \/ InitReply \/ Burn \/ LogPrint \/ lwwire_proto_requestextension
              \/ lwwire_proto_disableextension \/ lwwire_proto_extensionop
    <2>1. /\ Handle({op}) /\ disk' = disk /\ reply' = reply /\ sp' \in {"op", "silent"}
          /\ lpr' \in Seq(ByteVal)
          /\ down' = down \/ \E v \in ByteVal : Answer(<<v>>)
      BY <1>11, OthersDo
    <2>2. down' \in Bytes
      BY <1>1, <2>1, AnswerOne
    <2>3. reply'.ec \in ByteVal /\ reply'.csum \in Nat
      BY <2>1 DEF ServerTypeOK
    <2> QED BY <1>1, <2>1, <2>2, <2>3, HandledTypes
  <1>12. CASE Eof
    <2>1. << >> \in Seq(ByteVal)
      OBVIOUS
    <2> QED BY <1>1, <1>12, <2>1 DEF Eof, ServerTypeOK
  <1> QED BY <1>2, <1>3, <1>4, <1>5, <1>6, <1>7, <1>8, <1>9, <1>10, <1>11, <1>12 DEF Server

-----------------------------------------------------------------------------
(* Requests as bytes *)

IsRequest(r, d, n) ==
    /\ r \in Bytes /\ Len(r) = 5 /\ r[1] = 210 /\ r[2] = d
    /\ LsnAt(r, 3) = n

LEMMA RequestBytes ==
    ASSUME drive \in ByteVal, NEW n \in Lsn
    PROVE  IsRequest(Request(n), drive, n)
  <1> DEFINE h == <<210, drive>>
             b == LsnBytes(n)
             r == h \o b
  <1>1. h \in Bytes /\ Len(h) = 2 /\ h[1] = 210 /\ h[2] = drive
    BY DEF Bytes, ByteVal
  <1>2. b \in Bytes /\ Len(b) = 3 /\ LsnOf(b) = n
    BY LsnBytesOf
  <1>3. r = Request(n) /\ r = h \o b
    BY DEF Request
  <1> HIDE DEF h, b, r
  <1>4. /\ r \in Bytes /\ Len(r) = 5 /\ \A i \in 1..2 : r[i] = h[i]
        /\ \A i \in 1..3 : r[2 + i] = b[i]
    <2>1. Joined(r, h, b)
      BY <1>1, <1>2, <1>3, CatJoined
    <2> QED BY <1>1, <1>2, <2>1 DEF Joined
  <1>5. r[1] = 210 /\ r[2] = drive /\ r[3] = b[1] /\ r[4] = b[2] /\ r[5] = b[3]
    BY <1>1, <1>4
  <1>6. LsnAt(r, 3) = LsnOf(b)
    BY <1>5 DEF LsnAt, LsnOf
  <1>7. IsRequest(r, drive, n)
    BY <1>2, <1>4, <1>5, <1>6 DEF IsRequest
  <1> QED BY <1>3, <1>7

IsWrite(r, d, n, s) ==
    /\ r \in Bytes /\ Len(r) = SECZ + 7 /\ r[1] = 87 /\ r[2] = d
    /\ LsnAt(r, 3) = n
    /\ \A i \in 1..SECZ : r[5 + i] = s[i]
    /\ WordAt(r, 6 + SECZ) = Sum(s) % 65536

LEMMA WriteRequestBytes ==
    ASSUME NEW d \in ByteVal, NEW n \in Lsn, NEW s \in Sector
    PROVE  IsWrite(WriteRequest(d, n, s), d, n, s)
  <1> DEFINE h == <<87, d>>
             b == LsnBytes(n)
             w == Word(Sum(s))
             a == h \o b \o s
             r == a \o w
  <1>1. h \in Bytes /\ Len(h) = 2 /\ h[1] = 87 /\ h[2] = d
    BY DEF Bytes, ByteVal
  <1>2. b \in Bytes /\ Len(b) = 3 /\ LsnOf(b) = n
    BY LsnBytesOf
  <1>3. s \in Bytes /\ Len(s) = SECZ /\ SECZ \in Nat /\ SECZ >= 1
    BY SectorBytes, ServerAssumption
  <1>4. w \in Bytes /\ Len(w) = 2 /\ WordOf(w) = Sum(s) % 65536
    <2>1. Sum(s) \in Nat
      BY <1>3, SumType
    <2> QED BY <2>1, WordBytes
  <1> DEFINE c == h \o b
  <1>5. r = WriteRequest(d, n, s) /\ c = h \o b /\ a = c \o s /\ r = a \o w
    BY DEF WriteRequest
  <1> HIDE DEF h, b, w, c, a, r
  <1>6. /\ a \in Bytes /\ Len(a) = 5 + SECZ
        /\ \A i \in 1..2 : a[i] = h[i]
        /\ \A i \in 1..3 : a[2 + i] = b[i]
        /\ \A i \in 1..SECZ : a[5 + i] = s[i]
    <2>1. Joined(c, h, b)
      BY <1>1, <1>2, <1>5, CatJoined
    <2>2. c \in Bytes /\ Len(c) = 5
      BY <1>1, <1>2, <2>1 DEF Joined
    <2>3. Joined(a, c, s)
      BY <1>3, <1>5, <2>2, CatJoined
    <2>4. /\ a \in Bytes /\ Len(a) = 5 + SECZ
          /\ \A i \in 1..5 : a[i] = c[i]
          /\ \A i \in 1..SECZ : a[5 + i] = s[i]
      BY <1>3, <2>2, <2>3 DEF Joined
    <2>5. \A i \in 1..2 : c[i] = h[i]
      BY <1>1, <2>1 DEF Joined
    <2>6. \A i \in 1..3 : c[2 + i] = b[i]
      BY <1>1, <1>2, <2>1 DEF Joined
    <2> QED BY <2>4, <2>5, <2>6
  <1>7. /\ r \in Bytes /\ Len(r) = SECZ + 7
        /\ \A i \in 1..(5 + SECZ) : r[i] = a[i]
        /\ \A i \in 1..2 : r[5 + SECZ + i] = w[i]
    <2>1. Joined(r, a, w)
      BY <1>4, <1>5, <1>6, CatJoined
    <2> QED BY <1>3, <1>4, <1>6, <2>1 DEF Joined
  <1>8. r[1] = 87 /\ r[2] = d /\ r[3] = b[1] /\ r[4] = b[2] /\ r[5] = b[3]
    BY <1>1, <1>3, <1>6, <1>7
  <1>9. \A i \in 1..SECZ : r[5 + i] = s[i]
    BY <1>3, <1>6, <1>7
  <1>10. r[6 + SECZ] = w[1] /\ r[6 + SECZ + 1] = w[2]
    BY <1>3, <1>7
  <1>11. LsnAt(r, 3) = LsnOf(b)
    BY <1>8 DEF LsnAt, LsnOf
  <1>12. WordAt(r, 6 + SECZ) = WordOf(w)
    BY <1>10, WordAtSame
  <1>13. IsWrite(r, d, n, s)
    BY <1>2, <1>4, <1>7, <1>8, <1>9, <1>11, <1>12 DEF IsWrite
  <1> QED BY <1>5, <1>13

-----------------------------------------------------------------------------
(* Type correctness *)

LEMMA CallFields ==
    ASSUME call \in Calls
    PROVE  /\ call.fn \in {"none", "dw_init", "dw_read", "write", "other"}
           /\ call.fn = "dw_read" => call.blk \in Blocks
           /\ call.fn = "write" => /\ call.drive \in Drives /\ call.lsn \in WriteLsns
                                  /\ call.data \in WriteData /\ call.want = 1
           /\ call.fn = "other" => \E t \in Others : call.want = t.want
  <1>1. CASE call \in {[fn |-> "none"], [fn |-> "dw_init"]}
    BY <1>1
  <1>2. CASE call \in {[fn |-> "dw_read", blk |-> b] : b \in Blocks}
    BY <1>2
  <1>3. CASE call \in {[fn |-> "write", drive |-> d, lsn |-> n, data |-> s, want |-> 1] :
                          d \in Drives, n \in WriteLsns, s \in WriteData}
    BY <1>3
  <1>4. CASE call \in {[fn |-> "other", want |-> t.want] : t \in Others}
    BY <1>4
  <1> QED BY <1>1, <1>2, <1>3, <1>4 DEF Calls

LEMMA OtherRequest ==
    ASSUME NEW t \in Others
    PROVE  /\ t.send \in Bytes /\ Len(t.send) = Length(t.send[1]) /\ Len(t.send) >= 1
           /\ t.send[1] \in ByteVal /\ t.send[1] \notin WRITE \cup READEX
           /\ t.want = Answers(t.send) /\ t.want \in Nat
           /\ t.want = 0 <=> Mute(t.send[1])
  <1>1. /\ t.send \in Bytes /\ t.send # << >>
        /\ t.send[1] \notin WRITE \cup READEX
        /\ Len(t.send) = 1 + (IF t.send[1] \in DOMAIN Takes THEN Takes[t.send[1]] ELSE 0)
        /\ t.want = Answers(t.send)
    BY OthersAssumption DEF Bytes
  <1>2. Len(t.send) >= 1
    BY <1>1, TakesSome
  <1>3. 1 \in 1..Len(t.send)
    BY <1>1, <1>2, NoBytes
  <1>4. t.send[1] \in ByteVal
    BY <1>1, <1>3, NoBytes
  <1>5. t.want \in Nat /\ (t.want = 0 <=> Mute(t.send[1]))
    BY <1>1, ServerAssumption DEF Answers, Mute
  <1> QED BY <1>1, <1>2, <1>4, <1>5 DEF Length

LEMMA TransGot ==
    ASSUME ServerTypeOK, NEW n \in Nat, NEW r \in Trans(n), Received(r)
    PROVE  \E k \in 0..n :
             /\ k <= Len(down) /\ (r.ok <=> k = n) /\ r.ok \in BOOLEAN
             /\ r.got \in Bytes /\ Len(r.got) = k /\ \A i \in 1..k : r.got[i] = down[i]
             /\ Dropped(down', down, k)
             /\ k = n \/ Late \/ (k = Len(down) /\ Quiet)
  <1>1. PICK k \in 0..n : /\ k <= Len(down) /\ (k = n \/ Late \/ (k = Len(down) /\ Quiet))
                          /\ r = [got |-> SubSeq(down, 1, k), ok |-> k = n]
    BY DEF Trans
  <1>2. down \in Bytes /\ Len(down) \in Nat
    BY DEF ServerTypeOK, Bytes
  <1>3. k \in 0..Len(down)
    BY <1>1, <1>2
  <1>4. /\ SubSeq(down, k + 1, Len(down)) \in Bytes
        /\ Len(SubSeq(down, k + 1, Len(down))) = Len(down) - k
        /\ \A i \in 1..(Len(down) - k) : SubSeq(down, k + 1, Len(down))[i] = down[k + i]
        /\ SubSeq(down, 1, k) \in Bytes
        /\ Len(SubSeq(down, 1, k)) = k
        /\ \A i \in 1..k : SubSeq(down, 1, k)[i] = down[i]
    BY <1>2, <1>3, Rest
  <1>5. r.got = SubSeq(down, 1, k) /\ r.ok = (k = n)
    BY <1>1
  <1>6. Len(r.got) = k
    BY <1>4, <1>5
  <1>7. down' = SubSeq(down, k + 1, Len(down))
    BY <1>6 DEF Received
  <1>8. Dropped(down', down, k)
    BY <1>4, <1>7 DEF Dropped
  <1> QED BY <1>1, <1>4, <1>5, <1>6, <1>8

LEMMA Sent ==
    ASSUME ServerTypeOK, NEW s \in Bytes, Send(s)
    PROVE  Joined(up', up, s) /\ up' \in Bytes
  <1>1. up \in Bytes /\ up' = up \o s
    BY DEF ServerTypeOK, Bytes, Send
  <1>2. Joined(up', up, s)
    BY <1>1, CatJoined
  <1> QED BY <1>2 DEF Joined

LEMMA ServerKeeps == Server => hangup' = hangup
  BY DEF Server, Ignored, TellTime, WithArgs, Unrecognized, SilenceOver, Dispatch, Handle, Eof, line,
         ReadexStatus, lwwire_proto_read, lwwire_proto_write, lwwire_proto_readex, InitReply, Burn,
         LogPrint, lwwire_proto_requestextension, lwwire_proto_disableextension,
         lwwire_proto_extensionop

(* Steps of the client do not touch the server. *)
LEMMA LineTypes ==
    ASSUME ServerTypeOK, UNCHANGED server, up' \in Bytes, down' \in Bytes, hangup' \in BOOLEAN
    PROVE  ServerTypeOK'
  BY DEF ServerTypeOK, server, Bytes, DiskType

LEMMA BlockSectors ==
    ASSUME NEW b \in Blocks, ~TooBig(b)
    PROVE  b \in Nat /\ 2 * b \in Lsn /\ 2 * b + 1 \in Lsn
  <1>1. 2^23 = 8388608
    BY SMT
  <1>2. b \in Nat /\ b < 8388608
    BY <1>1, ClientAssumption, SMT DEF TooBig, BLKLIMIT
  <1> QED BY <1>2, LsnLimit, SMT

LEMMA TypedInit == Init => Typed
  <1> SUFFICES ASSUME Init PROVE Typed
    OBVIOUS
  <1>1. DiskType
    BY ServerAssumption DEF Init, ServerInit, DiskType
  <1>2. ServerTypeOK
    <2>1. 0 \in ByteVal /\ << >> \in Seq(ByteVal)
      BY DEF ByteVal
    <2>2. /\ up = << >> /\ down = << >> /\ hangup = FALSE /\ sp = "op" /\ op = 0 /\ lpr = << >>
          /\ reply.ec = 0 /\ reply.csum = 0
      BY DEF Init, ServerInit
    <2>3. up \in Seq(ByteVal) /\ down \in Seq(ByteVal) /\ lpr \in Seq(ByteVal)
      BY <2>1, <2>2
    <2>4. hangup \in BOOLEAN /\ sp \in {"op", "args", "cksum", "silent", "exited"} /\ sp # "args"
      BY <2>2
    <2>5. op \in ByteVal /\ reply.ec \in ByteVal /\ reply.csum \in Nat
      BY <2>1, <2>2
    <2> QED BY <1>1, <2>3, <2>4, <2>5 DEF ServerTypeOK
  <1>3. 0 \in ByteVal /\ 0 \in Lsn /\ << >> \in Seq(ByteVal) /\ 0 \in Nat
    BY LsnLimit, SMT DEF ByteVal
  <1>4. [fn |-> "none"] \in Calls
    BY DEF Calls
  <1> QED BY <1>2, <1>3, <1>4 DEF Init, ServerInit, Typed, TypeOK

LEMMA TypedServer ==
    ASSUME Typed, ServerStep
    PROVE  Typed'
  <1>1. ServerTypeOK' /\ hangup' = hangup
    BY ServerTypes, ServerKeeps DEF Typed, TypeOK, ServerStep
  <1> QED BY <1>1 DEF Typed, TypeOK, ServerStep, client, faults, TooBig, BLKLIMIT

LEMMA TypedDw_init ==
    ASSUME Typed, NEW d \in Drives, dw_init(d)
    PROVE  Typed'
  <1>1. <<DWINIT, 0>> \in Bytes /\ d \in ByteVal
    BY ClientAssumption DEF Bytes, ByteVal, DWINIT
  <1>2. up' \in Bytes
    BY <1>1, Sent DEF dw_init, Typed, TypeOK
  <1>3. ServerTypeOK'
    BY <1>2, LineTypes DEF dw_init, Typed, TypeOK, ServerTypeOK, Bytes
  <1>4. [fn |-> "dw_init"] \in Calls /\ << >> \in Seq(ByteVal)
    BY DEF Calls
  <1> QED BY <1>1, <1>3, <1>4 DEF dw_init, Starts, Typed, TypeOK, faults

LEMMA TypedDw_read ==
    ASSUME Typed, NEW b \in Blocks, dw_read(b)
    PROVE  Typed'
  <1>1. b \in Nat /\ 2 * b \in Lsn
    BY BlockSectors DEF dw_read
  <1>2. Request(2 * b) \in Bytes
    BY <1>1, RequestBytes DEF Typed, TypeOK, IsRequest
  <1>3. up' \in Bytes
    BY <1>2, Sent DEF dw_read, Typed, TypeOK
  <1>4. ServerTypeOK'
    BY <1>3, LineTypes DEF dw_read, Typed, TypeOK, ServerTypeOK, Bytes
  <1>5. [fn |-> "dw_read", blk |-> b] \in Calls /\ << >> \in Seq(ByteVal)
    BY DEF Calls
  <1> QED BY <1>1, <1>4, <1>5 DEF dw_read, Starts, Typed, TypeOK, faults, TooBig, BLKLIMIT

LEMMA TypedRefuse ==
    ASSUME Typed, NEW b \in Blocks, dw_read_refuse(b)
    PROVE  Typed'
  <1>1. ServerTypeOK' /\ hangup' = hangup
    BY LineTypes DEF dw_read_refuse, Typed, TypeOK, ServerTypeOK, Bytes, line
  <1>2. [fn |-> "dw_read", blk |-> b] \in Calls /\ << >> \in Seq(ByteVal)
    BY DEF Calls
  <1> QED BY <1>1, <1>2 DEF dw_read_refuse, Returns, Typed, TypeOK, faults

LEMMA TypedWrite ==
    ASSUME Typed, NEW d \in Drives, NEW n \in WriteLsns, NEW s \in WriteData, CallWrite(d, n, s)
    PROVE  Typed'
  <1>1. WriteRequest(d, n, s) \in Bytes
    BY WriteRequestBytes, ClientAssumption DEF IsWrite
  <1>2. up' \in Bytes
    BY <1>1, Sent DEF CallWrite, Typed, TypeOK
  <1>3. ServerTypeOK'
    BY <1>2, LineTypes DEF CallWrite, Typed, TypeOK, ServerTypeOK, Bytes
  <1>4. call' = [fn |-> "write", drive |-> d, lsn |-> n, data |-> s, want |-> 1]
    BY DEF CallWrite, Starts
  <1>5. call' \in Calls /\ call'.fn = "write" /\ << >> \in Seq(ByteVal)
    BY <1>4 DEF Calls
  <1> QED BY <1>3, <1>5 DEF CallWrite, Starts, Typed, TypeOK, faults

LEMMA TypedOther ==
    ASSUME Typed, NEW t \in Others, CallOther(t)
    PROVE  Typed'
  <1>1. up' \in Bytes
    BY OtherRequest, Sent DEF CallOther, Typed, TypeOK
  <1>2. ServerTypeOK'
    BY <1>1, LineTypes DEF CallOther, Typed, TypeOK, ServerTypeOK, Bytes
  <1>3. [fn |-> "other", want |-> t.want] \in Calls /\ << >> \in Seq(ByteVal)
    BY DEF Calls
  <1> QED BY <1>2, <1>3 DEF CallOther, Starts, Typed, TypeOK, faults

LEMMA TypedInitDone ==
    ASSUME Typed, InitDone
    PROVE  Typed'
  <1>1. PICK r \in Trans(1) : Received(r) /\ Returns(IF r.ok THEN 0 ELSE 4)
    BY DEF InitDone
  <1>2. down' \in Bytes
    BY <1>1, TransGot DEF Dropped, Typed, TypeOK
  <1>3. ServerTypeOK'
    BY <1>2, LineTypes DEF InitDone, Typed, TypeOK, ServerTypeOK, Bytes
  <1> QED BY <1>1, <1>3 DEF InitDone, Returns, Typed, TypeOK, faults

LEMMA TypedReadData ==
    ASSUME Typed, ReadData
    PROVE  Typed'
  <1>1. PICK r \in Trans(SECZ) :
            /\ Received(r) /\ err' = ~r.ok /\ data' = data \o r.got
            /\ Send(Word(Cksum(SECZ, r)))
    BY DEF ReadData
  <1>2. /\ down' \in Bytes /\ r.got \in Bytes /\ r.ok \in BOOLEAN
        /\ Len(r.got) \in Nat /\ Len(r.got) <= SECZ
    BY <1>1, TransGot, ServerAssumption DEF Dropped, Typed, TypeOK
  <1>3. Cksum(SECZ, r) \in Nat
    <2>1. Sum(r.got) \in Nat
      BY <1>2, SumType
    <2>2. Sum(r.got) % 65536 \in Nat /\ SECZ - Len(r.got) \in Nat
      BY <1>2, <2>1, ServerAssumption
    <2> QED BY <2>2 DEF Cksum
  <1>4. up' \in Bytes
    BY <1>1, <1>3, WordBytes, Sent DEF Typed, TypeOK
  <1>5. ServerTypeOK'
    BY <1>2, <1>4, LineTypes DEF ReadData, Typed, TypeOK, ServerTypeOK, Bytes
  <1>6. data' \in Seq(ByteVal)
    BY <1>1, <1>2, Cat DEF Typed, TypeOK, Bytes
  <1> QED BY <1>1, <1>2, <1>5, <1>6 DEF ReadData, Typed, TypeOK, faults, TooBig, BLKLIMIT

LEMMA TypedReadStatus ==
    ASSUME Typed, ReadStatus
    PROVE  Typed'
  <1> DEFINE Good(r) == ~err /\ r.ok /\ r.got = <<0>>
  <1>1. PICK r \in Trans(1) :
            /\ Received(r)
            /\ IF Good(r) /\ sect = 2 * call.blk
               THEN /\ cp' = "data" /\ sect' = sect + 1 /\ Send(Request(sect + 1))
                    /\ UNCHANGED <<ret, failed>>
               ELSE Returns(IF Good(r) THEN 0 ELSE -1) /\ UNCHANGED <<sect, up>>
    BY DEF ReadStatus
  <1>2. down' \in Bytes
    BY <1>1, TransGot DEF Dropped, Typed, TypeOK
  <1>3. /\ call.fn = "dw_read" /\ ~TooBig(call.blk) /\ call.blk \in Blocks
        /\ sect \in {2 * call.blk, 2 * call.blk + 1}
    BY CallFields DEF ReadStatus, Typed
  <1>4. call' = call /\ hangup' = hangup /\ UNCHANGED <<server, faults, drive, data, err>>
    BY DEF ReadStatus
  <1> HIDE DEF Good
  <1>5. CASE Good(r) /\ sect = 2 * call.blk
    <2>1. sect' = 2 * call.blk + 1 /\ sect + 1 = 2 * call.blk + 1 /\ sect' \in Lsn
      BY <1>1, <1>3, <1>5, BlockSectors
    <2>2. Request(sect + 1) \in Bytes
      BY <2>1, RequestBytes DEF Typed, TypeOK, IsRequest
    <2>3. up' \in Bytes
      BY <1>1, <1>5, <2>2, Sent DEF Typed, TypeOK
    <2>4. ServerTypeOK'
      BY <1>2, <1>4, <2>3, LineTypes DEF Typed, TypeOK, ServerTypeOK
    <2>5. cp' = "data" /\ UNCHANGED <<ret, failed>>
      BY <1>1, <1>5
    <2>6. hangup = FALSE
      BY DEF ReadStatus, Typed, TypeOK, ServerTypeOK
    <2> QED BY <1>3, <1>4, <2>1, <2>4, <2>5, <2>6 DEF Typed, TypeOK, faults, TooBig, BLKLIMIT
  <1>6. CASE ~(Good(r) /\ sect = 2 * call.blk)
    <2>1. up' = up /\ sect' = sect /\ Returns(IF Good(r) THEN 0 ELSE -1)
      BY <1>1, <1>6
    <2>2. ServerTypeOK'
      BY <1>2, <1>4, <2>1, LineTypes DEF Typed, TypeOK, ServerTypeOK, Bytes
    <2>3. hangup = FALSE
      BY DEF ReadStatus, Typed, TypeOK, ServerTypeOK
    <2>4. cp' = "idle" /\ failed' \in BOOLEAN
      BY <2>1 DEF Returns, Typed
    <2> QED BY <1>4, <2>1, <2>2, <2>3, <2>4 DEF Typed, TypeOK, faults
  <1> QED BY <1>5, <1>6

LEMMA TypedOtherDone ==
    ASSUME Typed, OtherDone
    PROVE  Typed'
  <1>1. call.fn \in {"write", "other"} /\ cp = "other"
    BY DEF OtherDone, Typed
  <1>2. call.want \in Nat
    <2>1. CASE call.fn = "write"
      BY <2>1, CallFields DEF Typed
    <2>2. CASE call.fn = "other"
      BY <2>2, CallFields, OtherRequest DEF Typed
    <2> QED BY <1>1, <2>1, <2>2
  <1>3. PICK r \in Trans(call.want) : Received(r) /\ data' = r.got
                                      /\ \E v : Returns(v)
    BY DEF OtherDone
  <1>4. down' \in Bytes /\ r.got \in Bytes
    BY <1>2, <1>3, TransGot DEF Dropped, Typed, TypeOK
  <1>5. ServerTypeOK'
    BY <1>4, LineTypes DEF OtherDone, Typed, TypeOK, ServerTypeOK, Bytes
  <1>6. hangup = FALSE /\ cp' = "idle" /\ failed' \in BOOLEAN
    BY <1>1, <1>3 DEF Returns, Typed, TypeOK, ServerTypeOK
  <1> QED BY <1>3, <1>4, <1>5, <1>6 DEF OtherDone, Typed, TypeOK, faults, Bytes

LEMMA TypedFaults ==
    ASSUME Typed, Lose \/ Garble \/ Misread \/ Leave
    PROVE  Typed'
  <1>1. ServerTypeOK /\ up \in Bytes /\ down \in Bytes /\ DOMAIN up = 1..Len(up) /\ DOMAIN down = 1..Len(down)
    BY NoBytes DEF Typed, TypeOK, ServerTypeOK, Bytes
  <1>2. CASE Lose
    <2>1. up' \in Bytes /\ down' \in Bytes
      BY <1>1, <1>2, Removed DEF Lose
    <2>2. ServerTypeOK'
      BY <1>1, <1>2, <2>1, LineTypes DEF Lose, ServerTypeOK
    <2> QED BY <1>2, <2>2 DEF Lose, client, Typed, TypeOK, TooBig, BLKLIMIT
  <1>3. CASE Garble
    <2>1. down' \in Bytes
      BY <1>1, <1>3, Replaced, ClientAssumption DEF Garble
    <2>2. ServerTypeOK'
      BY <1>1, <1>3, <2>1, LineTypes DEF Garble, ServerTypeOK
    <2> QED BY <1>3, <2>2 DEF Garble, client, Typed, TypeOK, TooBig, BLKLIMIT
  <1>4. CASE Misread
    <2>1. ServerTypeOK' /\ hangup' = hangup
      BY <1>1, <1>4 DEF Misread, ReadError, line, ServerTypeOK, DiskType
    <2> QED BY <1>4, <2>1 DEF Misread, client, Typed, TypeOK, TooBig, BLKLIMIT
  <1>5. CASE Leave
    <2>1. ServerTypeOK'
      BY <1>1, <1>5, LineTypes DEF Leave
    <2> QED BY <1>5, <2>1 DEF Leave, faults, Typed, TypeOK
  <1> QED BY <1>2, <1>3, <1>4, <1>5

LEMMA TypedNext == Typed /\ [Next]_vars => Typed'
  <1> SUFFICES ASSUME Typed, [Next]_vars PROVE Typed'
    OBVIOUS
  <1>1. CASE ServerStep
    BY <1>1, TypedServer
  <1>2. CASE Client
    BY <1>2, TypedInitDone, TypedReadData, TypedReadStatus, TypedOtherDone DEF Client
  <1>3. CASE Call
    BY <1>3, TypedDw_init, TypedDw_read, TypedRefuse, TypedWrite, TypedOther DEF Call
  <1>4. CASE Lose \/ Garble \/ Misread \/ Leave
    BY <1>4, TypedFaults
  <1>5. CASE UNCHANGED vars
    BY <1>5 DEF vars, line, server, client, faults, Typed, TypeOK, ServerTypeOK, DiskType, TooBig, BLKLIMIT
  <1> QED BY <1>1, <1>2, <1>3, <1>4, <1>5 DEF Next

(* Every byte on the line is a byte, every sector on an image has SECZ of  *)
(* them and a number of 24 bits, and the server handles arguments of an    *)
(* opcode that takes some only.                                            *)
THEOREM TypeCorrect == Spec => []TypeOK
  <1>1. Typed => TypeOK
    BY DEF Typed
  <1> QED BY <1>1, TypedInit, TypedNext, PTL DEF Spec
=============================================================================
