----------------------------- MODULE UseraddProofs -----------------------------
(***************************************************************************)
(* util/useradd.c: /etc stays in order whoever runs together and whatever  *)
(* fails, so that the defaults file is never lost (DefaultsNeverLost) nor, *)
(* while it can be opened, a line of it that set_defaults does not know    *)
(* (OthersKept); and a new home directory is ready when useradd says so,   *)
(* but for what a call failed for (HomeReady).                             *)
(***************************************************************************)
EXTENDS UseraddInv, Recursion

(* A file system and the calls on it *)

LEMMA Grows ==
    ASSUME NEW V, NEW W, V \subseteq W
    PROVE  /\ FS(V) \subseteq FS(W) /\ RSet(V) \subseteq RSet(W) /\ GSet(V) \subseteq GSet(W)
           /\ \A D : Homes(D, V) \subseteq Homes(D, W)
  <1>1. FS(V) \subseteq FS(W)
    BY DEF FS
  <1>2. GSet(V) \subseteq GSet(W)
    BY DEF GSet
  <1>3. RSet(V) \subseteq RSet(W)
    <2> HIDE DEF GSet
    <2> QED BY <1>2 DEF RSet
  <1>4. \A D : Homes(D, V) \subseteq Homes(D, W)
    BY DEF Homes
  <1> QED BY <1>1, <1>2, <1>3, <1>4

NamedIn(f, i) == \E n \in Names : f.dir[n] = i

\* What g has kept of f.
Keeps(f, g, open) == \A i \in 1..Files : i \in open \/ NamedIn(g, i) => g.data[i] = f.data[i]

LEMMA CollectFact ==
    ASSUME NEW V, NEW f \in FS(V), NEW open
    PROVE  /\ Collect(f, open) \in FS(V \union {<<>>})
           /\ Collect(f, open).dir = f.dir
           /\ \A i \in 1..Files : i \in open \/ NamedIn(f, i) =>
                 Collect(f, open).data[i] = f.data[i]
           /\ Clean(Collect(f, open), open)
  <1> DEFINE c == Collect(f, open)
             d == [i \in 1..Files |-> IF i \in open \/ NamedIn(f, i) THEN f.data[i] ELSE <<>>]
  <1>1. f.dir \in [Names -> 0..Files] /\ f.data \in [1..Files -> V]
    BY DEF FS
  <1>2. c = [f EXCEPT !.data = d]
    BY DEF Collect, NamedIn
  <1>3. d \in [1..Files -> V \union {<<>>}]
    BY <1>1
  <1>4. c \in FS(V \union {<<>>})
    <2> HIDE DEF c, d
    <2> QED BY <1>1, <1>2, <1>3 DEF FS
  <1>5. c.dir = f.dir /\ c.data = d
    <2> HIDE DEF c, d
    <2> QED BY <1>1, <1>2, <1>3 DEF FS
  <1>6. Clean(c, open)
    <2> HIDE DEF c
    <2> QED BY <1>5 DEF Clean, Unused, NamedIn
  <1> QED BY <1>4, <1>5, <1>6

(* dir is bound to i under the name n. *)
LEMMA Bound ==
    ASSUME NEW V, NEW f \in FS(V), NEW n \in Names, NEW i \in 0..Files
    PROVE  /\ [f EXCEPT !.dir[n] = i] \in FS(V)
           /\ [f EXCEPT !.dir[n] = i].dir = [f.dir EXCEPT ![n] = i]
           /\ [f EXCEPT !.dir[n] = i].data = f.data
  BY DEF FS

LEMMA UnlinkFact ==
    ASSUME NEW V, NEW f \in FS(V), NEW n \in Names, NEW open
    PROVE  /\ Unlink(f, n, open) \in FS(V \union {<<>>})
           /\ Unlink(f, n, open).dir = [f.dir EXCEPT ![n] = NoFile]
           /\ Keeps(f, Unlink(f, n, open), open)
           /\ Clean(Unlink(f, n, open), open)
  <1> DEFINE g == [f EXCEPT !.dir[n] = NoFile]
  <1>1. NoFile \in 0..Files
    BY FilesAssumption DEF NoFile
  <1>2. g \in FS(V) /\ g.dir = [f.dir EXCEPT ![n] = NoFile] /\ g.data = f.data
    BY <1>1, Bound
  <1> DEFINE u == Unlink(f, n, open)
  <1>3. u = Collect(g, open)
    BY DEF Unlink
  <1> HIDE DEF g, u
  <1>4. /\ u \in FS(V \union {<<>>}) /\ u.dir = g.dir /\ Clean(u, open)
        /\ \A i \in 1..Files : i \in open \/ NamedIn(g, i) => u.data[i] = g.data[i]
    <2>1. g \in FS(V)
      BY <1>2
    <2>2. /\ Collect(g, open) \in FS(V \union {<<>>}) /\ Collect(g, open).dir = g.dir
          /\ Clean(Collect(g, open), open)
          /\ \A i \in 1..Files : i \in open \/ NamedIn(g, i) =>
                Collect(g, open).data[i] = g.data[i]
      BY <2>1, CollectFact
    <2> QED BY <1>3, <2>2, Zenon
  <1>5. \A i : NamedIn(u, i) <=> NamedIn(g, i)
    BY <1>4 DEF NamedIn
  <1>6. Keeps(f, u, open)
    BY <1>2, <1>4, <1>5 DEF Keeps
  <1> QED BY <1>2, <1>4, <1>6 DEF u

\* In g the file a of f is called b.
Moved(f, g, a, b) ==
    /\ g.dir[b] = f.dir[a] /\ g.dir[a] = NoFile
    /\ \A n \in Names \ {a, b} : g.dir[n] = f.dir[n]

LEMMA RenameFact ==
    ASSUME NEW V, NEW f \in FS(V), NEW a \in Names, NEW b \in Names, a # b, NEW open,
           Exists(f, a)
    PROVE  /\ Rename(f, a, b, open) \in FS(V \union {<<>>})
           /\ Moved(f, Rename(f, a, b, open), a, b)
           /\ Keeps(f, Rename(f, a, b, open), open)
           /\ Clean(Rename(f, a, b, open), open)
  <1> DEFINE h == [f EXCEPT !.dir[b] = f.dir[a]]
             g == [h EXCEPT !.dir[a] = NoFile]
             k == [f EXCEPT !.dir[b] = f.dir[a], !.dir[a] = NoFile]
  <1>1. NoFile \in 0..Files /\ f.dir[a] \in 0..Files
    BY FilesAssumption DEF NoFile, FS
  <1>2. h \in FS(V) /\ h.dir = [f.dir EXCEPT ![b] = f.dir[a]] /\ h.data = f.data
    BY <1>1, Bound
  <1>3. g \in FS(V) /\ g.dir = [h.dir EXCEPT ![a] = NoFile] /\ g.data = h.data
    <2> HIDE DEF h
    <2> QED BY <1>1, <1>2, Bound
  <1>4. k = g
    OBVIOUS
  <1>5. Rename(f, a, b, open) = Collect(k, open)
    BY DEF Rename
  <1> HIDE DEF g, h, k
  <1>6. g.dir = [f.dir EXCEPT ![b] = f.dir[a], ![a] = NoFile] /\ g.data = f.data
    BY <1>2, <1>3
  <1>7. Rename(f, a, b, open) = Collect(g, open)
    BY <1>4, <1>5
  <1>8. /\ g.dir[b] = f.dir[a] /\ g.dir[a] = NoFile
        /\ \A n \in Names \ {a, b} : g.dir[n] = f.dir[n]
    BY <1>6 DEF FS
  <1>9. /\ Collect(g, open) \in FS(V \union {<<>>}) /\ Collect(g, open).dir = g.dir
        /\ \A i \in 1..Files : i \in open \/ NamedIn(g, i) => Collect(g, open).data[i] = g.data[i]
        /\ Clean(Collect(g, open), open)
    <2>1. g \in FS(V)
      BY <1>3
    <2> QED BY <2>1, CollectFact
  <1>10. Keeps(f, Collect(g, open), open)
    BY <1>6, <1>9 DEF NamedIn, Keeps
  <1>11. Moved(f, Collect(g, open), a, b)
    BY <1>8, <1>9 DEF Moved
  <1> QED BY <1>7, <1>9, <1>10, <1>11, Zenon

LEMMA LinkFact ==
    ASSUME NEW V, NEW f \in FS(V), NEW a \in Names, NEW b \in Names
    PROVE  /\ Link(f, a, b) \in FS(V)
           /\ Link(f, a, b).dir = [f.dir EXCEPT ![b] = f.dir[a]]
           /\ Link(f, a, b).data = f.data
  <1>1. f.dir[a] \in 0..Files
    BY DEF FS
  <1> QED BY <1>1, Bound DEF Link

\* The lines of a file after fclose.
Written(f, i, lines) == lines \o SubSeq(f.data[i], Len(lines) + 1, Len(f.data[i]))

\* g is f with other lines x in file i.
Rewritten(f, g, i, x) ==
    /\ g.dir = f.dir /\ g.data[i] = x
    /\ \A j \in 1..Files : j # i => g.data[j] = f.data[j]

LEMMA WriteFact ==
    ASSUME NEW V, NEW f \in FS(V), NEW i \in 1..Files, NEW lines
    PROVE  /\ Write(f, i, lines) \in FS(V \union {Written(f, i, lines)})
           /\ Rewritten(f, Write(f, i, lines), i, Written(f, i, lines))
           /\ f.data[i] = <<>> /\ IsSeq(lines) => Written(f, i, lines) = lines
  <1> DEFINE x == Written(f, i, lines)
  <1>1. Write(f, i, lines) = [f EXCEPT !.data[i] = x]
    BY DEF Write, Written
  <1>2. ASSUME f.data[i] = <<>>, IsSeq(lines) PROVE x = lines
    <2> DEFINE S == {lines[j] : j \in 1..Len(lines)}
    <2>1. lines \in Seq(S)
      BY <1>2 DEF IsSeq
    <2>2. SubSeq(<<>>, Len(lines) + 1, 0) = <<>>
      BY <2>1
    <2>3. x = lines \o <<>>
      BY <1>2, <2>2 DEF Written
    <2> QED BY <2>1, <2>3
  <1> HIDE DEF x
  <1>3. [f EXCEPT !.data[i] = x] \in FS(V \union {x})
    BY DEF FS
  <1>4. [f EXCEPT !.data[i] = x].dir = f.dir /\ [f EXCEPT !.data[i] = x].data = [f.data EXCEPT ![i] = x]
    BY DEF FS
  <1>5. /\ [f EXCEPT !.data[i] = x].data[i] = x
        /\ \A j \in 1..Files : j # i => [f EXCEPT !.data[i] = x].data[j] = f.data[j]
    BY <1>4 DEF FS
  <1>6. Rewritten(f, [f EXCEPT !.data[i] = x], i, x)
    BY <1>4, <1>5 DEF Rewritten
  <1> QED BY <1>1, <1>2, <1>3, <1>6, Zenon DEF x

LEMMA CreatFact ==
    ASSUME NEW V, NEW f \in FS(V), NEW n \in Names, NEW open, Room(f, n, open), Clean(f, open)
    PROVE  /\ Creat(f, n, open) \in FS(V \union {<<>>})
           /\ Creat(f, n, open).dir[n] \in 1..Files
           /\ Creat(f, n, open).dir = [f.dir EXCEPT ![n] = Creat(f, n, open).dir[n]]
           /\ Creat(f, n, open).data = [f.data EXCEPT ![Creat(f, n, open).dir[n]] = <<>>]
           /\ \/ Exists(f, n) /\ Creat(f, n, open).dir[n] = f.dir[n]
              \/ ~Exists(f, n) /\ Creat(f, n, open).dir[n] \in Unused(f, open)
  <1> DEFINE c == Creat(f, n, open)
  <1>0. f.dir \in [Names -> 0..Files] /\ f.data \in [1..Files -> V]
    BY DEF FS
  <1>1. CASE Exists(f, n)
    <2>1. f.dir[n] \in 1..Files
      BY <1>0, <1>1, FilesAssumption DEF Exists, NoFile
    <2>2. c = [f EXCEPT !.data[f.dir[n]] = <<>>]
      BY <1>1 DEF Creat
    <2>3. /\ c.dir = f.dir /\ c.data = [f.data EXCEPT ![f.dir[n]] = <<>>]
          /\ c \in FS(V \union {<<>>})
      BY <2>1, <2>2 DEF FS
    <2> HIDE DEF c
    <2>4. c.dir[n] = f.dir[n]
      BY <2>3
    <2>5. c.dir = [f.dir EXCEPT ![n] = c.dir[n]]
      BY <1>0, <2>3, <2>4
    <2>6. c.data = [f.data EXCEPT ![c.dir[n]] = <<>>]
      BY <2>3, <2>4
    <2>7. c.dir[n] \in 1..Files
      BY <2>1, <2>4
    <2> QED BY <1>1, <2>3, <2>4, <2>5, <2>6, <2>7 DEF c
  <1>2. CASE ~Exists(f, n)
    <2> DEFINE U == Unused(f, open)
               i == CHOOSE i \in U : \A j \in U : i <= j
    <2>1. U # {} /\ U \subseteq Nat /\ U \subseteq 1..Files
      BY <1>2, FilesAssumption DEF Room, Unused
    <2>2. i \in U
      <3> HIDE DEF U
      <3>1. \E x \in U : \A y \in U : x <= y
        BY <2>1, LeastNat
      <3> QED BY <3>1
    <2>3. c = [f EXCEPT !.dir[n] = i]
      BY <1>2 DEF Creat
    <2> HIDE DEF i
    <2>4. i \in 1..Files /\ f.data[i] = <<>>
      BY <2>1, <2>2 DEF Clean
    <2>5. i \in 0..Files
      BY <2>4, FilesAssumption
    <2>6. c \in FS(V) /\ c.dir = [f.dir EXCEPT ![n] = i] /\ c.data = f.data
      <3> HIDE DEF c, U
      <3> QED BY <2>3, <2>5, Bound
    <2> HIDE DEF c, U
    <2>7. c.dir[n] = i /\ c.dir = [f.dir EXCEPT ![n] = c.dir[n]]
      BY <1>0, <2>6
    <2>8. c.data = [f.data EXCEPT ![i] = <<>>]
      BY <1>0, <2>4, <2>6
    <2>9. c \in FS(V \union {<<>>})
      BY <2>6, Grows
    <2> QED BY <1>2, <2>2, <2>4, <2>7, <2>8, <2>9 DEF c, U
  <1> QED BY <1>1, <1>2

-----------------------------------------------------------------------------
(* Lines *)

LEMMA IsSeqOf ==
    ASSUME NEW s, IsSeq(s)
    PROVE  \E S : s \in Seq(S)
  <1> DEFINE S == {s[i] : i \in 1..Len(s)}
  <1>1. Len(s) \in Nat /\ s = [i \in 1..Len(s) |-> s[i]]
    BY DEF IsSeq
  <1>2. s \in [1..Len(s) -> S]
    BY <1>1
  <1> HIDE DEF S
  <1>3. s \in Seq(S)
    BY <1>1, <1>2
  <1> QED BY <1>3

LEMMA SeqIs ==
    ASSUME NEW S, NEW s \in Seq(S)
    PROVE  IsSeq(s)
  BY DEF IsSeq

(* What a function that is defined by recursion keeps. *)
LEMMA Follows ==
    ASSUME NEW S, NEW N \in Nat, NEW h, h[0] \in S,
           \A i \in 1..N : h[i - 1] \in S => h[i] \in S
    PROVE  \A i \in 0..N : h[i] \in S
  <1> DEFINE T == {n \in Nat : n <= N => h[n] \in S}
  <1>1. 0 \in T
    OBVIOUS
  <1>2. ASSUME NEW n \in Nat, n \in T PROVE n + 1 \in T
    <2> SUFFICES ASSUME n + 1 <= N PROVE h[n + 1] \in S
      OBVIOUS
    <2>1. n + 1 \in 1..N /\ h[(n + 1) - 1] = h[n] /\ h[n] \in S
      BY <1>2
    <2> QED BY <2>1
  <1> HIDE DEF T
  <1>3. \A n \in Nat : n \in T
    BY <1>1, <1>2, Induction
  <1> QED BY <1>3 DEF T

\* The functions of the definition of Others.
OthersBy(s, f) ==
    f = [i \in 0..Len(s) |-> IF i = 0 THEN <<>> ELSE Keep(f[i - 1], s[i])]

LEMMA KeepType ==
    ASSUME NEW S, NEW l \in Seq(S), NEW x \in S
    PROVE  Keep(l, x) \in Seq(S)
  BY DEF Keep

LEMMA OthersFun ==
    ASSUME NEW S, NEW s \in Seq(S)
    PROVE  \E f : /\ OthersBy(s, f) /\ Others(s) = f[Len(s)]
                  /\ \A i \in 0..Len(s) : f[i] \in Seq(S)
  <1> DEFINE N == Len(s)
             G == [p \in Seq(S) \X (1..N) |->
                     Keep(p[1], s[p[2]])]
  <1>1. N \in Nat /\ \A i \in 1..N : s[i] \in S
    OBVIOUS
  <1>2. G \in [Seq(S) \X (1..N) -> Seq(S)]
    BY <1>1, KeepType
  <1>3. PICK f \in [0..N -> Seq(S)] : f[0] = <<>> /\ \A i \in 1..N : f[i] = G[<<f[i - 1], i>>]
    <2>1. Recurses(Seq(S), <<>>, N, G)
      <3> HIDE DEF G, N
      <3>1. <<>> \in Seq(S)
        OBVIOUS
      <3> QED BY <1>1, <1>2, <3>1, Recursive
    <2> QED BY <2>1 DEF Recurses
  <1>4. \A i \in 1..N : f[i] = Keep(f[i - 1], s[i])
    <2> SUFFICES ASSUME NEW i \in 1..N
                 PROVE f[i] = Keep(f[i - 1], s[i])
      OBVIOUS
    <2>0. i - 1 \in 0..N
      BY <1>1
    <2>2. f[i - 1] \in Seq(S)
      BY <1>3, <2>0
    <2>1. <<f[i - 1], i>> \in Seq(S) \X (1..N)
      BY <2>2
    <2> QED BY <1>3, <2>1
  <1>5. OthersBy(s, f)
    BY <1>1, <1>3, <1>4 DEF OthersBy
  <1> DEFINE h == CHOOSE g : OthersBy(s, g)
  <1>6. OthersBy(s, h)
    BY <1>5
  <1>7. Others(s) = h[N]
    BY DEF Others, OthersBy
  <1> HIDE DEF h
  <1>8. h[0] = <<>> /\ \A i \in 1..N : h[i] = Keep(h[i - 1], s[i])
    BY <1>1, <1>6 DEF OthersBy
  <1>9. \A i \in 0..N : h[i] \in Seq(S)
    <2>1. h[0] \in Seq(S)
      BY <1>8
    <2>2. \A i \in 1..N : h[i - 1] \in Seq(S) => h[i] \in Seq(S)
      BY <1>1, <1>8, KeepType
    <2> HIDE DEF N
    <2> QED BY <1>1, <2>1, <2>2, Follows
  <1> QED BY <1>6, <1>7, <1>9

LEMMA OthersNone == Others(<<>>) = <<>>
  <1>1. <<>> \in Seq({}) /\ Len(<<>>) = 0
    OBVIOUS
  <1>2. PICK f : OthersBy(<<>>, f) /\ Others(<<>>) = f[Len(<<>>)]
    BY <1>1, OthersFun
  <1> QED BY <1>1, <1>2 DEF OthersBy

(* One line more. *)
LEMMA OthersAppend ==
    ASSUME NEW S, NEW s \in Seq(S), NEW x \in S
    PROVE  /\ Others(s) \in Seq(S)
           /\ Others(Append(s, x)) = Keep(Others(s), x)
  <1> DEFINE t == Append(s, x)
             N == Len(s)
  <1>1. /\ t \in Seq(S) /\ N \in Nat /\ Len(t) = N + 1 /\ t[N + 1] = x
        /\ \A i \in 1..N : t[i] = s[i]
    OBVIOUS
  <1> HIDE DEF t
  <1>2. PICK f : OthersBy(s, f) /\ Others(s) = f[N] /\ \A i \in 0..N : f[i] \in Seq(S)
    BY OthersFun
  <1>3. PICK g : OthersBy(t, g) /\ Others(t) = g[N + 1]
    BY <1>1, OthersFun
  <1>4. f[0] = <<>> /\ \A i \in 1..N : f[i] = Keep(f[i - 1], s[i])
    BY <1>1, <1>2 DEF OthersBy
  <1>5. g[0] = <<>> /\ \A i \in 1..(N + 1) : g[i] = Keep(g[i - 1], t[i])
    BY <1>1, <1>3 DEF OthersBy
  <1> HIDE DEF N
  <1> DEFINE T == {n \in Nat : n <= N => g[n] = f[n]}
  <1>6. 0 \in T
    BY <1>4, <1>5
  <1>7. ASSUME NEW n \in Nat, n \in T PROVE n + 1 \in T
    <2> SUFFICES ASSUME n + 1 <= N PROVE g[n + 1] = f[n + 1]
      OBVIOUS
    <2>1. n + 1 \in 1..N /\ n + 1 \in 1..(N + 1) /\ (n + 1) - 1 = n
      BY <1>1
    <2>2. g[n] = f[n] /\ t[n + 1] = s[n + 1]
      BY <1>1, <1>7, <2>1
    <2>3. f[n + 1] = Keep(f[n], s[n + 1])
      BY <1>4, <2>1
    <2>4. g[n + 1] = Keep(g[n], t[n + 1])
      BY <1>5, <2>1
    <2> QED BY <2>2, <2>3, <2>4
  <1> HIDE DEF T
  <1>8. N \in T
    BY <1>1, <1>6, <1>7, Induction
  <1>9. g[N] = f[N]
    BY <1>1, <1>8 DEF T
  <1>10. N + 1 \in 1..(N + 1) /\ (N + 1) - 1 = N /\ N \in 0..N
    BY <1>1
  <1>11. g[N + 1] = Keep(g[N], x)
    BY <1>1, <1>5, <1>10
  <1> QED BY <1>2, <1>3, <1>9, <1>10, <1>11 DEF t

(* The line of a key has that key. *)
LEMMA CurrentKey ==
    ASSUME NEW g, NEW k \in KeySet
    PROVE  Current(g, k).key = k
  BY DEF Current, KeySet, Text

LEMMA HasAppend ==
    ASSUME NEW S, NEW s \in Seq(S), NEW x \in S
    PROVE  /\ HasLine(Append(s, x), x.key)
           /\ \A k : HasLine(s, k) => HasLine(Append(s, x), k)
  <1> DEFINE t == Append(s, x)
  <1>1. /\ DOMAIN t = 1..(Len(s) + 1) /\ DOMAIN s = 1..Len(s) /\ Len(s) \in Nat
        /\ t[Len(s) + 1] = x /\ \A i \in 1..Len(s) : t[i] = s[i]
    OBVIOUS
  <1> HIDE DEF t
  <1>2. HasLine(t, x.key)
    BY <1>1 DEF HasLine
  <1>3. ASSUME NEW k, HasLine(s, k) PROVE HasLine(t, k)
    BY <1>1, <1>3 DEF HasLine
  <1> QED BY <1>2, <1>3 DEF t

\* What CopyLine works on, with lines of T.
Accs(T) == [lines : Seq(T), done : SUBSET KeySet]
AllDone(acc) == \A k \in acc.done : HasLine(acc.lines, k)

LEMMA CopyLineFact ==
    ASSUME NEW T, NEW g, NEW acc \in Accs(T), NEW line \in T, \A k \in KeySet : Current(g, k) \in T,
           AllDone(acc)
    PROVE  /\ CopyLine(g, acc, line) \in Accs(T)
           /\ AllDone(CopyLine(g, acc, line))
           /\ Others(CopyLine(g, acc, line).lines) = Keep(Others(acc.lines), line)
  <1> DEFINE new == CopyLine(g, acc, line)
             c == Current(g, line.key)
  <1>1. acc.lines \in Seq(T) /\ acc.done \in SUBSET KeySet
    BY DEF Accs
  <1>2. CASE Recognised(line, acc.done)
    <2>1. line.key \in KeySet /\ c \in T /\ c.key = line.key
      BY <1>2, CurrentKey DEF Recognised
    <2>2. new = [lines |-> Append(acc.lines, c), done |-> acc.done \union {line.key}]
      BY <1>2 DEF CopyLine
    <2> HIDE DEF c, new
    <2>3. new.lines = Append(acc.lines, c) /\ new.done = acc.done \union {line.key}
      BY <2>2
    <2>4. Append(acc.lines, c) \in Seq(T)
      BY <1>1, <2>1
    <2>5. new \in Accs(T)
      BY <1>1, <2>1, <2>2, <2>4 DEF Accs
    <2>6. Others(new.lines) = Keep(Others(acc.lines), c)
      BY <1>1, <2>1, <2>3, OthersAppend
    <2>7. Keep(Others(acc.lines), c) = Keep(Others(acc.lines), line)
      BY <2>1 DEF Keep
    <2>8. /\ HasLine(new.lines, line.key)
          /\ \A k : HasLine(acc.lines, k) => HasLine(new.lines, k)
      BY <1>1, <2>1, <2>3, HasAppend
    <2>9. AllDone(new)
      BY <2>3, <2>8 DEF AllDone
    <2> QED BY <2>5, <2>6, <2>7, <2>9 DEF new
  <1>3. CASE ~Recognised(line, acc.done)
    <2>1. new = [acc EXCEPT !.lines = Append(@, line)]
      BY <1>3 DEF CopyLine
    <2> HIDE DEF new
    <2>2. Append(acc.lines, line) \in Seq(T)
      BY <1>1
    <2>3. new \in Accs(T) /\ new.lines = Append(acc.lines, line) /\ new.done = acc.done
      BY <2>1, <2>2 DEF Accs
    <2>4. Others(new.lines) = Keep(Others(acc.lines), line)
      BY <1>1, <2>3, OthersAppend
    <2>5. \A k : HasLine(acc.lines, k) => HasLine(new.lines, k)
      BY <1>1, <2>3, HasAppend
    <2>6. AllDone(new)
      BY <2>3, <2>5 DEF AllDone
    <2> QED BY <2>3, <2>4, <2>6 DEF new
  <1> QED BY <1>2, <1>3

\* The functions of the definition of Copied.
CopiedBy(g, s, f) ==
    f = [i \in 0..Len(s) |-> IF i = 0 THEN [lines |-> <<>>, done |-> {}]
                             ELSE CopyLine(g, f[i - 1], s[i])]

(* The copy has the old lines but those that are renewed, and a line for   *)
(* each key that is done.                                                  *)
LEMMA CopiedFact ==
    ASSUME NEW S, NEW s \in Seq(S), NEW g
    PROVE  \E T : /\ Copied(g, s) \in Accs(T) /\ AllDone(Copied(g, s))
                  /\ Others(Copied(g, s).lines) = Others(s)
                  /\ \A k \in KeySet : Current(g, k) \in T
  <1> DEFINE T == S \union {Current(g, k) : k \in KeySet}
             N == Len(s)
             A == {acc \in Accs(T) : AllDone(acc)}
             none == [lines |-> <<>>, done |-> {}]
             G == [p \in A \X (1..N) |-> CopyLine(g, p[1], s[p[2]])]
  <1>1. N \in Nat /\ \A i \in 1..N : s[i] \in T
    OBVIOUS
  <1>2. \A k \in KeySet : Current(g, k) \in T
    OBVIOUS
  <1> HIDE DEF T
  <1>3. none \in A
    <2>1. none \in Accs(T)
      BY DEF Accs
    <2>2. AllDone(none)
      BY DEF AllDone
    <2> QED BY <2>1, <2>2
  <1>4. ASSUME NEW acc \in A, NEW i \in 1..N
        PROVE  CopyLine(g, acc, s[i]) \in A
    BY <1>1, <1>2, CopyLineFact
  <1> HIDE DEF A, none
  <1>5. G \in [A \X (1..N) -> A]
    BY <1>4
  <1>6. PICK f \in [0..N -> A] : f[0] = none /\ \A i \in 1..N : f[i] = G[<<f[i - 1], i>>]
    <2>1. Recurses(A, none, N, G)
      <3> HIDE DEF G, N
      <3> QED BY <1>1, <1>3, <1>5, Recursive
    <2> QED BY <2>1 DEF Recurses
  <1>7. \A i \in 1..N : f[i] = CopyLine(g, f[i - 1], s[i])
    <2> SUFFICES ASSUME NEW i \in 1..N PROVE f[i] = CopyLine(g, f[i - 1], s[i])
      OBVIOUS
    <2>1. i - 1 \in 0..N
      BY <1>1
    <2>2. f[i - 1] \in A
      BY <1>6, <2>1
    <2>3. <<f[i - 1], i>> \in A \X (1..N)
      BY <2>2
    <2> QED BY <1>6, <2>3
  <1>8. CopiedBy(g, s, f)
    BY <1>1, <1>6, <1>7 DEF CopiedBy, none
  <1> DEFINE h == CHOOSE c : CopiedBy(g, s, c)
  <1>9. CopiedBy(g, s, h)
    BY <1>8
  <1>10. Copied(g, s) = h[N]
    BY DEF Copied, CopiedBy
  <1> HIDE DEF h
  <1>11. h[0] = none /\ \A i \in 1..N : h[i] = CopyLine(g, h[i - 1], s[i])
    <2>1. h = [i \in 0..N |-> IF i = 0 THEN none ELSE CopyLine(g, h[i - 1], s[i])]
      BY <1>9, Zenon DEF CopiedBy, none
    <2> HIDE DEF N
    <2> QED BY <1>1, <2>1
  <1>12. \A i \in 0..N : h[i] \in A
    <2>1. h[0] \in A
      BY <1>3, <1>11
    <2>2. \A i \in 1..N : h[i - 1] \in A => h[i] \in A
      BY <1>4, <1>11
    <2> HIDE DEF N
    <2> QED BY <1>1, <2>1, <2>2, Follows
  <1>13. PICK o : OthersBy(s, o) /\ Others(s) = o[N]
    BY OthersFun
  <1>14. o[0] = <<>> /\ \A i \in 1..N : o[i] = Keep(o[i - 1], s[i])
    <2>1. o = [i \in 0..N |-> IF i = 0 THEN <<>> ELSE Keep(o[i - 1], s[i])]
      BY <1>13, Zenon DEF OthersBy
    <2> HIDE DEF N
    <2> QED BY <1>1, <2>1
  <1> DEFINE U == {n \in Nat : n <= N => Others(h[n].lines) = o[n]}
  <1>15. 0 \in U
    <2>1. h[0].lines = <<>>
      BY <1>11 DEF none
    <2>2. Others(h[0].lines) = o[0]
      BY <1>14, <2>1, OthersNone, Zenon
    <2> HIDE DEF N, h
    <2> QED BY <2>2, Zenon
  <1>16. ASSUME NEW n \in Nat, n \in U PROVE n + 1 \in U
    <2> SUFFICES ASSUME n + 1 <= N PROVE Others(h[n + 1].lines) = o[n + 1]
      OBVIOUS
    <2>1. n + 1 \in 1..N /\ (n + 1) - 1 = n /\ n \in 0..N
      BY <1>1
    <2>2. h[n + 1] = CopyLine(g, h[n], s[n + 1]) /\ o[n + 1] = Keep(o[n], s[n + 1])
      BY <1>11, <1>14, <2>1
    <2>3. h[n] \in Accs(T) /\ AllDone(h[n]) /\ s[n + 1] \in T
      BY <1>1, <1>12, <2>1 DEF A
    <2>4. Others(CopyLine(g, h[n], s[n + 1]).lines) = Keep(Others(h[n].lines), s[n + 1])
      BY <1>2, <2>3, CopyLineFact
    <2>5. Others(h[n].lines) = o[n]
      BY <1>1, <1>16, <2>1
    <2> QED BY <2>2, <2>4, <2>5, Zenon
  <1> HIDE DEF U
  <1>17. N \in U
    BY <1>1, <1>15, <1>16, Induction
  <1>18. Others(h[N].lines) = o[N]
    BY <1>1, <1>17 DEF U
  <1>19. h[N] \in Accs(T) /\ AllDone(h[N])
    <2>1. N \in 0..N
      BY <1>1
    <2> QED BY <1>12, <2>1 DEF A
  <1> QED BY <1>2, <1>10, <1>13, <1>18, <1>19

LEMMA AddUnlessFact ==
    ASSUME NEW T, NEW g, NEW lines \in Seq(T), NEW done, NEW key \in KeySet,
           Current(g, key) \in T, key \in done => HasLine(lines, key)
    PROVE  /\ AddUnless(g, lines, done, key) \in Seq(T)
           /\ Others(AddUnless(g, lines, done, key)) = Others(lines)
           /\ HasLine(AddUnless(g, lines, done, key), key)
           /\ \A k : HasLine(lines, k) => HasLine(AddUnless(g, lines, done, key), k)
  <1> DEFINE c == Current(g, key)
             t == Append(lines, c)
  <1>1. CASE key \in done
    BY <1>1 DEF AddUnless
  <1>2. CASE key \notin done
    <2>1. AddUnless(g, lines, done, key) = t
      BY <1>2 DEF AddUnless
    <2>2. c \in T /\ c.key = key
      BY CurrentKey
    <2> HIDE DEF c
    <2>3. t \in Seq(T) /\ Others(t) = Keep(Others(lines), c)
      BY <2>2, OthersAppend
    <2>4. Others(t) = Others(lines)
      BY <2>2, <2>3 DEF Keep
    <2>5. HasLine(t, key) /\ \A k : HasLine(lines, k) => HasLine(t, k)
      BY <2>2, HasAppend
    <2> HIDE DEF t
    <2> QED BY <2>1, <2>3, <2>4, <2>5
  <1> QED BY <1>1, <1>2

(* The lines of a new defaults file: all keys, and what was there. *)
LEMMA CompleteFact ==
    ASSUME NEW g, NEW old, IsSeq(old)
    PROVE  /\ IsSeq(Complete(g, Copied(g, old)))
           /\ \A k \in KeySet : HasLine(Complete(g, Copied(g, old)), k)
           /\ Others(Complete(g, Copied(g, old))) = Others(old)
  <1>1. PICK S : old \in Seq(S)
    BY IsSeqOf
  <1>2. PICK T : /\ Copied(g, old) \in Accs(T) /\ AllDone(Copied(g, old))
                 /\ Others(Copied(g, old).lines) = Others(old)
                 /\ \A k \in KeySet : Current(g, k) \in T
    BY <1>1, CopiedFact
  <1> DEFINE got == Copied(g, old)
             a == AddUnless(g, got.lines, got.done, "GROUP")
             b == AddUnless(g, a, got.done, "HOME")
             c == AddUnless(g, b, got.done, "SHELL")
             d == AddUnless(g, c, got.done, "SKEL")
             e == AddUnless(g, d, got.done, "CREATE_MAIL_SPOOL")
  <1>3. Complete(g, got) = e
    BY DEF Complete
  <1> HIDE DEF got
  <1>4. /\ got.lines \in Seq(T) /\ Others(got.lines) = Others(old)
        /\ \A k : k \in got.done => HasLine(got.lines, k)
    BY <1>2 DEF Accs, AllDone, got
  <1> DEFINE Kept(l) == \A k : k \in got.done => HasLine(l, k)
             Grown(l, m) == \A k : HasLine(l, k) => HasLine(m, k)
  <1>5. a \in Seq(T) /\ Others(a) = Others(old) /\ HasLine(a, "GROUP") /\ Kept(a)
    BY <1>2, <1>4, AddUnlessFact DEF KeySet
  <1> HIDE DEF a
  <1>6. b \in Seq(T) /\ Others(b) = Others(old) /\ HasLine(b, "HOME") /\ Kept(b) /\ Grown(a, b)
    BY <1>2, <1>5, AddUnlessFact DEF KeySet
  <1> HIDE DEF b
  <1>7. c \in Seq(T) /\ Others(c) = Others(old) /\ HasLine(c, "SHELL") /\ Kept(c) /\ Grown(b, c)
    BY <1>2, <1>6, AddUnlessFact DEF KeySet
  <1> HIDE DEF c
  <1>8. d \in Seq(T) /\ Others(d) = Others(old) /\ HasLine(d, "SKEL") /\ Kept(d) /\ Grown(c, d)
    BY <1>2, <1>7, AddUnlessFact DEF KeySet
  <1> HIDE DEF d
  <1>9. e \in Seq(T) /\ Others(e) = Others(old) /\ HasLine(e, "CREATE_MAIL_SPOOL") /\ Grown(d, e)
    BY <1>2, <1>8, AddUnlessFact DEF KeySet
  <1> HIDE DEF e
  <1>10. \A k \in KeySet : HasLine(e, k)
    BY <1>5, <1>6, <1>7, <1>8, <1>9 DEF KeySet
  <1>11. IsSeq(e)
    BY <1>9, SeqIs
  <1> QED BY <1>3, <1>9, <1>10, <1>11 DEF got

-----------------------------------------------------------------------------
(* The command line *)

LEMMA Sets ==
    ASSUME NEW V, NEW g \in GSet(V), NEW v \in V
    PROVE  /\ [g EXCEPT !.group = v] \in GSet(V) /\ [g EXCEPT !.base = v] \in GSet(V)
           /\ [g EXCEPT !.defshell = v] \in GSet(V) /\ [g EXCEPT !.skel = v] \in GSet(V)
           /\ [g EXCEPT !.spool = v] \in GSet(V) /\ [g EXCEPT !.uid = v] \in GSet(V)
           /\ [g EXCEPT !.gid = v] \in GSet(V) /\ [g EXCEPT !.home = v] \in GSet(V)
           /\ [g EXCEPT !.groups = v] \in GSet(V) /\ [g EXCEPT !.exit = v] \in GSet(V)
           /\ [g EXCEPT !.flags = @ \union {v}] \in GSet(V)
  <1>1. /\ [g EXCEPT !.group = v] \in GSet(V) /\ [g EXCEPT !.base = v] \in GSet(V)
        /\ [g EXCEPT !.defshell = v] \in GSet(V) /\ [g EXCEPT !.skel = v] \in GSet(V)
    BY DEF GSet
  <1>2. /\ [g EXCEPT !.spool = v] \in GSet(V) /\ [g EXCEPT !.uid = v] \in GSet(V)
        /\ [g EXCEPT !.gid = v] \in GSet(V) /\ [g EXCEPT !.home = v] \in GSet(V)
    BY DEF GSet
  <1>3. [g EXCEPT !.groups = v] \in GSet(V) /\ [g EXCEPT !.exit = v] \in GSet(V)
    BY DEF GSet
  <1>4. [g EXCEPT !.flags = @ \union {v}] \in GSet(V)
    <2>1. g.flags \union {v} \in SUBSET V
      BY DEF GSet
    <2> QED BY <2>1 DEF GSet
  <1> QED BY <1>1, <1>2, <1>3, <1>4

LineVals(line, table) == {line.v, SKEL_DIR, "no", getgr_nam_gid(table, line)[1].id}
OptVals(o, table) == {o.o, o.a, getgr_nam_gid(table, o.a)[1].id, get_groups(o.a, table).names,
                      E_BAD_ARG, E_USAGE, E_SUCCESS, E_NOTFOUND}

LEMMA DefaultLineType ==
    ASSUME NEW V, NEW g \in GSet(V), NEW line, NEW table, LineVals(line, table) \subseteq V
    PROVE  DefaultLine(g, line, table) \in GSet(V)
  <1> DEFINE found == getgr_nam_gid(table, line)
             id == found[1].id
             skel == IF line.v = None THEN SKEL_DIR ELSE line.v
             spool == IF line.v = None THEN "no" ELSE line.v
  <1>1. id \in V /\ line.v \in V /\ skel \in V /\ spool \in V
    BY DEF LineVals
  <1>2. \/ DefaultLine(g, line, table) = g
        \/ DefaultLine(g, line, table) = [g EXCEPT !.group = id]
        \/ DefaultLine(g, line, table) = [g EXCEPT !.base = line.v]
        \/ DefaultLine(g, line, table) = [g EXCEPT !.defshell = line.v]
        \/ DefaultLine(g, line, table) = [g EXCEPT !.skel = skel]
        \/ DefaultLine(g, line, table) = [g EXCEPT !.spool = spool]
    BY DEF DefaultLine
  <1> HIDE DEF id, skel, spool
  <1>3. [g EXCEPT !.group = id] \in GSet(V)
    BY <1>1, Sets
  <1>4. [g EXCEPT !.base = line.v] \in GSet(V)
    BY <1>1, Sets
  <1>5. [g EXCEPT !.defshell = line.v] \in GSet(V)
    BY <1>1, Sets
  <1>6. [g EXCEPT !.skel = skel] \in GSet(V)
    BY <1>1, Sets
  <1>7. [g EXCEPT !.spool = spool] \in GSet(V)
    BY <1>1, Sets
  <1> QED BY <1>2, <1>3, <1>4, <1>5, <1>6, <1>7, Zenon

LEMMA OptionType ==
    ASSUME NEW V, NEW g \in GSet(V), NEW o, NEW table, OptVals(o, table) \subseteq V
    PROVE  Option(g, o, table) \in GSet(V)
  <1> DEFINE found == getgr_nam_gid(table, o.a)
             id == found[1].id
             names == get_groups(o.a, table).names
             after == OptionSets(g, o, table)
  <1>1. /\ id \in V /\ o.o \in V /\ o.a \in V /\ names \in V
        /\ E_BAD_ARG \in V /\ E_USAGE \in V /\ E_SUCCESS \in V /\ E_NOTFOUND \in V
    BY DEF OptVals
  <1>2. \/ PrimaryGroup(g, o.a, table) = [g EXCEPT !.exit = E_NOTFOUND]
        \/ PrimaryGroup(g, o.a, table) = [g EXCEPT !.group = id]
        \/ PrimaryGroup(g, o.a, table) = [g EXCEPT !.gid = id]
    BY DEF PrimaryGroup, Leaves
  <1>3. \/ SecondaryGroups(g, o.a, table) = g
        \/ SecondaryGroups(g, o.a, table) = [g EXCEPT !.exit = E_NOTFOUND]
        \/ SecondaryGroups(g, o.a, table) = [g EXCEPT !.groups = names]
    BY DEF SecondaryGroups, Leaves
  <1>4. PrimaryGroup(g, o.a, table) \in GSet(V) /\ SecondaryGroups(g, o.a, table) \in GSet(V)
    <2> HIDE DEF id, names
    <2>1. [g EXCEPT !.exit = E_NOTFOUND] \in GSet(V)
      BY <1>1, Sets
    <2>2. [g EXCEPT !.group = id] \in GSet(V)
      BY <1>1, Sets
    <2>3. [g EXCEPT !.gid = id] \in GSet(V)
      BY <1>1, Sets
    <2>4. [g EXCEPT !.groups = names] \in GSet(V)
      BY <1>1, Sets
    <2> QED BY <1>2, <1>3, <2>1, <2>2, <2>3, <2>4, Zenon
  <1>5. \/ TakeArgument(g, o) = g
        \/ TakeArgument(g, o) = [g EXCEPT !.base = o.a]
        \/ TakeArgument(g, o) = [g EXCEPT !.home = o.a]
        \/ TakeArgument(g, o) = [g EXCEPT !.skel = o.a]
        \/ TakeArgument(g, o) = [g EXCEPT !.shell = o.a, !.defshell = o.a]
        \/ TakeArgument(g, o) = [g EXCEPT !.uid = o.a]
    BY DEF TakeArgument
  <1>6. [g EXCEPT !.shell = o.a, !.defshell = o.a] \in GSet(V)
    BY <1>1 DEF GSet
  <1> HIDE DEF after, id, names, found
  <1>7. TakeArgument(g, o) \in GSet(V)
    <2>1. [g EXCEPT !.base = o.a] \in GSet(V)
      BY <1>1, Sets
    <2>2. [g EXCEPT !.home = o.a] \in GSet(V)
      BY <1>1, Sets
    <2>3. [g EXCEPT !.skel = o.a] \in GSet(V)
      BY <1>1, Sets
    <2>4. [g EXCEPT !.uid = o.a] \in GSet(V)
      BY <1>1, Sets
    <2> QED BY <1>5, <1>6, <2>1, <2>2, <2>3, <2>4, Zenon
  <1>8. \/ after = [g EXCEPT !.exit = E_BAD_ARG] \/ after = [g EXCEPT !.exit = E_USAGE]
        \/ after = [g EXCEPT !.exit = E_SUCCESS] \/ after = TakeArgument(g, o)
        \/ after = PrimaryGroup(g, o.a, table) \/ after = SecondaryGroups(g, o.a, table)
    BY DEF OptionSets, Leaves, after
  <1>9. after \in GSet(V)
    <2>1. [g EXCEPT !.exit = E_BAD_ARG] \in GSet(V)
      BY <1>1, Sets
    <2>2. [g EXCEPT !.exit = E_USAGE] \in GSet(V)
      BY <1>1, Sets
    <2>3. [g EXCEPT !.exit = E_SUCCESS] \in GSet(V)
      BY <1>1, Sets
    <2> QED BY <1>4, <1>7, <1>8, <2>1, <2>2, <2>3, Zenon
  <1>10. [after EXCEPT !.flags = @ \union {o.o}] \in GSet(V)
    BY <1>1, <1>9, Sets
  <1> QED BY <1>9, <1>10 DEF Option, after

FirstVals == {100, "/home", "/bin/sh", SKEL_DIR, "no", None, 0, <<>>, GoesOn}

LEMMA GlobalsType == Globals \in GSet(FirstVals)
  <1> HIDE DEF None, SKEL_DIR, GoesOn
  <1> QED BY DEF Globals, GSet, FirstVals

\* The functions of the definition of get_defaults.
DefaultsBy(s, table, f) ==
    f = [i \in 0..Len(s) |-> IF i = 0 THEN Globals ELSE DefaultLine(f[i - 1], s[i], table)]

LEMMA DefaultsType ==
    ASSUME NEW s, IsSeq(s), NEW table
    PROVE  \E W : get_defaults(s, table) \in GSet(W)
  <1> DEFINE N == Len(s)
             W == FirstVals \union UNION {LineVals(s[i], table) : i \in 1..N}
             A == GSet(W)
             G == [p \in A \X (1..N) |-> DefaultLine(p[1], s[p[2]], table)]
  <1>1. N \in Nat /\ \A i \in 1..N : LineVals(s[i], table) \subseteq W
    BY DEF IsSeq
  <1>3. Globals \in A
    <2>1. Globals \in GSet(FirstVals) /\ FirstVals \subseteq W
      BY GlobalsType
    <2> QED BY <2>1, Grows
  <1> HIDE DEF W
  <1>4. ASSUME NEW a \in A, NEW i \in 1..N
        PROVE  DefaultLine(a, s[i], table) \in A
    BY <1>1, DefaultLineType
  <1> HIDE DEF A
  <1>5. G \in [A \X (1..N) -> A]
    BY <1>4
  <1>6. PICK f \in [0..N -> A] : f[0] = Globals /\ \A i \in 1..N : f[i] = G[<<f[i - 1], i>>]
    <2>1. Recurses(A, Globals, N, G)
      <3> HIDE DEF G, N
      <3> QED BY <1>1, <1>3, <1>5, Recursive
    <2> QED BY <2>1 DEF Recurses
  <1>7. \A i \in 1..N : f[i] = DefaultLine(f[i - 1], s[i], table)
    <2> SUFFICES ASSUME NEW i \in 1..N PROVE f[i] = DefaultLine(f[i - 1], s[i], table)
      OBVIOUS
    <2>1. i - 1 \in 0..N
      BY <1>1
    <2>2. f[i - 1] \in A
      BY <1>6, <2>1
    <2>3. <<f[i - 1], i>> \in A \X (1..N)
      BY <2>2
    <2> QED BY <1>6, <2>3
  <1>8. DefaultsBy(s, table, f)
    BY <1>1, <1>6, <1>7 DEF DefaultsBy
  <1> DEFINE h == CHOOSE c : DefaultsBy(s, table, c)
  <1>9. DefaultsBy(s, table, h)
    BY <1>8
  <1>10. get_defaults(s, table) = h[N]
    BY DEF get_defaults, DefaultsBy
  <1> HIDE DEF h
  <1>11. h[0] = Globals /\ \A i \in 1..N : h[i] = DefaultLine(h[i - 1], s[i], table)
    BY <1>1, <1>9 DEF DefaultsBy
  <1>12. \A i \in 0..N : h[i] \in A
    <2>1. h[0] \in A
      BY <1>3, <1>11
    <2>2. \A i \in 1..N : h[i - 1] \in A => h[i] \in A
      BY <1>4, <1>11
    <2> HIDE DEF N
    <2> QED BY <1>1, <2>1, <2>2, Follows
  <1>13. N \in 0..N
    BY <1>1
  <1> QED BY <1>10, <1>12, <1>13 DEF A


\* The functions of the definition of getopt.
OptionsBy(g, s, table, f) ==
    f = [i \in 0..Len(s) |-> IF i = 0 THEN g ELSE Option(f[i - 1], s[i], table)]

LEMMA OptionsType ==
    ASSUME NEW V, NEW g \in GSet(V), NEW s, IsSeq(s), NEW table
    PROVE  \E W : getopt(g, s, table) \in GSet(W)
  <1> DEFINE N == Len(s)
             W == V \union UNION {OptVals(s[i], table) : i \in 1..N}
             A == GSet(W)
             G == [p \in A \X (1..N) |-> Option(p[1], s[p[2]], table)]
  <1>1. N \in Nat /\ \A i \in 1..N : OptVals(s[i], table) \subseteq W
    BY DEF IsSeq
  <1>3. g \in A
    <2>1. V \subseteq W
      OBVIOUS
    <2> QED BY <2>1, Grows
  <1> HIDE DEF W
  <1>4. ASSUME NEW a \in A, NEW i \in 1..N
        PROVE  Option(a, s[i], table) \in A
    BY <1>1, OptionType
  <1> HIDE DEF A
  <1>5. G \in [A \X (1..N) -> A]
    BY <1>4
  <1>6. PICK f \in [0..N -> A] : f[0] = g /\ \A i \in 1..N : f[i] = G[<<f[i - 1], i>>]
    <2>1. Recurses(A, g, N, G)
      <3> HIDE DEF G, N
      <3> QED BY <1>1, <1>3, <1>5, Recursive
    <2> QED BY <2>1 DEF Recurses
  <1>7. \A i \in 1..N : f[i] = Option(f[i - 1], s[i], table)
    <2> SUFFICES ASSUME NEW i \in 1..N PROVE f[i] = Option(f[i - 1], s[i], table)
      OBVIOUS
    <2>1. i - 1 \in 0..N
      BY <1>1
    <2>2. f[i - 1] \in A
      BY <1>6, <2>1
    <2>3. <<f[i - 1], i>> \in A \X (1..N)
      BY <2>2
    <2> QED BY <1>6, <2>3
  <1>8. OptionsBy(g, s, table, f)
    BY <1>1, <1>6, <1>7 DEF OptionsBy
  <1> DEFINE h == CHOOSE c : OptionsBy(g, s, table, c)
  <1>9. OptionsBy(g, s, table, h)
    BY <1>8
  <1>10. getopt(g, s, table) = h[N]
    BY DEF getopt, OptionsBy
  <1> HIDE DEF h
  <1>11. h[0] = g /\ \A i \in 1..N : h[i] = Option(h[i - 1], s[i], table)
    BY <1>1, <1>9 DEF OptionsBy
  <1>12. \A i \in 0..N : h[i] \in A
    <2>1. h[0] \in A
      BY <1>3, <1>11
    <2>2. \A i \in 1..N : h[i - 1] \in A => h[i] \in A
      BY <1>4, <1>11
    <2> HIDE DEF N
    <2> QED BY <1>1, <2>1, <2>2, Follows
  <1>13. N \in 0..N
    BY <1>1
  <1> QED BY <1>10, <1>12, <1>13 DEF A


LEMMA SettleType ==
    ASSUME NEW V, NEW g \in GSet(V), NEW args
    PROVE  \E W : Settle(g, args) \in GSet(W)
  <1> DEFINE flags == IF WantsGroup(g) THEN g.flags \union {"U"} ELSE g.flags
             name == IF "D" \in flags THEN None ELSE args[1]
             home1 == IF "d" \in flags \/ "D" \in flags THEN g.home ELSE <<g.base, name>>
             gid1 == IF "g" \in flags THEN g.gid ELSE g.group
             shell1 == IF "s" \in flags THEN g.shell ELSE g.defshell
             flags1 == HomeFlag(flags)
             W == V \union {"U", "m", name, home1, gid1, shell1, E_USAGE}
             settled == [g EXCEPT !.name = name, !.home = home1, !.gid = gid1, !.shell = shell1,
                                  !.flags = flags1]
  <1>1. g \in GSet(W)
    <2>1. V \subseteq W
      OBVIOUS
    <2> QED BY <2>1, Grows
  <1>2. flags \subseteq W
    <2>1. g.flags \subseteq V
      BY DEF GSet
    <2> QED BY <2>1
  <1> HIDE DEF flags
  <1>3. flags1 \subseteq W
    BY <1>2 DEF HomeFlag
  <1>4. name \in W /\ home1 \in W /\ gid1 \in W /\ shell1 \in W /\ E_USAGE \in W
    OBVIOUS
  <1>5. \/ Settle(g, args) = g
        \/ Settle(g, args) = [g EXCEPT !.exit = E_USAGE]
        \/ Settle(g, args) = settled
    BY DEF Settle, Leaves, flags
  <1> HIDE DEF name, home1, gid1, shell1, flags1, W
  <1>6. [g EXCEPT !.exit = E_USAGE] \in GSet(W)
    BY <1>1, <1>4, Sets
  <1>7. settled \in GSet(W)
    BY <1>1, <1>3, <1>4 DEF GSet
  <1> HIDE DEF settled
  <1> QED BY <1>1, <1>5, <1>6, <1>7, Zenon

(* What process_flags makes of a command line has all the globals. *)
LEMMA FlagsType ==
    ASSUME NEW cmd, IsSeq(cmd.opts), NEW lines, IsSeq(lines), NEW table
    PROVE  \E W : process_flags(cmd, lines, table) \in GSet(W)
  <1>1. PICK V : get_defaults(lines, table) \in GSet(V)
    BY DefaultsType
  <1>2. PICK W : getopt(get_defaults(lines, table), cmd.opts, table) \in GSet(W)
    BY <1>1, OptionsType
  <1> QED BY <1>2, SettleType DEF process_flags

-----------------------------------------------------------------------------
(* What the actions do to the variables of an invocation *)

LEMMA RowSets ==
    ASSUME NEW V, NEW x \in RSet(V), NEW v \in V
    PROVE  /\ \A i \in 0..Files : [x EXCEPT !.fd = i] \in RSet(V)
           /\ \A g \in GSet(V) : [x EXCEPT !.g = g] \in RSet(V)
           /\ \A t \in Tables : [x EXCEPT !.tab = t] \in RSet(V)
           /\ \A t \in {"done", "usr", "groups", "scan"} : [x EXCEPT !.then = t] \in RSet(V)
           /\ [x EXCEPT !.added = TRUE] \in RSet(V)
           /\ \A b \in BOOLEAN : [x EXCEPT !.unread = b] \in RSet(V)
           /\ [x EXCEPT !.e = v] \in RSet(V) /\ [x EXCEPT !.stream = v] \in RSet(V)
           /\ [x EXCEPT !.buf = v] \in RSet(V) /\ [x EXCEPT !.new_file = v] \in RSet(V)
           /\ [x EXCEPT !.uid = v] \in RSet(V) /\ [x EXCEPT !.gid = v] \in RSet(V)
           /\ [x EXCEPT !.copied = v] \in RSet(V) /\ [x EXCEPT !.short = v] \in RSet(V)
           /\ [x EXCEPT !.alone = v] \in RSet(V) /\ [x EXCEPT !.failed = v] \in RSet(V)
  <1> HIDE DEF GSet
  <1>1. /\ \A i \in 0..Files : [x EXCEPT !.fd = i] \in RSet(V)
        /\ \A g \in GSet(V) : [x EXCEPT !.g = g] \in RSet(V)
    BY DEF RSet
  <1>2. /\ \A t \in Tables : [x EXCEPT !.tab = t] \in RSet(V)
        /\ \A t \in {"done", "usr", "groups", "scan"} : [x EXCEPT !.then = t] \in RSet(V)
    BY DEF RSet
  <1>3. /\ [x EXCEPT !.added = TRUE] \in RSet(V)
        /\ \A b \in BOOLEAN : [x EXCEPT !.unread = b] \in RSet(V)
    BY DEF RSet
  <1>4. /\ [x EXCEPT !.e = v] \in RSet(V) /\ [x EXCEPT !.stream = v] \in RSet(V)
        /\ [x EXCEPT !.buf = v] \in RSet(V) /\ [x EXCEPT !.new_file = v] \in RSet(V)
    BY DEF RSet
  <1>5. /\ [x EXCEPT !.uid = v] \in RSet(V) /\ [x EXCEPT !.gid = v] \in RSet(V)
        /\ [x EXCEPT !.copied = v] \in RSet(V) /\ [x EXCEPT !.short = v] \in RSet(V)
        /\ [x EXCEPT !.alone = v] \in RSet(V) /\ [x EXCEPT !.failed = v] \in RSet(V)
    BY DEF RSet
  <1> QED BY <1>1, <1>2, <1>3, <1>4, <1>5

\* What the invariants know of an invocation does not change.
EtcSame(p)  == /\ r'[p].fd = r[p].fd /\ r'[p].new_file = r[p].new_file
               /\ r'[p].buf = r[p].buf
HomeSame(p) == /\ r'[p].added = r[p].added /\ r'[p].copied = r[p].copied
               /\ r'[p].failed = r[p].failed
               /\ r'[p].uid = r[p].uid /\ r'[p].gid = r[p].gid
               /\ r'[p].g.home = r[p].g.home /\ r'[p].g.skel = r[p].g.skel
Like(p) == /\ EtcSame(p) /\ HomeSame(p)
           /\ r'[p].then = r[p].then /\ r'[p].g.exit = r[p].g.exit
           /\ r'[p].unread = r[p].unread
RowsTyped(V) == r \in [Procs -> RSet(V)]
\* Nothing of the others changes, and p does not forget what it has not read.
OthersLike(p) == /\ \A q \in Procs \ {p} : Like(q)
                 /\ r[p].unread => r'[p].unread

LEMMA RowSet ==
    ASSUME NEW V, NEW W, V \subseteq W, RowsTyped(V), NEW p \in Procs, NEW x \in RSet(W),
           r' = [r EXCEPT ![p] = x], r[p].unread => r'[p].unread
    PROVE  RowsTyped(W)' /\ r'[p] = x /\ OthersLike(p)
  <1>1. r \in [Procs -> RSet(W)]
    <2>1. RSet(V) \subseteq RSet(W)
      BY Grows
    <2> QED BY <2>1 DEF RowsTyped
  <1>2. r' \in [Procs -> RSet(W)]
    BY <1>1
  <1>3. r'[p] = x /\ \A q \in Procs \ {p} : r'[q] = r[q]
    BY <1>1
  <1> QED BY <1>2, <1>3 DEF RowsTyped, OthersLike, Like, EtcSame, HomeSame

LEMMA RowIn ==
    ASSUME NEW V, NEW W, V \subseteq W, RowsTyped(V), NEW p \in Procs
    PROVE  r[p] \in RSet(W) /\ r[p].g \in GSet(W)
  <1>1. r[p] \in RSet(V)
    BY DEF RowsTyped
  <1>2. r[p] \in RSet(W)
    BY <1>1, Grows
  <1> HIDE DEF GSet
  <1>3. r[p].g \in GSet(W)
    BY <1>2 DEF RSet
  <1> QED BY <1>2, <1>3

(* The invocation ends with a status, or goes on with another file. *)
LEMMA ExitFx ==
    ASSUME NEW V, RowsTyped(V), NEW p \in Procs, NEW s,
           r' = [r EXCEPT ![p].g.exit = s]
    PROVE  /\ \E W : RowsTyped(W)'
           /\ OthersLike(p) /\ EtcSame(p) /\ HomeSame(p) /\ r'[p].then = r[p].then
           /\ r'[p].g.exit = s
  <1> DEFINE W == V \union {s}
             g == [r[p].g EXCEPT !.exit = s]
             x == [r[p] EXCEPT !.g = g]
  <1>1. r[p] \in RSet(W) /\ r[p].g \in GSet(W) /\ s \in W /\ V \subseteq W
    BY RowIn
  <1> HIDE DEF W
  <1>2. x \in RSet(W)
    <2>1. g \in GSet(W)
      BY <1>1, Sets
    <2> HIDE DEF g
    <2> QED BY <1>1, <2>1, RowSets
  <1>3. r' = [r EXCEPT ![p] = x]
    <2> HIDE DEF GSet
    <2> QED BY DEF RowsTyped
  <1>4. /\ EtcSame(p) /\ HomeSame(p) /\ r'[p].then = r[p].then /\ r'[p].g.exit = s
        /\ r'[p].unread = r[p].unread
    BY DEF RowsTyped, RSet, GSet, EtcSame, HomeSame
  <1> HIDE DEF x
  <1>5. RowsTyped(W)' /\ OthersLike(p)
    BY <1>1, <1>2, <1>3, <1>4, RowSet
  <1> QED BY <1>4, <1>5

LEMMA GiveUpFx ==
    ASSUME NEW V, RowsTyped(V), NEW p \in Procs, NEW s,
           r' = [r EXCEPT ![p].g.exit = s, ![p].fd = NoFile]
    PROVE  /\ \E W : RowsTyped(W)'
           /\ OthersLike(p) /\ HomeSame(p) /\ r'[p].then = r[p].then
           /\ r'[p].g.exit = s /\ r'[p].fd = NoFile
  <1> DEFINE W == V \union {s}
             g == [r[p].g EXCEPT !.exit = s]
             y == [r[p] EXCEPT !.g = g]
             x == [y EXCEPT !.fd = NoFile]
  <1>1. r[p] \in RSet(W) /\ r[p].g \in GSet(W) /\ s \in W /\ V \subseteq W
    BY RowIn
  <1>2. NoFile \in 0..Files
    BY FilesAssumption DEF NoFile
  <1> HIDE DEF W
  <1>3. x \in RSet(W)
    <2>1. g \in GSet(W)
      BY <1>1, Sets
    <2> HIDE DEF g
    <2>2. y \in RSet(W)
      BY <1>1, <2>1, RowSets
    <2> HIDE DEF y
    <2> QED BY <1>1, <1>2, <2>2, RowSets
  <1>4. r' = [r EXCEPT ![p] = x]
    <2> HIDE DEF GSet
    <2> QED BY DEF RowsTyped
  <1>5. /\ HomeSame(p) /\ r'[p].then = r[p].then /\ r'[p].g.exit = s /\ r'[p].fd = NoFile
        /\ r'[p].unread = r[p].unread
    BY <1>2 DEF RowsTyped, RSet, GSet, HomeSame
  <1> HIDE DEF x
  <1>6. RowsTyped(W)' /\ OthersLike(p)
    BY <1>1, <1>3, <1>4, <1>5, RowSet
  <1> QED BY <1>5, <1>6

(* A new file is open.                                                      *)
LEMMA MadeFx ==
    ASSUME NEW V, RowsTyped(V), NEW p \in Procs, NEW n, NEW i \in 0..Files,
           r' = [r EXCEPT ![p].new_file = n, ![p].fd = i]
    PROVE  /\ \E W : RowsTyped(W)'
           /\ OthersLike(p) /\ HomeSame(p)
           /\ r'[p].buf = r[p].buf /\ r'[p].new_file = n /\ r'[p].fd = i
           /\ r'[p].then = r[p].then /\ r'[p].g = r[p].g
  <1> DEFINE W == V \union {n}
             x0 == [r[p] EXCEPT !.new_file = n]
             x1 == [x0 EXCEPT !.fd = i]
  <1>1. r[p] \in RSet(W) /\ V \subseteq W /\ n \in W
    BY RowIn
  <1>2. NoFile \in 0..Files
    BY FilesAssumption DEF NoFile
  <1> HIDE DEF W
  <1>3. x1 \in RSet(W)
    <2>1. x0 \in RSet(W)
      BY <1>1, <1>2, RowSets
    <2> HIDE DEF x0
    <2>2. x1 \in RSet(W)
      BY <1>1, <2>1, <1>2, RowSets
    <2> HIDE DEF x1
    <2> QED BY <2>2
  <1>4. r' = [r EXCEPT ![p] = x1]
    <2> HIDE DEF GSet
    <2> QED BY DEF RowsTyped
  <1>5. /\ HomeSame(p)
        /\ r'[p].buf = r[p].buf /\ r'[p].new_file = n /\ r'[p].fd = i
        /\ r'[p].then = r[p].then /\ r'[p].g = r[p].g
        /\ r'[p].unread = r[p].unread
    <2> HIDE DEF GSet
    <2> QED BY <1>2 DEF RowsTyped, RSet, HomeSame
  <1> HIDE DEF x1
  <1>6. RowsTyped(W)' /\ OthersLike(p)
    BY <1>1, <1>3, <1>4, <1>5, RowSet
  <1> QED BY <1>5, <1>6

LEMMA OpenFx ==
    ASSUME NEW V, RowsTyped(V), NEW p \in Procs, NEW i \in 0..Files,
           r' = [r EXCEPT ![p].fd = i]
    PROVE  /\ \E W : RowsTyped(W)'
           /\ OthersLike(p) /\ HomeSame(p)
           /\ r'[p].new_file = r[p].new_file /\ r'[p].buf = r[p].buf /\ r'[p].fd = i
           /\ r'[p].then = r[p].then /\ r'[p].g = r[p].g
  <1> DEFINE W == V \union {{}}
             x0 == [r[p] EXCEPT !.fd = i]
  <1>1. r[p] \in RSet(W) /\ V \subseteq W /\ {} \in W
    BY RowIn
  <1>2. NoFile \in 0..Files
    BY FilesAssumption DEF NoFile
  <1> HIDE DEF W
  <1>3. x0 \in RSet(W)
    <2>1. x0 \in RSet(W)
      BY <1>1, <1>2, RowSets
    <2> HIDE DEF x0
    <2> QED BY <2>1
  <1>4. r' = [r EXCEPT ![p] = x0]
    <2> HIDE DEF GSet
    <2> QED BY DEF RowsTyped
  <1>5. /\ HomeSame(p)
        /\ r'[p].new_file = r[p].new_file /\ r'[p].buf = r[p].buf /\ r'[p].fd = i
        /\ r'[p].then = r[p].then /\ r'[p].g = r[p].g
        /\ r'[p].unread = r[p].unread
    <2> HIDE DEF GSet
    <2> QED BY <1>2 DEF RowsTyped, RSet, HomeSame
  <1> HIDE DEF x0
  <1>6. RowsTyped(W)' /\ OthersLike(p)
    BY <1>1, <1>3, <1>4, <1>5, RowSet
  <1> QED BY <1>5, <1>6

LEMMA BufFx ==
    ASSUME NEW V, RowsTyped(V), NEW p \in Procs, NEW b,
           r' = [r EXCEPT ![p].buf = b]
    PROVE  /\ \E W : RowsTyped(W)'
           /\ OthersLike(p) /\ HomeSame(p)
           /\ r'[p].fd = r[p].fd /\ r'[p].new_file = r[p].new_file /\ r'[p].buf = b
           /\ r'[p].then = r[p].then /\ r'[p].g = r[p].g
  <1> DEFINE W == V \union {b}
             x0 == [r[p] EXCEPT !.buf = b]
  <1>1. r[p] \in RSet(W) /\ V \subseteq W /\ b \in W
    BY RowIn
  <1>2. NoFile \in 0..Files
    BY FilesAssumption DEF NoFile
  <1> HIDE DEF W
  <1>3. x0 \in RSet(W)
    <2>1. x0 \in RSet(W)
      BY <1>1, <1>2, RowSets
    <2> HIDE DEF x0
    <2> QED BY <2>1
  <1>4. r' = [r EXCEPT ![p] = x0]
    <2> HIDE DEF GSet
    <2> QED BY DEF RowsTyped
  <1>5. /\ HomeSame(p)
        /\ r'[p].fd = r[p].fd /\ r'[p].new_file = r[p].new_file /\ r'[p].buf = b
        /\ r'[p].then = r[p].then /\ r'[p].g = r[p].g
        /\ r'[p].unread = r[p].unread
    <2> HIDE DEF GSet
    <2> QED BY <1>2 DEF RowsTyped, RSet, HomeSame
  <1> HIDE DEF x0
  <1>6. RowsTyped(W)' /\ OthersLike(p)
    BY <1>1, <1>3, <1>4, <1>5, RowSet
  <1> QED BY <1>5, <1>6

\* CopyLines leaves b and u.
Lined(p, b, u) == r' = [r EXCEPT ![p].buf = b, ![p].unread = u]

LEMMA LinesFx ==
    ASSUME NEW V, RowsTyped(V), NEW p \in Procs, NEW b, NEW u \in BOOLEAN, r[p].unread => u,
           Lined(p, b, u)
    PROVE  /\ \E W : RowsTyped(W)'
           /\ OthersLike(p) /\ HomeSame(p)
           /\ r'[p].fd = r[p].fd /\ r'[p].new_file = r[p].new_file /\ r'[p].buf = b
           /\ r'[p].unread = u
  <1> DEFINE W == V \union {b}
             x0 == [r[p] EXCEPT !.buf = b]
             x1 == [x0 EXCEPT !.unread = u]
  <1>1. r[p] \in RSet(W) /\ V \subseteq W /\ b \in W
    BY RowIn
  <1> HIDE DEF W
  <1>2. x1 \in RSet(W)
    <2>1. x0 \in RSet(W)
      BY <1>1, RowSets
    <2> HIDE DEF x0
    <2>2. x1 \in RSet(W)
      BY <1>1, <2>1, RowSets
    <2> HIDE DEF x1
    <2> QED BY <2>2
  <1>3. r' = [r EXCEPT ![p] = x1]
    <2> HIDE DEF GSet
    <2> QED BY DEF RowsTyped, Lined
  <1>4. /\ HomeSame(p)
        /\ r'[p].fd = r[p].fd /\ r'[p].new_file = r[p].new_file /\ r'[p].buf = b
        /\ r'[p].unread = u
    <2> HIDE DEF GSet
    <2> QED BY <1>3 DEF RowsTyped, RSet, HomeSame
  <1> HIDE DEF x1
  <1>5. RowsTyped(W)' /\ OthersLike(p)
    BY <1>1, <1>2, <1>3, <1>4, RowSet
  <1> QED BY <1>4, <1>5

LEMMA FlushFx ==
    ASSUME NEW V, RowsTyped(V), NEW p \in Procs,
           r' = [r EXCEPT ![p].fd = NoFile, ![p].buf = <<>>]
    PROVE  /\ \E W : RowsTyped(W)'
           /\ OthersLike(p) /\ HomeSame(p)
           /\ r'[p].new_file = r[p].new_file /\ r'[p].fd = NoFile /\ r'[p].buf = <<>>
           /\ r'[p].then = r[p].then /\ r'[p].g = r[p].g
  <1> DEFINE W == V \union {<<>>}
             x0 == [r[p] EXCEPT !.fd = NoFile]
             x1 == [x0 EXCEPT !.buf = <<>>]
  <1>1. r[p] \in RSet(W) /\ V \subseteq W /\ <<>> \in W
    BY RowIn
  <1>2. NoFile \in 0..Files
    BY FilesAssumption DEF NoFile
  <1> HIDE DEF W
  <1>3. x1 \in RSet(W)
    <2>1. x0 \in RSet(W)
      BY <1>1, <1>2, RowSets
    <2> HIDE DEF x0
    <2>2. x1 \in RSet(W)
      BY <1>1, <2>1, <1>2, RowSets
    <2> HIDE DEF x1
    <2> QED BY <2>2
  <1>4. r' = [r EXCEPT ![p] = x1]
    <2> HIDE DEF GSet
    <2> QED BY DEF RowsTyped
  <1>5. /\ HomeSame(p)
        /\ r'[p].new_file = r[p].new_file /\ r'[p].fd = NoFile /\ r'[p].buf = <<>>
        /\ r'[p].then = r[p].then /\ r'[p].g = r[p].g
        /\ r'[p].unread = r[p].unread
    <2> HIDE DEF GSet
    <2> QED BY <1>2 DEF RowsTyped, RSet, HomeSame
  <1> HIDE DEF x1
  <1>6. RowsTyped(W)' /\ OthersLike(p)
    BY <1>1, <1>3, <1>4, <1>5, RowSet
  <1> QED BY <1>5, <1>6

LEMMA CloseFx ==
    ASSUME NEW V, RowsTyped(V), NEW p \in Procs, NEW s,
           r' = [r EXCEPT ![p].fd = NoFile, ![p].buf = <<>>, ![p].short = s]
    PROVE  /\ \E W : RowsTyped(W)'
           /\ OthersLike(p) /\ HomeSame(p)
           /\ r'[p].new_file = r[p].new_file /\ r'[p].fd = NoFile /\ r'[p].buf = <<>>
           /\ r'[p].then = r[p].then /\ r'[p].g = r[p].g
  <1> DEFINE W == V \union {<<>>, s}
             x0 == [r[p] EXCEPT !.fd = NoFile]
             x1 == [x0 EXCEPT !.buf = <<>>]
             x2 == [x1 EXCEPT !.short = s]
  <1>1. r[p] \in RSet(W) /\ V \subseteq W /\ <<>> \in W /\ s \in W
    BY RowIn
  <1>2. NoFile \in 0..Files
    BY FilesAssumption DEF NoFile
  <1> HIDE DEF W
  <1>3. x2 \in RSet(W)
    <2>1. x0 \in RSet(W)
      BY <1>1, <1>2, RowSets
    <2> HIDE DEF x0
    <2>2. x1 \in RSet(W)
      BY <1>1, <2>1, <1>2, RowSets
    <2> HIDE DEF x1
    <2>3. x2 \in RSet(W)
      BY <1>1, <2>2, <1>2, RowSets
    <2> HIDE DEF x2
    <2> QED BY <2>3
  <1>4. r' = [r EXCEPT ![p] = x2]
    <2> HIDE DEF GSet
    <2> QED BY DEF RowsTyped
  <1>5. /\ HomeSame(p)
        /\ r'[p].new_file = r[p].new_file /\ r'[p].fd = NoFile /\ r'[p].buf = <<>>
        /\ r'[p].then = r[p].then /\ r'[p].g = r[p].g
        /\ r'[p].unread = r[p].unread
    <2> HIDE DEF GSet
    <2> QED BY <1>2 DEF RowsTyped, RSet, HomeSame
  <1> HIDE DEF x2
  <1>6. RowsTyped(W)' /\ OthersLike(p)
    BY <1>1, <1>3, <1>4, <1>5, RowSet
  <1> QED BY <1>5, <1>6

(* An update of a table is prepared.                                        *)
LEMMA PrepareFx ==
    ASSUME NEW V, RowsTyped(V), NEW p \in Procs, NEW tab \in Tables, NEW e, NEW then \in {"done", "usr", "groups", "scan"},
           r' = [r EXCEPT ![p] = Prepare(p, tab, e, then)]
    PROVE  /\ \E W : RowsTyped(W)'
           /\ OthersLike(p) /\ EtcSame(p) /\ HomeSame(p)
           /\ r'[p].then = then /\ r'[p].g = r[p].g
  <1> DEFINE W == V \union {e, <<>>}
             x0 == [r[p] EXCEPT !.tab = tab]
             x1 == [x0 EXCEPT !.e = e]
             x2 == [x1 EXCEPT !.then = then]
             x3 == [x2 EXCEPT !.stream = <<>>]
  <1>1. r[p] \in RSet(W) /\ V \subseteq W /\ e \in W /\ <<>> \in W
    BY RowIn
  <1>2. NoFile \in 0..Files
    BY FilesAssumption DEF NoFile
  <1> HIDE DEF W
  <1>3. x3 \in RSet(W)
    <2>1. x0 \in RSet(W)
      BY <1>1, <1>2, RowSets
    <2> HIDE DEF x0
    <2>2. x1 \in RSet(W)
      BY <1>1, <2>1, <1>2, RowSets
    <2> HIDE DEF x1
    <2>3. x2 \in RSet(W)
      BY <1>1, <2>2, <1>2, RowSets
    <2> HIDE DEF x2
    <2>4. x3 \in RSet(W)
      BY <1>1, <2>3, <1>2, RowSets
    <2> HIDE DEF x3
    <2> QED BY <2>4
  <1>4. r' = [r EXCEPT ![p] = x3]
    <2> HIDE DEF GSet
    <2> QED BY DEF RowsTyped, Prepare
  <1>5. /\ EtcSame(p) /\ HomeSame(p)
        /\ r'[p].then = then /\ r'[p].g = r[p].g
        /\ r'[p].unread = r[p].unread
    <2> HIDE DEF GSet
    <2> QED BY <1>2 DEF RowsTyped, RSet, EtcSame, HomeSame, Prepare
  <1> HIDE DEF x3
  <1>6. RowsTyped(W)' /\ OthersLike(p)
    BY <1>1, <1>3, <1>4, <1>5, RowSet
  <1> QED BY <1>5, <1>6

LEMMA PrepareGidFx ==
    ASSUME NEW V, RowsTyped(V), NEW p \in Procs, NEW tab \in Tables, NEW e, NEW then \in {"done", "usr", "groups", "scan"}, NEW i,
           r' = [r EXCEPT ![p] = [Prepare(p, tab, e, then) EXCEPT !.gid = i]]
    PROVE  /\ \E W : RowsTyped(W)'
           /\ OthersLike(p) /\ EtcSame(p)
           /\ r'[p].added = r[p].added /\ r'[p].copied = r[p].copied /\ r'[p].failed = r[p].failed /\ r'[p].uid = r[p].uid
           /\ r'[p].then = then /\ r'[p].gid = i /\ r'[p].g = r[p].g
  <1> DEFINE W == V \union {e, <<>>, i}
             x0 == [r[p] EXCEPT !.tab = tab]
             x1 == [x0 EXCEPT !.e = e]
             x2 == [x1 EXCEPT !.then = then]
             x3 == [x2 EXCEPT !.stream = <<>>]
             x4 == [x3 EXCEPT !.gid = i]
  <1>1. r[p] \in RSet(W) /\ V \subseteq W /\ e \in W /\ <<>> \in W /\ i \in W
    BY RowIn
  <1>2. NoFile \in 0..Files
    BY FilesAssumption DEF NoFile
  <1> HIDE DEF W
  <1>3. x4 \in RSet(W)
    <2>1. x0 \in RSet(W)
      BY <1>1, <1>2, RowSets
    <2> HIDE DEF x0
    <2>2. x1 \in RSet(W)
      BY <1>1, <2>1, <1>2, RowSets
    <2> HIDE DEF x1
    <2>3. x2 \in RSet(W)
      BY <1>1, <2>2, <1>2, RowSets
    <2> HIDE DEF x2
    <2>4. x3 \in RSet(W)
      BY <1>1, <2>3, <1>2, RowSets
    <2> HIDE DEF x3
    <2>5. x4 \in RSet(W)
      BY <1>1, <2>4, <1>2, RowSets
    <2> HIDE DEF x4
    <2> QED BY <2>5
  <1>4. r' = [r EXCEPT ![p] = x4]
    <2> HIDE DEF GSet
    <2> QED BY DEF RowsTyped, Prepare
  <1>5. /\ EtcSame(p)
        /\ r'[p].added = r[p].added /\ r'[p].copied = r[p].copied /\ r'[p].failed = r[p].failed /\ r'[p].uid = r[p].uid
        /\ r'[p].then = then /\ r'[p].gid = i /\ r'[p].g = r[p].g
        /\ r'[p].unread = r[p].unread
    <2> HIDE DEF GSet
    <2> QED BY <1>2 DEF RowsTyped, RSet, EtcSame, Prepare
  <1> HIDE DEF x4
  <1>6. RowsTyped(W)' /\ OthersLike(p)
    BY <1>1, <1>3, <1>4, <1>5, RowSet
  <1> QED BY <1>5, <1>6

LEMMA UidFx ==
    ASSUME NEW V, RowsTyped(V), NEW p \in Procs, NEW i,
           r' = [r EXCEPT ![p].uid = i]
    PROVE  /\ \E W : RowsTyped(W)'
           /\ OthersLike(p) /\ EtcSame(p)
           /\ r'[p].added = r[p].added /\ r'[p].copied = r[p].copied /\ r'[p].failed = r[p].failed /\ r'[p].gid = r[p].gid
           /\ r'[p].uid = i /\ r'[p].then = r[p].then /\ r'[p].g = r[p].g
  <1> DEFINE W == V \union {i}
             x0 == [r[p] EXCEPT !.uid = i]
  <1>1. r[p] \in RSet(W) /\ V \subseteq W /\ i \in W
    BY RowIn
  <1>2. NoFile \in 0..Files
    BY FilesAssumption DEF NoFile
  <1> HIDE DEF W
  <1>3. x0 \in RSet(W)
    <2>1. x0 \in RSet(W)
      BY <1>1, <1>2, RowSets
    <2> HIDE DEF x0
    <2> QED BY <2>1
  <1>4. r' = [r EXCEPT ![p] = x0]
    <2> HIDE DEF GSet
    <2> QED BY DEF RowsTyped
  <1>5. /\ EtcSame(p)
        /\ r'[p].added = r[p].added /\ r'[p].copied = r[p].copied /\ r'[p].failed = r[p].failed /\ r'[p].gid = r[p].gid
        /\ r'[p].uid = i /\ r'[p].then = r[p].then /\ r'[p].g = r[p].g
        /\ r'[p].unread = r[p].unread
    <2> HIDE DEF GSet
    <2> QED BY <1>2 DEF RowsTyped, RSet, EtcSame
  <1> HIDE DEF x0
  <1>6. RowsTyped(W)' /\ OthersLike(p)
    BY <1>1, <1>3, <1>4, <1>5, RowSet
  <1> QED BY <1>5, <1>6

LEMMA StreamFx ==
    ASSUME NEW V, RowsTyped(V), NEW p \in Procs, NEW s,
           r' = [r EXCEPT ![p].stream = s]
    PROVE  /\ \E W : RowsTyped(W)'
           /\ OthersLike(p) /\ EtcSame(p) /\ HomeSame(p)
           /\ r'[p].then = r[p].then /\ r'[p].g = r[p].g
  <1> DEFINE W == V \union {s}
             x0 == [r[p] EXCEPT !.stream = s]
  <1>1. r[p] \in RSet(W) /\ V \subseteq W /\ s \in W
    BY RowIn
  <1>2. NoFile \in 0..Files
    BY FilesAssumption DEF NoFile
  <1> HIDE DEF W
  <1>3. x0 \in RSet(W)
    <2>1. x0 \in RSet(W)
      BY <1>1, <1>2, RowSets
    <2> HIDE DEF x0
    <2> QED BY <2>1
  <1>4. r' = [r EXCEPT ![p] = x0]
    <2> HIDE DEF GSet
    <2> QED BY DEF RowsTyped
  <1>5. /\ EtcSame(p) /\ HomeSame(p)
        /\ r'[p].then = r[p].then /\ r'[p].g = r[p].g
        /\ r'[p].unread = r[p].unread
    <2> HIDE DEF GSet
    <2> QED BY <1>2 DEF RowsTyped, RSet, EtcSame, HomeSame
  <1> HIDE DEF x0
  <1>6. RowsTyped(W)' /\ OthersLike(p)
    BY <1>1, <1>3, <1>4, <1>5, RowSet
  <1> QED BY <1>5, <1>6

LEMMA AddedFx ==
    ASSUME NEW V, RowsTyped(V), NEW p \in Procs,
           r' = [r EXCEPT ![p].added = TRUE]
    PROVE  /\ \E W : RowsTyped(W)'
           /\ OthersLike(p) /\ EtcSame(p)
           /\ r'[p].copied = r[p].copied /\ r'[p].failed = r[p].failed /\ r'[p].uid = r[p].uid /\ r'[p].gid = r[p].gid
           /\ r'[p].added = TRUE /\ r'[p].then = r[p].then /\ r'[p].g = r[p].g
  <1> DEFINE W == V \union {{}}
             x0 == [r[p] EXCEPT !.added = TRUE]
  <1>1. r[p] \in RSet(W) /\ V \subseteq W /\ {} \in W
    BY RowIn
  <1>2. NoFile \in 0..Files
    BY FilesAssumption DEF NoFile
  <1> HIDE DEF W
  <1>3. x0 \in RSet(W)
    <2>1. x0 \in RSet(W)
      BY <1>1, <1>2, RowSets
    <2> HIDE DEF x0
    <2> QED BY <2>1
  <1>4. r' = [r EXCEPT ![p] = x0]
    <2> HIDE DEF GSet
    <2> QED BY DEF RowsTyped
  <1>5. /\ EtcSame(p)
        /\ r'[p].copied = r[p].copied /\ r'[p].failed = r[p].failed /\ r'[p].uid = r[p].uid /\ r'[p].gid = r[p].gid
        /\ r'[p].added = TRUE /\ r'[p].then = r[p].then /\ r'[p].g = r[p].g
        /\ r'[p].unread = r[p].unread
    <2> HIDE DEF GSet
    <2> QED BY <1>2 DEF RowsTyped, RSet, EtcSame
  <1> HIDE DEF x0
  <1>6. RowsTyped(W)' /\ OthersLike(p)
    BY <1>1, <1>3, <1>4, <1>5, RowSet
  <1> QED BY <1>5, <1>6

LEMMA CopiedFx ==
    ASSUME NEW V, RowsTyped(V), NEW p \in Procs, NEW c,
           r' = [r EXCEPT ![p].copied = c]
    PROVE  /\ \E W : RowsTyped(W)'
           /\ OthersLike(p) /\ EtcSame(p)
           /\ r'[p].added = r[p].added /\ r'[p].uid = r[p].uid /\ r'[p].gid = r[p].gid
           /\ r'[p].copied = c /\ r'[p].failed = r[p].failed /\ r'[p].then = r[p].then /\ r'[p].g = r[p].g
  <1> DEFINE W == V \union {c}
             x0 == [r[p] EXCEPT !.copied = c]
  <1>1. r[p] \in RSet(W) /\ V \subseteq W /\ c \in W
    BY RowIn
  <1>2. NoFile \in 0..Files
    BY FilesAssumption DEF NoFile
  <1> HIDE DEF W
  <1>3. x0 \in RSet(W)
    <2>1. x0 \in RSet(W)
      BY <1>1, <1>2, RowSets
    <2> HIDE DEF x0
    <2> QED BY <2>1
  <1>4. r' = [r EXCEPT ![p] = x0]
    <2> HIDE DEF GSet
    <2> QED BY DEF RowsTyped
  <1>5. /\ EtcSame(p)
        /\ r'[p].added = r[p].added /\ r'[p].uid = r[p].uid /\ r'[p].gid = r[p].gid
        /\ r'[p].copied = c /\ r'[p].failed = r[p].failed /\ r'[p].then = r[p].then /\ r'[p].g = r[p].g
        /\ r'[p].unread = r[p].unread
    <2> HIDE DEF GSet
    <2> QED BY <1>2 DEF RowsTyped, RSet, EtcSame
  <1> HIDE DEF x0
  <1>6. RowsTyped(W)' /\ OthersLike(p)
    BY <1>1, <1>3, <1>4, <1>5, RowSet
  <1> QED BY <1>5, <1>6

\* c has been copied and d missed.
Noted(p, c, d) == r' = [r EXCEPT ![p].copied = c, ![p].failed = d]

LEMMA CopiedFailedFx ==
    ASSUME NEW V, RowsTyped(V), NEW p \in Procs, NEW c, NEW d,
           Noted(p, c, d)
    PROVE  /\ \E W : RowsTyped(W)'
           /\ OthersLike(p) /\ EtcSame(p)
           /\ r'[p].added = r[p].added /\ r'[p].uid = r[p].uid /\ r'[p].gid = r[p].gid
           /\ r'[p].copied = c /\ r'[p].failed = d /\ r'[p].g = r[p].g
  <1> DEFINE W == V \union {c, d}
             x0 == [r[p] EXCEPT !.copied = c]
             x1 == [x0 EXCEPT !.failed = d]
  <1>1. r[p] \in RSet(W) /\ V \subseteq W /\ c \in W /\ d \in W
    BY RowIn
  <1> HIDE DEF W
  <1>2. x1 \in RSet(W)
    <2>1. x0 \in RSet(W)
      BY <1>1, RowSets
    <2> HIDE DEF x0
    <2>2. x1 \in RSet(W)
      BY <1>1, <2>1, RowSets
    <2> HIDE DEF x1
    <2> QED BY <2>2
  <1>3. r' = [r EXCEPT ![p] = x1]
    <2> HIDE DEF GSet
    <2> QED BY DEF RowsTyped, Noted
  <1>4. /\ EtcSame(p)
        /\ r'[p].added = r[p].added /\ r'[p].uid = r[p].uid /\ r'[p].gid = r[p].gid
        /\ r'[p].copied = c /\ r'[p].failed = d /\ r'[p].g = r[p].g
        /\ r'[p].unread = r[p].unread
    <2> HIDE DEF GSet
    <2> QED BY <1>3 DEF RowsTyped, RSet, EtcSame
  <1> HIDE DEF x1
  <1>5. RowsTyped(W)' /\ OthersLike(p)
    BY <1>1, <1>2, <1>3, <1>4, RowSet
  <1> QED BY <1>4, <1>5

LEMMA IdleType ==
    ASSUME NEW V, FirstVals \union {{}, TRUE, FALSE} \subseteq V
    PROVE  /\ Idle \in RSet(V) /\ Idle.fd = NoFile /\ Idle.added = FALSE /\ Idle.copied = {}
           /\ Idle.failed = {} /\ Idle.unread = FALSE /\ Idle.then = "done"
  <1>1. Globals \in GSet(V)
    <2>1. FirstVals \subseteq V
      OBVIOUS
    <2> QED BY <2>1, GlobalsType, Grows
  <1>2. NoFile \in 0..Files
    BY FilesAssumption DEF NoFile
  <1>3. <<>> \in V /\ None \in V /\ 0 \in V /\ {} \in V /\ TRUE \in V /\ FALSE \in V
    BY DEF FirstVals
  <1> HIDE DEF Globals, GSet, None
  <1>4. "passwd" \in Tables
    BY DEF Tables
  <1> HIDE DEF Tables
  <1>5. Idle \in RSet(V)
    BY <1>1, <1>2, <1>3, <1>4 DEF Idle, RSet
  <1> QED BY <1>5 DEF Idle

Begun(p, g, uid, gid, alone, rest) ==
    r' = [q \in Procs |-> IF q = p THEN [Idle EXCEPT !.g = g, !.uid = uid, !.gid = gid,
                                                     !.alone = alone]
                          ELSE [r[q] EXCEPT !.alone = rest[q]]]

(* A new invocation. *)
LEMMA StartFx ==
    ASSUME NEW V, RowsTyped(V), NEW p \in Procs, NEW U, NEW gg \in GSet(U), NEW alone,
           NEW uid, NEW gid, NEW rest, ~r[p].unread,
           Begun(p, gg, uid, gid, alone, rest)
    PROVE  /\ \E W : RowsTyped(W)'
           /\ OthersLike(p)
           /\ r'[p].fd = NoFile /\ r'[p].added = FALSE /\ r'[p].copied = {} /\ r'[p].then = "done"
           /\ r'[p].failed = {}
  <1> USE DEF Begun
  <1> DEFINE W == V \union U \union FirstVals \union {{}, TRUE, FALSE, alone, uid, gid}
                    \union {rest[q] : q \in Procs}
             a == [Idle EXCEPT !.g = gg]
             b == [a EXCEPT !.uid = uid]
             c == [b EXCEPT !.gid = gid]
             d == [c EXCEPT !.alone = alone]
  <1>1. /\ FirstVals \union {{}, TRUE, FALSE} \subseteq W /\ V \subseteq W /\ U \subseteq W
        /\ alone \in W /\ uid \in W /\ gid \in W /\ \A q \in Procs : rest[q] \in W
    OBVIOUS
  <1> HIDE DEF W
  <1>2. gg \in GSet(W)
    BY <1>1, Grows
  <1>3. Idle \in RSet(W)
    BY <1>1, IdleType
  <1>4. d \in RSet(W)
    <2>1. a \in RSet(W)
      BY <1>1, <1>2, <1>3, RowSets
    <2> HIDE DEF a
    <2>2. b \in RSet(W)
      BY <1>1, <2>1, RowSets
    <2> HIDE DEF b
    <2>3. c \in RSet(W)
      BY <1>1, <2>2, RowSets
    <2> HIDE DEF c
    <2> QED BY <1>1, <2>3, RowSets
  <1>5. [Idle EXCEPT !.g = gg, !.uid = uid, !.gid = gid, !.alone = alone] = d
    <2> HIDE DEF GSet, Idle
    <2> QED BY <1>3 DEF RSet
  <1>6. /\ d.fd = Idle.fd /\ d.added = Idle.added /\ d.copied = Idle.copied /\ d.then = Idle.then
        /\ d.failed = Idle.failed
    <2> HIDE DEF GSet, Idle
    <2> QED BY <1>3 DEF RSet
  <1> HIDE DEF d
  <1>7. r'[p] = d
    BY <1>5
  <1>8. r'[p] \in RSet(W)
    BY <1>4, <1>7
  <1>9. ASSUME NEW q \in Procs \ {p}
        PROVE  r'[q] \in RSet(W) /\ Like(q)
    <2>1. r'[q] = [r[q] EXCEPT !.alone = rest[q]]
      OBVIOUS
    <2>2. r[q] \in RSet(W)
      BY <1>1, RowIn
    <2>3. [r[q] EXCEPT !.alone = rest[q]] \in RSet(W)
      BY <1>1, <2>2, RowSets
    <2> DEFINE y == [r[q] EXCEPT !.alone = rest[q]]
    <2>4. /\ y.fd = r[q].fd /\ y.new_file = r[q].new_file /\ y.buf = r[q].buf
          /\ y.added = r[q].added /\ y.copied = r[q].copied /\ y.uid = r[q].uid
          /\ y.gid = r[q].gid /\ y.g = r[q].g /\ y.then = r[q].then
          /\ y.failed = r[q].failed /\ y.unread = r[q].unread
      <3> HIDE DEF GSet
      <3> QED BY <2>2 DEF RSet
    <2> HIDE DEF y
    <2>5. r'[q] = y
      BY <2>1 DEF y
    <2> QED BY <2>3, <2>4, <2>5 DEF Like, EtcSame, HomeSame, y
  <1>10. RowsTyped(W)'
    <2>1. r' = [q \in Procs |-> r'[q]]
      OBVIOUS
    <2>2. \A q \in Procs : r'[q] \in RSet(W)
      BY <1>8, <1>9
    <2> QED BY <2>1, <2>2, Zenon DEF RowsTyped
  <1> QED BY <1>1, <1>6, <1>7, <1>9, <1>10, IdleType DEF OthersLike

-----------------------------------------------------------------------------
(* The files of /etc *)

LEMMA NamesFact ==
    /\ DefNames \subseteq Names /\ TableNames \subseteq Names
    /\ TableNames \intersect DefNames = {}
    /\ Names \ DefNames = TableNames
    /\ USER_DEFAULTS_FILE \in DefNames /\ BACKUP \in DefNames /\ TempNames \subseteq DefNames
    /\ USER_DEFAULTS_FILE \notin TempNames /\ BACKUP \notin TempNames
    /\ USER_DEFAULTS_FILE # BACKUP
  BY NamesAssumption DEF DefNames, TableNames, USER_DEFAULTS_FILE, BACKUP

OwnedAll == \A p \in Procs : Owned(p)

LEMMA Runs ==
    ASSUME NEW p \in Procs, pc[p] \in Making \union Updating
    PROVE  p \in Running
  BY DEF Running, Over, Making, Updating

\* The files open for writing, without the look at who runs.
LEMMA OpenIs ==
    ASSUME OwnedAll
    PROVE  /\ Open = {r[q].fd : q \in Procs} \ {NoFile}
           /\ \A p \in Procs : OpenBut(p) = {r[q].fd : q \in Procs \ {p}} \ {NoFile}
  <1>1. \A q \in Procs : r[q].fd # NoFile => q \in Running
    BY Runs DEF OwnedAll, Owned, Writing, Making
  <1>2. Running \subseteq Procs
    BY DEF Running
  <1> QED BY <1>1, <1>2 DEF Open, OpenBut

LEMMA OpenAfter ==
    ASSUME OwnedAll'
    PROVE  Open' = {r'[q].fd : q \in Procs} \ {NoFile}
  <1>1. \A q \in Procs : r'[q].fd # NoFile => q \in Running'
    BY DEF OwnedAll, Owned, Writing, Making, Running, Over, Updating
  <1>2. Running' \subseteq Procs
    BY DEF Running
  <1> QED BY <1>1, <1>2 DEF Open

\* Where an invocation can go.
Ahead == Labels \ {"off"}
PcOthers(p) == (\A q \in Procs \ {p} : pc'[q] = pc[q]) /\ pc'[p] # "off"

\* What could not be read stays unread.
LEMMA UnreadStays ==
    ASSUME NEW p \in Procs, OthersLike(p)
    PROVE  Unread => Unread'
  <1> SUFFICES ASSUME NEW q \in Procs, r[q].unread PROVE r'[q].unread
    BY DEF Unread
  <1> QED BY DEF OthersLike, Like

(* The files of the other invocations are left alone. *)
LEMMA OtherOK ==
    ASSUME EtcInv, NEW p \in Procs, OthersLike(p), PcOthers(p),
           \A q \in Procs \ {p} : pc[q] \in Making =>
              /\ fs'.dir[r[q].new_file] = fs.dir[r[q].new_file]
              /\ fs'.data[fs.dir[r[q].new_file]] = fs.data[fs.dir[r[q].new_file]],
           \A n \in DefNames : \/ \E m \in DefNames : fs.dir[m] = fs'.dir[n]
                               \/ fs'.dir[n] = NoFile \/ fs'.dir[n] \in Unused(fs, Open),
           Unread \/ ToKeep' = ToKeep
    PROVE  \A q \in Procs \ {p} : (Owned(q) /\ NewOK(q))'
  <1> SUFFICES ASSUME NEW q \in Procs \ {p} PROVE (Owned(q) /\ NewOK(q))'
    OBVIOUS
  <1>1. Owned(q) /\ NewOK(q)
    BY DEF EtcInv
  <1>2. /\ pc'[q] = pc[q] /\ r'[q].fd = r[q].fd /\ r'[q].new_file = r[q].new_file
        /\ r'[q].buf = r[q].buf
    BY DEF OthersLike, Like, EtcSame, PcOthers
  <1>3. ASSUME pc[q] \in Updating, NEW n \in DefNames
        PROVE  fs'.dir[n] # r[q].fd
    <2>1. r[q].fd # NoFile /\ \A m \in DefNames : fs.dir[m] # r[q].fd
      BY <1>1, <1>3 DEF Owned
    <2>2. r[q].fd \in Open
      BY <1>3, <2>1, Runs DEF Open
    <2>3. r[q].fd \notin Unused(fs, Open)
      BY <2>2 DEF Unused
    <2> QED BY <2>1, <2>3
  <1>4. Owned(q)'
    <2>1. pc[q] \in Writing => pc[q] \in Making
      BY DEF Writing, Making
    <2> QED BY <1>1, <1>2, <1>3, <2>1 DEF Owned, Exists
  <1>5. pc[q] \in Making => New(q)' = New(q)
    <2> SUFFICES ASSUME pc[q] \in Making PROVE New(q)' = New(q)
      OBVIOUS
    <2>1. Exists(fs, r[q].new_file)
      BY <1>1 DEF Owned
    <2> QED BY <1>2, <2>1 DEF New, Contents, Exists
  <1>6. NewOK(q)'
    <2>1. CASE pc[q] \in Making
      <3>1. New(q)' = New(q)
        BY <1>5, <2>1
      <3>2. /\ pc[q] = "lines" => New(q) = <<>>
            /\ pc[q] = "flush" => New(q) = <<>> /\ Good(r[q].buf)
            /\ pc[q] \in {"unlink", "link", "rename"} => Good(New(q))
        BY <1>1 DEF NewOK
      <3>3. Good(r[q].buf) => Good(r[q].buf)'
        BY <1>2, UnreadStays DEF Good
      <3>4. Good(New(q)) => Good(New(q))'
        BY <3>1, UnreadStays DEF Good
      <3> QED BY <1>2, <3>1, <3>2, <3>3, <3>4 DEF NewOK, Good
    <2>2. CASE pc[q] \notin Making
      BY <1>2, <2>2 DEF NewOK, Making
    <2> QED BY <2>1, <2>2
  <1> QED BY <1>4, <1>6

LEMMA OneOwnerKept ==
    ASSUME OneOwner, NEW p \in Procs, OthersLike(p), PcOthers(p),
           pc'[p] \in Making => /\ r'[p].new_file = r[p].new_file
                                /\ pc[p] \in Making
    PROVE  OneOwner'
  <1>1. \A q \in Procs \ {p} : pc'[q] = pc[q] /\ r'[q].new_file = r[q].new_file
    BY DEF OthersLike, Like, EtcSame, PcOthers
  <1>2. ASSUME NEW q1 \in Procs, NEW q2 \in Procs, q1 # q2, pc'[q1] \in Making, pc'[q2] \in Making
        PROVE  r'[q1].new_file # r'[q2].new_file
    <2>1. /\ pc[q1] \in Making /\ r'[q1].new_file = r[q1].new_file
          /\ pc[q2] \in Making /\ r'[q2].new_file = r[q2].new_file
      BY <1>1, <1>2
    <2> QED BY <1>2, <2>1 DEF OneOwner
  <1> QED BY <1>2 DEF OneOwner

\* The files open for writing after a step of p.
NextOpen(p) == ({r[q].fd : q \in Procs \ {p}} \union {r'[p].fd}) \ {NoFile}

LEMMA OpenNext ==
    ASSUME EtcInv, NEW p \in Procs
    PROVE  /\ r'[p].fd = NoFile => NextOpen(p) = OpenBut(p)
           /\ r'[p].fd # NoFile => NextOpen(p) = OpenBut(p) \union {r'[p].fd}
           /\ r'[p].fd = r[p].fd => NextOpen(p) = Open
           /\ r[p].fd = NoFile => Open = OpenBut(p)
  <1>1. OwnedAll
    BY DEF OwnedAll, EtcInv
  <1>2. /\ Open = {r[q].fd : q \in Procs} \ {NoFile}
        /\ OpenBut(p) = {r[q].fd : q \in Procs \ {p}} \ {NoFile}
    BY <1>1, OpenIs
  <1>3. {r[q].fd : q \in Procs} = {r[q].fd : q \in Procs \ {p}} \union {r[p].fd}
    OBVIOUS
  <1> QED BY <1>2, <1>3 DEF NextOpen

(* EtcInv after a step of p, part by part. *)
LEMMA EtcJoin ==
    ASSUME EtcInv, NEW p \in Procs, OthersLike(p), PcOthers(p),
           \A q \in Procs \ {p} : (Owned(q) /\ NewOK(q))',
           Owned(p)', NewOK(p)', OneOwner', Apart', Clean(fs', NextOpen(p)),
           Exists(fs', USER_DEFAULTS_FILE) => IsSeq(Contents(fs', USER_DEFAULTS_FILE))
    PROVE  EtcInv'
  <1>1. OwnedAll'
    BY DEF OwnedAll
  <1>2. Open' = NextOpen(p)
    <2>1. Open' = {r'[q].fd : q \in Procs} \ {NoFile}
      BY <1>1, OpenAfter
    <2>2. \A q \in Procs \ {p} : r'[q].fd = r[q].fd
      BY DEF OthersLike, Like, EtcSame
    <2>3. {r'[q].fd : q \in Procs} = {r[q].fd : q \in Procs \ {p}} \union {r'[p].fd}
      BY <2>2
    <2> QED BY <2>1, <2>3 DEF NextOpen
  <1>3. Fresh'
    <2> SUFFICES ASSUME NEW q \in Procs, pc'[q] = "off" PROVE ~r'[q].unread
      BY DEF Fresh
    <2> QED BY DEF PcOthers, OthersLike, Like, EtcInv, Fresh
  <1> QED BY <1>2, <1>3 DEF EtcInv, Defaults

\* The defaults file stays, or is replaced by complete lines.
DefStep == Exists(fs, USER_DEFAULTS_FILE) =>
             /\ Exists(fs', USER_DEFAULTS_FILE)
             /\ \/ Contents(fs', USER_DEFAULTS_FILE) = Defaults
                \/ \A k \in KeySet : HasLine(Contents(fs', USER_DEFAULTS_FILE), k)
             /\ Unread \/ Others(Contents(fs', USER_DEFAULTS_FILE)) = Others(Defaults)

(* What all steps have in common that leave the files of -D alone. *)
LEMMA SafeStep ==
    ASSUME EtcInv, NEW p \in Procs, OthersLike(p), PcOthers(p),
           \A n \in DefNames :
              /\ fs'.dir[n] = fs.dir[n]
              /\ fs.dir[n] # NoFile => fs'.data[fs.dir[n]] = fs.data[fs.dir[n]],
           \A n \in TableNames : fs'.dir[n] # NoFile => \A m \in DefNames : fs.dir[m] # fs'.dir[n],
           Clean(fs', NextOpen(p)), Owned(p)', NewOK(p)',
           pc'[p] \in Making => /\ r'[p].new_file = r[p].new_file
                                /\ pc[p] \in Making
    PROVE  EtcInv' /\ DefStep
  <1>1. Contents(fs', USER_DEFAULTS_FILE) = Defaults
        /\ (Exists(fs', USER_DEFAULTS_FILE) <=> Exists(fs, USER_DEFAULTS_FILE))
    BY NamesFact DEF Contents, Exists, Defaults
  <1>2. ToKeep' = ToKeep
    BY <1>1 DEF ToKeep, Defaults
  <1>3. \A q \in Procs \ {p} : pc[q] \in Making =>
              /\ fs'.dir[r[q].new_file] = fs.dir[r[q].new_file]
              /\ fs'.data[fs.dir[r[q].new_file]] = fs.data[fs.dir[r[q].new_file]]
    <2> SUFFICES ASSUME NEW q \in Procs \ {p}, pc[q] \in Making
                 PROVE  /\ fs'.dir[r[q].new_file] = fs.dir[r[q].new_file]
                        /\ fs'.data[fs.dir[r[q].new_file]] = fs.data[fs.dir[r[q].new_file]]
      OBVIOUS
    <2>1. r[q].new_file \in DefNames /\ fs.dir[r[q].new_file] # NoFile
      BY NamesFact DEF EtcInv, Owned, Exists
    <2> QED BY <2>1
  <1>4. \A q \in Procs \ {p} : (Owned(q) /\ NewOK(q))'
    BY <1>2, <1>3, OtherOK
  <1>5. OneOwner'
    BY OneOwnerKept DEF EtcInv
  <1>6. Apart'
    <2> SUFFICES ASSUME NEW m \in DefNames, NEW n \in Names, fs'.dir[m] # NoFile,
                        fs'.dir[m] = fs'.dir[n], n # m
                 PROVE  m \notin TempNames /\ n \in {USER_DEFAULTS_FILE, BACKUP}
      BY DEF Apart
    <2>1. CASE n \in DefNames
      BY <2>1 DEF EtcInv, Apart
    <2>2. CASE n \notin DefNames
      <3>1. n \in TableNames
        BY <2>2, NamesFact
      <3> QED BY <3>1
    <2> QED BY <2>1, <2>2
  <1>7. Exists(fs', USER_DEFAULTS_FILE) => IsSeq(Contents(fs', USER_DEFAULTS_FILE))
    BY <1>1 DEF EtcInv
  <1>8. EtcInv'
    BY <1>4, <1>5, <1>6, <1>7, EtcJoin
  <1> QED BY <1>1, <1>8 DEF DefStep

(* No file changes. *)
LEMMA QuietStep ==
    ASSUME EtcInv, NEW p \in Procs, OthersLike(p), PcOthers(p), fs' = fs,
           r'[p].fd = r[p].fd, Owned(p)', NewOK(p)',
           pc'[p] \in Making => /\ r'[p].new_file = r[p].new_file
                                /\ pc[p] \in Making
    PROVE  EtcInv' /\ DefStep
  <1>1. \A n \in TableNames : fs'.dir[n] # NoFile => \A m \in DefNames : fs.dir[m] # fs'.dir[n]
    BY NamesFact DEF EtcInv, Apart
  <1>2. Clean(fs', NextOpen(p))
    BY OpenNext DEF EtcInv
  <1> QED BY <1>1, <1>2, SafeStep

(* A step of main that has nothing to do with files. *)
LEMMA IdleStep ==
    ASSUME EtcInv, NEW p \in Procs, OthersLike(p), PcOthers(p), fs' = fs,
           pc[p] \notin Writing \union Updating, r'[p].fd = r[p].fd,
           pc'[p] \notin Making \union Updating
    PROVE  EtcInv' /\ DefStep
  <1>1. r[p].fd = NoFile
    BY DEF EtcInv, Owned
  <1>2. Owned(p)' /\ NewOK(p)'
    BY <1>1 DEF Owned, NewOK, Making, Writing, Updating
  <1>3. pc'[p] \in Making => /\ r'[p].new_file = r[p].new_file /\ pc[p] \in Making
    OBVIOUS
  <1> QED BY <1>2, <1>3, QuietStep

-----------------------------------------------------------------------------
(* Steps that change no file *)

LEMMA GotoFx ==
    ASSUME pc \in [Procs -> Labels], NEW p \in Procs, NEW label \in Ahead, Goto(p, label)
    PROVE  pc' \in [Procs -> Labels] /\ PcOthers(p) /\ pc'[p] = label
  <1>1. label \in Labels /\ label # "off"
    BY DEF Ahead
  <1> HIDE DEF Labels
  <1> QED BY <1>1 DEF Goto, PcOthers

LEMMA LabelIn ==
    /\ {"done", "dead"} \subseteq Ahead /\ Making \subseteq Ahead /\ Updating \subseteq Ahead
    /\ {"mkstemps", "name", "group", "uid", "gid", "usr", "open", "bak", "swap", "groups",
        "scan", "home", "mkdir", "chown", "skel", "mail"} \subseteq Ahead
  BY DEF Ahead, Labels, Over, Making, Updating

LEMMA SameRows ==
    ASSUME NEW V, RowsTyped(V), UNCHANGED r
    PROVE  (\E W : RowsTyped(W)') /\ \A p \in Procs : Like(p)
  <1>1. RowsTyped(V)'
    BY DEF RowsTyped
  <1>2. \A p \in Procs : Like(p)
    BY DEF Like, EtcSame, HomeSame
  <1> QED BY <1>1, <1>2

\* The label of a step that touches no file.
Plain == Ahead \ (Making \union Updating)

\* A step of p is one from label a to label b that changes no file.
Slips(p, b) ==
    /\ \E W : RowsTyped(W)'
    /\ OthersLike(p) /\ EtcSame(p) /\ PcOthers(p)
    /\ pc' \in [Procs -> Labels] /\ pc'[p] = b
    /\ fs' = fs

LEMMA QuitFx ==
    ASSUME NEW V, RowsTyped(V), pc \in [Procs -> Labels], NEW p \in Procs, NEW s, Quit(p, s),
           fs' = fs
    PROVE  Slips(p, "done") /\ HomeSame(p) /\ r'[p].then = r[p].then /\ r'[p].g.exit = s
  <1>1. "done" \in Ahead
    BY LabelIn
  <1>2. Goto(p, "done") /\ r' = [r EXCEPT ![p].g.exit = s]
    BY DEF Quit
  <1> QED BY <1>1, <1>2, GotoFx, ExitFx DEF Slips

LEMMA StayFx ==
    ASSUME NEW V, RowsTyped(V), pc \in [Procs -> Labels], NEW p \in Procs, NEW b \in Ahead,
           Goto(p, b), UNCHANGED r, fs' = fs
    PROVE  Slips(p, b) /\ Like(p)
  <1>1. Like(p) /\ OthersLike(p) /\ \E W : RowsTyped(W)'
    BY SameRows DEF OthersLike
  <1>2. EtcSame(p)
    BY <1>1 DEF Like
  <1> QED BY <1>1, <1>2, GotoFx DEF Slips

LEMMA CheckNameFx ==
    ASSUME NEW V, RowsTyped(V), pc \in [Procs -> Labels], NEW p \in Procs, CheckName(p)
    PROVE  /\ \E b \in {"done", "group", "uid"} : Slips(p, b)
           /\ HomeSame(p)
           /\ pc'[p] = "done" => r'[p].g.exit = E_NAME_IN_USE
  <1>1. fs' = fs
    BY DEF CheckName, Etc
  <1>2. CASE Quit(p, E_NAME_IN_USE)
    BY <1>1, <1>2, QuitFx DEF Slips
  <1>3. ASSUME NEW b \in {"group", "uid"}, Goto(p, b), UNCHANGED r
        PROVE  Slips(p, b) /\ HomeSame(p) /\ pc'[p] = b
    BY <1>1, <1>3, StayFx, LabelIn DEF Slips, Like
  <1> QED BY <1>2, <1>3 DEF CheckName

LEMMA CheckGroupFx ==
    ASSUME NEW V, RowsTyped(V), pc \in [Procs -> Labels], NEW p \in Procs, CheckGroup(p)
    PROVE  /\ \E b \in {"done", "uid"} : Slips(p, b)
           /\ HomeSame(p)
           /\ pc'[p] = "done" => r'[p].g.exit = E_NAME_IN_USE
  <1>1. fs' = fs
    BY DEF CheckGroup, Etc
  <1>2. CASE Quit(p, E_NAME_IN_USE)
    BY <1>1, <1>2, QuitFx DEF Slips
  <1>3. ASSUME Goto(p, "uid"), UNCHANGED r
        PROVE  Slips(p, "uid") /\ HomeSame(p) /\ pc'[p] = "uid"
    BY <1>1, <1>3, StayFx, LabelIn DEF Slips, Like
  <1> QED BY <1>2, <1>3 DEF CheckGroup

LEMMA PickUidFx ==
    ASSUME NEW V, RowsTyped(V), pc \in [Procs -> Labels], NEW p \in Procs, PickUid(p)
    PROVE  /\ \E b \in {"done", "gid", "usr"} : Slips(p, b)
           /\ r'[p].added = r[p].added /\ r'[p].copied = r[p].copied
           /\ r'[p].failed = r[p].failed
           /\ r'[p].g.home = r[p].g.home /\ r'[p].g.skel = r[p].g.skel
           /\ pc'[p] = "done" => r'[p].g.exit = E_UID_IN_USE
  <1> DEFINE next == IF Has(p, "U") THEN "gid" ELSE "usr"
             uid == NextId(Ids(Contents(fs, "passwd")), 1000)
  <1>1. fs' = fs
    BY DEF PickUid, Etc
  <1>2. CASE Quit(p, E_UID_IN_USE)
    BY <1>1, <1>2, QuitFx DEF Slips, HomeSame
  <1>3. next \in {"gid", "usr"} /\ next \in Ahead
    BY LabelIn
  <1>4. ASSUME Goto(p, next), UNCHANGED r
        PROVE  /\ Slips(p, next) /\ HomeSame(p) /\ pc'[p] = next
    <2> HIDE DEF next
    <2> QED BY <1>1, <1>3, <1>4, StayFx DEF Slips, Like
  <1>5. ASSUME Goto(p, next), r' = [r EXCEPT ![p].uid = uid]
        PROVE  /\ Slips(p, next) /\ pc'[p] = next
               /\ r'[p].added = r[p].added /\ r'[p].copied = r[p].copied
               /\ r'[p].failed = r[p].failed
               /\ r'[p].g.home = r[p].g.home /\ r'[p].g.skel = r[p].g.skel
    <2> HIDE DEF next, uid
    <2>1. /\ \E W : RowsTyped(W)'
          /\ OthersLike(p) /\ EtcSame(p) /\ r'[p].added = r[p].added
          /\ r'[p].copied = r[p].copied /\ r'[p].failed = r[p].failed /\ r'[p].g = r[p].g
      BY <1>5, UidFx
    <2>2. pc' \in [Procs -> Labels] /\ PcOthers(p) /\ pc'[p] = next
      BY <1>3, <1>5, GotoFx
    <2> QED BY <1>1, <2>1, <2>2 DEF Slips
  <1>6. \/ Quit(p, E_UID_IN_USE)
        \/ Goto(p, next) /\ (UNCHANGED r \/ r' = [r EXCEPT ![p].uid = uid])
    BY DEF PickUid
  <1> HIDE DEF next, uid
  <1>7. "gid" # "done" /\ "usr" # "done"
    OBVIOUS
  <1> QED BY <1>2, <1>3, <1>4, <1>5, <1>6, <1>7 DEF HomeSame

LEMMA AddGroupFx ==
    ASSUME NEW V, RowsTyped(V), pc \in [Procs -> Labels], NEW p \in Procs, AddGroup(p)
    PROVE  /\ Slips(p, "open")
           /\ r'[p].added = r[p].added /\ r'[p].copied = r[p].copied
           /\ r'[p].failed = r[p].failed
           /\ r'[p].g = r[p].g /\ r'[p].then = "usr"
  <1> DEFINE gid == NextId(Ids(Groups), 0)
             e == [name |-> r[p].g.name, id |-> gid, mem |-> <<>>]
  <1>1. fs' = fs /\ Goto(p, "open")
    BY DEF AddGroup, Etc
  <1>2. r' = [r EXCEPT ![p] = [Prepare(p, "group", e, "usr") EXCEPT !.gid = gid]]
    BY DEF AddGroup
  <1> HIDE DEF gid, e
  <1>3. "group" \in Tables /\ "open" \in Ahead
    BY LabelIn DEF Tables
  <1>4. /\ \E W : RowsTyped(W)'
        /\ OthersLike(p) /\ EtcSame(p) /\ r'[p].added = r[p].added /\ r'[p].copied = r[p].copied
        /\ r'[p].failed = r[p].failed
        /\ r'[p].then = "usr" /\ r'[p].g = r[p].g
    BY <1>2, <1>3, PrepareGidFx
  <1> QED BY <1>1, <1>3, <1>4, GotoFx DEF Slips

LEMMA UsrUpdateFx ==
    ASSUME NEW V, RowsTyped(V), pc \in [Procs -> Labels], NEW p \in Procs, UsrUpdate(p)
    PROVE  Slips(p, "open") /\ HomeSame(p) /\ r'[p].then = "groups"
  <1>1. fs' = fs /\ Goto(p, "open")
    BY DEF UsrUpdate, Etc
  <1>2. r' = [r EXCEPT ![p] = Prepare(p, "passwd", NewPwent(p), "groups")]
    BY DEF UsrUpdate
  <1>3. "passwd" \in Tables /\ "open" \in Ahead
    BY LabelIn DEF Tables
  <1>4. /\ \E W : RowsTyped(W)'
        /\ OthersLike(p) /\ EtcSame(p) /\ HomeSame(p) /\ r'[p].then = "groups"
    BY <1>2, <1>3, PrepareFx
  <1> QED BY <1>1, <1>3, <1>4, GotoFx DEF Slips

LEMMA GrpUpdateFx ==
    ASSUME NEW V, RowsTyped(V), pc \in [Procs -> Labels], NEW p \in Procs, GrpUpdate(p)
    PROVE  \E b \in {"scan", "home"} : Slips(p, b) /\ HomeSame(p)
  <1>1. fs' = fs
    BY DEF GrpUpdate, Etc
  <1>2. "scan" \in Ahead /\ "home" \in Ahead
    BY LabelIn
  <1>3. CASE Goto(p, "home") /\ UNCHANGED r
    BY <1>1, <1>2, <1>3, StayFx DEF Like
  <1>4. CASE r' = [r EXCEPT ![p].stream = Groups] /\ Goto(p, "scan")
    <2>1. /\ \E W : RowsTyped(W)'
          /\ OthersLike(p) /\ EtcSame(p) /\ HomeSame(p)
      BY <1>4, StreamFx
    <2>2. pc' \in [Procs -> Labels] /\ PcOthers(p) /\ pc'[p] = "scan"
      BY <1>2, <1>4, GotoFx
    <2> QED BY <1>1, <2>1, <2>2 DEF Slips
  <1> QED BY <1>3, <1>4 DEF GrpUpdate

LEMMA ScanGroupsFx ==
    ASSUME NEW V, RowsTyped(V), pc \in [Procs -> Labels], NEW p \in Procs, ScanGroups(p)
    PROVE  \E b \in {"home", "open"} : Slips(p, b) /\ HomeSame(p)
  <1>1. fs' = fs
    BY DEF ScanGroups, Etc
  <1>2. "open" \in Ahead /\ "home" \in Ahead /\ "group" \in Tables
    BY LabelIn DEF Tables
  <1>3. CASE Goto(p, "home") /\ UNCHANGED r
    BY <1>1, <1>2, <1>3, StayFx DEF Like
  <1>4. ASSUME NEW e, r' = [r EXCEPT ![p] = Prepare(p, "group", e, "scan")], Goto(p, "open")
        PROVE  Slips(p, "open") /\ HomeSame(p)
    <2>1. /\ \E W : RowsTyped(W)'
          /\ OthersLike(p) /\ EtcSame(p) /\ HomeSame(p)
      BY <1>2, <1>4, PrepareFx
    <2>2. pc' \in [Procs -> Labels] /\ PcOthers(p) /\ pc'[p] = "open"
      BY <1>2, <1>4, GotoFx
    <2> QED BY <1>1, <2>1, <2>2 DEF Slips
  <1> QED BY <1>3, <1>4 DEF ScanGroups

LEMMA GrDupDiesFx ==
    ASSUME NEW V, RowsTyped(V), pc \in [Procs -> Labels], NEW p \in Procs, GrDupDies(p)
    PROVE  Slips(p, "dead") /\ HomeSame(p)
  <1>1. fs' = fs /\ Goto(p, "dead") /\ r' = [r EXCEPT ![p].g.exit = Killed]
    BY DEF GrDupDies, Etc
  <1>2. "dead" \in Ahead
    BY LabelIn DEF Over
  <1> QED BY <1>1, <1>2, GotoFx, ExitFx DEF Slips

LEMMA CreateHomeFx ==
    ASSUME NEW V, RowsTyped(V), pc \in [Procs -> Labels], NEW p \in Procs, CreateHome(p)
    PROVE  /\ \E b \in {"mkdir", "mail"} : Slips(p, b)
           /\ HomeSame(p)
  <1>1. fs' = fs /\ UNCHANGED r
    BY DEF CreateHome, Etc
  <1>2. PICK b \in {"mkdir", "mail"} : Goto(p, b)
    BY DEF CreateHome
  <1>3. b \in Ahead
    BY LabelIn
  <1> QED BY <1>1, <1>2, <1>3, StayFx DEF Like

LEMMA MakeHomeFx ==
    ASSUME NEW V, RowsTyped(V), pc \in [Procs -> Labels], NEW p \in Procs, MakeHome(p)
    PROVE  /\ HomeSame(p)
           /\ \/ Slips(p, "done") /\ r'[p].g.exit = E_HOMEDIR /\ home' = home
              \/ /\ Slips(p, "chown") /\ ~There(Dir(p))
                 /\ home' = Put(home, Dir(p), [uid |-> 0, gid |-> 0, mode |-> "000", files |-> <<>>])
  <1>1. fs' = fs /\ "chown" \in Ahead
    BY LabelIn DEF MakeHome
  <1>2. CASE Quit(p, E_HOMEDIR) /\ UNCHANGED home
    BY <1>1, <1>2, QuitFx
  <1>3. CASE /\ ~There(Dir(p)) /\ Goto(p, "chown") /\ UNCHANGED r
             /\ home' = Put(home, Dir(p), [uid |-> 0, gid |-> 0, mode |-> "000", files |-> <<>>])
    BY <1>1, <1>3, StayFx DEF Like
  <1> QED BY <1>2, <1>3 DEF MakeHome

LEMMA OwnHomeFx ==
    ASSUME NEW V, RowsTyped(V), pc \in [Procs -> Labels], NEW p \in Procs, OwnHome(p)
    PROVE  /\ Slips(p, "skel") /\ r'[p].added
           /\ r'[p].copied = r[p].copied /\ r'[p].uid = r[p].uid /\ r'[p].gid = r[p].gid
           /\ r'[p].g = r[p].g /\ r'[p].failed = r[p].failed
  <1>1. fs' = fs /\ Goto(p, "skel") /\ r' = [r EXCEPT ![p].added = TRUE] /\ "skel" \in Ahead
    BY LabelIn DEF OwnHome
  <1>2. /\ \E W : RowsTyped(W)'
        /\ OthersLike(p) /\ EtcSame(p) /\ r'[p].copied = r[p].copied /\ r'[p].uid = r[p].uid
        /\ r'[p].gid = r[p].gid /\ r'[p].added = TRUE /\ r'[p].g = r[p].g
        /\ r'[p].failed = r[p].failed
    BY <1>1, AddedFx
  <1> QED BY <1>1, <1>2, GotoFx DEF Slips

\* A step of copy_tree: f was not copied yet; c and m are what has been copied
\* and missed after it.
Copies(p, c, m) ==
    /\ Slips(p, "skel")
    /\ r'[p].added = r[p].added /\ r'[p].uid = r[p].uid /\ r'[p].gid = r[p].gid
    /\ r'[p].g = r[p].g /\ r'[p].copied = c /\ r'[p].failed = m

LEMMA CopiesFx ==
    ASSUME NEW V, RowsTyped(V), pc \in [Procs -> Labels], NEW p \in Procs, NEW c, NEW m,
           Noted(p, c, m),
           fs' = fs, pc' = pc, pc[p] = "skel"
    PROVE  Copies(p, c, m)
  <1>1. /\ \E W : RowsTyped(W)'
        /\ OthersLike(p) /\ EtcSame(p) /\ r'[p].added = r[p].added /\ r'[p].uid = r[p].uid
        /\ r'[p].gid = r[p].gid /\ r'[p].copied = c /\ r'[p].failed = m /\ r'[p].g = r[p].g
    BY CopiedFailedFx
  <1> QED BY <1>1 DEF Copies, Slips, PcOthers

LEMMA CopySkelFx ==
    ASSUME NEW V, RowsTyped(V), pc \in [Procs -> Labels], NEW p \in Procs, CopySkel(p)
    PROVE  \E f \in Ready(p) :
             /\ Copies(p, r[p].copied \union {f}, r[p].failed)
             /\ faults' = faults
             /\ \/ Placed(p, f) /\ PutFile(p, f, r[p].uid, r[p].gid, TRUE)
                \/ ~Placed(p, f) /\ home' = home
  <1>1. PICK f \in Ready(p) :
             /\ IF Placed(p, f) THEN PutFile(p, f, r[p].uid, r[p].gid, TRUE) ELSE UNCHANGED home
             /\ r' = [r EXCEPT ![p].copied = @ \union {f}]
    BY Zenon DEF CopySkel
  <1>2. fs' = fs /\ pc' = pc /\ pc[p] = "skel" /\ faults' = faults
    BY DEF CopySkel
  <1> DEFINE c == r[p].copied \union {f}
  <1>3. r' = [r EXCEPT ![p].copied = c]
    BY <1>1
  <1>4. c = r[p].copied \union {f}
    OBVIOUS
  <1> HIDE DEF c
  <1>5. /\ \E W : RowsTyped(W)'
        /\ OthersLike(p) /\ EtcSame(p) /\ r'[p].added = r[p].added /\ r'[p].uid = r[p].uid
        /\ r'[p].gid = r[p].gid /\ r'[p].copied = c /\ r'[p].g = r[p].g
        /\ r'[p].failed = r[p].failed
    BY <1>3, CopiedFx
  <1>6. Copies(p, c, r[p].failed)
    BY <1>2, <1>5 DEF Copies, Slips, PcOthers
  <1>7. \/ Placed(p, f) /\ PutFile(p, f, r[p].uid, r[p].gid, TRUE)
        \/ ~Placed(p, f) /\ home' = home
    BY <1>1, Zenon
  <1> QED BY <1>2, <1>4, <1>6, <1>7, Zenon

LEMMA CopyFailsFx ==
    ASSUME NEW V, RowsTyped(V), pc \in [Procs -> Labels], NEW p \in Procs, CopyFails(p)
    PROVE  /\ faults' = faults + 1 /\ Ready(p) # {}
           /\ \/ /\ r[p].copied = {} /\ home' = home
                 /\ Copies(p, Skeleton(p), {<<>>})
              \/ \E f \in Ready(p) :
                   \/ /\ home' = home
                      /\ Copies(p, r[p].copied \union {f}, r[p].failed \union {f})
                   \/ /\ \E u : \E i : PutFile(p, f, u, i, FALSE)
                      /\ Copies(p, r[p].copied \union {f}, r[p].failed \union {f})
                   \/ /\ PutFile(p, f, r[p].uid, r[p].gid, TRUE)
                      /\ Copies(p, r[p].copied \union Below(p, f), r[p].failed \union {f})
  <1>1. fs' = fs /\ pc' = pc /\ pc[p] = "skel"
    BY DEF CopyFails
  <1>2. faults' = faults + 1 /\ Ready(p) # {}
    BY DEF CopyFails, Fails
  <1>3. ASSUME NEW c, NEW m, r' = [r EXCEPT ![p].copied = c, ![p].failed = m]
        PROVE  Copies(p, c, m)
    <2>1. Noted(p, c, m)
      BY <1>3, Zenon DEF Noted
    <2> QED BY <1>1, <2>1, CopiesFx
  <1>4. CASE SkelFails(p)
    <2>1. /\ r[p].copied = {} /\ home' = home
          /\ r' = [r EXCEPT ![p].copied = Skeleton(p), ![p].failed = {<<>>}]
      BY <1>4, Zenon DEF SkelFails
    <2>2. Copies(p, Skeleton(p), {<<>>})
      BY <1>3, <2>1, Zenon
    <2> QED BY <1>2, <2>1, <2>2
  <1>5. ASSUME NEW f \in Ready(p), EntryFails(p, f)
        PROVE  \/ /\ home' = home
                  /\ Copies(p, r[p].copied \union {f}, r[p].failed \union {f})
               \/ /\ \E u : \E i : PutFile(p, f, u, i, FALSE)
                  /\ Copies(p, r[p].copied \union {f}, r[p].failed \union {f})
               \/ /\ PutFile(p, f, r[p].uid, r[p].gid, TRUE)
                  /\ Copies(p, r[p].copied \union Below(p, f), r[p].failed \union {f})
    <2> DEFINE c == r[p].copied \union {f}
               b == r[p].copied \union Below(p, f)
               m == r[p].failed \union {f}
    <2>1. \/ home' = home /\ r' = [r EXCEPT ![p].copied = c, ![p].failed = m]
          \/ /\ \E u : \E i : PutFile(p, f, u, i, FALSE)
             /\ r' = [r EXCEPT ![p].copied = c, ![p].failed = m]
          \/ /\ PutFile(p, f, r[p].uid, r[p].gid, TRUE)
             /\ r' = [r EXCEPT ![p].copied = b, ![p].failed = m]
      BY <1>5, Zenon DEF EntryFails
    <2> HIDE DEF c, b, m
    <2>2. \/ home' = home /\ Copies(p, c, m)
          \/ (\E u : \E i : PutFile(p, f, u, i, FALSE)) /\ Copies(p, c, m)
          \/ PutFile(p, f, r[p].uid, r[p].gid, TRUE) /\ Copies(p, b, m)
      BY <1>3, <2>1, Zenon
    <2> QED BY <2>2, Zenon DEF c, b, m
  <1>6. SkelFails(p) \/ \E f \in Ready(p) : EntryFails(p, f)
    BY DEF CopyFails
  <1> QED BY <1>2, <1>4, <1>5, <1>6, Zenon

LEMMA CopyDoneFx ==
    ASSUME NEW V, RowsTyped(V), pc \in [Procs -> Labels], NEW p \in Procs, CopyDone(p)
    PROVE  Slips(p, "mail") /\ HomeSame(p)
  <1>1. fs' = fs /\ UNCHANGED r /\ Goto(p, "mail") /\ "mail" \in Ahead
    BY LabelIn DEF CopyDone, Etc
  <1> QED BY <1>1, StayFx DEF Like

LEMMA CreateMailFx ==
    ASSUME NEW V, RowsTyped(V), pc \in [Procs -> Labels], NEW p \in Procs, CreateMail(p)
    PROVE  Slips(p, "done") /\ HomeSame(p)
  <1>1. fs' = fs /\ Quit(p, E_SUCCESS)
    BY DEF CreateMail
  <1> QED BY <1>1, QuitFx

\* What is to be shown of each step.
Fine == Typed' /\ EtcInv' /\ DefStep

LEMMA SlipStep ==
    ASSUME Typed, EtcInv, NEW p \in Procs, NEW b \in Plain, Slips(p, b),
           pc[p] \notin Writing \union Updating, faults' \in Nat
    PROVE  Fine
  <1>1. fs' = fs /\ OthersLike(p) /\ PcOthers(p) /\ r'[p].fd = r[p].fd /\ pc'[p] = b
    BY DEF Slips, EtcSame
  <1>2. pc'[p] \notin Making \union Updating
    BY <1>1 DEF Plain
  <1>3. EtcInv' /\ DefStep
    BY <1>1, <1>2, IdleStep
  <1>4. \E V : fs' \in FS(V)
    BY <1>1 DEF Typed
  <1>5. (\E V : r' \in [Procs -> RSet(V)]) /\ pc' \in [Procs -> Labels]
    BY DEF Slips, RowsTyped
  <1> QED BY <1>3, <1>4, <1>5 DEF Fine, Typed

LEMMA PlainIs ==
    {"done", "dead", "mkstemps", "name", "group", "uid", "gid", "usr", "open", "bak",
     "swap", "groups", "scan", "home", "mkdir", "chown", "skel", "mail"} \subseteq Plain
  BY LabelIn DEF Plain, Over, Making, Updating

\* The actions of main that touch no file.
Quietly(p) ==
    \/ CheckName(p) \/ CheckGroup(p) \/ PickUid(p) \/ AddGroup(p) \/ UsrUpdate(p)
    \/ GrpUpdate(p) \/ ScanGroups(p) \/ GrDupDies(p)
    \/ CreateHome(p) \/ MakeHome(p) \/ OwnHome(p) \/ CopySkel(p) \/ CopyFails(p) \/ CopyDone(p)
    \/ CreateMail(p)

LEMMA QuietLabels ==
    ASSUME NEW p \in Procs, Quietly(p), faults \in Nat
    PROVE  pc[p] \notin Writing \union Updating /\ faults' \in Nat
  <1>1. pc[p] \in {"name", "group", "uid", "gid", "usr", "groups", "scan", "home", "mkdir",
                   "chown", "skel", "mail"}
    BY DEF Quietly, CheckName, CheckGroup, PickUid, AddGroup, UsrUpdate, GrpUpdate, ScanGroups,
           GrDupDies, CreateHome, MakeHome, OwnHome, CopySkel, CopyFails, CopyDone, CreateMail
  <1>2. faults' = faults \/ faults' = faults + 1
    <2>1. CASE CopySkel(p) \/ CopyFails(p)
      BY <2>1 DEF CopySkel, CopyFails, Fails
    <2>2. CASE MakeHome(p) \/ CreateMail(p)
      BY <2>2 DEF MakeHome, CreateMail, Fails
    <2>3. CASE ~(CopySkel(p) \/ CopyFails(p)) /\ ~(MakeHome(p) \/ CreateMail(p))
      BY <2>3 DEF Quietly, CheckName, CheckGroup, PickUid, AddGroup, UsrUpdate, GrpUpdate,
           ScanGroups, GrDupDies, CreateHome, OwnHome, CopyDone, Etc
    <2> QED BY <2>1, <2>2, <2>3
  <1> QED BY <1>1, <1>2 DEF Writing, Updating

LEMMA QuietFine ==
    ASSUME Typed, EtcInv, NEW p \in Procs, Quietly(p)
    PROVE  Fine
  <1>1. PICK V : RowsTyped(V)
    BY DEF Typed, RowsTyped
  <1>2. pc \in [Procs -> Labels] /\ faults \in Nat
    BY DEF Typed
  <1>3. pc[p] \notin Writing \union Updating /\ faults' \in Nat
    BY <1>2, QuietLabels
  <1>4. \E b \in Plain : Slips(p, b)
    <2>1. CASE CheckName(p)
      BY <1>1, <1>2, <2>1, CheckNameFx, PlainIs
    <2>2. CASE CheckGroup(p)
      BY <1>1, <1>2, <2>2, CheckGroupFx, PlainIs
    <2>3. CASE PickUid(p)
      BY <1>1, <1>2, <2>3, PickUidFx, PlainIs
    <2>4. CASE AddGroup(p)
      BY <1>1, <1>2, <2>4, AddGroupFx, PlainIs
    <2>5. CASE UsrUpdate(p)
      BY <1>1, <1>2, <2>5, UsrUpdateFx, PlainIs
    <2>6. CASE GrpUpdate(p)
      BY <1>1, <1>2, <2>6, GrpUpdateFx, PlainIs
    <2>7. CASE ScanGroups(p)
      BY <1>1, <1>2, <2>7, ScanGroupsFx, PlainIs
    <2>8. CASE GrDupDies(p)
      BY <1>1, <1>2, <2>8, GrDupDiesFx, PlainIs
    <2>9. CASE CreateHome(p)
      BY <1>1, <1>2, <2>9, CreateHomeFx, PlainIs
    <2>10. CASE MakeHome(p)
      BY <1>1, <1>2, <2>10, MakeHomeFx, PlainIs
    <2>11. CASE OwnHome(p)
      BY <1>1, <1>2, <2>11, OwnHomeFx, PlainIs
    <2>12. CASE CopySkel(p)
      BY <1>1, <1>2, <2>12, CopySkelFx, PlainIs DEF Copies
    <2>13. CASE CopyDone(p)
      BY <1>1, <1>2, <2>13, CopyDoneFx, PlainIs
    <2>14. CASE CreateMail(p)
      BY <1>1, <1>2, <2>14, CreateMailFx, PlainIs
    <2>15. CASE CopyFails(p)
      <3>1. Slips(p, "skel")
        BY <1>1, <1>2, <2>15, CopyFailsFx DEF Copies
      <3> QED BY <3>1, PlainIs
    <2> QED BY <2>1, <2>2, <2>3, <2>4, <2>5, <2>6, <2>7, <2>8, <2>9, <2>10, <2>11, <2>12,
               <2>13, <2>14, <2>15 DEF Quietly
  <1> QED BY <1>3, <1>4, SlipStep

(* The first half of main: the options, and then -D or a new user. *)
LEMMA BranchIs ==
    ASSUME NEW g
    PROVE  Branch(g) \in {"done", "mkstemps", "name"}
  BY DEF Branch

LEMMA FlagsFine ==
    ASSUME EtcInv, NEW c \in 1..Len(Commands), NEW lines \in {Defaults, <<>>}
    PROVE  \E W : process_flags(Commands[c], lines, Groups) \in GSet(W)
  <1>1. IsSeq(Commands[c].opts)
    BY CommandsAssumption
  <1>2. IsSeq(Defaults)
    <2>1. CASE Exists(fs, USER_DEFAULTS_FILE)
      BY <2>1 DEF EtcInv
    <2>2. CASE ~Exists(fs, USER_DEFAULTS_FILE)
      BY <2>2 DEF Defaults, Contents, IsSeq
    <2> QED BY <2>1, <2>2
  <1>3. IsSeq(<<>>)
    BY DEF IsSeq
  <1> QED BY <1>1, <1>2, <1>3, FlagsType

LEMMA StartIs ==
    ASSUME NEW V, RowsTyped(V), EtcInv, pc \in [Procs -> Labels], NEW p \in Procs, Start(p)
    PROVE  /\ \E W : RowsTyped(W)'
           /\ OthersLike(p) /\ PcOthers(p) /\ pc' \in [Procs -> Labels]
           /\ pc'[p] \in {"done", "mkstemps", "name"} /\ pc[p] = "off"
           /\ r'[p].fd = NoFile /\ ~r'[p].added /\ r'[p].copied = {} /\ r'[p].then = "done"
           /\ r'[p].failed = {} /\ (faults' = faults \/ faults' = faults + 1)
           /\ fs' = fs /\ home' = home
  <1>0. PICK lines \in {Defaults, <<>>} :
          /\ faults' = faults \/ faults' = faults + 1
          /\ \E c \in {k \in 1..Len(Commands) : Running = {} \/ k \in Overlap} :
              \E g \in {process_flags(Commands[c], lines, Groups)} :
                LET shown == Branch(g) = "done" /\ g.exit = GoesOn
                IN  /\ r' = [q \in Procs |->
                              IF q = p
                              THEN [Idle EXCEPT !.g = IF shown THEN Leaves(g, E_SUCCESS) ELSE g,
                                                !.uid = g.uid, !.gid = g.gid,
                                                !.alone = Running = {}]
                              ELSE [r[q] EXCEPT !.alone = @ /\ q \notin Running]]
                    /\ Goto(p, Branch(g))
    BY Zenon DEF Start, CannotOpen, Fails
  <1>1. PICK c \in {k \in 1..Len(Commands) : Running = {} \/ k \in Overlap} :
          \E g \in {process_flags(Commands[c], lines, Groups)} :
            LET shown == Branch(g) = "done" /\ g.exit = GoesOn
            IN  /\ r' = [q \in Procs |->
                          IF q = p
                          THEN [Idle EXCEPT !.g = IF shown THEN Leaves(g, E_SUCCESS) ELSE g,
                                            !.uid = g.uid, !.gid = g.gid,
                                            !.alone = Running = {}]
                          ELSE [r[q] EXCEPT !.alone = @ /\ q \notin Running]]
                /\ Goto(p, Branch(g))
    BY <1>0, Zenon
  <1> DEFINE g == process_flags(Commands[c], lines, Groups)
             shown == Branch(g) = "done" /\ g.exit = GoesOn
             gg == IF shown THEN Leaves(g, E_SUCCESS) ELSE g
             Rest(q) == r[q].alone /\ q \notin Running
             rest == [q \in Procs |-> Rest(q)]
             none == Running = {}
  <1>2. PICK U : g \in GSet(U)
    BY FlagsFine
  <1>3. gg \in GSet(U \union {E_SUCCESS})
    <2>1. g \in GSet(U \union {E_SUCCESS})
      BY <1>2, Grows
    <2> HIDE DEF g
    <2>2. Leaves(g, E_SUCCESS) \in GSet(U \union {E_SUCCESS})
      BY <2>1, Sets DEF Leaves
    <2> QED BY <2>1, <2>2
  <1>4. Goto(p, Branch(g)) /\ Branch(g) \in {"done", "mkstemps", "name"}
    <2>1. Goto(p, Branch(g))
      BY <1>1, Zenon
    <2> QED BY <2>1, BranchIs
  <1>5. Begun(p, gg, g.uid, g.gid, none, rest)
    <2>1. r' = [q \in Procs |-> IF q = p THEN [Idle EXCEPT !.g = gg, !.uid = g.uid, !.gid = g.gid,
                                                           !.alone = none]
                                ELSE [r[q] EXCEPT !.alone = Rest(q)]]
      BY <1>1, Zenon
    <2>2. \A q \in Procs : rest[q] = Rest(q)
      OBVIOUS
    <2> HIDE DEF rest, Rest, gg, g, none
    <2> QED BY <2>1, <2>2, Zenon DEF Begun
  <1> HIDE DEF g, gg, rest, none
  <1>6. /\ \E W : RowsTyped(W)'
        /\ OthersLike(p)
        /\ r'[p].fd = NoFile /\ r'[p].added = FALSE /\ r'[p].copied = {} /\ r'[p].then = "done"
        /\ r'[p].failed = {}
    <2>1. ~r[p].unread
      BY DEF Start, EtcInv, Fresh
    <2> QED BY <1>2, <1>3, <1>5, <2>1, StartFx
  <1>7. Branch(g) \in Ahead
    BY <1>4, LabelIn
  <1>8. pc' \in [Procs -> Labels] /\ PcOthers(p) /\ pc'[p] = Branch(g)
    BY <1>4, <1>7, GotoFx
  <1>9. pc[p] = "off" /\ fs' = fs /\ home' = home
    BY DEF Start
  <1> QED BY <1>0, <1>4, <1>6, <1>8, <1>9

LEMMA StartFine ==
    ASSUME Typed, EtcInv, NEW p \in Procs, Start(p)
    PROVE  Fine
  <1>1. PICK V : RowsTyped(V)
    BY DEF Typed, RowsTyped
  <1>2. /\ \E W : RowsTyped(W)'
        /\ OthersLike(p) /\ PcOthers(p) /\ pc' \in [Procs -> Labels]
        /\ pc'[p] \in {"done", "mkstemps", "name"} /\ pc[p] = "off"
        /\ r'[p].fd = NoFile /\ fs' = fs /\ faults' \in Nat
    <2>1. pc \in [Procs -> Labels] /\ faults \in Nat
      BY DEF Typed
    <2> QED BY <1>1, <2>1, StartIs
  <1>3. r[p].fd = NoFile
    BY <1>2 DEF EtcInv, Owned, Writing, Updating
  <1>4. EtcInv' /\ DefStep
    <2>1. pc[p] \notin Writing \union Updating /\ pc'[p] \notin Making \union Updating
      BY <1>2 DEF Writing, Updating, Making
    <2> QED BY <1>2, <1>3, <2>1, IdleStep
  <1> QED BY <1>2, <1>4 DEF Fine, Typed, RowsTyped

-----------------------------------------------------------------------------
(* Steps that change files *)

LEMMA TypedJoin ==
    ASSUME NEW W, fs' \in FS(W), \E V : RowsTyped(V)', pc' \in [Procs -> Labels], faults' \in Nat
    PROVE  Typed'
  BY DEF Typed, RowsTyped

\* The file system and the rows of a typed state.
LEMMA TypedParts ==
    ASSUME Typed
    PROVE  /\ \E V : fs \in FS(V)
           /\ \E V : RowsTyped(V)
           /\ pc \in [Procs -> Labels] /\ faults \in Nat
           /\ \A n \in Names : fs.dir[n] \in 0..Files /\ (fs.dir[n] # NoFile => fs.dir[n] \in 1..Files)
  <1>1. \A V : fs \in FS(V) => \A n \in Names : fs.dir[n] \in 0..Files
    BY DEF FS
  <1>2. \A i \in 0..Files : i # NoFile => i \in 1..Files
    BY FilesAssumption DEF NoFile
  <1> QED BY <1>1, <1>2 DEF Typed, RowsTyped

(* An invocation ends; a file that only it had open is gone. *)
LEMMA EndStep ==
    ASSUME Typed, EtcInv, NEW p \in Procs, OthersLike(p), PcOthers(p),
           fs' = Collect(fs, OpenBut(p)), r'[p].fd = NoFile, pc'[p] \in Over
    PROVE  EtcInv' /\ DefStep /\ \E W : fs' \in FS(W)
  <1>1. PICK V : fs \in FS(V)
    BY TypedParts
  <1>2. /\ fs' \in FS(V \union {<<>>}) /\ fs'.dir = fs.dir
        /\ \A i \in 1..Files : NamedIn(fs, i) => fs'.data[i] = fs.data[i]
        /\ Clean(fs', OpenBut(p))
    BY <1>1, CollectFact
  <1>3. \A n \in DefNames :
          /\ fs'.dir[n] = fs.dir[n]
          /\ fs.dir[n] # NoFile => fs'.data[fs.dir[n]] = fs.data[fs.dir[n]]
    BY <1>2, TypedParts, NamesFact DEF NamedIn
  <1>4. \A n \in TableNames : fs'.dir[n] # NoFile => \A m \in DefNames : fs.dir[m] # fs'.dir[n]
    BY <1>2, NamesFact DEF EtcInv, Apart
  <1>5. Clean(fs', NextOpen(p))
    BY <1>2, OpenNext
  <1>6. pc'[p] \notin Making \union Updating \union Writing
    BY DEF Over, Making, Updating, Writing
  <1>7. Owned(p)' /\ NewOK(p)'
    BY <1>6 DEF Owned, NewOK, Making
  <1>8. EtcInv' /\ DefStep
    BY <1>3, <1>4, <1>5, <1>6, <1>7, SafeStep
  <1> QED BY <1>2, <1>8

LEMMA CrashFine ==
    ASSUME Typed, EtcInv, NEW p \in Procs, Crash(p)
    PROVE  Fine
  <1>1. PICK V : RowsTyped(V)
    BY TypedParts
  <1>2. /\ Goto(p, "dead") /\ faults' = faults + 1
        /\ r' = [r EXCEPT ![p].g.exit = Killed, ![p].fd = NoFile]
        /\ fs' = Collect(fs, OpenBut(p))
    BY DEF Crash, Fails
  <1>3. (\E W : RowsTyped(W)') /\ OthersLike(p) /\ r'[p].fd = NoFile
    BY <1>1, <1>2, GiveUpFx
  <1>4. "dead" \in Ahead /\ "dead" \in Over
    BY LabelIn DEF Over
  <1>5. pc' \in [Procs -> Labels] /\ PcOthers(p) /\ pc'[p] = "dead" /\ faults' \in Nat
    BY <1>2, <1>4, TypedParts, GotoFx
  <1>6. EtcInv' /\ DefStep /\ \E W : fs' \in FS(W)
    BY <1>2, <1>3, <1>4, <1>5, EndStep
  <1> QED BY <1>3, <1>5, <1>6, TypedJoin DEF Fine

(* What giving up does, but for the files. *)
LEMMA GiveUpIs ==
    ASSUME Typed, NEW p \in Procs, NEW f, GiveUp(p, f)
    PROVE  /\ \E W : RowsTyped(W)'
           /\ OthersLike(p) /\ PcOthers(p) /\ HomeSame(p) /\ r'[p].fd = NoFile
           /\ r'[p].g.exit = 1
           /\ pc' \in [Procs -> Labels] /\ pc'[p] = "done" /\ pc'[p] \in Over
           /\ fs' = Collect(f, OpenBut(p))
  <1>1. PICK V : RowsTyped(V)
    BY TypedParts
  <1>2. /\ Goto(p, "done") /\ r' = [r EXCEPT ![p].g.exit = 1, ![p].fd = NoFile]
        /\ fs' = Collect(f, OpenBut(p))
    BY DEF GiveUp
  <1>3. /\ \E W : RowsTyped(W)'
        /\ OthersLike(p) /\ HomeSame(p) /\ r'[p].g.exit = 1 /\ r'[p].fd = NoFile
    BY <1>1, <1>2, GiveUpFx
  <1>4. "done" \in Ahead /\ "done" \in Over
    BY LabelIn DEF Over
  <1>5. pc' \in [Procs -> Labels] /\ PcOthers(p) /\ pc'[p] = "done"
    BY <1>2, <1>4, TypedParts, GotoFx
  <1> QED BY <1>2, <1>3, <1>4, <1>5

LEMMA GiveUpFine ==
    ASSUME Typed, EtcInv, NEW p \in Procs, GiveUp(p, fs), faults' \in Nat
    PROVE  Fine
  <1>1. /\ \E W : RowsTyped(W)'
        /\ OthersLike(p) /\ PcOthers(p) /\ r'[p].fd = NoFile
        /\ pc' \in [Procs -> Labels] /\ pc'[p] \in Over
        /\ fs' = Collect(fs, OpenBut(p))
    BY GiveUpIs
  <1>2. EtcInv' /\ DefStep /\ \E W : fs' \in FS(W)
    BY <1>1, EndStep
  <1> QED BY <1>1, <1>2, TypedJoin DEF Fine

(* The lines are taken into the buffer. *)
LEMMA BufIs ==
    ASSUME Typed, NEW p \in Procs, NEW b, NEW label \in Ahead,
           r' = [r EXCEPT ![p].buf = b], Goto(p, label), fs' = fs, faults' = faults
    PROVE  /\ Typed' /\ OthersLike(p) /\ PcOthers(p) /\ HomeSame(p) /\ pc'[p] = label
           /\ r'[p].fd = r[p].fd /\ r'[p].new_file = r[p].new_file /\ r'[p].buf = b
  <1>1. PICK V : RowsTyped(V)
    BY TypedParts
  <1>2. /\ \E W : RowsTyped(W)'
        /\ OthersLike(p) /\ HomeSame(p)
        /\ r'[p].fd = r[p].fd /\ r'[p].new_file = r[p].new_file /\ r'[p].buf = b
    BY <1>1, BufFx
  <1>3. pc' \in [Procs -> Labels] /\ PcOthers(p) /\ pc'[p] = label
    BY TypedParts, GotoFx
  <1>4. PICK W : fs' \in FS(W)
    BY TypedParts
  <1>5. Typed'
    BY <1>2, <1>3, <1>4, TypedParts, TypedJoin
  <1> QED BY <1>2, <1>3, <1>5

LEMMA CopyTableFine ==
    ASSUME Typed, EtcInv, NEW p \in Procs, CopyTable(p)
    PROVE  Fine
  <1> DEFINE b == Replaced(Contents(fs, r[p].tab), r[p].e)
  <1>1. /\ pc[p] = "copy" /\ r' = [r EXCEPT ![p].buf = b] /\ Goto(p, "close")
        /\ fs' = fs /\ faults' = faults
    BY DEF CopyTable, Etc
  <1>2. "close" \in Ahead
    BY LabelIn DEF Updating
  <1> HIDE DEF b
  <1>3. /\ Typed' /\ OthersLike(p) /\ PcOthers(p) /\ pc'[p] = "close"
        /\ r'[p].fd = r[p].fd
    BY <1>1, <1>2, BufIs
  <1>4. Owned(p)' /\ NewOK(p)'
    BY <1>1, <1>3 DEF EtcInv, Owned, NewOK, Making, Writing, Updating
  <1>5. pc'[p] \notin Making
    BY <1>3 DEF Making
  <1>6. EtcInv' /\ DefStep
    BY <1>1, <1>3, <1>4, <1>5, QuietStep
  <1> QED BY <1>3, <1>6 DEF Fine

\* The old lines set_defaults goes by.
OldOf(old) == old = Header \/ (old = Defaults /\ Exists(fs, USER_DEFAULTS_FILE))

LEMMA OldLines ==
    ASSUME EtcInv, NEW old, OldOf(old)
    PROVE  IsSeq(old)
  <1>1. Header \in Seq({Text("#", "useradd defaults file")})
    BY DEF Header
  <1>2. IsSeq(Header)
    BY <1>1, SeqIs
  <1> QED BY <1>2 DEF EtcInv, OldOf

\* The lines of the new file, and whether the old one could not be opened.
LinesTaken(p, b, u) ==
    /\ r' = [r EXCEPT ![p].buf = b, ![p].unread = u]
    /\ Goto(p, "flush") /\ fs' = fs

LEMMA LinesIs ==
    ASSUME Typed, NEW p \in Procs, NEW b, NEW u \in BOOLEAN, r[p].unread => u,
           LinesTaken(p, b, u), faults' \in Nat
    PROVE  /\ Typed' /\ OthersLike(p) /\ PcOthers(p) /\ HomeSame(p) /\ pc'[p] = "flush"
           /\ r'[p].fd = r[p].fd /\ r'[p].new_file = r[p].new_file /\ r'[p].buf = b
           /\ r'[p].unread = u
  <1>1. PICK V : RowsTyped(V)
    BY TypedParts
  <1>2. /\ \E W : RowsTyped(W)'
        /\ OthersLike(p) /\ HomeSame(p)
        /\ r'[p].fd = r[p].fd /\ r'[p].new_file = r[p].new_file /\ r'[p].buf = b
        /\ r'[p].unread = u
    <2>1. Lined(p, b, u)
      BY DEF Lined, LinesTaken
    <2> QED BY <1>1, <2>1, LinesFx
  <1>3. pc' \in [Procs -> Labels] /\ PcOthers(p) /\ pc'[p] = "flush"
    BY TypedParts, GotoFx, LabelIn DEF LinesTaken, Making
  <1>4. PICK W : fs' \in FS(W)
    BY TypedParts DEF LinesTaken
  <1>5. Typed'
    BY <1>2, <1>3, <1>4, TypedJoin
  <1> QED BY <1>2, <1>3, <1>5

LEMMA CopyLinesIs ==
    ASSUME Typed, NEW p \in Procs, CopyLines(p)
    PROVE  /\ pc[p] = "lines" /\ (faults' = faults \/ faults' = faults + 1) /\ faults' \in Nat
           /\ home' = home
           /\ \/ GiveUp(p, fs)
              \/ \E old : \E u \in BOOLEAN :
                   /\ r[p].unread => u
                   /\ OldOf(old)
                   /\ u \/ Others(old) = ToKeep
                   /\ LinesTaken(p, Complete(r[p].g, Copied(r[p].g, old)), u)
  <1>1. PICK unread \in BOOLEAN :
          /\ IF unread THEN CannotOpen(USER_DEFAULTS_FILE) ELSE UNCHANGED faults
          /\ LET old == IF Exists(fs, USER_DEFAULTS_FILE) /\ ~unread THEN Defaults ELSE Header
                 g   == r[p].g
             IN  IF TooLong(old)
                 THEN GiveUp(p, fs)
                 ELSE /\ r' = [r EXCEPT ![p].buf = Complete(g, Copied(g, old)),
                                        ![p].unread = @ \/ unread]
                      /\ Goto(p, "flush") /\ UNCHANGED fs
    BY Zenon DEF CopyLines
  <1> DEFINE there == Exists(fs, USER_DEFAULTS_FILE) /\ ~unread
             old == IF there THEN Defaults ELSE Header
             b == Complete(r[p].g, Copied(r[p].g, old))
             u == r[p].unread \/ unread
  <1>2. faults' = faults \/ faults' = faults + 1
    BY <1>1 DEF CannotOpen, Fails
  <1>3. GiveUp(p, fs) \/ LinesTaken(p, b, u)
    BY <1>1, Zenon DEF LinesTaken
  <1>4. OldOf(old) /\ (u \/ Others(old) = ToKeep)
    <2>1. CASE there
      BY <2>1 DEF OldOf, ToKeep
    <2>2. CASE ~there
      BY <2>2 DEF OldOf, ToKeep
    <2> QED BY <2>1, <2>2
  <1>5. u \in BOOLEAN /\ (r[p].unread => u)
    <2>1. PICK V : RowsTyped(V)
      BY TypedParts
    <2>2. r[p].unread \in BOOLEAN
      <3> HIDE DEF GSet
      <3> QED BY <2>1 DEF RowsTyped, RSet
    <2> QED BY <2>2
  <1>6. pc[p] = "lines" /\ home' = home
    BY DEF CopyLines
  <1>7. faults' \in Nat
    BY <1>2, TypedParts
  <1> HIDE DEF old, u
  <1> QED BY <1>2, <1>3, <1>4, <1>5, <1>6, <1>7, Zenon

LEMMA CopyLinesFine ==
    ASSUME Typed, EtcInv, NEW p \in Procs, CopyLines(p)
    PROVE  Fine
  <1>1. /\ pc[p] = "lines" /\ faults' \in Nat
        /\ \/ GiveUp(p, fs)
           \/ \E old : \E u \in BOOLEAN :
                /\ r[p].unread => u
                /\ OldOf(old)
                /\ u \/ Others(old) = ToKeep
                /\ LinesTaken(p, Complete(r[p].g, Copied(r[p].g, old)), u)
    BY CopyLinesIs
  <1>2. CASE GiveUp(p, fs)
    BY <1>1, <1>2, GiveUpFine
  <1>3. ASSUME NEW old, NEW u \in BOOLEAN, r[p].unread => u, OldOf(old),
               u \/ Others(old) = ToKeep,
               LinesTaken(p, Complete(r[p].g, Copied(r[p].g, old)), u)
        PROVE  Fine
    <2> DEFINE b == Complete(r[p].g, Copied(r[p].g, old))
    <2>1. IsSeq(old)
      BY <1>3, OldLines
    <2>2. /\ IsSeq(b)
          /\ \A k \in KeySet : HasLine(b, k)
          /\ Others(b) = Others(old)
      BY <2>1, CompleteFact
    <2>3. LinesTaken(p, b, u) /\ fs' = fs
      BY <1>3 DEF LinesTaken
    <2> HIDE DEF b
    <2>4. /\ Typed' /\ OthersLike(p) /\ PcOthers(p) /\ pc'[p] = "flush"
          /\ r'[p].fd = r[p].fd /\ r'[p].new_file = r[p].new_file /\ r'[p].buf = b
          /\ r'[p].unread = u
      BY <1>1, <1>3, <2>3, LinesIs
    <2>5. Owned(p) /\ NewOK(p)
      BY DEF EtcInv
    <2>6. Owned(p)'
      BY <1>1, <2>3, <2>4, <2>5 DEF Owned, Exists, Making, Writing, Updating
    <2>7. NewOK(p)'
      <3>1. New(p)' = <<>>
        BY <1>1, <2>3, <2>4, <2>5 DEF NewOK, New, Contents, Exists
      <3>2. ToKeep' = ToKeep
        BY <2>3 DEF ToKeep, Defaults
      <3>3. u => Unread'
        BY <2>4 DEF Unread
      <3>4. Good(r[p].buf)'
        BY <1>3, <2>2, <2>4, <3>2, <3>3 DEF Good
      <3> QED BY <2>4, <3>1, <3>4 DEF NewOK
    <2>8. pc[p] \in Making
      BY <1>1 DEF Making
    <2>9. EtcInv' /\ DefStep
      BY <2>3, <2>4, <2>6, <2>7, <2>8, QuietStep
    <2> QED BY <2>4, <2>9 DEF Fine
  <1> QED BY <1>1, <1>2, <1>3

(* gr_update and pw_update touch no file of -D. *)
LEMMA TabNames ==
    ASSUME Typed, NEW p \in Procs
    PROVE  /\ r[p].tab \in TableNames /\ Tmp[r[p].tab] \in TableNames /\ Bak[r[p].tab] \in TableNames
           /\ r[p].tab # Bak[r[p].tab] /\ Tmp[r[p].tab] # r[p].tab
           /\ r[p].then \in {"done", "usr", "groups", "scan"}
  <1>1. PICK V : RowsTyped(V)
    BY TypedParts
  <1>2. r[p].tab \in Tables /\ r[p].then \in {"done", "usr", "groups", "scan"}
    <2> HIDE DEF GSet, Tables
    <2> QED BY <1>1 DEF RowsTyped, RSet
  <1>3. CASE r[p].tab = "passwd"
    BY <1>2, <1>3 DEF Tmp, Bak, TableNames
  <1>4. CASE r[p].tab = "group"
    BY <1>2, <1>4 DEF Tmp, Bak, TableNames
  <1> QED BY <1>2, <1>3, <1>4 DEF Tables

\* A file made or emptied in /etc.
LEMMA MadeIs ==
    ASSUME Typed, EtcInv, NEW n \in Names, Room(fs, n, Open), fs' = Creat(fs, n, Open),
           NEW i, i = fs'.dir[n]
    PROVE  /\ \E W : fs' \in FS(W)
           /\ i \in 1..Files /\ i # NoFile
           /\ fs'.dir = [fs.dir EXCEPT ![n] = i]
           /\ fs'.data = [fs.data EXCEPT ![i] = <<>>]
           /\ fs'.data[i] = <<>>
           /\ \A m \in Names \ {n} : fs'.dir[m] = fs.dir[m]
           /\ \A j \in 1..Files \ {i} : fs'.data[j] = fs.data[j]
           /\ fs.dir[n] = i \/ (~Exists(fs, n) /\ i \in Unused(fs, Open))
           /\ Clean(fs', Open \union {i})
  <1>1. PICK V : fs \in FS(V)
    BY TypedParts
  <1>2. Clean(fs, Open)
    BY DEF EtcInv
  <1>3. /\ fs' \in FS(V \union {<<>>})
        /\ i \in 1..Files
        /\ fs'.dir = [fs.dir EXCEPT ![n] = i]
        /\ fs'.data = [fs.data EXCEPT ![i] = <<>>]
        /\ fs.dir[n] = i \/ (~Exists(fs, n) /\ i \in Unused(fs, Open))
    <2>1. /\ Creat(fs, n, Open) \in FS(V \union {<<>>})
          /\ Creat(fs, n, Open).dir[n] \in 1..Files
          /\ Creat(fs, n, Open).dir = [fs.dir EXCEPT ![n] = Creat(fs, n, Open).dir[n]]
          /\ Creat(fs, n, Open).data = [fs.data EXCEPT ![Creat(fs, n, Open).dir[n]] = <<>>]
          /\ \/ Exists(fs, n) /\ Creat(fs, n, Open).dir[n] = fs.dir[n]
             \/ ~Exists(fs, n) /\ Creat(fs, n, Open).dir[n] \in Unused(fs, Open)
      BY <1>1, <1>2, CreatFact
    <2>2. Creat(fs, n, Open).dir[n] = i
      BY Zenon
    <2> QED BY <2>1, <2>2, Zenon
  <1>4. fs.dir \in [Names -> 0..Files] /\ fs.data \in [1..Files -> V]
    BY <1>1 DEF FS
  <1>5. \A j \in 1..Files \ {i} : fs'.data[j] = fs.data[j]
    BY <1>3, <1>4
  <1>6. ASSUME NEW j \in Unused(fs', Open \union {i})
        PROVE  fs'.data[j] = <<>>
    <2>1. j \in 1..Files /\ j \notin Open /\ j # i /\ \A m \in Names : fs'.dir[m] # j
      BY DEF Unused
    <2>2. \A m \in Names : fs.dir[m] # j
      BY <1>3, <1>4, <2>1 DEF Exists, NoFile
    <2>3. j \in Unused(fs, Open)
      BY <2>1, <2>2 DEF Unused
    <2> QED BY <1>2, <1>5, <2>1, <2>3 DEF Clean
  <1>7. i # NoFile
    BY <1>3, FilesAssumption DEF NoFile
  <1>8. fs'.data[i] = <<>>
    BY <1>3, <1>4
  <1>9. \A m \in Names \ {n} : fs'.dir[m] = fs.dir[m]
    BY <1>3, <1>4
  <1> QED BY <1>3, <1>5, <1>6, <1>7, <1>8, <1>9 DEF Clean

LEMMA OpenTmpFine ==
    ASSUME Typed, EtcInv, NEW p \in Procs, OpenTmp(p)
    PROVE  Fine
  <1> DEFINE n == Tmp[r[p].tab]
             i == fs'.dir[n]
  <1>1. /\ pc[p] = "open" /\ Room(fs, n, Open) /\ fs' = Creat(fs, n, Open)
        /\ r' = [r EXCEPT ![p].fd = i] /\ Goto(p, "copy") /\ faults' = faults
    BY DEF OpenTmp
  <1>2. n \in TableNames /\ n \in Names
    BY TabNames, NamesFact
  <1> HIDE DEF n
  <1>3. /\ \E W : fs' \in FS(W)
        /\ i \in 1..Files /\ i # NoFile
        /\ fs'.data = [fs.data EXCEPT ![i] = <<>>]
        /\ \A m \in Names \ {n} : fs'.dir[m] = fs.dir[m]
        /\ \A j \in 1..Files \ {i} : fs'.data[j] = fs.data[j]
        /\ fs.dir[n] = i \/ (~Exists(fs, n) /\ i \in Unused(fs, Open))
        /\ Clean(fs', Open \union {i})
    BY <1>1, <1>2, MadeIs
  <1> HIDE DEF i
  <1>4. PICK V : RowsTyped(V)
    BY TypedParts
  <1>5. i \in 0..Files
    BY <1>3, FilesAssumption
  <1>6. (\E W : RowsTyped(W)') /\ OthersLike(p) /\ r'[p].fd = i
    BY <1>1, <1>4, <1>5, OpenFx
  <1>7. "copy" \in Ahead
    BY LabelIn DEF Updating
  <1>8. pc' \in [Procs -> Labels] /\ PcOthers(p) /\ pc'[p] = "copy"
    BY <1>1, <1>7, TypedParts, GotoFx
  <1>9. \A m \in DefNames : fs.dir[m] # i
    <2>1. CASE fs.dir[n] = i
      BY <1>2, <1>3, <2>1, NamesFact DEF EtcInv, Apart
    <2>2. CASE i \in Unused(fs, Open)
      BY <2>2, NamesFact DEF Unused
    <2> QED BY <1>3, <2>1, <2>2
  <1>10. \A m \in DefNames :
           /\ fs'.dir[m] = fs.dir[m]
           /\ fs.dir[m] # NoFile => fs'.data[fs.dir[m]] = fs.data[fs.dir[m]]
    <2> SUFFICES ASSUME NEW m \in DefNames
                 PROVE  /\ fs'.dir[m] = fs.dir[m]
                        /\ fs.dir[m] # NoFile => fs'.data[fs.dir[m]] = fs.data[fs.dir[m]]
      OBVIOUS
    <2>1. m \in Names \ {n}
      BY <1>2, NamesFact
    <2>2. fs.dir[m] # NoFile => fs.dir[m] \in 1..Files \ {i}
      BY <1>9, <2>1, TypedParts
    <2> QED BY <1>3, <2>1, <2>2
  <1>11. \A k \in TableNames : fs'.dir[k] # NoFile => \A m \in DefNames : fs.dir[m] # fs'.dir[k]
    <2> SUFFICES ASSUME NEW k \in TableNames, fs'.dir[k] # NoFile, NEW m \in DefNames
                 PROVE  fs.dir[m] # fs'.dir[k]
      OBVIOUS
    <2>1. CASE k = n
      BY <1>9, <2>1 DEF i
    <2>2. CASE k # n
      BY <1>3, <2>2, NamesFact DEF EtcInv, Apart
    <2> QED BY <2>1, <2>2
  <1>12. Clean(fs', NextOpen(p))
    <2>1. r[p].fd = NoFile
      BY <1>1 DEF EtcInv, Owned, Writing, Updating
    <2>2. NextOpen(p) = Open \union {i}
      BY <1>3, <1>6, <2>1, OpenNext
    <2> QED BY <1>3, <2>2
  <1>13. Owned(p)' /\ NewOK(p)'
    <2>1. \A m \in DefNames : fs'.dir[m] # i
      BY <1>9, <1>10
    <2> QED BY <1>3, <1>6, <1>8, <2>1 DEF Owned, NewOK, Making, Writing, Updating
  <1>14. pc'[p] \notin Making
    BY <1>8 DEF Making
  <1>15. EtcInv' /\ DefStep
    BY <1>6, <1>8, <1>10, <1>11, <1>12, <1>13, <1>14, SafeStep
  <1> QED BY <1>1, <1>3, <1>6, <1>8, <1>15, TypedParts, TypedJoin DEF Fine

LEMMA CloseTmpFine ==
    ASSUME Typed, EtcInv, NEW p \in Procs, CloseTmp(p)
    PROVE  Fine
  <1>1. PICK k \in 0..Len(r[p].buf) :
          /\ faults' = IF k < Len(r[p].buf) THEN faults + 1 ELSE faults
          /\ fs' = Collect(Write(fs, r[p].fd, SubSeq(r[p].buf, 1, k)), OpenBut(p))
    BY DEF CloseTmp
  <1>2. PICK V : fs \in FS(V)
    BY TypedParts
  <1>3. pc[p] = "close" /\ Goto(p, "bak")
    BY DEF CloseTmp
  <1>4. r[p].fd \in 1..Files /\ \A n \in DefNames : fs.dir[n] # r[p].fd
    BY <1>3 DEF EtcInv, Owned, Updating
  <1> DEFINE w == Write(fs, r[p].fd, SubSeq(r[p].buf, 1, k))
             x == Written(fs, r[p].fd, SubSeq(r[p].buf, 1, k))
  <1>5. /\ w \in FS(V \union {x}) /\ w.dir = fs.dir
        /\ \A i \in 1..Files : i # r[p].fd => w.data[i] = fs.data[i]
    <2> DEFINE i == r[p].fd
               lines == SubSeq(r[p].buf, 1, k)
    <2>1. i \in 1..Files
      BY <1>4
    <2> HIDE DEF i, lines
    <2>2. /\ Write(fs, i, lines) \in FS(V \union {Written(fs, i, lines)})
          /\ Rewritten(fs, Write(fs, i, lines), i, Written(fs, i, lines))
      BY <1>2, <2>1, WriteFact
    <2> QED BY <2>2, Zenon DEF i, lines, Rewritten
  <1>6. \A i \in 1..Files : i # r[p].fd => w.data[i] = fs.data[i]
    BY <1>5
  <1> HIDE DEF w, x
  <1>7. fs' = Collect(w, OpenBut(p))
    BY <1>1 DEF w
  <1>8. /\ fs' \in FS(V \union {x} \union {<<>>}) /\ fs'.dir = fs.dir
        /\ \A i \in 1..Files : NamedIn(w, i) => fs'.data[i] = w.data[i]
        /\ Clean(fs', OpenBut(p))
    <2> DEFINE W == V \union {x}
    <2>1. w \in FS(W)
      BY <1>5
    <2> HIDE DEF W
    <2>2. /\ Collect(w, OpenBut(p)) \in FS(W \union {<<>>})
          /\ Collect(w, OpenBut(p)).dir = w.dir
          /\ \A i \in 1..Files : NamedIn(w, i) => Collect(w, OpenBut(p)).data[i] = w.data[i]
          /\ Clean(Collect(w, OpenBut(p)), OpenBut(p))
      BY <2>1, CollectFact
    <2> QED BY <1>5, <1>7, <2>2, Zenon DEF W
  <1>9. \A n \in DefNames :
          /\ fs'.dir[n] = fs.dir[n]
          /\ fs.dir[n] # NoFile => fs'.data[fs.dir[n]] = fs.data[fs.dir[n]]
    <2> SUFFICES ASSUME NEW n \in DefNames, fs.dir[n] # NoFile
                 PROVE  fs'.data[fs.dir[n]] = fs.data[fs.dir[n]]
      BY <1>8
    <2>1. n \in Names /\ fs.dir[n] \in 1..Files /\ fs.dir[n] # r[p].fd
      BY <1>4, TypedParts, NamesFact
    <2>2. NamedIn(w, fs.dir[n])
      BY <1>5, <2>1 DEF NamedIn
    <2> QED BY <1>6, <1>8, <2>1, <2>2
  <1>10. \A n \in TableNames : fs'.dir[n] # NoFile => \A m \in DefNames : fs.dir[m] # fs'.dir[n]
    BY <1>8, NamesFact DEF EtcInv, Apart
  <1>11. (\E W : RowsTyped(W)') /\ OthersLike(p) /\ r'[p].fd = NoFile
    <2>1. PICK U : RowsTyped(U)
      BY TypedParts
    <2>2. PICK s : r' = [r EXCEPT ![p].fd = NoFile, ![p].buf = <<>>, ![p].short = s]
      BY DEF CloseTmp
    <2> QED BY <2>1, <2>2, CloseFx
  <1>12. "bak" \in Ahead
    BY LabelIn
  <1>13. pc' \in [Procs -> Labels] /\ PcOthers(p) /\ pc'[p] = "bak"
    BY <1>3, <1>12, TypedParts, GotoFx
  <1>14. Clean(fs', NextOpen(p))
    BY <1>8, <1>11, OpenNext
  <1>15. Owned(p)' /\ NewOK(p)' /\ pc'[p] \notin Making
    BY <1>11, <1>13 DEF Owned, NewOK, Making, Writing, Updating
  <1>16. EtcInv' /\ DefStep
    BY <1>9, <1>10, <1>11, <1>13, <1>14, <1>15, SafeStep
  <1>17. faults' \in Nat
    BY <1>1, TypedParts
  <1> QED BY <1>8, <1>11, <1>13, <1>16, <1>17, TypedJoin DEF Fine

(* A table takes another name. *)
LEMMA MoveFine ==
    ASSUME Typed, EtcInv, NEW p \in Procs, NEW a \in TableNames, NEW b \in TableNames, a # b,
           fs' = Rename(fs, a, b, Open), UNCHANGED <<r, faults>>,
           pc[p] \notin Writing \union Updating, NEW label \in Plain, Goto(p, label)
    PROVE  Fine
  <1>1. label \in Ahead /\ label \notin Making \union Updating
    BY DEF Plain
  <1>2. pc' \in [Procs -> Labels] /\ PcOthers(p) /\ pc'[p] = label
    BY <1>1, TypedParts, GotoFx
  <1>3. (\E W : RowsTyped(W)') /\ OthersLike(p) /\ r'[p].fd = r[p].fd
    BY TypedParts, SameRows DEF OthersLike
  <1>4. CASE ~Exists(fs, a)
    <2>1. fs' = fs
      BY <1>4 DEF Rename
    <2>2. EtcInv' /\ DefStep
      BY <1>1, <1>2, <1>3, <2>1, IdleStep
    <2>3. \E W : fs' \in FS(W)
      BY <2>1, TypedParts
    <2> QED BY <1>2, <1>3, <2>2, <2>3, TypedParts, TypedJoin DEF Fine
  <1>5. CASE Exists(fs, a)
    <2>1. PICK V : fs \in FS(V)
      BY TypedParts
    <2>2. a \in Names /\ b \in Names /\ a \notin DefNames /\ b \notin DefNames
      BY NamesFact
    <2>3. /\ fs' \in FS(V \union {<<>>})
          /\ Moved(fs, fs', a, b)
          /\ Keeps(fs, fs', Open)
          /\ Clean(fs', Open)
      <3>1. /\ Rename(fs, a, b, Open) \in FS(V \union {<<>>})
            /\ Moved(fs, Rename(fs, a, b, Open), a, b)
            /\ Keeps(fs, Rename(fs, a, b, Open), Open)
            /\ Clean(Rename(fs, a, b, Open), Open)
        BY <1>5, <2>1, <2>2, RenameFact
      <3> QED BY <3>1, Zenon
    <2>5. /\ \A n \in Names \ {a, b} : fs'.dir[n] = fs.dir[n]
          /\ fs'.dir[a] = NoFile /\ fs'.dir[b] = fs.dir[a]
      BY <2>3 DEF Moved
    <2>6. \A n \in DefNames :
            /\ fs'.dir[n] = fs.dir[n]
            /\ fs.dir[n] # NoFile => fs'.data[fs.dir[n]] = fs.data[fs.dir[n]]
      <3> SUFFICES ASSUME NEW n \in DefNames
                   PROVE  /\ fs'.dir[n] = fs.dir[n]
                          /\ fs.dir[n] # NoFile => fs'.data[fs.dir[n]] = fs.data[fs.dir[n]]
        OBVIOUS
      <3>1. n \in Names \ {a, b}
        BY <2>2, NamesFact
      <3>2. fs'.dir[n] = fs.dir[n]
        BY <2>5, <3>1
      <3> QED BY <2>3, <3>1, <3>2, TypedParts DEF NamedIn, Keeps
    <2>7. ASSUME NEW n \in TableNames, fs'.dir[n] # NoFile, NEW m \in DefNames
          PROVE  fs.dir[m] # fs'.dir[n]
      <3>1. \E k \in TableNames : fs'.dir[n] = fs.dir[k]
        <4>1. n \in Names
          BY NamesFact
        <4> QED BY <2>5, <2>7, <4>1
      <3> QED BY <2>7, <3>1, NamesFact DEF EtcInv, Apart
    <2>8. Clean(fs', NextOpen(p))
      BY <1>3, <2>3, OpenNext
    <2>9. r'[p].fd = NoFile
      BY <1>3 DEF EtcInv, Owned
    <2>10. Owned(p)' /\ NewOK(p)'
      BY <1>1, <1>2, <2>9 DEF Owned, NewOK, Making, Writing, Updating
    <2>11. EtcInv' /\ DefStep
      BY <1>1, <1>2, <1>3, <2>6, <2>7, <2>8, <2>10, SafeStep
    <2> QED BY <1>2, <1>3, <2>3, <2>11, TypedParts, TypedJoin DEF Fine
  <1> QED BY <1>4, <1>5

LEMMA RenamesFine ==
    ASSUME Typed, EtcInv, NEW p \in Procs, RenameOld(p) \/ RenameTmp(p)
    PROVE  Fine
  <1>1. CASE RenameOld(p)
    <2>1. /\ fs' = Rename(fs, r[p].tab, Bak[r[p].tab], Open) /\ Goto(p, "swap")
          /\ UNCHANGED <<r, faults>> /\ pc[p] = "bak"
      BY <1>1 DEF RenameOld
    <2>2. "swap" \in Plain /\ pc[p] \notin Writing \union Updating
      BY <2>1, PlainIs DEF Writing, Updating
    <2> QED BY <2>1, <2>2, TabNames, MoveFine
  <1>2. CASE RenameTmp(p)
    <2>1. /\ fs' = Rename(fs, Tmp[r[p].tab], r[p].tab, Open) /\ Goto(p, r[p].then)
          /\ UNCHANGED <<r, faults>> /\ pc[p] = "swap"
      BY <1>2 DEF RenameTmp
    <2>2. r[p].then \in Plain /\ pc[p] \notin Writing \union Updating
      BY <2>1, TabNames, PlainIs DEF Writing, Updating
    <2> QED BY <2>1, <2>2, TabNames, MoveFine
  <1> QED BY <1>1, <1>2

(* An invocation of -D and the files the others are making. *)
LEMMA MineOnly ==
    ASSUME Typed, EtcInv, NEW p \in Procs, pc[p] \in Making
    PROVE  /\ r[p].new_file \in TempNames /\ r[p].new_file \in DefNames /\ r[p].new_file \in Names
           /\ r[p].new_file # USER_DEFAULTS_FILE /\ r[p].new_file # BACKUP
           /\ fs.dir[r[p].new_file] \in 1..Files
           /\ \A n \in Names : n # r[p].new_file => fs.dir[n] # fs.dir[r[p].new_file]
           /\ \A q \in Procs \ {p} : pc[q] \in Making => r[q].new_file # r[p].new_file
  <1>1. r[p].new_file \in TempNames /\ Exists(fs, r[p].new_file)
    BY DEF EtcInv, Owned
  <1>2. \A n \in Names : n # r[p].new_file => fs.dir[n] # fs.dir[r[p].new_file]
    BY <1>1, NamesFact DEF EtcInv, Apart, Exists
  <1> QED BY <1>1, <1>2, TypedParts, NamesFact DEF EtcInv, OneOwner, Exists

\* The defaults file is what it was.
SameDefaults ==
    /\ Exists(fs', USER_DEFAULTS_FILE) <=> Exists(fs, USER_DEFAULTS_FILE)
    /\ Contents(fs', USER_DEFAULTS_FILE) = Defaults

LEMMA DefaultsLeft ==
    ASSUME SameDefaults, EtcInv, NEW p \in Procs, OthersLike(p)
    PROVE  /\ ToKeep' = ToKeep /\ DefStep
           /\ Exists(fs', USER_DEFAULTS_FILE) => IsSeq(Contents(fs', USER_DEFAULTS_FILE))
           /\ \A s : Good(s) => Good(s)'
  <1>1. ToKeep' = ToKeep
    BY DEF ToKeep, Defaults, SameDefaults
  <1>2. Unread => Unread'
    BY UnreadStays
  <1> QED BY <1>1, <1>2 DEF DefStep, SameDefaults, EtcInv, Good

LEMMA mkstempsFine ==
    ASSUME Typed, EtcInv, NEW p \in Procs, mkstemps(p)
    PROVE  Fine
  <1>1. pc[p] = "mkstemps" /\ r[p].fd = NoFile
    BY DEF mkstemps, EtcInv, Owned, Writing, Updating
  <1>2. CASE Fails /\ GiveUp(p, fs)
    BY <1>2, TypedParts, GiveUpFine DEF Fails
  <1>3. ASSUME NEW n \in FreshNames, Room(fs, n, Open), fs' = Creat(fs, n, Open),
               r' = [r EXCEPT ![p].new_file = n, ![p].fd = fs'.dir[n]],
               Goto(p, "lines"), UNCHANGED faults
        PROVE  Fine
    <2> DEFINE i == fs'.dir[n]
    <2>1. n \in TempNames /\ n \in DefNames /\ n \in Names /\ ~Exists(fs, n)
          /\ n # USER_DEFAULTS_FILE
      BY <1>3, NamesFact DEF FreshNames
    <2>2. /\ \E W : fs' \in FS(W)
          /\ i \in 1..Files /\ i # NoFile
          /\ fs'.data[i] = <<>>
          /\ \A m \in Names \ {n} : fs'.dir[m] = fs.dir[m]
          /\ \A j \in 1..Files \ {i} : fs'.data[j] = fs.data[j]
          /\ fs.dir[n] = i \/ (~Exists(fs, n) /\ i \in Unused(fs, Open))
          /\ Clean(fs', Open \union {i})
      BY <1>3, <2>1, MadeIs
    <2> HIDE DEF i
    <2>3. fs.dir[n] = NoFile /\ fs'.dir[n] = i
      BY <2>1 DEF Exists, i
    <2>4. i \in Unused(fs, Open) /\ \A m \in Names : fs.dir[m] # i
      BY <2>2, <2>3 DEF Unused
    <2>5. /\ \E W : RowsTyped(W)'
          /\ OthersLike(p) /\ r'[p].new_file = n /\ r'[p].fd = i
      <3>1. PICK V : RowsTyped(V)
        BY TypedParts
      <3>2. i \in 0..Files
        BY <2>2, FilesAssumption
      <3>3. r' = [r EXCEPT ![p].new_file = n, ![p].fd = i]
        BY <1>3 DEF i
      <3> QED BY <3>1, <3>2, <3>3, MadeFx
    <2>6. "lines" \in Ahead
      BY LabelIn DEF Making
    <2>7. pc' \in [Procs -> Labels] /\ PcOthers(p) /\ pc'[p] = "lines"
      BY <1>3, <2>6, TypedParts, GotoFx
    <2>8. \A m \in Names \ {n} : fs.dir[m] # NoFile => fs'.data[fs.dir[m]] = fs.data[fs.dir[m]]
      BY <2>2, <2>4, TypedParts
    <2>9. SameDefaults
      BY <2>1, <2>2, <2>8, NamesFact DEF SameDefaults, Exists, Contents, Defaults
    <2>10. ASSUME NEW q \in Procs \ {p}, pc[q] \in Making
           PROVE  /\ r[q].new_file # n
                  /\ fs'.dir[r[q].new_file] = fs.dir[r[q].new_file]
                  /\ fs'.data[fs.dir[r[q].new_file]] = fs.data[fs.dir[r[q].new_file]]
      <3>1. r[q].new_file \in Names /\ fs.dir[r[q].new_file] # NoFile
        BY <2>10, NamesFact DEF EtcInv, Owned, Exists
      <3>2. r[q].new_file # n
        BY <2>3, <3>1
      <3> QED BY <2>2, <2>8, <3>1, <3>2
    <2>11. \A m \in DefNames : \/ \E k \in DefNames : fs.dir[k] = fs'.dir[m]
                               \/ fs'.dir[m] = NoFile \/ fs'.dir[m] \in Unused(fs, Open)
      BY <2>2, <2>3, <2>4, NamesFact
    <2>12. \A q \in Procs \ {p} : (Owned(q) /\ NewOK(q))'
      BY <2>5, <2>7, <2>9, <2>10, <2>11, OtherOK, DefaultsLeft
    <2>13. Owned(p)'
      BY <2>1, <2>2, <2>3, <2>5, <2>7 DEF Owned, Exists, Making, Writing, Updating
    <2>14. NewOK(p)'
      BY <2>2, <2>3, <2>5, <2>7 DEF NewOK, New, Contents, Exists
    <2>15. OneOwner'
      <3>1. ASSUME NEW q \in Procs \ {p}, pc'[q] \in Making
            PROVE  r'[q].new_file = r[q].new_file /\ pc[q] \in Making /\ r'[q].new_file # n
        BY <2>5, <2>7, <2>10, <3>1 DEF OthersLike, Like, EtcSame, PcOthers
      <3> QED BY <2>5, <3>1 DEF OneOwner, EtcInv
    <2>16. Apart'
      <3> SUFFICES ASSUME NEW m \in DefNames, NEW k \in Names, fs'.dir[m] # NoFile,
                          fs'.dir[m] = fs'.dir[k], k # m
                   PROVE  m \notin TempNames /\ k \in {USER_DEFAULTS_FILE, BACKUP}
        BY DEF Apart
      <3>1. m \in Names
        BY NamesFact
      <3>2. m # n /\ k # n
        BY <2>2, <2>3, <2>4, <3>1
      <3> QED BY <2>2, <3>1, <3>2 DEF EtcInv, Apart
    <2>17. Clean(fs', NextOpen(p))
      <3>1. NextOpen(p) = Open \union {i}
        BY <1>1, <2>2, <2>5, OpenNext
      <3> QED BY <2>2, <3>1
    <2>18. EtcInv' /\ DefStep
      BY <2>5, <2>7, <2>9, <2>12, <2>13, <2>14, <2>15, <2>16, <2>17, EtcJoin, DefaultsLeft
    <2> QED BY <1>3, <2>2, <2>5, <2>7, <2>18, TypedParts, TypedJoin DEF Fine
  <1> QED
    <2> DEFINE n == CHOOSE n \in FreshNames : TRUE
    <2>1. FreshNames # {} => n \in FreshNames
      OBVIOUS
    <2> HIDE DEF n
    <2>2. \/ /\ FreshNames # {} /\ Room(fs, n, Open) /\ fs' = Creat(fs, n, Open)
             /\ r' = [r EXCEPT ![p].new_file = n, ![p].fd = fs'.dir[n]]
             /\ Goto(p, "lines") /\ UNCHANGED faults
          \/ Fails /\ GiveUp(p, fs)
      BY Zenon DEF mkstemps, n
    <2> QED BY <1>2, <1>3, <2>1, <2>2

(* The others, when only the file p is making has changed. *)
LEMMA OthersLeft ==
    ASSUME Typed, EtcInv, NEW p \in Procs, OthersLike(p), PcOthers(p), SameDefaults,
           \A n \in TempNames : n # r[p].new_file =>
              /\ fs'.dir[n] = fs.dir[n]
              /\ fs.dir[n] # NoFile => fs'.data[fs.dir[n]] = fs.data[fs.dir[n]],
           pc[p] \in Making,
           \A n \in DefNames : (\E k \in DefNames : fs.dir[k] = fs'.dir[n]) \/ fs'.dir[n] = NoFile
    PROVE  \A q \in Procs \ {p} : (Owned(q) /\ NewOK(q))'
  <1>1. ASSUME NEW q \in Procs \ {p}, pc[q] \in Making
        PROVE  /\ fs'.dir[r[q].new_file] = fs.dir[r[q].new_file]
               /\ fs'.data[fs.dir[r[q].new_file]] = fs.data[fs.dir[r[q].new_file]]
    <2>1. r[q].new_file # r[p].new_file
      BY <1>1, MineOnly
    <2>2. r[q].new_file \in TempNames /\ fs.dir[r[q].new_file] # NoFile
      BY <1>1 DEF EtcInv, Owned, Exists
    <2> QED BY <2>1, <2>2
  <1> QED BY <1>1, OtherOK, DefaultsLeft

LEMMA FlushFine ==
    ASSUME Typed, EtcInv, NEW p \in Procs, pc[p] = "flush",
           fs' = Write(fs, r[p].fd, r[p].buf),
           r' = [r EXCEPT ![p].fd = NoFile, ![p].buf = <<>>],
           Goto(p, "unlink"), UNCHANGED faults
    PROVE  Fine
  <1> DEFINE n == r[p].new_file
             i == r[p].fd
  <1>0. PICK lines : lines = r[p].buf
    OBVIOUS
  <1>1. pc[p] \in Making
    BY DEF Making
  <1>2. /\ n \in TempNames /\ n \in DefNames /\ n \in Names /\ n # USER_DEFAULTS_FILE
        /\ fs.dir[n] \in 1..Files
        /\ \A m \in Names : m # n => fs.dir[m] # fs.dir[n]
    BY <1>1, MineOnly
  <1>3. /\ i = fs.dir[n] /\ i # NoFile /\ i \in 1..Files
        /\ New(p) = <<>> /\ Good(lines)
    BY <1>0, <1>2, FilesAssumption DEF EtcInv, Owned, NewOK, Writing, NoFile
  <1>4. fs.data[i] = <<>>
    BY <1>3 DEF New, Contents, Exists
  <1> HIDE DEF i
  <1>5. PICK V : fs \in FS(V)
    BY TypedParts
  <1>6. /\ fs' \in FS(V \union {lines}) /\ fs'.dir = fs.dir /\ fs'.data[i] = lines
        /\ \A j \in 1..Files : j # i => fs'.data[j] = fs.data[j]
    <2>1. /\ Write(fs, i, lines) \in FS(V \union {Written(fs, i, lines)})
          /\ Rewritten(fs, Write(fs, i, lines), i, Written(fs, i, lines))
          /\ fs.data[i] = <<>> /\ IsSeq(lines) => Written(fs, i, lines) = lines
      BY <1>3, <1>5, WriteFact
    <2>2. Written(fs, i, lines) = lines
      BY <1>3, <1>4, <2>1 DEF Good
    <2>3. fs' = Write(fs, i, lines)
      BY <1>0 DEF i
    <2> QED BY <2>1, <2>2, <2>3, Zenon DEF Rewritten
  <1>7. \A m \in Names : m # n /\ fs.dir[m] # NoFile => fs'.data[fs.dir[m]] = fs.data[fs.dir[m]]
    BY <1>2, <1>3, <1>6, TypedParts
  <1>8. SameDefaults
    BY <1>2, <1>6, <1>7, NamesFact DEF SameDefaults, Exists, Contents, Defaults
  <1>9. /\ \E W : RowsTyped(W)'
        /\ OthersLike(p) /\ r'[p].new_file = n /\ r'[p].fd = NoFile
    BY TypedParts, FlushFx
  <1>10. "unlink" \in Ahead
    BY LabelIn DEF Making
  <1>11. pc' \in [Procs -> Labels] /\ PcOthers(p) /\ pc'[p] = "unlink"
    BY <1>10, TypedParts, GotoFx
  <1>12. \A q \in Procs \ {p} : (Owned(q) /\ NewOK(q))'
    <2>1. \A m \in TempNames : m # n =>
            /\ fs'.dir[m] = fs.dir[m]
            /\ fs.dir[m] # NoFile => fs'.data[fs.dir[m]] = fs.data[fs.dir[m]]
      BY <1>6, <1>7, NamesFact
    <2>2. \A m \in DefNames : (\E k \in DefNames : fs.dir[k] = fs'.dir[m])
      BY <1>6
    <2> QED BY <1>1, <1>8, <1>9, <1>11, <2>1, <2>2, OthersLeft
  <1>13. Owned(p)'
    BY <1>2, <1>3, <1>6, <1>9, <1>11 DEF Owned, Exists, Making, Writing, Updating
  <1>14. NewOK(p)'
    <2>1. New(p)' = lines
      BY <1>3, <1>6, <1>9 DEF New, Contents, Exists
    <2>2. Good(lines)'
      BY <1>3, <1>8, <1>9, DefaultsLeft
    <2>3. Good(New(p))'
      BY <2>1, <2>2 DEF Good
    <2> QED BY <1>11, <2>3 DEF NewOK
  <1>15. OneOwner'
    BY <1>1, <1>9, <1>11, OneOwnerKept DEF EtcInv
  <1>16. Apart'
    BY <1>6 DEF EtcInv, Apart
  <1>17. Clean(fs', NextOpen(p))
    <2>1. NextOpen(p) = OpenBut(p)
      BY <1>9, OpenNext
    <2>2. ASSUME NEW j \in Unused(fs', OpenBut(p))
          PROVE  fs'.data[j] = <<>>
      <3>1. j \in 1..Files /\ j \notin OpenBut(p) /\ j # i /\ \A m \in Names : fs.dir[m] # j
        BY <1>2, <1>3, <1>6, <2>2 DEF Unused
      <3>2. Open \subseteq OpenBut(p) \union {i}
        BY DEF Open, OpenBut, i
      <3>3. j \in Unused(fs, Open)
        BY <3>1, <3>2 DEF Unused
      <3> QED BY <1>6, <3>1, <3>3 DEF EtcInv, Clean
    <2> QED BY <2>1, <2>2 DEF Clean
  <1>18. EtcInv' /\ DefStep
    BY <1>8, <1>9, <1>11, <1>12, <1>13, <1>14, <1>15, <1>16, <1>17, EtcJoin, DefaultsLeft
  <1> QED BY <1>6, <1>9, <1>11, <1>18, TypedParts, TypedJoin DEF Fine

\* A name is gone from /etc.
LEMMA GoneIs ==
    ASSUME Typed, NEW n \in Names, NEW open, NEW f, f = Unlink(fs, n, open)
    PROVE  /\ \E W : f \in FS(W)
           /\ f.dir[n] = NoFile
           /\ \A m \in Names \ {n} :
                /\ f.dir[m] = fs.dir[m]
                /\ fs.dir[m] # NoFile => f.data[fs.dir[m]] = fs.data[fs.dir[m]]
           /\ Clean(f, open)
  <1>1. PICK V : fs \in FS(V)
    BY TypedParts
  <1>2. /\ f \in FS(V \union {<<>>})
        /\ f.dir = [fs.dir EXCEPT ![n] = NoFile]
        /\ Keeps(fs, f, open)
        /\ Clean(f, open)
    <2>1. /\ Unlink(fs, n, open) \in FS(V \union {<<>>})
          /\ Unlink(fs, n, open).dir = [fs.dir EXCEPT ![n] = NoFile]
          /\ Keeps(fs, Unlink(fs, n, open), open)
          /\ Clean(Unlink(fs, n, open), open)
      BY <1>1, UnlinkFact
    <2> QED BY <2>1, Zenon
  <1>3. f.dir[n] = NoFile /\ \A m \in Names \ {n} : f.dir[m] = fs.dir[m]
    BY <1>1, <1>2 DEF FS
  <1>4. ASSUME NEW m \in Names \ {n}, fs.dir[m] # NoFile
        PROVE  f.data[fs.dir[m]] = fs.data[fs.dir[m]]
    <2>1. fs.dir[m] \in 1..Files /\ NamedIn(f, fs.dir[m])
      BY <1>3, <1>4, TypedParts DEF NamedIn
    <2> QED BY <1>2, <2>1 DEF Keeps
  <1> QED BY <1>2, <1>3, <1>4

(* A new file is dropped. *)
LEMMA DropFine ==
    ASSUME Typed, EtcInv, NEW p \in Procs, pc[p] \in Making, GiveUp(p, Removed(p)),
           faults' \in Nat
    PROVE  Fine
  <1> DEFINE n == r[p].new_file
             u == Removed(p)
  <1>1. /\ n \in TempNames /\ n \in DefNames /\ n \in Names /\ n # USER_DEFAULTS_FILE
    BY MineOnly
  <1>2. /\ \E W : RowsTyped(W)'
        /\ OthersLike(p) /\ PcOthers(p) /\ r'[p].fd = NoFile
        /\ pc' \in [Procs -> Labels] /\ pc'[p] = "done"
        /\ fs' = Collect(u, OpenBut(p))
    BY GiveUpIs
  <1>3. /\ \E W : u \in FS(W)
        /\ u.dir[n] = NoFile
        /\ \A m \in Names \ {n} :
                /\ u.dir[m] = fs.dir[m]
                /\ fs.dir[m] # NoFile => u.data[fs.dir[m]] = fs.data[fs.dir[m]]
    BY <1>1, GoneIs DEF Removed
  <1>4. PICK W : u \in FS(W)
    BY <1>3
  <1> HIDE DEF u
  <1>5. /\ fs' \in FS(W \union {<<>>}) /\ fs'.dir = u.dir
        /\ \A i \in 1..Files : NamedIn(u, i) => fs'.data[i] = u.data[i]
        /\ Clean(fs', OpenBut(p))
    <2>1. /\ Collect(u, OpenBut(p)) \in FS(W \union {<<>>}) /\ Collect(u, OpenBut(p)).dir = u.dir
          /\ \A i \in 1..Files : i \in OpenBut(p) \/ NamedIn(u, i) =>
                Collect(u, OpenBut(p)).data[i] = u.data[i]
          /\ Clean(Collect(u, OpenBut(p)), OpenBut(p))
      BY <1>4, CollectFact
    <2> QED BY <1>2, <2>1, Zenon
  <1>6. \A m \in Names \ {n} :
                /\ fs'.dir[m] = fs.dir[m]
                /\ fs.dir[m] # NoFile => fs'.data[fs.dir[m]] = fs.data[fs.dir[m]]
    <2> SUFFICES ASSUME NEW m \in Names \ {n}, fs.dir[m] # NoFile
                 PROVE  fs'.data[fs.dir[m]] = fs.data[fs.dir[m]]
      BY <1>3, <1>5
    <2>1. fs.dir[m] \in 1..Files /\ NamedIn(u, fs.dir[m])
      BY <1>3, TypedParts DEF NamedIn
    <2> QED BY <1>3, <1>5, <2>1
  <1>7. SameDefaults
    BY <1>1, <1>6, NamesFact DEF SameDefaults, Exists, Contents, Defaults
  <1>8. \A q \in Procs \ {p} : (Owned(q) /\ NewOK(q))'
    <2>1. \A m \in TempNames : m # n =>
            /\ fs'.dir[m] = fs.dir[m]
            /\ fs.dir[m] # NoFile => fs'.data[fs.dir[m]] = fs.data[fs.dir[m]]
      BY <1>6, NamesFact
    <2>2. \A m \in DefNames : (\E k \in DefNames : fs.dir[k] = fs'.dir[m]) \/ fs'.dir[m] = NoFile
      BY <1>3, <1>5, <1>6, NamesFact
    <2> QED BY <1>2, <1>7, <2>1, <2>2, OthersLeft
  <1>9. Owned(p)' /\ NewOK(p)' /\ pc'[p] \notin Making
    BY <1>2 DEF Owned, NewOK, Making, Writing, Updating
  <1>10. OneOwner'
    BY <1>2, <1>9, OneOwnerKept DEF EtcInv
  <1>11. Apart'
    <2> SUFFICES ASSUME NEW m \in DefNames, NEW k \in Names, fs'.dir[m] # NoFile,
                        fs'.dir[m] = fs'.dir[k], k # m
                 PROVE  m \notin TempNames /\ k \in {USER_DEFAULTS_FILE, BACKUP}
      BY DEF Apart
    <2>1. m \in Names \ {n} /\ k \in Names \ {n}
      BY <1>3, <1>5, NamesFact
    <2> QED BY <1>6, <2>1 DEF EtcInv, Apart
  <1>12. Clean(fs', NextOpen(p))
    BY <1>2, <1>5, OpenNext
  <1>13. EtcInv' /\ DefStep
    BY <1>2, <1>7, <1>8, <1>9, <1>10, <1>11, <1>12, EtcJoin, DefaultsLeft
  <1> QED BY <1>2, <1>5, <1>13, TypedJoin DEF Fine

LEMMA FlushNewFine ==
    ASSUME Typed, EtcInv, NEW p \in Procs, FlushNew(p)
    PROVE  Fine
  <1>1. pc[p] = "flush" /\ pc[p] \in Making
    BY DEF FlushNew, Making
  <1>2. CASE Fails /\ GiveUp(p, Removed(p))
    BY <1>1, <1>2, DropFine, TypedParts DEF Fails
  <1>3. CASE /\ fs' = Write(fs, r[p].fd, r[p].buf)
             /\ r' = [r EXCEPT ![p].fd = NoFile, ![p].buf = <<>>]
             /\ Goto(p, "unlink") /\ UNCHANGED faults
    BY <1>1, <1>3, FlushFine
  <1> QED BY <1>2, <1>3, Zenon DEF FlushNew

(* unlink, link and rename: the old file becomes its own backup, and the new *)
(* one takes its name.                                                       *)

LEMMA UnlinkBackupFine ==
    ASSUME Typed, EtcInv, NEW p \in Procs, UnlinkBackup(p)
    PROVE  Fine
  <1> DEFINE n == r[p].new_file
  <1>1. /\ pc[p] = "unlink" /\ fs' = Unlink(fs, BACKUP, Open) /\ Goto(p, "link")
        /\ UNCHANGED <<r, faults>> /\ pc[p] \in Making
    BY DEF UnlinkBackup, Making
  <1>2. /\ n \in TempNames /\ n \in DefNames /\ n \in Names /\ n # USER_DEFAULTS_FILE /\ n # BACKUP
        /\ fs.dir[n] \in 1..Files
    BY <1>1, MineOnly
  <1>3. /\ \E W : fs' \in FS(W)
        /\ fs'.dir[BACKUP] = NoFile
        /\ \A m \in Names \ {BACKUP} :
                /\ fs'.dir[m] = fs.dir[m]
                /\ fs.dir[m] # NoFile => fs'.data[fs.dir[m]] = fs.data[fs.dir[m]]
        /\ Clean(fs', Open)
    BY <1>1, GoneIs, NamesFact
  <1>4. SameDefaults
    BY <1>3, NamesFact DEF SameDefaults, Exists, Contents, Defaults
  <1>5. (\E W : RowsTyped(W)') /\ Like(p) /\ OthersLike(p)
    BY <1>1, TypedParts, SameRows DEF OthersLike
  <1>6. "link" \in Ahead
    BY LabelIn DEF Making
  <1>7. pc' \in [Procs -> Labels] /\ PcOthers(p) /\ pc'[p] = "link"
    BY <1>1, <1>6, TypedParts, GotoFx
  <1>8. \A q \in Procs \ {p} : (Owned(q) /\ NewOK(q))'
    <2>1. \A m \in TempNames :
            /\ fs'.dir[m] = fs.dir[m]
            /\ fs.dir[m] # NoFile => fs'.data[fs.dir[m]] = fs.data[fs.dir[m]]
      BY <1>3, NamesFact
    <2>2. \A m \in DefNames : (\E k \in DefNames : fs.dir[k] = fs'.dir[m]) \/ fs'.dir[m] = NoFile
      BY <1>3, NamesFact
    <2> QED BY <1>1, <1>4, <1>5, <1>7, <2>1, <2>2, OthersLeft
  <1>9. /\ r'[p] = r[p] /\ Owned(p) /\ NewOK(p)
    BY <1>1 DEF EtcInv
  <1>10. fs'.dir[n] = fs.dir[n] /\ fs'.data[fs.dir[n]] = fs.data[fs.dir[n]] /\ fs.dir[n] # NoFile
    BY <1>2, <1>3, FilesAssumption DEF NoFile
  <1>11. Owned(p)'
    BY <1>1, <1>2, <1>7, <1>9, <1>10 DEF Owned, Exists, Making, Writing, Updating
  <1>12. NewOK(p)'
    <2>1. New(p)' = New(p)
      BY <1>9, <1>10 DEF New, Contents, Exists
    <2>2. Good(New(p))
      BY <1>1, <1>9 DEF NewOK
    <2>3. Good(New(p))'
      BY <1>4, <1>5, <2>1, <2>2, DefaultsLeft DEF Good
    <2> QED BY <1>7, <2>3 DEF NewOK
  <1>13. OneOwner'
    BY <1>1, <1>5, <1>7, OneOwnerKept DEF EtcInv, Like, EtcSame
  <1>14. Apart'
    <2> SUFFICES ASSUME NEW m \in DefNames, NEW k \in Names, fs'.dir[m] # NoFile,
                        fs'.dir[m] = fs'.dir[k], k # m
                 PROVE  m \notin TempNames /\ k \in {USER_DEFAULTS_FILE, BACKUP}
      BY DEF Apart
    <2>1. m \in Names \ {BACKUP} /\ k \in Names \ {BACKUP}
      BY <1>3, NamesFact
    <2> QED BY <1>3, <2>1 DEF EtcInv, Apart
  <1>15. Clean(fs', NextOpen(p))
    BY <1>3, <1>9, OpenNext
  <1>16. EtcInv' /\ DefStep
    BY <1>4, <1>5, <1>7, <1>8, <1>11, <1>12, <1>13, <1>14, <1>15, EtcJoin, DefaultsLeft
  <1> QED BY <1>1, <1>3, <1>5, <1>7, <1>16, TypedParts, TypedJoin DEF Fine

LEMMA LinkFine ==
    ASSUME Typed, EtcInv, NEW p \in Procs, pc[p] = "link", ~Exists(fs, BACKUP),
           fs' = Link(fs, USER_DEFAULTS_FILE, BACKUP), Goto(p, "rename"), UNCHANGED <<r, faults>>
    PROVE  Fine
  <1> DEFINE n == r[p].new_file
             old == fs.dir[USER_DEFAULTS_FILE]
  <1>1. pc[p] \in Making
    BY DEF Making
  <1>2. /\ n \in TempNames /\ n \in DefNames /\ n \in Names /\ n # USER_DEFAULTS_FILE /\ n # BACKUP
        /\ fs.dir[n] \in 1..Files
    BY <1>1, MineOnly
  <1>3. PICK V : fs \in FS(V)
    BY TypedParts
  <1>4. /\ fs' \in FS(V)
        /\ fs'.dir = [fs.dir EXCEPT ![BACKUP] = old]
        /\ fs'.data = fs.data
    <2>1. /\ Link(fs, USER_DEFAULTS_FILE, BACKUP) \in FS(V)
          /\ Link(fs, USER_DEFAULTS_FILE, BACKUP).dir = [fs.dir EXCEPT ![BACKUP] = old]
          /\ Link(fs, USER_DEFAULTS_FILE, BACKUP).data = fs.data
      BY <1>3, LinkFact, NamesFact
    <2> QED BY <2>1, Zenon
  <1>5. fs'.dir[BACKUP] = old /\ \A m \in Names \ {BACKUP} : fs'.dir[m] = fs.dir[m]
    BY <1>3, <1>4, NamesFact DEF FS
  <1>6. SameDefaults
    BY <1>4, <1>5, NamesFact DEF SameDefaults, Exists, Contents, Defaults
  <1>7. (\E W : RowsTyped(W)') /\ Like(p) /\ OthersLike(p)
    BY TypedParts, SameRows DEF OthersLike
  <1>8. "rename" \in Ahead
    BY LabelIn DEF Making
  <1>9. pc' \in [Procs -> Labels] /\ PcOthers(p) /\ pc'[p] = "rename"
    BY <1>8, TypedParts, GotoFx
  <1>10. \A q \in Procs \ {p} : (Owned(q) /\ NewOK(q))'
    <2>1. \A m \in TempNames :
            /\ fs'.dir[m] = fs.dir[m]
            /\ fs.dir[m] # NoFile => fs'.data[fs.dir[m]] = fs.data[fs.dir[m]]
      BY <1>4, <1>5, NamesFact
    <2>2. \A m \in DefNames : (\E k \in DefNames : fs.dir[k] = fs'.dir[m]) \/ fs'.dir[m] = NoFile
      BY <1>5, NamesFact
    <2> QED BY <1>1, <1>6, <1>7, <1>9, <2>1, <2>2, OthersLeft
  <1>11. r'[p] = r[p] /\ Owned(p) /\ NewOK(p)
    BY DEF EtcInv
  <1>12. fs'.dir[n] = fs.dir[n] /\ fs'.data[fs.dir[n]] = fs.data[fs.dir[n]] /\ fs.dir[n] # NoFile
    BY <1>2, <1>4, <1>5, FilesAssumption DEF NoFile
  <1>13. Owned(p)'
    BY <1>1, <1>2, <1>9, <1>11, <1>12 DEF Owned, Exists, Making, Writing, Updating
  <1>14. NewOK(p)'
    <2>1. New(p)' = New(p)
      BY <1>11, <1>12 DEF New, Contents, Exists
    <2>2. Good(New(p))
      BY <1>11 DEF NewOK
    <2>3. Good(New(p))'
      BY <1>6, <1>7, <2>1, <2>2, DefaultsLeft DEF Good
    <2> QED BY <1>9, <2>3 DEF NewOK
  <1>15. OneOwner'
    BY <1>1, <1>7, <1>9, OneOwnerKept DEF EtcInv, Like, EtcSame
  <1>16. Apart'
    <2> SUFFICES ASSUME NEW m \in DefNames, NEW k \in Names, fs'.dir[m] # NoFile,
                        fs'.dir[m] = fs'.dir[k], k # m
                 PROVE  m \notin TempNames /\ k \in {USER_DEFAULTS_FILE, BACKUP}
      BY DEF Apart
    <2>1. CASE m = BACKUP
      BY <1>5, <2>1, NamesFact DEF EtcInv, Apart
    <2>2. CASE m # BACKUP /\ k = BACKUP
      BY <1>5, <2>2, NamesFact DEF EtcInv, Apart
    <2>3. CASE m # BACKUP /\ k # BACKUP
      BY <1>5, <2>3, NamesFact DEF EtcInv, Apart
    <2> QED BY <2>1, <2>2, <2>3
  <1>17. Clean(fs', NextOpen(p))
    <2>1. NextOpen(p) = Open
      BY <1>11, OpenNext
    <2>2. Unused(fs', Open) \subseteq Unused(fs, Open)
      <3>1. \A j : j = fs.dir[BACKUP] => j = NoFile
        BY DEF Exists
      <3>2. \A j \in 1..Files : j # NoFile
        BY FilesAssumption DEF NoFile
      <3> QED BY <1>5, <3>1, <3>2 DEF Unused
    <2> QED BY <1>4, <2>1, <2>2 DEF EtcInv, Clean
  <1>18. EtcInv' /\ DefStep
    BY <1>6, <1>7, <1>9, <1>10, <1>13, <1>14, <1>15, <1>16, <1>17, EtcJoin, DefaultsLeft
  <1> QED BY <1>4, <1>7, <1>9, <1>18, TypedParts, TypedJoin DEF Fine

LEMMA LinkBackupFine ==
    ASSUME Typed, EtcInv, NEW p \in Procs, LinkBackup(p)
    PROVE  Fine
  <1>1. pc[p] = "link" /\ pc[p] \in Making
    BY DEF LinkBackup, Making
  <1>2. CASE GiveUp(p, Removed(p)) /\ faults' \in Nat
    BY <1>1, <1>2, DropFine
  <1>3. CASE /\ ~Exists(fs, BACKUP)
             /\ fs' = MakeBackup(fs, Open) /\ Goto(p, "rename") /\ UNCHANGED <<r, faults>>
    BY <1>1, <1>3, LinkFine DEF MakeBackup
  <1>4. \/ GiveUp(p, Removed(p)) /\ faults' = faults
        \/ GiveUp(p, Removed(p)) /\ faults' = faults + 1
        \/ /\ ~Exists(fs, BACKUP)
           /\ fs' = MakeBackup(fs, Open) /\ Goto(p, "rename") /\ UNCHANGED <<r, faults>>
    BY Zenon DEF LinkBackup, Fails
  <1> QED BY <1>2, <1>3, <1>4, TypedParts

LEMMA RenameNewIs ==
    ASSUME Typed, EtcInv, NEW p \in Procs, pc[p] = "rename",
           fs' = Rename(fs, r[p].new_file, USER_DEFAULTS_FILE, Open),
           Quit(p, E_SUCCESS), UNCHANGED faults
    PROVE  Fine
  <1> DEFINE n == r[p].new_file
             u == USER_DEFAULTS_FILE
  <1>1. pc[p] \in Making
    BY DEF Making
  <1>2. /\ n \in TempNames /\ n \in DefNames /\ n \in Names /\ n # u /\ n # BACKUP
        /\ fs.dir[n] \in 1..Files /\ Exists(fs, n) /\ u \in Names /\ u \in DefNames
        /\ \A m \in Names : m # n => fs.dir[m] # fs.dir[n]
    BY <1>1, MineOnly, NamesFact DEF EtcInv, Owned
  <1>3. PICK V : fs \in FS(V)
    BY TypedParts
  <1> HIDE DEF n, u
  <1>4. /\ fs' \in FS(V \union {<<>>})
        /\ Moved(fs, fs', n, u)
        /\ Keeps(fs, fs', Open)
        /\ Clean(fs', Open)
    <2>1. /\ Rename(fs, n, u, Open) \in FS(V \union {<<>>})
          /\ Moved(fs, Rename(fs, n, u, Open), n, u)
          /\ Keeps(fs, Rename(fs, n, u, Open), Open)
          /\ Clean(Rename(fs, n, u, Open), Open)
      BY <1>2, <1>3, RenameFact
    <2>2. fs' = Rename(fs, n, u, Open)
      BY DEF n, u
    <2> QED BY <2>1, <2>2, Zenon
  <1>5. /\ fs'.dir[u] = fs.dir[n] /\ fs'.dir[n] = NoFile
        /\ \A m \in Names \ {n, u} : fs'.dir[m] = fs.dir[m]
    BY <1>4 DEF Moved
  <1>6. ASSUME NEW m \in Names \ {n, u}, fs.dir[m] # NoFile
        PROVE  fs'.data[fs.dir[m]] = fs.data[fs.dir[m]]
    <2>1. fs.dir[m] \in 1..Files /\ NamedIn(fs', fs.dir[m])
      BY <1>5, <1>6, TypedParts DEF NamedIn
    <2> QED BY <1>4, <2>1 DEF Keeps
  <1>7. fs'.data[fs.dir[n]] = fs.data[fs.dir[n]]
    <2>1. NamedIn(fs', fs.dir[n])
      BY <1>2, <1>5 DEF NamedIn
    <2> QED BY <1>2, <1>4, <2>1 DEF Keeps
  <1>8. /\ Exists(fs', u) /\ Contents(fs', u) = New(p) /\ Good(New(p))
    <2>1. Exists(fs', u)
      BY <1>2, <1>5 DEF Exists
    <2>2. Contents(fs', u) = New(p)
      BY <1>2, <1>5, <1>7, <2>1 DEF Contents, New, n
    <2> QED BY <2>1, <2>2 DEF EtcInv, NewOK
  <1>9. DefStep
    <2>1. Exists(fs, u) => ToKeep = Others(Defaults)
      BY DEF ToKeep, u
    <2> QED BY <1>8, <2>1 DEF DefStep, Good, u
  <1>10. Unread \/ ToKeep' = ToKeep
    <2>1. ToKeep' = Others(Contents(fs', u))
      BY <1>8 DEF ToKeep, Defaults, u
    <2> QED BY <1>8, <2>1 DEF Good
  <1>11. /\ \E W : RowsTyped(W)'
         /\ OthersLike(p) /\ r'[p].fd = r[p].fd
         /\ pc' \in [Procs -> Labels] /\ PcOthers(p) /\ pc'[p] = "done"
    <2>1. PICK W : RowsTyped(W)
      BY TypedParts
    <2>2. r' = [r EXCEPT ![p].g.exit = E_SUCCESS] /\ Goto(p, "done")
      BY DEF Quit
    <2>3. "done" \in Ahead
      BY LabelIn DEF Over
    <2>4. (\E X : RowsTyped(X)') /\ OthersLike(p) /\ EtcSame(p)
      BY <2>1, <2>2, ExitFx
    <2> QED BY <2>2, <2>3, <2>4, TypedParts, GotoFx DEF EtcSame
  <1>12. r[p].fd = NoFile
    BY DEF EtcInv, Owned, Writing, Updating
  <1>13. \A q \in Procs \ {p} : (Owned(q) /\ NewOK(q))'
    <2>1. ASSUME NEW q \in Procs \ {p}, pc[q] \in Making
          PROVE  /\ fs'.dir[r[q].new_file] = fs.dir[r[q].new_file]
                 /\ fs'.data[fs.dir[r[q].new_file]] = fs.data[fs.dir[r[q].new_file]]
      <3>1. r[q].new_file # n
        BY <1>1, <2>1, MineOnly DEF n
      <3>2. r[q].new_file \in Names \ {n, u} /\ fs.dir[r[q].new_file] # NoFile
        BY <2>1, <3>1, NamesFact DEF EtcInv, Owned, Exists, u
      <3> QED BY <1>5, <1>6, <3>2
    <2>2. \A m \in DefNames : \/ \E k \in DefNames : fs.dir[k] = fs'.dir[m]
                              \/ fs'.dir[m] = NoFile
      BY <1>2, <1>5, NamesFact
    <2> QED BY <1>10, <1>11, <2>1, <2>2, OtherOK
  <1>14. Owned(p)' /\ NewOK(p)' /\ pc'[p] \notin Making
    BY <1>11, <1>12 DEF Owned, NewOK, Making, Writing, Updating
  <1>15. OneOwner'
    BY <1>11, <1>14, OneOwnerKept DEF EtcInv
  <1>16. Apart'
    <2> SUFFICES ASSUME NEW m \in DefNames, NEW k \in Names, fs'.dir[m] # NoFile,
                        fs'.dir[m] = fs'.dir[k], k # m
                 PROVE  m \notin TempNames /\ k \in {USER_DEFAULTS_FILE, BACKUP}
      BY DEF Apart
    <2>1. m \in Names /\ m # n /\ k # n
      BY <1>5, NamesFact
    <2>2. m # u
      BY <1>2, <1>5, <2>1
    <2>3. k # u
      BY <1>2, <1>5, <2>1
    <2> QED BY <1>5, <2>1, <2>2, <2>3 DEF EtcInv, Apart
  <1>17. Clean(fs', NextOpen(p))
    BY <1>4, <1>11, OpenNext
  <1>18. Exists(fs', u) => IsSeq(Contents(fs', u))
    BY <1>8 DEF Good
  <1>19. EtcInv'
    BY <1>11, <1>13, <1>14, <1>15, <1>16, <1>17, <1>18, EtcJoin DEF u
  <1> QED BY <1>4, <1>9, <1>11, <1>19, TypedParts, TypedJoin DEF Fine

LEMMA RenameNewFine ==
    ASSUME Typed, EtcInv, NEW p \in Procs, RenameNew(p)
    PROVE  Fine
  <1>1. pc[p] = "rename"
    BY DEF RenameNew
  <1>2. CASE Fails /\ GiveUp(p, fs)
    BY <1>2, TypedParts, GiveUpFine DEF Fails
  <1>3. CASE /\ fs' = Rename(fs, r[p].new_file, USER_DEFAULTS_FILE, Open)
             /\ Quit(p, E_SUCCESS) /\ UNCHANGED faults
    BY <1>1, <1>3, RenameNewIs
  <1> QED BY <1>2, <1>3, Zenon DEF RenameNew

(* Every step. *)
LEMMA StepFine ==
    ASSUME Typed, EtcInv, Next
    PROVE  Fine
  <1>1. PICK p \in Procs : Start(p) \/ Step(p) \/ Crash(p)
    BY DEF Next
  <1>2. CASE Start(p)
    BY <1>2, StartFine
  <1>3. CASE Crash(p)
    BY <1>3, CrashFine
  <1>4. CASE SetDefaults(p)
    BY <1>4, mkstempsFine, CopyLinesFine, FlushNewFine, UnlinkBackupFine, LinkBackupFine,
       RenameNewFine DEF SetDefaults
  <1>5. CASE Quietly(p)
    BY <1>5, QuietFine
  <1>6. CASE OpenTmp(p)
    BY <1>6, OpenTmpFine
  <1>7. CASE CopyTable(p)
    BY <1>7, CopyTableFine
  <1>8. CASE CloseTmp(p)
    BY <1>8, CloseTmpFine
  <1>9. CASE RenameOld(p) \/ RenameTmp(p)
    BY <1>9, RenamesFine
  <1>10. Step(p) => \/ SetDefaults(p) \/ Quietly(p) \/ OpenTmp(p) \/ CopyTable(p) \/ CloseTmp(p)
                    \/ RenameOld(p) \/ RenameTmp(p)
    BY DEF Step, Quietly
  <1> QED BY <1>1, <1>2, <1>3, <1>4, <1>5, <1>6, <1>7, <1>8, <1>9, <1>10

LEMMA StutterFine ==
    ASSUME Typed, EtcInv, UNCHANGED vars
    PROVE  Fine
  <1>1. Typed'
    BY DEF Typed, vars
  <1>2. EtcInv'
    <2>1. Open' = Open /\ ToKeep' = ToKeep /\ Unread' = Unread
      BY DEF Open, Running, ToKeep, Defaults, Unread, vars
    <2> QED BY <2>1 DEF EtcInv, Apart, Owned, OneOwner, NewOK, New, Good, Fresh, Defaults, vars
  <1>3. DefStep
    BY DEF DefStep, Defaults, vars
  <1> QED BY <1>1, <1>2, <1>3 DEF Fine

-----------------------------------------------------------------------------
(* The start: nobody runs, and /etc holds what it is given *)

\* No file has two names, and there is nothing in those that have none.
Plainly(f) ==
    /\ \A m, n \in Names : f.dir[m] # NoFile /\ f.dir[m] = f.dir[n] => m = n
    /\ Clean(f, {})

\* One more name may be in g, for a file with those lines.
FillsIn(f, g, n, lines) ==
    /\ g.dir[n] \in 0..Files /\ \A m \in Names \ {n} : g.dir[m] = f.dir[m]
    /\ g.dir[n] # NoFile /\ IsSeq(lines) => g.data[g.dir[n]] = lines

\* g is f with a new file i.
MadeIn(f, g, n, i) ==
    /\ i \in 1..Files /\ i \in Unused(f, {}) /\ g.data[i] = <<>>
    /\ \A m \in Names \ {n} : g.dir[m] = f.dir[m]
    /\ \A j \in 1..Files : j # i => g.data[j] = f.data[j]

LEMMA MadeFact ==
    ASSUME NEW V, NEW f \in FS(V), NEW n \in Names, ~Exists(f, n), Plainly(f),
           Unused(f, {}) # {}, NEW g, g = Creat(f, n, {}), NEW i, i = g.dir[n]
    PROVE  /\ g \in FS(V \union {<<>>})
           /\ MadeIn(f, g, n, i)
  <1>1. /\ Creat(f, n, {}) \in FS(V \union {<<>>})
        /\ Creat(f, n, {}).dir[n] \in 1..Files
        /\ Creat(f, n, {}).dir = [f.dir EXCEPT ![n] = Creat(f, n, {}).dir[n]]
        /\ Creat(f, n, {}).data = [f.data EXCEPT ![Creat(f, n, {}).dir[n]] = <<>>]
        /\ \/ Exists(f, n) /\ Creat(f, n, {}).dir[n] = f.dir[n]
           \/ ~Exists(f, n) /\ Creat(f, n, {}).dir[n] \in Unused(f, {})
    <2>1. Room(f, n, {}) /\ Clean(f, {})
      BY DEF Room, Plainly
    <2> QED BY <2>1, CreatFact
  <1>2. /\ g \in FS(V \union {<<>>}) /\ i \in 1..Files
        /\ g.dir = [f.dir EXCEPT ![n] = i] /\ g.data = [f.data EXCEPT ![i] = <<>>]
        /\ i \in Unused(f, {})
    BY <1>1, Zenon
  <1>3. f.dir \in [Names -> 0..Files] /\ f.data \in [1..Files -> V]
    BY DEF FS
  <1> QED BY <1>2, <1>3 DEF MadeIn

LEMMA FillFact ==
    ASSUME NEW V, NEW f \in FS(V), NEW n \in Names, ~Exists(f, n), Plainly(f),
           Unused(f, {}) # {}, NEW lines, NEW h, h = Fill(f, n, lines)
    PROVE  /\ \E W : h \in FS(W)
           /\ Plainly(h) /\ FillsIn(f, h, n, lines)
  <1>1. CASE lines = <<>>
    <2>1. h = f
      BY <1>1 DEF Fill
    <2>2. f.dir[n] = NoFile /\ NoFile \in 0..Files
      BY FilesAssumption DEF Exists, NoFile
    <2> QED BY <2>1, <2>2 DEF FillsIn
  <1>2. CASE lines # <<>>
    <2> DEFINE g == Creat(f, n, {})
               i == g.dir[n]
               W == V \union {<<>>}
    <2>1. h = Write(g, i, lines)
      BY <1>2 DEF Fill
    <2> HIDE DEF W
    <2>2. /\ i \in 1..Files /\ i \in Unused(f, {}) /\ g.data[i] = <<>>
          /\ \A m \in Names \ {n} : g.dir[m] = f.dir[m]
          /\ \A j \in 1..Files : j # i => g.data[j] = f.data[j]
      <3>1. MadeIn(f, g, n, i)
        BY MadeFact
      <3> HIDE DEF g, i
      <3> QED BY <3>1 DEF MadeIn
    <2>3. g \in FS(W)
      BY MadeFact DEF W
    <2> HIDE DEF g, i
    <2>4. /\ Write(g, i, lines) \in FS(W \union {Written(g, i, lines)})
          /\ Rewritten(g, Write(g, i, lines), i, Written(g, i, lines))
          /\ g.data[i] = <<>> /\ IsSeq(lines) => Written(g, i, lines) = lines
      BY <2>2, <2>3, WriteFact
    <2>5. /\ h \in FS(W \union {Written(g, i, lines)})
          /\ Rewritten(g, h, i, Written(g, i, lines))
          /\ IsSeq(lines) => Written(g, i, lines) = lines
      BY <2>1, <2>2, <2>4, Zenon
    <2>6. /\ h.dir = g.dir
          /\ \A j \in 1..Files : j # i => h.data[j] = f.data[j]
          /\ IsSeq(lines) => h.data[i] = lines
      BY <2>2, <2>5 DEF Rewritten
    <2>7. h.dir[n] = i
      BY <2>6 DEF i
    <2>8. i # NoFile /\ i \in 0..Files /\ \A m \in Names : f.dir[m] # i
      BY <2>2, FilesAssumption DEF NoFile, Unused
    <2>9. FillsIn(f, h, n, lines)
      BY <2>2, <2>6, <2>7, <2>8 DEF FillsIn
    <2>10. \A m, k \in Names : h.dir[m] # NoFile /\ h.dir[m] = h.dir[k] => m = k
      <3> SUFFICES ASSUME NEW m \in Names, NEW k \in Names, h.dir[m] # NoFile,
                          h.dir[m] = h.dir[k], m # k
                   PROVE  FALSE
        OBVIOUS
      <3>1. m # n /\ k # n
        BY <2>2, <2>6, <2>7, <2>8
      <3> QED BY <2>2, <2>6, <3>1 DEF Plainly
    <2>11. Clean(h, {})
      <3> SUFFICES ASSUME NEW j \in Unused(h, {}) PROVE h.data[j] = <<>>
        BY DEF Clean
      <3>1. j \in 1..Files /\ j # i
        BY <2>7 DEF Unused
      <3>2. j \in Unused(f, {})
        <4>1. f.dir[n] = NoFile /\ j # NoFile
          BY <3>1, FilesAssumption DEF Exists, NoFile
        <4> QED BY <2>2, <2>6, <3>1, <4>1 DEF Unused
      <3> QED BY <2>6, <3>1, <3>2 DEF Plainly, Clean
    <2> QED BY <2>5, <2>9, <2>10, <2>11 DEF Plainly
  <1> QED BY <1>1, <1>2

\* Three files, and two names in use.
LEMMA OneFree ==
    ASSUME NEW f, NEW a, NEW b, \A n \in Names \ {a, b} : f.dir[n] = NoFile
    PROVE  Unused(f, {}) # {}
  <1>1. 1 \in 1..Files /\ 2 \in 1..Files /\ 3 \in 1..Files
    BY FilesAssumption
  <1>2. PICK i \in {1, 2, 3} : i # f.dir[a] /\ i # f.dir[b]
    <2>1. \/ 1 # f.dir[a] /\ 1 # f.dir[b]
          \/ 2 # f.dir[a] /\ 2 # f.dir[b]
          \/ 3 # f.dir[a] /\ 3 # f.dir[b]
      OBVIOUS
    <2> QED BY <2>1
  <1>3. i \in Unused(f, {})
    BY <1>1, <1>2 DEF Unused, NoFile
  <1> QED BY <1>3

LEMMA FirstFiles ==
    ASSUME NEW lines \in Lines0,
           NEW h, h = Fill(Fill(Fill(Empty, "passwd", Passwd0), "group", Group0),
                           USER_DEFAULTS_FILE, lines)
    PROVE  /\ \E W : h \in FS(W)
           /\ Plainly(h)
           /\ Exists(h, USER_DEFAULTS_FILE) => IsSeq(Contents(h, USER_DEFAULTS_FILE))
  <1> DEFINE f == Fill(Empty, "passwd", Passwd0)
             g == Fill(f, "group", Group0)
             u == USER_DEFAULTS_FILE
  <1>1. "passwd" \in Names /\ "group" \in Names /\ u \in Names
        /\ u # "passwd" /\ u # "group"
    BY NamesAssumption DEF TableNames, USER_DEFAULTS_FILE
  <1>2. Empty \in FS({<<>>}) /\ (\A n \in Names : Empty.dir[n] = NoFile) /\ Plainly(Empty)
    <2>1. Empty \in FS({<<>>})
      BY FilesAssumption DEF Empty, FS, NoFile
    <2> QED BY <2>1 DEF Empty, Plainly, Clean, Unused
  <1>3. h = Fill(g, u, lines)
    OBVIOUS
  <1> HIDE DEF u
  <1>4. (\E W : f \in FS(W)) /\ Plainly(f) /\ FillsIn(Empty, f, "passwd", Passwd0)
    <2>1. Unused(Empty, {}) # {} /\ ~Exists(Empty, "passwd")
      BY <1>1, <1>2, OneFree DEF Exists
    <2> QED BY <1>1, <1>2, <2>1, FillFact
  <1> HIDE DEF f
  <1>5. \A n \in Names \ {"passwd"} : f.dir[n] = NoFile
    BY <1>2, <1>4 DEF FillsIn
  <1>6. (\E W : g \in FS(W)) /\ Plainly(g) /\ FillsIn(f, g, "group", Group0)
    <2>1. Unused(f, {}) # {} /\ ~Exists(f, "group")
      BY <1>1, <1>5, OneFree DEF Exists
    <2> QED BY <1>1, <1>4, <2>1, FillFact
  <1> HIDE DEF g
  <1>7. \A n \in Names \ {"passwd", "group"} : g.dir[n] = NoFile
    BY <1>5, <1>6 DEF FillsIn
  <1>8. (\E W : h \in FS(W)) /\ Plainly(h) /\ FillsIn(g, h, u, lines)
    <2>1. Unused(g, {}) # {} /\ ~Exists(g, u)
      BY <1>1, <1>7, OneFree DEF Exists
    <2> QED BY <1>1, <1>3, <1>6, <2>1, FillFact
  <1>9. Exists(h, u) => IsSeq(Contents(h, u))
    BY <1>8, LinesAssumption DEF FillsIn, Exists, Contents
  <1> QED BY <1>8, <1>9 DEF u

LEMMA InitFine ==
    ASSUME Init
    PROVE  Typed /\ EtcInv
  <1>1. (\E W : fs \in FS(W)) /\ Plainly(fs) /\ (Exists(fs, USER_DEFAULTS_FILE) => IsSeq(Defaults))
    <2>1. PICK lines \in Lines0 :
            fs = Fill(Fill(Fill(Empty, "passwd", Passwd0), "group", Group0),
                      USER_DEFAULTS_FILE, lines)
      BY DEF Init
    <2> QED BY <2>1, FirstFiles DEF Defaults
  <1>2. /\ pc = [p \in Procs |-> "off"] /\ r = [p \in Procs |-> Idle] /\ faults = 0
    BY DEF Init
  <1>3. /\ \E V : Idle \in RSet(V)
        /\ Idle.fd = NoFile /\ Idle.unread = FALSE
    <2> DEFINE V == FirstVals \union {{}, TRUE, FALSE}
    <2>1. Idle \in RSet(V) /\ Idle.fd = NoFile /\ Idle.unread = FALSE
      BY IdleType
    <2> QED BY <2>1
  <1>4. Typed
    <2>1. \E V : r \in [Procs -> RSet(V)]
      BY <1>2, <1>3
    <2>2. pc \in [Procs -> Labels]
      BY <1>2 DEF Labels, Over
    <2> QED BY <1>1, <1>2, <2>1, <2>2 DEF Typed
  <1>5. \A p \in Procs : pc[p] = "off" /\ r[p].fd = NoFile /\ ~r[p].unread
    BY <1>2, <1>3
  <1>6. Open = {}
    BY <1>5 DEF Open, Running, Over
  <1>7. \A p \in Procs : Owned(p) /\ NewOK(p)
    BY <1>5 DEF Owned, NewOK, Making, Writing, Updating
  <1>8. OneOwner
    BY <1>5 DEF OneOwner, Making
  <1>9. Apart
    BY <1>1, NamesFact DEF Apart, Plainly
  <1>10. Fresh
    BY <1>5 DEF Fresh
  <1> QED BY <1>1, <1>4, <1>6, <1>7, <1>8, <1>9, <1>10 DEF EtcInv, Plainly

(* /etc stays in order, whatever fails and whoever runs together. *)
THEOREM EtcKept == Spec => [](Typed /\ EtcInv)
  <1>1. Init => Typed /\ EtcInv
    BY InitFine
  <1>2. Typed /\ EtcInv /\ [Next]_vars => (Typed /\ EtcInv)'
    BY StepFine, StutterFine DEF Fine
  <1> QED BY <1>1, <1>2, PTL DEF Spec

(* Once there is a defaults file there is one, and it is the old one or a    *)
(* complete new one (set_defaults).                                          *)
THEOREM DefaultsNeverLostHolds == Spec => DefaultsNeverLost
  <1>1. Typed /\ EtcInv /\ [Next]_vars =>
          [Exists(fs, USER_DEFAULTS_FILE) =>
             /\ Exists(fs', USER_DEFAULTS_FILE)
             /\ \/ Contents(fs', USER_DEFAULTS_FILE) = Defaults
                \/ \A k \in KeySet : HasLine(Contents(fs', USER_DEFAULTS_FILE), k)]_vars
    BY StepFine, StutterFine DEF Fine, DefStep
  <1> QED BY <1>1, EtcKept, PTL DEF DefaultsNeverLost, Spec

(* The lines set_defaults does not know are kept, in their order, until a    *)
(* set_defaults cannot open the old file.                                    *)
THEOREM OthersKeptHolds == Spec => OthersKept
  <1>1. Typed /\ EtcInv /\ [Next]_vars =>
          [(Exists(fs, USER_DEFAULTS_FILE) /\ ~Unread) =>
             Others(Contents(fs', USER_DEFAULTS_FILE)) = Others(Defaults)]_vars
    BY StepFine, StutterFine DEF Fine, DefStep
  <1> QED BY <1>1, EtcKept, PTL DEF OthersKept, Spec

-----------------------------------------------------------------------------
(* The home directories *)

\* What is written of p's home directory stays so in a step that leaves the
\* directory alone.
LEMMA SameHome ==
    ASSUME NEW p \in Procs, HomeOf(p), Like(p), pc'[p] = pc[p], faults' = 0 => faults = 0,
           Owner(p) => There(Dir(p))' /\ home'[Dir(p)] = home[Dir(p)]
    PROVE  HomeOf(p)' /\ (Owner(p)' <=> Owner(p)) /\ Dir(p)' = Dir(p)
  <1>1. /\ r'[p].added = r[p].added /\ r'[p].copied = r[p].copied
        /\ r'[p].uid = r[p].uid /\ r'[p].gid = r[p].gid
        /\ r'[p].g.home = r[p].g.home /\ r'[p].g.skel = r[p].g.skel
        /\ r'[p].then = r[p].then /\ r'[p].g.exit = r[p].g.exit
        /\ r'[p].failed = r[p].failed
    BY DEF Like, HomeSame
  <1>2. (Owner(p)' <=> Owner(p)) /\ Dir(p)' = Dir(p)
    BY <1>1 DEF Owner, Dir
  <1>3. Skeleton(p)' = Skeleton(p) /\ (Added(p)' <=> Added(p))
    BY <1>1 DEF Skeleton, Added
  <1>4. r'[p].added => Given(p)' /\ Filled(p)'
    <2> SUFFICES ASSUME r'[p].added PROVE Given(p)' /\ Filled(p)'
      OBVIOUS
    <2>1. home'[Dir(p)'] = home[Dir(p)] /\ Given(p) /\ Filled(p)
      BY <1>1, <1>2 DEF Owner, HomeOf
    <2>2. Given(p)'
      BY <1>1, <2>1 DEF Given
    <2>3. Filled(p)'
      BY <1>1, <1>2, <2>1 DEF Filled, InPlace, Missed
    <2> QED BY <2>2, <2>3
  <1>5. Owner(p)' => There(Dir(p))'
    BY <1>2
  <1>6. pc'[p] = "skel" => r'[p].added
    BY <1>1 DEF HomeOf
  <1>7. pc'[p] \notin {"skel", "mail", "done", "dead"} =>
          ~r'[p].added /\ r'[p].copied = {} /\ r'[p].failed = {}
    BY <1>1 DEF HomeOf
  <1>8. r'[p].added /\ (pc'[p] = "mail" \/ Added(p)') => Skeleton(p)' \subseteq r'[p].copied
    BY <1>1, <1>3 DEF HomeOf
  <1>9. FailedOK(p)'
    BY <1>1, <1>3 DEF HomeOf, FailedOK
  <1> QED BY <1>2, <1>4, <1>5, <1>6, <1>7, <1>8, <1>9 DEF HomeOf

\* Nothing is known of an invocation that has made no directory.
LEMMA NoHome ==
    ASSUME NEW p \in Procs, ~r'[p].added, r'[p].copied = {}, r'[p].failed = {},
           pc'[p] \notin {"skel", "chown"}
    PROVE  HomeOf(p)' /\ ~Owner(p)'
  BY DEF HomeOf, Owner, FailedOK

\* The directories stay; p has one only if it had it.
LEMMA HomeJoin ==
    ASSUME HomeInv, NEW p \in Procs, OthersLike(p), PcOthers(p), home' = home,
           faults' = 0 => faults = 0, HomeOf(p)', Owner(p)' => Owner(p) /\ Dir(p)' = Dir(p)
    PROVE  HomeInv'
  <1>1. ASSUME NEW q \in Procs \ {p}
        PROVE  HomeOf(q)' /\ (Owner(q)' <=> Owner(q)) /\ Dir(q)' = Dir(q)
    <2>1. HomeOf(q) /\ Like(q) /\ pc'[q] = pc[q]
      BY DEF HomeInv, OthersLike, PcOthers
    <2>2. Owner(q) => There(Dir(q))' /\ home'[Dir(q)] = home[Dir(q)]
      <3>1. Dir(q)' = Dir(q)
        BY <2>1 DEF Like, HomeSame, Dir
      <3> QED BY <2>1, <3>1 DEF HomeOf, There
    <2> QED BY <2>1, <2>2, SameHome
  <1>2. OwnHomes'
    BY <1>1 DEF HomeInv, OwnHomes
  <1>3. (\E V : home \in Homes(DOMAIN home, V))'
    BY DEF HomeInv
  <1> QED BY <1>1, <1>2, <1>3 DEF HomeInv

LEMMA EarlyStep ==
    ASSUME HomeInv, NEW p \in Procs, OthersLike(p), PcOthers(p), home' = home,
           faults' = 0 => faults = 0, ~r'[p].added, r'[p].copied = {}, r'[p].failed = {},
           pc'[p] \notin {"skel", "chown"}
    PROVE  HomeInv'
  BY NoHome, HomeJoin

LEMMA EndHome ==
    ASSUME HomeInv, NEW p \in Procs, OthersLike(p), PcOthers(p), home' = home,
           faults' = 0 => faults = 0, HomeSame(p), pc'[p] \in {"mail", "done", "dead"},
           r[p].added /\ (pc'[p] = "mail" \/ Added(p)') => Skeleton(p) \subseteq r[p].copied
    PROVE  HomeInv'
  <1>1. /\ r'[p].added = r[p].added /\ r'[p].copied = r[p].copied
        /\ r'[p].uid = r[p].uid /\ r'[p].gid = r[p].gid
        /\ r'[p].g.home = r[p].g.home /\ r'[p].g.skel = r[p].g.skel
        /\ r'[p].failed = r[p].failed
    BY DEF HomeSame
  <1>2. HomeOf(p)
    BY DEF HomeInv
  <1>3. Dir(p)' = Dir(p) /\ Skeleton(p)' = Skeleton(p)
    BY <1>1 DEF Dir, Skeleton
  <1>4. Owner(p)' => r[p].added
    BY <1>1 DEF Owner
  <1>5. r'[p].added => Given(p)' /\ Filled(p)'
    <2> SUFFICES ASSUME r'[p].added PROVE Given(p)' /\ Filled(p)'
      OBVIOUS
    <2>1. Given(p) /\ Filled(p)
      BY <1>1, <1>2 DEF HomeOf
    <2>2. Given(p)'
      BY <1>1, <1>3, <2>1 DEF Given
    <2>3. Filled(p)'
      BY <1>1, <1>3, <2>1 DEF Filled, InPlace, Missed
    <2> QED BY <2>2, <2>3
  <1>6. Owner(p)' => There(Dir(p))'
    BY <1>2, <1>3, <1>4 DEF HomeOf, Owner, There
  <1>7. HomeOf(p)'
    <2>1. FailedOK(p)'
      BY <1>1, <1>2, <1>3 DEF HomeOf, FailedOK
    <2> QED BY <1>1, <1>3, <1>5, <1>6, <2>1 DEF HomeOf
  <1> QED BY <1>3, <1>4, <1>7, HomeJoin DEF Owner

\* A step of p that changes its own directory only.
LEMMA HomePut ==
    ASSUME HomeInv, NEW p \in Procs, OthersLike(p), PcOthers(p), faults' = 0 => faults = 0,
           NEW d, d = Dir(p), Dir(p)' = d, d \in DOMAIN home',
           \A x \in DOMAIN home \ {d} : x \in DOMAIN home' /\ home'[x] = home[x],
           Owner(p) \/ ~There(d), HomeOf(p)', NEW W, home' \in Homes(DOMAIN home', W)
    PROVE  HomeInv'
  <1>1. ASSUME NEW q \in Procs \ {p}
        PROVE  HomeOf(q)' /\ (Owner(q)' <=> Owner(q)) /\ Dir(q)' = Dir(q)
               /\ (Owner(q) => Dir(q) # d)
    <2>1. HomeOf(q) /\ Like(q) /\ pc'[q] = pc[q]
      BY DEF HomeInv, OthersLike, PcOthers
    <2>2. Owner(q) => Dir(q) # d /\ Dir(q) \in DOMAIN home
      BY <2>1 DEF HomeInv, OwnHomes, HomeOf, There
    <2>3. Owner(q) => There(Dir(q))' /\ home'[Dir(q)] = home[Dir(q)]
      <3>1. Dir(q)' = Dir(q)
        BY <2>1 DEF Like, HomeSame, Dir
      <3> QED BY <2>2, <3>1 DEF There
    <2> QED BY <2>1, <2>2, <2>3, SameHome
  <1>2. OwnHomes'
    BY <1>1 DEF HomeInv, OwnHomes
  <1>3. (\E V : home \in Homes(DOMAIN home, V))'
    OBVIOUS
  <1>4. \A q \in Procs : HomeOf(q)'
    BY <1>1
  <1> QED BY <1>2, <1>3, <1>4 DEF HomeInv

\* An invocation goes on that has made no directory.
Kept(p) ==
    /\ OthersLike(p) /\ r'[p].added = r[p].added /\ r'[p].copied = r[p].copied
    /\ r'[p].failed = r[p].failed

LEMMA KeptEarly ==
    ASSUME Typed, HomeInv, NEW p \in Procs, Kept(p),
           pc[p] \notin {"skel", "mail", "done", "dead"},
           NEW label \in Ahead \ {"skel", "chown"}, Goto(p, label),
           home' = home, faults' = faults \/ faults' = faults + 1
    PROVE  HomeInv'
  <1>1. PcOthers(p) /\ pc'[p] = label
    BY TypedParts, GotoFx
  <1>2. ~r[p].added /\ r[p].copied = {} /\ r[p].failed = {}
    BY DEF HomeInv, HomeOf
  <1>3. ~r'[p].added /\ r'[p].copied = {} /\ r'[p].failed = {} /\ OthersLike(p)
    BY <1>2 DEF Kept
  <1>4. faults' = 0 => faults = 0
    BY TypedParts
  <1> QED BY <1>1, <1>3, <1>4, EarlyStep

LEMMA GiveUpHome ==
    ASSUME Typed, HomeInv, NEW p \in Procs, NEW f, GiveUp(p, f),
           pc[p] \notin {"skel", "mail", "done", "dead"},
           home' = home, faults' = faults \/ faults' = faults + 1
    PROVE  HomeInv'
  <1>1. Kept(p)
    BY GiveUpIs DEF Kept, HomeSame
  <1>2. Goto(p, "done") /\ "done" \in Ahead \ {"skel", "chown"}
    BY LabelIn DEF GiveUp, Over
  <1> QED BY <1>1, <1>2, KeptEarly

LEMMA LinedKept ==
    ASSUME Typed, NEW p \in Procs, NEW b, NEW u \in BOOLEAN,
           r[p].unread => u, Lined(p, b, u)
    PROVE  Kept(p)
  <1>1. PICK V : RowsTyped(V)
    BY TypedParts
  <1>2. OthersLike(p) /\ HomeSame(p)
    BY <1>1, LinesFx
  <1> QED BY <1>2 DEF Kept, HomeSame

LEMMA MadeKept ==
    ASSUME Typed, NEW p \in Procs, NEW n, NEW i \in 0..Files,
           r' = [r EXCEPT ![p].new_file = n, ![p].fd = i]
    PROVE  Kept(p)
  <1>1. PICK V : RowsTyped(V)
    BY TypedParts
  <1>2. OthersLike(p) /\ HomeSame(p)
    BY <1>1, MadeFx
  <1> QED BY <1>2 DEF Kept, HomeSame

LEMMA ClosedKept ==
    ASSUME Typed, NEW p \in Procs, NEW s,
           r' = [r EXCEPT ![p].fd = NoFile, ![p].buf = <<>>, ![p].short = s]
    PROVE  Kept(p)
  <1>1. PICK V : RowsTyped(V)
    BY TypedParts
  <1>2. OthersLike(p) /\ HomeSame(p)
    BY <1>1, CloseFx
  <1> QED BY <1>2 DEF Kept, HomeSame

LEMMA KeptFx ==
    ASSUME Typed, NEW p \in Procs,
           \/ UNCHANGED r
           \/ \E s : r' = [r EXCEPT ![p].g.exit = s]
           \/ \E n : \E i \in 0..Files : r' = [r EXCEPT ![p].new_file = n, ![p].fd = i]
           \/ \E i \in 0..Files : r' = [r EXCEPT ![p].fd = i]
           \/ \E b : r' = [r EXCEPT ![p].buf = b]
           \/ r' = [r EXCEPT ![p].fd = NoFile, ![p].buf = <<>>]
           \/ \E s : r' = [r EXCEPT ![p].fd = NoFile, ![p].buf = <<>>, ![p].short = s]
           \/ \E b : \E u \in BOOLEAN : /\ r[p].unread => u
                                       /\ r' = [r EXCEPT ![p].buf = b, ![p].unread = u]
    PROVE  Kept(p)
  <1>1. PICK V : RowsTyped(V)
    BY TypedParts
  <1>2. CASE UNCHANGED r
    BY <1>1, <1>2, SameRows DEF Kept, OthersLike
  <1>3. CASE \E s : r' = [r EXCEPT ![p].g.exit = s]
    BY <1>1, <1>3, ExitFx DEF Kept, HomeSame
  <1>4. CASE \E n : \E i \in 0..Files : r' = [r EXCEPT ![p].new_file = n, ![p].fd = i]
    BY <1>4, MadeKept, Zenon
  <1>5. CASE \E i \in 0..Files : r' = [r EXCEPT ![p].fd = i]
    BY <1>1, <1>5, OpenFx DEF Kept, HomeSame
  <1>6. CASE \E b : r' = [r EXCEPT ![p].buf = b]
    BY <1>1, <1>6, BufFx DEF Kept, HomeSame
  <1>7. CASE r' = [r EXCEPT ![p].fd = NoFile, ![p].buf = <<>>]
    BY <1>1, <1>7, FlushFx DEF Kept, HomeSame
  <1>8. CASE \E s : r' = [r EXCEPT ![p].fd = NoFile, ![p].buf = <<>>, ![p].short = s]
    BY <1>8, ClosedKept, Zenon
  <1>9. CASE \E b : \E u \in BOOLEAN : /\ r[p].unread => u
                                      /\ r' = [r EXCEPT ![p].buf = b, ![p].unread = u]
    <2>1. PICK b, u : /\ u \in BOOLEAN
                      /\ r[p].unread => u
                      /\ r' = [r EXCEPT ![p].buf = b, ![p].unread = u]
      BY <1>9, Zenon
    <2>2. Lined(p, b, u)
      BY <2>1, Zenon DEF Lined
    <2> QED BY <2>1, <2>2, LinedKept
  <1> QED BY <1>2, <1>3, <1>4, <1>5, <1>6, <1>7, <1>8, <1>9

(* set_defaults makes no directory. *)
LEMMA SetHome ==
    ASSUME Typed, EtcInv, HomeInv, NEW p \in Procs, SetDefaults(p)
    PROVE  HomeInv'
  <1>1. home' = home /\ pc[p] \in {"mkstemps"} \union Making
    BY DEF SetDefaults, mkstemps, CopyLines, FlushNew, UnlinkBackup, LinkBackup, RenameNew, Making
  <1>2. pc[p] \notin {"skel", "mail", "done", "dead"}
    BY <1>1 DEF Making
  <1>3. Making \subseteq Ahead \ {"skel", "chown"} /\ "done" \in Ahead \ {"skel", "chown"}
    BY LabelIn DEF Making, Over
  <1>4. ASSUME NEW f, GiveUp(p, f), faults' = faults \/ faults' = faults + 1
        PROVE  HomeInv'
    BY <1>1, <1>2, <1>4, GiveUpHome
  <1>5. ASSUME NEW label \in Ahead \ {"skel", "chown"}, Goto(p, label), Kept(p),
               faults' = faults \/ faults' = faults + 1
        PROVE  HomeInv'
    BY <1>1, <1>2, <1>5, KeptEarly
  <1>6. CASE mkstemps(p)
    <2> DEFINE n == CHOOSE n \in FreshNames : TRUE
    <2>1. \/ /\ FreshNames # {} /\ Room(fs, n, Open) /\ fs' = Creat(fs, n, Open)
             /\ r' = [r EXCEPT ![p].new_file = n, ![p].fd = fs'.dir[n]]
             /\ Goto(p, "lines") /\ UNCHANGED faults
          \/ Fails /\ GiveUp(p, fs)
      BY <1>6, Zenon DEF mkstemps
    <2>2. FreshNames # {} => n \in FreshNames
      OBVIOUS
    <2> HIDE DEF n
    <2>3. CASE Fails /\ GiveUp(p, fs)
      BY <1>4, <2>3 DEF Fails
    <2>4. CASE /\ FreshNames # {} /\ Room(fs, n, Open) /\ fs' = Creat(fs, n, Open)
               /\ r' = [r EXCEPT ![p].new_file = n, ![p].fd = fs'.dir[n]]
               /\ Goto(p, "lines") /\ UNCHANGED faults
      <3> DEFINE i == fs'.dir[n]
      <3>1. n \in Names
        BY <2>2, <2>4, NamesFact DEF FreshNames
      <3>2. i \in 1..Files
        BY <2>4, <3>1, MadeIs
      <3>3. i \in 0..Files
        BY <3>2, FilesAssumption
      <3>4. r' = [r EXCEPT ![p].new_file = n, ![p].fd = i]
        BY <2>4
      <3> HIDE DEF i
      <3>5. Kept(p)
        BY <3>3, <3>4, KeptFx
      <3>6. "lines" \in Ahead \ {"skel", "chown"}
        BY <1>3 DEF Making
      <3> QED BY <1>5, <2>4, <3>5, <3>6
    <2> QED BY <2>1, <2>3, <2>4
  <1>7. CASE CopyLines(p)
    <2>1. faults' = faults \/ faults' = faults + 1
      BY <1>7, CopyLinesIs
    <2>2. CASE GiveUp(p, fs)
      BY <1>4, <2>1, <2>2
    <2>3. ASSUME NEW old, NEW u \in BOOLEAN, r[p].unread => u,
                 LinesTaken(p, Complete(r[p].g, Copied(r[p].g, old)), u)
          PROVE  HomeInv'
      <3>1. PICK b : b = Complete(r[p].g, Copied(r[p].g, old))
        OBVIOUS
      <3>2. r' = [r EXCEPT ![p].buf = b, ![p].unread = u] /\ Goto(p, "flush")
        BY <2>3, <3>1, Zenon DEF LinesTaken
      <3>3. Kept(p)
        BY <2>3, <3>2, KeptFx
      <3>4. "flush" \in Ahead \ {"skel", "chown"}
        BY <1>3 DEF Making
      <3> QED BY <1>5, <2>1, <3>2, <3>3, <3>4
    <2> QED BY <1>7, <2>2, <2>3, CopyLinesIs
  <1>8. CASE FlushNew(p)
    <2>1. \/ /\ r' = [r EXCEPT ![p].fd = NoFile, ![p].buf = <<>>]
             /\ Goto(p, "unlink") /\ faults' = faults
          \/ faults' = faults + 1 /\ GiveUp(p, Removed(p))
      BY <1>8, Zenon DEF FlushNew, Fails
    <2>2. "unlink" \in Ahead \ {"skel", "chown"}
      BY <1>3 DEF Making
    <2> QED BY <1>4, <1>5, <2>1, <2>2, KeptFx
  <1>9. CASE UnlinkBackup(p)
    <2>1. Goto(p, "link") /\ UNCHANGED r /\ faults' = faults /\ "link" \in Ahead \ {"skel", "chown"}
      BY <1>3, <1>9 DEF UnlinkBackup, Making
    <2> QED BY <1>5, <2>1, KeptFx
  <1>10. CASE LinkBackup(p)
    <2>1. \/ Goto(p, "rename") /\ UNCHANGED r /\ faults' = faults
          \/ GiveUp(p, Removed(p)) /\ (faults' = faults \/ faults' = faults + 1)
      BY <1>10 DEF LinkBackup, Fails
    <2>2. "rename" \in Ahead \ {"skel", "chown"}
      BY <1>3 DEF Making
    <2> QED BY <1>4, <1>5, <2>1, <2>2, KeptFx
  <1>11. CASE RenameNew(p)
    <2>1. \/ /\ r' = [r EXCEPT ![p].g.exit = E_SUCCESS]
             /\ Goto(p, "done") /\ faults' = faults
          \/ faults' = faults + 1 /\ GiveUp(p, fs)
      BY <1>11, Zenon DEF RenameNew, Fails, Quit
    <2> QED BY <1>3, <1>4, <1>5, <2>1, KeptFx
  <1> QED BY <1>6, <1>7, <1>8, <1>9, <1>10, <1>11 DEF SetDefaults

(* Nor do gr_update and pw_update. *)
LEMMA UpdateHome ==
    ASSUME Typed, EtcInv, HomeInv, NEW p \in Procs,
           OpenTmp(p) \/ CopyTable(p) \/ CloseTmp(p) \/ RenameOld(p) \/ RenameTmp(p)
    PROVE  HomeInv'
  <1>1. /\ home' = home /\ pc[p] \notin {"skel", "mail", "done", "dead"}
        /\ faults' = faults \/ faults' = faults + 1
    BY DEF OpenTmp, CopyTable, CloseTmp, RenameOld, RenameTmp, Etc
  <1>2. ASSUME NEW label \in Ahead \ {"skel", "chown"}, Goto(p, label), Kept(p)
        PROVE  HomeInv'
    BY <1>1, <1>2, KeptEarly
  <1>3. CASE OpenTmp(p)
    <2> DEFINE n == Tmp[r[p].tab]
               i == fs'.dir[n]
    <2>1. /\ Room(fs, n, Open) /\ fs' = Creat(fs, n, Open)
          /\ r' = [r EXCEPT ![p].fd = i] /\ Goto(p, "copy")
      BY <1>3 DEF OpenTmp
    <2>2. n \in Names
      BY TabNames, NamesFact
    <2> HIDE DEF n
    <2>3. i \in 1..Files
      BY <2>1, <2>2, MadeIs
    <2> HIDE DEF i
    <2>4. i \in 0..Files /\ "copy" \in Ahead \ {"skel", "chown"}
      BY <2>3, FilesAssumption, LabelIn DEF Updating
    <2>5. Kept(p)
      BY <2>1, <2>4, KeptFx
    <2> QED BY <1>2, <2>1, <2>4, <2>5
  <1>4. CASE CopyTable(p)
    <2>1. (\E b : r' = [r EXCEPT ![p].buf = b]) /\ Goto(p, "close")
      BY <1>4 DEF CopyTable
    <2>2. "close" \in Ahead \ {"skel", "chown"}
      BY LabelIn DEF Updating
    <2> QED BY <1>2, <2>1, <2>2, KeptFx
  <1>5. CASE CloseTmp(p)
    <2>1. PICK s : r' = [r EXCEPT ![p].fd = NoFile, ![p].buf = <<>>, ![p].short = s]
      BY <1>5 DEF CloseTmp
    <2>2. Goto(p, "bak") /\ "bak" \in Ahead \ {"skel", "chown"}
      BY <1>5, LabelIn DEF CloseTmp
    <2> QED BY <1>2, <2>1, <2>2, KeptFx
  <1>6. CASE RenameOld(p)
    <2>1. Goto(p, "swap") /\ UNCHANGED r /\ "swap" \in Ahead \ {"skel", "chown"}
      BY <1>6, LabelIn DEF RenameOld
    <2> QED BY <1>2, <2>1, KeptFx
  <1>7. CASE RenameTmp(p)
    <2>1. Goto(p, r[p].then) /\ UNCHANGED r
      BY <1>7 DEF RenameTmp
    <2>2. r[p].then \in Ahead \ {"skel", "chown"}
      BY TabNames, LabelIn DEF Over
    <2> QED BY <1>2, <2>1, <2>2, KeptFx
  <1> QED BY <1>3, <1>4, <1>5, <1>6, <1>7

LEMMA StartHome ==
    ASSUME Typed, EtcInv, HomeInv, NEW p \in Procs, Start(p)
    PROVE  HomeInv'
  <1>1. PICK V : RowsTyped(V)
    BY TypedParts
  <1>2. /\ OthersLike(p) /\ PcOthers(p) /\ ~r'[p].added /\ r'[p].copied = {}
        /\ r'[p].failed = {} /\ pc'[p] \in {"done", "mkstemps", "name"}
        /\ home' = home /\ (faults' = faults \/ faults' = faults + 1)
    BY <1>1, TypedParts, StartIs
  <1>3. faults' = 0 => faults = 0
    BY <1>2, TypedParts
  <1> QED BY <1>2, <1>3, EarlyStep

\* A step of main that changes no file goes on to a label of B.
GoesTo(p, B) ==
    /\ \E b \in B : Slips(p, b)
    /\ r'[p].added = r[p].added /\ r'[p].copied = r[p].copied /\ r'[p].failed = r[p].failed

Before == {"done", "dead", "group", "uid", "gid", "usr", "open", "scan", "home", "mkdir", "mail"}

(* The steps before there is a home directory. *)
LEMMA EarlyHome ==
    ASSUME Typed, HomeInv, NEW p \in Procs,
           \/ CheckName(p) \/ CheckGroup(p) \/ PickUid(p) \/ AddGroup(p) \/ UsrUpdate(p)
           \/ GrpUpdate(p) \/ ScanGroups(p) \/ GrDupDies(p) \/ CreateHome(p)
    PROVE  HomeInv'
  <1>1. PICK V : RowsTyped(V)
    BY TypedParts
  <1>2. pc \in [Procs -> Labels]
    BY TypedParts
  <1>3. /\ home' = home /\ faults' = faults
        /\ pc[p] \notin {"skel", "mail", "done", "dead"}
    BY DEF CheckName, CheckGroup, PickUid, AddGroup, UsrUpdate, GrpUpdate, ScanGroups, GrDupDies,
           CreateHome, Etc
  <1>4. GoesTo(p, Before)
    <2>1. CASE CheckName(p)
      BY <1>1, <1>2, <2>1, CheckNameFx DEF GoesTo, Before, HomeSame
    <2>2. CASE CheckGroup(p)
      BY <1>1, <1>2, <2>2, CheckGroupFx DEF GoesTo, Before, HomeSame
    <2>3. CASE PickUid(p)
      BY <1>1, <1>2, <2>3, PickUidFx DEF GoesTo, Before
    <2>4. CASE AddGroup(p)
      BY <1>1, <1>2, <2>4, AddGroupFx DEF GoesTo, Before
    <2>5. CASE UsrUpdate(p)
      BY <1>1, <1>2, <2>5, UsrUpdateFx DEF GoesTo, Before, HomeSame
    <2>6. CASE GrpUpdate(p)
      BY <1>1, <1>2, <2>6, GrpUpdateFx DEF GoesTo, Before, HomeSame
    <2>7. CASE ScanGroups(p)
      BY <1>1, <1>2, <2>7, ScanGroupsFx DEF GoesTo, Before, HomeSame
    <2>8. CASE GrDupDies(p)
      BY <1>1, <1>2, <2>8, GrDupDiesFx DEF GoesTo, Before, HomeSame
    <2>9. CASE CreateHome(p)
      BY <1>1, <1>2, <2>9, CreateHomeFx DEF GoesTo, Before, HomeSame
    <2> QED BY <2>1, <2>2, <2>3, <2>4, <2>5, <2>6, <2>7, <2>8, <2>9
  <1>5. OthersLike(p) /\ PcOthers(p) /\ pc'[p] \notin {"skel", "chown"}
    BY <1>4 DEF GoesTo, Before, Slips
  <1>6. ~r[p].added /\ r[p].copied = {} /\ r[p].failed = {}
    BY <1>3 DEF HomeInv, HomeOf
  <1>7. ~r'[p].added /\ r'[p].copied = {} /\ r'[p].failed = {}
    BY <1>4, <1>6 DEF GoesTo
  <1> QED BY <1>3, <1>5, <1>7, EarlyStep

(* mkdir: the directory is new, and so nobody else's. *)
LEMMA MakeHomeHome ==
    ASSUME Typed, HomeInv, NEW p \in Procs, MakeHome(p)
    PROVE  HomeInv'
  <1>1. PICK V : RowsTyped(V)
    BY TypedParts
  <1>2. PICK U : home \in Homes(DOMAIN home, U)
    BY DEF HomeInv
  <1> DEFINE new == [uid |-> 0, gid |-> 0, mode |-> "000", files |-> <<>>]
  <1>3. /\ HomeSame(p)
        /\ \/ Slips(p, "done") /\ home' = home
           \/ /\ Slips(p, "chown") /\ ~There(Dir(p))
              /\ home' = Put(home, Dir(p), new)
    BY <1>1, TypedParts, MakeHomeFx
  <1>4. (faults' = 0 => faults = 0) /\ pc[p] = "mkdir"
    BY TypedParts DEF MakeHome, Fails
  <1>5. ~r[p].added /\ r[p].copied = {} /\ r[p].failed = {}
    BY <1>4 DEF HomeInv, HomeOf
  <1>6. ~r'[p].added /\ r'[p].copied = {} /\ r'[p].failed = {}
    BY <1>3, <1>5 DEF HomeSame
  <1>7. CASE Slips(p, "done") /\ home' = home
    <2>1. OthersLike(p) /\ PcOthers(p) /\ pc'[p] = "done"
      BY <1>7 DEF Slips
    <2> QED BY <1>4, <1>6, <1>7, <2>1, EarlyStep
  <1>8. CASE Slips(p, "chown") /\ ~There(Dir(p)) /\ home' = Put(home, Dir(p), new)
    <2>1. OthersLike(p) /\ PcOthers(p) /\ pc'[p] = "chown"
      BY <1>8 DEF Slips
    <2>2. Dir(p)' = Dir(p)
      BY <1>3 DEF HomeSame, Dir
    <2>3. PICK d : d = Dir(p)
      OBVIOUS
    <2>4. /\ DOMAIN home' = DOMAIN home \union {d} /\ home'[d] = new
          /\ \A x \in DOMAIN home \ {d} : x \in DOMAIN home' /\ home'[x] = home[x]
      BY <1>8, <2>3 DEF Put
    <2> DEFINE W == U \union {0, "000", <<>>}
    <2>5. home' \in Homes(DOMAIN home', W)
      <3>1. new \in [uid : W, gid : W, mode : W, files : W]
        OBVIOUS
      <3>2. \A x \in DOMAIN home : home[x] \in [uid : W, gid : W, mode : W, files : W]
        BY <1>2 DEF Homes
      <3> HIDE DEF W, new
      <3>3. home' \in [DOMAIN home \union {d} -> [uid : W, gid : W, mode : W, files : W]]
        BY <1>8, <2>3, <3>1, <3>2 DEF Put
      <3> QED BY <2>4, <3>3 DEF Homes
    <2> HIDE DEF W, new
    <2>6. HomeOf(p)'
      BY <1>6, <2>1, <2>2, <2>3, <2>4 DEF HomeOf, Owner, There, FailedOK
    <2>7. ~There(d)
      BY <1>8, <2>3
    <2>8. Dir(p)' = d /\ d \in DOMAIN home'
      BY <2>2, <2>3, <2>4
    <2> QED BY <1>4, <2>1, <2>3, <2>4, <2>5, <2>6, <2>7, <2>8, HomePut
  <1> QED BY <1>3, <1>7, <1>8

\* A directory in which one thing after another is changed.
HSet(V) == [uid : V, gid : V, mode : V, files : V]

LEMMA OneDir ==
    ASSUME NEW U, home \in Homes(DOMAIN home, U), NEW W, U \subseteq W,
           NEW d \in DOMAIN home, NEW h \in HSet(W), home' = [home EXCEPT ![d] = h]
    PROVE  /\ home' \in Homes(DOMAIN home', W)
           /\ d \in DOMAIN home' /\ home'[d] = h
           /\ \A x \in DOMAIN home \ {d} : x \in DOMAIN home' /\ home'[x] = home[x]
  <1>1. home \in [DOMAIN home -> HSet(W)]
    BY DEF Homes, HSet
  <1>2. home' \in [DOMAIN home -> HSet(W)]
    <2> HIDE DEF HSet
    <2> QED BY <1>1
  <1>3. DOMAIN home' = DOMAIN home
    OBVIOUS
  <1> QED BY <1>2, <1>3 DEF Homes, HSet

(* chown: the directory is the user's. *)
LEMMA OwnHomeHome ==
    ASSUME Typed, HomeInv, NEW p \in Procs, OwnHome(p)
    PROVE  HomeInv'
  <1>1. PICK V : RowsTyped(V)
    BY TypedParts
  <1>2. PICK U : home \in Homes(DOMAIN home, U)
    BY DEF HomeInv
  <1>3. /\ Slips(p, "skel") /\ r'[p].added
        /\ r'[p].copied = r[p].copied /\ r'[p].uid = r[p].uid /\ r'[p].gid = r[p].gid
        /\ r'[p].g = r[p].g /\ r'[p].failed = r[p].failed
    BY <1>1, TypedParts, OwnHomeFx
  <1>4. /\ pc[p] = "chown" /\ faults' = faults
        /\ home' = [home EXCEPT ![Dir(p)] =
                      [@ EXCEPT !.uid = r[p].uid, !.gid = r[p].gid, !.mode = "755"]]
    BY Zenon DEF OwnHome
  <1>5. OthersLike(p) /\ PcOthers(p) /\ pc'[p] = "skel"
    BY <1>3 DEF Slips
  <1>6. Owner(p) /\ There(Dir(p)) /\ r[p].copied = {} /\ r[p].failed = {}
    BY <1>4 DEF HomeInv, HomeOf, Owner
  <1>7. PICK d : d = Dir(p)
    OBVIOUS
  <1>8. PICK u : u = r[p].uid
    OBVIOUS
  <1>9. PICK i : i = r[p].gid
    OBVIOUS
  <1> DEFINE W == U \union {u, i, "755"}
             h == [home[d] EXCEPT !.uid = u, !.gid = i, !.mode = "755"]
  <1>10. d \in DOMAIN home /\ home[d] \in HSet(W)
    BY <1>2, <1>6, <1>7 DEF There, Homes, HSet
  <1>11. h \in HSet(W) /\ h.uid = u /\ h.gid = i /\ h.mode = "755"
    BY <1>10 DEF HSet
  <1>12. home' = [home EXCEPT ![d] = h]
    BY <1>4, <1>7, <1>8, <1>9
  <1>13. U \subseteq W
    OBVIOUS
  <1> HIDE DEF W, h
  <1>14. /\ home' \in Homes(DOMAIN home', W)
         /\ d \in DOMAIN home' /\ home'[d] = h
         /\ \A x \in DOMAIN home \ {d} : x \in DOMAIN home' /\ home'[x] = home[x]
    BY <1>2, <1>10, <1>11, <1>12, <1>13, OneDir
  <1>15. Dir(p)' = d
    BY <1>3, <1>7 DEF Dir
  <1>16. HomeOf(p)'
    <2>1. Given(p)'
      BY <1>3, <1>8, <1>9, <1>11, <1>14, <1>15 DEF Given
    <2>2. Filled(p)'
      BY <1>3, <1>6 DEF Filled
    <2>3. There(Dir(p))'
      BY <1>14, <1>15 DEF There
    <2>4. FailedOK(p)'
      BY <1>3, <1>6 DEF FailedOK
    <2> QED BY <1>3, <1>5, <2>1, <2>2, <2>3, <2>4 DEF HomeOf, Added
  <1> QED BY <1>4, <1>5, <1>6, <1>7, <1>14, <1>15, <1>16, HomePut

(* Paths and what they begin with *)
LEMMA FrontIs ==
    ASSUME NEW f, IsSeq(f), Front(f) # <<>>
    PROVE  /\ Len(f) \in Nat /\ Len(Front(f)) = Len(f) - 1
           /\ \A n \in 0..Len(f) - 1 : SubSeq(Front(f), 1, n) = SubSeq(f, 1, n)
  <1> DEFINE S == {f[i] : i \in 1..Len(f)}
  <1>1. Len(f) \in Nat /\ f = [i \in 1..Len(f) |-> f[i]]
    BY DEF IsSeq
  <1>2. f \in [1..Len(f) -> S]
    BY <1>1
  <1>3. f \in Seq(S)
    BY <1>1, <1>2
  <1> HIDE DEF S
  <1>4. CASE Len(f) = 0
    <2>1. SubSeq(f, 1, Len(f) - 1) = <<>>
      BY <1>3, <1>4
    <2> QED BY <2>1 DEF Front
  <1>5. CASE Len(f) # 0
    <2>1. Front(f) = SubSeq(f, 1, Len(f) - 1) /\ Len(Front(f)) = Len(f) - 1
      BY <1>1, <1>3, <1>5 DEF Front
    <2>2. ASSUME NEW n \in 0..Len(f) - 1
          PROVE  SubSeq(SubSeq(f, 1, Len(f) - 1), 1, n) = SubSeq(f, 1, n)
      BY <1>1, <1>3, <1>5, <2>2
    <2> QED BY <1>1, <2>1, <2>2
  <1> QED BY <1>4, <1>5

LEMMA FrontLen ==
    ASSUME NEW f, IsSeq(f), Front(f) # <<>>
    PROVE  Len(f) \in Nat /\ Len(Front(f)) = Len(f) - 1
  BY FrontIs

LEMMA PrefixFacts ==
    ASSUME NEW f, IsSeq(f)
    PROVE  /\ IsPrefix(f, f) /\ IsPrefix(<<>>, f)
           /\ \A x : (IsSeq(x) /\ Front(f) # <<>> /\ IsPrefix(x, Front(f))) => IsPrefix(x, f)
  <1>1. Len(f) \in Nat
    BY DEF IsSeq
  <1>2. PICK S : f \in Seq(S)
    BY IsSeqOf
  <1>3. IsPrefix(f, f)
    BY <1>1 DEF IsPrefix
  <1>4. IsPrefix(<<>>, f)
    <2>1. Len(<<>>) = 0 /\ SubSeq(<<>>, 1, 0) = <<>> /\ SubSeq(f, 1, 0) = <<>>
      BY <1>2
    <2> QED BY <1>1, <2>1 DEF IsPrefix
  <1>5. ASSUME NEW x, IsSeq(x), Front(f) # <<>>, IsPrefix(x, Front(f))
        PROVE  IsPrefix(x, f)
    <2>1. /\ Len(x) \in Nat /\ Len(x) <= Len(Front(f))
          /\ SubSeq(x, 1, Len(x)) = SubSeq(Front(f), 1, Len(x))
      BY <1>5 DEF IsPrefix, IsSeq
    <2>2. Len(Front(f)) = Len(f) - 1
      BY <1>5, FrontIs
    <2>3. Len(x) \in 0..Len(f) - 1
      BY <1>1, <2>1, <2>2
    <2>4. SubSeq(Front(f), 1, Len(x)) = SubSeq(f, 1, Len(x))
      BY <1>5, <2>3, FrontIs
    <2> QED BY <1>1, <2>1, <2>2, <2>4 DEF IsPrefix
  <1> QED BY <1>3, <1>4, <1>5

LEMMA SkelPaths ==
    ASSUME NEW p \in Procs
    PROVE  /\ \A f \in Skeleton(p) : /\ IsSeq(f)
                                     /\ Front(f) = <<>> \/ Front(f) \in Skeleton(p)
           /\ IsSeq(<<>>)
  <1>1. \A f \in Skeleton(p) : IsSeq(f) /\ (Front(f) = <<>> \/ Front(f) \in Skeleton(p))
    BY SkelsAssumption DEF Skeleton
  <1>2. IsSeq(<<>>)
    BY DEF IsSeq
  <1> QED BY <1>1, <1>2

\* What a step of copy_tree begins with.
LEMMA AtSkel ==
    ASSUME HomeInv, NEW p \in Procs, pc[p] = "skel", NEW c, NEW m, Copies(p, c, m)
    PROVE  /\ OthersLike(p) /\ PcOthers(p) /\ pc'[p] = "skel"
           /\ Owner(p) /\ Owner(p)' /\ There(Dir(p)) /\ r[p].added /\ r'[p].added
           /\ Given(p) /\ Filled(p) /\ FailedOK(p)
           /\ Dir(p)' = Dir(p) /\ Skeleton(p)' = Skeleton(p) /\ ~Added(p)'
           /\ r'[p].uid = r[p].uid /\ r'[p].gid = r[p].gid /\ r'[p].copied = c /\ r'[p].failed = m
  <1>1. OthersLike(p) /\ PcOthers(p) /\ pc'[p] = "skel"
    BY DEF Copies, Slips
  <1>2. Owner(p) /\ There(Dir(p)) /\ r[p].added /\ Given(p) /\ Filled(p) /\ FailedOK(p)
    BY DEF HomeInv, HomeOf, Owner
  <1>3. r'[p].added /\ Dir(p)' = Dir(p) /\ Skeleton(p)' = Skeleton(p)
    BY <1>2 DEF Copies, Dir, Skeleton
  <1>4. Owner(p)' /\ ~Added(p)'
    BY <1>1, <1>3 DEF Owner, Added
  <1> QED BY <1>1, <1>2, <1>3, <1>4 DEF Copies

(* copy_tree makes nothing for what it comes to. *)
LEMMA NoFilePut ==
    ASSUME HomeInv, NEW p \in Procs, pc[p] = "skel", NEW c, NEW m, Copies(p, c, m), home' = home,
           faults' = 0 => faults = 0, FailedOK(p)',
           \A x \in c : Missed(p, x)' \/ (x \in r[p].copied /\ ~Missed(p, x))
    PROVE  HomeInv'
  <1>1. /\ OthersLike(p) /\ PcOthers(p) /\ pc'[p] = "skel"
        /\ Owner(p) /\ Owner(p)' /\ There(Dir(p)) /\ r[p].added /\ r'[p].added
        /\ Given(p) /\ Filled(p)
        /\ Dir(p)' = Dir(p) /\ ~Added(p)'
        /\ r'[p].uid = r[p].uid /\ r'[p].gid = r[p].gid /\ r'[p].copied = c
    BY AtSkel
  <1>2. Given(p)' /\ There(Dir(p))'
    BY <1>1 DEF Given, There
  <1>3. Filled(p)'
    <2> SUFFICES ASSUME NEW x \in c PROVE InPlace(p, x)' \/ Missed(p, x)'
      BY <1>1 DEF Filled
    <2>1. InPlace(p, x) => InPlace(p, x)'
      BY <1>1 DEF InPlace
    <2> QED BY <1>1, <2>1 DEF Filled
  <1>4. HomeOf(p)'
    BY <1>1, <1>2, <1>3 DEF HomeOf
  <1> QED BY <1>1, <1>4, HomeJoin

(* It makes a file or a directory. *)
LEMMA FilePut ==
    ASSUME HomeInv, NEW p \in Procs, pc[p] = "skel", NEW c, NEW m, Copies(p, c, m),
           NEW f, f \notin r[p].copied, NEW u, NEW i, NEW w, PutFile(p, f, u, i, w),
           faults' = 0 => faults = 0, FailedOK(p)',
           \A x \in c : \/ Missed(p, x)'
                        \/ x \in r[p].copied /\ ~Missed(p, x)
                        \/ x = f /\ u = r[p].uid /\ i = r[p].gid /\ w = TRUE
    PROVE  HomeInv'
  <1>1. /\ OthersLike(p) /\ PcOthers(p) /\ pc'[p] = "skel"
        /\ Owner(p) /\ Owner(p)' /\ There(Dir(p)) /\ r[p].added /\ r'[p].added
        /\ Given(p) /\ Filled(p)
        /\ Dir(p)' = Dir(p) /\ ~Added(p)'
        /\ r'[p].uid = r[p].uid /\ r'[p].gid = r[p].gid /\ r'[p].copied = c
    BY AtSkel
  <1>2. PICK U : home \in Homes(DOMAIN home, U)
    BY DEF HomeInv
  <1>3. PICK d : d = Dir(p)
    OBVIOUS
  <1>4. PICK e : e = [uid |-> u, gid |-> i, whole |-> w]
    OBVIOUS
  <1>5. PICK put : put = Put(home[d].files, f, e)
    OBVIOUS
  <1> DEFINE W == U \union {put}
             h == [home[d] EXCEPT !.files = put]
  <1>6. d \in DOMAIN home /\ home[d] \in HSet(W)
    BY <1>1, <1>2, <1>3 DEF There, Homes, HSet
  <1>7. /\ h \in HSet(W) /\ h.uid = home[d].uid /\ h.gid = home[d].gid
        /\ h.mode = home[d].mode /\ h.files = put
    BY <1>6 DEF HSet
  <1>8. home' = [home EXCEPT ![d] = h]
    BY <1>3, <1>4, <1>5 DEF PutFile
  <1>9. U \subseteq W
    OBVIOUS
  <1> HIDE DEF W, h
  <1>10. /\ home' \in Homes(DOMAIN home', W)
         /\ d \in DOMAIN home' /\ home'[d] = h
         /\ \A x \in DOMAIN home \ {d} : x \in DOMAIN home' /\ home'[x] = home[x]
    BY <1>2, <1>6, <1>7, <1>8, <1>9, OneDir
  <1>11. Dir(p)' = d
    BY <1>1, <1>3
  <1>12. /\ f \in DOMAIN put /\ put[f] = e
         /\ \A y \in DOMAIN home[d].files \ {f} : y \in DOMAIN put /\ put[y] = home[d].files[y]
    BY <1>5 DEF Put
  <1>13. home'[Dir(p)'].files = put
    BY <1>7, <1>10, <1>11
  <1>14. Filled(p)'
    <2> SUFFICES ASSUME NEW x \in c PROVE InPlace(p, x)' \/ Missed(p, x)'
      BY <1>1 DEF Filled
    <2>1. CASE x \in r[p].copied /\ ~Missed(p, x)
      <3>1. /\ x \in DOMAIN home[d].files /\ x # f
            /\ home[d].files[x] = [uid |-> r[p].uid, gid |-> r[p].gid, whole |-> TRUE]
        BY <1>1, <1>3, <2>1 DEF Filled, InPlace
      <3>2. x \in DOMAIN put /\ put[x] = [uid |-> r'[p].uid, gid |-> r'[p].gid, whole |-> TRUE]
        BY <1>1, <1>12, <3>1
      <3> QED BY <1>13, <3>2 DEF InPlace
    <2>2. CASE x = f /\ u = r[p].uid /\ i = r[p].gid /\ w = TRUE
      <3>1. x \in DOMAIN put /\ put[x] = [uid |-> r'[p].uid, gid |-> r'[p].gid, whole |-> TRUE]
        BY <1>1, <1>4, <1>12, <2>2
      <3> QED BY <1>13, <3>1 DEF InPlace
    <2> QED BY <2>1, <2>2
  <1>15. HomeOf(p)'
    <2>1. Given(p)'
      BY <1>1, <1>3, <1>7, <1>10, <1>11 DEF Given
    <2>2. There(Dir(p))'
      BY <1>10, <1>11 DEF There
    <2> QED BY <1>1, <1>14, <2>1, <2>2 DEF HomeOf
  <1> QED BY <1>1, <1>3, <1>10, <1>11, <1>15, HomePut

(* copy_tree: one more path. *)
LEMMA CopySkelHome ==
    ASSUME Typed, HomeInv, NEW p \in Procs, CopySkel(p)
    PROVE  HomeInv'
  <1>1. PICK V : RowsTyped(V)
    BY TypedParts
  <1>2. PICK f \in Ready(p) :
             /\ Copies(p, r[p].copied \union {f}, r[p].failed)
             /\ faults' = faults
             /\ \/ Placed(p, f) /\ PutFile(p, f, r[p].uid, r[p].gid, TRUE)
                \/ ~Placed(p, f) /\ home' = home
    BY <1>1, TypedParts, CopySkelFx
  <1>3. PICK c : c = r[p].copied \union {f}
    OBVIOUS
  <1>4. PICK m : m = r[p].failed
    OBVIOUS
  <1>5. Copies(p, c, m)
    BY <1>2, <1>3, <1>4
  <1>6. pc[p] = "skel"
    BY DEF CopySkel
  <1>7. /\ There(Dir(p)) /\ Filled(p) /\ FailedOK(p)
        /\ Skeleton(p)' = Skeleton(p) /\ r'[p].failed = m
    BY <1>5, <1>6, AtSkel
  <1>8. FailedOK(p)' /\ \A x : Missed(p, x)' <=> Missed(p, x)
    BY <1>2, <1>4, <1>7 DEF FailedOK, Missed
  <1>9. f \in Skeleton(p) /\ f \notin r[p].copied /\ (Front(f) = <<>> \/ Front(f) \in r[p].copied)
    BY DEF Ready
  <1>10. CASE Placed(p, f) /\ PutFile(p, f, r[p].uid, r[p].gid, TRUE)
    <2>1. \A x \in c : \/ Missed(p, x)'
                       \/ x \in r[p].copied /\ ~Missed(p, x)
                       \/ x = f
      BY <1>3, <1>8
    <2> QED BY <1>2, <1>5, <1>6, <1>8, <1>9, <1>10, <2>1, FilePut
  <1>11. CASE ~Placed(p, f) /\ home' = home
    <2>1. Front(f) # <<>> /\ Front(f) \in r[p].copied /\ ~InPlace(p, Front(f))
      BY <1>9, <1>11 DEF Placed, InPlace
    <2>2. PICK x \in r[p].failed : IsPrefix(x, Front(f))
      BY <1>7, <2>1 DEF Filled, Missed
    <2>3. IsSeq(f) /\ IsSeq(x)
      BY <1>7, <1>9, SkelPaths DEF FailedOK
    <2>4. IsPrefix(x, f)
      BY <2>1, <2>2, <2>3, PrefixFacts
    <2>5. Missed(p, f)
      BY <2>4 DEF Missed
    <2>6. \A y \in c : Missed(p, y)' \/ (y \in r[p].copied /\ ~Missed(p, y))
      BY <1>3, <1>8, <2>5
    <2> QED BY <1>2, <1>5, <1>6, <1>8, <1>11, <2>6, NoFilePut
  <1> QED BY <1>2, <1>10, <1>11

\* A call failed: what was missed is missed still.
LEMMA OneMore ==
    ASSUME HomeInv, NEW p \in Procs, pc[p] = "skel", faults \in Nat, faults' = faults + 1,
           NEW f \in Ready(p), NEW c, NEW m, Copies(p, c, m), m = r[p].failed \union {f}
    PROVE  /\ FailedOK(p)' /\ (faults' = 0 => faults = 0)
           /\ \A x : Missed(p, x) => Missed(p, x)'
           /\ \A x \in Below(p, f) \union {f} : Missed(p, x)'
  <1>1. FailedOK(p) /\ Skeleton(p)' = Skeleton(p) /\ r'[p].failed = m
    BY AtSkel
  <1>2. f \in Skeleton(p) /\ faults' # 0
    BY DEF Ready
  <1>3. FailedOK(p)'
    BY <1>1, <1>2 DEF FailedOK
  <1>4. IsPrefix(f, f)
    BY <1>2, SkelPaths, PrefixFacts
  <1> QED BY <1>1, <1>2, <1>3, <1>4 DEF Missed, Below

(* A call of copy_tree fails. *)
LEMMA CopyFailsHome ==
    ASSUME Typed, HomeInv, NEW p \in Procs, CopyFails(p)
    PROVE  HomeInv'
  <1>1. PICK V : RowsTyped(V)
    BY TypedParts
  <1> DEFINE skel  == /\ r[p].copied = {} /\ home' = home
                      /\ Copies(p, Skeleton(p), {<<>>})
             no(f) == /\ home' = home
                      /\ Copies(p, r[p].copied \union {f}, r[p].failed \union {f})
             bad(f) == /\ \E u : \E i : PutFile(p, f, u, i, FALSE)
                       /\ Copies(p, r[p].copied \union {f}, r[p].failed \union {f})
             bare(f) == /\ PutFile(p, f, r[p].uid, r[p].gid, TRUE)
                        /\ Copies(p, r[p].copied \union Below(p, f), r[p].failed \union {f})
  <1>2. /\ faults' = faults + 1 /\ Ready(p) # {}
        /\ skel \/ \E f \in Ready(p) : no(f) \/ bad(f) \/ bare(f)
    BY <1>1, TypedParts, CopyFailsFx
  <1>3. pc[p] = "skel" /\ faults \in Nat
    BY TypedParts DEF CopyFails
  <1>4. CASE skel
    <2>1. PICK c : c = Skeleton(p)
      OBVIOUS
    <2>2. Copies(p, c, {<<>>}) /\ home' = home
      BY <1>4, <2>1
    <2>3. Skeleton(p)' = Skeleton(p) /\ r'[p].failed = {<<>>}
      BY <1>3, <2>2, AtSkel
    <2>4. FailedOK(p)' /\ (faults' = 0 => faults = 0)
      BY <1>2, <1>3, <2>3 DEF FailedOK
    <2>5. \A x \in c : Missed(p, x)'
      BY <2>1, <2>3, SkelPaths, PrefixFacts DEF Missed
    <2> QED BY <1>3, <2>2, <2>4, <2>5, NoFilePut
  <1>5. ASSUME NEW f \in Ready(p), no(f) PROVE HomeInv'
    <2>1. PICK c : c = r[p].copied \union {f}
      OBVIOUS
    <2>2. PICK m : m = r[p].failed \union {f}
      OBVIOUS
    <2>3. Copies(p, c, m) /\ home' = home
      BY <1>5, <2>1, <2>2
    <2>4. /\ FailedOK(p)' /\ (faults' = 0 => faults = 0)
          /\ \A x : Missed(p, x) => Missed(p, x)'
          /\ Missed(p, f)'
      BY <1>2, <1>3, <2>2, <2>3, OneMore
    <2>5. \A x \in c : Missed(p, x)' \/ (x \in r[p].copied /\ ~Missed(p, x))
      BY <2>1, <2>4
    <2> QED BY <1>3, <2>3, <2>4, <2>5, NoFilePut
  <1>6. ASSUME NEW f \in Ready(p), bad(f) PROVE HomeInv'
    <2>1. PICK c : c = r[p].copied \union {f}
      OBVIOUS
    <2>2. PICK m : m = r[p].failed \union {f}
      OBVIOUS
    <2>3. Copies(p, c, m)
      BY <1>6, <2>1, <2>2
    <2>4. /\ FailedOK(p)' /\ (faults' = 0 => faults = 0)
          /\ \A x : Missed(p, x) => Missed(p, x)'
          /\ Missed(p, f)'
      BY <1>2, <1>3, <2>2, <2>3, OneMore
    <2>5. \A x \in c : Missed(p, x)' \/ (x \in r[p].copied /\ ~Missed(p, x))
      BY <2>1, <2>4
    <2>6. f \notin r[p].copied
      BY DEF Ready
    <2>7. PICK u : \E i : PutFile(p, f, u, i, FALSE)
      BY <1>6
    <2>8. PICK i : PutFile(p, f, u, i, FALSE)
      BY <2>7
    <2> QED BY <1>3, <2>3, <2>4, <2>5, <2>6, <2>8, FilePut
  <1>7. ASSUME NEW f \in Ready(p), bare(f) PROVE HomeInv'
    <2>1. PICK c : c = r[p].copied \union Below(p, f)
      OBVIOUS
    <2>2. PICK m : m = r[p].failed \union {f}
      OBVIOUS
    <2>3. Copies(p, c, m) /\ PutFile(p, f, r[p].uid, r[p].gid, TRUE)
      BY <1>7, <2>1, <2>2
    <2>4. /\ FailedOK(p)' /\ (faults' = 0 => faults = 0)
          /\ \A x : Missed(p, x) => Missed(p, x)'
          /\ \A x \in Below(p, f) : Missed(p, x)'
      BY <1>2, <1>3, <2>2, <2>3, OneMore
    <2>5. \A x \in c : Missed(p, x)' \/ (x \in r[p].copied /\ ~Missed(p, x))
      BY <2>1, <2>4
    <2>6. f \notin r[p].copied
      BY DEF Ready
    <2> QED BY <1>3, <2>3, <2>4, <2>5, <2>6, FilePut
  <1> HIDE DEF skel, no, bad, bare
  <1> QED BY <1>2, <1>4, <1>5, <1>6, <1>7

(* When nothing is ready all of the skeleton has been copied. *)
LEMMA AllCopied ==
    ASSUME NEW p \in Procs, Ready(p) = {}
    PROVE  Skeleton(p) \subseteq r[p].copied
  <1> DEFINE Left == Skeleton(p) \ r[p].copied
             T == {Len(f) : f \in Left}
  <1>1. \A f \in Skeleton(p) : IsSeq(f) /\ (Front(f) = <<>> \/ Front(f) \in Skeleton(p))
    BY SkelPaths
  <1>2. \A f \in Left : Front(f) # <<>> /\ Front(f) \in Left
    BY <1>1 DEF Ready
  <1> SUFFICES ASSUME Left # {} PROVE FALSE
    OBVIOUS
  <1>3. T \subseteq Nat /\ T # {}
    BY <1>1 DEF IsSeq
  <1>4. PICK x \in T : \A y \in T : x <= y
    BY <1>3, LeastNat
  <1>5. PICK f \in Left : x = Len(f)
    BY <1>4
  <1>6. Len(Front(f)) \in T
    BY <1>2
  <1>7. Len(f) \in Nat /\ Len(Front(f)) = Len(f) - 1
    BY <1>1, <1>2, FrontLen
  <1> HIDE DEF T, Left
  <1>8. x <= Len(Front(f))
    BY <1>4, <1>6
  <1> QED BY <1>5, <1>7, <1>8

LEMMA CopyDoneHome ==
    ASSUME Typed, HomeInv, NEW p \in Procs, CopyDone(p)
    PROVE  HomeInv'
  <1>1. PICK V : RowsTyped(V)
    BY TypedParts
  <1>2. Slips(p, "mail") /\ HomeSame(p)
    BY <1>1, TypedParts, CopyDoneFx
  <1>3. OthersLike(p) /\ PcOthers(p) /\ pc'[p] = "mail"
    BY <1>2 DEF Slips
  <1>4. home' = home /\ faults' = faults /\ Ready(p) = {}
    BY DEF CopyDone, Etc
  <1> QED BY <1>2, <1>3, <1>4, AllCopied, EndHome

LEMMA CreateMailHome ==
    ASSUME Typed, HomeInv, NEW p \in Procs, CreateMail(p)
    PROVE  HomeInv'
  <1>1. PICK V : RowsTyped(V)
    BY TypedParts
  <1>2. Slips(p, "done") /\ HomeSame(p)
    BY <1>1, TypedParts, CreateMailFx
  <1>3. OthersLike(p) /\ PcOthers(p) /\ pc'[p] = "done"
    BY <1>2 DEF Slips
  <1>4. home' = home /\ (faults' = 0 => faults = 0) /\ pc[p] = "mail"
    BY TypedParts DEF CreateMail, Fails
  <1>5. r[p].added => Skeleton(p) \subseteq r[p].copied
    BY <1>4 DEF HomeInv, HomeOf
  <1> QED BY <1>2, <1>3, <1>4, <1>5, EndHome

LEMMA CrashHome ==
    ASSUME Typed, HomeInv, NEW p \in Procs, Crash(p)
    PROVE  HomeInv'
  <1>1. PICK V : RowsTyped(V)
    BY TypedParts
  <1>2. /\ Goto(p, "dead") /\ faults' = faults + 1 /\ home' = home
        /\ r' = [r EXCEPT ![p].g.exit = Killed, ![p].fd = NoFile]
    BY DEF Crash, Fails
  <1>3. OthersLike(p) /\ HomeSame(p)
    BY <1>1, <1>2, GiveUpFx
  <1>4. "dead" \in Ahead
    BY LabelIn DEF Over
  <1>5. PcOthers(p) /\ pc'[p] = "dead" /\ faults' # 0
    BY <1>2, <1>4, TypedParts, GotoFx
  <1>6. ~Added(p)'
    BY <1>5 DEF Added
  <1> QED BY <1>2, <1>3, <1>5, <1>6, EndHome

(* Every step. *)
LEMMA StepHome ==
    ASSUME Typed, EtcInv, HomeInv, Next
    PROVE  HomeInv'
  <1>1. PICK p \in Procs : Start(p) \/ Step(p) \/ Crash(p)
    BY DEF Next
  <1>2. CASE Start(p)
    BY <1>2, StartHome
  <1>3. CASE Crash(p)
    BY <1>3, CrashHome
  <1>4. CASE SetDefaults(p)
    BY <1>4, SetHome
  <1>5. CASE \/ OpenTmp(p) \/ CopyTable(p) \/ CloseTmp(p) \/ RenameOld(p) \/ RenameTmp(p)
    BY <1>5, UpdateHome
  <1>6. CASE \/ CheckName(p) \/ CheckGroup(p) \/ PickUid(p) \/ AddGroup(p) \/ UsrUpdate(p)
             \/ GrpUpdate(p) \/ ScanGroups(p) \/ GrDupDies(p) \/ CreateHome(p)
    BY <1>6, EarlyHome
  <1>7. CASE MakeHome(p)
    BY <1>7, MakeHomeHome
  <1>8. CASE OwnHome(p)
    BY <1>8, OwnHomeHome
  <1>9. CASE CopySkel(p)
    BY <1>9, CopySkelHome
  <1>10. CASE CopyDone(p)
    BY <1>10, CopyDoneHome
  <1>11. CASE CreateMail(p)
    BY <1>11, CreateMailHome
  <1>12. CASE CopyFails(p)
    BY <1>12, CopyFailsHome
  <1> QED BY <1>1, <1>2, <1>3, <1>4, <1>5, <1>6, <1>7, <1>8, <1>9, <1>10, <1>11, <1>12 DEF Step

LEMMA StutterHome ==
    ASSUME HomeInv, UNCHANGED vars
    PROVE  HomeInv'
  <1>1. pc' = pc /\ r' = r /\ home' = home /\ faults' = faults
    BY DEF vars
  <1>2. \A p \in Procs : HomeOf(p)'
    BY <1>1 DEF HomeInv, HomeOf, Owner, There, Dir, Given, Filled, Skeleton, Added,
                InPlace, Missed, FailedOK
  <1> QED BY <1>1, <1>2 DEF HomeInv, OwnHomes, Owner, Dir

LEMMA InitHome ==
    ASSUME Init
    PROVE  HomeInv
  <1>1. /\ pc = [p \in Procs |-> "off"] /\ r = [p \in Procs |-> Idle] /\ home = <<>>
    BY DEF Init
  <1>2. ~Idle.added /\ Idle.copied = {} /\ Idle.failed = {}
    BY DEF Idle
  <1>3. \A p \in Procs : pc[p] = "off" /\ ~r[p].added /\ r[p].copied = {} /\ r[p].failed = {}
    BY <1>1, <1>2
  <1>4. \A p \in Procs : ~Owner(p)
    BY <1>3 DEF Owner
  <1>5. \A p \in Procs : HomeOf(p)
    BY <1>3, <1>4 DEF HomeOf, FailedOK
  <1>6. home \in Homes(DOMAIN home, {})
    BY <1>1 DEF Homes
  <1> QED BY <1>4, <1>5, <1>6 DEF HomeInv, OwnHomes

(* No two invocations share a home directory that one of them has made, and *)
(* each has in it what copy_tree has put there for it.                      *)
THEOREM HomeKept == Spec => [](Typed /\ EtcInv /\ HomeInv)
  <1>1. Init => HomeInv
    BY InitHome
  <1>2. Typed /\ EtcInv /\ HomeInv /\ [Next]_vars => HomeInv'
    BY StepHome, StutterHome
  <1> QED BY <1>1, <1>2, EtcKept, PTL DEF Spec

(* A user that was given a new home directory owns it and all of the        *)
(* skeleton in it, but for the files, and what is in the directories, for   *)
(* which a call of create_home or copy_tree failed: copy_tree does not look *)
(* at what copy_file and mkdir return, but no failure costs anything else.  *)
THEOREM HomeReadyHolds == Spec => []HomeReady
  <1>1. HomeInv => HomeReady
    <2> SUFFICES ASSUME HomeInv, NEW p \in Procs, Added(p), r[p].added
                 PROVE  LET h == home[Dir(p)]
                        IN  /\ <<h.uid, h.gid, h.mode>> = <<r[p].uid, r[p].gid, "755">>
                            /\ \A f \in Skeleton(p) : InPlace(p, f) \/ Missed(p, f)
                            /\ r[p].failed # {} => faults # 0
      BY DEF HomeReady
    <2>1. Given(p) /\ Filled(p) /\ Skeleton(p) \subseteq r[p].copied /\ FailedOK(p)
      BY DEF HomeInv, HomeOf
    <2> QED BY <2>1 DEF Given, Filled, FailedOK
  <1> QED BY <1>1, HomeKept, PTL
=============================================================================
