------------------------------ MODULE BooterProofs ------------------------------
(***************************************************************************)
(* Proofs about booter.c.  From any disks of the right shape the types are *)
(* kept, reads that no failure spoilt give what the disk says, and so a    *)
(* kernel that is started is the one the file describes.                   *)
(***************************************************************************)
EXTENDS BooterInv, Recursion, SequenceTheorems, TLAPS

(***************************************************************************)
(* One transaction with the device.                                        *)
(***************************************************************************)
LEMMA BlocksFit ==
    ASSUME NEW d \in DOMAIN Disks, NEW n
    PROVE  Block(d, n) \in BlockSet
  BY DisksAssumption DEF Block

\* y is x after some transactions: it looks at the same place of the same disk.
Keeps(x, y) ==
    /\ y \in FileState /\ y.drive = x.drive /\ y.part_offset = x.part_offset
    /\ y.unseen \/ ~x.unseen

LEMMA KeepsOn ==
    ASSUME NEW x, NEW y, NEW z, Keeps(x, y), Keeps(y, z)
    PROVE  Keeps(x, z)
  BY DEF Keeps

LEMMA UsedFacts ==
    ASSUME NEW x \in FileState
    PROVE  /\ Used(x) \in FileState /\ Used(x).drive = x.drive
           /\ Used(x).part_offset = x.part_offset /\ Used(x).buf = x.buf /\ Used(x).i = x.i
           /\ Used(x).idir = x.idir /\ Used(x).dbuf = x.dbuf /\ Used(x).left = x.left
           /\ Used(x).spos = x.spos /\ Used(x).epos = x.epos /\ Used(x).unseen = x.unseen
  <1>1. Used(x).bad \in Nat
    BY DEF Used, FileState
  <1> QED BY <1>1 DEF Used, FileState

LEMMA ReadFacts ==
    ASSUME NEW x \in FileState, NEW n, NEW old \in BlockSet
    PROVE  LET r == dev_read(x, n, old)
           IN  /\ r.f = Used(x) /\ r.ok \in BOOLEAN /\ r.got \in BlockSet
               /\ r.ok => /\ x.drive \in DOMAIN Disks
                          /\ r.got = Block(x.drive, x.part_offset + n)
               /\ x.drive \in DOMAIN Disks /\ ~r.ok => x.bad = 1
  <1>1. x.drive \in DOMAIN Disks => Block(x.drive, x.part_offset + n) \in BlockSet
    BY BlocksFit
  <1> QED BY <1>1 DEF dev_read, Works

(***************************************************************************)
(* The inode's two reads: with both seen, it is the inode of the disk.     *)
(***************************************************************************)
LEMMA InodeFits ==
    ASSUME NEW b \in BlockSet, NEW no \in Nat
    PROVE  b.inodes[(no % IPB) + 1] \in Inode
  <1>1. (no % IPB) + 1 \in 1..IPB
    BY DisksAssumption
  <1>2. b.inodes \in [1..IPB -> Inode]
    BY DEF BlockSet
  <1> QED BY <1>1, <1>2

LEMMA OpenedFacts ==
    ASSUME NEW a, NEW b, NEW x \in FileState, NEW i \in Inode, b.f = Used(x),
           a.ok \in BOOLEAN, b.ok \in BOOLEAN, a.got \in BlockSet, b.got \in BlockSet
    PROVE  LET y == Opened(a, i, b)
           IN  /\ Keeps(x, y) /\ y.left = 0 /\ y.spos = 0 /\ y.i = i /\ y.epos = i.blocks
               /\ y.idir = b.got.ptrs
               /\ ~y.unseen => ~x.unseen /\ a.ok /\ b.ok
  <1> DEFINE y == Opened(a, i, b)
             u == Used(x)
  <1>1. /\ u \in FileState /\ u.drive = x.drive /\ u.part_offset = x.part_offset
        /\ u.unseen = x.unseen
    BY UsedFacts
  <1>2. b.got.ptrs \in Seq(Nat) /\ i.blocks \in Nat /\ 0 \in Left
    BY DisksAssumption DEF BlockSet, Inode, Left
  <1> HIDE DEF u
  <1>3. y = [u EXCEPT !.buf = a.got, !.i = i, !.idir = b.got.ptrs,
                      !.left = 0, !.spos = 0, !.epos = i.blocks,
                      !.unseen = u.unseen \/ ~(a.ok /\ b.ok)]
    BY DEF Opened, u
  <1> HIDE DEF y
  <1>4. y \in FileState
    BY <1>1, <1>2, <1>3 DEF FileState
  <1>5. /\ y.drive = u.drive /\ y.part_offset = u.part_offset
        /\ y.left = 0 /\ y.spos = 0 /\ y.i = i /\ y.epos = i.blocks /\ y.idir = b.got.ptrs
    BY <1>1, <1>3 DEF FileState
  <1>6. y.unseen <=> u.unseen \/ ~(a.ok /\ b.ok)
    BY <1>1, <1>3 DEF FileState
  <1> QED BY <1>1, <1>4, <1>5, <1>6 DEF Keeps, y

LEMMA IopenFacts ==
    ASSUME NEW x \in FileState, NEW no \in Nat
    PROVE  LET y == iopen(x, no)
           IN  /\ Keeps(x, y) /\ y.left = 0 /\ y.spos = 0 /\ y.epos = y.i.blocks
               /\ ~y.unseen => /\ ~x.unseen /\ x.drive \in DOMAIN Disks
                               /\ y.i = InodeOf(x, no)
                               /\ y.idir = At(x, y.i.ind).ptrs
  <1> DEFINE a == dev_read(x, 2 + no \div IPB, x.buf)
             i == a.got.inodes[(no % IPB) + 1]
             old == [Zero EXCEPT !.ptrs = a.f.idir]
             b == dev_read(a.f, i.ind, old)
  <1>1. x.buf \in BlockSet
    BY DEF FileState
  <1>2. /\ a.f = Used(x) /\ a.ok \in BOOLEAN /\ a.got \in BlockSet
        /\ a.ok => x.drive \in DOMAIN Disks /\ a.got = At(x, 2 + no \div IPB)
    BY <1>1, ReadFacts DEF At
  <1> HIDE DEF a
  <1>3. i \in Inode
    BY <1>2, InodeFits
  <1>4. /\ a.f \in FileState /\ a.f.drive = x.drive /\ a.f.part_offset = x.part_offset
        /\ a.f.unseen = x.unseen
    BY <1>2, UsedFacts
  <1>5. old \in BlockSet
    <2>1. a.f.idir \in Seq(Nat)
      BY <1>4 DEF FileState
    <2> QED BY <2>1, DisksAssumption DEF BlockSet
  <1> HIDE DEF old
  <1>6. /\ b.f = Used(a.f) /\ b.ok \in BOOLEAN /\ b.got \in BlockSet
        /\ b.ok => b.got = At(x, i.ind)
    BY <1>4, <1>5, ReadFacts DEF At
  <1>7. iopen(x, no) = Opened(a, i, b)
    BY DEF iopen, ReadInode, ReadIndirect, a, b, i, old
  <1> HIDE DEF b
  <1>8. i = InodeOf(x, no) <=> a.got.inodes[(no % IPB) + 1] = InodeOf(x, no)
    OBVIOUS
  <1> HIDE DEF i
  <1> DEFINE y == Opened(a, i, b)
  <1>9. /\ Keeps(a.f, y) /\ y.left = 0 /\ y.spos = 0 /\ y.i = i /\ y.epos = i.blocks
        /\ y.idir = b.got.ptrs
        /\ ~y.unseen => ~a.f.unseen /\ a.ok /\ b.ok
    BY <1>2, <1>3, <1>4, <1>6, OpenedFacts
  <1> HIDE DEF y
  <1>10. Keeps(x, y)
    BY <1>4, <1>9 DEF Keeps
  <1>11. a.ok => i = InodeOf(x, no)
    BY <1>2, <1>8 DEF InodeOf
  <1> QED BY <1>2, <1>4, <1>6, <1>7, <1>9, <1>10, <1>11 DEF y

(***************************************************************************)
(* The next block of the open file.                                        *)
(***************************************************************************)
SameFile(x, y) == y.i = x.i /\ y.idir = x.idir /\ y.epos = x.epos

LEMMA FilledFacts ==
    ASSUME NEW a, NEW x \in FileState, a.f = Used(x), a.ok \in BOOLEAN, a.got \in BlockSet
    PROVE  LET y == Filled(a)
           IN  /\ Keeps(x, y) /\ SameFile(x, y) /\ y.spos = x.spos + 1 /\ y.left = BSZ
               /\ y.dbuf = a.got
               /\ ~y.unseen => ~x.unseen /\ a.ok
  <1> DEFINE y == Filled(a)
             u == Used(x)
  <1>1. /\ u \in FileState /\ u.drive = x.drive /\ u.part_offset = x.part_offset
        /\ u.unseen = x.unseen /\ u.spos = x.spos /\ SameFile(x, u)
    BY UsedFacts DEF SameFile
  <1>2. BSZ \in Left
    BY DisksAssumption DEF Left
  <1> HIDE DEF u
  <1>3. y = [u EXCEPT !.dbuf = a.got, !.spos = u.spos + 1, !.left = BSZ,
                      !.unseen = u.unseen \/ ~a.ok]
    BY DEF Filled, u
  <1> HIDE DEF y
  <1>8. u.spos + 1 \in Nat /\ (u.unseen \/ ~a.ok) \in BOOLEAN
    BY <1>1 DEF FileState
  <1>4. y \in FileState
    <2>1. PICK n \in Nat, t \in BOOLEAN : n = u.spos + 1 /\ t = (u.unseen \/ ~a.ok)
      BY <1>8
    <2>2. y = [u EXCEPT !.dbuf = a.got, !.spos = n, !.left = BSZ, !.unseen = t]
      BY <1>3, <2>1
    <2> QED BY <1>1, <1>2, <2>2 DEF FileState
  <1>5. /\ y.drive = u.drive /\ y.part_offset = u.part_offset
        /\ y.spos = u.spos + 1 /\ y.left = BSZ /\ y.dbuf = a.got /\ SameFile(u, y)
    BY <1>1, <1>3 DEF FileState, SameFile
  <1>6. y.unseen <=> u.unseen \/ ~a.ok
    BY <1>1, <1>3 DEF FileState
  <1>7. SameFile(x, y)
    BY <1>1, <1>5 DEF SameFile
  <1> QED BY <1>1, <1>4, <1>5, <1>6, <1>7 DEF Keeps, y

LEMMA NextFacts ==
    ASSUME NEW x \in FileState
    PROVE  LET y == NextBlock(x)
           IN  /\ Keeps(x, y) /\ SameFile(x, y) /\ y.spos = x.spos + 1 /\ y.left = BSZ
               /\ ~y.unseen => /\ ~x.unseen /\ x.drive \in DOMAIN Disks
                               /\ y.dbuf = At(x, bmap(x))
  <1> DEFINE a == dev_read(x, bmap(x), x.dbuf)
  <1>1. x.dbuf \in BlockSet
    BY DEF FileState
  <1>2. /\ a.f = Used(x) /\ a.ok \in BOOLEAN /\ a.got \in BlockSet
        /\ a.ok => x.drive \in DOMAIN Disks /\ a.got = At(x, bmap(x))
    BY <1>1, ReadFacts DEF At
  <1>3. NextBlock(x) = Filled(a)
    BY DEF NextBlock
  <1> HIDE DEF a
  <1> QED BY <1>2, <1>3, FilledFacts

\* bmap follows the inode of the disk.
LEMMA BmapFollows ==
    ASSUME NEW x \in FileState, x.idir = At(x, x.i.ind).ptrs
    PROVE  At(x, bmap(x)) = BlockOf(x, x.i, x.spos + 1)
  <1>1. x.spos \in Nat /\ NDirect \in Nat
    BY DisksAssumption DEF FileState
  <1>2. CASE x.spos < NDirect
    <2>1. x.spos + 1 <= NDirect
      BY <1>1, <1>2
    <2> QED BY <1>2, <2>1 DEF bmap, BlockOf
  <1>3. CASE ~(x.spos < NDirect)
    <2>1. ~(x.spos + 1 <= NDirect)
      BY <1>1, <1>3
    <2>2. x.spos - NDirect + 1 = (x.spos + 1) - NDirect
      BY <1>1
    <2>3. bmap(x) = At(x, x.i.ind).ptrs[x.spos - NDirect + 1]
      BY <1>3 DEF bmap
    <2>4. BlockOf(x, x.i, x.spos + 1) = At(x, At(x, x.i.ind).ptrs[(x.spos + 1) - NDirect])
      BY <2>1 DEF BlockOf
    <2> QED BY <2>2, <2>3, <2>4
  <1> QED BY <1>2, <1>3

\* What a disk says does not depend on what else the device is doing.
SameDisk(x, y) == y.drive = x.drive /\ y.part_offset = x.part_offset

LEMMA SameDiskSays ==
    ASSUME NEW x, NEW y, SameDisk(x, y)
    PROVE  /\ \A n : At(y, n) = At(x, n)
           /\ \A no : InodeOf(y, no) = InodeOf(x, no)
           /\ \A i, k : BlockOf(y, i, k) = BlockOf(x, i, k)
           /\ \A i, name : Named(y, i, name) = Named(x, i, name)
           /\ \A i : FileCells(y, i) = FileCells(x, i)
  <1>1. ASSUME NEW n PROVE At(y, n) = At(x, n)
    BY DEF SameDisk, At
  <1>2. ASSUME NEW no PROVE InodeOf(y, no) = InodeOf(x, no)
    BY <1>1 DEF InodeOf
  <1>3. ASSUME NEW i, NEW k PROVE BlockOf(y, i, k) = BlockOf(x, i, k)
    BY <1>1 DEF BlockOf
  <1>4. ASSUME NEW i, NEW name PROVE Named(y, i, name) = Named(x, i, name)
    <2>1. Having(y, i, name) = Having(x, i, name)
      BY <1>3 DEF Having
    <2> QED BY <1>3, <2>1 DEF Named
  <1>5. ASSUME NEW i PROVE FileCells(y, i) = FileCells(x, i)
    BY <1>3 DEF FileCells
  <1> QED BY <1>1, <1>2, <1>3, <1>4, <1>5

LEMMA SamePlace ==
    ASSUME NEW x, NEW y, Keeps(x, y)
    PROVE  /\ \A n : At(y, n) = At(x, n)
           /\ \A no : InodeOf(y, no) = InodeOf(x, no)
           /\ \A i, k : BlockOf(y, i, k) = BlockOf(x, i, k)
           /\ \A i, name : Named(y, i, name) = Named(x, i, name)
           /\ \A i : FileCells(y, i) = FileCells(x, i)
  <1>1. SameDisk(x, y)
    BY DEF Keeps, SameDisk
  <1> QED BY <1>1, SameDiskSays

(***************************************************************************)
(* Names in directories.                                                   *)
(***************************************************************************)
LEMMA MinIn ==
    ASSUME NEW S, S \subseteq Nat, S # {}
    PROVE  Min(S) \in S /\ \A y \in S : Min(S) <= y
  <1>1. \E x \in S : \A y \in S : x <= y
    BY LeastNat
  <1> QED BY <1>1 DEF Min

LEMMA NoneFits == None \in InodeNo /\ ROOT \in InodeNo /\ InodeNo \subseteq Nat
  <1>1. None \in Nat /\ ROOT \in Nat /\ ROOT <= None
    BY DEF None, ROOT
  <1> QED BY <1>1 DEF InodeNo

LEMMA MatchFits ==
    ASSUME NEW b \in BlockSet, NEW name
    PROVE  Match(b.ents, name) \in InodeNo
  <1> DEFINE H == Hits(b.ents, name)
  <1>1. b.ents \in Seq(DirEntry)
    BY DEF BlockSet
  <1>2. \A k \in DOMAIN b.ents : k \in Nat /\ b.ents[k] \in DirEntry
    BY <1>1
  <1>3. H \subseteq DOMAIN b.ents
    BY DEF Hits
  <1>4. CASE H = {}
    BY <1>4, NoneFits DEF Match
  <1>5. CASE H # {}
    <2>1. H \subseteq Nat
      BY <1>2, <1>3
    <2> HIDE DEF H
    <2>2. Min(H) \in H
      BY <1>5, <2>1, MinIn
    <2>3. b.ents[Min(H)] \in DirEntry
      BY <1>2, <1>3, <2>2
    <2>4. Match(b.ents, name) = b.ents[Min(H)].inode
      BY <1>5 DEF Match, H
    <2>5. PICK e \in DirEntry : e = b.ents[Min(H)]
      BY <2>3
    <2>6. e.inode \in InodeNo
      BY DEF DirEntry
    <2>7. Match(b.ents, name) = e.inode
      BY <2>4, <2>5
    <2> QED BY <2>6, <2>7
  <1> QED BY <1>4, <1>5

LEMMA NamedNot ==
    ASSUME NEW x, NEW i, NEW name,
           \A k \in 1..i.blocks : Match(BlockOf(x, i, k).ents, name) = None
    PROVE  Named(x, i, name) = None
  <1>1. Having(x, i, name) = {}
    BY DEF Having
  <1> QED BY <1>1 DEF Named

LEMMA NamedFirst ==
    ASSUME NEW x, NEW i \in Inode, NEW name, NEW k \in 1..i.blocks,
           Match(BlockOf(x, i, k).ents, name) # None,
           \A j \in 1..(k - 1) : Match(BlockOf(x, i, j).ents, name) = None
    PROVE  Named(x, i, name) = Match(BlockOf(x, i, k).ents, name)
  <1> DEFINE H == Having(x, i, name)
  <1>1. i.blocks \in Nat /\ H \subseteq 1..i.blocks /\ k \in H
    BY DEF Having, Inode
  <1>2. \A j \in H : Match(BlockOf(x, i, j).ents, name) # None
    BY DEF Having
  <1>3. Named(x, i, name) = Match(BlockOf(x, i, Min(H)).ents, name)
    BY <1>1 DEF Named
  <1> HIDE DEF H
  <1>4. H \subseteq Nat /\ H # {}
    BY <1>1
  <1>5. Min(H) \in H /\ \A y \in H : Min(H) <= y
    BY <1>4, MinIn
  <1>6. Min(H) = k
    <2>1. PICK m \in H : m = Min(H)
      BY <1>5
    <2>2. m <= k /\ m \in 1..i.blocks
      BY <1>1, <1>5, <2>1
    <2>3. ~(m \in 1..(k - 1))
      BY <1>2, <2>1
    <2> QED BY <1>1, <2>1, <2>2, <2>3
  <1> QED BY <1>3, <1>6

LEMMA NamedFits ==
    ASSUME NEW x \in FileState, x.drive \in DOMAIN Disks, NEW i \in Inode, NEW name
    PROVE  Named(x, i, name) \in InodeNo
  <1>1. \A k : BlockOf(x, i, k) \in BlockSet
    BY BlocksFit DEF BlockOf, At
  <1>2. \A k : Match(BlockOf(x, i, k).ents, name) \in InodeNo
    BY <1>1, MatchFits
  <1> QED BY <1>2, NoneFits DEF Named

(***************************************************************************)
(* Going through numbers one by one.                                       *)
(***************************************************************************)
LEMMA Upward ==
    ASSUME NEW T, NEW N \in Nat, 0 \in T, \A k \in 1..N : k - 1 \in T => k \in T
    PROVE  \A k \in 0..N : k \in T
  <1> DEFINE U == {k \in Nat : k <= N => k \in T}
  <1>1. 0 \in U
    OBVIOUS
  <1>2. ASSUME NEW k \in Nat, k \in U PROVE k + 1 \in U
    <2> SUFFICES ASSUME k + 1 <= N PROVE k + 1 \in T
      OBVIOUS
    <2>1. k \in T /\ k + 1 \in 1..N /\ (k + 1) - 1 = k
      BY <1>2
    <2> QED BY <2>1
  <1> HIDE DEF U
  <1>3. \A k \in Nat : k \in U
    BY <1>1, <1>2, Induction
  <1> QED BY <1>3 DEF U

(***************************************************************************)
(* lookup: what has been found after k blocks of a directory.              *)
(***************************************************************************)
Place == [f : FileState, ino : InodeNo]
Lacks(x, name, k) == \A j \in 1..k : Match(BlockOf(x, x.i, j).ents, name) = None
SeenTo(x, name, r, k) ==
    /\ r \in Place /\ Keeps(x, r.f) /\ SameFile(x, r.f) /\ r.f.spos \in 0..k
    /\ ~r.f.unseen =>
         \/ r.ino = None /\ r.f.spos = k /\ Lacks(x, name, k)
         \/ /\ r.ino # None
            /\ \E j \in 1..k : /\ r.ino = Match(BlockOf(x, x.i, j).ents, name)
                               /\ Lacks(x, name, j - 1)

LEMMA FurtherFits ==
    ASSUME NEW r \in Place, NEW name
    PROVE  Further(r, name) \in Place
  <1>1. CASE r.ino # None
    BY <1>1 DEF Further
  <1>2. CASE r.ino = None
    <2> DEFINE g == NextBlock(r.f)
    <2>1. r.f \in FileState
      BY DEF Place
    <2>2. g \in FileState
      BY <2>1, NextFacts DEF Keeps
    <2>3. g.dbuf \in BlockSet
      BY <2>2 DEF FileState
    <2>4. Further(r, name) = [f |-> g, ino |-> Match(g.dbuf.ents, name)]
      BY <1>2 DEF Further, Scanned
    <2> HIDE DEF g
    <2>5. Match(g.dbuf.ents, name) \in InodeNo
      BY <2>3, MatchFits
    <2> QED BY <2>2, <2>4, <2>5 DEF Place
  <1> QED BY <1>1, <1>2

LEMMA SeenFurther ==
    ASSUME NEW x \in FileState, ~x.unseen => x.idir = At(x, x.i.ind).ptrs, NEW name,
           NEW k \in Nat, NEW r, SeenTo(x, name, r, k)
    PROVE  SeenTo(x, name, Further(r, name), k + 1)
  <1>1. r \in Place /\ Further(r, name) \in Place
    BY FurtherFits DEF SeenTo
  <1>2. CASE r.ino # None
    <2>1. Further(r, name) = r
      BY <1>2 DEF Further
    <2>2. r.f.spos \in 0..(k + 1)
      BY DEF SeenTo
    <2>3. ~r.f.unseen => \E j \in 1..(k + 1) : /\ r.ino = Match(BlockOf(x, x.i, j).ents, name)
                                               /\ Lacks(x, name, j - 1)
      BY <1>2 DEF SeenTo
    <2> QED BY <1>2, <2>1, <2>2, <2>3 DEF SeenTo
  <1>3. CASE r.ino = None
    <2> DEFINE g == NextBlock(r.f)
               z == Further(r, name)
    <2>1. r.f \in FileState
      BY <1>1 DEF Place
    <2>2. /\ Keeps(r.f, g) /\ SameFile(r.f, g) /\ g.spos = r.f.spos + 1
          /\ ~g.unseen => ~r.f.unseen /\ g.dbuf = At(r.f, bmap(r.f))
      BY <2>1, NextFacts
    <2>3. z.f = g /\ z.ino = Match(g.dbuf.ents, name)
      BY <1>3 DEF Further, Scanned
    <2> HIDE DEF g, z
    <2>4. Keeps(x, g) /\ SameFile(x, g)
      BY <2>2, KeepsOn DEF SeenTo, SameFile
    <2>5. g.spos \in 0..(k + 1)
      BY <2>2 DEF SeenTo
    <2>6. ASSUME ~g.unseen
          PROVE  /\ g.spos = k + 1 /\ Lacks(x, name, k)
                 /\ z.ino = Match(BlockOf(x, x.i, k + 1).ents, name)
      <3>1. ~r.f.unseen /\ r.f.spos = k /\ Lacks(x, name, k) /\ Keeps(x, r.f) /\ SameFile(x, r.f)
        BY <1>3, <2>2, <2>6 DEF SeenTo
      <3>2. r.f.idir = At(r.f, r.f.i.ind).ptrs
        <4>1. At(r.f, r.f.i.ind) = At(x, x.i.ind)
          BY <3>1, SamePlace DEF SameFile
        <4>2. x.idir = At(x, x.i.ind).ptrs
          BY <3>1 DEF Keeps
        <4> QED BY <3>1, <4>1, <4>2 DEF SameFile
      <3>3. At(r.f, bmap(r.f)) = BlockOf(r.f, r.f.i, r.f.spos + 1)
        BY <2>1, <3>2, BmapFollows
      <3>4. BlockOf(r.f, r.f.i, r.f.spos + 1) = BlockOf(x, x.i, k + 1)
        BY <3>1, SamePlace DEF SameFile
      <3>5. g.dbuf = BlockOf(x, x.i, k + 1)
        BY <2>2, <2>6, <3>3, <3>4
      <3> QED BY <2>2, <2>3, <3>1, <3>5
    <2>7. ASSUME ~g.unseen
          PROVE  \/ z.ino = None /\ g.spos = k + 1 /\ Lacks(x, name, k + 1)
                 \/ /\ z.ino # None
                    /\ \E j \in 1..(k + 1) : /\ z.ino = Match(BlockOf(x, x.i, j).ents, name)
                                             /\ Lacks(x, name, j - 1)
      <3>1. CASE z.ino = None
        <4>1. \A j \in 1..(k + 1) : j \in 1..k \/ j = k + 1
          OBVIOUS
        <4>2. Lacks(x, name, k + 1)
          BY <2>6, <2>7, <3>1, <4>1 DEF Lacks
        <4> QED BY <2>6, <2>7, <3>1, <4>2
      <3>2. CASE z.ino # None
        <4>1. k + 1 \in 1..(k + 1) /\ (k + 1) - 1 = k
          OBVIOUS
        <4>2. Lacks(x, name, (k + 1) - 1)
          BY <2>6, <2>7, <4>1
        <4> QED BY <2>6, <2>7, <3>2, <4>1, <4>2
      <3> QED BY <3>1, <3>2
    <2>8. z \in Place
      BY <1>1 DEF z
    <2>9. SeenTo(x, name, z, k + 1)
      BY <2>3, <2>4, <2>5, <2>7, <2>8 DEF SeenTo
    <2> QED BY <2>9 DEF z
  <1> QED BY <1>2, <1>3

\* Scan, as the function of k that it is the last value of.
ScanTo(x, name) ==
    CHOOSE u : u = [k \in 0..x.epos |-> IF k = 0 THEN [f |-> x, ino |-> None]
                                        ELSE Further(u[k - 1], name)]

LEMMA ScanSteps ==
    ASSUME NEW x \in FileState, NEW name
    PROVE  /\ Scan(x, name) = ScanTo(x, name)[x.epos]
           /\ ScanTo(x, name)[0] = [f |-> x, ino |-> None]
           /\ \A k \in 1..x.epos :
                ScanTo(x, name)[k] = Further(ScanTo(x, name)[k - 1], name)
  <1> DEFINE n == x.epos
             b == [f |-> x, ino |-> None]
             G == [p \in Place \X (1..n) |-> Further(p[1], name)]
             Is(u) == u = [k \in 0..n |-> IF k = 0 THEN b ELSE Further(u[k - 1], name)]
  <1>1. b \in Place /\ n \in Nat
    BY NoneFits DEF Place, FileState
  <1>2. \A r \in Place : Further(r, name) \in Place
    BY FurtherFits
  <1>3. PICK a \in [0..n -> Place] : a[0] = b /\ \A k \in 1..n : a[k] = G[<<a[k - 1], k>>]
    <2>1. G \in [Place \X (1..n) -> Place]
      BY <1>2
    <2> HIDE DEF G, b, n
    <2>2. Recurses(Place, b, n, G)
      BY <1>1, <2>1, Recursive
    <2> QED BY <2>2 DEF Recurses
  <1>4. \A k \in 1..n : a[k] = Further(a[k - 1], name)
    <2> SUFFICES ASSUME NEW k \in 1..n PROVE a[k] = Further(a[k - 1], name)
      OBVIOUS
    <2>1. <<a[k - 1], k>> \in Place \X (1..n)
      BY <1>1, <1>3
    <2> QED BY <1>3, <2>1
  <1> HIDE DEF b
  <1>5. Is(a)
    BY <1>1, <1>3, <1>4
  <1> DEFINE c == CHOOSE u : Is(u)
  <1>6. Is(c)
    <2> HIDE DEF Is
    <2> QED BY <1>5
  <1>7. ScanTo(x, name) = c /\ Scan(x, name) = c[n]
    BY DEF ScanTo, Scan, b
  <1> HIDE DEF c, G
  <1>8. c[0] = b /\ \A k \in 1..n : c[k] = Further(c[k - 1], name)
    BY <1>1, <1>6
  <1> QED BY <1>7, <1>8 DEF b

LEMMA ScanFacts ==
    ASSUME NEW x \in FileState, x.spos = 0, x.epos = x.i.blocks, NEW name,
           ~x.unseen => x.idir = At(x, x.i.ind).ptrs
    PROVE  LET r == Scan(x, name)
           IN  /\ r \in Place /\ Keeps(x, r.f) /\ SameFile(x, r.f) /\ r.f.spos <= r.f.epos
               /\ ~r.f.unseen => r.ino = Named(x, x.i, name)
  <1> DEFINE n == x.epos
             u == ScanTo(x, name)
             T == {k \in 0..n : SeenTo(x, name, u[k], k)}
  <1>1. n \in Nat /\ x.i \in Inode
    BY DEF FileState
  <1>2. /\ Scan(x, name) = u[n] /\ u[0] = [f |-> x, ino |-> None]
        /\ \A k \in 1..n : u[k] = Further(u[k - 1], name)
    BY ScanSteps
  <1> HIDE DEF u
  <1>3. 0 \in T
    <2>1. u[0] \in Place /\ u[0].f = x /\ u[0].ino = None
      BY <1>2, NoneFits DEF Place
    <2>2. Keeps(x, x) /\ SameFile(x, x) /\ Lacks(x, name, 0)
      BY DEF Keeps, SameFile, Lacks, FileState
    <2>3. SeenTo(x, name, u[0], 0)
      BY <2>1, <2>2 DEF SeenTo
    <2> QED BY <1>1, <2>3
  <1>4. ASSUME NEW k \in 1..n, k - 1 \in T PROVE k \in T
    <2>1. SeenTo(x, name, u[k - 1], k - 1) /\ k - 1 \in Nat
      BY <1>1, <1>4
    <2>2. SeenTo(x, name, Further(u[k - 1], name), (k - 1) + 1)
      BY <2>1, SeenFurther
    <2>3. SeenTo(x, name, u[k], k)
      <3>1. (k - 1) + 1 = k
        BY <1>1
      <3> QED BY <1>2, <2>2, <3>1
    <2> QED BY <2>3
  <1> HIDE DEF T
  <1>5. n \in T
    <2>1. \A k \in 0..n : k \in T
      BY <1>1, <1>3, <1>4, Upward
    <2> QED BY <1>1, <2>1
  <1>6. SeenTo(x, name, Scan(x, name), n)
    BY <1>2, <1>5 DEF T
  <1> DEFINE r == Scan(x, name)
  <1> HIDE DEF r
  <1>7. SeenTo(x, name, r, n)
    BY <1>6 DEF r
  <1>8. r.f.spos <= r.f.epos
    BY <1>1, <1>7 DEF SeenTo, SameFile
  <1>9. ASSUME ~r.f.unseen PROVE r.ino = Named(x, x.i, name)
    <2>1. CASE r.ino = None /\ Lacks(x, name, n)
      BY <2>1, NamedNot DEF Lacks
    <2>2. ASSUME r.ino # None, NEW j \in 1..n,
                 r.ino = Match(BlockOf(x, x.i, j).ents, name), Lacks(x, name, j - 1)
          PROVE  r.ino = Named(x, x.i, name)
      BY <1>1, <2>2, NamedFirst DEF Lacks
    <2> QED BY <1>7, <1>9, <2>1, <2>2 DEF SeenTo
  <1> QED BY <1>7, <1>8, <1>9 DEF SeenTo, r

LEMMA LookupFacts ==
    ASSUME NEW x \in FileState, NEW no \in InodeNo, no # None, NEW name
    PROVE  LET r == lookup(x, no, name)
           IN  /\ r \in Place /\ Keeps(x, r.f) /\ r.f.spos <= r.f.epos
               /\ ~r.f.unseen => r.ino = Named(x, InodeOf(x, no), name)
  <1> DEFINE y == iopen(x, no)
             r == Scan(y, name)
  <1>1. /\ Keeps(x, y) /\ y.left = 0 /\ y.spos = 0 /\ y.epos = y.i.blocks
        /\ ~y.unseen => /\ ~x.unseen /\ y.i = InodeOf(x, no)
                        /\ y.idir = At(x, y.i.ind).ptrs
    BY IopenFacts, NoneFits
  <1>2. lookup(x, no, name) = r
    BY DEF lookup
  <1> HIDE DEF y
  <1>3. y \in FileState
    BY <1>1 DEF Keeps
  <1>4. ~y.unseen => y.idir = At(y, y.i.ind).ptrs
    BY <1>1, SamePlace
  <1>5. /\ r \in Place /\ Keeps(y, r.f) /\ SameFile(y, r.f) /\ r.f.spos <= r.f.epos
        /\ ~r.f.unseen => r.ino = Named(y, y.i, name)
    BY <1>1, <1>3, <1>4, ScanFacts
  <1> HIDE DEF r
  <1>6. Keeps(x, r.f)
    BY <1>1, <1>5, KeepsOn
  <1>7. ASSUME ~r.f.unseen PROVE r.ino = Named(x, InodeOf(x, no), name)
    <2>1. ~y.unseen
      BY <1>5, <1>7 DEF Keeps
    <2>2. Named(y, y.i, name) = Named(x, y.i, name)
      BY <1>1, SamePlace
    <2> QED BY <1>1, <1>5, <1>7, <2>1, <2>2
  <1> QED BY <1>2, <1>5, <1>6, <1>7 DEF r

(***************************************************************************)
(* Paths: the inode a path names, and dopath, which looks it up.           *)
(***************************************************************************)
StartNo(no, w) == IF w.abs THEN ROOT ELSE no
NextNo(x, no, name) == IF no = None THEN None ELSE Named(x, InodeOf(x, no), name)
ResolvedTo(x, no, w) ==
    CHOOSE u : u = [k \in 0..Len(w.path) |-> IF k = 0 THEN StartNo(no, w)
                                             ELSE NextNo(x, u[k - 1], w.path[k])]

LEMMA StartFits ==
    ASSUME NEW no \in InodeNo, NEW w
    PROVE  StartNo(no, w) \in InodeNo
  BY NoneFits DEF StartNo

LEMMA NextNoFits ==
    ASSUME NEW x \in FileState, x.drive \in DOMAIN Disks, NEW no \in InodeNo, NEW name
    PROVE  NextNo(x, no, name) \in InodeNo
  <1>1. no \in Nat
    BY NoneFits
  <1>2. At(x, 2 + no \div IPB) \in BlockSet
    BY BlocksFit DEF At
  <1>3. InodeOf(x, no) \in Inode
    BY <1>1, <1>2, InodeFits DEF InodeOf
  <1>4. Named(x, InodeOf(x, no), name) \in InodeNo
    BY <1>3, NamedFits
  <1> QED BY <1>4, NoneFits DEF NextNo

LEMMA ResolvedSteps ==
    ASSUME NEW x \in FileState, x.drive \in DOMAIN Disks, NEW no \in InodeNo, NEW w \in Word
    PROVE  /\ Resolved(x, no, w) = ResolvedTo(x, no, w)[Len(w.path)]
           /\ ResolvedTo(x, no, w)[0] = StartNo(no, w)
           /\ \A k \in 1..Len(w.path) :
                ResolvedTo(x, no, w)[k] = NextNo(x, ResolvedTo(x, no, w)[k - 1], w.path[k])
  <1> DEFINE n == Len(w.path)
             b == StartNo(no, w)
             G == [p \in InodeNo \X (1..n) |-> NextNo(x, p[1], w.path[p[2]])]
             Is(u) == u = [k \in 0..n |-> IF k = 0 THEN b ELSE NextNo(x, u[k - 1], w.path[k])]
  <1>1. b \in InodeNo /\ n \in Nat
    <2>1. w.path \in Seq(Names)
      BY DEF Word
    <2> QED BY <2>1, StartFits
  <1>2. \A r \in InodeNo : \A name : NextNo(x, r, name) \in InodeNo
    BY NextNoFits
  <1>3. PICK a \in [0..n -> InodeNo] : a[0] = b /\ \A k \in 1..n : a[k] = G[<<a[k - 1], k>>]
    <2>1. G \in [InodeNo \X (1..n) -> InodeNo]
      BY <1>2
    <2> HIDE DEF G, b, n
    <2>2. Recurses(InodeNo, b, n, G)
      BY <1>1, <2>1, Recursive
    <2> QED BY <2>2 DEF Recurses
  <1>4. \A k \in 1..n : a[k] = NextNo(x, a[k - 1], w.path[k])
    <2> SUFFICES ASSUME NEW k \in 1..n PROVE a[k] = NextNo(x, a[k - 1], w.path[k])
      OBVIOUS
    <2>1. <<a[k - 1], k>> \in InodeNo \X (1..n)
      BY <1>1, <1>3
    <2> QED BY <1>3, <2>1
  <1> HIDE DEF b
  <1>5. Is(a)
    BY <1>1, <1>3, <1>4
  <1> DEFINE c == CHOOSE u : Is(u)
  <1>6. Is(c)
    <2> HIDE DEF Is
    <2> QED BY <1>5
  <1>7. ResolvedTo(x, no, w) = c /\ Resolved(x, no, w) = c[n]
    BY DEF ResolvedTo, Resolved, b, NextNo, StartNo
  <1> HIDE DEF c, G
  <1>8. c[0] = b /\ \A k \in 1..n : c[k] = NextNo(x, c[k - 1], w.path[k])
    <2>1. n \in Nat /\ Is(c)
      BY <1>1, <1>6
    <2> HIDE DEF n
    <2>2. 0 \in 0..n /\ \A k \in 1..n : k \in 0..n /\ k # 0
      BY <2>1
    <2> QED BY <2>1, <2>2
  <1> QED BY <1>7, <1>8 DEF b

PathTo(x, no, w) ==
    CHOOSE u : u = [k \in 0..Len(w.path) |-> IF k = 0 THEN [f |-> x, ino |-> StartNo(no, w)]
                                             ELSE Into(u[k - 1], w.path[k])]

LEMMA IntoFits ==
    ASSUME NEW r \in Place, NEW name
    PROVE  Into(r, name) \in Place
  <1>1. r.f \in FileState /\ r.ino \in InodeNo
    BY DEF Place
  <1> QED BY <1>1, LookupFacts DEF Into

LEMMA PathSteps ==
    ASSUME NEW x \in FileState, NEW no \in InodeNo, NEW w \in Word
    PROVE  /\ dopath(x, no, w) = PathTo(x, no, w)[Len(w.path)]
           /\ PathTo(x, no, w)[0] = [f |-> x, ino |-> StartNo(no, w)]
           /\ \A k \in 1..Len(w.path) :
                PathTo(x, no, w)[k] = Into(PathTo(x, no, w)[k - 1], w.path[k])
  <1> DEFINE n == Len(w.path)
             b == [f |-> x, ino |-> StartNo(no, w)]
             G == [p \in Place \X (1..n) |-> Into(p[1], w.path[p[2]])]
             Is(u) == u = [k \in 0..n |-> IF k = 0 THEN b ELSE Into(u[k - 1], w.path[k])]
  <1>1. b \in Place /\ n \in Nat
    <2>1. w.path \in Seq(Names)
      BY DEF Word
    <2> QED BY <2>1, StartFits DEF Place
  <1>2. \A r \in Place : \A name : Into(r, name) \in Place
    BY IntoFits
  <1>3. PICK a \in [0..n -> Place] : a[0] = b /\ \A k \in 1..n : a[k] = G[<<a[k - 1], k>>]
    <2>1. G \in [Place \X (1..n) -> Place]
      BY <1>2
    <2> HIDE DEF G, b, n
    <2>2. Recurses(Place, b, n, G)
      BY <1>1, <2>1, Recursive
    <2> QED BY <2>2 DEF Recurses
  <1>4. \A k \in 1..n : a[k] = Into(a[k - 1], w.path[k])
    <2> SUFFICES ASSUME NEW k \in 1..n PROVE a[k] = Into(a[k - 1], w.path[k])
      OBVIOUS
    <2>1. <<a[k - 1], k>> \in Place \X (1..n)
      BY <1>1, <1>3
    <2> QED BY <1>3, <2>1
  <1> HIDE DEF b
  <1>5. Is(a)
    BY <1>1, <1>3, <1>4
  <1> DEFINE c == CHOOSE u : Is(u)
  <1>6. Is(c)
    <2> HIDE DEF Is
    <2> QED BY <1>5
  <1>7. PathTo(x, no, w) = c /\ dopath(x, no, w) = c[n]
    BY DEF PathTo, dopath, b, StartNo
  <1> HIDE DEF c, G
  <1>8. c[0] = b /\ \A k \in 1..n : c[k] = Into(c[k - 1], w.path[k])
    <2>1. n \in Nat /\ Is(c)
      BY <1>1, <1>6
    <2> HIDE DEF n
    <2>2. 0 \in 0..n /\ \A k \in 1..n : k \in 0..n /\ k # 0
      BY <2>1
    <2> QED BY <2>1, <2>2
  <1> QED BY <1>7, <1>8 DEF b

\* dopath ends where the path leads on the disk, unless a failure went unseen.
Led(x, r, no) ==
    /\ r \in Place /\ Keeps(x, r.f) /\ r.f.spos <= r.f.epos
    /\ ~r.f.unseen /\ x.drive \in DOMAIN Disks => r.ino = no

LEMMA LedInto ==
    ASSUME NEW x \in FileState, NEW r, NEW no, Led(x, r, no), NEW name
    PROVE  Led(x, Into(r, name), NextNo(x, no, name))
  <1>1. r.f \in FileState /\ r.ino \in InodeNo /\ Keeps(x, r.f) /\ r \in Place
    BY DEF Led, Place
  <1>2. CASE r.ino = None
    <2>1. Into(r, name) = r
      BY <1>2 DEF Into
    <2>2. ~r.f.unseen /\ x.drive \in DOMAIN Disks => r.ino = NextNo(x, no, name)
      BY <1>2 DEF Led, NextNo
    <2> QED BY <2>1, <2>2 DEF Led
  <1>3. CASE r.ino # None
    <2> DEFINE z == lookup(r.f, r.ino, name)
    <2>1. Into(r, name) = z
      BY <1>3 DEF Into
    <2>2. /\ z \in Place /\ Keeps(r.f, z.f) /\ z.f.spos <= z.f.epos
          /\ ~z.f.unseen => z.ino = Named(r.f, InodeOf(r.f, r.ino), name)
      BY <1>1, <1>3, LookupFacts
    <2> HIDE DEF z
    <2>3. Keeps(x, z.f)
      BY <1>1, <2>2, KeepsOn
    <2>4. ASSUME ~z.f.unseen, x.drive \in DOMAIN Disks PROVE z.ino = NextNo(x, no, name)
      <3>1. r.ino = no
        BY <2>2, <2>4 DEF Keeps, Led
      <3>2. Named(r.f, InodeOf(r.f, no), name) = Named(x, InodeOf(x, no), name)
        BY <1>1, SamePlace
      <3> QED BY <1>3, <2>2, <2>4, <3>1, <3>2 DEF NextNo
    <2> QED BY <2>1, <2>2, <2>3, <2>4 DEF Led
  <1> QED BY <1>2, <1>3

LEMMA DopathFacts ==
    ASSUME NEW x \in FileState, x.spos <= x.epos, NEW no \in InodeNo, NEW w \in Word
    PROVE  Led(x, dopath(x, no, w), Resolved(x, no, w))
  <1> DEFINE n == Len(w.path)
             u == PathTo(x, no, w)
             v == ResolvedTo(x, no, w)
             On == x.drive \in DOMAIN Disks
             T == {k \in 0..n : Led(x, u[k], v[k])}
  <1>1. n \in Nat
    <2>1. w.path \in Seq(Names)
      BY DEF Word
    <2> QED BY <2>1
  <1>2. /\ dopath(x, no, w) = u[n] /\ u[0] = [f |-> x, ino |-> StartNo(no, w)]
        /\ \A k \in 1..n : u[k] = Into(u[k - 1], w.path[k])
    BY PathSteps
  <1>3. On => /\ Resolved(x, no, w) = v[n] /\ v[0] = StartNo(no, w)
              /\ \A k \in 1..n : v[k] = NextNo(x, v[k - 1], w.path[k])
    BY ResolvedSteps
  <1> HIDE DEF u, v, n
  <1>4. 0 \in T
    <2>1. u[0].f = x /\ u[0].ino = StartNo(no, w) /\ u[0] \in Place
      BY <1>2, StartFits DEF Place
    <2>2. Keeps(x, x)
      BY DEF Keeps, FileState
    <2>3. Led(x, u[0], v[0])
      BY <1>3, <2>1, <2>2 DEF Led
    <2> QED BY <1>1, <2>3
  <1>5. ASSUME NEW k \in 1..n, k - 1 \in T PROVE k \in T
    <2>1. Led(x, u[k - 1], v[k - 1])
      BY <1>5
    <2>2. Led(x, Into(u[k - 1], w.path[k]), NextNo(x, v[k - 1], w.path[k]))
      BY <2>1, LedInto
    <2>3. u[k] = Into(u[k - 1], w.path[k])
      BY <1>2
    <2>4. On => v[k] = NextNo(x, v[k - 1], w.path[k])
      BY <1>3
    <2>5. Led(x, u[k], v[k])
      BY <2>2, <2>3, <2>4 DEF Led
    <2> QED BY <2>5
  <1> HIDE DEF T
  <1>6. n \in T
    <2>1. \A k \in 0..n : k \in T
      BY <1>1, <1>4, <1>5, Upward
    <2> QED BY <1>1, <2>1
  <1>7. Led(x, u[n], v[n])
    BY <1>6 DEF T
  <1> QED BY <1>2, <1>3, <1>7 DEF Led

(***************************************************************************)
(* open: with no failure unseen it fails just when the path names nothing, *)
(* and otherwise has the inode that the disk gives the path.               *)
(***************************************************************************)
LEMMA OpenFacts ==
    ASSUME NEW x \in FileState, x.spos <= x.epos, NEW no \in InodeNo, NEW w \in Word
    PROVE  LET r == open(x, no, w)
           IN  /\ Keeps(x, r.f) /\ r.f.spos <= r.f.epos /\ r.ok \in BOOLEAN
               /\ r.ok => /\ r.no \in InodeNo /\ r.no # None
                          /\ r.f.left = 0 /\ r.f.spos = 0 /\ r.f.epos = r.f.i.blocks
               /\ r.ok /\ ~r.f.unseen =>
                    /\ x.drive \in DOMAIN Disks /\ r.no = Resolved(x, no, w)
                    /\ r.f.i = InodeOf(x, r.no) /\ r.f.idir = At(x, r.f.i.ind).ptrs
               /\ ~r.ok /\ ~r.f.unseen /\ x.drive \in DOMAIN Disks => Resolved(x, no, w) = None
  <1> DEFINE d == dopath(x, no, w)
             R == Resolved(x, no, w)
             y == iopen(d.f, d.ino)
  <1>1. Led(x, d, R)
    BY DopathFacts
  <1>2. open(x, no, w) = IF d.ino = None THEN [f |-> d.f, ok |-> FALSE, no |-> None]
                         ELSE [f |-> y, ok |-> TRUE, no |-> d.ino]
    BY DEF open, OpenAt
  <1> HIDE DEF d, R
  <1>3. CASE d.ino = None
    BY <1>1, <1>2, <1>3 DEF Led, R
  <1>4. CASE d.ino # None
    <2>1. d.f \in FileState /\ d.ino \in InodeNo /\ d.ino \in Nat
      BY <1>1, NoneFits DEF Led, Place
    <2>2. /\ Keeps(d.f, y) /\ y.left = 0 /\ y.spos = 0 /\ y.epos = y.i.blocks
          /\ ~y.unseen => /\ ~d.f.unseen /\ d.f.drive \in DOMAIN Disks
                          /\ y.i = InodeOf(d.f, d.ino)
                          /\ y.idir = At(d.f, y.i.ind).ptrs
      BY <2>1, IopenFacts
    <2> HIDE DEF y
    <2>3. Keeps(x, d.f) /\ Keeps(x, y)
      BY <1>1, <2>2, KeepsOn DEF Led
    <2>4. y.spos <= y.epos
      <3>1. y.i \in Inode
        BY <2>3 DEF Keeps, FileState
      <3> QED BY <2>2, <3>1 DEF Inode
    <2>5. ASSUME ~y.unseen
          PROVE  /\ x.drive \in DOMAIN Disks /\ d.ino = R
                 /\ y.i = InodeOf(x, d.ino) /\ y.idir = At(x, y.i.ind).ptrs
      <3>1. x.drive \in DOMAIN Disks
        BY <2>2, <2>3, <2>5 DEF Keeps
      <3>2. d.ino = R
        BY <1>1, <2>2, <2>5, <3>1 DEF Led
      <3>3. InodeOf(d.f, d.ino) = InodeOf(x, d.ino) /\ At(d.f, y.i.ind) = At(x, y.i.ind)
        BY <2>3, SamePlace
      <3> QED BY <2>2, <2>5, <3>1, <3>2, <3>3
    <2>6. open(x, no, w) = [f |-> y, ok |-> TRUE, no |-> d.ino]
      BY <1>2, <1>4 DEF y
    <2> QED BY <1>4, <2>1, <2>2, <2>3, <2>4, <2>5, <2>6 DEF R
  <1> QED BY <1>3, <1>4

(***************************************************************************)
(* cat and dir, which read a file to its end.                              *)
(***************************************************************************)
ReadTo(x) ==
    CHOOSE u : u = [k \in 0..x.epos |-> IF k = 0 THEN x ELSE NextBlock(u[k - 1])]

LEMMA ReadSteps ==
    ASSUME NEW x \in FileState
    PROVE  /\ ReadAll(x) = [ReadTo(x)[x.epos] EXCEPT !.left = 0] /\ ReadTo(x)[0] = x
           /\ \A k \in 1..x.epos : ReadTo(x)[k] = NextBlock(ReadTo(x)[k - 1])
  <1> DEFINE n == x.epos
             G == [p \in FileState \X (1..n) |-> NextBlock(p[1])]
             Is(u) == u = [k \in 0..n |-> IF k = 0 THEN x ELSE NextBlock(u[k - 1])]
  <1>1. n \in Nat
    BY DEF FileState
  <1>2. \A r \in FileState : NextBlock(r) \in FileState
    BY NextFacts DEF Keeps
  <1>3. PICK a \in [0..n -> FileState] : a[0] = x /\ \A k \in 1..n : a[k] = G[<<a[k - 1], k>>]
    <2>1. G \in [FileState \X (1..n) -> FileState]
      BY <1>2
    <2> HIDE DEF G, n
    <2>2. Recurses(FileState, x, n, G)
      BY <1>1, <2>1, Recursive
    <2> QED BY <2>2 DEF Recurses
  <1>4. \A k \in 1..n : a[k] = NextBlock(a[k - 1])
    <2> SUFFICES ASSUME NEW k \in 1..n PROVE a[k] = NextBlock(a[k - 1])
      OBVIOUS
    <2>1. <<a[k - 1], k>> \in FileState \X (1..n)
      BY <1>1, <1>3
    <2> QED BY <1>3, <2>1
  <1>5. Is(a)
    BY <1>1, <1>3, <1>4
  <1> DEFINE c == CHOOSE u : Is(u)
  <1>6. Is(c)
    <2> HIDE DEF Is
    <2> QED BY <1>5
  <1>7. ReadTo(x) = c /\ ReadAll(x) = [c[n] EXCEPT !.left = 0]
    BY DEF ReadTo, ReadAll
  <1> HIDE DEF c, G
  <1>8. c[0] = x /\ \A k \in 1..n : c[k] = NextBlock(c[k - 1])
    <2>1. n \in Nat /\ Is(c)
      BY <1>1, <1>6
    <2> HIDE DEF n
    <2>2. 0 \in 0..n /\ \A k \in 1..n : k \in 0..n /\ k # 0
      BY <2>1
    <2> QED BY <2>1, <2>2
  <1> QED BY <1>7, <1>8

LEMMA ReadAllFacts ==
    ASSUME NEW x \in FileState, x.spos = 0
    PROVE  Keeps(x, ReadAll(x)) /\ ReadAll(x).spos <= ReadAll(x).epos
  <1> DEFINE n == x.epos
             u == ReadTo(x)
             Read(y, k) == Keeps(x, y) /\ SameFile(x, y) /\ y.spos = k
             T == {k \in 0..n : Read(u[k], k)}
  <1>1. n \in Nat
    BY DEF FileState
  <1>2. /\ ReadAll(x) = [u[n] EXCEPT !.left = 0] /\ u[0] = x
        /\ \A k \in 1..n : u[k] = NextBlock(u[k - 1])
    BY ReadSteps
  <1> HIDE DEF u
  <1>3. 0 \in T
    <2>1. Read(x, 0)
      BY DEF Keeps, SameFile, FileState
    <2> HIDE DEF Read
    <2> QED BY <1>1, <1>2, <2>1
  <1>4. ASSUME NEW k \in 1..n, k - 1 \in T PROVE k \in T
    <2>1. Read(u[k - 1], k - 1)
      BY <1>4
    <2> DEFINE y == u[k - 1]
               z == NextBlock(y)
    <2>2. y \in FileState
      BY <2>1 DEF Keeps
    <2>3. Keeps(y, z) /\ SameFile(y, z) /\ z.spos = y.spos + 1
      BY <2>2, NextFacts
    <2>4. Keeps(x, y) /\ SameFile(x, y) /\ y.spos = k - 1
      BY <2>1
    <2> HIDE DEF y, z
    <2>5. Keeps(x, z)
      BY <2>3, <2>4, KeepsOn
    <2>6. SameFile(x, z)
      BY <2>3, <2>4 DEF SameFile
    <2>7. z.spos = k
      BY <1>1, <2>3, <2>4
    <2>8. Read(z, k) /\ u[k] = z
      BY <1>2, <2>5, <2>6, <2>7 DEF y, z
    <2> HIDE DEF Read
    <2> QED BY <2>8
  <1> HIDE DEF T
  <1>5. n \in T
    <2>1. \A k \in 0..n : k \in T
      BY <1>1, <1>3, <1>4, Upward
    <2> QED BY <1>1, <2>1
  <1> DEFINE y == u[n]
             z == ReadAll(x)
  <1>6. Keeps(x, y) /\ SameFile(x, y) /\ y.spos = n
    BY <1>5 DEF T
  <1> HIDE DEF y, n
  <1>7. z = [y EXCEPT !.left = 0] /\ 0 \in Left
    BY <1>2, DisksAssumption DEF y, Left
  <1> HIDE DEF z
  <1>8. /\ z \in FileState /\ z.drive = y.drive /\ z.part_offset = y.part_offset
        /\ z.unseen = y.unseen /\ z.spos = y.spos /\ z.epos = y.epos
    <2>1. y \in FileState
      BY <1>6 DEF Keeps
    <2>2. PICK g \in FileState : g = y
      BY <2>1
    <2>3. z = [g EXCEPT !.left = 0] /\ 0 \in Left
      BY <1>7, <2>2
    <2>4. z \in FileState
      BY <2>3 DEF FileState
    <2>5. /\ z.drive = g.drive /\ z.part_offset = g.part_offset
          /\ z.spos = g.spos /\ z.epos = g.epos
      BY <2>3 DEF FileState
    <2>6. z.unseen = g.unseen
      BY <2>3 DEF FileState
    <2> QED BY <2>2, <2>4, <2>5, <2>6
  <1>9. z.spos <= z.epos
    <2>1. z.spos = n
      BY <1>6, <1>8
    <2>2. z.epos = n
      BY <1>6, <1>8 DEF SameFile, n
    <2> QED BY <1>1, <2>1, <2>2
  <1> QED BY <1>6, <1>8, <1>9 DEF Keeps, z

LEMMA DirFacts ==
    ASSUME NEW x \in FileState, NEW no \in Nat
    PROVE  Keeps(x, dir(x, no)) /\ dir(x, no).spos <= dir(x, no).epos
  <1>1. Keeps(x, iopen(x, no)) /\ iopen(x, no).spos = 0
    BY IopenFacts
  <1>2. iopen(x, no) \in FileState
    BY <1>1 DEF Keeps
  <1>3. /\ Keeps(iopen(x, no), ReadAll(iopen(x, no)))
        /\ ReadAll(iopen(x, no)).spos <= ReadAll(iopen(x, no)).epos
    BY <1>1, <1>2, ReadAllFacts
  <1> QED BY <1>1, <1>3, KeepsOn DEF dir

LEMMA CopiedFacts ==
    ASSUME NEW x, NEW y, Keeps(x, y), y.spos <= y.epos
    PROVE  Keeps(x, CopiedToBuf(y)) /\ CopiedToBuf(y).spos <= CopiedToBuf(y).epos
  <1>1. PICK g \in FileState : g = y
    BY DEF Keeps
  <1> DEFINE z == CopiedToBuf(g)
  <1>2. z = g \/ z = [g EXCEPT !.buf = g.dbuf]
    BY DEF CopiedToBuf
  <1> HIDE DEF z
  <1>3. /\ z \in FileState /\ z.drive = g.drive /\ z.part_offset = g.part_offset
        /\ z.unseen = g.unseen /\ z.spos = g.spos /\ z.epos = g.epos
    <2>1. CASE z = g
      BY <2>1
    <2>2. CASE z = [g EXCEPT !.buf = g.dbuf]
      <3>1. z \in FileState
        BY <2>2 DEF FileState
      <3> QED BY <2>2, <3>1 DEF FileState
    <2> QED BY <1>2, <2>1, <2>2
  <1> QED BY <1>1, <1>3 DEF Keeps, z

LEMMA CatFacts ==
    ASSUME NEW x \in FileState, x.spos <= x.epos, NEW no \in InodeNo, NEW w \in Word
    PROVE  Keeps(x, cat(x, no, w)) /\ cat(x, no, w).spos <= cat(x, no, w).epos
  <1> DEFINE r == open(x, no, w)
             y == r.f
  <1>1. /\ Keeps(x, y) /\ y.spos <= y.epos
        /\ r.ok => y.spos = 0
    BY OpenFacts
  <1>2. cat(x, no, w) = IF r.ok THEN CopiedToBuf(ReadAll(y)) ELSE y
    BY DEF cat, Shown
  <1> HIDE DEF r, y
  <1>3. y \in FileState
    BY <1>1 DEF Keeps
  <1>4. CASE r.ok
    <2>1. Keeps(x, ReadAll(y)) /\ ReadAll(y).spos <= ReadAll(y).epos
      BY <1>1, <1>3, <1>4, ReadAllFacts, KeepsOn
    <2> QED BY <1>2, <1>4, <2>1, CopiedFacts
  <1>5. CASE ~r.ok
    BY <1>1, <1>2, <1>5
  <1> QED BY <1>4, <1>5

(***************************************************************************)
(* mount and dopart.                                                       *)
(***************************************************************************)
LEMMA InitFacts ==
    ASSUME NEW x \in FileState, NEW minor \in DriveNo
    PROVE  LET a == dev_init(x, minor)
           IN  /\ a.f \in FileState /\ a.f.drive = minor /\ a.ok \in BOOLEAN
               /\ a.f.part_offset = x.part_offset /\ a.f.spos = x.spos /\ a.f.epos = x.epos
               /\ x.bad = 0 => a.ok /\ a.f.bad = 0
  <1> DEFINE u == Used(x)
             y == [u EXCEPT !.drive = minor]
  <1>1. /\ u \in FileState /\ u.part_offset = x.part_offset /\ u.spos = x.spos
        /\ u.epos = x.epos
    BY UsedFacts
  <1>4. x.bad = 0 => u.bad = 0
    BY DEF Used, FileState
  <1>2. dev_init(x, minor) = [f |-> y, ok |-> Works(x)]
    BY DEF dev_init
  <1> HIDE DEF u
  <1>3. /\ y \in FileState /\ y.drive = minor /\ y.part_offset = u.part_offset
        /\ y.spos = u.spos /\ y.epos = u.epos /\ y.bad = u.bad
    BY <1>1 DEF FileState
  <1> HIDE DEF y
  <1> DEFINE a == dev_init(x, minor)
  <1>5. Works(x) \in BOOLEAN /\ (x.bad = 0 => Works(x))
    BY DEF Works
  <1>6. a.f = y /\ a.ok = Works(x)
    BY <1>2
  <1> HIDE DEF a
  <1>7. /\ a.f \in FileState /\ a.f.drive = minor /\ a.ok \in BOOLEAN
        /\ a.f.part_offset = x.part_offset /\ a.f.spos = x.spos /\ a.f.epos = x.epos
    BY <1>1, <1>3, <1>5, <1>6
  <1>8. x.bad = 0 => a.ok /\ a.f.bad = 0
    BY <1>3, <1>4, <1>5, <1>6
  <1> QED BY <1>7, <1>8 DEF a

\* Everything but part_offset and the buffer, and that only well typed.
Mounting(x, y) ==
    /\ y \in FileState /\ y.drive = x.drive /\ y.spos = x.spos /\ y.epos = x.epos
    /\ x.bad = 0 => y.bad = 0

LEMMA MountAtFacts ==
    ASSUME NEW x \in FileState
    PROVE  LET r == MountAt(x)
           IN  /\ Mounting(x, r.f) /\ r.f.part_offset = x.part_offset /\ r.ok \in BOOLEAN
               /\ r.ok => x.drive \in DOMAIN Disks /\ At(x, 1).super
               /\ ~r.ok /\ x.bad = 0 /\ x.drive \in DOMAIN Disks => ~At(x, 1).super
  <1> DEFINE c == dev_read(x, 1, x.buf)
             u == Used(x)
             y == [u EXCEPT !.buf = c.got]
  <1>1. x.buf \in BlockSet
    BY DEF FileState
  <1>2. /\ c.f = u /\ c.ok \in BOOLEAN /\ c.got \in BlockSet
        /\ c.ok => x.drive \in DOMAIN Disks /\ c.got = At(x, 1)
        /\ x.drive \in DOMAIN Disks /\ ~c.ok => x.bad = 1
    BY <1>1, ReadFacts DEF At
  <1>3. /\ u \in FileState /\ u.part_offset = x.part_offset /\ u.spos = x.spos
        /\ u.epos = x.epos /\ u.drive = x.drive
    BY UsedFacts
  <1>9. x.bad = 0 => u.bad = 0
    BY DEF Used, FileState
  <1>4. MountAt(x) = [f |-> [c.f EXCEPT !.buf = c.got], ok |-> c.ok /\ c.got.super]
    BY DEF MountAt, Super
  <1> HIDE DEF c, u
  <1>5. MountAt(x) = [f |-> y, ok |-> c.ok /\ c.got.super]
    BY <1>2, <1>4
  <1>6. /\ y \in FileState /\ y.drive = u.drive /\ y.part_offset = u.part_offset
        /\ y.spos = u.spos /\ y.epos = u.epos /\ y.bad = u.bad
    BY <1>2, <1>3 DEF FileState
  <1> HIDE DEF y
  <1>7. Mounting(x, y) /\ y.part_offset = x.part_offset
    BY <1>3, <1>6, <1>9 DEF Mounting
  <1>8. c.got.super \in BOOLEAN
    BY <1>2 DEF BlockSet
  <1> QED BY <1>2, <1>5, <1>7, <1>8

LEMMA ChosenFacts ==
    ASSUME NEW x \in FileState, x.drive \in DOMAIN Disks, NEW b, b.f = x,
           b.got \in BlockSet, NEW part \in Nat
    PROVE  LET y == Chosen(b, x.drive, part)
           IN  /\ Mounting(x, y)
               /\ y.part_offset = IF ~b.got.mbr THEN 0
                                  ELSE IF part # 0 THEN b.got.part[x.drive] ELSE x.part_offset
  <1> DEFINE o == Partition(b, x.drive, part)
             y == [x EXCEPT !.buf = b.got, !.part_offset = o]
  <1>1. Chosen(b, x.drive, part) = y
    BY DEF Chosen
  <1>2. b.got.part[x.drive] \in Nat /\ x.part_offset \in Nat
    BY DEF BlockSet, FileState
  <1>3. /\ o \in Nat
        /\ o = IF ~b.got.mbr THEN 0 ELSE IF part # 0 THEN b.got.part[x.drive] ELSE x.part_offset
    BY <1>2 DEF Partition
  <1> HIDE DEF o
  <1>4. /\ y \in FileState /\ y.drive = x.drive /\ y.part_offset = o
        /\ y.spos = x.spos /\ y.epos = x.epos /\ y.bad = x.bad
    BY <1>3 DEF FileState
  <1> HIDE DEF y
  <1> QED BY <1>1, <1>3, <1>4 DEF Mounting, y

(* mount: what it leaves, when it succeeds, and why it does not. *)
BlockZero(x, minor) == Block(minor, x.part_offset)
NewOffset(x, minor, part) ==
    IF ~BlockZero(x, minor).mbr THEN 0
    ELSE IF part # 0 THEN BlockZero(x, minor).part[minor] ELSE x.part_offset

LEMMA MountFacts ==
    ASSUME NEW x \in FileState, x.spos <= x.epos, NEW minor \in DriveNo, NEW part \in Nat
    PROVE  LET r == mount(x, minor, part)
           IN  /\ r.f \in FileState /\ r.f.spos <= r.f.epos /\ r.ok \in BOOLEAN
               /\ r.ok => r.f.drive \in DOMAIN Disks /\ At(r.f, 1).super
               /\ x.bad = 0 /\ ~r.ok /\ minor \in DOMAIN Disks =>
                    /\ r.f.drive = minor /\ r.f.part_offset = NewOffset(x, minor, part)
                    /\ (BlockZero(x, minor).mbr \/ part = 0) => ~At(r.f, 1).super
  <1> DEFINE a == dev_init(x, minor)
             g == a.f
             b == dev_read(g, 0, g.buf)
             e == Used(g)
             c == Chosen(b, minor, part)
             q == MountAt(c)
             r == mount(x, minor, part)
  <1>1. /\ g \in FileState /\ g.drive = minor /\ a.ok \in BOOLEAN
        /\ g.part_offset = x.part_offset /\ g.spos = x.spos /\ g.epos = x.epos
        /\ x.bad = 0 => a.ok /\ g.bad = 0
    BY InitFacts
  <1>2. r = IF a.ok THEN MountOn(b, minor, part) ELSE [f |-> g, ok |-> FALSE]
    BY DEF mount, MountOf
  <1> HIDE DEF a
  <1>3. CASE ~a.ok
    <2>1. r.f = g /\ r.ok = FALSE
      BY <1>2, <1>3
    <2> HIDE DEF g, r
    <2>2. r.f \in FileState /\ r.f.spos <= r.f.epos /\ r.ok \in BOOLEAN /\ ~r.ok /\ ~(x.bad = 0)
      BY <1>1, <1>3, <2>1
    <2> QED BY <2>2 DEF r
  <1>4. CASE a.ok
    <2>1. g.buf \in BlockSet
      BY <1>1 DEF FileState
    <2> HIDE DEF g
    <2>2. /\ b.f = e /\ b.ok \in BOOLEAN /\ b.got \in BlockSet
          /\ b.ok => minor \in DOMAIN Disks /\ b.got = Block(minor, x.part_offset + 0)
          /\ minor \in DOMAIN Disks /\ ~b.ok => g.bad = 1
      BY <1>1, <2>1, ReadFacts
    <2>3. /\ e \in FileState /\ e.drive = minor /\ e.part_offset = x.part_offset
          /\ e.spos = x.spos /\ e.epos = x.epos
      BY <1>1, UsedFacts
    <2>4. g.bad = 0 => e.bad = 0
      BY <1>1 DEF Used, FileState
    <2>5. r = IF ~b.ok THEN [f |-> b.f, ok |-> FALSE]
              ELSE IF ~b.got.mbr /\ part > 0 THEN [f |-> c, ok |-> FALSE] ELSE q
      BY <1>2, <1>4 DEF MountOn
    <2>6. x.part_offset + 0 = x.part_offset
      BY DEF FileState
    <2>7. b.ok => b.got = BlockZero(x, minor)
      BY <2>2, <2>6 DEF BlockZero
    <2> HIDE DEF b, e
    <2>8. CASE ~b.ok
      <3>1. r.f = e /\ r.ok = FALSE
        BY <2>2, <2>5, <2>8
      <3> HIDE DEF r
      <3>2. r.f \in FileState /\ r.f.spos <= r.f.epos /\ r.ok \in BOOLEAN /\ ~r.ok
        BY <2>3, <3>1
      <3>3. ~(x.bad = 0 /\ minor \in DOMAIN Disks)
        BY <1>1, <2>2, <2>8
      <3> QED BY <3>2, <3>3 DEF r
    <2>9. CASE b.ok
      <3>1. /\ Mounting(e, c)
            /\ c.part_offset = IF ~b.got.mbr THEN 0
                               ELSE IF part # 0 THEN b.got.part[minor] ELSE e.part_offset
        BY <2>2, <2>3, <2>9, ChosenFacts
      <3>2. c.part_offset = NewOffset(x, minor, part)
        BY <2>3, <2>7, <2>9, <3>1 DEF NewOffset
      <3> HIDE DEF c
      <3>3. /\ c \in FileState /\ c.drive = minor /\ c.spos <= c.epos
            /\ g.bad = 0 => c.bad = 0
        BY <2>3, <2>4, <3>1 DEF Mounting
      <3>4. CASE ~b.got.mbr /\ part > 0
        <4>1. r.f = c /\ r.ok = FALSE
          BY <2>5, <2>9, <3>4
        <4>2. ~(BlockZero(x, minor).mbr \/ part = 0)
          BY <2>7, <2>9, <3>4
        <4> HIDE DEF r
        <4>3. r.ok \in BOOLEAN /\ ~r.ok
          BY <4>1
        <4> QED BY <3>2, <3>3, <4>1, <4>2, <4>3 DEF r
      <3>5. CASE ~(~b.got.mbr /\ part > 0)
        <4>1. r = q
          BY <2>5, <2>9, <3>5
        <4>2. /\ Mounting(c, q.f) /\ q.f.part_offset = c.part_offset /\ q.ok \in BOOLEAN
              /\ q.ok => c.drive \in DOMAIN Disks /\ At(c, 1).super
              /\ ~q.ok /\ c.bad = 0 /\ c.drive \in DOMAIN Disks => ~At(c, 1).super
          BY <3>3, MountAtFacts
        <4> HIDE DEF q, r
        <4>3. At(q.f, 1) = At(c, 1) /\ q.f \in FileState /\ q.f.drive = c.drive
          BY <4>2 DEF At, Mounting
        <4>4. q.f.spos <= q.f.epos
          BY <3>3, <4>2 DEF Mounting
        <4>5. x.bad = 0 => c.bad = 0
          BY <1>1, <3>3
        <4> QED BY <3>2, <3>3, <4>1, <4>2, <4>3, <4>4, <4>5 DEF r
      <3> QED BY <3>4, <3>5
    <2> QED BY <2>2, <2>8, <2>9
  <1> QED BY <1>1, <1>3, <1>4

LEMMA DopartFacts ==
    ASSUME NEW x \in FileState, x.spos <= x.epos
    PROVE  Keeps(x, dopart(x)) /\ dopart(x).spos <= dopart(x).epos
  <1> DEFINE g == [x EXCEPT !.part_offset = 0]
             a == dev_read(g, 0, x.buf)
             u == Used(g)
             y == [u EXCEPT !.buf = a.got, !.part_offset = x.part_offset]
  <1>1. /\ g \in FileState /\ g.drive = x.drive /\ g.spos = x.spos /\ g.epos = x.epos
        /\ g.unseen = x.unseen /\ x.buf \in BlockSet /\ x.part_offset \in Nat
    BY DEF FileState
  <1> HIDE DEF g
  <1>2. a.f = u /\ a.got \in BlockSet
    BY <1>1, ReadFacts
  <1>3. /\ u \in FileState /\ u.drive = x.drive /\ u.spos = x.spos /\ u.epos = x.epos
        /\ u.unseen = x.unseen
    BY <1>1, UsedFacts
  <1>4. dopart(x) = [a.f EXCEPT !.buf = a.got, !.part_offset = x.part_offset]
    BY DEF dopart, PartShown, g
  <1> HIDE DEF a, u
  <1>5. dopart(x) = y
    BY <1>2, <1>4
  <1>6. /\ y \in FileState /\ y.drive = u.drive /\ y.part_offset = x.part_offset
        /\ y.spos = u.spos /\ y.epos = u.epos
    BY <1>1, <1>2, <1>3 DEF FileState
  <1>7. y.unseen = u.unseen
    BY <1>3 DEF FileState
  <1> HIDE DEF y
  <1>8. Keeps(x, y) /\ y.spos <= y.epos
    BY <1>3, <1>6, <1>7 DEF Keeps
  <1> QED BY <1>5, <1>8

(***************************************************************************)
(* What the handlers have in common: where a handler's transactions start  *)
(* and what is left of the device and the open file at its end.            *)
(***************************************************************************)
Start(k) == [f EXCEPT !.bad = k, !.unseen = FALSE]
LoadStart(k) == [f EXCEPT !.bad = k]

LEMMA StartFacts ==
    ASSUME f \in FileState, NEW k \in Nat
    PROVE  /\ Start(k) \in FileState /\ Start(k).drive = f.drive
           /\ Start(k).part_offset = f.part_offset /\ Start(k).spos = f.spos
           /\ Start(k).epos = f.epos /\ Start(k).bad = k /\ ~Start(k).unseen
  <1>1. Start(k) \in FileState
    BY DEF Start, FileState
  <1> QED BY <1>1 DEF Start, FileState

LEMMA LoadStartFacts ==
    ASSUME f \in FileState, NEW k \in Nat
    PROVE  /\ LoadStart(k) \in FileState /\ LoadStart(k).drive = f.drive
           /\ LoadStart(k).part_offset = f.part_offset /\ LoadStart(k).spos = f.spos
           /\ LoadStart(k).left = f.left /\ LoadStart(k).i = f.i /\ LoadStart(k).idir = f.idir
           /\ LoadStart(k).dbuf = f.dbuf /\ LoadStart(k).epos = f.epos
           /\ LoadStart(k).bad = k /\ LoadStart(k).unseen = f.unseen
  <1>1. LoadStart(k) \in FileState
    BY DEF LoadStart, FileState
  <1> QED BY <1>1 DEF LoadStart, FileState

LEMMA EndFacts ==
    ASSUME NEW y \in FileState, f' = [y EXCEPT !.bad = 0]
    PROVE  /\ f' \in FileState /\ f'.drive = y.drive /\ f'.part_offset = y.part_offset
           /\ f'.spos = y.spos /\ f'.left = y.left /\ f'.i = y.i /\ f'.idir = y.idir
           /\ f'.dbuf = y.dbuf /\ f'.epos = y.epos /\ f'.bad = 0 /\ f'.unseen = y.unseen
  <1>1. PICK g \in FileState : g = f'
    BY DEF FileState
  <1>2. g = [y EXCEPT !.bad = 0]
    BY <1>1
  <1>3. /\ g.drive = y.drive /\ g.part_offset = y.part_offset
        /\ g.spos = y.spos /\ g.left = y.left /\ g.i = y.i /\ g.idir = y.idir
        /\ g.dbuf = y.dbuf /\ g.epos = y.epos /\ g.bad = 0
    BY <1>2 DEF FileState
  <1>4. g.unseen = y.unseen
    BY <1>2 DEF FileState
  <1> QED BY <1>1, <1>3, <1>4

\* The counting of faults, with k the transaction that failed.
Counts(k) == faults' = IF k > 0 THEN faults + 1 ELSE faults

LEMMA CountFacts ==
    ASSUME faults \in 0..MaxFaults, NEW k \in Ks, Counts(k)
    PROVE  k \in Nat /\ faults' \in 0..MaxFaults
  <1>1. MaxFaults \in Nat /\ MaxReads \in Nat
    BY BooterAssumption
  <1>2. CASE faults < MaxFaults
    BY <1>1, <1>2 DEF Ks, Counts
  <1>3. CASE ~(faults < MaxFaults)
    BY <1>1, <1>3 DEF Ks, Counts
  <1> QED BY <1>2, <1>3

\* A handler that leaves disk and partition as they are.
Quiet ==
    /\ f' \in FileState /\ f'.bad = 0 /\ f'.drive = f.drive
    /\ f'.part_offset = f.part_offset /\ f'.spos <= f'.epos
    /\ faults' \in 0..MaxFaults

Device == f \in FileState /\ f.bad = 0 /\ f.spos <= f.epos /\ faults \in 0..MaxFaults

LEMMA QuietEnd ==
    ASSUME Device, NEW k \in Ks, Counts(k), NEW y, Keeps(Start(k), y), y.spos <= y.epos,
           f' = [y EXCEPT !.bad = 0]
    PROVE  Quiet /\ f'.unseen = y.unseen
  <1>1. k \in Nat /\ faults' \in 0..MaxFaults
    BY CountFacts DEF Device
  <1>2. y \in FileState /\ y.drive = f.drive /\ y.part_offset = f.part_offset
    BY <1>1, StartFacts DEF Keeps, Device
  <1> QED BY <1>1, <1>2, EndFacts DEF Quiet

\* Which action does what with the device.
LEMMA ShowSteps ==
    ASSUME ShowMessage
    PROVE  \E k \in Ks : Counts(k) /\ f' = [cat(Start(k), cd, Message) EXCEPT !.bad = 0]
  <1>1. PICK k \in Ks : \E res \in {[f |-> cat(Start(k), cd, Message)]} :
                          Counts(k) /\ f' = [res.f EXCEPT !.bad = 0]
    BY Zenon DEF ShowMessage, Handler, Counts, Start
  <1>2. PICK res \in {[f |-> cat(Start(k), cd, Message)]} :
          Counts(k) /\ f' = [res.f EXCEPT !.bad = 0]
    BY <1>1
  <1>3. res.f = cat(Start(k), cd, Message)
    BY <1>2
  <1> QED BY <1>2, <1>3

CatWord(line) == IF Len(line) > 1 THEN line[2] ELSE NoWord
KernelOpened(res) == IF res.ok THEN Go("header") /\ UNCHANGED err ELSE Fails(2)
HeaderRead(res) ==
    IF Len(res.got) # HSZ
    THEN Fails(3) /\ UNCHANGED <<h, todo, win>>
    ELSE /\ h' = res.got /\ UNCHANGED err
         /\ IF res.got[1] # PRE
            THEN Go("jump") /\ UNCHANGED <<todo, win>>
            ELSE /\ todo' = res.got[2] /\ win' = mseek(res.got[3])
                 /\ Go("section")
BufferRead(res) ==
    IF res.got = <<>>
    THEN Fails(4) /\ UNCHANGED <<mem, win, todo>>
    ELSE LET w == mwrite(mem, win, res.got)
         IN  /\ mem' = w.mem /\ win' = w.win
             /\ todo' = todo - Len(res.got)
             /\ UNCHANGED <<pc, err>>
Onwards(x) == [x EXCEPT !.spos = @ + 1]
DirectRead(res) ==
    IF ~res.ok
    THEN Fails(6) /\ UNCHANGED loader
    ELSE /\ mem' = Over(Cells(win.paddr, res.got.bytes), mem)
         /\ win' = Advance(win, BSZ) /\ todo' = todo - BSZ
         /\ UNCHANGED <<pc, err, h>>

LEMMA LsSteps ==
    ASSUME NEW line, DoLs(line)
    PROVE  \E k \in Ks : Counts(k) /\ f' = [dir(Start(k), cd) EXCEPT !.bad = 0]
  <1>1. PICK k \in Ks : \E res \in {[f |-> dir(Start(k), cd)]} :
                          Counts(k) /\ f' = [res.f EXCEPT !.bad = 0]
    BY Zenon DEF DoLs, Handler, Counts, Start
  <1>2. PICK res \in {[f |-> dir(Start(k), cd)]} :
          Counts(k) /\ f' = [res.f EXCEPT !.bad = 0]
    BY <1>1
  <1>3. res.f = dir(Start(k), cd)
    BY <1>2
  <1> QED BY <1>2, <1>3

LEMMA CatSteps ==
    ASSUME NEW line, DoCat(line)
    PROVE  \E k \in Ks : Counts(k) /\ f' = [cat(Start(k), cd, CatWord(line)) EXCEPT !.bad = 0]
  <1>1. PICK k \in Ks : \E res \in {[f |-> cat(Start(k), cd, CatWord(line))]} :
                          Counts(k) /\ f' = [res.f EXCEPT !.bad = 0]
    BY Zenon DEF DoCat, CatWord, Handler, Counts, Start
  <1>2. PICK res \in {[f |-> cat(Start(k), cd, CatWord(line))]} :
          Counts(k) /\ f' = [res.f EXCEPT !.bad = 0]
    BY <1>1
  <1>3. res.f = cat(Start(k), cd, CatWord(line))
    BY <1>2
  <1> QED BY <1>2, <1>3

LEMMA PartSteps ==
    ASSUME NEW line, DoPart(line)
    PROVE  \E k \in Ks : Counts(k) /\ f' = [dopart(Start(k)) EXCEPT !.bad = 0]
  <1>1. PICK k \in Ks : \E res \in {[f |-> dopart(Start(k))]} :
                          Counts(k) /\ f' = [res.f EXCEPT !.bad = 0]
    BY Zenon DEF DoPart, Handler, Counts, Start
  <1>2. PICK res \in {[f |-> dopart(Start(k))]} :
          Counts(k) /\ f' = [res.f EXCEPT !.bad = 0]
    BY <1>1
  <1>3. res.f = dopart(Start(k))
    BY <1>2
  <1> QED BY <1>2, <1>3

LEMMA OpenSteps ==
    ASSUME OpenKernel
    PROVE  \E k \in Ks : \E res : /\ res = open(Start(k), cd, Kernel)
                                 /\ Counts(k) /\ (k > 0 => res.f.bad = 0)
                                 /\ f' = [res.f EXCEPT !.bad = 0]
                                 /\ KernelOpened(res)
  <1>1. PICK k \in Ks : \E res \in {open(Start(k), cd, Kernel)} :
                          /\ k > 0 => res.f.bad = 0
                          /\ Counts(k) /\ f' = [res.f EXCEPT !.bad = 0] /\ KernelOpened(res)
    BY Zenon DEF OpenKernel, KernelOpened, Handler, Counts, Start
  <1>2. PICK res \in {open(Start(k), cd, Kernel)} :
          /\ k > 0 => res.f.bad = 0
          /\ Counts(k) /\ f' = [res.f EXCEPT !.bad = 0] /\ KernelOpened(res)
    BY <1>1
  <1>3. res = open(Start(k), cd, Kernel)
    BY <1>2
  <1> QED BY <1>2, <1>3

LEMMA CdSteps ==
    ASSUME NEW line, DoCd(line), Len(line) # 1
    PROVE  \E k \in Ks : \E res : /\ res = open(Start(k), cd, line[2])
                                 /\ Counts(k) /\ (k > 0 => res.f.bad = 0)
                                 /\ f' = [res.f EXCEPT !.bad = 0]
                                 /\ ChDir(res)
  <1>1. PICK k \in Ks : \E res \in {open(Start(k), cd, line[2])} :
                          /\ k > 0 => res.f.bad = 0
                          /\ Counts(k) /\ f' = [res.f EXCEPT !.bad = 0] /\ ChDir(res)
    BY Zenon DEF DoCd, Handler, Counts, Start
  <1>2. PICK res \in {open(Start(k), cd, line[2])} :
          /\ k > 0 => res.f.bad = 0
          /\ Counts(k) /\ f' = [res.f EXCEPT !.bad = 0] /\ ChDir(res)
    BY <1>1
  <1>3. res = open(Start(k), cd, line[2])
    BY <1>2
  <1> QED BY <1>2, <1>3

LEMMA MountSteps ==
    ASSUME MountIt
    PROVE  \E k \in Ks : \E res : /\ res = mount(Start(k), drive_no, part_no)
                                 /\ Counts(k) /\ (k > 0 => res.f.bad = 0)
                                 /\ f' = [res.f EXCEPT !.bad = 0]
                                 /\ Mounted(res.ok) /\ Go(IF res.ok THEN "msg" ELSE "cmd")
  <1>1. PICK k \in Ks : \E res \in {mount(Start(k), drive_no, part_no)} :
                          /\ k > 0 => res.f.bad = 0
                          /\ Counts(k) /\ f' = [res.f EXCEPT !.bad = 0] /\ Mounted(res.ok) /\ Go(IF res.ok THEN "msg" ELSE "cmd")
    BY Zenon DEF MountIt, Handler, Counts, Start
  <1>2. PICK res \in {mount(Start(k), drive_no, part_no)} :
          /\ k > 0 => res.f.bad = 0
          /\ Counts(k) /\ f' = [res.f EXCEPT !.bad = 0] /\ Mounted(res.ok) /\ Go(IF res.ok THEN "msg" ELSE "cmd")
    BY <1>1
  <1>3. res = mount(Start(k), drive_no, part_no)
    BY <1>2
  <1> QED BY <1>2, <1>3

LEMMA DoMountSteps ==
    ASSUME NEW line, DoMount(line)
    PROVE  \E k \in Ks : \E res : /\ res = mount(Start(k), Arg(line, 3), Arg(line, 4))
                                 /\ Counts(k) /\ (k > 0 => res.f.bad = 0)
                                 /\ f' = [res.f EXCEPT !.bad = 0]
                                 /\ Mounted(res.ok)
  <1>1. PICK k \in Ks : \E res \in {mount(Start(k), Arg(line, 3), Arg(line, 4))} :
                          /\ k > 0 => res.f.bad = 0
                          /\ Counts(k) /\ f' = [res.f EXCEPT !.bad = 0] /\ Mounted(res.ok)
    BY Zenon DEF DoMount, Handler, Counts, Start
  <1>2. PICK res \in {mount(Start(k), Arg(line, 3), Arg(line, 4))} :
          /\ k > 0 => res.f.bad = 0
          /\ Counts(k) /\ f' = [res.f EXCEPT !.bad = 0] /\ Mounted(res.ok)
    BY <1>1
  <1>3. res = mount(Start(k), Arg(line, 3), Arg(line, 4))
    BY <1>2
  <1> QED BY <1>2, <1>3

LEMMA HeaderSteps ==
    ASSUME ReadHeader
    PROVE  \E k \in (Ks \intersect {0, 1}) : \E res : /\ res = iread(LoadStart(k), HSZ)
                                 /\ Counts(k) /\ (k > 0 => res.f.bad = 0)
                                 /\ f' = [res.f EXCEPT !.bad = 0]
                                 /\ HeaderRead(res)
  <1>1. PICK k \in (Ks \intersect {0, 1}) : \E res \in {iread(LoadStart(k), HSZ)} :
                          /\ k > 0 => res.f.bad = 0
                          /\ Counts(k) /\ f' = [res.f EXCEPT !.bad = 0] /\ HeaderRead(res)
    BY Zenon DEF ReadHeader, HeaderRead, Loading, Counts, LoadStart
  <1>2. PICK res \in {iread(LoadStart(k), HSZ)} :
          /\ k > 0 => res.f.bad = 0
          /\ Counts(k) /\ f' = [res.f EXCEPT !.bad = 0] /\ HeaderRead(res)
    BY <1>1
  <1>3. res = iread(LoadStart(k), HSZ)
    BY <1>2
  <1> QED BY <1>2, <1>3

LEMMA BufferSteps ==
    ASSUME ReadBuffered
    PROVE  \E k \in (Ks \intersect {0, 1}) : \E res : /\ res = iread(LoadStart(k), todo)
                                 /\ Counts(k) /\ (k > 0 => res.f.bad = 0)
                                 /\ f' = [res.f EXCEPT !.bad = 0]
                                 /\ BufferRead(res)
  <1>1. PICK k \in (Ks \intersect {0, 1}) : \E res \in {iread(LoadStart(k), todo)} :
                          /\ k > 0 => res.f.bad = 0
                          /\ Counts(k) /\ f' = [res.f EXCEPT !.bad = 0] /\ BufferRead(res)
    BY Zenon DEF ReadBuffered, BufferRead, Loading, Counts, LoadStart
  <1>2. PICK res \in {iread(LoadStart(k), todo)} :
          /\ k > 0 => res.f.bad = 0
          /\ Counts(k) /\ f' = [res.f EXCEPT !.bad = 0] /\ BufferRead(res)
    BY <1>1
  <1>3. res = iread(LoadStart(k), todo)
    BY <1>2
  <1> QED BY <1>2, <1>3

LEMMA DirectSteps ==
    ASSUME ReadDirect, f.spos # f.epos
    PROVE  \E k \in (Ks \intersect {0, 1}) : \E res : /\ res = dev_read(Onwards(LoadStart(k)), bmap(LoadStart(k)), Zero)
                                 /\ Counts(k) /\ (k > 0 => res.f.bad = 0)
                                 /\ f' = [res.f EXCEPT !.bad = 0]
                                 /\ DirectRead(res)
  <1>1. PICK k \in (Ks \intersect {0, 1}) : \E res \in {dev_read(Onwards(LoadStart(k)), bmap(LoadStart(k)), Zero)} :
                          /\ k > 0 => res.f.bad = 0
                          /\ Counts(k) /\ f' = [res.f EXCEPT !.bad = 0] /\ DirectRead(res)
    BY Zenon DEF ReadDirect, DirectRead, Onwards, Loading, Counts, LoadStart
  <1>2. PICK res \in {dev_read(Onwards(LoadStart(k)), bmap(LoadStart(k)), Zero)} :
          /\ k > 0 => res.f.bad = 0
          /\ Counts(k) /\ f' = [res.f EXCEPT !.bad = 0] /\ DirectRead(res)
    BY <1>1
  <1>3. res = dev_read(Onwards(LoadStart(k)), bmap(LoadStart(k)), Zero)
    BY <1>2
  <1> QED BY <1>2, <1>3

(***************************************************************************)
(* Memory and the window.                                                  *)
(***************************************************************************)
LEMMA MseekFits ==
    ASSUME NEW addr \in Nat
    PROVE  mseek(addr) \in Window /\ mseek(addr).paddr = addr /\ mseek(addr).mleft \in 1..PSZ
  <1>1. PSZ \in Nat \ {0}
    BY CellsFit, DisksAssumption
  <1>2. addr % PSZ \in 0..(PSZ - 1)
    BY <1>1
  <1>3. PSZ - (addr % PSZ) \in 1..PSZ
    BY <1>1, <1>2
  <1> QED BY <1>1, <1>3 DEF mseek, Window

LEMMA CellsFits ==
    ASSUME NEW addr \in Nat, NEW s \in Seq(Nat)
    PROVE  /\ Cells(addr, s) \in Memory
           /\ DOMAIN Cells(addr, s) = addr..(addr + Len(s) - 1)
           /\ \A a \in addr..(addr + Len(s) - 1) :
                a - addr + 1 \in 1..Len(s) /\ Cells(addr, s)[a] = s[a - addr + 1]
  <1> DEFINE A == addr..(addr + Len(s) - 1)
  <1>1. Len(s) \in Nat /\ A \subseteq Nat
    OBVIOUS
  <1>2. \A a \in A : a - addr + 1 \in 1..Len(s) /\ s[a - addr + 1] \in Nat
    <2> SUFFICES ASSUME NEW a \in A PROVE a - addr + 1 \in 1..Len(s) /\ s[a - addr + 1] \in Nat
      OBVIOUS
    <2>1. a - addr + 1 \in 1..Len(s)
      BY <1>1
    <2> QED BY <2>1
  <1>3. Cells(addr, s) = [a \in A |-> s[a - addr + 1]]
    BY DEF Cells
  <1> HIDE DEF A
  <1>4. Cells(addr, s) \in [A -> Nat]
    BY <1>2, <1>3
  <1>5. Cells(addr, s) \in Memory
    BY <1>1, <1>4 DEF Memory
  <1> QED BY <1>2, <1>3, <1>5 DEF A

LEMMA MemoryDomain ==
    ASSUME NEW m \in Memory
    PROVE  DOMAIN m \subseteq Nat /\ m \in [DOMAIN m -> Nat]
  <1>1. PICK A \in SUBSET Nat : m \in [A -> Nat]
    BY DEF Memory
  <1> QED BY <1>1

LEMMA OverFits ==
    ASSUME NEW m \in Memory, NEW o \in Memory
    PROVE  /\ Over(m, o) \in Memory /\ DOMAIN Over(m, o) = DOMAIN m \cup DOMAIN o
           /\ \A a \in DOMAIN m : Over(m, o)[a] = m[a]
           /\ \A a \in DOMAIN o : a \notin DOMAIN m => Over(m, o)[a] = o[a]
  <1> DEFINE D == DOMAIN m \cup DOMAIN o
  <1>1. /\ DOMAIN m \subseteq Nat /\ m \in [DOMAIN m -> Nat]
        /\ DOMAIN o \subseteq Nat /\ o \in [DOMAIN o -> Nat]
    BY MemoryDomain
  <1>2. Over(m, o) = [a \in D |-> IF a \in DOMAIN m THEN m[a] ELSE o[a]]
    BY DEF Over
  <1>3. \A a \in D : (IF a \in DOMAIN m THEN m[a] ELSE o[a]) \in Nat
    BY <1>1
  <1>4. D \in SUBSET Nat
    BY <1>1
  <1>5. Over(m, o) \in [D -> Nat]
    <2> HIDE DEF D
    <2> QED BY <1>2, <1>3
  <1>6. Over(m, o) \in Memory
    <2> HIDE DEF D
    <2> QED BY <1>4, <1>5 DEF Memory
  <1> QED BY <1>2, <1>6

LEMMA SameMemory ==
    ASSUME NEW m \in Memory, NEW o \in Memory, DOMAIN m = DOMAIN o,
           \A a \in DOMAIN m : m[a] = o[a]
    PROVE  m = o
  <1>1. m \in [DOMAIN m -> Nat] /\ o \in [DOMAIN m -> Nat]
    BY MemoryDomain
  <1> QED BY <1>1

\* r is m over o.
IsOver(m, o, r) ==
    /\ DOMAIN r = DOMAIN m \cup DOMAIN o
    /\ \A a \in DOMAIN m : r[a] = m[a]
    /\ \A a \in DOMAIN o : a \notin DOMAIN m => r[a] = o[a]

LEMMA OverIs ==
    ASSUME NEW m \in Memory, NEW o \in Memory
    PROVE  \E r \in Memory : r = Over(m, o) /\ IsOver(m, o, r)
  <1>1. /\ Over(m, o) \in Memory /\ DOMAIN Over(m, o) = DOMAIN m \cup DOMAIN o
        /\ \A a \in DOMAIN m : Over(m, o)[a] = m[a]
        /\ \A a \in DOMAIN o : a \notin DOMAIN m => Over(m, o)[a] = o[a]
    BY OverFits
  <1>2. IsOver(m, o, Over(m, o))
    BY <1>1 DEF IsOver
  <1> QED BY <1>1, <1>2

\* Two parts over a memory, one after the other, are their union over it.
Joins(p, q, r) ==
    /\ DOMAIN r = DOMAIN p \cup DOMAIN q /\ DOMAIN p \cap DOMAIN q = {}
    /\ \A a \in DOMAIN p : r[a] = p[a]
    /\ \A a \in DOMAIN q : r[a] = q[a]

LEMMA OverJoin ==
    ASSUME NEW m \in Memory, NEW p \in Memory, NEW q \in Memory, NEW r \in Memory,
           Joins(p, q, r)
    PROVE  Over(q, Over(p, m)) = Over(r, m)
  <1> USE DEF Joins
  <1>1. PICK pm \in Memory : pm = Over(p, m) /\ IsOver(p, m, pm)
    BY OverIs
  <1>2. /\ DOMAIN pm = DOMAIN p \cup DOMAIN m
        /\ \A a \in DOMAIN p : pm[a] = p[a]
        /\ \A a \in DOMAIN m : a \notin DOMAIN p => pm[a] = m[a]
    BY <1>1 DEF IsOver
  <1>3. PICK l \in Memory : l = Over(q, pm) /\ IsOver(q, pm, l)
    BY OverIs
  <1>4. /\ DOMAIN l = DOMAIN q \cup DOMAIN pm
        /\ \A a \in DOMAIN q : l[a] = q[a]
        /\ \A a \in DOMAIN pm : a \notin DOMAIN q => l[a] = pm[a]
    BY <1>3 DEF IsOver
  <1>5. PICK o \in Memory : o = Over(r, m) /\ IsOver(r, m, o)
    BY OverIs
  <1>6. /\ DOMAIN o = DOMAIN r \cup DOMAIN m
        /\ \A a \in DOMAIN r : o[a] = r[a]
        /\ \A a \in DOMAIN m : a \notin DOMAIN r => o[a] = m[a]
    BY <1>5 DEF IsOver
  <1>7. DOMAIN l = DOMAIN o
    BY <1>2, <1>4, <1>6
  <1>8. ASSUME NEW a \in DOMAIN l PROVE l[a] = o[a]
    <2>1. CASE a \in DOMAIN q
      BY <1>4, <1>6, <2>1
    <2>2. CASE a \in DOMAIN p
      BY <1>2, <1>4, <1>6, <2>2
    <2>3. CASE a \notin DOMAIN q /\ a \notin DOMAIN p
      <3>1. a \in DOMAIN m /\ a \in DOMAIN pm /\ a \notin DOMAIN r
        BY <1>2, <1>4, <1>8, <2>3
      <3>2. l[a] = pm[a] /\ pm[a] = m[a] /\ o[a] = m[a]
        BY <1>2, <1>4, <1>6, <2>3, <3>1
      <3> QED BY <3>2
    <2> QED BY <2>1, <2>2, <2>3
  <1>9. l = o
    BY <1>7, <1>8, SameMemory
  <1> QED BY <1>1, <1>3, <1>5, <1>9

\* Cells written behind cells are both written.
LEMMA OverMore ==
    ASSUME NEW addr \in Nat, NEW s \in Seq(Nat), NEW t \in Seq(Nat), NEW m \in Memory
    PROVE  Over(Cells(addr + Len(s), t), Over(Cells(addr, s), m)) = Over(Cells(addr, s \o t), m)
  <1>1. PICK n \in Nat : n = Len(s)
    OBVIOUS
  <1>2. PICK c \in Nat : c = addr + n
    OBVIOUS
  <1>3. Len(t) \in Nat /\ s \o t \in Seq(Nat) /\ Len(s \o t) = n + Len(t)
    BY <1>1
  <1>4. \A j \in 1..(n + Len(t)) : (s \o t)[j] = IF j <= n THEN s[j] ELSE t[j - n]
    BY <1>1
  <1>5. PICK p \in Memory : p = Cells(addr, s)
    BY CellsFits
  <1>6. DOMAIN p = addr..(addr + n - 1) /\ \A a \in addr..(addr + n - 1) : p[a] = s[a - addr + 1]
    BY <1>1, <1>5, CellsFits
  <1>7. PICK q \in Memory : q = Cells(c, t)
    BY CellsFits
  <1>8. DOMAIN q = c..(c + Len(t) - 1) /\ \A a \in c..(c + Len(t) - 1) : q[a] = t[a - c + 1]
    BY <1>7, CellsFits
  <1>9. PICK u \in Seq(Nat) : u = s \o t
    BY <1>3
  <1>10. PICK r \in Memory : r = Cells(addr, u)
    BY CellsFits
  <1>11. /\ DOMAIN r = addr..(addr + (n + Len(t)) - 1)
         /\ \A a \in addr..(addr + (n + Len(t)) - 1) : r[a] = u[a - addr + 1]
    BY <1>3, <1>9, <1>10, CellsFits
  <1>12. DOMAIN r = DOMAIN p \cup DOMAIN q /\ DOMAIN p \cap DOMAIN q = {}
    BY <1>2, <1>3, <1>6, <1>8, <1>11
  <1>13. ASSUME NEW a \in DOMAIN p PROVE r[a] = p[a]
    <2>1. a - addr + 1 \in 1..(n + Len(t)) /\ a - addr + 1 <= n /\ a \in addr..(addr + (n + Len(t)) - 1)
      BY <1>3, <1>6
    <2>2. u[a - addr + 1] = s[a - addr + 1]
      BY <1>4, <1>9, <2>1
    <2> QED BY <1>6, <1>11, <2>1, <2>2
  <1>14. ASSUME NEW a \in DOMAIN q PROVE r[a] = q[a]
    <2>1. a \in c..(c + Len(t) - 1)
      BY <1>8
    <2>2. /\ a - addr + 1 \in 1..(n + Len(t)) /\ ~(a - addr + 1 <= n)
          /\ a \in addr..(addr + (n + Len(t)) - 1) /\ (a - addr + 1) - n = a - c + 1
      <3>1. Len(t) \in Nat
        BY <1>3
      <3>2. a \in Int /\ c <= a /\ a <= c + Len(t) - 1
        BY <2>1, <3>1
      <3>3. a - addr + 1 \in 1..(n + Len(t)) /\ ~(a - addr + 1 <= n)
        BY <1>2, <3>1, <3>2
      <3>4. a \in addr..(addr + (n + Len(t)) - 1) /\ (a - addr + 1) - n = a - c + 1
        BY <1>2, <3>1, <3>2
      <3> QED BY <3>3, <3>4
    <2>3. u[a - addr + 1] = t[a - c + 1]
      BY <1>4, <1>9, <2>2
    <2>4. r[a] = u[a - addr + 1]
      BY <1>11, <2>2
    <2>5. q[a] = t[a - c + 1]
      BY <1>8, <2>1
    <2> QED BY <2>3, <2>4, <2>5
  <1>15. Over(q, Over(p, m)) = Over(r, m)
    <2>1. Joins(p, q, r)
      BY <1>12, <1>13, <1>14 DEF Joins
    <2> QED BY <2>1, OverJoin
  <1> QED BY <1>1, <1>2, <1>5, <1>7, <1>9, <1>10, <1>15

(***************************************************************************)
(* mwrite: whatever the pages, the cells are over the memory.              *)
(***************************************************************************)
LEMMA CutFacts ==
    ASSUME NEW s \in Seq(Nat), NEW d \in 0..Len(s), NEW n \in 0..(Len(s) - d)
    PROVE  /\ SubSeq(s, 1, d) \in Seq(Nat) /\ Len(SubSeq(s, 1, d)) = d
           /\ SubSeq(s, d + 1, d + n) \in Seq(Nat) /\ Len(SubSeq(s, d + 1, d + n)) = n
           /\ SubSeq(s, d + 1, Len(s)) \in Seq(Nat) /\ Len(SubSeq(s, d + 1, Len(s))) = Len(s) - d
           /\ SubSeq(SubSeq(s, d + 1, Len(s)), 1, n) = SubSeq(s, d + 1, d + n)
           /\ SubSeq(SubSeq(s, d + 1, Len(s)), n + 1, Len(s) - d) = SubSeq(s, d + n + 1, Len(s))
           /\ SubSeq(s, 1, d) \o SubSeq(s, d + 1, d + n) = SubSeq(s, 1, d + n)
  <1>1. Len(s) \in Nat /\ d \in Nat /\ n \in Nat /\ d + n <= Len(s)
    OBVIOUS
  <1>2. SubSeq(s, 1, d) \in Seq(Nat) /\ Len(SubSeq(s, 1, d)) = d
    BY <1>1
  <1>3. SubSeq(s, d + 1, d + n) \in Seq(Nat) /\ Len(SubSeq(s, d + 1, d + n)) = n
    BY <1>1
  <1>4. SubSeq(s, d + 1, Len(s)) \in Seq(Nat) /\ Len(SubSeq(s, d + 1, Len(s))) = Len(s) - d
    BY <1>1
  <1>5. SubSeq(SubSeq(s, d + 1, Len(s)), 1, n) = SubSeq(s, d + 1, d + n)
    BY <1>1, <1>3, <1>4
  <1>6. SubSeq(SubSeq(s, d + 1, Len(s)), n + 1, Len(s) - d) = SubSeq(s, d + n + 1, Len(s))
    BY <1>1, <1>4
  <1>7. SubSeq(s, 1, d) \o SubSeq(s, d + 1, d + n) = SubSeq(s, 1, d + n)
    BY <1>1, <1>2, <1>3
  <1> QED BY <1>2, <1>3, <1>4, <1>5, <1>6, <1>7

LEMMA WholeCut ==
    ASSUME NEW s \in Seq(Nat)
    PROVE  /\ SubSeq(s, 1, Len(s)) = s /\ SubSeq(s, 1, 0) = <<>>
           /\ SubSeq(s, Len(s) + 1, Len(s)) = <<>>
  OBVIOUS

LEMMA OverNothing ==
    ASSUME NEW m \in Memory, NEW addr \in Nat
    PROVE  Over(Cells(addr, <<>>), m) = m
  <1>1. <<>> \in Seq(Nat) /\ Len(<<>>) = 0
    OBVIOUS
  <1>2. Cells(addr, <<>>) \in Memory /\ DOMAIN Cells(addr, <<>>) = addr..(addr + 0 - 1)
    BY <1>1, CellsFits
  <1>3. PICK r \in Memory : r = Over(Cells(addr, <<>>), m) /\ IsOver(Cells(addr, <<>>), m, r)
    BY <1>2, OverIs
  <1>4. addr..(addr + 0 - 1) = {}
    OBVIOUS
  <1>5. DOMAIN r = DOMAIN m /\ \A a \in DOMAIN m : r[a] = m[a]
    BY <1>2, <1>3, <1>4 DEF IsOver
  <1>6. r = m
    BY <1>5, SameMemory
  <1> QED BY <1>3, <1>6

Writing == [mem : Memory, win : Window, s : Seq(Nat)]

LEMMA PartFits ==
    ASSUME NEW m \in Memory, NEW w \in Window, NEW s \in Seq(Nat), s # <<>>
    PROVE  \E n \in 1..Len(s) : \E v \in Window :
             /\ v.paddr = w.paddr + n
             /\ MwritePart([mem |-> m, win |-> w, s |-> s]) =
                  [mem |-> Over(Cells(w.paddr, SubSeq(s, 1, n)), m), win |-> v,
                   s |-> SubSeq(s, n + 1, Len(s))]
  <1> DEFINE u == IF w.mleft = 0 THEN mseek(w.paddr) ELSE w
             n == Least(u.mleft, Len(s))
             v == Advance(u, n)
  <1>1. w.paddr \in Nat /\ w.mleft \in 0..PSZ /\ PSZ \in Nat
    BY CellsFit DEF Window
  <1>2. u \in Window /\ u.paddr = w.paddr /\ u.mleft \in 1..PSZ
    BY <1>1, MseekFits
  <1> HIDE DEF u
  <1>3. Len(s) \in Nat \ {0}
    BY EmptySeq
  <1>4. n \in 1..Len(s) /\ n <= u.mleft
    BY <1>1, <1>2, <1>3 DEF Least
  <1>5. MwritePart([mem |-> m, win |-> w, s |-> s]) =
          [mem |-> Over(Cells(u.paddr, SubSeq(s, 1, n)), m), win |-> v,
           s |-> SubSeq(s, n + 1, Len(s))]
    BY DEF MwritePart, u
  <1> HIDE DEF n
  <1>6. v = [paddr |-> u.paddr + n, mleft |-> u.mleft - n]
    BY DEF Advance
  <1>7. u.paddr + n \in Nat /\ u.mleft - n \in 0..PSZ
    BY <1>1, <1>2, <1>3, <1>4
  <1> HIDE DEF v
  <1>8. v \in Window /\ v.paddr = w.paddr + n
    BY <1>2, <1>6, <1>7 DEF Window
  <1> QED BY <1>2, <1>4, <1>5, <1>8

LEMMA MoreFits ==
    ASSUME NEW acc \in Writing
    PROVE  /\ More(acc) \in Writing
           /\ acc.s = <<>> => More(acc) = acc
           /\ acc.s # <<>> => \E n \in 1..Len(acc.s) :
                /\ More(acc).mem = Over(Cells(acc.win.paddr, SubSeq(acc.s, 1, n)), acc.mem)
                /\ More(acc).win.paddr = acc.win.paddr + n
                /\ More(acc).s = SubSeq(acc.s, n + 1, Len(acc.s))
  <1>1. /\ acc.mem \in Memory /\ acc.win \in Window /\ acc.s \in Seq(Nat)
        /\ acc = [mem |-> acc.mem, win |-> acc.win, s |-> acc.s]
    BY DEF Writing
  <1>2. CASE acc.s = <<>>
    BY <1>2 DEF More
  <1>3. CASE acc.s # <<>>
    <2>1. PICK n \in 1..Len(acc.s) : \E v \in Window :
             /\ v.paddr = acc.win.paddr + n
             /\ MwritePart([mem |-> acc.mem, win |-> acc.win, s |-> acc.s]) =
                  [mem |-> Over(Cells(acc.win.paddr, SubSeq(acc.s, 1, n)), acc.mem), win |-> v,
                   s |-> SubSeq(acc.s, n + 1, Len(acc.s))]
      BY <1>1, <1>3, PartFits
    <2>2. PICK v \in Window :
             /\ v.paddr = acc.win.paddr + n
             /\ MwritePart([mem |-> acc.mem, win |-> acc.win, s |-> acc.s]) =
                  [mem |-> Over(Cells(acc.win.paddr, SubSeq(acc.s, 1, n)), acc.mem), win |-> v,
                   s |-> SubSeq(acc.s, n + 1, Len(acc.s))]
      BY <2>1
    <2> DEFINE c == Cells(acc.win.paddr, SubSeq(acc.s, 1, n))
               t == SubSeq(acc.s, n + 1, Len(acc.s))
    <2>3. More(acc) = MwritePart(acc)
      BY <1>3 DEF More
    <2>4. MwritePart(acc) = MwritePart([mem |-> acc.mem, win |-> acc.win, s |-> acc.s])
      BY <1>1
    <2>5. More(acc) = [mem |-> Over(c, acc.mem), win |-> v, s |-> t]
      BY <2>2, <2>3, <2>4
    <2>6. acc.win.paddr \in Nat
      BY <1>1 DEF Window
    <2>7. SubSeq(acc.s, 1, n) \in Seq(Nat) /\ t \in Seq(Nat)
      BY <1>1
    <2>8. c \in Memory
      BY <2>6, <2>7, CellsFits
    <2> HIDE DEF c, t
    <2>9. Over(c, acc.mem) \in Memory
      BY <1>1, <2>8, OverFits
    <2>10. More(acc) \in Writing
      BY <2>5, <2>7, <2>9 DEF Writing
    <2>11. /\ More(acc).mem = Over(c, acc.mem) /\ More(acc).win.paddr = acc.win.paddr + n
           /\ More(acc).s = t
      BY <2>2, <2>5
    <2> QED BY <1>3, <2>10, <2>11 DEF c, t
  <1> QED BY <1>2, <1>3

WriteTo(m, w, s) ==
    CHOOSE u : u = [k \in 0..Len(s) |-> IF k = 0 THEN [mem |-> m, win |-> w, s |-> s]
                                        ELSE More(u[k - 1])]

LEMMA WriteSteps ==
    ASSUME NEW m \in Memory, NEW w \in Window, NEW s \in Seq(Nat)
    PROVE  /\ mwrite(m, w, s) = WriteTo(m, w, s)[Len(s)]
           /\ WriteTo(m, w, s)[0] = [mem |-> m, win |-> w, s |-> s]
           /\ \A k \in 1..Len(s) : WriteTo(m, w, s)[k] = More(WriteTo(m, w, s)[k - 1])
  <1> DEFINE n == Len(s)
             b == [mem |-> m, win |-> w, s |-> s]
             G == [p \in Writing \X (1..n) |-> More(p[1])]
             Is(u) == u = [k \in 0..n |-> IF k = 0 THEN b ELSE More(u[k - 1])]
  <1>1. n \in Nat /\ b \in Writing
    BY DEF Writing
  <1>2. \A r \in Writing : More(r) \in Writing
    BY MoreFits
  <1>3. PICK a \in [0..n -> Writing] : a[0] = b /\ \A k \in 1..n : a[k] = G[<<a[k - 1], k>>]
    <2>1. G \in [Writing \X (1..n) -> Writing]
      BY <1>2
    <2> HIDE DEF G, n, b
    <2>2. Recurses(Writing, b, n, G)
      BY <1>1, <2>1, Recursive
    <2> QED BY <2>2 DEF Recurses
  <1>4. \A k \in 1..n : a[k] = More(a[k - 1])
    <2> SUFFICES ASSUME NEW k \in 1..n PROVE a[k] = More(a[k - 1])
      OBVIOUS
    <2>1. <<a[k - 1], k>> \in Writing \X (1..n)
      BY <1>1, <1>3
    <2> QED BY <1>3, <2>1
  <1> HIDE DEF b
  <1>5. Is(a)
    BY <1>1, <1>3, <1>4
  <1> DEFINE c == CHOOSE u : Is(u)
  <1>6. Is(c)
    <2> HIDE DEF Is
    <2> QED BY <1>5
  <1>7. WriteTo(m, w, s) = c /\ mwrite(m, w, s) = c[n]
    BY DEF WriteTo, mwrite, b
  <1> HIDE DEF c, G
  <1>8. c[0] = b /\ \A k \in 1..n : c[k] = More(c[k - 1])
    <2>1. n \in Nat /\ Is(c)
      BY <1>1, <1>6
    <2> HIDE DEF n
    <2>2. 0 \in 0..n /\ \A k \in 1..n : k \in 0..n /\ k # 0
      BY <2>1
    <2> QED BY <2>1, <2>2
  <1> QED BY <1>7, <1>8 DEF b

\* After k parts, at least k cells are over the memory.
Written(m, w, s, acc, d) ==
    /\ acc.s = SubSeq(s, d + 1, Len(s)) /\ acc.win.paddr = w.paddr + d
    /\ acc.mem = Over(Cells(w.paddr, SubSeq(s, 1, d)), m)
WrittenTo(m, w, s, acc, k) == acc \in Writing /\ \E d \in k..Len(s) : Written(m, w, s, acc, d)

LEMMA WrittenOn ==
    ASSUME NEW m \in Memory, NEW w \in Window, NEW s \in Seq(Nat), NEW acc, NEW k \in 1..Len(s),
           WrittenTo(m, w, s, acc, k - 1)
    PROVE  WrittenTo(m, w, s, More(acc), k)
  <1>1. acc \in Writing
    BY DEF WrittenTo
  <1>2. PICK d \in (k - 1)..Len(s) : Written(m, w, s, acc, d)
    BY DEF WrittenTo
  <1>3. d \in 0..Len(s) /\ w.paddr \in Nat /\ Len(s) \in Nat
    BY DEF Window
  <1>4. More(acc) \in Writing
    BY <1>1, MoreFits
  <1>5. Len(acc.s) = Len(s) - d /\ acc.s = SubSeq(s, d + 1, Len(s))
    <2>1. 0 \in 0..(Len(s) - d)
      BY <1>3
    <2> QED BY <1>2, <1>3, <2>1, CutFacts DEF Written
  <1>6. CASE acc.s = <<>>
    <2>1. d = Len(s) /\ d \in k..Len(s)
      <3>1. Len(<<>>) = 0
        OBVIOUS
      <3> QED BY <1>3, <1>5, <1>6, <3>1
    <2>2. More(acc) = acc
      BY <1>1, <1>6, MoreFits
    <2> QED BY <1>2, <1>4, <2>1, <2>2 DEF WrittenTo
  <1>7. CASE acc.s # <<>>
    <2>1. PICK n \in 1..Len(acc.s) :
                /\ More(acc).mem = Over(Cells(acc.win.paddr, SubSeq(acc.s, 1, n)), acc.mem)
                /\ More(acc).win.paddr = acc.win.paddr + n
                /\ More(acc).s = SubSeq(acc.s, n + 1, Len(acc.s))
      BY <1>1, <1>7, MoreFits
    <2>2. n \in 0..(Len(s) - d) /\ d + n \in k..Len(s) /\ n \in Nat
      BY <1>3, <1>5, <2>1
    <2> DEFINE t1 == SubSeq(s, 1, d)
               t2 == SubSeq(s, d + 1, d + n)
    <2>3. /\ t1 \in Seq(Nat) /\ Len(t1) = d /\ t2 \in Seq(Nat)
          /\ SubSeq(acc.s, 1, n) = t2
          /\ SubSeq(acc.s, n + 1, Len(acc.s)) = SubSeq(s, d + n + 1, Len(s))
          /\ t1 \o t2 = SubSeq(s, 1, d + n)
      <3>1. /\ t1 \in Seq(Nat) /\ Len(t1) = d /\ t2 \in Seq(Nat)
            /\ SubSeq(SubSeq(s, d + 1, Len(s)), 1, n) = t2
            /\ SubSeq(SubSeq(s, d + 1, Len(s)), n + 1, Len(s) - d) = SubSeq(s, d + n + 1, Len(s))
            /\ t1 \o t2 = SubSeq(s, 1, d + n)
        BY <1>3, <2>2, CutFacts
      <3> HIDE DEF t1, t2
      <3>2. SubSeq(acc.s, 1, n) = SubSeq(SubSeq(s, d + 1, Len(s)), 1, n)
        BY <1>5
      <3>3. SubSeq(acc.s, n + 1, Len(acc.s)) = SubSeq(SubSeq(s, d + 1, Len(s)), n + 1, Len(s) - d)
        BY Zenon, <1>5
      <3> QED BY <3>1, <3>2, <3>3
    <2> HIDE DEF t1, t2
    <2>4. Over(Cells(w.paddr + d, t2), Over(Cells(w.paddr, t1), m))
            = Over(Cells(w.paddr, t1 \o t2), m)
      BY <1>3, <2>3, OverMore
    <2>5. acc.win.paddr = w.paddr + d /\ acc.mem = Over(Cells(w.paddr, t1), m)
      BY <1>2 DEF Written, t1
    <2>6. More(acc).mem = Over(Cells(w.paddr, SubSeq(s, 1, d + n)), m)
      BY <2>1, <2>3, <2>4, <2>5
    <2>7. More(acc).win.paddr = w.paddr + (d + n)
      BY <1>3, <2>1, <2>2, <2>5
    <2>8. Written(m, w, s, More(acc), d + n)
      BY <2>1, <2>3, <2>6, <2>7 DEF Written
    <2> QED BY <1>4, <2>2, <2>8 DEF WrittenTo
  <1> QED BY <1>6, <1>7

LEMMA MwriteFacts ==
    ASSUME NEW m \in Memory, NEW w \in Window, NEW s \in Seq(Nat)
    PROVE  LET r == mwrite(m, w, s)
           IN  /\ r.mem \in Memory /\ r.mem = Over(Cells(w.paddr, s), m)
               /\ r.win \in Window /\ r.win.paddr = w.paddr + Len(s)
  <1> DEFINE n == Len(s)
             u == WriteTo(m, w, s)
             T == {k \in 0..n : WrittenTo(m, w, s, u[k], k)}
             r == mwrite(m, w, s)
  <1>1. n \in Nat /\ w.paddr \in Nat
    BY DEF Window
  <1>2. /\ r = u[n] /\ u[0] = [mem |-> m, win |-> w, s |-> s]
        /\ \A k \in 1..n : u[k] = More(u[k - 1])
    BY WriteSteps
  <1>3. SubSeq(s, 1, n) = s /\ SubSeq(s, 1, 0) = <<>>
    BY WholeCut
  <1> HIDE DEF u, r
  <1>4. 0 \in T
    <2>1. u[0] \in Writing
      BY <1>2 DEF Writing
    <2>2. u[0].s = SubSeq(s, 0 + 1, n) /\ u[0].win.paddr = w.paddr + 0
      BY <1>1, <1>2, <1>3
    <2>3. u[0].mem = Over(Cells(w.paddr, SubSeq(s, 1, 0)), m)
      <3>1. u[0].mem = m
        BY <1>2
      <3>2. Over(Cells(w.paddr, <<>>), m) = m
        BY <1>1, OverNothing
      <3> QED BY Zenon, <1>3, <3>1, <3>2
    <2>4. Written(m, w, s, u[0], 0)
      BY <2>2, <2>3 DEF Written
    <2>5. 0 \in 0..n
      BY <1>1
    <2> QED BY <2>1, <2>4, <2>5 DEF WrittenTo
  <1>5. ASSUME NEW k \in 1..n, k - 1 \in T PROVE k \in T
    <2>1. WrittenTo(m, w, s, u[k - 1], k - 1)
      BY <1>5
    <2>2. WrittenTo(m, w, s, u[k], k)
      BY <1>2, <2>1, WrittenOn
    <2> QED BY <1>1, <2>2
  <1> HIDE DEF T
  <1>6. n \in T
    <2>1. \A k \in 0..n : k \in T
      BY <1>1, <1>4, <1>5, Upward
    <2> QED BY <1>1, <2>1
  <1>7. WrittenTo(m, w, s, r, n)
    BY <1>2, <1>6 DEF T
  <1>8. PICK d \in n..n : Written(m, w, s, r, d)
    BY <1>7 DEF WrittenTo
  <1>9. d = n
    BY <1>1
  <1>10. r.win.paddr = w.paddr + n /\ r.mem = Over(Cells(w.paddr, s), m)
    BY <1>3, <1>8, <1>9 DEF Written
  <1>11. r.mem \in Memory /\ r.win \in Window
    BY <1>7 DEF WrittenTo, Writing
  <1> QED BY <1>10, <1>11 DEF r

(***************************************************************************)
(* The cells of a file, block by block.                                    *)
(***************************************************************************)
LEMMA DivMod ==
    ASSUME NEW b \in Nat \ {0}, NEW q \in Nat, NEW r \in 0..(b - 1)
    PROVE  (q * b + r) \div b = q /\ (q * b + r) % b = r
  <1> DEFINE n == q * b + r
             d == n \div b
             e == n % b
  <1>1. n \in Nat
    BY SMTT(30)
  <1>2. d \in Nat /\ e \in 0..(b - 1) /\ n = d * b + e
    BY <1>1, SMTT(30)
  <1> HIDE DEF d, e
  <1>3. q * b + r = d * b + e
    BY <1>2
  <1>4. ~(q < d)
    BY <1>2, <1>3, SMTT(30)
  <1>5. ~(d < q)
    BY <1>2, <1>3, SMTT(30)
  <1>6. d = q
    BY <1>2, <1>4, <1>5
  <1>7. e = r
    BY <1>2, <1>3, <1>6, SMTT(30)
  <1> QED BY <1>6, <1>7 DEF d, e

LEMMA CellPlace ==
    ASSUME NEW N \in Nat, NEW k \in 1..N, NEW j \in 1..BSZ
    PROVE  /\ (k - 1) * BSZ + j \in 1..(N * BSZ)
           /\ ((k - 1) * BSZ + j - 1) \div BSZ + 1 = k
           /\ (((k - 1) * BSZ + j - 1) % BSZ) + 1 = j
  <1>1. BSZ \in Nat \ {0} /\ k - 1 \in Nat /\ j - 1 \in 0..(BSZ - 1) /\ N - k \in Nat
    BY DisksAssumption
  <1>2. PICK q \in Nat : q = k - 1
    BY <1>1
  <1>3. PICK p \in Nat : p = q * BSZ
    BY <1>1, SMTT(30)
  <1>4. (q * BSZ + (j - 1)) \div BSZ = q /\ (q * BSZ + (j - 1)) % BSZ = j - 1
    BY <1>1, DivMod
  <1>5. p + j - 1 = q * BSZ + (j - 1)
    BY <1>1, <1>3
  <1>6. p + j <= N * BSZ
    <2>1. PICK r \in Nat : r = N - k
      BY <1>1
    <2>2. N = q + 1 + r
      BY <1>1, <1>2, <2>1
    <2>3. N * BSZ = q * BSZ + BSZ + r * BSZ /\ r * BSZ \in Nat
      BY <1>1, <2>2, SMTT(30)
    <2> QED BY <1>1, <1>3, <2>3
  <1>7. N * BSZ \in Nat
    BY <1>1, SMTT(30)
  <1>8. p + j \in 1..(N * BSZ)
    BY <1>1, <1>3, <1>6, <1>7
  <1>9. (p + j - 1) \div BSZ = q /\ (p + j - 1) % BSZ = j - 1
    BY Zenon, <1>4, <1>5
  <1>10. q + 1 = k /\ (j - 1) + 1 = j
    BY <1>1, <1>2
  <1>11. (k - 1) * BSZ = p
    BY <1>2, <1>3
  <1> QED BY <1>8, <1>9, <1>10, <1>11

LEMMA BlockFits ==
    ASSUME NEW x \in FileState, x.drive \in DOMAIN Disks, NEW i, NEW k
    PROVE  BlockOf(x, i, k) \in BlockSet /\ BlockOf(x, i, k).bytes \in Sector
  <1>1. BlockOf(x, i, k) \in BlockSet
    BY BlocksFit DEF BlockOf, At
  <1> QED BY <1>1 DEF BlockSet

LEMMA CellsOf ==
    ASSUME NEW x \in FileState, x.drive \in DOMAIN Disks, NEW i \in Inode
    PROVE  /\ FileCells(x, i) \in Seq(Nat) /\ Len(FileCells(x, i)) = i.blocks * BSZ
           /\ i.blocks * BSZ \in Nat
           /\ \A k \in 1..i.blocks : \A j \in 1..BSZ :
                FileCells(x, i)[(k - 1) * BSZ + j] = BlockOf(x, i, k).bytes[j]
  <1>1. BSZ \in Nat \ {0} /\ i.blocks \in Nat
    BY DisksAssumption DEF Inode
  <1>2. PICK N \in Nat : N = i.blocks * BSZ
    BY <1>1, SMTT(30)
  <1> DEFINE c == FileCells(x, i)
  <1>3. c = [n \in 1..N |-> BlockOf(x, i, (n - 1) \div BSZ + 1).bytes[((n - 1) % BSZ) + 1]]
    BY <1>2 DEF FileCells
  <1> HIDE DEF c
  <1>4. ASSUME NEW n \in 1..N
        PROVE  BlockOf(x, i, (n - 1) \div BSZ + 1).bytes[((n - 1) % BSZ) + 1] \in Nat
    <2>1. ((n - 1) % BSZ) + 1 \in 1..BSZ
      BY <1>1
    <2>2. BlockOf(x, i, (n - 1) \div BSZ + 1).bytes \in Sector
      BY BlockFits
    <2>3. PICK s \in Seq(Nat) : s = BlockOf(x, i, (n - 1) \div BSZ + 1).bytes /\ Len(s) = BSZ
      BY <2>2 DEF Sector
    <2>4. s[((n - 1) % BSZ) + 1] \in Nat
      BY <2>1, <2>3
    <2> QED BY <2>3, <2>4
  <1>5. c \in [1..N -> Nat]
    BY <1>3, <1>4
  <1>6. c \in Seq(Nat) /\ Len(c) = N
    BY <1>5
  <1>7. ASSUME NEW k \in 1..i.blocks, NEW j \in 1..BSZ
        PROVE  c[(k - 1) * BSZ + j] = BlockOf(x, i, k).bytes[j]
    <2>1. PICK n \in 1..N : n = (k - 1) * BSZ + j
      BY <1>1, <1>2, CellPlace
    <2>2. (n - 1) \div BSZ + 1 = k /\ ((n - 1) % BSZ) + 1 = j
      BY <1>1, <2>1, CellPlace
    <2>3. c[n] = BlockOf(x, i, (n - 1) \div BSZ + 1).bytes[((n - 1) % BSZ) + 1]
      BY <1>3
    <2> QED BY Zenon, <2>1, <2>2, <2>3
  <1> QED BY <1>2, <1>6, <1>7 DEF c

IsPart(s, a, n, u) == u \in Seq(Nat) /\ Len(u) = n /\ \A j \in 1..n : u[j] = s[a + j]

LEMMA PartOf ==
    ASSUME NEW s \in Seq(Nat), NEW a \in Nat, NEW n \in Nat, a + n <= Len(s)
    PROVE  IsPart(s, a, n, SubSeq(s, a + 1, a + n))
  <1>1. SubSeq(s, a + 1, a + n) \in Seq(Nat) /\ Len(SubSeq(s, a + 1, a + n)) = n
    OBVIOUS
  <1>2. ASSUME NEW j \in 1..n PROVE SubSeq(s, a + 1, a + n)[j] = s[a + j]
    <2>1. PICK b \in Nat : b = a + 1 /\ b >= 1
      OBVIOUS
    <2>2. PICK e \in Nat : e = a + n /\ e <= Len(s)
      OBVIOUS
    <2>3. j \in 1..(e - b + 1) /\ b + j - 1 = a + j
      BY <2>1, <2>2
    <2>4. SubSeq(s, b, e)[j] = s[b + j - 1]
      <3>1. e \in b-1..Len(s) /\ b \in 1..(Len(s) + 1)
        BY <2>1, <2>2
      <3> QED BY <2>3, <3>1, SubSeqProperties
    <2> QED BY Zenon, <2>1, <2>2, <2>3, <2>4
  <1> QED BY <1>1, <1>2 DEF IsPart

LEMMA Slice ==
    ASSUME NEW x \in FileState, x.drive \in DOMAIN Disks, NEW i \in Inode,
           NEW k \in 1..i.blocks, NEW a \in Left, NEW n \in 0..(BSZ - a)
    PROVE  /\ SubSeq(BlockOf(x, i, k).bytes, a + 1, a + n)
                = SubSeq(FileCells(x, i), (k - 1) * BSZ + a + 1, (k - 1) * BSZ + a + n)
           /\ SubSeq(BlockOf(x, i, k).bytes, a + 1, a + n) \in Seq(Nat)
           /\ Len(SubSeq(BlockOf(x, i, k).bytes, a + 1, a + n)) = n
           /\ (k - 1) * BSZ + a + n <= Len(FileCells(x, i))
  <1>1. BSZ \in Nat \ {0} /\ i.blocks \in Nat /\ k - 1 \in Nat /\ a \in 0..BSZ /\ a \in Nat
    BY DisksAssumption DEF Inode, Left
  <1>2. PICK c \in Seq(Nat) :
          /\ c = FileCells(x, i) /\ Len(c) = i.blocks * BSZ
          /\ \A j \in 1..BSZ : c[(k - 1) * BSZ + j] = BlockOf(x, i, k).bytes[j]
    BY CellsOf
  <1>3. BlockOf(x, i, k).bytes \in Sector
    BY BlockFits
  <1>4. PICK s \in Seq(Nat) : s = BlockOf(x, i, k).bytes /\ Len(s) = BSZ
    BY <1>3 DEF Sector
  <1>5. PICK p \in Nat : p = (k - 1) * BSZ
    BY <1>1, SMTT(30)
  <1>6. PICK N \in Nat : N = i.blocks * BSZ
    BY <1>1, SMTT(30)
  <1>7. p + BSZ <= N
    <2>1. (k - 1) * BSZ + BSZ \in 1..(i.blocks * BSZ)
      <3>1. BSZ \in 1..BSZ
        BY <1>1
      <3> QED BY <1>1, <3>1, CellPlace
    <2> QED BY <1>5, <1>6, <2>1
  <1>8. \A j \in 1..BSZ : c[p + j] = s[j]
    BY <1>2, <1>4, <1>5
  <1>9. n \in Nat /\ a + n <= BSZ
    BY <1>1
  <1>10. PICK u \in Seq(Nat) : /\ u = SubSeq(s, a + 1, a + n) /\ Len(u) = n
                               /\ \A j \in 1..n : u[j] = s[a + j]
    <2>1. a + n <= Len(s)
      BY <1>4, <1>9
    <2>2. IsPart(s, a, n, SubSeq(s, a + 1, a + n))
      BY <1>1, <1>9, <2>1, PartOf
    <2> QED BY <2>2 DEF IsPart
  <1>11. PICK v \in Seq(Nat) : /\ v = SubSeq(c, p + a + 1, p + a + n) /\ Len(v) = n
                               /\ \A j \in 1..n : v[j] = c[p + a + j]
    <2>1. p + a \in Nat /\ p + a + n <= Len(c)
      BY <1>1, <1>2, <1>6, <1>7, <1>9
    <2>2. PICK e \in Nat : e = p + a /\ e + n <= Len(c)
      BY <2>1
    <2>3. IsPart(c, e, n, SubSeq(c, e + 1, e + n))
      BY <1>9, <2>2, PartOf
    <2>4. IsPart(c, p + a, n, SubSeq(c, p + a + 1, p + a + n))
      BY Zenon, <2>2, <2>3
    <2> QED BY <2>4 DEF IsPart
  <1>12. ASSUME NEW j \in 1..Len(u) PROVE u[j] = v[j]
    <2>1. j \in 1..n
      BY <1>10
    <2>2. a + j \in 1..BSZ /\ p + a + j = p + (a + j)
      BY <1>1, <1>9, <2>1
    <2>3. u[j] = s[a + j] /\ v[j] = c[p + a + j] /\ c[p + (a + j)] = s[a + j]
      BY <1>8, <1>10, <1>11, <2>1, <2>2
    <2> QED BY <2>2, <2>3
  <1>13. u = v
    BY <1>10, <1>11, <1>12, SeqEqual
  <1>14. SubSeq(BlockOf(x, i, k).bytes, a + 1, a + n) = u
    BY Zenon, <1>4, <1>10
  <1>15. SubSeq(FileCells(x, i), (k - 1) * BSZ + a + 1, (k - 1) * BSZ + a + n) = v
    BY Zenon, <1>2, <1>5, <1>11
  <1>16. p + a + n <= Len(c)
    BY <1>1, <1>2, <1>6, <1>7, <1>9
  <1>17. (k - 1) * BSZ + a + n <= Len(FileCells(x, i))
    BY Zenon, <1>2, <1>5, <1>16
  <1> QED BY Zenon, <1>10, <1>13, <1>14, <1>15, <1>17

(***************************************************************************)
(* iread: with no failure unseen, the next cells of the file.              *)
(***************************************************************************)
LEMMA PosFacts ==
    ASSUME NEW x \in FileState
    PROVE  /\ Pos(x) \in Int /\ x.spos * BSZ \in Nat /\ x.left \in 0..BSZ /\ BSZ \in Nat \ {0}
           /\ x.spos \in Nat /\ x.epos \in Nat
           /\ (x.spos - 1) * BSZ + (BSZ - x.left) = Pos(x)
           /\ x.spos > 0 => Pos(x) \in Nat
           /\ x.left = 0 => Pos(x) = x.spos * BSZ
  <1>1. BSZ \in Nat \ {0} /\ x.spos \in Nat /\ x.epos \in Nat /\ x.left \in 0..BSZ
    BY DisksAssumption DEF FileState, Left
  <1>2. PICK n \in Nat : n = x.spos * BSZ
    BY <1>1, SMTT(30)
  <1>3. (x.spos - 1) * BSZ = n - BSZ
    BY <1>1, <1>2, SMTT(30)
  <1>4. x.spos > 0 => n - BSZ \in Nat
    <2> SUFFICES ASSUME x.spos > 0 PROVE n - BSZ \in Nat
      OBVIOUS
    <2>1. PICK q \in Nat : q = x.spos - 1
      BY <1>1
    <2>2. q * BSZ \in Nat
      BY <1>1, <2>1, SMTT(30)
    <2> QED BY <1>3, <2>1, <2>2
  <1>5. Pos(x) = n - x.left
    BY <1>2 DEF Pos
  <1> QED BY <1>1, <1>2, <1>3, <1>4, <1>5

LEMMA TakenFits ==
    ASSUME NEW y \in FileState, NEW k \in 0..y.left
    PROVE  LET r == Taken(y, k)
           IN  /\ Keeps(y, r.f) /\ SameFile(y, r.f) /\ r.f.unseen = y.unseen
               /\ r.f.spos = y.spos /\ r.f.dbuf = y.dbuf /\ r.f.left = y.left - k
               /\ r.got = SubSeq(y.dbuf.bytes, (BSZ - y.left) + 1, (BSZ - y.left) + k)
               /\ r.got \in Seq(Nat) /\ Len(r.got) = k
  <1> DEFINE r == Taken(y, k)
             g == [y EXCEPT !.left = y.left - k]
             t == SubSeq(y.dbuf.bytes, (BSZ - y.left) + 1, (BSZ - y.left) + k)
  <1>1. y.left \in 0..BSZ /\ BSZ \in Nat \ {0}
    BY PosFacts
  <1>2. y.left - k \in Left /\ k \in Nat /\ BSZ - y.left \in Nat /\ (BSZ - y.left) + k <= BSZ
    BY <1>1 DEF Left
  <1>3. PICK d \in Left : d = y.left - k
    BY <1>2
  <1>4. r = [f |-> g, got |-> t]
    BY DEF Taken
  <1>5. g \in FileState
    <2>1. g = [y EXCEPT !.left = d]
      BY <1>3
    <2> HIDE DEF g
    <2> QED BY <2>1 DEF FileState
  <1>6. /\ g.drive = y.drive /\ g.part_offset = y.part_offset /\ g.spos = y.spos
        /\ g.dbuf = y.dbuf /\ g.i = y.i /\ g.idir = y.idir /\ g.epos = y.epos
        /\ g.left = y.left - k
    BY DEF FileState
  <1>7. g.unseen = y.unseen
    BY DEF FileState
  <1> HIDE DEF g
  <1>8. PICK s \in Seq(Nat) : s = y.dbuf.bytes /\ Len(s) = BSZ
    <2>1. y.dbuf.bytes \in Sector
      BY DEF FileState, BlockSet
    <2> QED BY <2>1 DEF Sector
  <1>9. IsPart(s, BSZ - y.left, k, t)
    BY <1>2, <1>8, PartOf
  <1>10. t \in Seq(Nat) /\ Len(t) = k
    BY <1>9 DEF IsPart
  <1> HIDE DEF t
  <1>11. Keeps(y, g) /\ SameFile(y, g)
    BY <1>5, <1>6, <1>7 DEF Keeps, SameFile
  <1>12. r.f = g /\ r.got = t
    BY <1>4
  <1> HIDE DEF r
  <1> QED BY <1>6, <1>7, <1>10, <1>11, <1>12 DEF t, r

LEMMA TakenOpen ==
    ASSUME NEW y \in FileState, NEW k \in 0..y.left, NEW i \in Inode, IsOpen(y, i), y.left > 0
    PROVE  LET r == Taken(y, k)
           IN  /\ IsOpen(r.f, i) /\ Pos(r.f) = Pos(y) + k
               /\ r.got = SubSeq(FileCells(y, i), Pos(y) + 1, Pos(y) + k)
               /\ Pos(y) + k <= Len(FileCells(y, i))
  <1> DEFINE r == Taken(y, k)
             g == r.f
  <1>1. /\ Keeps(y, g) /\ SameFile(y, g) /\ g.unseen = y.unseen
        /\ g.spos = y.spos /\ g.dbuf = y.dbuf /\ g.left = y.left - k
        /\ r.got = SubSeq(y.dbuf.bytes, (BSZ - y.left) + 1, (BSZ - y.left) + k)
    BY TakenFits
  <1> HIDE DEF r
  <1>2. g \in FileState
    BY <1>1 DEF Keeps
  <1>3. /\ Pos(y) \in Int /\ y.left \in 0..BSZ /\ BSZ \in Nat \ {0} /\ y.spos \in Nat
        /\ y.epos \in Nat /\ (y.spos - 1) * BSZ + (BSZ - y.left) = Pos(y)
        /\ y.spos * BSZ \in Nat
    BY PosFacts
  <1>4. Pos(g) = Pos(y) + k
    <2>1. PICK n \in Nat : n = y.spos * BSZ
      BY <1>3
    <2>2. Pos(g) = n - (y.left - k) /\ Pos(y) = n - y.left
      BY <1>1, <2>1 DEF Pos
    <2> QED BY <1>3, <2>2
  <1>5. /\ y.drive \in DOMAIN Disks /\ ~y.unseen /\ y.i = i /\ y.idir = At(y, i.ind).ptrs
        /\ y.epos = i.blocks /\ y.spos <= y.epos
        /\ y.spos > 0 /\ y.dbuf.bytes = BlockOf(y, i, y.spos).bytes
    BY DEF IsOpen
  <1>6. IsOpen(g, i)
    <2>1. At(g, i.ind) = At(y, i.ind) /\ BlockOf(g, i, g.spos) = BlockOf(y, i, g.spos)
      BY <1>1, SamePlace
    <2>2. g.drive = y.drive /\ g.i = y.i /\ g.idir = y.idir /\ g.epos = y.epos
      BY <1>1 DEF Keeps, SameFile
    <2> QED BY <1>1, <1>5, <2>1, <2>2 DEF IsOpen
  <1>7. y.spos \in 1..i.blocks
    BY <1>3, <1>5
  <1>8. PICK a \in Left : a = BSZ - y.left
    BY <1>3 DEF Left
  <1>9. k \in 0..(BSZ - a)
    BY <1>3, <1>8
  <1> DEFINE c == FileCells(y, i)
  <1>10. /\ SubSeq(BlockOf(y, i, y.spos).bytes, a + 1, a + k)
              = SubSeq(c, (y.spos - 1) * BSZ + a + 1, (y.spos - 1) * BSZ + a + k)
         /\ (y.spos - 1) * BSZ + a + k <= Len(c)
    BY <1>5, <1>7, <1>9, Slice
  <1> HIDE DEF c
  <1>11. (y.spos - 1) * BSZ + a = Pos(y)
    BY <1>3, <1>8
  <1>12. /\ SubSeq(BlockOf(y, i, y.spos).bytes, a + 1, a + k) = SubSeq(c, Pos(y) + 1, Pos(y) + k)
         /\ Pos(y) + k <= Len(c)
    BY Zenon, <1>10, <1>11
  <1>13. r.got = SubSeq(BlockOf(y, i, y.spos).bytes, a + 1, a + k)
    BY Zenon, <1>1, <1>5, <1>8
  <1>14. r.got = SubSeq(c, Pos(y) + 1, Pos(y) + k)
    BY Zenon, <1>12, <1>13
  <1> QED BY <1>4, <1>6, <1>12, <1>14 DEF c, r

LEMMA NextOpen ==
    ASSUME NEW x \in FileState, NEW i \in Inode, IsOpen(x, i), x.left = 0, x.spos # x.epos,
           ~NextBlock(x).unseen
    PROVE  IsOpen(NextBlock(x), i) /\ Pos(NextBlock(x)) = Pos(x)
  <1> DEFINE y == NextBlock(x)
  <1>1. /\ Keeps(x, y) /\ SameFile(x, y) /\ y.spos = x.spos + 1 /\ y.left = BSZ
        /\ ~x.unseen /\ y.dbuf = At(x, bmap(x))
    BY NextFacts
  <1>2. ~y.unseen
    OBVIOUS
  <1> HIDE DEF y
  <1>3. y \in FileState /\ y.drive = x.drive
    BY <1>1 DEF Keeps
  <1>4. /\ x.drive \in DOMAIN Disks /\ x.i = i /\ x.idir = At(x, i.ind).ptrs
        /\ x.epos = i.blocks /\ x.spos <= x.epos
    BY DEF IsOpen
  <1>5. x.spos \in Nat /\ x.epos \in Nat /\ BSZ \in Nat \ {0} /\ x.spos * BSZ \in Nat
    BY PosFacts
  <1>6. y.dbuf = BlockOf(x, i, x.spos + 1)
    BY <1>1, <1>4, BmapFollows
  <1>7. /\ At(y, i.ind) = At(x, i.ind)
        /\ BlockOf(y, i, x.spos + 1) = BlockOf(x, i, x.spos + 1)
    BY <1>1, SamePlace
  <1>8. /\ y.i = i /\ y.idir = At(y, i.ind).ptrs /\ y.epos = i.blocks
        /\ y.spos <= y.epos /\ y.spos > 0
    BY <1>1, <1>4, <1>5, <1>7 DEF SameFile
  <1>9. y.dbuf.bytes = BlockOf(y, i, y.spos).bytes
    BY Zenon, <1>1, <1>6, <1>7
  <1>10. IsOpen(y, i)
    BY <1>2, <1>3, <1>4, <1>8, <1>9 DEF IsOpen
  <1>11. Pos(y) = Pos(x)
    <2>1. Pos(y) = (x.spos + 1) * BSZ - BSZ
      BY <1>1 DEF Pos
    <2>2. Pos(x) = x.spos * BSZ - 0
      BY DEF Pos
    <2>3. (x.spos + 1) * BSZ = x.spos * BSZ + BSZ
      BY <1>5, SMTT(30)
    <2> QED BY <1>5, <2>1, <2>2, <2>3
  <1> QED BY <1>10, <1>11 DEF y

\* The cells iread can hand out at once.
Avail(x) == IF x.left = 0 THEN IF x.spos = x.epos THEN 0 ELSE BSZ ELSE x.left

LEMMA IreadFits ==
    ASSUME NEW x \in FileState, x.spos <= x.epos, NEW n \in Nat
    PROVE  LET r == iread(x, n)
           IN  /\ Keeps(x, r.f) /\ SameFile(x, r.f) /\ r.f.spos <= r.f.epos
               /\ r.got \in Seq(Nat) /\ Len(r.got) = Least(n, Avail(x))
  <1> DEFINE r == iread(x, n)
             b == NextBlock(x)
  <1>1. /\ BSZ \in Nat \ {0} /\ x.spos \in Nat /\ x.epos \in Nat /\ x.left \in 0..BSZ
    BY PosFacts
  <1>2. CASE x.left = 0 /\ x.spos = x.epos
    <2>1. r = [f |-> x, got |-> <<>>]
      BY <1>2 DEF iread
    <2>2. Keeps(x, x) /\ SameFile(x, x)
      BY DEF Keeps, SameFile, FileState
    <2>3. Least(n, Avail(x)) = 0
      BY <1>2 DEF Least, Avail
    <2> HIDE DEF r
    <2>4. r.f = x /\ r.got = <<>> /\ r.got \in Seq(Nat) /\ Len(r.got) = 0
      BY <2>1
    <2> QED BY <2>2, <2>3, <2>4 DEF r
  <1>3. ASSUME NEW y \in FileState, NEW v \in Nat, v = y.left, Keeps(x, y), SameFile(x, y),
               y.spos <= y.epos, r = FromBuffer(y, n), v = Avail(x)
        PROVE  /\ Keeps(x, r.f) /\ SameFile(x, r.f) /\ r.f.spos <= r.f.epos
               /\ r.got \in Seq(Nat) /\ Len(r.got) = Least(n, Avail(x))
    <2>1. PICK k \in 0..v : k = Least(n, v)
      BY DEF Least
    <2>2. r = Taken(y, k)
      BY <1>3, <2>1 DEF FromBuffer, Least
    <2>3. /\ Keeps(y, Taken(y, k).f) /\ SameFile(y, Taken(y, k).f)
          /\ Taken(y, k).f.spos = y.spos
          /\ Taken(y, k).got \in Seq(Nat) /\ Len(Taken(y, k).got) = k
      BY <1>3, <2>1, TakenFits
    <2> HIDE DEF r
    <2>4. Keeps(x, r.f)
      BY <1>3, <2>2, <2>3, KeepsOn
    <2>5. SameFile(x, r.f) /\ r.f.spos <= r.f.epos
      BY <1>3, <2>2, <2>3 DEF SameFile
    <2> QED BY <1>3, <2>1, <2>2, <2>3, <2>4, <2>5
  <1>4. CASE x.left = 0 /\ x.spos # x.epos
    <2>1. Keeps(x, b) /\ SameFile(x, b) /\ b.spos = x.spos + 1 /\ b.left = BSZ
      BY NextFacts
    <2>2. r = FromBuffer(b, n)
      BY <1>4 DEF iread
    <2> HIDE DEF b, r
    <2>3. b \in FileState /\ b.spos <= b.epos
      BY <1>1, <1>4, <2>1 DEF Keeps, SameFile
    <2>4. BSZ = Avail(x)
      BY <1>4 DEF Avail
    <2> QED BY <1>1, <1>3, <2>1, <2>2, <2>3, <2>4 DEF r
  <1>5. CASE x.left # 0
    <2>1. Keeps(x, x) /\ SameFile(x, x)
      BY DEF Keeps, SameFile, FileState
    <2>2. r = FromBuffer(x, n)
      BY <1>5 DEF iread
    <2> HIDE DEF r
    <2>3. x.left = Avail(x) /\ x.left \in Nat
      BY <1>1, <1>5 DEF Avail
    <2> QED BY <1>3, <2>1, <2>2, <2>3 DEF r
  <1> QED BY <1>2, <1>4, <1>5

LEMMA IreadFacts ==
    ASSUME NEW x \in FileState, NEW n \in Nat, NEW i \in Inode, IsOpen(x, i),
           ~iread(x, n).f.unseen
    PROVE  LET r == iread(x, n)
           IN  /\ IsOpen(r.f, i) /\ Pos(x) \in Nat /\ Pos(r.f) = Pos(x) + Len(r.got)
               /\ r.got = SubSeq(FileCells(x, i), Pos(x) + 1, Pos(x) + Len(r.got))
               /\ Pos(x) + Len(r.got) <= Len(FileCells(x, i))
               /\ Avail(x) = 0 => Pos(x) = Len(FileCells(x, i))
  <1> DEFINE r == iread(x, n)
             b == NextBlock(x)
             c == FileCells(x, i)
  <1>1. /\ BSZ \in Nat \ {0} /\ x.spos \in Nat /\ x.epos \in Nat /\ x.left \in 0..BSZ
        /\ x.spos > 0 => Pos(x) \in Nat
        /\ x.left = 0 => Pos(x) = x.spos * BSZ
        /\ x.spos * BSZ \in Nat
    BY PosFacts
  <1>2. /\ x.drive \in DOMAIN Disks /\ x.epos = i.blocks
        /\ x.left > 0 => x.spos > 0
    BY DEF IsOpen
  <1>3. Pos(x) \in Nat
    BY <1>1, <1>2
  <1>4. c \in Seq(Nat) /\ Len(c) = i.blocks * BSZ /\ Len(c) \in Nat
    BY <1>2, CellsOf
  <1>5. CASE x.left = 0 /\ x.spos = x.epos
    <2>1. r = [f |-> x, got |-> <<>>]
      BY <1>5 DEF iread
    <2>2. Pos(x) = Len(c)
      BY <1>1, <1>2, <1>4, <1>5
    <2> HIDE DEF r, c
    <2>3. r.f = x /\ r.got = <<>> /\ Len(r.got) = 0
      BY <2>1
    <2>4. SubSeq(c, Len(c) + 1, Len(c)) = <<>>
      BY <1>4, WholeCut
    <2>5. Pos(x) + Len(r.got) = Len(c) /\ Pos(x) + Len(r.got) = Pos(x)
      BY <1>3, <2>2, <2>3
    <2>6. r.got = SubSeq(c, Pos(x) + 1, Pos(x) + Len(r.got))
      BY Zenon, <2>2, <2>3, <2>4, <2>5
    <2> QED BY <1>3, <1>4, <2>2, <2>3, <2>5, <2>6 DEF r, c
  <1>6. ASSUME NEW y \in FileState, NEW v \in Nat, v = y.left, v > 0, v = Avail(x),
               IsOpen(y, i), Keeps(x, y), Pos(y) = Pos(x), r = FromBuffer(y, n)
        PROVE  /\ IsOpen(r.f, i) /\ Pos(r.f) = Pos(x) + Len(r.got)
               /\ r.got = SubSeq(c, Pos(x) + 1, Pos(x) + Len(r.got))
               /\ Pos(x) + Len(r.got) <= Len(c) /\ Avail(x) # 0
    <2>1. PICK k \in 0..v : k = Least(n, v)
      BY DEF Least
    <2>2. r = Taken(y, k)
      BY <1>6, <2>1 DEF FromBuffer, Least
    <2>3. Len(Taken(y, k).got) = k
      BY <1>6, <2>1, TakenFits
    <2>4. /\ IsOpen(Taken(y, k).f, i) /\ Pos(Taken(y, k).f) = Pos(y) + k
          /\ Taken(y, k).got = SubSeq(FileCells(y, i), Pos(y) + 1, Pos(y) + k)
          /\ Pos(y) + k <= Len(FileCells(y, i))
      BY <1>6, <2>1, TakenOpen
    <2>5. FileCells(y, i) = c
      BY <1>6, SamePlace
    <2> HIDE DEF r, c
    <2>6. Len(r.got) = k
      BY <2>2, <2>3
    <2>7. r.got = SubSeq(c, Pos(x) + 1, Pos(x) + k)
      BY Zenon, <1>6, <2>2, <2>4, <2>5
    <2>8. r.got = SubSeq(c, Pos(x) + 1, Pos(x) + Len(r.got))
      BY Zenon, <2>6, <2>7
    <2>9. IsOpen(r.f, i) /\ Pos(r.f) = Pos(x) + Len(r.got) /\ Pos(x) + Len(r.got) <= Len(c)
      BY Zenon, <1>6, <2>2, <2>4, <2>5, <2>6
    <2> QED BY <1>6, <2>8, <2>9
  <1>7. CASE x.left = 0 /\ x.spos # x.epos
    <2>1. r = FromBuffer(b, n)
      BY <1>7 DEF iread
    <2>2. Keeps(x, b) /\ b.left = BSZ
      BY NextFacts
    <2>3. b \in FileState
      BY <2>2 DEF Keeps
    <2>4. ~b.unseen
      <3>1. PICK k \in 0..BSZ : k = Least(n, BSZ)
        BY <1>1 DEF Least
      <3>2. r = Taken(b, k)
        BY <2>1, <2>2, <3>1 DEF FromBuffer, Least
      <3>3. Taken(b, k).f.unseen = b.unseen
        BY <2>2, <2>3, <3>1, TakenFits
      <3> QED BY <3>2, <3>3
    <2>5. IsOpen(b, i) /\ Pos(b) = Pos(x)
      BY <1>7, <2>4, NextOpen
    <2>6. BSZ = Avail(x)
      BY <1>7 DEF Avail
    <2> HIDE DEF b, r, c
    <2> QED BY <1>1, <1>3, <1>6, <2>1, <2>2, <2>3, <2>5, <2>6 DEF r, c
  <1>8. CASE x.left # 0
    <2>1. r = FromBuffer(x, n)
      BY <1>8 DEF iread
    <2>2. Keeps(x, x)
      BY DEF Keeps, FileState
    <2>3. x.left = Avail(x) /\ x.left \in Nat /\ x.left > 0
      BY <1>1, <1>8 DEF Avail
    <2> HIDE DEF r, c
    <2> QED BY <1>3, <1>6, <2>1, <2>2, <2>3 DEF r, c
  <1> QED BY <1>5, <1>7, <1>8

(***************************************************************************)
(* What each handler does, with its transactions summed up.                *)
(***************************************************************************)
LEMMA QuietLoad ==
    ASSUME Device, NEW k \in Ks, Counts(k), NEW y, Keeps(LoadStart(k), y), y.spos <= y.epos,
           f' = [y EXCEPT !.bad = 0]
    PROVE  Quiet /\ f'.unseen = y.unseen
  <1>1. k \in Nat /\ faults' \in 0..MaxFaults
    BY CountFacts DEF Device
  <1>2. y \in FileState /\ y.drive = f.drive /\ y.part_offset = f.part_offset
    BY <1>1, LoadStartFacts DEF Keeps, Device
  <1> QED BY <1>1, <1>2, EndFacts DEF Quiet

\* What disks say does not change with a quiet handler.
LEMMA QuietKeeps ==
    ASSUME Quiet, f'.unseen \/ ~f.unseen
    PROVE  Keeps(f, f')
  BY DEF Quiet, Keeps

LEMMA WordsFit ==
    /\ Message \in Word /\ Message.path \in Seq(Names)
    /\ NoWord \in Word
    /\ boot_file \in Seq(Word) => Kernel \in Word
  <1>1. Message \in Word
    BY BooterAssumption
  <1>2. Message.path \in Seq(Names)
    BY <1>1 DEF Word
  <1>3. NoWord \in Word
    BY DEF NoWord, Word
  <1>4. ASSUME boot_file \in Seq(Word) PROVE Kernel \in Word
    <2>1. CASE boot_file = <<>>
      BY <1>3, <2>1 DEF Kernel
    <2>2. CASE boot_file # <<>>
      <3>1. Len(boot_file) \in Nat \ {0}
        BY <1>4, <2>2, EmptySeq
      <3> QED BY <1>4, <2>2, <3>1 DEF Kernel
    <2> QED BY <2>1, <2>2
  <1> QED BY <1>1, <1>2, <1>3, <1>4

LEMMA ShowFrame ==
    ASSUME Device, cd \in InodeNo, ShowMessage
    PROVE  /\ Quiet /\ pc = "msg" /\ pc' = "open"
           /\ UNCHANGED <<cd, mountf, params, clock, loader, err, cdbad>>
  <1>1. pc = "msg" /\ pc' = "open" /\ UNCHANGED <<cd, mountf, params, clock, loader, err, cdbad>>
    BY Zenon DEF ShowMessage, Go
  <1>2. PICK k \in Ks : Counts(k) /\ f' = [cat(Start(k), cd, Message) EXCEPT !.bad = 0]
    BY ShowSteps
  <1>3. k \in Nat
    BY <1>2, CountFacts DEF Device
  <1>4. Start(k) \in FileState /\ Start(k).spos <= Start(k).epos
    BY <1>3, StartFacts DEF Device
  <1>5. /\ Keeps(Start(k), cat(Start(k), cd, Message))
        /\ cat(Start(k), cd, Message).spos <= cat(Start(k), cd, Message).epos
    BY <1>4, WordsFit, CatFacts
  <1> QED BY <1>1, <1>2, <1>5, QuietEnd

LEMMA LsFrame ==
    ASSUME Device, cd \in InodeNo, NEW line, DoLs(line)
    PROVE  /\ Quiet /\ pc = "cmd"
           /\ UNCHANGED <<pc, cd, mountf, params, clock, loader, err, cdbad>>
  <1>1. pc = "cmd" /\ UNCHANGED <<pc, cd, mountf, params, clock, loader, err, cdbad>>
    BY Zenon DEF DoLs, Prompt
  <1>2. PICK k \in Ks : Counts(k) /\ f' = [dir(Start(k), cd) EXCEPT !.bad = 0]
    BY LsSteps
  <1>3. k \in Nat /\ cd \in Nat
    BY <1>2, CountFacts, NoneFits DEF Device
  <1>4. Start(k) \in FileState /\ Start(k).spos <= Start(k).epos
    BY <1>3, StartFacts DEF Device
  <1>5. /\ Keeps(Start(k), dir(Start(k), cd))
        /\ dir(Start(k), cd).spos <= dir(Start(k), cd).epos
    BY <1>3, <1>4, DirFacts
  <1> QED BY <1>1, <1>2, <1>5, QuietEnd

LEMMA CatFrame ==
    ASSUME Device, cd \in InodeNo, NEW line \in Seq(Word), DoCat(line)
    PROVE  /\ Quiet /\ pc = "cmd"
           /\ UNCHANGED <<pc, cd, mountf, params, clock, loader, err, cdbad>>
  <1>1. pc = "cmd" /\ UNCHANGED <<pc, cd, mountf, params, clock, loader, err, cdbad>>
    BY Zenon DEF DoCat, Prompt
  <1>2. PICK k \in Ks : Counts(k) /\ f' = [cat(Start(k), cd, CatWord(line)) EXCEPT !.bad = 0]
    BY CatSteps
  <1>3. k \in Nat /\ CatWord(line) \in Word
    <2>1. CatWord(line) \in Word
      BY WordsFit DEF CatWord
    <2> QED BY <1>2, <2>1, CountFacts DEF Device
  <1>4. Start(k) \in FileState /\ Start(k).spos <= Start(k).epos
    BY <1>3, StartFacts DEF Device
  <1>5. /\ Keeps(Start(k), cat(Start(k), cd, CatWord(line)))
        /\ cat(Start(k), cd, CatWord(line)).spos <= cat(Start(k), cd, CatWord(line)).epos
    BY <1>3, <1>4, CatFacts
  <1> QED BY <1>1, <1>2, <1>5, QuietEnd

LEMMA PartFrame ==
    ASSUME Device, NEW line, DoPart(line)
    PROVE  /\ Quiet /\ pc = "cmd"
           /\ UNCHANGED <<pc, cd, mountf, params, clock, loader, err, cdbad>>
  <1>1. pc = "cmd" /\ UNCHANGED <<pc, cd, mountf, params, clock, loader, err, cdbad>>
    BY Zenon DEF DoPart, Prompt
  <1>2. PICK k \in Ks : Counts(k) /\ f' = [dopart(Start(k)) EXCEPT !.bad = 0]
    BY PartSteps
  <1>3. k \in Nat
    BY <1>2, CountFacts DEF Device
  <1>4. Start(k) \in FileState /\ Start(k).spos <= Start(k).epos
    BY <1>3, StartFacts DEF Device
  <1>5. /\ Keeps(Start(k), dopart(Start(k)))
        /\ dopart(Start(k)).spos <= dopart(Start(k)).epos
    BY <1>4, DopartFacts
  <1> QED BY <1>1, <1>2, <1>5, QuietEnd

LEMMA SameResolved ==
    ASSUME NEW x \in FileState, NEW y, y \in FileState, SameDisk(x, y),
           x.drive \in DOMAIN Disks, NEW no \in InodeNo, NEW w \in Word
    PROVE  Resolved(y, no, w) = Resolved(x, no, w)
  <1> DEFINE n == Len(w.path)
             u == ResolvedTo(x, no, w)
             v == ResolvedTo(y, no, w)
             T == {k \in 0..n : v[k] = u[k]}
  <1>1. n \in Nat
    <2>1. w.path \in Seq(Names)
      BY DEF Word
    <2> QED BY <2>1
  <1>2. /\ Resolved(x, no, w) = u[n] /\ u[0] = StartNo(no, w)
        /\ \A k \in 1..n : u[k] = NextNo(x, u[k - 1], w.path[k])
    BY ResolvedSteps
  <1>3. /\ Resolved(y, no, w) = v[n] /\ v[0] = StartNo(no, w)
        /\ \A k \in 1..n : v[k] = NextNo(y, v[k - 1], w.path[k])
    <2>1. y \in FileState /\ y.drive \in DOMAIN Disks
      BY DEF SameDisk
    <2> QED BY <2>1, ResolvedSteps
  <1>4. ASSUME NEW r, NEW name PROVE NextNo(y, r, name) = NextNo(x, r, name)
    BY SameDiskSays DEF NextNo
  <1> HIDE DEF u, v, n
  <1>5. 0 \in T
    BY <1>1, <1>2, <1>3
  <1>6. ASSUME NEW k \in 1..n, k - 1 \in T PROVE k \in T
    <2>1. v[k - 1] = u[k - 1]
      BY <1>6
    <2>2. v[k] = NextNo(y, v[k - 1], w.path[k]) /\ u[k] = NextNo(x, u[k - 1], w.path[k])
      BY <1>2, <1>3
    <2>3. v[k] = u[k] /\ k \in 0..n
      BY <1>1, <1>4, <2>1, <2>2
    <2> QED BY <2>3
  <1> HIDE DEF T
  <1>7. n \in T
    <2>1. \A k \in 0..n : k \in T
      BY <1>1, <1>5, <1>6, Upward
    <2> QED BY <1>1, <2>1
  <1> QED BY <1>2, <1>3, <1>7 DEF T

\* What the path of a word names does not depend on the transactions of a
\* handler that starts with x.
LEMMA OpenLeft ==
    ASSUME Device, cd \in InodeNo, NEW w \in Word, NEW k \in Ks, Counts(k),
           NEW res, res = open(Start(k), cd, w), f' = [res.f EXCEPT !.bad = 0]
    PROVE  /\ Quiet /\ res.ok \in BOOLEAN /\ res.f.unseen = f'.unseen /\ res.f.i = f'.i
           /\ res.ok => res.no \in InodeNo /\ res.no # None
           /\ res.ok /\ ~f'.unseen =>
                /\ f.drive \in DOMAIN Disks /\ res.no = Resolved(f, cd, w)
                /\ IsOpen(f', InodeOf(f, res.no)) /\ Pos(f') = 0
           /\ ~res.ok /\ ~f'.unseen /\ f.drive \in DOMAIN Disks => Resolved(f, cd, w) = None
  <1>1. k \in Nat
    BY CountFacts DEF Device
  <1>2. PICK x \in FileState : x = Start(k)
    BY <1>1, StartFacts DEF Device
  <1>3. /\ x.drive = f.drive /\ x.part_offset = f.part_offset /\ x.spos <= x.epos /\ ~x.unseen
    BY <1>1, <1>2, StartFacts DEF Device
  <1>4. PICK z : z = res.f
    OBVIOUS
  <1>5. /\ Keeps(x, z) /\ z.spos <= z.epos /\ res.ok \in BOOLEAN
        /\ res.ok => /\ res.no \in InodeNo /\ res.no # None
                     /\ z.left = 0 /\ z.spos = 0 /\ z.epos = z.i.blocks
        /\ res.ok /\ ~z.unseen =>
             /\ x.drive \in DOMAIN Disks /\ res.no = Resolved(x, cd, w)
             /\ z.i = InodeOf(x, res.no) /\ z.idir = At(x, z.i.ind).ptrs
        /\ ~res.ok /\ ~z.unseen /\ x.drive \in DOMAIN Disks => Resolved(x, cd, w) = None
    BY <1>2, <1>3, <1>4, OpenFacts
  <1>6. PICK e \in FileState : e = f
    BY DEF Device
  <1>7. SameDisk(e, x) /\ SameDisk(x, e) /\ SameDisk(e, z)
    BY <1>3, <1>5, <1>6 DEF SameDisk, Keeps
  <1>8. x.drive \in DOMAIN Disks => Resolved(x, cd, w) = Resolved(e, cd, w)
    BY <1>7, SameResolved DEF SameDisk
  <1>9. z \in FileState
    BY <1>5 DEF Keeps
  <1>10. PICK g \in FileState : g = f'
    <2>1. f' \in FileState
      BY <1>4, <1>9, EndFacts
    <2> QED BY <2>1
  <1>11. /\ g.drive = z.drive /\ g.part_offset = z.part_offset /\ g.spos = z.spos
         /\ g.left = z.left /\ g.i = z.i /\ g.idir = z.idir /\ g.epos = z.epos
         /\ g.unseen = z.unseen
    BY <1>4, <1>9, <1>10, EndFacts
  <1>12. Quiet
    BY <1>2, <1>4, <1>5, QuietEnd
  <1>13. res.ok => res.no \in InodeNo /\ res.no # None
    BY <1>5
  <1>14. ASSUME res.ok, ~g.unseen
         PROVE  /\ e.drive \in DOMAIN Disks /\ res.no = Resolved(e, cd, w)
                /\ IsOpen(g, InodeOf(e, res.no)) /\ Pos(g) = 0
    <2>1. /\ x.drive \in DOMAIN Disks /\ res.no = Resolved(x, cd, w)
          /\ z.i = InodeOf(x, res.no) /\ z.idir = At(x, z.i.ind).ptrs
          /\ z.left = 0 /\ z.spos = 0 /\ z.epos = z.i.blocks
      BY <1>5, <1>11, <1>14
    <2>2. InodeOf(x, res.no) = InodeOf(e, res.no)
      BY <1>7, SameDiskSays
    <2>3. SameDisk(x, g)
      BY <1>5, <1>11 DEF SameDisk, Keeps
    <2>4. At(g, z.i.ind) = At(x, z.i.ind)
      BY <2>3, SameDiskSays
    <2>5. e.drive \in DOMAIN Disks /\ g.drive \in DOMAIN Disks
      BY <1>7, <2>1, <2>3 DEF SameDisk
    <2>6. IsOpen(g, InodeOf(e, res.no))
      BY <1>5, <1>11, <1>14, <2>1, <2>2, <2>4, <2>5 DEF IsOpen
    <2>7. Pos(g) = 0
      <3>1. g.spos = 0 /\ g.left = 0
        BY <1>11, <2>1
      <3>2. Pos(g) = g.spos * BSZ
        BY <3>1, PosFacts
      <3>3. BSZ \in Nat
        BY PosFacts
      <3> QED BY <3>1, <3>2, <3>3
    <2> QED BY <1>8, <2>1, <2>5, <2>6, <2>7
  <1>15. ASSUME ~res.ok, ~g.unseen, e.drive \in DOMAIN Disks
         PROVE  Resolved(e, cd, w) = None
    <2>1. x.drive \in DOMAIN Disks
      BY <1>7, <1>15 DEF SameDisk
    <2> QED BY <1>5, <1>8, <1>11, <1>15, <2>1
  <1> QED BY <1>4, <1>5, <1>6, <1>10, <1>11, <1>12, <1>13, <1>14, <1>15

LEMMA OpenFrame ==
    ASSUME Device, cd \in InodeNo, boot_file \in Seq(Word), OpenKernel
    PROVE  /\ Quiet /\ pc = "open" /\ UNCHANGED <<cd, mountf, params, clock, loader, cdbad>>
           /\ \/ /\ pc' = "header" /\ UNCHANGED err
                 /\ ~f'.unseen => /\ f.drive \in DOMAIN Disks /\ KernelNo # None
                                  /\ IsOpen(f', InodeOf(f, KernelNo)) /\ Pos(f') = 0
              \/ /\ pc' = "cmd" /\ err' = 2
                 /\ ~f'.unseen /\ f.drive \in DOMAIN Disks => KernelNo = None
  <1>1. pc = "open" /\ UNCHANGED <<cd, mountf, params, clock, loader, cdbad>>
    BY Zenon DEF OpenKernel
  <1>2. PICK k \in Ks : \E res : /\ res = open(Start(k), cd, Kernel)
                                /\ Counts(k) /\ (k > 0 => res.f.bad = 0)
                                /\ f' = [res.f EXCEPT !.bad = 0]
                                /\ KernelOpened(res)
    BY OpenSteps
  <1>3. PICK res : /\ res = open(Start(k), cd, Kernel)
                   /\ Counts(k) /\ (k > 0 => res.f.bad = 0)
                   /\ f' = [res.f EXCEPT !.bad = 0]
                   /\ KernelOpened(res)
    BY <1>2
  <1>4. PICK w \in Word : w = Kernel
    BY WordsFit
  <1>5. /\ Quiet /\ res.ok \in BOOLEAN
        /\ res.ok => res.no # None
        /\ res.ok /\ ~f'.unseen =>
             /\ f.drive \in DOMAIN Disks /\ res.no = Resolved(f, cd, w)
             /\ IsOpen(f', InodeOf(f, res.no)) /\ Pos(f') = 0
        /\ ~res.ok /\ ~f'.unseen /\ f.drive \in DOMAIN Disks => Resolved(f, cd, w) = None
    BY <1>3, <1>4, OpenLeft
  <1>6. Resolved(f, cd, w) = KernelNo
    BY <1>4 DEF KernelNo
  <1>7. CASE res.ok
    <2>1. pc' = "header" /\ UNCHANGED err
      BY <1>3, <1>7 DEF KernelOpened, Go
    <2>2. ASSUME ~f'.unseen
          PROVE  /\ f.drive \in DOMAIN Disks /\ KernelNo # None
                 /\ IsOpen(f', InodeOf(f, KernelNo)) /\ Pos(f') = 0
      <3>1. res.no = KernelNo
        BY <1>5, <1>6, <1>7, <2>2
      <3> QED BY <1>5, <1>7, <2>2, <3>1
    <2> QED BY <1>1, <1>5, <2>1, <2>2
  <1>8. CASE ~res.ok
    <2>1. pc' = "cmd" /\ err' = 2
      BY <1>3, <1>8 DEF KernelOpened, Go, Fails
    <2>2. ~f'.unseen /\ f.drive \in DOMAIN Disks => KernelNo = None
      BY <1>5, <1>6, <1>8
    <2> QED BY <1>1, <1>5, <2>1, <2>2
  <1> QED BY <1>7, <1>8

LEMMA WordOf ==
    ASSUME NEW S, NEW s \in Seq(S), NEW n \in Nat \ {0}, Len(s) >= n
    PROVE  s[n] \in S
  OBVIOUS

LEMMA CdFrame ==
    ASSUME Device, cd \in InodeNo, cd # None, cdbad \in BOOLEAN, NEW line \in Seq(Word), DoCd(line)
    PROVE  /\ Quiet /\ pc = "cmd" /\ UNCHANGED <<pc, mountf, params, clock, loader, err>>
           /\ \/ cd' = ROOT /\ cdbad' = FALSE
              \/ UNCHANGED <<cd, cdbad>>
              \/ /\ cd' \in InodeNo /\ cd' # None /\ cdbad' \in BOOLEAN
                 /\ ~cdbad' => InodeOf(f, cd').dir
  <1>1. /\ pc = "cmd" /\ UNCHANGED <<pc, mountf, params, clock, loader, err>>
        /\ Len(line) = 1 => cd' = ROOT /\ cdbad' = FALSE /\ UNCHANGED <<f, faults>>
    BY Zenon DEF DoCd, Prompt
  <1>4. Len(line) > 0
    BY Zenon DEF DoCd, Prompt, Says
  <1>2. CASE Len(line) = 1
    <2>1. Quiet
      BY <1>1, <1>2 DEF Device, Quiet
    <2> QED BY <1>1, <1>2, <2>1
  <1>3. CASE Len(line) # 1
    <2>1. PICK k \in Ks : \E res : /\ res = open(Start(k), cd, line[2])
                                  /\ Counts(k) /\ (k > 0 => res.f.bad = 0)
                                  /\ f' = [res.f EXCEPT !.bad = 0]
                                  /\ ChDir(res)
      BY <1>3, CdSteps
    <2>2. PICK res : /\ res = open(Start(k), cd, line[2])
                     /\ Counts(k) /\ (k > 0 => res.f.bad = 0)
                     /\ f' = [res.f EXCEPT !.bad = 0]
                     /\ ChDir(res)
      BY <2>1
    <2>3. PICK w \in Word : w = line[2]
      <3>1. Len(line) \in Nat
        OBVIOUS
      <3>2. PICK n \in Nat : n = Len(line)
        BY <3>1
      <3>3. n > 0 /\ n # 1
        BY <1>3, <1>4, <3>2
      <3>4. n >= 2
        BY <3>3
      <3>5. line[2] \in Word
        BY <3>2, <3>4, WordOf
      <3> QED BY <3>5
    <2>4. /\ Quiet /\ res.ok \in BOOLEAN /\ res.f.unseen = f'.unseen /\ res.f.i = f'.i
          /\ res.ok => res.no \in InodeNo /\ res.no # None
          /\ res.ok /\ ~f'.unseen => IsOpen(f', InodeOf(f, res.no))
      BY <2>2, <2>3, OpenLeft
    <2>5. CASE res.ok /\ res.f.i.dir
      <3>1. cd' = res.no /\ cdbad' = (cdbad \/ f'.unseen)
        BY <2>2, <2>4, <2>5 DEF ChDir
      <3>2. f'.unseen \in BOOLEAN
        BY <2>4 DEF Quiet, FileState
      <3>3. ASSUME ~cdbad' PROVE InodeOf(f, res.no).dir
        <4>1. ~f'.unseen
          BY <3>1, <3>3
        <4>2. f'.i = InodeOf(f, res.no)
          BY <2>4, <2>5, <4>1 DEF IsOpen
        <4> QED BY <2>4, <2>5, <4>2
      <3>4. cd' \in InodeNo /\ cd' # None
        BY <2>4, <2>5, <3>1
      <3>5. cdbad' \in BOOLEAN
        BY <3>1, <3>2
      <3> QED BY <1>1, <2>4, <3>1, <3>3, <3>4, <3>5
    <2>6. CASE ~(res.ok /\ res.f.i.dir)
      <3>1. UNCHANGED <<cd, cdbad>>
        BY <2>2, <2>6 DEF ChDir
      <3> QED BY <1>1, <2>4, <3>1
    <2> QED BY <2>5, <2>6
  <1> QED BY <1>2, <1>3

\* What mount leaves, and that a mount that fails with every transaction
\* answered fails for what is on the disk.
MountLeft(minor, part, ok) ==
    /\ f' \in FileState /\ f'.bad = 0 /\ f'.spos <= f'.epos /\ faults' \in 0..MaxFaults
    /\ ok => f'.drive \in DOMAIN Disks /\ At(f', 1).super
    /\ ~ok /\ faults' = faults /\ minor \in DOMAIN Disks =>
         /\ f'.part_offset = NewOffset(f, minor, part)
         /\ (BlockZero(f, minor).mbr \/ part = 0) => ~Block(minor, f'.part_offset + 1).super

LEMMA MountLeaves ==
    ASSUME Device, NEW minor \in DriveNo, NEW part \in Nat, NEW k \in Ks, Counts(k),
           NEW res, res = mount(Start(k), minor, part), f' = [res.f EXCEPT !.bad = 0]
    PROVE  res.ok \in BOOLEAN /\ MountLeft(minor, part, res.ok)
  <1>1. k \in Nat /\ faults' \in 0..MaxFaults
    BY CountFacts DEF Device
  <1>2. PICK x \in FileState : x = Start(k)
    BY <1>1, StartFacts DEF Device
  <1>3. x.part_offset = f.part_offset /\ x.spos <= x.epos /\ x.bad = k
    BY <1>1, <1>2, StartFacts DEF Device
  <1>4. PICK z : z = res.f
    OBVIOUS
  <1>5. /\ z \in FileState /\ z.spos <= z.epos /\ res.ok \in BOOLEAN
        /\ res.ok => z.drive \in DOMAIN Disks /\ At(z, 1).super
        /\ x.bad = 0 /\ ~res.ok /\ minor \in DOMAIN Disks =>
             /\ z.drive = minor /\ z.part_offset = NewOffset(x, minor, part)
             /\ (BlockZero(x, minor).mbr \/ part = 0) => ~At(z, 1).super
    BY <1>2, <1>3, <1>4, MountFacts
  <1>6. PICK g \in FileState : g = f'
    <2>1. f' \in FileState
      BY <1>4, <1>5, EndFacts
    <2> QED BY <2>1
  <1>7. /\ g.drive = z.drive /\ g.part_offset = z.part_offset /\ g.spos = z.spos
        /\ g.epos = z.epos /\ g.bad = 0
    BY <1>4, <1>5, <1>6, EndFacts
  <1>8. At(g, 1) = At(z, 1)
    BY <1>7 DEF At
  <1>9. BlockZero(x, minor) = BlockZero(f, minor) /\ NewOffset(x, minor, part) = NewOffset(f, minor, part)
    BY <1>3 DEF BlockZero, NewOffset
  <1>10. ASSUME ~res.ok, faults' = faults, minor \in DOMAIN Disks
         PROVE  /\ g.part_offset = NewOffset(f, minor, part)
                /\ (BlockZero(f, minor).mbr \/ part = 0) => ~Block(minor, g.part_offset + 1).super
    <2>1. x.bad = 0
      BY <1>1, <1>3, <1>10 DEF Counts, Device
    <2>2. /\ z.drive = minor /\ z.part_offset = NewOffset(x, minor, part)
          /\ (BlockZero(x, minor).mbr \/ part = 0) => ~At(z, 1).super
      BY <1>5, <1>10, <2>1
    <2>3. At(z, 1) = Block(minor, g.part_offset + 1)
      BY <1>7, <2>2 DEF At
    <2> QED BY <1>7, <1>9, <2>2, <2>3
  <1> QED BY <1>1, <1>5, <1>6, <1>7, <1>8, <1>10 DEF MountLeft

LEMMA MountFrame ==
    ASSUME Device, drive_no \in DriveNo, part_no \in 0..4, MountIt
    PROVE  /\ pc = "mount" /\ UNCHANGED <<params, clock, loader, err>>
           /\ \E ok \in BOOLEAN : /\ MountLeft(drive_no, part_no, ok) /\ Mounted(ok)
                                  /\ pc' = IF ok THEN "msg" ELSE "cmd"
  <1>1. pc = "mount" /\ UNCHANGED <<params, clock, loader, err>>
    BY Zenon DEF MountIt
  <1>2. PICK k \in Ks : \E res : /\ res = mount(Start(k), drive_no, part_no)
                                /\ Counts(k) /\ (k > 0 => res.f.bad = 0)
                                /\ f' = [res.f EXCEPT !.bad = 0]
                                /\ Mounted(res.ok) /\ Go(IF res.ok THEN "msg" ELSE "cmd")
    BY MountSteps
  <1>3. PICK res : /\ res = mount(Start(k), drive_no, part_no)
                   /\ Counts(k) /\ (k > 0 => res.f.bad = 0)
                   /\ f' = [res.f EXCEPT !.bad = 0]
                   /\ Mounted(res.ok) /\ Go(IF res.ok THEN "msg" ELSE "cmd")
    BY <1>2
  <1>4. res.ok \in BOOLEAN /\ MountLeft(drive_no, part_no, res.ok)
    <2>1. part_no \in Nat
      OBVIOUS
    <2> QED BY <1>3, <2>1, MountLeaves
  <1>5. pc' = IF res.ok THEN "msg" ELSE "cmd"
    BY <1>3 DEF Go
  <1>6. Mounted(res.ok)
    BY <1>3
  <1> QED BY <1>1, <1>4, <1>5, <1>6

LEMMA DoMountFrame ==
    ASSUME Device, NEW line \in Seq(Word), DoMount(line)
    PROVE  /\ pc = "cmd" /\ UNCHANGED <<pc, params, clock, loader, err>>
           /\ \E minor \in DriveNo : \E part \in Nat : \E ok \in BOOLEAN :
                MountLeft(minor, part, ok) /\ Mounted(ok)
  <1>1. pc = "cmd" /\ UNCHANGED <<pc, params, clock, loader, err>>
    BY Zenon DEF DoMount, Prompt
  <1>2. PICK k \in Ks : \E res : /\ res = mount(Start(k), Arg(line, 3), Arg(line, 4))
                                /\ Counts(k) /\ (k > 0 => res.f.bad = 0)
                                /\ f' = [res.f EXCEPT !.bad = 0]
                                /\ Mounted(res.ok)
    BY DoMountSteps
  <1>3. PICK res : /\ res = mount(Start(k), Arg(line, 3), Arg(line, 4))
                   /\ Counts(k) /\ (k > 0 => res.f.bad = 0)
                   /\ f' = [res.f EXCEPT !.bad = 0]
                   /\ Mounted(res.ok)
    BY <1>2
  <1>4. ASSUME NEW n \in Nat \ {0} PROVE Arg(line, n) \in DriveNo /\ Arg(line, n) \in Nat
    <2>1. CASE Len(line) >= n
      <3>1. line[n] \in Word
        BY <2>1, WordOf
      <3>2. line[n].num \in 0..255
        BY <3>1 DEF Word
      <3>3. Arg(line, n) = line[n].num
        BY <2>1 DEF Arg
      <3>4. PICK m \in 0..255 : m = line[n].num
        BY <3>2
      <3>5. m \in DriveNo /\ m \in Nat
        BY DEF DriveNo
      <3>6. Arg(line, n) = m
        BY <3>3, <3>4
      <3> QED BY <3>5, <3>6
    <2>2. CASE ~(Len(line) >= n)
      BY <2>2 DEF Arg, DriveNo
    <2> QED BY <2>1, <2>2
  <1>5. PICK minor \in DriveNo, part \in Nat : minor = Arg(line, 3) /\ part = Arg(line, 4)
    <2>1. 3 \in Nat \ {0} /\ 4 \in Nat \ {0}
      OBVIOUS
    <2> QED BY <1>4, <2>1
  <1>6. res.ok \in BOOLEAN /\ MountLeft(minor, part, res.ok)
    BY <1>3, <1>5, MountLeaves
  <1>7. Mounted(res.ok)
    BY <1>3
  <1> QED BY <1>1, <1>6, <1>7

(***************************************************************************)
(* The reads of boot.                                                      *)
(***************************************************************************)
\* y has the open file of x.
SameOpen(x, y) ==
    /\ SameDisk(x, y) /\ SameFile(x, y) /\ y.spos = x.spos /\ y.left = x.left
    /\ y.dbuf = x.dbuf /\ y.unseen = x.unseen

LEMMA SameOpenSays ==
    ASSUME NEW x, NEW y, SameOpen(x, y)
    PROVE  /\ Pos(y) = Pos(x) /\ Avail(y) = Avail(x)
           /\ \A i : IsOpen(x, i) => IsOpen(y, i)
           /\ \A i : FileCells(y, i) = FileCells(x, i)
  <1>1. SameDisk(x, y)
    BY DEF SameOpen
  <1>2. Pos(y) = Pos(x) /\ Avail(y) = Avail(x)
    BY DEF SameOpen, SameFile, Pos, Avail
  <1>3. ASSUME NEW i, IsOpen(x, i) PROVE IsOpen(y, i)
    <2>1. At(y, i.ind) = At(x, i.ind) /\ BlockOf(y, i, x.spos) = BlockOf(x, i, x.spos)
      BY <1>1, SameDiskSays
    <2>2. /\ y.drive = x.drive /\ y.i = x.i /\ y.idir = x.idir /\ y.epos = x.epos
          /\ y.spos = x.spos /\ y.left = x.left /\ y.dbuf = x.dbuf /\ y.unseen = x.unseen
      BY DEF SameOpen, SameDisk, SameFile
    <2>3. /\ x.drive \in DOMAIN Disks /\ ~x.unseen
          /\ x.i = i /\ x.idir = At(x, i.ind).ptrs /\ x.epos = i.blocks /\ x.spos <= x.epos
          /\ x.left > 0 => x.spos > 0 /\ x.dbuf.bytes = BlockOf(x, i, x.spos).bytes
      BY <1>3 DEF IsOpen
    <2> QED BY <2>1, <2>2, <2>3 DEF IsOpen
  <1>4. \A i : FileCells(y, i) = FileCells(x, i)
    BY <1>1, SameDiskSays
  <1> QED BY <1>2, <1>3, <1>4

\* The cells got are the next of the open file, as many as there can be.
ReadOn(i, got) ==
    /\ IsOpen(f', i) /\ Pos(f) \in Nat /\ Pos(f') = Pos(f) + Len(got)
    /\ got = SubSeq(FileCells(f, i), Pos(f) + 1, Pos(f) + Len(got))
    /\ Pos(f) + Len(got) <= Len(FileCells(f, i))
    /\ Avail(f) = 0 => Pos(f) = Len(FileCells(f, i))
Handed(got, n) ==
    /\ got \in Seq(Nat) /\ Len(got) = Least(n, Avail(f))
    /\ \A i \in Inode : IsOpen(f, i) /\ ~f'.unseen => ReadOn(i, got)

LEMMA HandedFacts ==
    ASSUME Device, NEW k \in Ks, Counts(k), NEW n \in Nat,
           NEW res, res = iread(LoadStart(k), n), f' = [res.f EXCEPT !.bad = 0]
    PROVE  Quiet /\ (f'.unseen \/ ~f.unseen) /\ Handed(res.got, n)
  <1>1. k \in Nat
    BY CountFacts DEF Device
  <1>2. PICK x \in FileState : x = LoadStart(k)
    BY <1>1, LoadStartFacts DEF Device
  <1>3. SameOpen(f, x) /\ x.spos <= x.epos
    BY <1>1, <1>2, LoadStartFacts DEF Device, SameOpen, SameDisk, SameFile
  <1>4. /\ Keeps(x, res.f) /\ res.f.spos <= res.f.epos
        /\ res.got \in Seq(Nat) /\ Len(res.got) = Least(n, Avail(x))
    BY <1>2, <1>3, IreadFits
  <1>5. Quiet /\ f'.unseen = res.f.unseen
    BY <1>2, <1>4, QuietLoad
  <1>6. f'.unseen \/ ~f.unseen
    BY <1>3, <1>4, <1>5 DEF Keeps, SameOpen
  <1>7. PICK z \in FileState : z = res.f
    BY <1>4 DEF Keeps
  <1>8. PICK g \in FileState : g = f'
    BY <1>5 DEF Quiet
  <1>9. SameOpen(z, g)
    BY <1>7, <1>8, EndFacts DEF SameOpen, SameDisk, SameFile
  <1>10. Pos(x) = Pos(f) /\ Avail(x) = Avail(f) /\ \A i : FileCells(x, i) = FileCells(f, i)
    BY <1>3, SameOpenSays
  <1>11. ASSUME NEW i \in Inode, IsOpen(f, i), ~g.unseen
         PROVE  /\ IsOpen(g, i) /\ Pos(f) \in Nat /\ Pos(g) = Pos(f) + Len(res.got)
                /\ res.got = SubSeq(FileCells(f, i), Pos(f) + 1, Pos(f) + Len(res.got))
                /\ Pos(f) + Len(res.got) <= Len(FileCells(f, i))
                /\ Avail(f) = 0 => Pos(f) = Len(FileCells(f, i))
    <2>1. IsOpen(x, i)
      BY <1>3, <1>11, SameOpenSays
    <2>2. ~iread(x, n).f.unseen
      BY <1>2, <1>7, <1>9, <1>11 DEF SameOpen
    <2>3. /\ IsOpen(res.f, i) /\ Pos(x) \in Nat /\ Pos(res.f) = Pos(x) + Len(res.got)
          /\ res.got = SubSeq(FileCells(x, i), Pos(x) + 1, Pos(x) + Len(res.got))
          /\ Pos(x) + Len(res.got) <= Len(FileCells(x, i))
          /\ Avail(x) = 0 => Pos(x) = Len(FileCells(x, i))
      BY <1>2, <2>1, <2>2, IreadFacts
    <2>4. IsOpen(g, i) /\ Pos(g) = Pos(res.f)
      BY <1>7, <1>9, <2>3, SameOpenSays
    <2>5. FileCells(x, i) = FileCells(f, i)
      BY <1>10
    <2> QED BY Zenon, <1>10, <2>3, <2>4, <2>5
  <1>12. Handed(res.got, n)
    BY <1>4, <1>8, <1>10, <1>11 DEF Handed, ReadOn
  <1> QED BY <1>5, <1>6, <1>12

LEMMA HeaderFrame ==
    ASSUME Device, ReadHeader
    PROVE  /\ Quiet /\ pc = "header" /\ (f'.unseen \/ ~f.unseen)
           /\ UNCHANGED <<cd, mountf, params, clock, mem, cdbad>>
           /\ \E res : HeaderRead(res) /\ Handed(res.got, HSZ)
  <1>1. pc = "header" /\ UNCHANGED <<cd, mountf, params, clock, mem, cdbad>>
    BY Zenon DEF ReadHeader
  <1>2. PICK k \in (Ks \intersect {0, 1}) : \E res : /\ res = iread(LoadStart(k), HSZ)
                                 /\ Counts(k) /\ (k > 0 => res.f.bad = 0)
                                 /\ f' = [res.f EXCEPT !.bad = 0]
                                 /\ HeaderRead(res)
    BY HeaderSteps
  <1>3. PICK res : /\ res = iread(LoadStart(k), HSZ)
                   /\ Counts(k) /\ (k > 0 => res.f.bad = 0)
                   /\ f' = [res.f EXCEPT !.bad = 0]
                   /\ HeaderRead(res)
    BY <1>2
  <1>4. HSZ \in Nat /\ k \in Ks
    BY DEF HSZ
  <1>5. Quiet /\ (f'.unseen \/ ~f.unseen) /\ Handed(res.got, HSZ)
    BY <1>3, <1>4, HandedFacts
  <1>6. HeaderRead(res)
    BY <1>3
  <1> QED BY <1>1, <1>5, <1>6

LEMMA BufferFrame ==
    ASSUME Device, todo \in Nat, ReadBuffered
    PROVE  /\ Quiet /\ pc = "section" /\ todo > 0 /\ (f'.unseen \/ ~f.unseen)
           /\ UNCHANGED <<cd, mountf, params, clock, h, cdbad>>
           /\ \E res : BufferRead(res) /\ Handed(res.got, todo)
  <1>1. pc = "section" /\ UNCHANGED <<cd, mountf, params, clock, h, cdbad>>
    BY Zenon DEF ReadBuffered
  <1>7. todo > 0
    BY Zenon DEF ReadBuffered
  <1>2. PICK k \in (Ks \intersect {0, 1}) : \E res : /\ res = iread(LoadStart(k), todo)
                                 /\ Counts(k) /\ (k > 0 => res.f.bad = 0)
                                 /\ f' = [res.f EXCEPT !.bad = 0]
                                 /\ BufferRead(res)
    BY BufferSteps
  <1>3. PICK res : /\ res = iread(LoadStart(k), todo)
                   /\ Counts(k) /\ (k > 0 => res.f.bad = 0)
                   /\ f' = [res.f EXCEPT !.bad = 0]
                   /\ BufferRead(res)
    BY <1>2
  <1>4. k \in Ks
    OBVIOUS
  <1>5. Quiet /\ (f'.unseen \/ ~f.unseen) /\ Handed(res.got, todo)
    BY <1>3, <1>4, HandedFacts
  <1>6. BufferRead(res)
    BY <1>3
  <1> QED BY <1>1, <1>5, <1>6, <1>7

\* A block read straight to memory.
ReadOver(i, res) ==
    /\ IsOpen(f', i) /\ Pos(f) \in Nat /\ Pos(f') = Pos(f) + BSZ
    /\ Pos(f) + BSZ <= Len(FileCells(f, i))
    /\ res.ok => res.got.bytes = SubSeq(FileCells(f, i), Pos(f) + 1, Pos(f) + BSZ)
OverHanded(res) ==
    /\ res.ok \in BOOLEAN /\ res.got \in BlockSet
    /\ ~res.ok /\ f.drive \in DOMAIN Disks => faults' > faults
    /\ \A i \in Inode : IsOpen(f, i) => ReadOver(i, res)

LEMMA OnwardsFacts ==
    ASSUME NEW x \in FileState
    PROVE  LET y == Onwards(x)
           IN  /\ y \in FileState /\ SameDisk(x, y) /\ SameFile(x, y) /\ y.spos = x.spos + 1
               /\ y.left = x.left /\ y.bad = x.bad /\ y.unseen = x.unseen
  <1> DEFINE y == Onwards(x)
  <1>1. PICK n \in Nat : n = x.spos + 1
    BY DEF FileState
  <1>2. y = [x EXCEPT !.spos = n]
    BY <1>1 DEF Onwards
  <1> HIDE DEF y
  <1>3. y \in FileState
    BY <1>2 DEF FileState
  <1>4. /\ y.drive = x.drive /\ y.part_offset = x.part_offset /\ y.spos = n /\ y.left = x.left
        /\ y.i = x.i /\ y.idir = x.idir /\ y.epos = x.epos /\ y.bad = x.bad
    BY <1>2 DEF FileState
  <1>5. y.unseen = x.unseen
    BY <1>2 DEF FileState
  <1> QED BY <1>1, <1>3, <1>4, <1>5 DEF SameDisk, SameFile, y

LEMMA OverFacts ==
    ASSUME Device, f.left = 0, f.spos # f.epos,
           NEW k \in (Ks \intersect {0, 1}), Counts(k), NEW res,
           res = dev_read(Onwards(LoadStart(k)), bmap(LoadStart(k)), Zero),
           f' = [res.f EXCEPT !.bad = 0]
    PROVE  Quiet /\ f'.unseen = f.unseen /\ OverHanded(res)
  <1>1. k \in Nat /\ faults' \in 0..MaxFaults /\ (k = 0 \/ k = 1)
    BY CountFacts DEF Device
  <1>2. PICK x \in FileState : x = LoadStart(k)
    BY <1>1, LoadStartFacts DEF Device
  <1>3. /\ SameDisk(f, x) /\ SameFile(f, x) /\ SameOpen(f, x) /\ x.bad = k
        /\ x.spos = f.spos /\ x.left = 0 /\ x.unseen = f.unseen /\ x.epos = f.epos
    BY <1>1, <1>2, LoadStartFacts DEF Device, SameOpen, SameDisk, SameFile
  <1>4. PICK y \in FileState : y = Onwards(x)
    BY OnwardsFacts
  <1>5. /\ SameDisk(x, y) /\ SameFile(x, y) /\ y.spos = x.spos + 1
        /\ y.left = 0 /\ y.bad = k /\ y.unseen = f.unseen
    BY <1>3, <1>4, OnwardsFacts
  <1>6. /\ res.f = Used(y) /\ res.ok \in BOOLEAN /\ res.got \in BlockSet
        /\ res.ok => /\ y.drive \in DOMAIN Disks
                     /\ res.got = Block(y.drive, y.part_offset + bmap(x))
        /\ y.drive \in DOMAIN Disks /\ ~res.ok => y.bad = 1
    <2>1. res = dev_read(y, bmap(x), Zero) /\ Zero \in BlockSet
      BY <1>2, <1>4, DisksAssumption
    <2> QED BY <2>1, ReadFacts
  <1>7. PICK z \in FileState : z = res.f
    BY <1>6, UsedFacts
  <1>8. /\ SameDisk(y, z) /\ SameFile(y, z) /\ z.spos = y.spos /\ z.left = y.left
        /\ z.unseen = y.unseen
    BY <1>6, <1>7, UsedFacts DEF SameDisk, SameFile
  <1>9. PICK g \in FileState : g = f'
    <2>1. f' \in FileState
      BY <1>7, EndFacts
    <2> QED BY <2>1
  <1>10. /\ SameDisk(z, g) /\ SameFile(z, g) /\ g.spos = z.spos /\ g.left = z.left
         /\ g.unseen = z.unseen /\ g.bad = 0
    BY <1>7, <1>9, EndFacts DEF SameDisk, SameFile
  <1>11. PICK e \in FileState : e = f
    BY DEF Device
  <1>12. /\ SameDisk(e, g) /\ SameFile(e, g) /\ g.spos = e.spos + 1 /\ g.left = 0
         /\ g.unseen = e.unseen
    BY <1>3, <1>5, <1>8, <1>10, <1>11 DEF SameDisk, SameFile
  <1>13. e.spos \in Nat /\ e.epos \in Nat /\ e.spos <= e.epos /\ e.spos # e.epos /\ e.left = 0
    BY <1>11 DEF Device, FileState
  <1>14. Quiet
    <2>1. g.drive = e.drive /\ g.part_offset = e.part_offset /\ g.spos <= g.epos
      BY <1>12, <1>13 DEF SameDisk, SameFile
    <2> QED BY <1>1, <1>9, <1>10, <1>11, <2>1 DEF Quiet
  <1>15. ~res.ok /\ f.drive \in DOMAIN Disks => faults' > faults
    <2> SUFFICES ASSUME ~res.ok, f.drive \in DOMAIN Disks PROVE faults' > faults
      OBVIOUS
    <2>1. k = 1
      BY <1>3, <1>5, <1>6 DEF SameDisk
    <2>2. faults \in Nat
      BY BooterAssumption DEF Device
    <2> QED BY <2>1, <2>2 DEF Counts
  <1>16. ASSUME NEW i \in Inode, IsOpen(e, i)
         PROVE  /\ IsOpen(g, i) /\ Pos(e) \in Nat /\ Pos(g) = Pos(e) + BSZ
                /\ Pos(e) + BSZ <= Len(FileCells(e, i))
                /\ res.ok => res.got.bytes = SubSeq(FileCells(e, i), Pos(e) + 1, Pos(e) + BSZ)
    <2>1. /\ e.drive \in DOMAIN Disks /\ ~e.unseen /\ e.i = i /\ e.idir = At(e, i.ind).ptrs
          /\ e.epos = i.blocks
      BY <1>16 DEF IsOpen
    <2>2. g.drive \in DOMAIN Disks /\ At(g, i.ind) = At(e, i.ind)
      BY <1>12, <2>1, SameDiskSays DEF SameDisk
    <2>3. IsOpen(g, i)
      <3>1. g.i = i /\ g.idir = At(g, i.ind).ptrs /\ g.epos = i.blocks /\ ~g.unseen
        BY <1>12, <2>1, <2>2 DEF SameFile
      <3>2. g.spos <= g.epos /\ ~(g.left > 0)
        BY <1>12, <1>13 DEF SameFile
      <3> QED BY <2>2, <3>1, <3>2 DEF IsOpen
    <2>4. /\ BSZ \in Nat \ {0} /\ e.spos * BSZ \in Nat /\ Pos(e) = e.spos * BSZ
          /\ Pos(g) = g.spos * BSZ
      BY <1>12, <1>13, PosFacts
    <2>5. (e.spos + 1) * BSZ = e.spos * BSZ + BSZ
      BY <1>13, <2>4, SMTT(30)
    <2>6. Pos(e) \in Nat /\ Pos(g) = Pos(e) + BSZ
      BY <1>12, <2>4, <2>5
    <2>7. PICK c : c = FileCells(e, i)
      OBVIOUS
    <2>8. PICK s : s = BlockOf(e, i, e.spos + 1).bytes
      OBVIOUS
    <2>9. /\ SubSeq(s, 0 + 1, 0 + BSZ)
               = SubSeq(c, ((e.spos + 1) - 1) * BSZ + 0 + 1, ((e.spos + 1) - 1) * BSZ + 0 + BSZ)
          /\ ((e.spos + 1) - 1) * BSZ + 0 + BSZ <= Len(c)
      <3>1. e.spos + 1 \in 1..i.blocks
        BY <1>13, <2>1
      <3>2. 0 \in Left
        BY <2>4 DEF Left
      <3>3. BSZ \in 0..(BSZ - 0)
        BY <2>4
      <3>4. PICK q \in 1..i.blocks : q = e.spos + 1
        BY <3>1
      <3>5. PICK a \in Left : a = 0
        BY <3>2
      <3>6. PICK n \in 0..(BSZ - a) : n = BSZ
        BY Zenon, <3>3, <3>5
      <3>7. /\ SubSeq(BlockOf(e, i, q).bytes, a + 1, a + n)
                 = SubSeq(FileCells(e, i), (q - 1) * BSZ + a + 1, (q - 1) * BSZ + a + n)
            /\ (q - 1) * BSZ + a + n <= Len(FileCells(e, i))
        <4>1. e.drive \in DOMAIN Disks
          BY <2>1
        <4>2. /\ SubSeq(BlockOf(e, i, q).bytes, a + 1, a + n)
                   = SubSeq(FileCells(e, i), (q - 1) * BSZ + a + 1, (q - 1) * BSZ + a + n)
              /\ SubSeq(BlockOf(e, i, q).bytes, a + 1, a + n) \in Seq(Nat)
              /\ Len(SubSeq(BlockOf(e, i, q).bytes, a + 1, a + n)) = n
              /\ (q - 1) * BSZ + a + n <= Len(FileCells(e, i))
          BY Zenon, <4>1, Slice
        <4> QED BY Zenon, <4>2
      <3> QED BY Zenon, <2>7, <2>8, <3>4, <3>5, <3>6, <3>7
    <2>10. /\ ((e.spos + 1) - 1) * BSZ + 0 = Pos(e) /\ 0 + BSZ = BSZ /\ 0 + 1 = 1
      <3>1. (e.spos + 1) - 1 = e.spos
        BY <1>13
      <3> QED BY <2>4, <3>1
    <2>11. SubSeq(s, 1, BSZ) = SubSeq(c, Pos(e) + 1, Pos(e) + BSZ) /\ Pos(e) + BSZ <= Len(c)
      BY Zenon, <2>9, <2>10
    <2>12. s \in Seq(Nat) /\ Len(s) = BSZ
      BY <2>1, <2>8, BlockFits DEF Sector
    <2>13. SubSeq(s, 1, BSZ) = s
      BY <2>12, WholeCut
    <2>14. ASSUME res.ok PROVE res.got.bytes = s
      <3>1. res.got = At(y, bmap(x))
        BY <1>6, <2>14 DEF At
      <3>2. bmap(x) = bmap(e)
        BY <1>3, <1>11 DEF bmap, SameFile
      <3>3. At(y, bmap(e)) = At(e, bmap(e))
        <4>1. SameDisk(e, y)
          BY <1>3, <1>5, <1>11 DEF SameDisk
        <4> QED BY <4>1, SameDiskSays
      <3>4. At(e, bmap(e)) = BlockOf(e, i, e.spos + 1)
        BY <2>1, BmapFollows
      <3> QED BY <2>8, <3>1, <3>2, <3>3, <3>4
    <2> QED BY <2>3, <2>6, <2>7, <2>11, <2>13, <2>14
  <1>17. OverHanded(res)
    BY <1>6, <1>9, <1>11, <1>15, <1>16 DEF OverHanded, ReadOver
  <1> QED BY <1>9, <1>11, <1>12, <1>14, <1>17

LEMMA DirectFrame ==
    ASSUME Device, ReadDirect
    PROVE  /\ Quiet /\ pc = "section" /\ todo > 0 /\ Direct /\ f'.unseen = f.unseen
           /\ UNCHANGED <<cd, mountf, params, clock, cdbad>>
           /\ \/ f.spos = f.epos /\ Fails(7) /\ UNCHANGED <<f, loader, faults>>
              \/ \E res : DirectRead(res) /\ OverHanded(res)
  <1>1. pc = "section" /\ UNCHANGED <<cd, mountf, params, clock, cdbad>>
    BY Zenon DEF ReadDirect
  <1>2. todo > 0 /\ Direct
    BY Zenon DEF ReadDirect
  <1>3. CASE f.spos = f.epos
    <2>1. Fails(7) /\ UNCHANGED <<f, loader, faults>>
      BY Zenon, <1>3 DEF ReadDirect
    <2>2. Quiet
      BY <2>1 DEF Device, Quiet
    <2> QED BY <1>1, <1>2, <1>3, <2>1, <2>2
  <1>4. CASE f.spos # f.epos
    <2>1. PICK k \in (Ks \intersect {0, 1}) : \E res :
            /\ res = dev_read(Onwards(LoadStart(k)), bmap(LoadStart(k)), Zero)
            /\ Counts(k) /\ (k > 0 => res.f.bad = 0)
            /\ f' = [res.f EXCEPT !.bad = 0]
            /\ DirectRead(res)
      BY <1>4, DirectSteps
    <2>2. PICK res :
            /\ res = dev_read(Onwards(LoadStart(k)), bmap(LoadStart(k)), Zero)
            /\ Counts(k) /\ (k > 0 => res.f.bad = 0)
            /\ f' = [res.f EXCEPT !.bad = 0]
            /\ DirectRead(res)
      BY <2>1
    <2>3. f.left = 0
      BY <1>2 DEF Direct
    <2>4. Quiet /\ f'.unseen = f.unseen /\ OverHanded(res)
      BY <1>4, <2>2, <2>3, OverFacts
    <2>5. DirectRead(res)
      BY <2>2
    <2> QED BY <1>1, <1>2, <2>4, <2>5
  <1> QED BY <1>3, <1>4

(***************************************************************************)
(* The types are kept.                                                     *)
(***************************************************************************)
Labels == {"start", "count", "cmd", "again", "mount", "msg", "open", "header", "section",
           "jump", "gone", "exited"}
Errors == {0, 2, 3, 4, 6, 7}
Parts == 0..4
Params == boot_file \in Seq(Word) /\ cmd_line \in Seq(Nat) /\ drive_no \in DriveNo /\ part_no \in Parts
Clock == togo \in 0..BTTO /\ timer \in Nat
Loader == mem \in Memory /\ win \in Window /\ h \in Header /\ todo \in Nat
Current == mountf \in BOOLEAN /\ cd \in InodeNo /\ cd # None /\ cdbad \in BOOLEAN
Machine == pc \in Labels /\ err \in Errors /\ Params /\ Clock /\ Loader /\ Current
Types == Device /\ Machine

LEMMA TypeParts == TypeInv <=> Types /\ typed \in 0..MaxTyped
  <1>1. ASSUME TypeInv PROVE Types /\ typed \in 0..MaxTyped
    <2>1. Device
      BY <1>1 DEF TypeInv, TypeOK, Device
    <2>2. Machine
      BY <1>1 DEF TypeInv, TypeOK, Machine, Params, Clock, Loader, Current, Labels, Errors, DriveNo,
                  Parts
    <2> QED BY <1>1, <2>1, <2>2 DEF TypeInv, TypeOK, Types
  <1>2. ASSUME Types, typed \in 0..MaxTyped PROVE TypeInv
    <2>1. Device /\ Machine
      BY <1>2 DEF Types
    <2>2. f.left \in 0..BSZ /\ f.spos \in 0..f.epos /\ f.drive \in 0..255
      BY <2>1 DEF Device, FileState, Left, DriveNo
    <2>3. win.mleft \in 0..PSZ
      BY <2>1 DEF Machine, Loader, Window
    <2>4. cd \in Nat
      BY <2>1, NoneFits DEF Machine, Current
    <2>5. TypeOK
      BY <1>2, <2>1, <2>2, <2>3, <2>4
         DEF TypeOK, Device, Machine, Params, Clock, Loader, Current, Labels, Errors, DriveNo, Parts
    <2>6. f \in FileState /\ f.bad = 0
      BY <2>1 DEF Device
    <2> QED BY <2>1, <2>5, <2>6 DEF TypeInv, Machine, Params, Loader, Current
  <1> QED BY <1>1, <1>2

LEMMA SameParts ==
    /\ Params /\ UNCHANGED params => Params'
    /\ Clock /\ UNCHANGED clock => Clock'
    /\ Loader /\ UNCHANGED loader => Loader'
    /\ Current /\ UNCHANGED <<cd, mountf, cdbad>> => Current'
    /\ Device /\ UNCHANGED <<f, faults>> => Device'
    /\ Quiet => Device'
  <1>1. Params /\ UNCHANGED params => Params'
    BY DEF Params, params
  <1>2. Clock /\ UNCHANGED clock => Clock'
    BY DEF Clock, clock
  <1>3. Loader /\ UNCHANGED loader => Loader'
    BY DEF Loader, loader
  <1>4. Current /\ UNCHANGED <<cd, mountf, cdbad>> => Current'
    BY DEF Current
  <1>5. Device /\ UNCHANGED <<f, faults>> => Device'
    BY DEF Device
  <1>6. Quiet => Device'
    BY DEF Device, Quiet
  <1> QED BY <1>1, <1>2, <1>3, <1>4, <1>5, <1>6

LEMMA InitTypes == Init => TypeInv
  <1> SUFFICES ASSUME Init PROVE TypeInv
    OBVIOUS
  <1>1. Zero \in BlockSet /\ Zero.inodes[1] \in Inode /\ Zero.ptrs \in Seq(Nat)
    <2>1. 1 \in 1..IPB
      BY DisksAssumption
    <2> QED BY <2>1, DisksAssumption DEF BlockSet
  <1>2. 0 \in DriveNo /\ 0 \in Left
    BY DisksAssumption DEF DriveNo, Left
  <1>3. NoFile \in FileState /\ NoFile.bad = 0 /\ NoFile.spos <= NoFile.epos
    BY <1>1, <1>2 DEF NoFile, FileState
  <1>4. Device
    <2>1. faults \in 0..MaxFaults
      BY BooterAssumption DEF Init
    <2> QED BY <1>3, <2>1 DEF Init, Device
  <1>5. Params
    <2>1. 0 \in Parts
      BY DEF Parts
    <2> QED BY <1>2, <2>1, BooterAssumption DEF Init, Params
  <1>6. Clock
    BY BooterAssumption DEF Init, Clock, BTTO
  <1>7. Loader
    <2>1. mem = <<>> /\ mem \in Memory
      <3>1. <<>> \in [{} -> Nat]
        OBVIOUS
      <3> QED BY <3>1 DEF Init, Memory
    <2>2. win \in Window
      BY CellsFit DEF Init, Window
    <2>3. h \in Header
      <3>1. <<0, 0, 0>> \in Seq(Nat) /\ Len(<<0, 0, 0>>) = 3
        OBVIOUS
      <3> QED BY <3>1 DEF Init, Header, PRE, HSZ
    <2>4. todo \in Nat
      BY DEF Init
    <2> QED BY <2>1, <2>2, <2>3, <2>4 DEF Loader
  <1>8. Current
    <2>1. ROOT # None
      BY DEF ROOT, None
    <2> QED BY <2>1, NoneFits DEF Init, Current
  <1>9. pc \in Labels /\ err \in Errors /\ typed \in 0..MaxTyped
    BY BooterAssumption DEF Init, Labels, Errors
  <1> QED BY <1>4, <1>5, <1>6, <1>7, <1>8, <1>9, TypeParts DEF Types, Machine

LEMMA QuietTypes ==
    ASSUME Types, Quiet, pc' \in Labels, UNCHANGED <<cd, mountf, params, clock, loader, err, cdbad>>
    PROVE  Types'
  <1>1. Device' /\ Params' /\ Clock' /\ Loader' /\ Current'
    BY SameParts DEF Types, Machine
  <1>2. err' \in Errors
    BY DEF Types, Machine
  <1> QED BY <1>1, <1>2 DEF Types, Machine

LEMMA StillTypes ==
    ASSUME Types, pc' \in Labels,
           UNCHANGED <<f, cd, mountf, params, clock, loader, err, cdbad, faults>>
    PROVE  Types'
  <1>1. Device' /\ Params' /\ Clock' /\ Loader' /\ Current'
    BY SameParts DEF Types, Machine
  <1>2. err' \in Errors
    BY DEF Types, Machine
  <1> QED BY <1>1, <1>2 DEF Types, Machine

\* The steps that do nothing but go somewhere else.
Moves ==
    \/ Begin \/ KeyDown \/ CountedDown \/ SectionDone
    \/ \E line \in Typed : DoBoot(line) \/ DoExit(line)

LEMMA MovesFrame ==
    ASSUME Moves
    PROVE  /\ UNCHANGED <<f, cd, mountf, params, clock, loader, err, cdbad, faults>>
           /\ \/ pc \in {"start", "count", "cmd"} /\ pc' \in {"cmd", "count", "again", "exited"}
              \/ pc = "section" /\ todo = 0 /\ pc' = "header"
  <1>1. CASE Begin
    BY <1>1 DEF Begin, Go
  <1>2. CASE KeyDown
    BY <1>2 DEF KeyDown, Go
  <1>3. CASE CountedDown
    BY <1>3 DEF CountedDown, Go
  <1>4. CASE SectionDone
    BY <1>4 DEF SectionDone, Go
  <1>5. CASE \E line \in Typed : DoBoot(line) \/ DoExit(line)
    BY <1>5 DEF DoBoot, DoExit, Prompt, Go
  <1> QED BY <1>1, <1>2, <1>3, <1>4, <1>5 DEF Moves

LEMMA MovesTypes ==
    ASSUME Types, Moves
    PROVE  Types'
  <1>1. pc' \in Labels /\ UNCHANGED <<f, cd, mountf, params, clock, loader, err, cdbad, faults>>
    BY MovesFrame DEF Labels
  <1> QED BY <1>1, StillTypes

LEMMA WaitTypes ==
    ASSUME Types, WaitSecond
    PROVE  Types'
  <1>1. /\ pc = "count" /\ togo > 0 /\ togo' = togo - 1
        /\ timer' = (IF Deadline > timer THEN Deadline ELSE timer)
        /\ UNCHANGED <<pc, f, cd, mountf, params, loader, err, cdbad, faults>>
    BY DEF WaitSecond
  <1>2. Device' /\ Params' /\ Loader' /\ Current'
    BY <1>1, SameParts DEF Types, Machine
  <1>3. Clock'
    <2>1. Deadline \in Nat
      <3>1. SECOND \in Nat /\ TIMEMOD \in Nat \ {0} /\ timer \in Nat
        BY BooterAssumption DEF Types, Machine, Clock
      <3> QED BY <3>1 DEF Deadline
    <2>2. togo \in 0..BTTO /\ timer \in Nat
      BY DEF Types, Machine, Clock
    <2>3. timer' \in Nat
      BY <1>1, <2>1, <2>2
    <2>4. togo' \in 0..BTTO
      BY <1>1, <2>2 DEF BTTO
    <2> QED BY <2>3, <2>4 DEF Clock
  <1>4. pc' \in Labels /\ err' \in Errors
    BY <1>1 DEF Types, Machine
  <1> QED BY <1>2, <1>3, <1>4 DEF Types, Machine

LEMMA AgainTypes ==
    ASSUME Types, Again
    PROVE  Types'
  <1>1. /\ boot_file' = IF Len(boot_file) = 0 THEN <<>> ELSE <<boot_file[1]>>
        /\ UNCHANGED <<f, cd, mountf, cmd_line, clock, loader, err, cdbad, faults>>
    BY DEF Again
  <1>2. pc' \in {"mount", "cmd"}
    BY DEF Again, Go
  <1>3. (drive_no' = boot_file[3].num /\ Len(boot_file) >= 3) \/ drive_no' = drive_no
    BY DEF Again
  <1>4. \/ part_no' = part_no \/ part_no' = 0
        \/ part_no' = boot_file[4].num /\ Len(boot_file) >= 4 /\ ~(boot_file[4].num > 4)
    BY DEF Again
  <1>5. boot_file \in Seq(Word) /\ drive_no \in DriveNo /\ part_no \in Parts /\ cmd_line \in Seq(Nat)
    BY DEF Types, Machine, Params
  <1>6. boot_file' \in Seq(Word)
    <2>1. CASE Len(boot_file) = 0
      BY <1>1, <2>1
    <2>2. CASE Len(boot_file) # 0
      <3>1. Len(boot_file) \in Nat
        BY <1>5
      <3>2. Len(boot_file) >= 1
        BY <2>2, <3>1
      <3>3. boot_file[1] \in Word
        BY <1>5, <3>2, WordOf
      <3>4. <<boot_file[1]>> \in Seq(Word)
        BY <3>3
      <3> QED BY <1>1, <2>2, <3>4
    <2> QED BY <2>1, <2>2
  <1>7. drive_no' \in DriveNo
    <2>1. CASE drive_no' = boot_file[3].num /\ Len(boot_file) >= 3
      <3>1. boot_file[3] \in Word
        BY <1>5, <2>1, WordOf
      <3> QED BY <2>1, <3>1 DEF Word, DriveNo
    <2> QED BY <1>3, <1>5, <2>1
  <1>8. part_no' \in Parts
    <2>1. CASE part_no' = boot_file[4].num /\ Len(boot_file) >= 4 /\ ~(boot_file[4].num > 4)
      <3>1. boot_file[4] \in Word
        BY <1>5, <2>1, WordOf
      <3>2. PICK m \in 0..255 : m = boot_file[4].num
        BY <3>1 DEF Word
      <3>3. ~(m > 4)
        BY <2>1, <3>2
      <3>4. m \in Parts
        BY <3>3 DEF Parts
      <3>5. part_no' = m
        BY <2>1, <3>2
      <3> QED BY <3>4, <3>5
    <2>2. 0 \in Parts
      BY DEF Parts
    <2> QED BY <1>4, <1>5, <2>1, <2>2
  <1>9. Device' /\ Clock' /\ Loader' /\ Current' /\ err' \in Errors
    BY <1>1, SameParts DEF Types, Machine
  <1>10. Params'
    BY <1>1, <1>5, <1>6, <1>7, <1>8 DEF Params
  <1>11. pc' \in Labels
    BY <1>2 DEF Labels
  <1> QED BY <1>9, <1>10, <1>11 DEF Types, Machine

LEMMA LeftTypes ==
    ASSUME NEW minor, NEW part, NEW ok \in BOOLEAN, Types, MountLeft(minor, part, ok), Mounted(ok)
    PROVE  Device' /\ Current'
  <1>1. Device'
    BY DEF MountLeft, Device
  <1>2. mountf' = ok /\ cd' = IF ok THEN ROOT ELSE cd
    BY DEF Mounted
  <1>3. cdbad' = (cdbad /\ ~ok)
    BY DEF Mounted
  <1>4. cd \in InodeNo /\ cd # None
    BY DEF Types, Machine, Current
  <1>5. cd' \in InodeNo /\ cd' # None
    <2>1. ROOT # None
      BY DEF ROOT, None
    <2> QED BY <1>2, <1>4, <2>1, NoneFits
  <1>6. mountf' \in BOOLEAN
    BY <1>2
  <1>7. cdbad' \in BOOLEAN
    BY <1>3
  <1> QED BY <1>1, <1>5, <1>6, <1>7 DEF Current

LEMMA MountTypes ==
    ASSUME Types, MountIt
    PROVE  Types'
  <1>1. Device /\ drive_no \in DriveNo /\ part_no \in 0..4
    BY DEF Types, Machine, Params, Parts
  <1>2. /\ pc = "mount" /\ UNCHANGED <<params, clock, loader, err>>
        /\ \E ok \in BOOLEAN : /\ MountLeft(drive_no, part_no, ok) /\ Mounted(ok)
                               /\ pc' = IF ok THEN "msg" ELSE "cmd"
    BY <1>1, MountFrame
  <1>3. PICK ok \in BOOLEAN : /\ MountLeft(drive_no, part_no, ok) /\ Mounted(ok)
                              /\ pc' = IF ok THEN "msg" ELSE "cmd"
    BY <1>2
  <1>4. Device' /\ Current'
    BY <1>3, LeftTypes
  <1>5. Params' /\ Clock' /\ Loader' /\ err' \in Errors
    BY <1>2, SameParts DEF Types, Machine
  <1>6. pc' \in Labels
    BY <1>3 DEF Labels
  <1> QED BY <1>4, <1>5, <1>6 DEF Types, Machine

LEMMA LinesFit == \A line \in Typed : line \in Seq(Word)
  BY BooterAssumption

LEMMA CommandTypes ==
    ASSUME Types, NEW line \in Typed,
           \/ DoLs(line) \/ DoCat(line) \/ DoCd(line) \/ DoMount(line) \/ DoPart(line)
           \/ DoOverride(line) \/ DoFx(line)
    PROVE  Types'
  <1>1. /\ Device /\ cd \in InodeNo /\ cd # None /\ cdbad \in BOOLEAN /\ line \in Seq(Word)
        /\ pc \in Labels /\ err \in Errors
    BY LinesFit DEF Types, Machine, Current
  <1>2. ASSUME Quiet, UNCHANGED <<pc, cd, mountf, params, clock, loader, err, cdbad>>
        PROVE  Types'
    BY <1>1, <1>2, QuietTypes
  <1>3. CASE DoLs(line)
    BY <1>1, <1>2, <1>3, LsFrame
  <1>4. CASE DoCat(line)
    BY <1>1, <1>2, <1>4, CatFrame
  <1>5. CASE DoPart(line)
    BY <1>1, <1>2, <1>5, PartFrame
  <1>6. CASE DoCd(line)
    <2>1. /\ Quiet /\ pc = "cmd" /\ UNCHANGED <<pc, mountf, params, clock, loader, err>>
          /\ \/ cd' = ROOT /\ cdbad' = FALSE
             \/ UNCHANGED <<cd, cdbad>>
             \/ /\ cd' \in InodeNo /\ cd' # None /\ cdbad' \in BOOLEAN
                /\ ~cdbad' => InodeOf(f, cd').dir
      BY <1>1, <1>6, CdFrame
    <2>2. Device' /\ Params' /\ Clock' /\ Loader' /\ pc' \in Labels /\ err' \in Errors
      BY <1>1, <2>1, SameParts DEF Types, Machine
    <2>3. cd' \in InodeNo /\ cd' # None
      <3>1. ROOT # None /\ ROOT \in InodeNo
        BY NoneFits DEF ROOT, None
      <3> QED BY <1>1, <2>1, <3>1
    <2>4. cdbad' \in BOOLEAN
      BY <1>1, <2>1
    <2>5. mountf' \in BOOLEAN
      BY <2>1 DEF Types, Machine, Current
    <2> QED BY <2>2, <2>3, <2>4, <2>5 DEF Types, Machine, Current
  <1>7. CASE DoMount(line)
    <2>1. /\ pc = "cmd" /\ UNCHANGED <<pc, params, clock, loader, err>>
          /\ \E minor \in DriveNo : \E part \in Nat : \E ok \in BOOLEAN :
               MountLeft(minor, part, ok) /\ Mounted(ok)
      BY <1>1, <1>7, DoMountFrame
    <2>2. PICK minor \in DriveNo, part \in Nat, ok \in BOOLEAN :
            MountLeft(minor, part, ok) /\ Mounted(ok)
      BY <2>1
    <2>3. Device' /\ Current'
      BY <2>2, LeftTypes
    <2>4. Params' /\ Clock' /\ Loader' /\ pc' \in Labels /\ err' \in Errors
      BY <1>1, <2>1, SameParts DEF Types, Machine
    <2> QED BY <2>3, <2>4 DEF Types, Machine
  <1>8. CASE DoOverride(line)
    <2>1. /\ Len(line) > 1 /\ boot_file' = Tail(line)
          /\ UNCHANGED <<pc, f, cd, mountf, cmd_line, drive_no, part_no, clock, loader, err,
                         cdbad, faults>>
      BY <1>8 DEF DoOverride
    <2>2. boot_file' \in Seq(Word)
      <3>1. Tail(line) \in Seq(Word)
        <4>1. line # <<>>
          BY <2>1
        <4> QED BY <1>1, <4>1
      <3> QED BY <2>1, <3>1
    <2>3. Params'
      BY <2>1, <2>2 DEF Types, Machine, Params
    <2>4. Device' /\ Clock' /\ Loader' /\ Current' /\ pc' \in Labels /\ err' \in Errors
      BY <1>1, <2>1, SameParts DEF Types, Machine
    <2> QED BY <2>3, <2>4 DEF Types, Machine
  <1>9. CASE DoFx(line)
    <2>1. /\ cmd_line' = Fx
          /\ UNCHANGED <<pc, f, cd, mountf, boot_file, drive_no, part_no, clock, loader, err,
                         cdbad, faults>>
      BY <1>9 DEF DoFx
    <2>2. Params'
      BY <2>1, BooterAssumption DEF Types, Machine, Params
    <2>3. Device' /\ Clock' /\ Loader' /\ Current' /\ pc' \in Labels /\ err' \in Errors
      BY <1>1, <2>1, SameParts DEF Types, Machine
    <2> QED BY <2>2, <2>3 DEF Types, Machine
  <1> QED BY <1>3, <1>4, <1>5, <1>6, <1>7, <1>8, <1>9

LEMMA ShowTypes ==
    ASSUME Types, ShowMessage
    PROVE  Types'
  <1>1. Device /\ cd \in InodeNo
    BY DEF Types, Machine, Current
  <1>2. Quiet /\ pc' \in Labels /\ UNCHANGED <<cd, mountf, params, clock, loader, err, cdbad>>
    BY <1>1, ShowFrame DEF Labels
  <1> QED BY <1>2, QuietTypes

LEMMA OpenTypes ==
    ASSUME Types, OpenKernel
    PROVE  Types'
  <1>1. Device /\ cd \in InodeNo /\ boot_file \in Seq(Word) /\ err \in Errors
    BY DEF Types, Machine, Current, Params
  <1>2. /\ Quiet /\ UNCHANGED <<cd, mountf, params, clock, loader, cdbad>>
        /\ (pc' = "header" /\ err' = err) \/ (pc' = "cmd" /\ err' = 2)
    BY <1>1, OpenFrame
  <1>3. Device' /\ Params' /\ Clock' /\ Loader' /\ Current'
    BY <1>2, SameParts DEF Types, Machine
  <1>4. pc' \in Labels /\ err' \in Errors
    BY <1>1, <1>2 DEF Labels, Errors
  <1> QED BY <1>3, <1>4 DEF Types, Machine

LEMMA HeaderFits ==
    ASSUME NEW s \in Header
    PROVE  s \in Seq(Nat) /\ s[1] \in Nat /\ s[2] \in Nat /\ s[3] \in Nat
  <1>1. s \in Seq(Nat) /\ Len(s) = 3
    BY DEF Header, HSZ
  <1>2. s[1] \in Nat
    <2>1. 1 \in Nat \ {0} /\ Len(s) >= 1
      BY <1>1
    <2> QED BY <1>1, <2>1, WordOf
  <1>3. s[2] \in Nat
    <2>1. 2 \in Nat \ {0} /\ Len(s) >= 2
      BY <1>1
    <2> QED BY <1>1, <2>1, WordOf
  <1>4. s[3] \in Nat
    <2>1. 3 \in Nat \ {0} /\ Len(s) >= 3
      BY <1>1
    <2> QED BY <1>1, <2>1, WordOf
  <1> QED BY <1>1, <1>2, <1>3, <1>4

LEMMA HeaderTypes ==
    ASSUME Types, ReadHeader
    PROVE  Types'
  <1>1. Device /\ err \in Errors /\ Loader
    BY DEF Types, Machine
  <1>2. /\ Quiet /\ pc = "header" /\ UNCHANGED <<cd, mountf, params, clock, mem, cdbad>>
        /\ \E res : HeaderRead(res) /\ Handed(res.got, HSZ)
    BY <1>1, HeaderFrame
  <1>3. PICK res : HeaderRead(res) /\ Handed(res.got, HSZ)
    BY <1>2
  <1>4. Device' /\ Params' /\ Clock' /\ Current'
    BY <1>2, SameParts DEF Types, Machine
  <1>5. CASE Len(res.got) # HSZ
    <2>1. pc' = "cmd" /\ err' = 3 /\ UNCHANGED <<h, todo, win>>
      BY <1>3, <1>5 DEF HeaderRead, Fails, Go
    <2>2. Loader'
      BY <1>1, <1>2, <2>1 DEF Loader
    <2> QED BY <1>4, <2>1, <2>2 DEF Types, Machine, Labels, Errors
  <1>6. CASE Len(res.got) = HSZ
    <2>1. PICK g \in Header : g = res.got
      BY <1>3, <1>6 DEF Header, Handed
    <2>2. /\ h' = g /\ err' = err
          /\ \/ pc' = "jump" /\ UNCHANGED <<todo, win>>
             \/ pc' = "section" /\ todo' = g[2] /\ win' = mseek(g[3])
      BY <1>3, <1>6, <2>1 DEF HeaderRead, Go
    <2>3. g[2] \in Nat /\ mseek(g[3]) \in Window
      BY HeaderFits, MseekFits
    <2>4. todo' \in Nat /\ win' \in Window
      BY <1>1, <2>2, <2>3 DEF Loader
    <2>5. Loader'
      BY <1>1, <1>2, <2>2, <2>4 DEF Loader
    <2>6. pc' \in Labels /\ err' \in Errors
      BY <1>1, <2>2 DEF Labels
    <2> QED BY <1>4, <2>5, <2>6 DEF Types, Machine
  <1> QED BY <1>5, <1>6

LEMMA InterruptTypes ==
    ASSUME Types, Interrupt
    PROVE  Types'
  <1>1. /\ pc' = "cmd" /\ err' = 0
        /\ UNCHANGED <<f, cd, mountf, params, clock, loader, cdbad, faults>>
    BY DEF Interrupt, Fails, Go
  <1>2. Device' /\ Params' /\ Clock' /\ Loader' /\ Current'
    BY <1>1, SameParts DEF Types, Machine
  <1> QED BY <1>1, <1>2 DEF Types, Machine, Labels, Errors

LEMMA DirectRoom ==
    ASSUME Loader, Direct
    PROVE  /\ todo - BSZ \in Nat /\ win.mleft - BSZ \in 0..PSZ /\ BSZ \in Nat \ {0}
           /\ win.paddr \in Nat /\ Advance(win, BSZ) \in Window
           /\ Advance(win, BSZ).paddr = win.paddr + BSZ
  <1>1. todo \in Nat /\ win \in Window /\ BSZ \in Nat \ {0} /\ PSZ \in Nat
    BY CellsFit, DisksAssumption DEF Loader
  <1>2. win.paddr \in Nat /\ win.mleft \in 0..PSZ
    BY <1>1 DEF Window
  <1>3. BSZ <= todo /\ BSZ <= win.mleft
    BY <1>1, <1>2 DEF Direct, Least
  <1>4. todo - BSZ \in Nat /\ win.mleft - BSZ \in 0..PSZ /\ win.paddr + BSZ \in Nat
    BY <1>1, <1>2, <1>3
  <1> QED BY <1>1, <1>2, <1>4 DEF Advance, Window

LEMMA DirectTypes ==
    ASSUME Types, ReadDirect
    PROVE  Types'
  <1>1. Device /\ err \in Errors /\ Loader /\ pc \in Labels
    BY DEF Types, Machine
  <1>2. /\ Quiet /\ Direct /\ UNCHANGED <<cd, mountf, params, clock, cdbad>>
        /\ \/ Fails(7) /\ UNCHANGED loader
           \/ \E res : DirectRead(res) /\ OverHanded(res)
    BY <1>1, DirectFrame
  <1>3. Device' /\ Params' /\ Clock' /\ Current'
    BY <1>2, SameParts DEF Types, Machine
  <1>4. CASE Fails(7) /\ UNCHANGED loader
    <2>1. Loader' /\ pc' \in Labels /\ err' \in Errors
      BY <1>1, <1>4, SameParts DEF Fails, Go, Labels, Errors
    <2> QED BY <1>3, <2>1 DEF Types, Machine
  <1>5. CASE \E res : DirectRead(res) /\ OverHanded(res)
    <2>1. PICK res : DirectRead(res) /\ OverHanded(res)
      BY <1>5
    <2>2. CASE ~res.ok
      <3>1. Fails(6) /\ UNCHANGED loader
        BY <2>1, <2>2 DEF DirectRead
      <3>2. Loader' /\ pc' \in Labels /\ err' \in Errors
        BY <1>1, <3>1, SameParts DEF Fails, Go, Labels, Errors
      <3> QED BY <1>3, <3>2 DEF Types, Machine
    <2>3. CASE res.ok
      <3>1. /\ mem' = Over(Cells(win.paddr, res.got.bytes), mem)
            /\ win' = Advance(win, BSZ) /\ todo' = todo - BSZ /\ UNCHANGED <<pc, err, h>>
        BY <2>1, <2>3 DEF DirectRead
      <3>2. res.got.bytes \in Seq(Nat)
        BY <2>1 DEF OverHanded, BlockSet, Sector
      <3>3. todo - BSZ \in Nat /\ Advance(win, BSZ) \in Window /\ win.paddr \in Nat
        BY <1>1, <1>2, DirectRoom
      <3>4. Cells(win.paddr, res.got.bytes) \in Memory
        BY <3>2, <3>3, CellsFits
      <3>5. mem' \in Memory
        BY <1>1, <3>1, <3>4, OverFits DEF Loader
      <3>6. Loader'
        BY <1>1, <3>1, <3>3, <3>5 DEF Loader
      <3>7. pc' \in Labels /\ err' \in Errors
        BY <1>1, <3>1
      <3> QED BY <1>3, <3>6, <3>7 DEF Types, Machine
    <2> QED BY <2>2, <2>3
  <1> QED BY <1>2, <1>4, <1>5

LEMMA BufferTypes ==
    ASSUME Types, ReadBuffered
    PROVE  Types'
  <1>1. Device /\ err \in Errors /\ Loader /\ pc \in Labels /\ todo \in Nat
    BY DEF Types, Machine, Loader
  <1>2. /\ Quiet /\ UNCHANGED <<cd, mountf, params, clock, h, cdbad>>
        /\ \E res : BufferRead(res) /\ Handed(res.got, todo)
    BY <1>1, BufferFrame
  <1>3. PICK res : BufferRead(res) /\ Handed(res.got, todo)
    BY <1>2
  <1>4. Device' /\ Params' /\ Clock' /\ Current'
    BY <1>2, SameParts DEF Types, Machine
  <1>5. CASE res.got = <<>>
    <2>1. pc' = "cmd" /\ err' = 4 /\ UNCHANGED <<mem, win, todo>>
      BY <1>3, <1>5 DEF BufferRead, Fails, Go
    <2>2. Loader'
      BY <1>1, <1>2, <2>1 DEF Loader
    <2> QED BY <1>4, <2>1, <2>2 DEF Types, Machine, Labels, Errors
  <1>6. CASE res.got # <<>>
    <2> DEFINE w == mwrite(mem, win, res.got)
    <2>1. /\ mem' = w.mem /\ win' = w.win /\ todo' = todo - Len(res.got)
          /\ UNCHANGED <<pc, err>>
      BY <1>3, <1>6 DEF BufferRead
    <2>2. res.got \in Seq(Nat) /\ Len(res.got) = Least(todo, Avail(f))
      BY <1>3 DEF Handed
    <2>3. w.mem \in Memory /\ w.win \in Window
      BY <1>1, <2>2, MwriteFacts DEF Loader
    <2>4. todo - Len(res.got) \in Nat
      <3>1. Len(res.got) \in Nat /\ Len(res.got) <= todo
        BY <1>1, <2>2 DEF Least
      <3> QED BY <1>1, <3>1
    <2> HIDE DEF w
    <2>5. Loader'
      BY <1>1, <1>2, <2>1, <2>3, <2>4 DEF Loader
    <2>6. pc' \in Labels /\ err' \in Errors
      BY <1>1, <2>1
    <2> QED BY <1>4, <2>5, <2>6 DEF Types, Machine
  <1> QED BY <1>5, <1>6

\* What Jump writes.
LEMMA JumpFrame ==
    ASSUME Types, Jump
    PROVE  /\ pc = "jump" /\ pc' = "gone"
           /\ UNCHANGED <<f, cd, mountf, params, clock, h, todo, err, cdbad, faults>>
           /\ win' \in Window /\ mem' \in Memory
           /\ mem' = Over(Cells(CMDAT, cmd_line), Over(Cells(0, Bounce \o <<h[3]>>), mem))
  <1> DEFINE s == Bounce \o <<h[3]>>
             a == mwrite(mem, mseek(0), s)
             b == mwrite(a.mem, mseek(CMDAT), cmd_line)
  <1>1. /\ pc = "jump" /\ pc' = "gone" /\ mem' = b.mem /\ win' = b.win
        /\ UNCHANGED <<f, cd, mountf, params, clock, h, todo, err, cdbad, faults>>
    BY DEF Jump, Go
  <1>2. mem \in Memory /\ h \in Header /\ cmd_line \in Seq(Nat)
    BY DEF Types, Machine, Loader, Params
  <1>3. s \in Seq(Nat)
    <2>1. <<h[3]>> \in Seq(Nat)
      BY <1>2, HeaderFits
    <2> QED BY <2>1, BooterAssumption
  <1>4. mseek(0) \in Window /\ mseek(0).paddr = 0
    BY MseekFits
  <1>5. CMDAT \in Nat /\ mseek(CMDAT) \in Window /\ mseek(CMDAT).paddr = CMDAT
    BY BooterAssumption, MseekFits
  <1> HIDE DEF s
  <1>6. a.mem \in Memory /\ a.mem = Over(Cells(0, s), mem)
    BY <1>2, <1>3, <1>4, MwriteFacts
  <1> HIDE DEF a
  <1>7. b.mem \in Memory /\ b.mem = Over(Cells(CMDAT, cmd_line), a.mem) /\ b.win \in Window
    BY <1>2, <1>5, <1>6, MwriteFacts
  <1> QED BY <1>1, <1>6, <1>7 DEF s

LEMMA JumpTypes ==
    ASSUME Types, Jump
    PROVE  Types'
  <1>1. /\ pc' = "gone" /\ win' \in Window /\ mem' \in Memory
        /\ UNCHANGED <<f, cd, mountf, params, clock, h, todo, err, cdbad, faults>>
    BY JumpFrame
  <1>2. Device' /\ Params' /\ Clock' /\ Current'
    BY <1>1, SameParts DEF Types, Machine
  <1>3. Loader' /\ pc' \in Labels /\ err' \in Errors
    BY <1>1 DEF Types, Machine, Loader, Labels
  <1> QED BY <1>2, <1>3 DEF Types, Machine

(* One step of the program. *)
Handlers ==
    \/ Moves \/ WaitSecond \/ Again \/ MountIt \/ ShowMessage \/ OpenKernel \/ ReadHeader
    \/ Interrupt \/ ReadDirect \/ ReadBuffered \/ Jump
    \/ \E line \in Typed : DoLs(line) \/ DoCat(line) \/ DoCd(line) \/ DoMount(line)
                           \/ DoPart(line) \/ DoOverride(line) \/ DoFx(line)

LEMMA NextCases ==
    ASSUME Next
    PROVE  Handlers /\ (typed' = typed \/ (typed < MaxTyped /\ typed' = typed + 1))
  <1>1. CASE main
    BY <1>1 DEF main, boot, Handlers, Moves
  <1>2. CASE KeyDown /\ UNCHANGED typed
    BY <1>2 DEF Handlers, Moves
  <1>3. CASE docmd
    <2>1. typed < MaxTyped /\ typed' = typed + 1
      BY <1>3 DEF docmd
    <2>2. PICK line \in Typed :
            \/ DoLs(line) \/ DoCat(line) \/ DoCd(line) \/ DoMount(line) \/ DoPart(line)
            \/ DoOverride(line) \/ DoFx(line) \/ DoBoot(line) \/ DoExit(line)
      BY <1>3 DEF docmd
    <2>3. CASE DoBoot(line) \/ DoExit(line)
      BY <2>1, <2>3 DEF Handlers, Moves
    <2>4. CASE ~(DoBoot(line) \/ DoExit(line))
      BY <2>1, <2>2, <2>4 DEF Handlers
    <2> QED BY <2>3, <2>4
  <1> QED BY <1>1, <1>2, <1>3 DEF Next

LEMMA HandlersTypes == Types /\ Handlers => Types'
  <1> SUFFICES ASSUME Types, Handlers PROVE Types'
    OBVIOUS
  <1>1. CASE Moves
    BY <1>1, MovesTypes
  <1>2. CASE WaitSecond
    BY <1>2, WaitTypes
  <1>3. CASE Again
    BY <1>3, AgainTypes
  <1>4. CASE MountIt
    BY <1>4, MountTypes
  <1>5. CASE ShowMessage
    BY <1>5, ShowTypes
  <1>6. CASE OpenKernel
    BY <1>6, OpenTypes
  <1>7. CASE ReadHeader
    BY <1>7, HeaderTypes
  <1>8. CASE Interrupt
    BY <1>8, InterruptTypes
  <1>9. CASE ReadDirect
    BY <1>9, DirectTypes
  <1>10. CASE ReadBuffered
    BY <1>10, BufferTypes
  <1>11. CASE Jump
    BY <1>11, JumpTypes
  <1>12. CASE \E line \in Typed : DoLs(line) \/ DoCat(line) \/ DoCd(line) \/ DoMount(line)
                                  \/ DoPart(line) \/ DoOverride(line) \/ DoFx(line)
    BY <1>12, CommandTypes
  <1> QED BY <1>1, <1>2, <1>3, <1>4, <1>5, <1>6, <1>7, <1>8, <1>9, <1>10, <1>11, <1>12 DEF Handlers

LEMMA StutterTypes == TypeInv /\ UNCHANGED vars => TypeInv'
  <1> SUFFICES ASSUME TypeInv, UNCHANGED vars PROVE TypeInv'
    OBVIOUS
  <1>1. Types /\ typed \in 0..MaxTyped
    BY TypeParts
  <1>2. /\ UNCHANGED params /\ UNCHANGED clock /\ UNCHANGED loader
        /\ UNCHANGED <<f, cd, mountf, err, cdbad, faults, pc, typed>>
    BY DEF vars, params, clock, loader
  <1>3. Types'
    BY <1>1, <1>2, StillTypes DEF Types, Machine
  <1>4. (Types /\ typed \in 0..MaxTyped)'
    BY <1>1, <1>2, <1>3
  <1>5. (TypeInv <=> Types /\ typed \in 0..MaxTyped)'
    BY TypeParts, PTL
  <1> QED BY <1>4, <1>5

LEMMA NextTypes == TypeInv /\ [Next]_vars => TypeInv'
  <1> SUFFICES ASSUME TypeInv, Next PROVE TypeInv'
    BY StutterTypes
  <1>1. Types /\ typed \in 0..MaxTyped
    BY TypeParts
  <1>2. Handlers /\ (typed' = typed \/ (typed < MaxTyped /\ typed' = typed + 1))
    BY NextCases
  <1>3. Types'
    BY <1>1, <1>2, HandlersTypes
  <1>4. typed' \in 0..MaxTyped
    BY <1>1, <1>2, BooterAssumption
  <1>5. (Types /\ typed \in 0..MaxTyped)'
    BY <1>3, <1>4
  <1>6. (TypeInv <=> Types /\ typed \in 0..MaxTyped)'
    BY TypeParts, PTL
  <1> QED BY <1>5, <1>6

\* Whatever is on the disks, whatever the user types and whichever transactions
\* fail, everything keeps its type: the partition one of four or none, the window
\* never with more cells than a page, the open file's position in the file, and
\* cd the number of an inode (main and docmd, booter.c:560-825).
THEOREM TypesKept == Spec => []TypeInv
  <1>1. Spec => []TypeInv
    BY InitTypes, NextTypes, PTL DEF Spec
  <1> QED BY <1>1

\* The part of it that is checked on a run: the partition is one of an MBR's four
\* or none, and the window never has more cells than a page (main, booter.c:806).
THEOREM TypeOKHolds == Spec => []TypeOK
  <1>1. TypeInv => TypeOK
    BY DEF TypeInv
  <1> QED BY <1>1, TypesKept, PTL

(***************************************************************************)
(* What a mount leaves, and the current directory.                         *)
(***************************************************************************)
LEMMA MountedSays ==
    ASSUME NEW x, NEW y, SameDisk(x, y)
    PROVE  /\ At(y, 1) = At(x, 1) /\ y.drive = x.drive
           /\ \A no : InodeOf(y, no) = InodeOf(x, no)
  <1>1. y.drive = x.drive /\ y.part_offset = x.part_offset
    BY DEF SameDisk
  <1>2. At(y, 1) = At(x, 1)
    BY <1>1 DEF At
  <1>3. \A no : InodeOf(y, no) = InodeOf(x, no)
    BY SameDiskSays
  <1> QED BY <1>1, <1>2, <1>3

LEMMA RootIsDir ==
    ASSUME RootsAreDirs, NEW x \in FileState, x.drive \in DOMAIN Disks, At(x, 1).super
    PROVE  InodeOf(x, ROOT).dir
  <1>1. PICK d \in DOMAIN Disks : d = x.drive
    OBVIOUS
  <1>2. PICK n : n = x.part_offset + 1
    OBVIOUS
  <1>3. Block(d, n).super
    BY <1>1, <1>2 DEF At
  <1>4. n \in DOMAIN Disks[d] /\ Disks[d][n].super
    BY <1>3 DEF Block, RootsAreDirs
  <1>5. InodeOf([drive |-> d, part_offset |-> n - 1], ROOT).dir
    BY <1>1, <1>4 DEF RootsAreDirs
  <1>6. PICK y : y = [drive |-> d, part_offset |-> n - 1]
    OBVIOUS
  <1>7. SameDisk(y, x)
    BY <1>1, <1>2, <1>6 DEF SameDisk, FileState
  <1>8. InodeOf(x, ROOT) = InodeOf(y, ROOT)
    BY <1>7, MountedSays
  <1> QED BY <1>5, <1>6, <1>8

LEMMA SameDirs ==
    ASSUME DirInv, SameDisk(f, f'), UNCHANGED <<cd, mountf, cdbad>>,
           pc' \in {"msg", "open"} => mountf
    PROVE  DirInv'
  <1>1. PICK g : g = f'
    OBVIOUS
  <1>2. At(g, 1) = At(f, 1) /\ g.drive = f.drive /\ InodeOf(g, cd) = InodeOf(f, cd)
    BY <1>1, MountedSays
  <1>3. MountInv'
    <2>1. mountf => g.drive \in DOMAIN Disks /\ At(g, 1).super
      BY <1>2 DEF DirInv, MountInv
    <2> QED BY <1>1, <2>1 DEF MountInv
  <1>4. RootsAreDirs => CdIsDir'
    <2>1. RootsAreDirs /\ mountf /\ ~cdbad => InodeOf(g, cd).dir
      BY <1>2 DEF DirInv, CdIsDir
    <2> QED BY <1>1, <2>1 DEF CdIsDir
  <1> QED BY <1>3, <1>4 DEF DirInv

LEMMA QuietSame == Quiet => SameDisk(f, f')
  BY DEF Quiet, SameDisk

LEMMA CdDirs ==
    ASSUME DirInv, Types, NEW line \in Seq(Word), DoCd(line)
    PROVE  DirInv'
  <1>1. Device /\ cd \in InodeNo /\ cd # None /\ cdbad \in BOOLEAN
    BY DEF Types, Machine, Current
  <1>2. /\ Quiet /\ pc = "cmd" /\ UNCHANGED <<pc, mountf, params, clock, loader, err>>
        /\ \/ cd' = ROOT /\ cdbad' = FALSE
           \/ UNCHANGED <<cd, cdbad>>
           \/ /\ cd' \in InodeNo /\ cd' # None /\ cdbad' \in BOOLEAN
              /\ ~cdbad' => InodeOf(f, cd').dir
    BY <1>1, CdFrame
  <1>3. SameDisk(f, f')
    BY <1>2, QuietSame
  <1>4. CASE UNCHANGED <<cd, cdbad>>
    BY <1>2, <1>3, <1>4, SameDirs
  <1>5. CASE ~UNCHANGED <<cd, cdbad>>
    <2>1. PICK g : g = f'
      OBVIOUS
    <2>2. PICK no : no = cd'
      OBVIOUS
    <2>3. /\ At(g, 1) = At(f, 1) /\ g.drive = f.drive
          /\ \A m : InodeOf(g, m) = InodeOf(f, m)
      BY <1>3, <2>1, MountedSays
    <2>4. mountf => g.drive \in DOMAIN Disks /\ At(g, 1).super
      BY <2>3 DEF DirInv, MountInv
    <2>5. RootsAreDirs /\ mountf => InodeOf(g, ROOT).dir
      <3>1. g \in FileState
        BY <1>2, <2>1 DEF Quiet
      <3> QED BY <2>4, <3>1, RootIsDir
    <2>6. RootsAreDirs /\ mountf /\ ~cdbad' => InodeOf(g, no).dir
      <3>1. CASE cd' = ROOT
        BY <2>2, <2>5, <3>1
      <3>2. CASE ~cdbad' => InodeOf(f, cd').dir
        BY <2>2, <2>3, <3>2
      <3> QED BY <1>2, <1>5, <3>1, <3>2
    <2>7. MountInv'
      BY <1>2, <2>1, <2>4 DEF MountInv
    <2>8. RootsAreDirs => CdIsDir'
      BY <1>2, <2>1, <2>2, <2>6 DEF CdIsDir
    <2> QED BY <2>7, <2>8 DEF DirInv
  <1> QED BY <1>4, <1>5

LEMMA LeftDirs ==
    ASSUME NEW minor, NEW part, NEW ok \in BOOLEAN,
           MountLeft(minor, part, ok), Mounted(ok), pc' \in {"msg", "open"} => ok
    PROVE  DirInv'
  <1>1. PICK g : g = f'
    OBVIOUS
  <1>2. mountf' = ok /\ (ok => cd' = ROOT)
    BY DEF Mounted
  <1>3. g \in FileState /\ (ok => g.drive \in DOMAIN Disks /\ At(g, 1).super)
    BY <1>1 DEF MountLeft
  <1>4. RootsAreDirs /\ ok => InodeOf(g, ROOT).dir
    BY <1>3, RootIsDir
  <1>5. MountInv'
    BY <1>1, <1>2, <1>3 DEF MountInv
  <1>6. RootsAreDirs => CdIsDir'
    BY <1>1, <1>2, <1>4 DEF CdIsDir
  <1> QED BY <1>5, <1>6 DEF DirInv

LEMMA InitDirs == Init => DirInv
  <1> SUFFICES ASSUME Init PROVE DirInv
    OBVIOUS
  <1>1. mountf = FALSE /\ pc = "start"
    BY DEF Init
  <1> QED BY <1>1 DEF DirInv, MountInv, CdIsDir

\* The other steps read, or do not use the device at all.
LEMMA StillSame ==
    ASSUME Types, \/ Moves \/ WaitSecond \/ Again \/ Interrupt \/ Jump
                  \/ \E line \in Typed : DoOverride(line) \/ DoFx(line)
    PROVE  /\ UNCHANGED <<f, cd, mountf, cdbad>>
           /\ pc' \notin {"msg", "open"} \/ pc' = pc
  <1>1. CASE Moves
    BY <1>1, MovesFrame
  <1>2. CASE WaitSecond
    BY <1>2 DEF WaitSecond
  <1>3. CASE Again
    <2>1. UNCHANGED <<f, cd, mountf, cdbad>>
      BY <1>3 DEF Again
    <2>2. pc' \in {"mount", "cmd"}
      BY <1>3 DEF Again, Go
    <2> QED BY <2>1, <2>2
  <1>4. CASE Interrupt
    BY <1>4 DEF Interrupt, Fails, Go
  <1>5. CASE Jump
    BY <1>5, JumpFrame
  <1>6. CASE \E line \in Typed : DoOverride(line) \/ DoFx(line)
    BY <1>6 DEF DoOverride, DoFx
  <1> QED BY <1>1, <1>2, <1>3, <1>4, <1>5, <1>6

LEMMA LoadQuiet ==
    ASSUME Types, OpenKernel \/ ReadHeader \/ ReadDirect \/ ReadBuffered
    PROVE  /\ Quiet /\ UNCHANGED <<cd, mountf, params, clock, cdbad>>
           /\ pc' \in {"header", "jump", "section", "cmd"}
  <1>1. Device /\ cd \in InodeNo /\ boot_file \in Seq(Word) /\ todo \in Nat
    BY DEF Types, Machine, Current, Params, Loader
  <1>2. CASE OpenKernel
    BY <1>1, <1>2, OpenFrame
  <1>3. CASE ReadHeader
    <2>1. /\ Quiet /\ UNCHANGED <<cd, mountf, params, clock, cdbad>>
          /\ \E res : HeaderRead(res)
      BY <1>1, <1>3, HeaderFrame
    <2>2. PICK res : HeaderRead(res)
      BY <2>1
    <2>3. pc' \in {"header", "jump", "section", "cmd"}
      BY <2>2 DEF HeaderRead, Fails, Go
    <2> QED BY <2>1, <2>3
  <1>4. CASE ReadDirect
    <2>1. /\ Quiet /\ UNCHANGED <<cd, mountf, params, clock, cdbad>> /\ pc = "section"
          /\ Fails(7) \/ \E res : DirectRead(res)
      BY <1>1, <1>4, DirectFrame
    <2>2. pc' \in {"header", "jump", "section", "cmd"}
      BY <2>1 DEF DirectRead, Fails, Go
    <2> QED BY <2>1, <2>2
  <1>5. CASE ReadBuffered
    <2>1. /\ Quiet /\ UNCHANGED <<cd, mountf, params, clock, cdbad>> /\ pc = "section"
          /\ \E res : BufferRead(res)
      BY <1>1, <1>5, BufferFrame
    <2>2. PICK res : BufferRead(res)
      BY <2>1
    <2>3. pc' \in {"section", "cmd"}
      BY <2>1, <2>2 DEF BufferRead, Fails, Go
    <2> QED BY <2>1, <2>3
  <1> QED BY <1>2, <1>3, <1>4, <1>5

LEMMA HandlersDirs ==
    ASSUME Types, DirInv, Handlers
    PROVE  DirInv'
  <1>1. Device /\ cd \in InodeNo /\ boot_file \in Seq(Word) /\ drive_no \in DriveNo
        /\ part_no \in 0..4 /\ \A line \in Typed : line \in Seq(Word)
    BY LinesFit DEF Types, Machine, Current, Params, Parts
  <1>2. CASE \/ Moves \/ WaitSecond \/ Again \/ Interrupt \/ Jump
             \/ \E line \in Typed : DoOverride(line) \/ DoFx(line)
    <2>1. /\ UNCHANGED <<f, cd, mountf, cdbad>>
          /\ pc' \notin {"msg", "open"} \/ pc' = pc
      BY <1>2, StillSame
    <2>2. SameDisk(f, f')
      BY <2>1 DEF SameDisk
    <2>3. pc' \in {"msg", "open"} => mountf
      BY <2>1 DEF DirInv, MountInv
    <2> QED BY <2>1, <2>2, <2>3, SameDirs
  <1>3. CASE OpenKernel \/ ReadHeader \/ ReadDirect \/ ReadBuffered
    <2>1. /\ Quiet /\ UNCHANGED <<cd, mountf, cdbad>>
          /\ pc' \in {"header", "jump", "section", "cmd"}
      BY <1>3, LoadQuiet
    <2> QED BY <2>1, QuietSame, SameDirs
  <1>4. CASE ShowMessage
    <2>1. Quiet /\ pc = "msg" /\ UNCHANGED <<cd, mountf, cdbad>>
      BY <1>1, <1>4, ShowFrame
    <2>2. pc' \in {"msg", "open"} => mountf
      BY <2>1 DEF DirInv, MountInv
    <2> QED BY <2>1, <2>2, QuietSame, SameDirs
  <1>5. CASE MountIt
    <2>1. PICK ok \in BOOLEAN : /\ MountLeft(drive_no, part_no, ok) /\ Mounted(ok)
                                /\ pc' = IF ok THEN "msg" ELSE "cmd"
      BY <1>1, <1>5, MountFrame
    <2>2. pc' \in {"msg", "open"} => ok
      BY <2>1
    <2> QED BY <2>1, <2>2, LeftDirs
  <1>6. CASE \E line \in Typed : DoLs(line) \/ DoCat(line) \/ DoPart(line)
    <2>1. PICK line \in Seq(Word) : DoLs(line) \/ DoCat(line) \/ DoPart(line)
      BY <1>1, <1>6
    <2>2. Quiet /\ pc = "cmd" /\ UNCHANGED <<pc, cd, mountf, cdbad>>
      <3>1. CASE DoLs(line)
        BY <1>1, <3>1, LsFrame
      <3>2. CASE DoCat(line)
        BY <1>1, <3>2, CatFrame
      <3>3. CASE DoPart(line)
        BY <1>1, <3>3, PartFrame
      <3> QED BY <2>1, <3>1, <3>2, <3>3
    <2> QED BY <2>2, QuietSame, SameDirs
  <1>7. CASE \E line \in Typed : DoCd(line)
    BY <1>1, <1>7, CdDirs
  <1>8. CASE \E line \in Typed : DoMount(line)
    <2>1. PICK line \in Seq(Word) : DoMount(line)
      BY <1>1, <1>8
    <2>2. pc = "cmd" /\ UNCHANGED pc
          /\ \E minor \in DriveNo : \E part \in Nat : \E ok \in BOOLEAN :
               MountLeft(minor, part, ok) /\ Mounted(ok)
      BY <1>1, <2>1, DoMountFrame
    <2>3. PICK minor \in DriveNo : \E part \in Nat : \E ok \in BOOLEAN :
            MountLeft(minor, part, ok) /\ Mounted(ok)
      BY <2>2
    <2>4. PICK part \in Nat : \E ok \in BOOLEAN : MountLeft(minor, part, ok) /\ Mounted(ok)
      BY <2>3
    <2>5. PICK ok \in BOOLEAN : MountLeft(minor, part, ok) /\ Mounted(ok)
      BY <2>4
    <2> QED BY <2>2, <2>5, LeftDirs
  <1> QED BY <1>2, <1>3, <1>4, <1>5, <1>6, <1>7, <1>8 DEF Handlers

LEMMA StutterDirs == DirInv /\ UNCHANGED vars => DirInv'
  <1> SUFFICES ASSUME DirInv, UNCHANGED vars PROVE DirInv'
    OBVIOUS
  <1>1. UNCHANGED <<f, cd, mountf, cdbad, pc>>
    BY DEF vars
  <1>2. SameDisk(f, f')
    BY <1>1 DEF SameDisk
  <1>3. pc' \in {"msg", "open"} => mountf
    BY <1>1 DEF DirInv, MountInv
  <1> QED BY <1>1, <1>2, <1>3, SameDirs

LEMMA NextDirs == TypeInv /\ DirInv /\ [Next]_vars => DirInv'
  <1> SUFFICES ASSUME TypeInv, DirInv, Next PROVE DirInv'
    BY StutterDirs
  <1>1. Types
    BY TypeParts
  <1>2. Handlers
    BY NextCases
  <1> QED BY <1>1, <1>2, HandlersDirs

\* After a mount that went well the super block is where reads look for it, and
\* it stays there: whoever reads files does so with a mounted file system
\* (mount, docd, doload; booter.c:402-429, 630-669, 806-815).
THEOREM DirKept == Spec => []DirInv
  <1>1. Init => DirInv
    BY InitDirs
  <1>2. TypeInv /\ DirInv /\ [Next]_vars => DirInv'
    BY NextDirs
  <1> QED BY <1>1, <1>2, TypesKept, PTL DEF Spec

\* With every super block in front of a file system whose root is a directory,
\* cd stays a directory of the file system that is mounted, on any disks and
\* through any commands and failures (docd, booter.c:630-649).
THEOREM CdIsDirHolds ==
    ASSUME RootsAreDirs
    PROVE  Spec => []CdIsDir
  <1>1. DirInv => CdIsDir
    BY DEF DirInv
  <1> QED BY <1>1, DirKept, PTL

(***************************************************************************)
(* A mount that fails.                                                     *)
(***************************************************************************)
LEMMA MbrFirst ==
    ASSUME OneMbr, NEW d \in DOMAIN Disks, NEW n, Block(d, n).mbr
    PROVE  n = 0
  <1>1. n \in DOMAIN Disks[d] /\ Disks[d][n].mbr
    BY DEF Block, OneMbr
  <1> QED BY <1>1 DEF OneMbr

LEMMA MountOnly ==
    ASSUME Types, Handlers, pc = "mount"
    PROVE  MountIt
  <1>1. Device /\ cd \in InodeNo /\ boot_file \in Seq(Word) /\ todo \in Nat
    BY DEF Types, Machine, Current, Params, Loader
  <1>2. ~Moves
    BY MovesFrame
  <1>3. ~(WaitSecond \/ Again \/ Interrupt \/ Jump)
    BY DEF WaitSecond, Again, Interrupt, Jump
  <1>4. ~(ShowMessage \/ OpenKernel \/ ReadHeader \/ ReadDirect \/ ReadBuffered)
    BY Zenon DEF ShowMessage, OpenKernel, ReadHeader, ReadDirect, ReadBuffered
  <1>5. ASSUME NEW line
        PROVE  ~(DoLs(line) \/ DoCat(line) \/ DoCd(line) \/ DoMount(line)
                 \/ DoPart(line) \/ DoOverride(line) \/ DoFx(line))
    BY Zenon DEF DoLs, DoCat, DoCd, DoMount, DoPart, DoOverride, DoFx, Prompt
  <1> QED BY <1>2, <1>3, <1>4, <1>5 DEF Handlers

LEMMA OffsetRight ==
    ASSUME OneMbr, NEW d \in DOMAIN Disks, NEW part \in Nat, NEW off, NEW new,
           new = IF ~Block(d, off).mbr THEN 0
                 ELSE IF part # 0 THEN Block(d, off).part[d] ELSE off,
           (Block(d, off).mbr \/ part = 0) => ~Block(d, new + 1).super
    PROVE  Mounts(d, part, new) <=> Mounts(d, part, 0)
  <1>1. CASE ~Block(d, off).mbr
    BY <1>1
  <1>2. CASE Block(d, off).mbr /\ Block(d, new).mbr
    BY <1>2, MbrFirst
  <1>3. CASE Block(d, off).mbr /\ ~Block(d, new).mbr
    <2>1. off = 0
      BY <1>3, MbrFirst
    <2>2. part # 0
      BY <1>3
    <2>3. ~Mounts(d, part, new)
      BY Zenon, <1>3, <2>2 DEF Mounts
    <2>4. new = IF part # 0 THEN Block(d, 0).part[d] ELSE 0
      BY <1>3, <2>1
    <2>5. ~Mounts(d, part, 0)
      BY Zenon, <1>3, <2>1, <2>4 DEF Mounts
    <2> QED BY <2>3, <2>5
  <1> QED BY <1>1, <1>2, <1>3

Retried ==
    (pc = "mount" /\ pc' = "cmd" /\ faults' = faults) =>
      (Mounts(drive_no, part_no, f'.part_offset) <=> Mounts(drive_no, part_no, 0))

LEMMA MountRetried ==
    ASSUME OneMbr
    PROVE  TypeInv /\ [Next]_vars => [Retried]_vars
  <1> SUFFICES ASSUME TypeInv, Next, pc = "mount", pc' = "cmd", faults' = faults
               PROVE  Mounts(drive_no, part_no, f'.part_offset) <=> Mounts(drive_no, part_no, 0)
    BY DEF Retried
  <1>1. Types /\ Handlers
    BY TypeParts, NextCases
  <1>2. MountIt
    BY <1>1, MountOnly
  <1>3. Device /\ drive_no \in DriveNo /\ part_no \in 0..4 /\ part_no \in Nat
    BY <1>1 DEF Types, Machine, Params, Parts
  <1>4. PICK ok \in BOOLEAN : /\ MountLeft(drive_no, part_no, ok)
                              /\ pc' = IF ok THEN "msg" ELSE "cmd"
    BY <1>2, <1>3, MountFrame
  <1>5. CASE drive_no \notin DOMAIN Disks
    BY <1>5 DEF Mounts
  <1>6. CASE drive_no \in DOMAIN Disks
    <2>1. ~ok
      BY <1>4
    <2>2. PICK new : new = f'.part_offset
      OBVIOUS
    <2>3. PICK off : off = f.part_offset
      OBVIOUS
    <2>4. /\ new = NewOffset(f, drive_no, part_no)
          /\ (BlockZero(f, drive_no).mbr \/ part_no = 0) => ~Block(drive_no, new + 1).super
      BY <1>4, <1>6, <2>1, <2>2 DEF MountLeft
    <2>5. /\ new = IF ~Block(drive_no, off).mbr THEN 0
                   ELSE IF part_no # 0 THEN Block(drive_no, off).part[drive_no] ELSE off
          /\ (Block(drive_no, off).mbr \/ part_no = 0) => ~Block(drive_no, new + 1).super
      BY Zenon, <2>3, <2>4 DEF NewOffset, BlockZero
    <2>6. Mounts(drive_no, part_no, new) <=> Mounts(drive_no, part_no, 0)
      BY <1>3, <1>6, <2>5, OffsetRight
    <2> QED BY <2>2, <2>6
  <1> QED BY <1>5, <1>6

\* On disks that hold a master boot record nowhere but in their first block, a
\* mount that failed though the device answered has left no part_offset that
\* would make the next one fare differently from the first (mount,
\* booter.c:402-429).
THEOREM RetryHolds ==
    ASSUME OneMbr
    PROVE  Spec => RetryWorks
  <1>1. TypeInv /\ [Next]_vars => [Retried]_vars
    BY MountRetried
  <1>2. Spec => [][Retried]_vars
    BY <1>1, TypesKept, PTL DEF Spec
  <1> QED BY <1>2 DEF RetryWorks, Retried

(***************************************************************************)
(* A kernel file, section by section.                                      *)
(***************************************************************************)
Ends == {"more", "no header", "well", "truncated"}
SectionAt == [p : Nat \ {0}, mem : Memory, entry : Nat, ends : Ends]

\* What NextSection makes of the place at.
Follows(s, at, to) ==
    \/ at.ends # "more" /\ to = at
    \/ /\ at.ends = "more"
       /\ \/ at.p + 2 > Len(s) /\ to.ends = "no header"
          \/ /\ at.p + 2 <= Len(s) /\ s[at.p] # PRE
             /\ to.ends = "well" /\ to.entry = s[at.p + 2] /\ to.mem = at.mem
          \/ /\ at.p + 2 <= Len(s) /\ s[at.p] = PRE
             /\ at.p + 2 + s[at.p + 1] > Len(s) /\ to.ends = "truncated"
          \/ /\ at.p + 2 <= Len(s) /\ s[at.p] = PRE /\ at.p + 2 + s[at.p + 1] <= Len(s)
             /\ to.ends = "more" /\ to.p = at.p + 3 + s[at.p + 1]
             /\ to.mem = Partly(s, at, s[at.p + 1])

LEMMA HeaderThere ==
    ASSUME NEW s \in Seq(Nat), NEW p \in Nat \ {0}, p + 2 <= Len(s)
    PROVE  s[p] \in Nat /\ s[p + 1] \in Nat /\ s[p + 2] \in Nat
  <1>1. PICK a \in Nat \ {0} : a = p + 1 /\ Len(s) >= a
    OBVIOUS
  <1>2. PICK b \in Nat \ {0} : b = p + 2 /\ Len(s) >= b
    OBVIOUS
  <1>3. s[p] \in Nat
    <2>1. Len(s) >= p
      OBVIOUS
    <2> QED BY <2>1, WordOf
  <1>4. s[a] \in Nat
    BY <1>1, WordOf
  <1>5. s[b] \in Nat
    BY <1>2, WordOf
  <1> QED BY Zenon, <1>1, <1>2, <1>3, <1>4, <1>5

\* A part of a section that is in the file.
LEMMA PartlyFits ==
    ASSUME NEW s \in Seq(Nat), NEW at \in SectionAt, at.p + 2 <= Len(s), NEW n \in Nat,
           at.p + 2 + n <= Len(s)
    PROVE  /\ Partly(s, at, n) \in Memory
           /\ SubSeq(s, at.p + 3, at.p + 3 + n - 1) \in Seq(Nat)
           /\ Partly(s, at, n)
                = Over(Cells(s[at.p + 2], SubSeq(s, at.p + 3, at.p + 3 + n - 1)), at.mem)
  <1>1. at.p \in Nat \ {0} /\ at.mem \in Memory
    BY DEF SectionAt
  <1>2. PICK addr \in Nat : addr = s[at.p + 2]
    BY <1>1, HeaderThere
  <1>3. PICK b \in Nat : b = at.p + 2
    BY <1>1
  <1>4. IsPart(s, b, n, SubSeq(s, b + 1, b + n))
    BY <1>3, PartOf
  <1>5. b + 1 = at.p + 3 /\ b + n = at.p + 3 + n - 1
    <2>1. PICK p \in Nat : p = at.p
      BY <1>1
    <2>2. b = p + 2
      BY Zenon, <1>3, <2>1
    <2>3. b + 1 = p + 3 /\ b + n = p + 3 + n - 1
      BY <2>2
    <2> QED BY Zenon, <2>1, <2>3
  <1>6. PICK u \in Seq(Nat) : u = SubSeq(s, at.p + 3, at.p + 3 + n - 1)
    BY <1>4, <1>5 DEF IsPart
  <1>7. Cells(addr, u) \in Memory
    BY CellsFits
  <1>8. Over(Cells(addr, u), at.mem) \in Memory
    BY <1>1, <1>7, OverIs
  <1>9. Partly(s, at, n) = Over(Cells(addr, u), at.mem)
    BY <1>2, <1>6 DEF Partly, HSZ
  <1> QED BY <1>2, <1>6, <1>8, <1>9

LEMMA FollowsFacts ==
    ASSUME NEW s \in Seq(Nat), NEW at \in SectionAt
    PROVE  NextSection(s, at) \in SectionAt /\ Follows(s, at, NextSection(s, at))
  <1>1. at.p \in Nat \ {0} /\ at.mem \in Memory /\ at.entry \in Nat /\ at.ends \in Ends
    BY DEF SectionAt
  <1>6. PICK to : to = NextSection(s, at)
    OBVIOUS
  <1> SUFFICES to \in SectionAt /\ Follows(s, at, to)
    BY <1>6
  <1>2. CASE at.ends # "more"
    BY <1>2, <1>6 DEF NextSection, Follows
  <1>3. CASE at.ends = "more" /\ at.p + 2 > Len(s)
    <2>1. at.p + HSZ - 1 > Len(s)
      BY <1>1, <1>3 DEF HSZ
    <2>2. to = [at EXCEPT !.ends = "no header"]
      BY <1>3, <2>1, <1>6 DEF NextSection
    <2>3. to \in SectionAt /\ to.ends = "no header"
      BY <2>2 DEF SectionAt, Ends
    <2> QED BY <1>3, <2>3 DEF Follows
  <1>4. CASE at.ends = "more" /\ at.p + 2 <= Len(s) /\ s[at.p] # PRE
    <2>1. ~(at.p + HSZ - 1 > Len(s))
      BY <1>1, <1>4 DEF HSZ
    <2>2. to = [at EXCEPT !.ends = "well", !.entry = s[at.p + 2]]
      BY <1>4, <2>1, <1>6 DEF NextSection
    <2>3. s[at.p + 2] \in Nat
      BY <1>1, <1>4, HeaderThere
    <2>4. to \in SectionAt /\ to.ends = "well" /\ to.entry = s[at.p + 2] /\ to.mem = at.mem
      BY <2>2, <2>3 DEF SectionAt, Ends
    <2> QED BY <1>4, <2>4 DEF Follows
  <1>5. CASE at.ends = "more" /\ at.p + 2 <= Len(s) /\ s[at.p] = PRE
    <2>1. ~(at.p + HSZ - 1 > Len(s)) /\ at.p + HSZ = at.p + 3
      BY <1>1, <1>5 DEF HSZ
    <2>2. PICK n \in Nat : n = s[at.p + 1]
      BY <1>1, <1>5, HeaderThere
    <2>3. PICK next \in Nat \ {0} : next = at.p + 3 + n
      BY <1>1
    <2>4. CASE at.p + 2 + n > Len(s)
      <3>1. next - 1 > Len(s)
        BY <1>1, <2>3, <2>4
      <3>2. to = [at EXCEPT !.ends = "truncated"]
        BY <1>5, <2>1, <2>2, <2>3, <3>1, <1>6 DEF NextSection
      <3>3. to \in SectionAt /\ to.ends = "truncated"
        BY <3>2 DEF SectionAt, Ends
      <3> QED BY <1>5, <2>2, <2>4, <3>3 DEF Follows
    <2>5. CASE at.p + 2 + n <= Len(s)
      <3>1. ~(next - 1 > Len(s))
        BY <1>1, <2>3, <2>5
      <3>2. PICK m \in Memory : m = Partly(s, at, n)
        BY <1>5, <2>5, PartlyFits
      <3>3. m = Over(Cells(s[at.p + 2], SubSeq(s, at.p + HSZ, next - 1)), at.mem)
        <4>1. next - 1 = at.p + HSZ + n - 1
          <5>1. PICK q \in Nat : q = at.p
            BY <1>1
          <5>2. next = q + 3 + n
            BY <2>3, <5>1
          <5>3. next - 1 = q + HSZ + n - 1
            BY <5>2 DEF HSZ
          <5> QED BY <5>1, <5>3
        <4> QED BY Zenon, <3>2, <4>1 DEF Partly
      <3>4. to = [at EXCEPT !.p = next, !.mem = m]
        BY <1>5, <2>1, <2>2, <2>3, <3>1, <3>3, <1>6 DEF NextSection
      <3>5. to \in SectionAt /\ to.ends = "more" /\ to.p = next /\ to.mem = m
        BY <1>5, <3>4 DEF SectionAt
      <3> QED BY <1>5, <2>2, <2>3, <2>5, <3>2, <3>5 DEF Follows
    <2> QED BY <1>1, <2>2, <2>4, <2>5
  <1> QED BY <1>1, <1>2, <1>3, <1>4, <1>5

SectionsOf(s) ==
    CHOOSE u : u = [k \in 0..(Len(s) + 1) |-> IF k = 0 THEN NoSection
                                              ELSE NextSection(s, u[k - 1])]

LEMMA NoSectionFits == NoSection \in SectionAt
  <1>1. <<>> \in [{} -> Nat]
    OBVIOUS
  <1>2. PICK m \in Memory : m = <<>>
    BY <1>1 DEF Memory
  <1>3. [p |-> 1, mem |-> m, entry |-> 0, ends |-> "more"] \in SectionAt
    BY DEF SectionAt, Ends
  <1> QED BY <1>2, <1>3 DEF NoSection

LEMMA SectionSteps ==
    ASSUME NEW s \in Seq(Nat)
    PROVE  /\ Sections(s) = SectionsOf(s) /\ Image(s) = SectionsOf(s)[Len(s) + 1]
           /\ SectionsOf(s)[0] = NoSection
           /\ \A k \in 1..(Len(s) + 1) : SectionsOf(s)[k] = NextSection(s, SectionsOf(s)[k - 1])
  <1>0. PICK n \in Nat : n = Len(s) + 1
    OBVIOUS
  <1> DEFINE b == NoSection
             G == [p \in SectionAt \X (1..n) |-> NextSection(s, p[1])]
             Is(u) == u = [k \in 0..n |-> IF k = 0 THEN b ELSE NextSection(s, u[k - 1])]
  <1>1. b \in SectionAt /\ n \in Nat
    BY NoSectionFits
  <1>2. \A at \in SectionAt : NextSection(s, at) \in SectionAt
    BY FollowsFacts
  <1>3. PICK a \in [0..n -> SectionAt] : a[0] = b /\ \A k \in 1..n : a[k] = G[<<a[k - 1], k>>]
    <2>1. G \in [SectionAt \X (1..n) -> SectionAt]
      BY <1>2
    <2> HIDE DEF G, b
    <2>2. Recurses(SectionAt, b, n, G)
      BY <1>1, <2>1, Recursive
    <2> QED BY <2>2 DEF Recurses
  <1>4. \A k \in 1..n : a[k] = NextSection(s, a[k - 1])
    <2> SUFFICES ASSUME NEW k \in 1..n PROVE a[k] = NextSection(s, a[k - 1])
      OBVIOUS
    <2>1. <<a[k - 1], k>> \in SectionAt \X (1..n)
      BY <1>1, <1>3
    <2> QED BY <1>3, <2>1
  <1> HIDE DEF b
  <1>5. Is(a)
    BY <1>1, <1>3, <1>4
  <1> DEFINE c == CHOOSE u : Is(u)
  <1>6. Is(c)
    <2> HIDE DEF Is
    <2> QED BY <1>5
  <1>7. SectionsOf(s) = c /\ Sections(s) = c
    BY <1>0 DEF SectionsOf, Sections, b
  <1>8. Image(s) = c[n]
    BY <1>0, <1>7 DEF Image
  <1> HIDE DEF c, G
  <1>9. c[0] = b /\ \A k \in 1..n : c[k] = NextSection(s, c[k - 1])
    BY <1>1, <1>6
  <1> QED BY <1>0, <1>7, <1>8, <1>9 DEF b

\* Every section is at least a header, so the file has no more of them than cells.
LEMMA SectionsFit ==
    ASSUME NEW s \in Seq(Nat), NEW k \in 0..(Len(s) + 1)
    PROVE  /\ Sections(s)[k] \in SectionAt
           /\ Sections(s)[k].ends = "more" =>
                k <= Len(s) /\ Sections(s)[k].p <= Len(s) + 1 /\ k <= Sections(s)[k].p - 1
  <1> DEFINE u == SectionsOf(s)
             Fits(j) == /\ u[j] \in SectionAt
                        /\ u[j].ends = "more" => u[j].p <= Len(s) + 1 /\ 3 * j <= u[j].p - 1
             T == {j \in 0..(Len(s) + 1) : Fits(j)}
  <1>1. PICK N \in Nat : N = Len(s) + 1
    OBVIOUS
  <1>2. /\ Sections(s) = u /\ u[0] = NoSection
        /\ \A j \in 1..N : u[j] = NextSection(s, u[j - 1])
    BY <1>1, SectionSteps
  <1> HIDE DEF u
  <1>3. 0 \in T
    <2>1. u[0] \in SectionAt
      BY <1>2, NoSectionFits
    <2>2. u[0].p = 1
      BY <1>2 DEF NoSection
    <2> QED BY <2>1, <2>2
  <1>4. ASSUME NEW j \in 1..N, j - 1 \in T PROVE j \in T
    <2>1. PICK at \in SectionAt : at = u[j - 1]
      BY <1>4
    <2>2. at.ends = "more" => at.p <= Len(s) + 1 /\ 3 * (j - 1) <= at.p - 1
      BY <1>4, <2>1
    <2>3. PICK to \in SectionAt : to = u[j] /\ Follows(s, at, to)
      BY <1>2, <2>1, FollowsFacts
    <2>4. at.p \in Nat \ {0} /\ to.p \in Nat \ {0}
      BY DEF SectionAt
    <2>5. to.ends = "more" => to.p <= Len(s) + 1 /\ 3 * j <= to.p - 1
      <3> SUFFICES ASSUME to.ends = "more" PROVE to.p <= Len(s) + 1 /\ 3 * j <= to.p - 1
        OBVIOUS
      <3>1. /\ at.ends = "more" /\ at.p + 2 <= Len(s) /\ at.p + 2 + s[at.p + 1] <= Len(s)
            /\ to.p = at.p + 3 + s[at.p + 1]
        BY <2>3 DEF Follows
      <3>2. PICK n \in Nat : n = s[at.p + 1]
        BY <2>4, <3>1, HeaderThere
      <3>3. to.p = at.p + 3 + n /\ at.p + 2 + n <= Len(s)
        BY <3>1, <3>2
      <3>4. PICK p \in Nat : p = at.p
        BY <2>4
      <3>5. PICK q \in Nat : q = to.p
        BY <2>4
      <3>6. PICK N1 \in Nat : N1 = Len(s)
        OBVIOUS
      <3>7. 3 * (j - 1) <= p - 1 /\ q = p + 3 + n /\ p + 2 + n <= N1
        BY <2>2, <3>1, <3>3, <3>4, <3>5, <3>6
      <3>8. j \in Nat
        BY <1>1
      <3>9. 3 * j <= q - 1 /\ q <= N1 + 1
        BY <3>7, <3>8
      <3> QED BY <3>5, <3>6, <3>9
    <2>6. j \in 0..(Len(s) + 1)
      BY <1>1
    <2> QED BY <2>3, <2>5, <2>6
  <1>5. k \in T
    <2> HIDE DEF T
    <2>1. \A j \in 0..N : j \in T
      BY <1>1, <1>3, <1>4, Upward
    <2> QED BY <1>1, <2>1
  <1>6. Fits(k)
    BY <1>5
  <1>7. u[k].p \in Nat /\ k \in Nat /\ Len(s) \in Nat
    BY <1>6 DEF SectionAt
  <1> QED BY <1>2, <1>6, <1>7

\* Once the sections have ended nothing is added.
LEMMA EndsStay ==
    ASSUME NEW s \in Seq(Nat), NEW k \in 0..(Len(s) + 1), Sections(s)[k].ends # "more"
    PROVE  Image(s) = Sections(s)[k]
  <1> DEFINE u == SectionsOf(s)
  <1>1. PICK N \in Nat : N = Len(s) + 1
    OBVIOUS
  <1> DEFINE T == {j \in 0..N : j >= k => u[j] = u[k]}
  <1>2. /\ Sections(s) = u /\ Image(s) = u[N]
        /\ \A j \in 1..N : u[j] = NextSection(s, u[j - 1])
    BY <1>1, SectionSteps
  <1> HIDE DEF u
  <1>3. 0 \in T
    BY <1>1
  <1>4. ASSUME NEW j \in 1..N, j - 1 \in T PROVE j \in T
    <2>1. CASE j - 1 >= k
      <3>1. u[j - 1] = u[k]
        BY <1>4, <2>1
      <3>2. u[j] = NextSection(s, u[k])
        BY <1>2, <3>1
      <3>3. NextSection(s, u[k]) = u[k]
        BY <1>2 DEF NextSection
      <3> QED BY <1>1, <3>2, <3>3
    <2>2. CASE j - 1 < k
      BY <1>1, <2>2
    <2> QED BY <1>1, <2>1, <2>2
  <1>5. N \in T
    <2> HIDE DEF T
    <2>1. \A j \in 0..N : j \in T
      BY <1>1, <1>3, <1>4, Upward
    <2> QED BY <1>1, <2>1
  <1>6. N >= k
    BY <1>1
  <1> QED BY <1>2, <1>5, <1>6

\* One section further, from a place where they have not ended.
LEMMA NextOne ==
    ASSUME NEW s \in Seq(Nat), NEW k \in Places(s), Sections(s)[k].ends = "more"
    PROVE  /\ Sections(s)[k] \in SectionAt
           /\ Follows(s, Sections(s)[k], Sections(s)[k + 1])
           /\ Sections(s)[k + 1].ends = "more" => k + 1 \in Places(s)
           /\ Sections(s)[k + 1].ends # "more" => Image(s) = Sections(s)[k + 1]
           /\ Sections(s)[k].p \in Headers(s)
  <1>1. PICK n \in 1..(Len(s) + 1) : n = k + 1 /\ n - 1 = k
    BY DEF Places
  <1>2. k \in 0..(Len(s) + 1) /\ n \in 0..(Len(s) + 1)
    BY <1>1 DEF Places
  <1>3. PICK at \in SectionAt : at = Sections(s)[k]
    BY <1>2, SectionsFit
  <1>4. Sections(s)[n] = NextSection(s, at)
    <2>1. Sections(s) = SectionsOf(s) /\ SectionsOf(s)[n] = NextSection(s, SectionsOf(s)[n - 1])
      BY SectionSteps
    <2> QED BY <1>1, <1>3, <2>1
  <1>5. Follows(s, at, Sections(s)[n])
    BY <1>4, FollowsFacts
  <1>6. Sections(s)[n].ends = "more" => n \in Places(s)
    BY <1>1, <1>2, SectionsFit DEF Places
  <1>7. Sections(s)[n].ends # "more" => Image(s) = Sections(s)[n]
    BY <1>2, EndsStay
  <1>8. Sections(s)[k].p \in Headers(s)
    BY <1>2 DEF Headers
  <1> QED BY <1>1, <1>3, <1>5, <1>6, <1>7, <1>8

(***************************************************************************)
(* Loading, cell by cell: what a header or a part of a section that is     *)
(* read makes of the place in the file.                                    *)
(***************************************************************************)
LEMMA HoldsOver ==
    ASSUME NEW c \in Memory, NEW m \in Memory, NEW part \in Memory, Holds(m, part)
    PROVE  Holds(Over(c, m), Over(c, part))
  <1>1. PICK r \in Memory : r = Over(c, m) /\ IsOver(c, m, r)
    BY OverIs
  <1>2. PICK o \in Memory : o = Over(c, part) /\ IsOver(c, part, o)
    BY OverIs
  <1>3. ASSUME NEW a \in DOMAIN o PROVE a \in DOMAIN r /\ r[a] = o[a]
    <2>1. CASE a \in DOMAIN c
      BY <1>1, <1>2, <2>1 DEF IsOver
    <2>2. CASE a \notin DOMAIN c
      <3>1. a \in DOMAIN part /\ o[a] = part[a]
        BY <1>2, <1>3, <2>2 DEF IsOver
      <3>2. a \in DOMAIN m /\ m[a] = part[a]
        BY <3>1 DEF Holds
      <3> QED BY <1>1, <2>2, <3>1, <3>2 DEF IsOver
    <2> QED BY <2>1, <2>2
  <1>4. Holds(r, o)
    BY <1>3 DEF Holds
  <1> QED BY <1>1, <1>2, <1>4

\* u is the n numbers of s behind the first a.
Cut(s, a, n, u) == u = SubSeq(s, a + 1, a + n) /\ IsPart(s, a, n, u)

LEMMA CutIs ==
    ASSUME NEW s \in Seq(Nat), NEW a \in Nat, NEW n \in Nat, a + n <= Len(s)
    PROVE  \E u \in Seq(Nat) : Cut(s, a, n, u) /\ Len(u) = n
  <1>1. IsPart(s, a, n, SubSeq(s, a + 1, a + n))
    BY PartOf
  <1>2. SubSeq(s, a + 1, a + n) \in Seq(Nat) /\ Len(SubSeq(s, a + 1, a + n)) = n
    BY <1>1 DEF IsPart
  <1> QED BY <1>1, <1>2 DEF Cut

LEMMA ConcatIs ==
    ASSUME NEW u \in Seq(Nat), NEW v \in Seq(Nat)
    PROVE  /\ u \o v \in Seq(Nat) /\ Len(u \o v) = Len(u) + Len(v)
           /\ \A j \in 1..(Len(u) + Len(v)) :
                (u \o v)[j] = IF j <= Len(u) THEN u[j] ELSE v[j - Len(u)]
  OBVIOUS

LEMMA CutCells ==
    ASSUME NEW s \in Seq(Nat), NEW a \in Nat, NEW n \in Nat, NEW m \in Nat, a + n + m <= Len(s)
    PROVE  SubSeq(s, a + 1, a + n) \o SubSeq(s, a + n + 1, a + n + m) = SubSeq(s, a + 1, a + n + m)
  <1>1. PICK u \in Seq(Nat) : Cut(s, a, n, u) /\ Len(u) = n
    <2>1. a + n <= Len(s)
      OBVIOUS
    <2> QED BY <2>1, CutIs
  <1>2. PICK b \in Nat : b = a + n
    OBVIOUS
  <1>3. PICK v \in Seq(Nat) : Cut(s, b, m, v) /\ Len(v) = m
    <2>1. b + m <= Len(s)
      BY <1>2
    <2> QED BY <2>1, CutIs
  <1>4. PICK l \in Nat : l = n + m
    OBVIOUS
  <1>5. PICK w \in Seq(Nat) : Cut(s, a, l, w) /\ Len(w) = l
    <2>1. a + l <= Len(s)
      BY <1>4
    <2> QED BY <2>1, CutIs
  <1>6. PICK x \in Seq(Nat) : /\ x = u \o v /\ Len(x) = l
                              /\ \A j \in 1..l : x[j] = IF j <= n THEN u[j] ELSE v[j - n]
    <2>1. Len(u) = n /\ Len(v) = m
      BY <1>1, <1>3
    <2>2. PICK x \in Seq(Nat) :
            /\ x = u \o v /\ Len(x) = Len(u) + Len(v)
            /\ \A j \in 1..(Len(u) + Len(v)) : x[j] = IF j <= Len(u) THEN u[j] ELSE v[j - Len(u)]
      BY ConcatIs
    <2>3. /\ x = u \o v /\ Len(x) = n + m
          /\ \A j \in 1..(n + m) : x[j] = IF j <= n THEN u[j] ELSE v[j - n]
      BY Zenon, <2>1, <2>2
    <2> QED BY Zenon, <1>4, <2>3
  <1>7. ASSUME NEW j \in 1..l PROVE x[j] = w[j]
    <2>1. w[j] = s[a + j]
      BY <1>5 DEF Cut, IsPart
    <2>2. CASE j <= n
      <3>1. u[j] = s[a + j]
        BY <1>1, <2>2 DEF Cut, IsPart
      <3>2. x[j] = u[j]
        BY <1>6, <2>2
      <3> QED BY <2>1, <3>1, <3>2
    <2>3. CASE j > n
      <3>1. j - n \in 1..m /\ b + (j - n) = a + j
        BY <1>2, <1>4, <2>3
      <3>2. v[j - n] = s[b + (j - n)]
        BY <1>3, <3>1 DEF Cut, IsPart
      <3>3. x[j] = v[j - n]
        <4>1. ~(j <= n)
          BY <1>4, <2>3
        <4> QED BY <1>6, <4>1
      <3> QED BY <2>1, <3>1, <3>2, <3>3
    <2> QED BY <2>2, <2>3
  <1>10. x = w
    BY <1>5, <1>6, <1>7, SeqEqual
  <1>11. a + l = a + n + m /\ b + 1 = a + n + 1 /\ b + m = a + n + m
    BY <1>2, <1>4
  <1> QED BY Zenon, <1>1, <1>2, <1>3, <1>5, <1>6, <1>10, <1>11 DEF Cut

LEMMA HeaderMissing ==
    ASSUME NEW s \in Seq(Nat), NEW k \in Places(s), NEW m, NEW pos \in Nat, AtHeader(s, k, pos, m)
    PROVE  /\ pos + 1 \in Headers(s)
           /\ pos = Len(s) => Image(s).ends = "no header"
  <1>1. PICK at : at = Sections(s)[k] /\ at.ends = "more" /\ at.p = pos + 1
    BY DEF AtHeader
  <1>2. PICK to : to = Sections(s)[k + 1]
    OBVIOUS
  <1>3. /\ Follows(s, at, to) /\ at.p \in Headers(s)
        /\ to.ends # "more" => Image(s) = to
    BY <1>1, <1>2, NextOne
  <1>4. pos = Len(s) => to.ends = "no header"
    <2> SUFFICES ASSUME pos = Len(s) PROVE to.ends = "no header"
      OBVIOUS
    <2>1. ~(at.p + 2 <= Len(s))
      BY <1>1
    <2> QED BY <1>1, <1>3, <2>1 DEF Follows
  <1> QED BY <1>1, <1>3, <1>4

LEMMA HeaderOn ==
    ASSUME NEW s \in Seq(Nat), NEW k \in Places(s), NEW m \in Memory, NEW pos \in Nat,
           AtHeader(s, k, pos, m), NEW got, got = SubSeq(s, pos + 1, pos + 3), pos + 3 <= Len(s)
    PROVE  /\ got[1] # PRE => AtEnd(s, got[3], m)
           /\ got[1] = PRE => InSection(s, k, pos + 3, m, got[2], got[3])
  <1>1. PICK at : /\ at = Sections(s)[k] /\ at.ends = "more" /\ at.p = pos + 1
                  /\ Holds(m, at.mem)
    BY DEF AtHeader
  <1>2. PICK to : to = Sections(s)[k + 1]
    OBVIOUS
  <1>3. /\ at \in SectionAt /\ Follows(s, at, to)
        /\ to.ends # "more" => Image(s) = to
    BY <1>1, <1>2, NextOne
  <1>4. IsPart(s, pos, 3, got)
    BY PartOf
  <1>5. got[1] = s[at.p] /\ got[2] = s[at.p + 1] /\ got[3] = s[at.p + 2]
    <2>1. 1 \in 1..3 /\ 2 \in 1..3 /\ 3 \in 1..3
      OBVIOUS
    <2>2. got[1] = s[pos + 1] /\ got[2] = s[pos + 2] /\ got[3] = s[pos + 3]
      BY <1>4, <2>1 DEF IsPart
    <2>3. at.p = pos + 1 /\ at.p + 1 = pos + 2 /\ at.p + 2 = pos + 3
      BY <1>1
    <2> QED BY <2>2, <2>3
  <1>6. at.p \in Nat \ {0} /\ at.mem \in Memory /\ at.p + 2 <= Len(s)
    BY <1>1, <1>3 DEF SectionAt
  <1>7. s[at.p] \in Nat /\ s[at.p + 1] \in Nat /\ s[at.p + 2] \in Nat
    BY <1>6, HeaderThere
  <1>8. CASE got[1] # PRE
    <2>1. ~(at.p + 2 > Len(s)) /\ s[at.p] # PRE
      <3>1. PICK p \in Nat : p = at.p + 2 /\ p <= Len(s)
        BY <1>6
      <3>2. ~(p > Len(s))
        BY <3>1
      <3> QED BY <1>5, <1>8, <3>1, <3>2
    <2>3. to.ends = "well" /\ to.entry = s[at.p + 2] /\ to.mem = at.mem
      BY Zenon, <1>1, <1>3, <2>1 DEF Follows
    <2>2. Image(s) = to
      BY <1>3, <2>3
    <2> QED BY <1>1, <1>5, <1>8, <2>3, <2>2 DEF AtEnd
  <1>9. CASE got[1] = PRE
    <2>1. PICK n : n = s[at.p + 1] - got[2] /\ n = 0
      <3>1. PICK l \in Nat : l = s[at.p + 1]
        BY <1>7
      <3>2. l - l = 0 /\ got[2] = l
        BY <1>5, <3>1
      <3> QED BY Zenon, <3>1, <3>2
    <2>2. Partly(s, at, n) = at.mem
      <3>1. Partly(s, at, 0)
              = Over(Cells(s[at.p + 2], SubSeq(s, at.p + 3, at.p + 3 + 0 - 1)), at.mem)
        BY <1>3, <1>6, PartlyFits
      <3>2. SubSeq(s, at.p + 3, at.p + 3 + 0 - 1) = <<>>
        <4>1. PICK p \in Nat : p = at.p + 2 /\ p + 0 <= Len(s)
          BY <1>6
        <4>2. PICK u \in Seq(Nat) : Cut(s, p, 0, u) /\ Len(u) = 0
          BY <4>1, CutIs
        <4>3. u = <<>>
          BY <4>2
        <4>4. at.p + 3 = p + 1 /\ at.p + 3 + 0 - 1 = p + 0
          <5>1. PICK q \in Nat : q = at.p
            BY <1>6
          <5>2. p = q + 2
            BY Zenon, <4>1, <5>1
          <5>3. q + 3 = p + 1 /\ q + 3 + 0 - 1 = p + 0
            BY <5>2
          <5> QED BY Zenon, <5>1, <5>3
        <4> QED BY Zenon, <4>2, <4>3, <4>4 DEF Cut
      <3> QED BY <1>6, <1>7, <2>1, <3>1, <3>2, OverNothing
    <2>3. at.p + HSZ - 1 <= Len(s) /\ s[at.p] = PRE /\ n >= 0
      <3>1. PICK p \in Nat : p = at.p /\ p + 2 <= Len(s)
        BY <1>6
      <3>2. p + HSZ - 1 <= Len(s) /\ n >= 0
        BY <2>1, <3>1 DEF HSZ
      <3>3. s[at.p] = PRE
        BY Zenon, <1>5, <1>9
      <3> QED BY Zenon, <3>1, <3>2, <3>3
    <2>4. pos + 3 + 1 = at.p + HSZ + n /\ pos + 3 <= Len(s) /\ got[3] = s[at.p + 2] + n
      <3>1. PICK p \in Nat : p = at.p /\ p = pos + 1
        BY <1>1, <1>6
      <3>2. pos + 3 + 1 = p + HSZ + n
        BY <2>1, <3>1 DEF HSZ
      <3>3. got[3] = s[at.p + 2] + n
        <4>1. PICK g \in Nat : g = s[at.p + 2]
          BY <1>7
        <4>2. g = g + n
          BY <2>1
        <4> QED BY <1>5, <4>1, <4>2
      <3> QED BY <3>1, <3>2, <3>3
    <2>5. Holds(m, Partly(s, at, n))
      BY <1>1, <2>2
    <2> QED BY <1>1, <1>9, <2>1, <2>3, <2>4, <2>5 DEF InSection
  <1> QED BY <1>8, <1>9

\* What InSection says, with numbers for what it computes.
InPart(s, at, l, n, pos, m, left, addr) ==
    /\ l \in Nat /\ n \in Nat /\ at.p \in Nat \ {0} /\ l = s[at.p + 1] /\ n = l - left
    /\ at.p + 2 <= Len(s) /\ s[at.p] = PRE /\ s[at.p + 2] \in Nat
    /\ pos = at.p + 2 + n /\ pos <= Len(s) /\ addr = s[at.p + 2] + n
    /\ Holds(m, Partly(s, at, n))

LEMMA InSectionIs ==
    ASSUME NEW s \in Seq(Nat), NEW k \in Places(s), NEW m, NEW pos \in Int, NEW left \in Nat,
           NEW addr, InSection(s, k, pos, m, left, addr)
    PROVE  \E at \in SectionAt : \E l \in Nat : \E n \in Nat :
             at = Sections(s)[k] /\ at.ends = "more" /\ InPart(s, at, l, n, pos, m, left, addr)
  <1>1. PICK at : at = Sections(s)[k] /\ at.ends = "more"
    BY DEF InSection
  <1>2. at \in SectionAt
    BY <1>1, NextOne
  <1>3. PICK p \in Nat \ {0} : p = at.p
    BY <1>2 DEF SectionAt
  <1>4. /\ p + HSZ - 1 <= Len(s) /\ s[p] = PRE
        /\ s[p + 1] - left >= 0
        /\ pos + 1 = p + HSZ + (s[p + 1] - left) /\ pos <= Len(s)
        /\ addr = s[p + 2] + (s[p + 1] - left) /\ Holds(m, Partly(s, at, s[p + 1] - left))
    BY <1>1, <1>3 DEF InSection
  <1>5. p + 2 <= Len(s)
    BY <1>4 DEF HSZ
  <1>6. PICK l \in Nat : l = s[p + 1]
    BY <1>5, HeaderThere
  <1>7. s[p + 2] \in Nat
    BY <1>5, HeaderThere
  <1>8. PICK n : n = l - left
    OBVIOUS
  <1>9. n >= 0 /\ pos + 1 = p + HSZ + n
    BY Zenon, <1>4, <1>6, <1>8
  <1>10. n \in Nat
    BY <1>8, <1>9
  <1>11. pos = p + 2 + n
    BY <1>9, <1>10 DEF HSZ
  <1>12. addr = s[p + 2] + n /\ Holds(m, Partly(s, at, n)) /\ pos <= Len(s) /\ s[p] = PRE
    BY Zenon, <1>4, <1>6, <1>8
  <1>13. InPart(s, at, l, n, pos, m, left, addr)
    BY Zenon, <1>3, <1>5, <1>6, <1>7, <1>8, <1>10, <1>11, <1>12 DEF InPart
  <1> QED BY <1>1, <1>2, <1>6, <1>10, <1>13

LEMMA PartIsIn ==
    ASSUME NEW s \in Seq(Nat), NEW k, NEW at, at = Sections(s)[k], at.ends = "more",
           NEW l, NEW n, NEW pos, NEW m, NEW left, NEW addr,
           InPart(s, at, l, n, pos, m, left, addr)
    PROVE  InSection(s, k, pos, m, left, addr)
  <1>1. PICK p \in Nat \ {0} : p = at.p
    BY DEF InPart
  <1>2. /\ l \in Nat /\ n \in Nat /\ l = s[p + 1] /\ n = l - left
        /\ p + 2 <= Len(s) /\ s[p] = PRE /\ pos = p + 2 + n /\ pos <= Len(s)
        /\ addr = s[p + 2] + n /\ Holds(m, Partly(s, at, n))
    BY Zenon, <1>1 DEF InPart
  <1>3. p + HSZ - 1 <= Len(s) /\ n >= 0 /\ pos + 1 = p + HSZ + n
    BY <1>2 DEF HSZ
  <1>4. n = s[p + 1] - left
    BY <1>2
  <1> QED BY Zenon, <1>1, <1>2, <1>3, <1>4 DEF InSection

\* The two lemmas on parts that follow one another, to be cited with any.
CutsJoin(s, a, n, m) ==
    SubSeq(s, a + 1, a + n) \o SubSeq(s, a + n + 1, a + n + m) = SubSeq(s, a + 1, a + n + m)
OversJoin(addr, u, v, m) ==
    Over(Cells(addr + Len(u), v), Over(Cells(addr, u), m)) = Over(Cells(addr, u \o v), m)

LEMMA AllJoin ==
    /\ \A s \in Seq(Nat) : \A a, n, m \in Nat : a + n + m <= Len(s) => CutsJoin(s, a, n, m)
    /\ \A addr \in Nat : \A u, v \in Seq(Nat) : \A m \in Memory : OversJoin(addr, u, v, m)
  <1>1. ASSUME NEW s \in Seq(Nat), NEW a \in Nat, NEW n \in Nat, NEW m \in Nat, a + n + m <= Len(s)
        PROVE  CutsJoin(s, a, n, m)
    BY <1>1, CutCells DEF CutsJoin
  <1>2. ASSUME NEW addr \in Nat, NEW u \in Seq(Nat), NEW v \in Seq(Nat), NEW m \in Memory
        PROVE  OversJoin(addr, u, v, m)
    BY OverMore DEF OversJoin
  <1> QED BY <1>1, <1>2

\* Cells that follow and are written behind the others.
LEMMA SectionOn ==
    ASSUME NEW s \in Seq(Nat), NEW k \in Places(s), NEW m \in Memory, NEW pos \in Nat,
           NEW left \in Nat, NEW addr, InSection(s, k, pos, m, left, addr),
           NEW g \in 0..left, pos + g <= Len(s), NEW got, Cut(s, pos, g, got)
    PROVE  /\ addr \in Nat
           /\ InSection(s, k, pos + g, Over(Cells(addr, got), m), left - g, addr + g)
  <1>1. PICK at \in SectionAt : \E l \in Nat : \E n \in Nat :
          at = Sections(s)[k] /\ at.ends = "more" /\ InPart(s, at, l, n, pos, m, left, addr)
    BY InSectionIs
  <1>2. PICK l \in Nat, n \in Nat :
          at = Sections(s)[k] /\ at.ends = "more" /\ InPart(s, at, l, n, pos, m, left, addr)
    BY <1>1
  <1>3. l \in Nat /\ n \in Nat /\ at.mem \in Memory
    BY <1>2 DEF InPart, SectionAt
  <1>0. PICK p \in Nat \ {0} : p = at.p /\ p + 2 <= Len(s)
    BY <1>2 DEF InPart
  <1>4. PICK b \in Nat : b = at.p + 2 /\ at.p \in Nat \ {0} /\ b <= Len(s) /\ b = p + 2
    BY <1>0
  <1>5. PICK a \in Nat : a = s[at.p + 2] /\ addr = a + n
    BY <1>2 DEF InPart
  <1>6. pos = b + n /\ n = l - left /\ l = s[at.p + 1] /\ s[at.p] = PRE
    BY <1>2, <1>4 DEF InPart
  <1>20. addr = a + n /\ addr \in Nat
    <2>1. addr = a + n
      BY Zenon, <1>5
    <2> QED BY <2>1
  <1>9. g \in Nat
    OBVIOUS
  <1>7. PICK c \in Nat : c = n + g /\ c = l - (left - g) /\ pos + g = b + c /\ addr + g = a + c
    <2>1. pos = b + n /\ n = l - left
      BY Zenon, <1>6
    <2>2. n + g = l - (left - g) /\ pos + g = b + (n + g) /\ addr + g = a + (n + g)
      BY <1>9, <1>20, <2>1
    <2>3. n + g \in Nat
      BY <1>9
    <2> QED BY Zenon, <2>2, <2>3
  <1>8. b + n <= Len(s) /\ b + n + g <= Len(s) /\ b + c <= Len(s)
    <2>1. pos = b + n /\ pos + g = b + c
      BY Zenon, <1>6, <1>7
    <2>2. Len(s) \in Nat
      OBVIOUS
    <2> QED BY <1>9, <2>1, <2>2
  <1>10. PICK u \in Seq(Nat) : Cut(s, b, n, u) /\ Len(u) = n
    BY <1>3, <1>8, CutIs
  <1>11. PICK v \in Seq(Nat) : Cut(s, b + n, g, v) /\ Len(v) = g
    <2>1. b + n \in Nat
      BY <1>3
    <2> QED BY <1>8, <1>9, <2>1, CutIs
  <1>12. PICK w \in Seq(Nat) : Cut(s, b, c, w)
    BY <1>8, CutIs
  <1>13. u \o v = w
    <2>1. SubSeq(s, b + 1, b + n) \o SubSeq(s, b + n + 1, b + n + g) = SubSeq(s, b + 1, b + n + g)
      <3>1. CutsJoin(s, b, n, g)
        BY <1>8, <1>9, AllJoin
      <3> QED BY Zenon, <3>1 DEF CutsJoin
    <2>2. b + n + g = b + c
      BY <1>3, <1>7
    <2> QED BY Zenon, <1>10, <1>11, <1>12, <2>1, <2>2 DEF Cut
  <1>14. got = v
    <2>1. pos + 1 = b + n + 1 /\ pos + g = b + n + g
      BY <1>6
    <2> QED BY Zenon, <1>11, <2>1 DEF Cut
  <1>15. at.p + 3 = b + 1 /\ at.p + 3 + n - 1 = b + n /\ at.p + 3 + c - 1 = b + c
    <2>1. b = p + 2
      BY Zenon, <1>4
    <2>2. p + 3 = b + 1 /\ p + 3 + n - 1 = b + n /\ p + 3 + c - 1 = b + c
      BY <2>1
    <2> QED BY Zenon, <1>0, <2>2
  <1>16. Partly(s, at, n) \in Memory /\ Partly(s, at, n) = Over(Cells(a, u), at.mem)
    <2>1. /\ Partly(s, at, n) \in Memory
          /\ Partly(s, at, n)
               = Over(Cells(s[at.p + 2], SubSeq(s, at.p + 3, at.p + 3 + n - 1)), at.mem)
      BY Zenon, <1>3, <1>4, <1>8, PartlyFits
    <2> QED BY Zenon, <1>5, <1>10, <1>15, <2>1 DEF Cut
  <1>17. Partly(s, at, c) = Over(Cells(a, w), at.mem)
    <2>1. Partly(s, at, c)
            = Over(Cells(s[at.p + 2], SubSeq(s, at.p + 3, at.p + 3 + c - 1)), at.mem)
      BY Zenon, <1>4, <1>8, PartlyFits
    <2> QED BY Zenon, <1>5, <1>12, <1>15, <2>1 DEF Cut
  <1>18. Over(Cells(a + n, v), Over(Cells(a, u), at.mem)) = Over(Cells(a, u \o v), at.mem)
    <2>1. at.mem \in Memory /\ Len(u) = n
      BY Zenon, <1>3, <1>10
    <2>2. Over(Cells(a + Len(u), v), Over(Cells(a, u), at.mem)) = Over(Cells(a, u \o v), at.mem)
      <3>1. OversJoin(a, u, v, at.mem)
        BY <2>1, AllJoin
      <3> QED BY Zenon, <3>1 DEF OversJoin
    <2> QED BY Zenon, <2>1, <2>2
  <1>19. Over(Cells(addr, got), Partly(s, at, n)) = Partly(s, at, c)
    BY Zenon, <1>20, <1>13, <1>14, <1>16, <1>17, <1>18
  <1>21. Holds(Over(Cells(addr, got), m), Partly(s, at, c))
    <2>1. Cells(addr, got) \in Memory
      BY <1>14, <1>20, CellsFits
    <2>2. Holds(m, Partly(s, at, n))
      BY <1>2 DEF InPart
    <2>3. Holds(Over(Cells(addr, got), m), Over(Cells(addr, got), Partly(s, at, n)))
      BY <1>16, <2>1, <2>2, HoldsOver
    <2> QED BY <1>19, <2>3
  <1>22. InPart(s, at, l, c, pos + g, Over(Cells(addr, got), m), left - g, addr + g)
    <2>1. at.p + 2 <= Len(s) /\ pos + g = at.p + 2 + c
      BY <1>4, <1>7
    <2>2. s[at.p + 2] \in Nat /\ addr + g = s[at.p + 2] + c
      BY <1>5, <1>7
    <2> QED BY Zenon, <1>3, <1>4, <1>6, <1>7, <1>21, <2>1, <2>2 DEF InPart
  <1> QED BY <1>2, <1>20, <1>22, PartIsIn

LEMMA SectionOver ==
    ASSUME NEW s \in Seq(Nat), NEW k \in Places(s), NEW m, NEW pos \in Int,
           NEW addr, InSection(s, k, pos, m, 0, addr)
    PROVE  k + 1 \in Places(s) /\ AtHeader(s, k + 1, pos, m)
  <1>1. PICK at \in SectionAt : \E l \in Nat : \E n \in Nat :
          at = Sections(s)[k] /\ at.ends = "more" /\ InPart(s, at, l, n, pos, m, 0, addr)
    BY InSectionIs
  <1>2. PICK l \in Nat, n \in Nat :
          at = Sections(s)[k] /\ at.ends = "more" /\ InPart(s, at, l, n, pos, m, 0, addr)
    BY <1>1
  <1>3. PICK to : to = Sections(s)[k + 1]
    OBVIOUS
  <1>4. /\ Follows(s, at, to)
        /\ to.ends = "more" => k + 1 \in Places(s)
    BY <1>2, <1>3, NextOne
  <1>5. PICK p \in Nat \ {0} : p = at.p /\ p + 2 <= Len(s)
    BY <1>2 DEF InPart
  <1>6. PICK n1 \in Nat : n1 = s[at.p + 1] /\ n1 = n /\ pos = p + 2 + n1
    <2>1. l = s[at.p + 1] /\ n = l - 0 /\ pos = p + 2 + n
      BY Zenon, <1>2, <1>5 DEF InPart
    <2>2. n = l
      BY <2>1
    <2> QED BY <2>1, <2>2
  <1>7. ~(at.p + 2 > Len(s)) /\ ~(at.p + 2 + n1 > Len(s))
    <2>1. ~(p + 2 > Len(s)) /\ pos <= Len(s)
      BY <1>2, <1>5 DEF InPart
    <2>2. ~(p + 2 + n1 > Len(s))
      BY <1>6, <2>1
    <2> QED BY <1>5, <2>1, <2>2
  <1>8. s[at.p] = PRE
    BY <1>2 DEF InPart
  <1>9. to.ends = "more" /\ to.p = at.p + 3 + n1 /\ to.mem = Partly(s, at, n1)
    BY Zenon, <1>2, <1>4, <1>6, <1>7, <1>8 DEF Follows
  <1>10. to.p = pos + 1
    BY <1>5, <1>6, <1>9
  <1>11. Holds(m, to.mem)
    BY <1>2, <1>6, <1>9 DEF InPart
  <1> QED BY <1>3, <1>4, <1>9, <1>10, <1>11 DEF AtHeader

\* The file ends within a section.
LEMMA SectionCut ==
    ASSUME NEW s \in Seq(Nat), NEW k \in Places(s), NEW m, NEW left \in Nat, left > 0,
           NEW addr, NEW pos \in Int, pos = Len(s), InSection(s, k, pos, m, left, addr)
    PROVE  Image(s).ends = "truncated"
  <1>1. PICK at \in SectionAt : \E l \in Nat : \E n \in Nat :
          at = Sections(s)[k] /\ at.ends = "more" /\ InPart(s, at, l, n, pos, m, left, addr)
    BY InSectionIs
  <1>2. PICK l \in Nat, n \in Nat :
          at = Sections(s)[k] /\ at.ends = "more" /\ InPart(s, at, l, n, pos, m, left, addr)
    BY <1>1
  <1>3. PICK to : to = Sections(s)[k + 1]
    OBVIOUS
  <1>4. /\ Follows(s, at, to)
        /\ to.ends # "more" => Image(s) = to
    BY <1>2, <1>3, NextOne
  <1>5. PICK p \in Nat \ {0} : p = at.p /\ p + 2 <= Len(s)
    BY <1>2 DEF InPart
  <1>6. PICK n1 \in Nat : n1 = s[at.p + 1] /\ pos = p + 2 + (n1 - left)
    BY <1>2, <1>5 DEF InPart
  <1>7. ~(at.p + 2 > Len(s)) /\ ~(at.p + 2 + n1 <= Len(s))
    <2>1. ~(p + 2 > Len(s))
      BY <1>5
    <2>2. ~(p + 2 + n1 <= Len(s))
      BY <1>6
    <2> QED BY <1>5, <2>1, <2>2
  <1>8. s[at.p] = PRE
    BY <1>2 DEF InPart
  <1>9. to.ends = "truncated"
    BY Zenon, <1>2, <1>4, <1>6, <1>7, <1>8 DEF Follows
  <1> QED BY <1>4, <1>9

(***************************************************************************)
(* The kernel's file is the same one while it is loaded.                   *)
(***************************************************************************)
LEMMA ResolvedFits ==
    ASSUME NEW x \in FileState, x.drive \in DOMAIN Disks, NEW no \in InodeNo, NEW w \in Word
    PROVE  Resolved(x, no, w) \in InodeNo
  <1> DEFINE u == ResolvedTo(x, no, w)
  <1>1. PICK n \in Nat : n = Len(w.path)
    <2>1. w.path \in Seq(Names)
      BY DEF Word
    <2> QED BY <2>1
  <1> DEFINE T == {k \in 0..n : u[k] \in InodeNo}
  <1>2. /\ Resolved(x, no, w) = u[n] /\ u[0] = StartNo(no, w)
        /\ \A k \in 1..n : u[k] = NextNo(x, u[k - 1], w.path[k])
    BY <1>1, ResolvedSteps
  <1> HIDE DEF u
  <1>3. 0 \in T
    BY <1>2, StartFits
  <1>4. ASSUME NEW k \in 1..n, k - 1 \in T PROVE k \in T
    <2>1. u[k - 1] \in InodeNo
      BY <1>4
    <2>2. u[k] \in InodeNo
      BY <1>2, <2>1, NextNoFits
    <2> QED BY <2>2
  <1>5. n \in T
    <2> HIDE DEF T
    <2>1. \A k \in 0..n : k \in T
      BY <1>3, <1>4, Upward
    <2> QED BY <2>1
  <1> QED BY <1>2, <1>5

LEMMA InodeOfFits ==
    ASSUME NEW x \in FileState, x.drive \in DOMAIN Disks, NEW no \in InodeNo
    PROVE  InodeOf(x, no) \in Inode
  <1>1. At(x, 2 + no \div IPB) \in BlockSet
    BY BlocksFit DEF At
  <1>2. no \in Nat
    BY DEF InodeNo, None
  <1> QED BY <1>1, <1>2, InodeFits DEF InodeOf

LEMMA KernelFits ==
    ASSUME Types, f.drive \in DOMAIN Disks
    PROVE  /\ KernelNo \in InodeNo /\ InodeOf(f, KernelNo) \in Inode
           /\ KernelCells \in Seq(Nat)
           /\ KernelCells = FileCells(f, InodeOf(f, KernelNo))
           /\ Len(KernelCells) = InodeOf(f, KernelNo).blocks * BSZ
  <1>1. f \in FileState /\ cd \in InodeNo /\ Kernel \in Word
    BY WordsFit DEF Types, Device, Machine, Current, Params
  <1>2. KernelNo \in InodeNo
    BY <1>1, ResolvedFits DEF KernelNo
  <1>3. InodeOf(f, KernelNo) \in Inode
    BY <1>1, <1>2, InodeOfFits
  <1>4. PICK i \in Inode : i = InodeOf(f, KernelNo)
    BY <1>3
  <1>5. FileCells(f, i) \in Seq(Nat) /\ Len(FileCells(f, i)) = i.blocks * BSZ
    BY <1>1, CellsOf
  <1>6. KernelCells = FileCells(f, i)
    BY <1>4 DEF KernelCells
  <1> QED BY <1>2, <1>4, <1>5, <1>6

LEMMA KernelSame ==
    ASSUME Types, f.drive \in DOMAIN Disks, Quiet, UNCHANGED <<cd, boot_file>>
    PROVE  /\ KernelNo' = KernelNo /\ KernelCells' = KernelCells
           /\ InodeOf(f', KernelNo) = InodeOf(f, KernelNo)
           /\ \A i : FileCells(f', i) = FileCells(f, i)
  <1>1. f \in FileState /\ cd \in InodeNo /\ Kernel \in Word
    BY WordsFit DEF Types, Device, Machine, Current, Params
  <1>2. PICK g \in FileState : g = f'
    BY DEF Quiet
  <1>3. SameDisk(f, g)
    BY <1>2 DEF Quiet, SameDisk
  <1>4. PICK w \in Word : w = Kernel
    BY <1>1
  <1>5. Kernel' = w
    BY <1>4 DEF Kernel
  <1>6. Resolved(g, cd, w) = Resolved(f, cd, w)
    BY <1>1, <1>3, SameResolved
  <1>7. PICK no : no = KernelNo
    OBVIOUS
  <1>8. KernelNo' = no
    <2>1. no = Resolved(f, cd, w)
      BY <1>4, <1>7 DEF KernelNo
    <2>2. KernelNo' = Resolved(g, cd, w)
      BY <1>2, <1>5 DEF KernelNo
    <2> QED BY <1>6, <2>1, <2>2
  <1>9. InodeOf(g, no) = InodeOf(f, no) /\ \A i : FileCells(g, i) = FileCells(f, i)
    BY <1>3, SameDiskSays
  <1>10. PICK i : i = InodeOf(f, no)
    OBVIOUS
  <1>11. FileCells(g, i) = FileCells(f, i)
    BY <1>9
  <1>12. KernelCells = FileCells(f, i)
    BY <1>7, <1>10 DEF KernelCells
  <1>13. KernelCells' = FileCells(g, i)
    <2>1. InodeOf(g, no) = i
      BY <1>9, <1>10
    <2> QED BY <1>2, <1>8, <2>1 DEF KernelCells
  <1> QED BY <1>2, <1>7, <1>8, <1>9, <1>11, <1>12, <1>13

\* Where the loading of the file s is, at each label.
Stage(lab, s, x, m, left, addr, entry) ==
    /\ lab = "header" => \E k \in Places(s) : AtHeader(s, k, Pos(x), m)
    /\ lab = "section" => \E k \in Places(s) : InSection(s, k, Pos(x), m, left, addr)
    /\ lab = "jump" => AtEnd(s, entry, m)
LoadLabels == {"header", "section", "jump"}

LEMMA LoadGiven ==
    ASSUME Types, LoadInv, pc \in LoadLabels, ~f.unseen
    PROVE  /\ f.drive \in DOMAIN Disks /\ KernelNo # None
           /\ IsOpen(f, InodeOf(f, KernelNo)) /\ InodeOf(f, KernelNo) \in Inode
           /\ KernelCells = FileCells(f, InodeOf(f, KernelNo)) /\ KernelCells \in Seq(Nat)
           /\ Stage(pc, KernelCells, f, mem, todo, win.paddr, h[3])
  <1>1. KernelNo # None /\ IsOpen(f, InodeOf(f, KernelNo))
    BY DEF LoadInv, LoadLabels
  <1>2. f.drive \in DOMAIN Disks
    BY <1>1 DEF IsOpen
  <1>3. Stage(pc, KernelCells, f, mem, todo, win.paddr, h[3])
    BY DEF LoadInv, Stage
  <1> QED BY <1>1, <1>2, <1>3, KernelFits

LEMMA LoadsOn ==
    ASSUME Types, Quiet, UNCHANGED <<cd, boot_file>>, pc' \in LoadLabels,
           ~f'.unseen => /\ f.drive \in DOMAIN Disks /\ KernelNo # None
                         /\ IsOpen(f', InodeOf(f, KernelNo))
                         /\ Stage(pc', KernelCells, f', mem', todo', win'.paddr, h'[3])
    PROVE  LoadInv'
  <1>1. pc' # "gone"
    BY DEF LoadLabels
  <1>2. Loaded'
    BY <1>1 DEF Loaded
  <1>3. CASE f'.unseen
    BY <1>2, <1>3 DEF LoadInv
  <1>4. CASE ~f'.unseen
    <2>1. /\ f.drive \in DOMAIN Disks /\ KernelNo # None /\ IsOpen(f', InodeOf(f, KernelNo))
          /\ Stage(pc', KernelCells, f', mem', todo', win'.paddr, h'[3])
      BY <1>4
    <2>2. PICK no : no = KernelNo
      OBVIOUS
    <2>3. PICK s : s = KernelCells
      OBVIOUS
    <2>4. PICK g : g = f'
      OBVIOUS
    <2>5. KernelNo' = no /\ KernelCells' = s /\ InodeOf(g, no) = InodeOf(f, no)
      BY <2>1, <2>2, <2>3, <2>4, KernelSame
    <2>6. no # None /\ IsOpen(g, InodeOf(g, no))
      BY Zenon, <2>1, <2>2, <2>4, <2>5
    <2>7. Stage(pc', s, g, mem', todo', win'.paddr, h'[3])
      BY Zenon, <2>1, <2>3, <2>4
    <2>8. /\ pc' = "header" => \E k \in Places(s) : AtHeader(s, k, Pos(g), mem')
          /\ pc' = "section" => \E k \in Places(s) :
               InSection(s, k, Pos(g), mem', todo', win'.paddr)
          /\ pc' = "jump" => AtEnd(s, h'[3], mem')
      BY Zenon, <2>7 DEF Stage
    <2>9. LoadInv'
      BY Zenon, <1>2, <2>4, <2>5, <2>6, <2>8 DEF LoadInv
    <2> QED BY <2>9
  <1> QED BY <1>3, <1>4

LEMMA LoadStops ==
    ASSUME pc' \notin {"header", "section", "jump", "gone"}
    PROVE  LoadInv'
  BY DEF LoadInv, Loaded

\* Giving up.
Gave == (pc \in {"open", "header", "section"} /\ pc' = "cmd" /\ ~f'.unseen) => Reason(err')

LEMMA ReasonIs ==
    /\ KernelNo = None => Reason(2)
    /\ Image(KernelCells).ends = "no header" => Reason(3)
    /\ (\E p \in Headers(KernelCells) : Straddles(p)) => Reason(3)
    /\ Image(KernelCells).ends = "truncated" => Reason(4) /\ Reason(7)
    /\ faults' > faults => Reason(6)
    /\ Reason(0)
  <1>1. Reason(2) <=> KernelNo = None
    BY DEF Reason
  <1>2. Reason(3) <=> \/ Image(KernelCells).ends = "no header"
                      \/ \E p \in Headers(KernelCells) : Straddles(p)
    BY DEF Reason
  <1>3. Reason(4) <=> Image(KernelCells).ends = "truncated"
    BY DEF Reason
  <1>4. Reason(7) <=> Image(KernelCells).ends = "truncated"
    BY DEF Reason
  <1>5. Reason(6) <=> faults' > faults
    BY DEF Reason
  <1>6. Reason(0)
    BY DEF Reason
  <1> QED BY <1>1, <1>2, <1>3, <1>4, <1>5, <1>6

(***************************************************************************)
(* boot, step by step.                                                     *)
(***************************************************************************)
LEMMA HoldsNothing == \A m : Holds(m, NoSection.mem)
  <1>1. DOMAIN <<>> = {}
    OBVIOUS
  <1>2. NoSection.mem = <<>>
    BY DEF NoSection
  <1> QED BY <1>1, <1>2 DEF Holds

LEMMA OpenLoads ==
    ASSUME Types, MountInv, OpenKernel
    PROVE  LoadInv' /\ Gave
  <1>1. Device /\ cd \in InodeNo /\ boot_file \in Seq(Word)
    BY DEF Types, Machine, Current, Params
  <1>2. /\ Quiet /\ pc = "open" /\ UNCHANGED <<cd, mountf, params, clock, loader, cdbad>>
        /\ \/ /\ pc' = "header" /\ UNCHANGED err
              /\ ~f'.unseen => /\ f.drive \in DOMAIN Disks /\ KernelNo # None
                               /\ IsOpen(f', InodeOf(f, KernelNo)) /\ Pos(f') = 0
           \/ /\ pc' = "cmd" /\ err' = 2
              /\ ~f'.unseen /\ f.drive \in DOMAIN Disks => KernelNo = None
    BY <1>1, OpenFrame
  <1>3. UNCHANGED <<cd, boot_file>>
    BY <1>2 DEF params
  <1>4. f.drive \in DOMAIN Disks
    BY <1>2 DEF MountInv
  <1>5. CASE pc' = "cmd"
    <2>1. LoadInv'
      BY <1>5, LoadStops
    <2>2. err' = 2 /\ (~f'.unseen => KernelNo = None)
      BY <1>2, <1>4, <1>5
    <2>3. Gave
      BY <2>2, ReasonIs DEF Gave
    <2> QED BY <2>1, <2>3
  <1>6. CASE pc' = "header"
    <2>1. Gave
      BY <1>6 DEF Gave
    <2>2. ~f'.unseen => /\ f.drive \in DOMAIN Disks /\ KernelNo # None
                        /\ IsOpen(f', InodeOf(f, KernelNo)) /\ Pos(f') = 0
      BY <1>2, <1>6
    <2>3. PICK s \in Seq(Nat) : s = KernelCells
      BY <1>4, KernelFits
    <2>4. Sections(s)[0] = NoSection /\ 0 \in Places(s)
      BY SectionSteps DEF Places
    <2>5. ASSUME ~f'.unseen PROVE Stage(pc', KernelCells, f', mem', todo', win'.paddr, h'[3])
      <3>1. PICK m : m = mem'
        OBVIOUS
      <3>2. PICK g : g = f' /\ Pos(g) = 0
        BY <2>2, <2>5
      <3>3. Sections(s)[0].ends = "more" /\ Sections(s)[0].p = 1
            /\ Holds(m, Sections(s)[0].mem)
        BY <2>4, HoldsNothing DEF NoSection
      <3>4. AtHeader(s, 0, Pos(g), m)
        BY <3>2, <3>3 DEF AtHeader
      <3>5. \E k \in Places(s) : AtHeader(s, k, Pos(g), m)
        BY <2>4, <3>4
      <3> QED BY <1>6, <2>3, <3>1, <3>2, <3>5 DEF Stage
    <2>6. pc' \in LoadLabels
      BY <1>6 DEF LoadLabels
    <2>7. LoadInv'
      BY <1>2, <1>3, <2>2, <2>5, <2>6, LoadsOn
    <2> QED BY <2>1, <2>7
  <1> QED BY <1>2, <1>5, <1>6

\* Fewer than HSZ cells: the end of the file, or of a block within a header.
LEMMA ShortHeader ==
    ASSUME NEW x \in FileState, Avail(x) < 3, Avail(x) # 0, Pos(x) \in Nat
    PROVE  Straddles(Pos(x) + 1)
  <1>1. BSZ \in Nat /\ BSZ >= 3 /\ x.left \in 0..BSZ /\ x.spos \in Nat
    BY DisksAssumption, CellsFit, PosFacts
  <1>2. x.left # 0 /\ Avail(x) = x.left
    BY <1>1 DEF Avail
  <1>3. PICK l \in Nat : l = x.left /\ l # 0 /\ l < 3
    BY <1>1, <1>2
  <1>4. (x.spos - 1) * BSZ + (BSZ - l) = Pos(x)
    BY <1>3, PosFacts
  <1>5. x.spos > 0
    <2>1. CASE x.spos = 0
      <3>1. x.spos * BSZ = 0
        BY <1>1, <2>1
      <3>2. Pos(x) = 0 - l
        BY <1>3, <3>1 DEF Pos
      <3> QED BY <1>3, <3>2
    <2> QED BY <1>1, <2>1
  <1>6. PICK q \in Nat : q = x.spos - 1
    BY <1>1, <1>5
  <1>7. PICK r \in 0..(BSZ - 1) : r = BSZ - l
    BY <1>1, <1>3
  <1>8. (q * BSZ + r) % BSZ = r /\ q * BSZ + r = Pos(x)
    BY Zenon, <1>4, <1>6, <1>7, DivMod, DisksAssumption
  <1>9. (Pos(x) + 1) - 1 = Pos(x)
    OBVIOUS
  <1>10. (((Pos(x) + 1) - 1) % BSZ) = r
    BY Zenon, <1>8, <1>9
  <1>11. r + HSZ > BSZ
    BY <1>1, <1>3, <1>7 DEF HSZ
  <1> QED BY Zenon, <1>10, <1>11 DEF Straddles

LEMMA HeaderLoads ==
    ASSUME Types, LoadInv, ReadHeader
    PROVE  LoadInv' /\ Gave
  <1>1. Device /\ err \in Errors /\ Loader
    BY DEF Types, Machine
  <1>2. /\ Quiet /\ pc = "header" /\ (f'.unseen \/ ~f.unseen)
        /\ UNCHANGED <<cd, mountf, params, clock, mem, cdbad>>
        /\ \E res : HeaderRead(res) /\ Handed(res.got, HSZ)
    BY <1>1, HeaderFrame
  <1>3. PICK res : HeaderRead(res) /\ Handed(res.got, HSZ)
    BY <1>2
  <1>4. UNCHANGED <<cd, boot_file>>
    BY <1>2 DEF params
  <1>5. PICK got \in Seq(Nat) : got = res.got /\ Len(got) = Least(3, Avail(f))
    BY <1>3 DEF Handed, HSZ
  <1>6. PICK s : s = KernelCells
    OBVIOUS
  <1>7. ASSUME ~f'.unseen
        PROVE  /\ f.drive \in DOMAIN Disks /\ KernelNo # None /\ s \in Seq(Nat)
               /\ IsOpen(f', InodeOf(f, KernelNo)) /\ Pos(f) \in Nat
               /\ Pos(f') = Pos(f) + Len(got)
               /\ got = SubSeq(s, Pos(f) + 1, Pos(f) + Len(got)) /\ Pos(f) + Len(got) <= Len(s)
               /\ Avail(f) = 0 => Pos(f) = Len(s)
               /\ \E k \in Places(s) : AtHeader(s, k, Pos(f), mem)
    <2>1. ~f.unseen /\ pc \in LoadLabels
      BY <1>2, <1>7 DEF LoadLabels
    <2>2. /\ f.drive \in DOMAIN Disks /\ KernelNo # None
          /\ IsOpen(f, InodeOf(f, KernelNo)) /\ InodeOf(f, KernelNo) \in Inode
          /\ s = FileCells(f, InodeOf(f, KernelNo)) /\ s \in Seq(Nat)
          /\ Stage(pc, s, f, mem, todo, win.paddr, h[3])
      BY <1>6, <2>1, LoadGiven
    <2>3. PICK i \in Inode : i = InodeOf(f, KernelNo)
      BY <2>2
    <2>4. ReadOn(i, got)
      BY <1>3, <1>5, <1>7, <2>2, <2>3 DEF Handed
    <2>5. /\ IsOpen(f', i) /\ Pos(f) \in Nat /\ Pos(f') = Pos(f) + Len(got)
          /\ got = SubSeq(s, Pos(f) + 1, Pos(f) + Len(got)) /\ Pos(f) + Len(got) <= Len(s)
          /\ Avail(f) = 0 => Pos(f) = Len(s)
      BY Zenon, <2>2, <2>3, <2>4 DEF ReadOn
    <2>6. \E k \in Places(s) : AtHeader(s, k, Pos(f), mem)
      BY <1>2, <2>2 DEF Stage
    <2> QED BY Zenon, <2>2, <2>3, <2>5, <2>6
  <1>8. CASE Len(got) # 3
    <2>1. pc' = "cmd" /\ err' = 3
      BY <1>3, <1>5, <1>8 DEF HeaderRead, Fails, Go, HSZ
    <2>2. LoadInv'
      BY <2>1, LoadStops
    <2>3. ASSUME ~f'.unseen PROVE Reason(3)
      <3>1. PICK k \in Places(s) : AtHeader(s, k, Pos(f), mem)
        BY <1>7, <2>3
      <3>2. /\ Pos(f) + 1 \in Headers(s)
            /\ Pos(f) = Len(s) => Image(s).ends = "no header"
        BY <1>7, <2>3, <3>1, HeaderMissing
      <3>3. CASE Avail(f) = 0
        BY <1>6, <1>7, <2>3, <3>2, <3>3, ReasonIs
      <3>4. CASE Avail(f) # 0
        <4>1. Avail(f) < 3
          <5>1. Avail(f) \in Nat
            BY <1>1, DisksAssumption DEF Avail, Device, FileState, Left
          <5> QED BY <1>5, <1>8, <5>1 DEF Least
        <4>2. f \in FileState /\ Pos(f) \in Nat
          BY <1>1, <1>7, <2>3 DEF Device
        <4>3. Straddles(Pos(f) + 1)
          BY <3>4, <4>1, <4>2, ShortHeader
        <4> QED BY <1>6, <3>2, <4>3, ReasonIs
      <3> QED BY <3>3, <3>4
    <2>4. Gave
      BY <2>1, <2>3 DEF Gave
    <2> QED BY <2>2, <2>4
  <1>9. CASE Len(got) = 3
    <2>1. /\ h' = got /\ err' = err
          /\ \/ got[1] # PRE /\ pc' = "jump" /\ UNCHANGED <<todo, win>>
             \/ got[1] = PRE /\ pc' = "section" /\ todo' = got[2] /\ win' = mseek(got[3])
      BY <1>3, <1>5, <1>9 DEF HeaderRead, Go, HSZ
    <2>2. Gave /\ pc' \in LoadLabels
      BY <2>1 DEF Gave, LoadLabels
    <2>3. PICK m \in Memory : m = mem /\ mem' = m
      BY <1>1, <1>2 DEF Loader
    <2>4. ASSUME ~f'.unseen PROVE Stage(pc', s, f', mem', todo', win'.paddr, h'[3])
      <3>1. PICK pos \in Nat : /\ pos = Pos(f) /\ Pos(f') = pos + 3 /\ pos + 3 <= Len(s)
                               /\ got = SubSeq(s, pos + 1, pos + 3)
        BY <1>7, <1>9, <2>4
      <3>2. PICK k \in Places(s) : AtHeader(s, k, pos, m)
        BY <1>7, <2>3, <2>4, <3>1
      <3>3. s \in Seq(Nat)
        BY <1>7, <2>4
      <3>4. /\ got[1] # PRE => AtEnd(s, got[3], m)
            /\ got[1] = PRE => InSection(s, k, pos + 3, m, got[2], got[3])
        BY <3>1, <3>2, <3>3, HeaderOn
      <3>5. CASE got[1] # PRE
        BY <2>1, <2>3, <3>4, <3>5 DEF Stage
      <3>6. CASE got[1] = PRE
        <4>1. got[3] \in Nat
          <5>1. got \in Header
            BY <1>9 DEF Header, HSZ
          <5> QED BY <5>1, HeaderFits
        <4>2. pc' = "section" /\ todo' = got[2] /\ win'.paddr = got[3]
          BY <2>1, <3>6, <4>1, MseekFits
        <4>3. InSection(s, k, Pos(f'), mem', todo', win'.paddr)
          BY Zenon, <2>3, <3>1, <3>4, <3>6, <4>2
        <4> QED BY <4>2, <4>3 DEF Stage
      <3> QED BY <3>5, <3>6
    <2>5. LoadInv'
      BY <1>2, <1>4, <1>6, <1>7, <2>2, <2>4, LoadsOn
    <2> QED BY <2>2, <2>5
  <1> QED BY <1>8, <1>9

\* Of a section's cells, got is what the open file has next.
Passed(i, g, got) ==
    /\ IsOpen(f', i) /\ Pos(f) \in Nat /\ Pos(f') = Pos(f) + g
    /\ got = SubSeq(FileCells(f, i), Pos(f) + 1, Pos(f) + g)
    /\ Pos(f) + g <= Len(FileCells(f, i))

LEMMA PassedOn ==
    ASSUME Types, LoadInv, Quiet, UNCHANGED <<cd, boot_file, pc>>, pc = "section",
           f'.unseen \/ ~f.unseen, NEW g \in 0..todo, NEW got,
           mem' = Over(Cells(win.paddr, got), mem), win'.paddr = win.paddr + g,
           todo' = todo - g,
           \A i \in Inode : IsOpen(f, i) /\ ~f'.unseen => Passed(i, g, got)
    PROVE  LoadInv' /\ Gave
  <1>1. Gave /\ pc' = "section" /\ pc' \in LoadLabels /\ pc \in LoadLabels
    BY DEF Gave, LoadLabels
  <1>2. ASSUME ~f'.unseen
        PROVE  /\ f.drive \in DOMAIN Disks /\ KernelNo # None
               /\ IsOpen(f', InodeOf(f, KernelNo))
               /\ Stage(pc', KernelCells, f', mem', todo', win'.paddr, h'[3])
    <2>1. /\ f.drive \in DOMAIN Disks /\ KernelNo # None
          /\ IsOpen(f, InodeOf(f, KernelNo)) /\ InodeOf(f, KernelNo) \in Inode
          /\ KernelCells = FileCells(f, InodeOf(f, KernelNo)) /\ KernelCells \in Seq(Nat)
          /\ Stage(pc, KernelCells, f, mem, todo, win.paddr, h[3])
      BY Zenon, <1>1, <1>2, LoadGiven
    <2>2. PICK i \in Inode : i = InodeOf(f, KernelNo)
      BY <2>1
    <2>3. PICK s \in Seq(Nat) : s = KernelCells /\ s = FileCells(f, i)
      BY <2>1, <2>2
    <2>4. Passed(i, g, got)
      BY Zenon, <1>2, <2>1, <2>2
    <2>5. IsOpen(f', i) /\ Pos(f) \in Nat
      BY Zenon, <2>4 DEF Passed
    <2>6. PICK pos \in Nat : pos = Pos(f)
      BY <2>5
    <2>7. /\ Pos(f') = pos + g /\ got = SubSeq(s, pos + 1, pos + g) /\ pos + g <= Len(s)
      BY Zenon, <2>3, <2>4, <2>6 DEF Passed
    <2>8. mem \in Memory /\ todo \in Nat
      BY DEF Types, Machine, Loader
    <2>9. PICK a : a = win.paddr
      OBVIOUS
    <2>10. \E k \in Places(s) : InSection(s, k, pos, mem, todo, a)
      BY Zenon, <2>1, <2>3, <2>6, <2>9 DEF Stage
    <2>11. PICK k \in Places(s) : InSection(s, k, pos, mem, todo, a)
      BY <2>10
    <2>12. Cut(s, pos, g, got)
      <3>1. g \in Nat /\ IsPart(s, pos, g, SubSeq(s, pos + 1, pos + g))
        BY <2>7, <2>8, PartOf
      <3> QED BY Zenon, <2>7, <3>1 DEF Cut
    <2>13. InSection(s, k, pos + g, Over(Cells(a, got), mem), todo - g, a + g)
      <3>1. pos + g <= Len(s)
        BY Zenon, <2>7
      <3> QED BY <2>8, <2>11, <2>12, <3>1, SectionOn
    <2>14. InSection(s, k, Pos(f'), mem', todo', win'.paddr)
      BY Zenon, <2>7, <2>9, <2>13
    <2>15. \E j \in Places(s) : InSection(s, j, Pos(f'), mem', todo', win'.paddr)
      BY Zenon, <2>14
    <2>16. Stage(pc', s, f', mem', todo', win'.paddr, h'[3])
      BY <1>1, <2>15 DEF Stage
    <2> QED BY Zenon, <2>1, <2>2, <2>3, <2>5, <2>16
  <1>3. LoadInv'
    BY <1>1, <1>2, LoadsOn
  <1> QED BY <1>1, <1>3

\* The file ends within a section.
LEMMA PassedOut ==
    ASSUME Types, LoadInv, pc = "section", todo > 0, ~f.unseen, Pos(f) = Len(KernelCells)
    PROVE  Image(KernelCells).ends = "truncated"
  <1>1. pc \in LoadLabels
    BY DEF LoadLabels
  <1>2. /\ KernelCells \in Seq(Nat)
        /\ Stage(pc, KernelCells, f, mem, todo, win.paddr, h[3])
    BY Zenon, <1>1, LoadGiven
  <1>3. PICK s \in Seq(Nat) : s = KernelCells
    BY <1>2
  <1>4. PICK pos \in Nat : pos = Pos(f) /\ pos = Len(s)
    BY <1>3
  <1>5. PICK a : a = win.paddr
    OBVIOUS
  <1>6. \E k \in Places(s) : InSection(s, k, pos, mem, todo, a)
    BY Zenon, <1>2, <1>3, <1>4, <1>5 DEF Stage
  <1>7. PICK k \in Places(s) : InSection(s, k, pos, mem, todo, a)
    BY <1>6
  <1>8. todo \in Nat
    BY DEF Types, Machine, Loader
  <1>9. Image(s).ends = "truncated"
    BY <1>4, <1>7, <1>8, SectionCut
  <1> QED BY <1>3, <1>9

\* A boot that gives up.
LEMMA GivesUp ==
    ASSUME pc' = "cmd", ~f'.unseen => Reason(err')
    PROVE  LoadInv' /\ Gave
  <1>1. LoadInv'
    BY LoadStops
  <1>2. Gave
    BY DEF Gave
  <1> QED BY <1>1, <1>2

LEMMA BufferLoads ==
    ASSUME Types, LoadInv, ReadBuffered
    PROVE  LoadInv' /\ Gave
  <1>1. Device /\ todo \in Nat /\ mem \in Memory /\ win \in Window
    BY DEF Types, Machine, Loader
  <1>2. /\ Quiet /\ pc = "section" /\ todo > 0 /\ (f'.unseen \/ ~f.unseen)
        /\ UNCHANGED <<cd, mountf, params, clock, h, cdbad>>
        /\ \E res : BufferRead(res) /\ Handed(res.got, todo)
    BY <1>1, BufferFrame
  <1>3. PICK res : BufferRead(res) /\ Handed(res.got, todo)
    BY <1>2
  <1>4. UNCHANGED <<cd, boot_file>>
    BY <1>2 DEF params
  <1>5. PICK got \in Seq(Nat) : got = res.got /\ Len(got) = Least(todo, Avail(f))
    BY <1>3 DEF Handed
  <1>6. \A i \in Inode : IsOpen(f, i) /\ ~f'.unseen => ReadOn(i, got)
    BY Zenon, <1>3, <1>5 DEF Handed
  <1>7. CASE got = <<>>
    <2>1. pc' = "cmd" /\ err' = 4
      BY <1>3, <1>5, <1>7 DEF BufferRead, Fails, Go
    <2>2. ASSUME ~f'.unseen PROVE Reason(4)
      <3>1. pc \in LoadLabels /\ ~f.unseen
        BY <1>2, <2>2 DEF LoadLabels
      <3>2. /\ IsOpen(f, InodeOf(f, KernelNo)) /\ InodeOf(f, KernelNo) \in Inode
            /\ KernelCells = FileCells(f, InodeOf(f, KernelNo))
        BY Zenon, <3>1, LoadGiven
      <3>3. ReadOn(InodeOf(f, KernelNo), got)
        BY Zenon, <1>6, <2>2, <3>2
      <3>4. Avail(f) = 0 => Pos(f) = Len(KernelCells)
        BY Zenon, <3>2, <3>3 DEF ReadOn
      <3>5. Avail(f) = 0
        <4>1. Len(got) = 0
          BY <1>7
        <4> QED BY <1>2, <1>5, <4>1 DEF Least
      <3>6. Image(KernelCells).ends = "truncated"
        BY Zenon, <1>2, <3>1, <3>4, <3>5, PassedOut
      <3> QED BY <3>6, ReasonIs
    <2> QED BY Zenon, <2>1, <2>2, GivesUp
  <1>8. CASE got # <<>>
    <2> DEFINE w == mwrite(mem, win, got)
    <2>1. /\ mem' = w.mem /\ win' = w.win /\ todo' = todo - Len(got) /\ UNCHANGED pc
      BY <1>3, <1>5, <1>8 DEF BufferRead
    <2>2. /\ w.mem = Over(Cells(win.paddr, got), mem)
          /\ w.win.paddr = win.paddr + Len(got)
      BY <1>1, MwriteFacts
    <2> HIDE DEF w
    <2>3. PICK g \in 0..todo : g = Len(got)
      <3>1. Len(got) \in Nat /\ Len(got) <= todo
        BY <1>1, <1>5 DEF Least
      <3> QED BY <1>1, <3>1
    <2>4. /\ mem' = Over(Cells(win.paddr, got), mem) /\ win'.paddr = win.paddr + g
          /\ todo' = todo - g
      BY Zenon, <2>1, <2>2, <2>3
    <2>5. ASSUME NEW i \in Inode, IsOpen(f, i), ~f'.unseen PROVE Passed(i, g, got)
      <3>1. ReadOn(i, got)
        BY Zenon, <1>6, <2>5
      <3> QED BY Zenon, <2>3, <3>1 DEF ReadOn, Passed
    <2> QED BY <1>2, <1>4, <2>1, <2>4, <2>5, PassedOn
  <1> QED BY <1>7, <1>8

LEMMA DirectLoads ==
    ASSUME Types, LoadInv, ReadDirect
    PROVE  LoadInv' /\ Gave
  <1>1. Device /\ Loader /\ todo \in Nat /\ mem \in Memory /\ win \in Window
    BY DEF Types, Machine, Loader
  <1>2. /\ Quiet /\ pc = "section" /\ todo > 0 /\ Direct /\ f'.unseen = f.unseen
        /\ UNCHANGED <<cd, mountf, params, clock, cdbad>>
        /\ \/ f.spos = f.epos /\ Fails(7) /\ UNCHANGED <<f, loader, faults>>
           \/ \E res : DirectRead(res) /\ OverHanded(res)
    BY <1>1, DirectFrame
  <1>3. UNCHANGED <<cd, boot_file>>
    BY <1>2 DEF params
  <1>4. ASSUME ~f'.unseen
        PROVE  /\ ~f.unseen /\ f.drive \in DOMAIN Disks
               /\ IsOpen(f, InodeOf(f, KernelNo)) /\ InodeOf(f, KernelNo) \in Inode
               /\ KernelCells = FileCells(f, InodeOf(f, KernelNo))
    <2>1. ~f.unseen /\ pc \in LoadLabels
      BY <1>2, <1>4 DEF LoadLabels
    <2> QED BY Zenon, <2>1, LoadGiven
  <1>5. CASE f.spos = f.epos /\ Fails(7) /\ UNCHANGED <<f, loader, faults>>
    <2>1. pc' = "cmd" /\ err' = 7
      BY <1>5 DEF Fails, Go
    <2>2. ASSUME ~f'.unseen PROVE Reason(7)
      <3>1. f \in FileState /\ f.left = 0
        BY <1>1, <1>2 DEF Device, Direct
      <3>2. Pos(f) = f.spos * BSZ
        BY <3>1, PosFacts
      <3>3. f.epos = InodeOf(f, KernelNo).blocks
        BY Zenon, <1>4, <2>2 DEF IsOpen
      <3>4. Len(KernelCells) = InodeOf(f, KernelNo).blocks * BSZ
        BY Zenon, <1>4, <2>2, KernelFits
      <3>5. Pos(f) = Len(KernelCells)
        BY Zenon, <1>5, <3>2, <3>3, <3>4
      <3>6. Image(KernelCells).ends = "truncated"
        BY Zenon, <1>2, <1>4, <2>2, <3>5, PassedOut
      <3> QED BY <3>6, ReasonIs
    <2> QED BY Zenon, <2>1, <2>2, GivesUp
  <1>6. CASE \E res : DirectRead(res) /\ OverHanded(res)
    <2>1. PICK res : DirectRead(res) /\ OverHanded(res)
      BY <1>6
    <2>2. /\ res.ok \in BOOLEAN /\ res.got \in BlockSet
          /\ ~res.ok /\ f.drive \in DOMAIN Disks => faults' > faults
          /\ \A i \in Inode : IsOpen(f, i) => ReadOver(i, res)
      BY Zenon, <2>1 DEF OverHanded
    <2>3. CASE ~res.ok
      <3>1. pc' = "cmd" /\ err' = 6
        BY <2>1, <2>3 DEF DirectRead, Fails, Go
      <3>2. ASSUME ~f'.unseen PROVE Reason(6)
        <4>1. faults' > faults
          BY Zenon, <1>4, <2>2, <2>3, <3>2
        <4> QED BY <4>1, ReasonIs
      <3> QED BY Zenon, <3>1, <3>2, GivesUp
    <2>4. CASE res.ok
      <3>1. /\ mem' = Over(Cells(win.paddr, res.got.bytes), mem)
            /\ win' = Advance(win, BSZ) /\ todo' = todo - BSZ /\ UNCHANGED pc
        BY <2>1, <2>4 DEF DirectRead
      <3>2. PICK got : got = res.got.bytes
        OBVIOUS
      <3>3. Advance(win, BSZ).paddr = win.paddr + BSZ /\ BSZ \in 0..todo
        BY <1>1, <1>2, DirectRoom
      <3>4. PICK g \in 0..todo : g = BSZ
        BY <3>3
      <3>5. /\ mem' = Over(Cells(win.paddr, got), mem) /\ win'.paddr = win.paddr + g
            /\ todo' = todo - g
        BY Zenon, <3>1, <3>2, <3>3, <3>4
      <3>6. ASSUME NEW i \in Inode, IsOpen(f, i), ~f'.unseen PROVE Passed(i, g, got)
        <4>1. ReadOver(i, res)
          BY Zenon, <2>2, <3>6
        <4> QED BY Zenon, <2>4, <3>2, <3>4, <4>1 DEF ReadOver, Passed
      <3>7. f'.unseen \/ ~f.unseen
        BY <1>2
      <3> QED BY <1>2, <1>3, <3>1, <3>5, <3>6, <3>7, PassedOn
    <2> QED BY <2>2, <2>3, <2>4
  <1> QED BY <1>2, <1>5, <1>6

\* A section is complete.
LEMMA DoneLoads ==
    ASSUME Types, LoadInv, pc = "section", todo = 0, pc' = "header",
           UNCHANGED <<f, cd, mountf, params, clock, loader, err, cdbad, faults>>
    PROVE  LoadInv' /\ Gave
  <1>1. Gave /\ pc' \in LoadLabels /\ pc \in LoadLabels
    BY DEF Gave, LoadLabels
  <1>2. UNCHANGED <<f, cd, boot_file, mem>>
    BY DEF params, loader
  <1>3. Quiet
    <2>1. Device
      BY DEF Types
    <2> QED BY <2>1 DEF Device, Quiet
  <1>4. ASSUME ~f'.unseen
        PROVE  /\ f.drive \in DOMAIN Disks /\ KernelNo # None
               /\ IsOpen(f', InodeOf(f, KernelNo))
               /\ Stage(pc', KernelCells, f', mem', todo', win'.paddr, h'[3])
    <2>1. ~f.unseen
      BY <1>2, <1>4
    <2>2. /\ f.drive \in DOMAIN Disks /\ KernelNo # None
          /\ IsOpen(f, InodeOf(f, KernelNo)) /\ KernelCells \in Seq(Nat)
          /\ Stage(pc, KernelCells, f, mem, todo, win.paddr, h[3])
      BY Zenon, <1>1, <2>1, LoadGiven
    <2>3. PICK s \in Seq(Nat) : s = KernelCells
      BY <2>2
    <2>4. PICK pos \in Int : pos = Pos(f)
      BY PosFacts DEF Types, Device
    <2>5. PICK a : a = win.paddr
      OBVIOUS
    <2>6. \E k \in Places(s) : InSection(s, k, pos, mem, 0, a)
      BY Zenon, <2>2, <2>3, <2>4, <2>5 DEF Stage
    <2>7. PICK k \in Places(s) : InSection(s, k, pos, mem, 0, a)
      BY <2>6
    <2>8. k + 1 \in Places(s) /\ AtHeader(s, k + 1, pos, mem)
      BY <2>7, SectionOver
    <2>9. \E j \in Places(s) : AtHeader(s, j, pos, mem)
      BY Zenon, <2>8
    <2>10. Pos(f') = pos /\ mem' = mem
      BY Zenon, <1>2, <2>4
    <2>11. \E j \in Places(s) : AtHeader(s, j, Pos(f'), mem')
      BY Zenon, <2>9, <2>10
    <2>12. Stage(pc', s, f', mem', todo', win'.paddr, h'[3])
      BY <2>11 DEF Stage
    <2>13. IsOpen(f', InodeOf(f, KernelNo))
      BY Zenon, <1>2, <2>2
    <2> QED BY Zenon, <2>2, <2>3, <2>12, <2>13
  <1>5. LoadInv'
    BY <1>1, <1>2, <1>3, <1>4, LoadsOn
  <1> QED BY <1>1, <1>5

LEMMA JumpLoads ==
    ASSUME Types, LoadInv, Jump
    PROVE  LoadInv' /\ Gave
  <1>1. /\ pc = "jump" /\ pc' = "gone"
        /\ UNCHANGED <<f, cd, mountf, params, clock, h, todo, err, cdbad, faults>>
        /\ mem' = Over(Cells(CMDAT, cmd_line), Over(Cells(0, Bounce \o <<h[3]>>), mem))
    BY JumpFrame
  <1>2. Gave
    BY <1>1 DEF Gave
  <1>3. UNCHANGED <<f, cd, boot_file, cmd_line>>
    BY <1>1 DEF params
  <1>4. Quiet
    <2>1. Device
      BY DEF Types
    <2> QED BY <1>1, <2>1 DEF Device, Quiet
  <1>5. ASSUME ~f'.unseen
        PROVE  LET img  == Image(KernelCells')
                   want == Over(Cells(CMDAT, cmd_line'),
                                Over(Cells(0, Bounce \o <<img.entry>>), img.mem))
               IN  img.ends = "well" /\ Holds(mem', want)
    <2>1. ~f.unseen /\ pc \in LoadLabels
      BY <1>1, <1>5 DEF LoadLabels
    <2>2. /\ f.drive \in DOMAIN Disks /\ KernelCells \in Seq(Nat)
          /\ Stage(pc, KernelCells, f, mem, todo, win.paddr, h[3])
      BY Zenon, <2>1, LoadGiven
    <2>3. KernelCells' = KernelCells
      BY <1>3, <1>4, <2>2, KernelSame
    <2>4. PICK s \in Seq(Nat) : s = KernelCells
      BY <2>2
    <2>5. AtEnd(s, h[3], mem)
      BY Zenon, <1>1, <2>2, <2>4 DEF Stage
    <2>6. PICK img : img = Image(s)
      OBVIOUS
    <2>7. img.ends = "well" /\ img.entry = h[3] /\ Holds(mem, img.mem)
      BY Zenon, <2>5, <2>6 DEF AtEnd
    <2>8. img.mem \in Memory
      <3>1. Len(s) + 1 \in 0..(Len(s) + 1)
        OBVIOUS
      <3>2. img \in SectionAt
        BY <2>6, <3>1, SectionsFit DEF Image
      <3> QED BY <3>2 DEF SectionAt
    <2>9. mem \in Memory /\ h \in Header /\ cmd_line \in Seq(Nat)
      BY DEF Types, Machine, Loader, Params
    <2>10. PICK b \in Memory : b = Cells(0, Bounce \o <<h[3]>>)
      <3>1. <<h[3]>> \in Seq(Nat)
        BY <2>9, HeaderFits
      <3>2. Bounce \o <<h[3]>> \in Seq(Nat) /\ 0 \in Nat
        BY <3>1, BooterAssumption
      <3>3. PICK t \in Seq(Nat) : t = Bounce \o <<h[3]>>
        BY <3>2
      <3> QED BY <3>3, CellsFits
    <2>11. PICK c \in Memory : c = Cells(CMDAT, cmd_line)
      BY <2>9, BooterAssumption, CellsFits
    <2>12. Holds(Over(b, mem), Over(b, img.mem))
      BY <2>7, <2>8, <2>9, HoldsOver
    <2>13. Over(b, mem) \in Memory /\ Over(b, img.mem) \in Memory
      BY <2>8, <2>9, OverFits
    <2>14. Holds(Over(c, Over(b, mem)), Over(c, Over(b, img.mem)))
      BY <2>12, <2>13, HoldsOver
    <2>15. mem' = Over(c, Over(b, mem)) /\ cmd_line' = cmd_line
      BY Zenon, <1>1, <1>3, <2>10, <2>11
    <2>16. Image(KernelCells') = img
      BY Zenon, <2>3, <2>4, <2>6
    <2>17. /\ Over(Cells(CMDAT, cmd_line'), Over(Cells(0, Bounce \o <<img.entry>>), img.mem))
              = Over(c, Over(b, img.mem))
      BY Zenon, <2>7, <2>10, <2>11, <2>15
    <2> QED BY Zenon, <2>7, <2>14, <2>15, <2>16, <2>17
  <1>6. Loaded'
    BY Zenon, <1>5 DEF Loaded, Holds
  <1>7. pc' \notin {"header", "section", "jump"}
    BY <1>1
  <1>8. LoadInv'
    BY <1>6, <1>7 DEF LoadInv
  <1> QED BY <1>2, <1>8

\* Elsewhere main neither goes on in boot nor gives it up.
LEMMA ElsewhereLoads ==
    ASSUME pc \notin {"open", "header", "section"},
           pc' \notin {"header", "section", "jump", "gone"}
    PROVE  LoadInv' /\ Gave
  BY LoadStops DEF Gave

LEMMA MovesLoad ==
    ASSUME Types, LoadInv, Moves
    PROVE  LoadInv' /\ Gave
  <1>1. /\ UNCHANGED <<f, cd, mountf, params, clock, loader, err, cdbad, faults>>
        /\ \/ pc \in {"start", "count", "cmd"} /\ pc' \in {"cmd", "count", "again", "exited"}
           \/ pc = "section" /\ todo = 0 /\ pc' = "header"
    BY MovesFrame
  <1>2. CASE pc \in {"start", "count", "cmd"} /\ pc' \in {"cmd", "count", "again", "exited"}
    BY <1>2, ElsewhereLoads
  <1>3. CASE pc = "section" /\ todo = 0 /\ pc' = "header"
    BY <1>1, <1>3, DoneLoads
  <1> QED BY <1>1, <1>2, <1>3

LEMMA InterruptLoads ==
    ASSUME Interrupt
    PROVE  LoadInv' /\ Gave
  <1>1. pc' = "cmd" /\ err' = 0
    BY DEF Interrupt, Fails, Go
  <1>2. ~f'.unseen => Reason(err')
    BY <1>1, ReasonIs
  <1> QED BY <1>1, <1>2, GivesUp

LEMMA HandlersLoad ==
    ASSUME Types, MountInv, LoadInv, Handlers
    PROVE  LoadInv' /\ Gave
  <1>1. /\ Device /\ cd \in InodeNo /\ cd # None /\ cdbad \in BOOLEAN
        /\ boot_file \in Seq(Word) /\ drive_no \in DriveNo /\ part_no \in 0..4
        /\ \A line \in Typed : line \in Seq(Word)
    BY LinesFit DEF Types, Machine, Current, Params, Parts
  <1>2. CASE Moves
    BY <1>2, MovesLoad
  <1>3. CASE WaitSecond
    <2>1. pc = "count" /\ pc' = "count"
      BY <1>3 DEF WaitSecond
    <2> QED BY <2>1, ElsewhereLoads
  <1>4. CASE Again
    <2>1. pc = "again" /\ pc' \in {"mount", "cmd"}
      BY <1>4 DEF Again, Go
    <2> QED BY <2>1, ElsewhereLoads
  <1>5. CASE MountIt
    <2>1. pc = "mount" /\ pc' \in {"msg", "cmd"}
      BY <1>1, <1>5, MountFrame
    <2> QED BY <2>1, ElsewhereLoads
  <1>6. CASE ShowMessage
    <2>1. pc = "msg" /\ pc' = "open"
      BY <1>1, <1>6, ShowFrame
    <2> QED BY <2>1, ElsewhereLoads
  <1>7. CASE OpenKernel
    BY <1>7, OpenLoads
  <1>8. CASE ReadHeader
    BY <1>8, HeaderLoads
  <1>9. CASE Interrupt
    BY <1>9, InterruptLoads
  <1>10. CASE ReadDirect
    BY <1>10, DirectLoads
  <1>11. CASE ReadBuffered
    BY <1>11, BufferLoads
  <1>12. CASE Jump
    BY <1>12, JumpLoads
  <1>13. CASE \E line \in Typed : DoLs(line) \/ DoCat(line) \/ DoCd(line) \/ DoMount(line)
                                  \/ DoPart(line) \/ DoOverride(line) \/ DoFx(line)
    <2>1. PICK line \in Seq(Word) : DoLs(line) \/ DoCat(line) \/ DoCd(line) \/ DoMount(line)
                                    \/ DoPart(line) \/ DoOverride(line) \/ DoFx(line)
      BY <1>1, <1>13
    <2>2. pc = "cmd" /\ pc' = "cmd"
      <3>1. CASE DoLs(line)
        BY Zenon, <3>1 DEF DoLs, Prompt
      <3>2. CASE DoCat(line)
        BY Zenon, <3>2 DEF DoCat, Prompt
      <3>3. CASE DoCd(line)
        BY Zenon, <3>3 DEF DoCd, Prompt
      <3>4. CASE DoMount(line)
        BY Zenon, <3>4 DEF DoMount, Prompt
      <3>5. CASE DoPart(line)
        BY Zenon, <3>5 DEF DoPart, Prompt
      <3>6. CASE DoOverride(line)
        BY Zenon, <3>6 DEF DoOverride, Prompt
      <3>7. CASE DoFx(line)
        BY Zenon, <3>7 DEF DoFx, Prompt
      <3> QED BY <2>1, <3>1, <3>2, <3>3, <3>4, <3>5, <3>6, <3>7
    <2> QED BY <2>2, ElsewhereLoads
  <1> QED BY <1>2, <1>3, <1>4, <1>5, <1>6, <1>7, <1>8, <1>9, <1>10, <1>11, <1>12, <1>13
          DEF Handlers

LEMMA StutterLoad == LoadInv /\ UNCHANGED vars => LoadInv'
  <1> SUFFICES ASSUME LoadInv, UNCHANGED vars PROVE LoadInv'
    OBVIOUS
  <1>1. UNCHANGED <<f, cd, boot_file, cmd_line, mem, todo, win, h, pc>>
    BY DEF vars
  <1>2. KernelNo' = KernelNo
    BY <1>1 DEF KernelNo, Kernel
  <1>3. KernelCells' = KernelCells
    BY <1>1, <1>2 DEF KernelCells
  <1>4. Loaded'
    <2>1. Loaded
      BY DEF LoadInv
    <2> QED BY <1>1, <1>3, <2>1 DEF Loaded
  <1> QED BY <1>1, <1>2, <1>3, <1>4 DEF LoadInv

LEMMA InitLoad == Init => LoadInv
  <1> SUFFICES ASSUME Init PROVE LoadInv
    OBVIOUS
  <1>1. pc = "start"
    BY DEF Init
  <1> QED BY <1>1 DEF LoadInv, Loaded

LEMMA NextLoad == TypeInv /\ DirInv /\ LoadInv /\ [Next]_vars => LoadInv' /\ [Gave]_vars
  <1> SUFFICES ASSUME TypeInv, DirInv, LoadInv, Next PROVE LoadInv' /\ Gave
    BY StutterLoad
  <1>1. Types /\ MountInv
    BY TypeParts DEF DirInv
  <1>2. Handlers
    BY NextCases
  <1> QED BY <1>1, <1>2, HandlersLoad

\* While a kernel is loaded the open file stands where the sections have got to,
\* and memory holds all of them up to there: what the buffered reads left of a
\* block, what went past the buffer and what was cut at a page's end add up
\* (boot and mwrite, booter.c:440-575).
THEOREM LoadKept == Spec => []LoadInv
  <1>1. Init => LoadInv
    BY InitLoad
  <1>2. TypeInv /\ DirInv /\ LoadInv /\ [Next]_vars => LoadInv'
    BY NextLoad
  <1> QED BY <1>1, <1>2, TypesKept, DirKept, PTL DEF Spec

\* Whatever kernel file, sizes of blocks and pages and failures there are, a
\* kernel that is started has in memory all its file's sections define, the
\* bounce routine with the entry point, and the command line (boot,
\* booter.c:496-575).
THEOREM LoadedHolds == Spec => []Loaded
  <1>1. LoadInv => Loaded
    BY DEF LoadInv
  <1> QED BY <1>1, LoadKept, PTL

\* boot gives up for a reason the kernel file or the device has, on any disk
\* (boot, booter.c:501-547).
THEOREM FailsForReasonHolds == Spec => FailsForReason
  <1>1. TypeInv /\ DirInv /\ LoadInv /\ [Next]_vars => [Gave]_vars
    BY NextLoad
  <1>2. Spec => [][Gave]_vars
    BY <1>1, TypesKept, DirKept, LoadKept, PTL DEF Spec
  <1> QED BY <1>2 DEF FailsForReason, Gave
=============================================================================
