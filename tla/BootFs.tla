-------------------------------- MODULE BootFs --------------------------------
(***************************************************************************)
(* The part of booter/booter.c that reads a FUZIX file system: one device, *)
(* one open file, and the look-up of a path.  The state of all this is the *)
(* record f, which the functions of the C program change.                  *)
(*                                                                         *)
(* A block is what each reader sees in it: [mbr, part, super, inodes,      *)
(* ptrs, ents, bytes] is whether it ends like a master boot record, the    *)
(* first sector of each partition, whether it has a super block's magic,   *)
(* and it as inodes, block numbers, directory entries or BSZ cells of      *)
(* data.                                                                   *)
(***************************************************************************)
EXTENDS Integers, Sequences, SequencesExt

CONSTANTS Names,     \* what words and directories call things
          Disks,     \* drive -> block number -> block
          Zero,      \* a block of zeros: what is read past the end of a disk
          BSZ,       \* cells of a block (512 bytes)
          IPB,       \* inodes of a block (8)
          NDirect    \* direct blocks of an inode (18)

ROOT == 1
None == 65535        \* -1, as the functions return it

InodeNo == 0..None
Inode == [dir : BOOLEAN, blocks : Nat, addr : Seq(Nat), ind : Nat]
DirEntry == [name : Names, inode : InodeNo]
Sector == {s \in Seq(Nat) : Len(s) = BSZ}
BlockSet == [mbr : BOOLEAN, part : [DOMAIN Disks -> Nat], super : BOOLEAN,
             inodes : [1..IPB -> Inode], ptrs : Seq(Nat),
             ents : Seq(DirEntry), bytes : Sector]

ASSUME DisksAssumption ==
    /\ BSZ \in Nat \ {0} /\ IPB \in Nat \ {0} /\ NDirect \in Nat
    /\ Zero \in BlockSet
    /\ \A d \in DOMAIN Disks : \A n \in DOMAIN Disks[d] : Disks[d][n] \in BlockSet

Block(d, n) == IF n \in DOMAIN Disks[d] THEN Disks[d][n] ELSE Zero

(***************************************************************************)
(* drive and part_offset; buf; the open file's inode, idir, dbuf, left,    *)
(* spos and epos.  bad counts down to the transaction with the device that *)
(* fails, and is 0 when none does; unseen, for the properties, tells that  *)
(* the code did not look at the failure.                                   *)
(***************************************************************************)
NoFile == [drive |-> 0, part_offset |-> 0, buf |-> Zero, i |-> Zero.inodes[1],
           idir |-> Zero.ptrs, dbuf |-> Zero, left |-> 0, spos |-> 0, epos |-> 0,
           bad |-> 0, unseen |-> FALSE]

Works(f) == f.bad # 1
Used(f) == [f EXCEPT !.bad = IF @ = 0 THEN 0 ELSE @ - 1]

\* dev_read: a drive that is not there never answers well.  What the caller
\* gets in its buffer is the block, or what was there before.
dev_read(f, blk, old) ==
    IF Works(f) /\ f.drive \in DOMAIN Disks
    THEN [f |-> Used(f), ok |-> TRUE, got |-> Block(f.drive, f.part_offset + blk)]
    ELSE [f |-> Used(f), ok |-> FALSE, got |-> old]

\* What both of iopen's reads, a of the inode i and b of its indirect block,
\* return is not looked at.
Opened(a, i, b) ==
    [b.f EXCEPT !.buf = a.got, !.i = i, !.idir = b.got.ptrs,
                !.left = 0, !.spos = 0, !.epos = i.blocks,
                !.unseen = @ \/ ~(a.ok /\ b.ok)]
ReadIndirect(a, i) == Opened(a, i, dev_read(a.f, i.ind, [Zero EXCEPT !.ptrs = a.f.idir]))
ReadInode(a, k) == ReadIndirect(a, a.got.inodes[k])
iopen(f, no) == ReadInode(dev_read(f, 2 + no \div IPB, f.buf), (no % IPB) + 1)

bmap(f) == IF f.spos < NDirect THEN f.i.addr[f.spos + 1]
                               ELSE f.idir[f.spos - NDirect + 1]

\* Mutant: the last block but one is taken for the last.
FilledShort(a) ==
    [a.f EXCEPT !.dbuf = a.got, !.spos = IF @ + 2 = a.f.epos THEN @ + 2 ELSE @ + 1,
                !.left = BSZ, !.unseen = @ \/ ~a.ok]

\* The next block of the file comes into dbuf, whole even when it is the last.
Filled(a) ==
    [a.f EXCEPT !.dbuf = a.got, !.spos = @ + 1, !.left = BSZ, !.unseen = @ \/ ~a.ok]
NextBlock(f) == Filled(dev_read(f, bmap(f), f.dbuf))

\* iread: at most what is left of one block; nothing at the end of the file.
Taken(f, k) ==
    [f |-> [f EXCEPT !.left = @ - k],
     got |-> SubSeq(f.dbuf.bytes, BSZ - f.left + 1, BSZ - f.left + k)]
FromBuffer(f, n) == Taken(f, IF n < f.left THEN n ELSE f.left)
iread(f, n) ==
    IF f.left = 0 /\ f.spos = f.epos THEN [f |-> f, got |-> <<>>]
    ELSE FromBuffer(IF f.left = 0 THEN NextBlock(f) ELSE f, n)

\* The inode number the entries give a name, None if they do not.
Hits(ents, name) == {k \in DOMAIN ents : ents[k].name = name}
Match(ents, name) ==
    IF Hits(ents, name) = {} THEN None ELSE ents[Min(Hits(ents, name))].inode

\* lookup reads block after block until the name is found.  Its test that
\* the inode is a directory never fires: & binds weaker than ==.
Scanned(f, name) == [f |-> f, ino |-> Match(f.dbuf.ents, name)]
Further(at, name) == IF at.ino # None THEN at ELSE Scanned(NextBlock(at.f), name)
Scan(f, name) ==
    LET Upto[k \in 0..f.epos] ==
          IF k = 0 THEN [f |-> f, ino |-> None] ELSE Further(Upto[k - 1], name)
    IN  Upto[f.epos]
lookup(f, ino, name) == Scan(iopen(f, ino), name)

\* dopath: a word names a path, from the root or from cd.  After a trailing
\* slash the empty name is looked up, which an unused entry has.
Into(at, name) == IF at.ino = None THEN at ELSE lookup(at.f, at.ino, name)
dopath(f, cd, w) ==
    LET Upto[k \in 0..Len(w.path)] ==
          IF k = 0 THEN [f |-> f, ino |-> IF w.abs THEN ROOT ELSE cd]
          ELSE Into(Upto[k - 1], w.path[k])
    IN  Upto[Len(w.path)]

OpenAt(at) ==
    IF at.ino = None THEN [f |-> at.f, ok |-> FALSE, no |-> None]
    ELSE [f |-> iopen(at.f, at.ino), ok |-> TRUE, no |-> at.ino]
open(f, cd, w) == OpenAt(dopath(f, cd, w))

\* dir reads the directory to its end, cat the file.
ReadAll(f) ==
    LET Upto[k \in 0..f.epos] == IF k = 0 THEN f ELSE NextBlock(Upto[k - 1])
    IN  [Upto[f.epos] EXCEPT !.left = 0]
dir(f, cd) == ReadAll(iopen(f, cd))
\* cat has iread copy each block to buf, where it turns newlines into returns
\* (two bytes that are not told apart here).
CopiedToBuf(f) == IF f.epos = 0 THEN f ELSE [f EXCEPT !.buf = f.dbuf]
Shown(a) == IF a.ok THEN CopiedToBuf(ReadAll(a.f)) ELSE a.f
cat(f, cd, w) == Shown(open(f, cd, w))

\* dw_init takes the drive's number whether the server answers or not.
dev_init(f, minor) == [f |-> [Used(f) EXCEPT !.drive = minor], ok |-> Works(f)]

\* The super block, behind the part_offset that is now set.
Super(c) == [f |-> [c.f EXCEPT !.buf = c.got], ok |-> c.ok /\ c.got.super]
MountAt(f) == Super(dev_read(f, 1, f.buf))

\* Mutant: without an MBR part_offset is left alone.
PartitionKept(b, minor, part) ==
    IF b.got.mbr /\ part # 0 THEN b.got.part[minor] ELSE b.f.part_offset

\* The partition is chosen with the number of the drive.
Partition(b, minor, part) ==
    IF ~b.got.mbr THEN 0 ELSE IF part # 0 THEN b.got.part[minor] ELSE b.f.part_offset

\* mount, with block 0 read.
Chosen(b, minor, part) ==
    [b.f EXCEPT !.buf = b.got, !.part_offset = Partition(b, minor, part)]
MountOn(b, minor, part) ==
    IF ~b.ok THEN [f |-> b.f, ok |-> FALSE]
    ELSE IF ~b.got.mbr /\ part > 0 THEN [f |-> Chosen(b, minor, part), ok |-> FALSE]
    ELSE MountAt(Chosen(b, minor, part))

\* mount: block 0 is looked for behind the part_offset of the mount before.
MountOf(a, minor, part) ==
    IF a.ok THEN MountOn(dev_read(a.f, 0, a.f.buf), minor, part)
    ELSE [f |-> a.f, ok |-> FALSE]
mount(f, minor, part) == MountOf(dev_init(f, minor), minor, part)

\* dopart reads block 0 of the disk.
PartShown(a, off) == [a.f EXCEPT !.buf = a.got, !.part_offset = off]
dopart(f) == PartShown(dev_read([f EXCEPT !.part_offset = 0], 0, f.buf), f.part_offset)
=============================================================================
