------------------------------- MODULE BooterInv -------------------------------
(***************************************************************************)
(* The invariants that module BooterProofs proves about booter.c: the      *)
(* types of everything, what a mount leaves, and, while a kernel is        *)
(* loaded, how far the file has been read and what of it is in memory.     *)
(***************************************************************************)
EXTENDS Booter

DriveNo == 0..255
Left == 0..BSZ
FileState == [drive : DriveNo, part_offset : Nat, buf : BlockSet, i : Inode,
              idir : Seq(Nat), dbuf : BlockSet, left : Left, spos : Nat, epos : Nat,
              bad : Nat, unseen : BOOLEAN]
Memory == UNION {[A -> Nat] : A \in SUBSET Nat}
Window == [paddr : Nat, mleft : 0..PSZ]
Header == {s \in Seq(Nat) : Len(s) = HSZ}

TypeInv ==
    /\ TypeOK
    /\ f \in FileState /\ f.bad = 0 /\ cd \in InodeNo /\ cd # None
    /\ boot_file \in Seq(Word) /\ cmd_line \in Seq(Nat) /\ cdbad \in BOOLEAN
    /\ mem \in Memory /\ win \in Window /\ h \in Header

(***************************************************************************)
(* What the disks are taken to be, beyond their types: a super block's     *)
(* file system has a root, and nothing but the first block of a disk ends  *)
(* like a master boot record.                                              *)
(***************************************************************************)
RootsAreDirs ==
    /\ ~Zero.super
    /\ \A d \in DOMAIN Disks : \A n \in DOMAIN Disks[d] :
         Disks[d][n].super => InodeOf([drive |-> d, part_offset |-> n - 1], ROOT).dir
OneMbr ==
    /\ ~Zero.mbr
    /\ \A d \in DOMAIN Disks : \A n \in DOMAIN Disks[d] : Disks[d][n].mbr => n = 0

\* With a file system mounted, its super block is where it is looked for.
MountInv ==
    /\ mountf => f.drive \in DOMAIN Disks /\ At(f, 1).super
    /\ pc \in {"msg", "open"} => mountf
DirInv == MountInv /\ (RootsAreDirs => CdIsDir)

(***************************************************************************)
(* Loading.  The open file is the kernel's, Pos cells of it have been      *)
(* handed out, and what is left of a block is in dbuf.                     *)
(***************************************************************************)
Pos(x) == x.spos * BSZ - x.left
IsOpen(x, i) ==
    /\ x.drive \in DOMAIN Disks /\ ~x.unseen
    /\ x.i = i /\ x.idir = At(x, i.ind).ptrs /\ x.epos = i.blocks /\ x.spos <= x.epos
    /\ x.left > 0 => x.spos > 0 /\ x.dbuf.bytes = BlockOf(x, i, x.spos).bytes

Holds(m, part) == \A a \in DOMAIN part : a \in DOMAIN m /\ m[a] = part[a]

\* The k-th header is next.
AtHeader(s, k, pos, m) ==
    LET at == Sections(s)[k]
    IN  at.ends = "more" /\ at.p = pos + 1 /\ Holds(m, at.mem)

\* The k-th header was read and n cells of its section are in memory.
Partly(s, at, n) == Over(Cells(s[at.p + 2], SubSeq(s, at.p + HSZ, at.p + HSZ + n - 1)), at.mem)
InSection(s, k, pos, m, left, addr) ==
    LET at == Sections(s)[k]
        n  == s[at.p + 1] - left
    IN  /\ at.ends = "more" /\ at.p + HSZ - 1 <= Len(s) /\ s[at.p] = PRE /\ n >= 0
        /\ pos + 1 = at.p + HSZ + n /\ pos <= Len(s) /\ addr = s[at.p + 2] + n
        /\ Holds(m, Partly(s, at, n))

\* All sections are in memory.
AtEnd(s, entry, m) == Image(s).ends = "well" /\ Image(s).entry = entry /\ Holds(m, Image(s).mem)

Places(s) == 0..Len(s)
LoadInv ==
    /\ pc \in {"header", "section", "jump"} /\ ~f.unseen =>
         KernelNo # None /\ IsOpen(f, InodeOf(f, KernelNo))
    /\ pc = "header" /\ ~f.unseen =>
         \E k \in Places(KernelCells) : AtHeader(KernelCells, k, Pos(f), mem)
    /\ pc = "section" /\ ~f.unseen =>
         \E k \in Places(KernelCells) :
           InSection(KernelCells, k, Pos(f), mem, todo, win.paddr)
    /\ pc = "jump" /\ ~f.unseen => AtEnd(KernelCells, h[3], mem)
    /\ Loaded
=============================================================================
