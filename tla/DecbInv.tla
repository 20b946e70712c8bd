------------------------------- MODULE DecbInv -------------------------------
(***************************************************************************)
(* The inductive invariants behind FatSound and NoLeak.  During a command  *)
(* the FAT in memory (mfat), not the one on the image, is in step with the *)
(* files: the running put owns a chain that no directory entry names yet,  *)
(* and the running rm a chain whose head is its cursor.                    *)
(***************************************************************************)
EXTENDS Decb

(* Files at slots S are disjoint chains in f; own is the head of a further *)
(* chain, of the command that runs (255 when it has none).                 *)
Disjoint(f, d, S, own) ==
    /\ \A i \in S : d[i].first \in Gran /\ f[d[i].first] # FREE /\ d[i].first # own
    /\ \A i, j \in S : d[i].first = d[j].first => i = j
    /\ \A i \in S, g \in Gran : f[g] # d[i].first
    /\ \A g \in Gran : f[g] \in Gran => f[f[g]] # FREE /\ f[g] # own
    /\ \A g, h \in Gran : f[g] \in Gran /\ f[g] = f[h] => g = h
    /\ own \in Gran => f[own] # FREE

NoOwn == 255

Sound(f, d) == Disjoint(f, d, LiveSlots(d), NoOwn) /\ DirSound(d)

MkfsInv ==
    pc = "mkfs" =>
        /\ x \in 0..(FATZ + 2)
        /\ x > HALF => fat = BlankFat /\ \A i \in Slot : i < DIR1 => dir[i] = Wiped
        /\ x > HALF + 1 => \A i \in Slot : dir[i] = Wiped

(* off is where the entry of the file being put will go. *)
PutSlotInv ==
    /\ off \in Slot /\ ~Live(dir[off])
    /\ \A j \in 0..(off - 1) : Live(dir[j])
    /\ DirSound(dir)
    /\ \A i \in LiveSlots(dir) : dir[i].name # job.name
    /\ job.name \in Names
    /\ entry.first \in Gran
    /\ Disjoint(mfat, dir, LiveSlots(dir), entry.first)

PutInv ==
    /\ pc = "put" =>
        /\ PutSlotInv
        /\ x \in Gran /\ mfat[x] = LastByte(0)
        /\ RoomAssumed => Len(src) \div GRANZ <= GranFree(mfat)
    /\ pc = "put_entry" => PutSlotInv /\ entry.name = job.name
    /\ pc = "put_fat" => Sound(mfat, dir)

RmInv ==
    /\ pc \in {"rm", "rm_entry"} =>
        /\ off \in LiveSlots(dir)
        /\ DirSound(dir)
    /\ pc = "rm" => Disjoint(mfat, dir, LiveSlots(dir) \ {off}, x)
    /\ pc = "rm_entry" =>
        /\ Disjoint(fat, dir, LiveSlots(dir) \ {off}, NoOwn)
        /\ entry.name = Deleted

WalkInv ==
    pc \in {"walk", "boot"} =>
        /\ mfat = fat
        /\ job.op = "putboot" =>
            \A g \in BootTrack : \A i \in LiveSlots(dir), h \in Gran :
                dir[i].first # g /\ fat[h] # g
        /\ pc = "boot" => job.op = "putboot" /\ x \in (FATZ - 2)..FATZ

RestInv == pc \in {"idle", "get", "walk", "boot"} => Sound(fat, dir)

(* The FAT in memory and the directory are in step at every instant of     *)
(* every command: the invariant that makes FatSound inductive.             *)
SoundInv == fails = 0 => MkfsInv /\ PutInv /\ RmInv /\ WalkInv /\ RestInv

-----------------------------------------------------------------------------
VisibleFiles == LiveSlots(dir) \cap Visible(dir)

(* Every allocated granule can be reached from a file at slots S or from   *)
(* own, or is a reserved one.                                              *)
Accounted(f, d, S, own) == NothingLeaked(f, Heads(d, S) \cup {own})

(* No file begins at g and no link leads there. *)
Unreached(f, d, S, g) == g \notin Heads(d, S) /\ \A h \in Gran : f[h] # g

(* The granule put writes next is on its own chain.  Past the end of a full *)
(* disk the cursor is off the FAT, and the only granule that looks free is *)
(* the last one of that chain, which the -1 of findgran was stored in.     *)
OnOwnChain(g) == g = entry.first \/ \E h \in Gran : mfat[h] = g
CursorInv ==
    /\ x \in Gran => mfat[x] = LastByte(0) /\ OnOwnChain(x)
    /\ x \notin Gran => \A g \in FreeGrans(mfat) : OnOwnChain(g)

(* The same accounting in the middle of a command, with the chain being    *)
(* built or taken apart: what makes NoLeak inductive, crashes included.    *)
LeakInv ==
    /\ pc # "mkfs" => Accounted(fat, dir, VisibleFiles, NoOwn)
    /\ pc = "mkfs" =>
        /\ x \in 0..(FATZ + 2)
        /\ x <= HALF => Accounted(fat, dir, VisibleFiles, NoOwn)
        /\ x > HALF => fat = BlankFat
    /\ pc \in {"put", "put_entry"} =>
        /\ off \in Slot /\ ~Live(dir[off]) /\ \A j \in 0..(off - 1) : Live(dir[j])
        /\ Accounted(mfat, dir, VisibleFiles, entry.first)
        /\ job.name \in Names
    /\ pc = "put" => CursorInv
    /\ pc = "put_entry" => entry.name = job.name
    /\ pc = "put_fat" => Accounted(mfat, dir, VisibleFiles, NoOwn)
    /\ pc \in {"rm", "rm_entry"} => off \in VisibleFiles
    /\ pc = "rm" => Accounted(mfat, dir, VisibleFiles \ {off}, x)
    /\ pc = "rm_entry" =>
        /\ Accounted(fat, dir, VisibleFiles \ {off}, NoOwn)
        /\ entry.name = Deleted
    /\ pc \in {"walk", "boot"} =>
        /\ mfat = fat
        /\ BootHeeded /\ job.op = "putboot" =>
            \A g \in BootTrack : Unreached(fat, dir, VisibleFiles, g)
    /\ pc = "boot" => job.op = "putboot"

-----------------------------------------------------------------------------
(* Nothing that is allocated on the image was changed in memory. *)
OnlyAdds == \A g \in Gran : fat[g] # FREE => mfat[g] = fat[g]

(* put only fills granules that are free on the image, even past the end   *)
(* of a full disk, and rm only frees granules that a file leads to, also   *)
(* where crashes left files that share them: what ReservedKept rests on.   *)
KeepInv ==
    /\ pc = "mkfs" => job.op = "mkfs"
    /\ pc = "boot" => job.op = "putboot"
    /\ pc \in {"put", "put_entry", "put_fat"} => OnlyAdds
    /\ pc = "put" /\ x \in Gran => fat[x] = FREE
    /\ pc = "rm" =>
        /\ \A g \in Gran : mfat[g] \in {FREE, fat[g]}
        /\ \A g \in Gran : IsReserved(g) => mfat[g] = fat[g]
        /\ x \in Gran => ~IsReserved(x)
=============================================================================
