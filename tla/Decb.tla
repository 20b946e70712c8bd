-------------------------------- MODULE Decb --------------------------------
(***************************************************************************)
(* decb/decb.c: the tool that formats, reads and writes RSDOS (Disk        *)
(* Extended Color BASIC) disk images.  The image holds a file allocation   *)
(* table (one byte per granule), a directory of fixed size and the data    *)
(* granules.  An invocation of the tool loads the FAT into memory, walks   *)
(* it, and writes data, directory entry and FAT back with separate         *)
(* writes.  Every step below ends at one write to the image, or is one     *)
(* turn of a loop over a granule chain, so that a process that dies (or    *)
(* whose read or write fails) leaves exactly the image the model leaves.   *)
(*                                                                         *)
(* One invocation runs at a time: the tool takes no lock on the image.     *)
(***************************************************************************)
EXTENDS Integers, Sequences, FiniteSets

CONSTANTS
    FATZ,           \* granules on a disk (68 in the code)
    SECZ,           \* bytes of a sector (256)
    SPG,            \* sectors of a granule (9)
    NDIR,           \* directory entries (72)
    HALF,           \* granules before the directory track (34)
    DIR1,           \* directory entries in the first half of that track (56)
    Names,          \* file names in RSDOS form, what stringconv returns
    Byte,           \* the bytes the model tells apart
    HostFiles,      \* contents of the host files given to put and putboot
    RoomAssumed,    \* put is only given files that fit in the free granules
    BootHeeded,     \* putboot is only called when no file is on the boot track
    MaxFail         \* bound on the number of runs that die half way

NL == "nl"
CR == "cr"
FF == "ff"

GRANZ == SECZ * SPG

ASSUME SizesAssumption ==
    /\ FATZ \in 4..128 /\ NDIR \in Nat \ {0}
    /\ SECZ \in Nat \ {0} /\ SPG \in 1..61
    /\ HALF \in 1..FATZ /\ DIR1 \in 0..NDIR
    /\ MaxFail \in Nat /\ RoomAssumed \in BOOLEAN /\ BootHeeded \in BOOLEAN
ASSUME DataAssumption ==
    /\ {NL, CR, FF} \subseteq Byte
    /\ HostFiles \subseteq Seq(Byte)

Gran == 0..(FATZ - 1)
Slot == 0..(NDIR - 1)

(* A FAT byte is 0xff for a free granule, 0xc0 + n for the last granule of *)
(* a chain with n sectors in use, and otherwise the next granule.  The     *)
(* code tests (b & 0xc0) == 0xc0, which 0xff passes too.                   *)
FREE == 255
LastByte(n) == 192 + n
IsLast(b) == b >= 192
FatByte == Gran \cup 192..255

(* First byte of a directory entry's name: 0xff ends the directory, 0 is a *)
(* deleted entry.                                                          *)
EndMark == "end"
Deleted == "del"
ASSUME NamesAssumption == EndMark \notin Names /\ Deleted \notin Names

Entry == [name : Names \cup {EndMark, Deleted}, first : FatByte, rem : 0..(SECZ - 1)]
WithFirst(e, g) == [name |-> e.name, first |-> g, rem |-> e.rem]
WithName(e, n) == [name |-> n, first |-> e.first, rem |-> e.rem]
Wiped == [name |-> EndMark, first |-> 255, rem |-> 0]

VARIABLES
    fat,      \* image: the FAT
    dir,      \* image: the directory
    gran,     \* image: the data granules
    pc,       \* where the running invocation is, "idle" between two
    job,      \* the running or last command: op, name, file and options
    status,   \* exit status of the last command, "running" during one
    mfat,     \* fat[], the copy of the FAT in memory
    entry,    \* entry, the directory entry in memory
    off,      \* entry_off, the slot it was read from
    x,        \* granule cursor of the command's loop
    src,      \* bytes of the host file not yet read
    dst,      \* bytes written to the host file by get
    fails     \* number of invocations that died half way

image == <<fat, dir, gran>>
locals == <<mfat, entry, off, x, src>>
vars == <<fat, dir, gran, pc, job, status, mfat, entry, off, x, src, dst, fails>>

-----------------------------------------------------------------------------
(* Helpers of the code *)

Live(e) == e.name \in Names

(* getentry hands out the entries in order; find, ls and putboot stop at   *)
(* the first end mark.                                                     *)
Visible(d) == {i \in Slot : \A j \in 0..i : d[j].name # EndMark}

(* find: the slot of the first visible entry with this name, {} if none *)
Find(d, n) == {i \in Visible(d) : d[i].name = n /\ \A j \in 0..(i - 1) : d[j].name # n}

(* put's scan for a slot that is deleted or past the end; {} if none *)
FreeSlot(d) == {i \in Slot : ~Live(d[i]) /\ \A j \in 0..(i - 1) : Live(d[j])}

(* Mutant: a reserved granule counts as free. *)
FreeGransReserved(f) == {g \in Gran : f[g] \in {FREE, LastByte(0)}}
FreeGrans(f) == {g \in Gran : f[g] = FREE}

(* granfree *)
GranFree(f) == Cardinality(FreeGrans(f))

(* findgran: the lowest free granule.  The -1 it returns when there is     *)
(* none is stored in an uint8_t (entry.first, fat[x]) before it is tested, *)
(* so the caller goes on with 255.                                         *)
FindGran(f) ==
    IF FreeGrans(f) = {} THEN {255}
    ELSE {g \in FreeGrans(f) : \A h \in FreeGrans(f) : g <= h}

(* Stores to fat[255] fall outside the table and outside the image. *)
Store(f, g, b) == IF g \in Gran THEN [f EXCEPT ![g] = b] ELSE f

NlToCr(s) == [i \in DOMAIN s |-> IF s[i] = NL THEN CR ELSE s[i]]
CrToNl(s) == [i \in DOMAIN s |-> IF s[i] = CR THEN NL ELSE s[i]]

(* A granule after a write of s at its start. *)
Overlay(old, s) == [i \in 1..GRANZ |-> IF i <= Len(s) THEN s[i] ELSE old[i]]

Chunk(s) == SubSeq(s, 1, IF Len(s) < GRANZ THEN Len(s) ELSE GRANZ)
(* Mutant: a byte of the host file is skipped after each full granule. *)
AfterChunkSkips(s) == SubSeq(s, Len(Chunk(s)) + 2, Len(s))
AfterChunk(s) == SubSeq(s, Len(Chunk(s)) + 1, Len(s))

(* Granules a host file of this length takes: put asks for one more after  *)
(* every full granule.                                                     *)
Needs(s) == Len(s) \div GRANZ + 1

BootTrack == {FATZ - 2, FATZ - 1}

BlankFat == [g \in Gran |-> FREE]
BlankGran == [i \in 1..GRANZ |-> FF]
Flag == {"l", "m", "p"}
Op == {"mkfs", "ls", "get", "put", "rm", "putboot", "getboot"}
Job == [op : Op, name : Names \cup {EndMark}, file : HostFiles \cup {<< >>}, flags : SUBSET Flag]
NewJob(o, n, s, fl) == [op |-> o, name |-> n, file |-> s, flags |-> fl]

-----------------------------------------------------------------------------
(* Start and end of an invocation *)

Begin(j, next) ==
    /\ pc = "idle" /\ pc' = next
    /\ job' = j /\ status' = "running" /\ dst' = << >>

(* exit(st), or a return to main, which exits with the value returned. *)
Exit(st) ==
    /\ pc' = "idle" /\ status' = st
    /\ mfat' = BlankFat /\ entry' = Wiped /\ off' = 0 /\ x' = 0 /\ src' = << >>

(* Any read, write or seek of the image or of the host file that fails     *)
(* makes the tool exit(1) on the spot; the process may be killed as well.  *)
Fail ==
    /\ pc # "idle" /\ fails < MaxFail
    /\ fails' = fails + 1
    /\ Exit("err")
    /\ UNCHANGED <<fat, dir, gran, job, dst>>

(* A command refused before it touches anything: the file is not there     *)
(* (get, rm), or it is, or the directory is full (put).                    *)
Refuse(j) ==
    /\ pc = "idle"
    /\ \/ j.op \in {"get", "rm"} /\ Find(dir, j.name) = {}
       \/ j.op = "put" /\ (Find(dir, j.name) # {} \/ FreeSlot(dir) = {})
    /\ job' = j /\ status' = "err" /\ dst' = << >>
    /\ UNCHANGED <<image, pc, locals, fails>>

-----------------------------------------------------------------------------
(* mkfs [-m] [-p]: overwrite the FATZ + 2 physical granules with 0xff, in  *)
(* order; the two after the first HALF hold the FAT and the directory.     *)

MkfsBegin(fl) ==
    /\ Begin(NewJob("mkfs", EndMark, << >>, fl), "mkfs")
    /\ x' = 0
    /\ UNCHANGED <<image, mfat, entry, off, src, fails>>

MkfsWrite ==
    /\ pc = "mkfs" /\ x < FATZ + 2
    /\ gran' = [g \in Gran |->
                  IF x = (IF g >= HALF THEN g + 2 ELSE g) THEN BlankGran ELSE gran[g]]
    /\ fat' = IF x = HALF THEN BlankFat ELSE fat
    /\ dir' = [i \in Slot |->
                 IF \/ x = HALF /\ i < DIR1
                    \/ x = HALF + 1 /\ i >= DIR1
                 THEN Wiped ELSE dir[i]]
    /\ x' = x + 1
    /\ UNCHANGED <<pc, job, status, mfat, entry, off, src, dst, fails>>

Reserved(fl) ==
    {g \in Gran : (g = 0 /\ "m" \in fl) \/ (g \in BootTrack /\ "p" \in fl)}

MkfsSaveFat ==
    /\ pc = "mkfs" /\ x = FATZ + 2
    /\ fat' = [g \in Gran |-> IF g \in Reserved(job.flags) THEN LastByte(0) ELSE fat[g]]
    /\ Exit("ok")
    /\ UNCHANGED <<dir, gran, job, dst, fails>>

-----------------------------------------------------------------------------
(* put [-l] src name *)

(* Mutant: the directory entry is written before the data. *)
PutOpenEarlyEntry(n, s, fl) ==
    /\ Begin(NewJob("put", n, s, fl), "put")
    /\ RoomAssumed => Needs(s) <= GranFree(fat)
    /\ Find(dir, n) = {}
    /\ \E i \in FreeSlot(dir), g \in FindGran(fat) :
        /\ off' = i /\ entry' = WithFirst(dir[i], g)
        /\ mfat' = Store(fat, g, LastByte(0)) /\ x' = g
        /\ dir' = [dir EXCEPT ![i] = WithName(WithFirst(dir[i], g), n)]
    /\ src' = s
    /\ UNCHANGED <<fat, gran, fails>>

PutOpen(n, s, fl) ==
    /\ Begin(NewJob("put", n, s, fl), "put")
    /\ RoomAssumed => Needs(s) <= GranFree(fat)
    /\ Find(dir, n) = {}
    /\ \E i \in FreeSlot(dir), g \in FindGran(fat) :
        /\ off' = i
        /\ entry' = WithFirst(dir[i], g)
        /\ mfat' = Store(fat, g, LastByte(0))
        /\ x' = g
    /\ src' = s
    /\ UNCHANGED <<image, fails>>

WriteGran(s) == [g \in Gran |-> IF g = x THEN Overlay(gran[g], s) ELSE gran[g]]

(* A full granule was read: one more is asked for before the next read. *)
PutFull ==
    /\ pc = "put" /\ Len(src) >= GRANZ
    /\ gran' = WriteGran(IF "l" \in job.flags THEN NlToCr(Chunk(src)) ELSE Chunk(src))
    /\ \E g \in FindGran(mfat) :
        /\ mfat' = Store(Store(mfat, g, LastByte(0)), x, g)
        /\ x' = g
    /\ src' = AfterChunk(src)
    /\ UNCHANGED <<fat, dir, pc, job, status, entry, off, dst, fails>>

(* Mutant: the remainder is the whole tail. *)
PutTailNoMod ==
    /\ pc = "put" /\ Len(src) < GRANZ
    /\ gran' = WriteGran(IF "l" \in job.flags THEN NlToCr(src) ELSE src)
    /\ mfat' = Store(mfat, x, LastByte((Len(src) + SECZ - 1) \div SECZ))
    /\ entry' = [name |-> job.name, first |-> entry.first, rem |-> Len(src)]
    /\ src' = << >>
    /\ pc' = "put_entry"
    /\ UNCHANGED <<fat, dir, job, status, off, x, dst, fails>>

(* Mutant: the sectors of the last granule are rounded down. *)
PutTailFloor ==
    /\ pc = "put" /\ Len(src) < GRANZ
    /\ gran' = WriteGran(IF "l" \in job.flags THEN NlToCr(src) ELSE src)
    /\ mfat' = Store(mfat, x, LastByte(Len(src) \div SECZ))
    /\ entry' = [name |-> job.name, first |-> entry.first, rem |-> Len(src) % SECZ]
    /\ src' = << >>
    /\ pc' = "put_entry"
    /\ UNCHANGED <<fat, dir, job, status, off, x, dst, fails>>

(* Mutant: the last granule's FAT byte is the bare number of sectors. *)
PutTailNoMark ==
    /\ pc = "put" /\ Len(src) < GRANZ
    /\ gran' = WriteGran(IF "l" \in job.flags THEN NlToCr(src) ELSE src)
    /\ mfat' = Store(mfat, x, (Len(src) + SECZ - 1) \div SECZ)
    /\ entry' = [name |-> job.name, first |-> entry.first, rem |-> Len(src) % SECZ]
    /\ src' = << >>
    /\ pc' = "put_entry"
    /\ UNCHANGED <<fat, dir, job, status, off, x, dst, fails>>

(* The short read that ends the file, and the entry and FAT byte for it. *)
PutTail ==
    /\ pc = "put" /\ Len(src) < GRANZ
    /\ gran' = WriteGran(IF "l" \in job.flags THEN NlToCr(src) ELSE src)
    /\ mfat' = Store(mfat, x, LastByte((Len(src) + SECZ - 1) \div SECZ))
    /\ entry' = [name |-> job.name, first |-> entry.first, rem |-> Len(src) % SECZ]
    /\ src' = << >>
    /\ pc' = "put_entry"
    /\ UNCHANGED <<fat, dir, job, status, off, x, dst, fails>>

SaveEntry(next) ==
    /\ dir' = [dir EXCEPT ![off] = entry]
    /\ pc' = next

PutSaveEntry ==
    /\ pc = "put_entry"
    /\ SaveEntry("put_fat")
    /\ UNCHANGED <<fat, gran, job, status, mfat, entry, off, x, src, dst, fails>>

PutSaveFat ==
    /\ pc = "put_fat"
    /\ fat' = mfat
    /\ Exit("ok")
    /\ UNCHANGED <<dir, gran, job, dst, fails>>

-----------------------------------------------------------------------------
(* rm name *)

OpenFile(n) ==
    \E i \in Find(dir, n) :
        off' = i /\ entry' = dir[i] /\ x' = dir[i].first /\ mfat' = fat

RmOpen(n) ==
    /\ Begin(NewJob("rm", n, << >>, {}), "rm")
    /\ OpenFile(n)
    /\ UNCHANGED <<image, src, fails>>

(* One turn of delchain. *)
RmDelchain ==
    /\ pc = "rm" /\ ~IsLast(x)
    /\ mfat' = [mfat EXCEPT ![x] = FREE]
    /\ x' = mfat[x]
    /\ UNCHANGED <<image, pc, job, status, entry, off, src, dst, fails>>

(* Mutant: the entry is written back with its name. *)
RmSaveFatKeepsName ==
    /\ pc = "rm" /\ IsLast(x)
    /\ fat' = mfat
    /\ pc' = "rm_entry"
    /\ UNCHANGED <<dir, gran, job, status, mfat, entry, off, x, src, dst, fails>>

(* Mutant: no savefat. *)
RmSaveFatNoWrite ==
    /\ pc = "rm" /\ IsLast(x)
    /\ entry' = WithName(entry, Deleted)
    /\ pc' = "rm_entry"
    /\ UNCHANGED <<fat, dir, gran, job, status, mfat, off, x, src, dst, fails>>

RmSaveFat ==
    /\ pc = "rm" /\ IsLast(x)
    /\ entry' = WithName(entry, Deleted)
    /\ fat' = mfat
    /\ pc' = "rm_entry"
    /\ UNCHANGED <<dir, gran, job, status, mfat, off, x, src, dst, fails>>

RmSaveEntry ==
    /\ pc = "rm_entry"
    /\ dir' = [dir EXCEPT ![off] = entry]
    /\ Exit("ok")
    /\ UNCHANGED <<fat, gran, job, dst, fails>>

-----------------------------------------------------------------------------
(* get [-l] name dst *)

GetOpen(n, fl) ==
    /\ Begin(NewJob("get", n, << >>, fl), "get")
    /\ OpenFile(n)
    /\ UNCHANGED <<image, src, fails>>

(* Mutant: the last sector is counted twice. *)
GetSizeWhole == IF IsLast(mfat[x]) THEN (mfat[x] - LastByte(0)) * SECZ + entry.rem ELSE GRANZ

(* Bytes get takes from the granule at the cursor. *)
GetSize == IF IsLast(mfat[x]) THEN (mfat[x] - LastByte(0) - 1) * SECZ + entry.rem ELSE GRANZ

GetData == IF "l" \in job.flags THEN CrToNl(gran[x]) ELSE gran[x]

GetNext ==
    /\ pc = "get" /\ x \in Gran /\ GetSize = GRANZ
    /\ dst' = dst \o GetData
    /\ x' = mfat[x]
    /\ UNCHANGED <<image, pc, job, status, mfat, entry, off, src, fails>>

GetLast ==
    /\ pc = "get" /\ x \in Gran /\ GetSize \in 0..(GRANZ - 1)
    /\ dst' = dst \o SubSeq(GetData, 1, GetSize)
    /\ Exit("ok")
    /\ UNCHANGED <<image, job, fails>>

(* write(dst, buf, size) with a negative size fails. *)
GetNegative ==
    /\ pc = "get" /\ x \in Gran /\ GetSize < 0
    /\ Exit("err")
    /\ UNCHANGED <<image, job, dst, fails>>

(* The chain ends in a free granule (its size byte reads as 62 sectors,    *)
(* past the end of buf) or outside the table: what is written is whatever  *)
(* lies there, or the read or write fails.                                 *)
GetUndefined ==
    /\ pc = "get" /\ (IF x \in Gran THEN GetSize > GRANZ ELSE TRUE)
    /\ \/ Exit("err") /\ dst' = dst
       \/ Exit("ok") /\ dst' = Append(dst, FF)
    /\ UNCHANGED <<image, job, fails>>

-----------------------------------------------------------------------------
(* ls, and the check putboot makes first: visit the chain of every file.   *)

WalkBegin(j) ==
    /\ Begin(j, "walk")
    /\ mfat' = fat /\ off' = 0 /\ x' = FREE
    /\ UNCHANGED <<image, entry, src, fails>>

List == WalkBegin(NewJob("ls", EndMark, << >>, {}))

OnBootTrack(g) ==
    \/ \E i \in Visible(dir) : Live(dir[i]) /\ dir[i].first = g
    \/ \E h \in Gran : fat[h] = g

PutBoot(s) ==
    /\ BootHeeded => \A g \in BootTrack : ~OnBootTrack(g)
    /\ WalkBegin(NewJob("putboot", EndMark, s, {}))

WalkChain ==
    /\ pc = "walk" /\ ~IsLast(x)
    /\ x' = mfat[x]
    /\ UNCHANGED <<image, pc, job, status, mfat, entry, off, src, dst, fails>>

WalkEntry ==
    /\ pc = "walk" /\ IsLast(x) /\ off \in Visible(dir)
    /\ x' = IF Live(dir[off]) THEN dir[off].first ELSE FREE
    /\ off' = off + 1
    /\ UNCHANGED <<image, pc, job, status, mfat, entry, src, dst, fails>>

ListDone ==
    /\ pc = "walk" /\ IsLast(x) /\ off \notin Visible(dir) /\ job.op = "ls"
    /\ Exit("ok")
    /\ UNCHANGED <<image, job, dst, fails>>

(* The check prints "boot track already used" and goes on all the same. *)
BootBegin ==
    /\ pc = "walk" /\ IsLast(x) /\ off \notin Visible(dir) /\ job.op = "putboot"
    /\ pc' = "boot" /\ x' = FATZ - 2 /\ src' = job.file
    /\ UNCHANGED <<image, job, status, mfat, entry, off, dst, fails>>

BootWrite ==
    /\ pc = "boot" /\ x < FATZ
    /\ gran' = WriteGran(Chunk(src))
    /\ src' = AfterChunk(src)
    /\ x' = x + 1
    /\ UNCHANGED <<fat, dir, pc, job, status, mfat, entry, off, dst, fails>>

BootSaveFat ==
    /\ pc = "boot" /\ x = FATZ
    /\ fat' = [g \in Gran |-> IF g \in BootTrack THEN LastByte(0) ELSE mfat[g]]
    /\ Exit("ok")
    /\ UNCHANGED <<dir, gran, job, dst, fails>>

GetBoot ==
    /\ pc = "idle"
    /\ job' = NewJob("getboot", EndMark, << >>, {})
    /\ status' = "ok"
    /\ dst' = gran[FATZ - 2] \o gran[FATZ - 1]
    /\ UNCHANGED <<image, pc, locals, fails>>

-----------------------------------------------------------------------------
(* The image starts as mkfs leaves it. *)
Init ==
    /\ \E fl \in SUBSET {"m", "p"} :
        /\ fat = [g \in Gran |-> IF g \in Reserved(fl) THEN LastByte(0) ELSE FREE]
        /\ job = NewJob("mkfs", EndMark, << >>, fl)
    /\ dir = [i \in Slot |-> Wiped]
    /\ gran = [g \in Gran |-> BlankGran]
    /\ pc = "idle" /\ status = "ok" /\ dst = << >> /\ fails = 0
    /\ mfat = BlankFat /\ entry = Wiped /\ off = 0 /\ x = 0 /\ src = << >>

(* What a user may ask for. *)
Command ==
    \/ \E fl \in SUBSET {"m", "p"} : MkfsBegin(fl)
    \/ \E n \in Names, s \in HostFiles, fl \in SUBSET {"l"} :
         PutOpen(n, s, fl) \/ Refuse(NewJob("put", n, s, fl))
    \/ \E n \in Names : RmOpen(n) \/ Refuse(NewJob("rm", n, << >>, {}))
    \/ \E n \in Names, fl \in SUBSET {"l"} :
         GetOpen(n, fl) \/ Refuse(NewJob("get", n, << >>, fl))
    \/ List
    \/ \E s \in HostFiles : PutBoot(s)
    \/ GetBoot

(* What the running invocation does next. *)
Step ==
    \/ MkfsWrite \/ MkfsSaveFat
    \/ PutFull \/ PutTail \/ PutSaveEntry \/ PutSaveFat
    \/ RmDelchain \/ RmSaveFat \/ RmSaveEntry
    \/ GetNext \/ GetLast \/ GetNegative \/ GetUndefined
    \/ WalkChain \/ WalkEntry \/ ListDone
    \/ BootBegin \/ BootWrite \/ BootSaveFat

Next == Command \/ Step \/ Fail

Spec == Init /\ [][Next]_vars

(* A process that can run is run. *)
FairSpec == Spec /\ WF_vars(Step)

-----------------------------------------------------------------------------
(* Properties of the FAT and the directory *)

TypeOK ==
    /\ fat \in [Gran -> FatByte]
    /\ dir \in [Slot -> Entry]
    /\ gran \in [Gran -> [1..GRANZ -> Byte]]
    /\ pc \in {"idle", "mkfs", "put", "put_entry", "put_fat", "rm", "rm_entry",
               "get", "walk", "boot"}
    /\ job \in Job
    /\ status \in {"running", "ok", "err"}
    /\ mfat \in [Gran -> FatByte]
    /\ entry \in Entry
    /\ off \in 0..NDIR
    /\ x \in 0..255
    /\ pc \in {"put", "rm", "get", "walk"} => x \in FatByte
    /\ src \in Seq(Byte)
    /\ dst \in Seq(Byte)
    /\ fails \in 0..MaxFail

LiveSlots(d) == {i \in Slot : Live(d[i])}

(* Every file starts at an allocated granule. *)
HeadsAllocated(f, d) == \A i \in LiveSlots(d) : d[i].first \in Gran /\ f[d[i].first] # FREE

(* Every link of the FAT leads to an allocated granule. *)
LinksAllocated(f) == \A g \in Gran : f[g] \in Gran => f[f[g]] # FREE

(* No granule is reached twice, by two files or two links or one of each. *)
ReachedOnce(f, d) ==
    /\ \A i, j \in LiveSlots(d) : d[i].first = d[j].first => i = j
    /\ \A g, h \in Gran : f[g] \in Gran /\ f[g] = f[h] => g = h
    /\ \A i \in LiveSlots(d), g \in Gran : f[g] # d[i].first

(* Granule g is reserved: it is the MBR's or of the boot track, and has the *)
(* byte that mkfs and putboot give those.                                  *)
SetAside(f, g) == g \in {0} \cup BootTrack /\ f[g] = LastByte(0)

(* A chain in f gets into T: it begins in T, or leads there from elsewhere, *)
(* or a granule of T is a reserved one.                                    *)
Entered(f, heads, T) ==
    \E g \in T : g \in heads \/ SetAside(f, g) \/ \E h \in Gran \ T : f[h] = g

(* Every allocated granule can be reached from the heads, but for reserved  *)
(* ones: those that could not would be a set that nothing gets into.       *)
NothingLeaked(f, heads) ==
    \A T \in SUBSET {g \in Gran : f[g] # FREE} : T # {} => Entered(f, heads, T)

Heads(d, S) == {d[i].first : i \in S}

(* No file hides behind the end mark, and no two have the same name. *)
DirSound(d) ==
    /\ LiveSlots(d) \subseteq Visible(d)
    /\ \A i, j \in LiveSlots(d) : d[i].name = d[j].name => i = j

(* Between two commands none of which died half way, the files are         *)
(* disjoint chains of allocated granules: put, rm, putboot and mkfs keep   *)
(* FAT and directory in step.  That no other granule is allocated, but for *)
(* reserved ones, is NoLeak.                                               *)
FatSound ==
    (pc = "idle" /\ fails = 0) =>
        /\ HeadsAllocated(fat, dir)
        /\ LinksAllocated(fat)
        /\ ReachedOnce(fat, dir)
        /\ DirSound(dir)

(* No space is ever lost: whatever runs died half way, and on a full disk   *)
(* too, at every instant each allocated granule can be reached from a file *)
(* that find sees, or is a reserved one (put writes the entry before the   *)
(* FAT, rm the FAT before the entry).  A file that crashes left broken can *)
(* so always be removed, and its granules are free again.                  *)
NoLeak == pc # "mkfs" => NothingLeaked(fat, Heads(dir, LiveSlots(dir) \cap Visible(dir)))

(* A granule that mkfs -m, mkfs -p or putboot reserved stays reserved, and *)
(* keeps its contents, until the next mkfs or putboot.                     *)
IsReserved(g) ==
    /\ fat[g] = LastByte(0)
    /\ \A i \in LiveSlots(dir) : dir[i].first # g
    /\ \A h \in Gran : fat[h] # g

ReservedKept ==
    [][job'.op \notin {"mkfs", "putboot"} =>
        \A g \in Gran : IsReserved(g) => fat'[g] = LastByte(0) /\ gran'[g] = gran[g]]_vars

(* Every command ends, also on an image that earlier crashes left with     *)
(* files that share granules: the FAT never holds a cycle for delchain,    *)
(* countchain, get or putboot to run around in.                            *)
Terminates == (pc # "idle") ~> (pc = "idle")

=============================================================================
