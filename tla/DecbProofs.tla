----------------------------- MODULE DecbProofs -----------------------------
(***************************************************************************)
(* Proofs, for disks of every size and any set of files, that Decb is type *)
(* correct, never leaks a granule and keeps the FAT sound.                 *)
(***************************************************************************)
EXTENDS DecbInv, FiniteSetTheorems, TLAPS

-----------------------------------------------------------------------------
(* Arithmetic of sectors and granules *)

LEMMA GranzPositive == GRANZ \in Nat /\ GRANZ > 0 /\ GRANZ >= SECZ
  BY SizesAssumption, SMTT(20) DEF GRANZ

(* The sectors a short read takes fit in a granule. *)
LEMMA TailSectors ==
    ASSUME NEW n \in Nat, n < GRANZ
    PROVE  (n + SECZ - 1) \div SECZ \in 0..SPG
  BY SizesAssumption, SMTT(30) DEF GRANZ

LEMMA ByteValues ==
    /\ \A n \in 0..SPG : LastByte(n) \in FatByte /\ LastByte(n) \notin Gran /\ LastByte(n) # FREE
    /\ LastByte(0) \in FatByte /\ LastByte(0) \notin Gran /\ LastByte(0) # FREE
    /\ FREE \in FatByte /\ FREE \notin Gran
    /\ \A b \in FatByte : IsLast(b) <=> b \notin Gran
    /\ Gran \subseteq FatByte
    /\ FatByte \subseteq 0..255
    /\ 0 \in Gran /\ BootTrack \subseteq Gran
  BY SizesAssumption DEF LastByte, FatByte, FREE, Gran, IsLast, BootTrack

-----------------------------------------------------------------------------
(* Type correctness *)

LEMMA ChunkType ==
    ASSUME NEW s \in Seq(Byte)
    PROVE  Chunk(s) \in Seq(Byte) /\ AfterChunk(s) \in Seq(Byte)
  BY GranzPositive DEF Chunk, AfterChunk

LEMMA TranslateType ==
    ASSUME NEW s \in Seq(Byte)
    PROVE  NlToCr(s) \in Seq(Byte) /\ CrToNl(s) \in Seq(Byte)
  <1>1. DOMAIN s = 1..Len(s) /\ Len(s) \in Nat /\ \A i \in 1..Len(s) : s[i] \in Byte
    OBVIOUS
  <1>2. NlToCr(s) \in [1..Len(s) -> Byte] /\ CrToNl(s) \in [1..Len(s) -> Byte]
    BY <1>1, DataAssumption DEF NlToCr, CrToNl
  <1> QED BY <1>1, <1>2

LEMMA GranuleIsSeq ==
    ASSUME NEW d \in [1..GRANZ -> Byte]
    PROVE  d \in Seq(Byte) /\ Len(d) = GRANZ
  BY GranzPositive

LEMMA WriteGranType ==
    ASSUME NEW s \in Seq(Byte), gran \in [Gran -> [1..GRANZ -> Byte]]
    PROVE  WriteGran(s) \in [Gran -> [1..GRANZ -> Byte]]
  <1> SUFFICES ASSUME NEW g \in Gran PROVE Overlay(gran[g], s) \in [1..GRANZ -> Byte]
    BY DEF WriteGran
  <1>1. \A i \in 1..GRANZ : i <= Len(s) => s[i] \in Byte
    BY GranzPositive
  <1> QED BY <1>1 DEF Overlay

LEMMA StoreType ==
    ASSUME NEW f \in [Gran -> FatByte], NEW g, NEW b \in FatByte
    PROVE  Store(f, g, b) \in [Gran -> FatByte]
  BY DEF Store

LEMMA FindGranType ==
    ASSUME NEW f \in [Gran -> FatByte], NEW g \in FindGran(f)
    PROVE  g \in FatByte /\ g \in 0..255
  BY ByteValues DEF FindGran, FreeGrans, FREE

LEMMA BlankTypes ==
    /\ BlankFat \in [Gran -> FatByte]
    /\ BlankGran \in [1..GRANZ -> Byte]
    /\ Wiped \in Entry
    /\ << >> \in Seq(Byte)
    /\ 0 \in 0..NDIR /\ 0 \in 0..255
  BY ByteValues, DataAssumption, SizesAssumption
     DEF BlankFat, BlankGran, Wiped, Entry, FREE

LEMMA ExitType ==
    ASSUME NEW st \in {"ok", "err"}, Exit(st)
    PROVE  /\ pc' = "idle" /\ status' \in {"running", "ok", "err"}
           /\ mfat' \in [Gran -> FatByte] /\ entry' \in Entry
           /\ off' \in 0..NDIR /\ x' \in 0..255 /\ src' \in Seq(Byte)
  BY BlankTypes DEF Exit

LEMMA JobType ==
    ASSUME NEW o \in Op, NEW n \in Names \cup {EndMark},
           NEW s \in HostFiles \cup {<< >>}, NEW fl \in SUBSET Flag
    PROVE  NewJob(o, n, s, fl) \in Job
  BY DEF NewJob, Job

LEMMA OpenFileType ==
    ASSUME TypeOK, NEW n \in Names, OpenFile(n)
    PROVE  /\ off' \in 0..NDIR /\ entry' \in Entry /\ x' \in 0..255
           /\ mfat' \in [Gran -> FatByte] /\ x' \in FatByte
  <1>1. PICK i \in Find(dir, n) : off' = i /\ entry' = dir[i] /\ x' = dir[i].first /\ mfat' = fat
    BY DEF OpenFile
  <1>2. i \in Slot
    BY DEF Find, Visible
  <1>3. i \in 0..NDIR
    BY <1>2, SizesAssumption DEF Slot
  <1> QED BY <1>1, <1>2, <1>3, ByteValues DEF TypeOK, Entry

LEMMA InitType == Init => TypeOK
  <1> SUFFICES ASSUME Init PROVE TypeOK
    OBVIOUS
  <1>1. PICK fl \in SUBSET {"m", "p"} :
          /\ fat = [g \in Gran |-> IF g \in Reserved(fl) THEN LastByte(0) ELSE FREE]
          /\ job = NewJob("mkfs", EndMark, << >>, fl)
    BY DEF Init
  <1>2. job \in Job
    BY <1>1, JobType DEF Op, Flag
  <1>3. fat \in [Gran -> FatByte]
    BY <1>1, ByteValues, SizesAssumption
  <1> QED BY <1>2, <1>3, BlankTypes, SizesAssumption DEF Init, TypeOK

(* The commands a user may give, and what each of them starts. *)
LEMMA CommandType == TypeOK /\ Command => TypeOK'
  <1> SUFFICES ASSUME TypeOK, Command PROVE TypeOK'
    OBVIOUS
  <1> USE DEF image, locals
  <1>1. ASSUME NEW fl \in SUBSET {"m", "p"}, MkfsBegin(fl) PROVE TypeOK'
    <2>1. NewJob("mkfs", EndMark, << >>, fl) \in Job
      BY JobType DEF Op, Flag
    <2> QED BY <1>1, <2>1 DEF MkfsBegin, Begin, TypeOK
  <1>2. ASSUME NEW n \in Names, NEW s \in HostFiles, NEW fl \in SUBSET {"l"},
               PutOpen(n, s, fl)
        PROVE  TypeOK'
    <2>1. NewJob("put", n, s, fl) \in Job
      BY JobType DEF Op, Flag
    <2>2. PICK i \in FreeSlot(dir), g \in FindGran(fat) :
            /\ off' = i /\ entry' = WithFirst(dir[i], g)
            /\ mfat' = Store(fat, g, LastByte(0)) /\ x' = g
      BY <1>2 DEF PutOpen
    <2>3. i \in Slot /\ i \in 0..NDIR
      BY SizesAssumption DEF FreeSlot, Slot
    <2>4. g \in FatByte /\ g \in 0..255
      BY FindGranType DEF TypeOK
    <2>5. mfat' \in [Gran -> FatByte]
      BY <2>2, ByteValues DEF TypeOK, Store
    <2>6. entry' \in Entry
      BY <2>2, <2>3, <2>4 DEF TypeOK, Entry, WithFirst
    <2>7. src' \in Seq(Byte)
      BY <1>2, DataAssumption DEF PutOpen
    <2> QED BY <1>2, <2>1, <2>2, <2>3, <2>4, <2>5, <2>6, <2>7 DEF PutOpen, Begin, TypeOK
  <1>3. ASSUME NEW j \in Job, Refuse(j) PROVE TypeOK'
    BY <1>3 DEF Refuse, TypeOK
  <1>4. ASSUME NEW n \in Names, RmOpen(n) PROVE TypeOK'
    <2>1. NewJob("rm", n, << >>, {}) \in Job
      BY JobType DEF Op, Flag
    <2> QED BY <1>4, <2>1, OpenFileType DEF RmOpen, Begin, TypeOK
  <1>5. ASSUME NEW n \in Names, NEW fl \in SUBSET {"l"}, GetOpen(n, fl) PROVE TypeOK'
    <2>1. NewJob("get", n, << >>, fl) \in Job
      BY JobType DEF Op, Flag
    <2> QED BY <1>5, <2>1, OpenFileType DEF GetOpen, Begin, TypeOK
  <1>6. ASSUME NEW j \in Job, WalkBegin(j) PROVE TypeOK'
    BY <1>6, BlankTypes, ByteValues DEF WalkBegin, Begin, TypeOK, FREE
  <1>7. CASE GetBoot
    <2>1. NewJob("getboot", EndMark, << >>, {}) \in Job
      BY JobType DEF Op, Flag
    <2>2. FATZ - 2 \in Gran /\ FATZ - 1 \in Gran
      BY SizesAssumption DEF Gran
    <2>3. gran[FATZ - 2] \in Seq(Byte) /\ gran[FATZ - 1] \in Seq(Byte)
      BY <2>2, GranuleIsSeq DEF TypeOK
    <2>4. dst' \in Seq(Byte)
      BY <1>7, <2>3 DEF GetBoot
    <2> QED BY <1>7, <2>1, <2>4 DEF GetBoot, TypeOK
  <1>8. \A n \in Names, s \in HostFiles, fl \in SUBSET {"l"} : NewJob("put", n, s, fl) \in Job
    BY JobType DEF Op, Flag
  <1>9. \A n \in Names, fl \in SUBSET {"l"} :
          NewJob("rm", n, << >>, {}) \in Job /\ NewJob("get", n, << >>, fl) \in Job
    BY JobType DEF Op, Flag
  <1>10. NewJob("ls", EndMark, << >>, {}) \in Job
    BY JobType DEF Op, Flag
  <1>11. \A s \in HostFiles : NewJob("putboot", EndMark, s, {}) \in Job
    BY JobType DEF Op, Flag
  <1> QED BY <1>1, <1>2, <1>3, <1>4, <1>5, <1>6, <1>7, <1>8, <1>9, <1>10, <1>11
          DEF Command, List, PutBoot

(* The steps of a running command. *)
LEMMA StepType == TypeOK /\ Step => TypeOK'
  <1> SUFFICES ASSUME TypeOK, Step PROVE TypeOK'
    OBVIOUS
  <1> USE DEF image
  <1>1. CASE MkfsWrite
    <2>1. fat' \in [Gran -> FatByte]
      BY <1>1, BlankTypes DEF MkfsWrite, TypeOK
    <2>2. gran' \in [Gran -> [1..GRANZ -> Byte]]
      BY <1>1, BlankTypes DEF MkfsWrite, TypeOK
    <2>3. dir' \in [Slot -> Entry]
      BY <1>1, BlankTypes DEF MkfsWrite, TypeOK
    <2>4. x' \in 0..255
      BY <1>1, SizesAssumption DEF MkfsWrite, TypeOK
    <2> QED BY <1>1, <2>1, <2>2, <2>3, <2>4 DEF MkfsWrite, TypeOK
  <1>2. CASE MkfsSaveFat
    <2>1. fat' \in [Gran -> FatByte]
      BY <1>2, ByteValues DEF MkfsSaveFat, TypeOK
    <2> QED BY <1>2, <2>1, ExitType DEF MkfsSaveFat, TypeOK
  <1>3. CASE PutFull
    <2>1. PICK g \in FindGran(mfat) : mfat' = Store(Store(mfat, g, LastByte(0)), x, g) /\ x' = g
      BY <1>3 DEF PutFull
    <2>2. g \in FatByte /\ g \in 0..255
      BY FindGranType DEF TypeOK
    <2>3. mfat' \in [Gran -> FatByte]
      BY <2>1, <2>2, ByteValues DEF TypeOK, Store
    <2>4. gran' \in [Gran -> [1..GRANZ -> Byte]]
      BY <1>3, WriteGranType, TranslateType, ChunkType DEF PutFull, TypeOK
    <2>5. src' \in Seq(Byte)
      BY <1>3, ChunkType DEF PutFull, TypeOK
    <2> QED BY <1>3, <2>1, <2>2, <2>3, <2>4, <2>5 DEF PutFull, TypeOK
  <1>4. CASE PutTail
    <2>1. Len(src) \in Nat /\ Len(src) < GRANZ
      BY <1>4 DEF PutTail, TypeOK
    <2>2. LastByte((Len(src) + SECZ - 1) \div SECZ) \in FatByte
      BY <2>1, TailSectors, ByteValues
    <2>3. mfat' \in [Gran -> FatByte]
      BY <1>4, <2>2 DEF PutTail, TypeOK, Store
    <2>4. gran' \in [Gran -> [1..GRANZ -> Byte]]
      BY <1>4, WriteGranType, TranslateType DEF PutTail, TypeOK
    <2>5. job.name \in Names \cup {EndMark}
      BY DEF TypeOK, Job
    <2>6. Len(src) % SECZ \in 0..(SECZ - 1)
      BY <2>1, SizesAssumption
    <2>7. entry' \in Entry
      BY <1>4, <2>5, <2>6 DEF PutTail, TypeOK, Entry
    <2> QED BY <1>4, <2>3, <2>4, <2>7 DEF PutTail, TypeOK
  <1>5. CASE PutSaveEntry
    BY <1>5 DEF PutSaveEntry, SaveEntry, TypeOK
  <1>6. CASE PutSaveFat
    BY <1>6, ExitType DEF PutSaveFat, TypeOK
  <1>7. CASE RmDelchain
    <2>1. x \in Gran
      BY <1>7, ByteValues DEF RmDelchain, TypeOK
    <2>2. mfat' \in [Gran -> FatByte]
      BY <1>7, ByteValues DEF RmDelchain, TypeOK
    <2>3. x' \in FatByte /\ x' \in 0..255
      BY <1>7, <2>1, ByteValues DEF RmDelchain, TypeOK
    <2> QED BY <1>7, <2>2, <2>3 DEF RmDelchain, TypeOK
  <1>8. CASE RmSaveFat
    <2>1. entry' \in Entry
      BY <1>8 DEF RmSaveFat, TypeOK, Entry, WithName
    <2> QED BY <1>8, <2>1 DEF RmSaveFat, TypeOK
  <1>9. CASE RmSaveEntry
    BY <1>9, ExitType DEF RmSaveEntry, TypeOK
  <1>10. CASE GetNext
    <2>1. GetData \in Seq(Byte)
      BY <1>10, GranuleIsSeq, TranslateType DEF GetNext, GetData, TypeOK
    <2>2. dst' \in Seq(Byte)
      BY <1>10, <2>1 DEF GetNext, TypeOK
    <2>3. x' \in FatByte /\ x' \in 0..255
      BY <1>10, ByteValues DEF GetNext, TypeOK
    <2> QED BY <1>10, <2>2, <2>3 DEF GetNext, TypeOK
  <1>11. CASE GetLast
    <2>1. GetData \in Seq(Byte)
      BY <1>11, GranuleIsSeq, TranslateType DEF GetLast, GetData, TypeOK
    <2>2. Len(GetData) = GRANZ
      <3>1. Len(gran[x]) = GRANZ /\ gran[x] \in Seq(Byte)
        BY <1>11, GranuleIsSeq DEF GetLast, TypeOK
      <3>2. CrToNl(gran[x]) \in Seq(Byte) /\ DOMAIN CrToNl(gran[x]) = 1..GRANZ
        BY <3>1, TranslateType DEF CrToNl
      <3>3. Len(CrToNl(gran[x])) = GRANZ
        BY <3>2, GranzPositive
      <3> QED BY <3>1, <3>3 DEF GetData
    <2>3. SubSeq(GetData, 1, GetSize) \in Seq(Byte)
      BY <1>11, <2>1, <2>2, GranzPositive DEF GetLast
    <2>4. dst' \in Seq(Byte)
      BY <1>11, <2>3 DEF GetLast, TypeOK
    <2> QED BY <1>11, <2>4, ExitType DEF GetLast, TypeOK
  <1>12. CASE GetNegative
    BY <1>12, ExitType DEF GetNegative, TypeOK
  <1>13. CASE GetUndefined
    <2>1. dst' \in Seq(Byte)
      BY <1>13, DataAssumption DEF GetUndefined, TypeOK
    <2>2. PICK st \in {"ok", "err"} : Exit(st)
      BY <1>13 DEF GetUndefined
    <2> QED BY <1>13, <2>1, <2>2, ExitType DEF GetUndefined, TypeOK
  <1>14. CASE WalkChain
    <2>1. x \in Gran
      BY <1>14, ByteValues DEF WalkChain, TypeOK
    <2>2. x' \in FatByte /\ x' \in 0..255
      BY <1>14, <2>1, ByteValues DEF WalkChain, TypeOK
    <2> QED BY <1>14, <2>2 DEF WalkChain, TypeOK
  <1>15. CASE WalkEntry
    <2>1. off \in Slot
      BY <1>15 DEF WalkEntry, Visible
    <2>2. off' \in 0..NDIR
      BY <1>15, <2>1, SizesAssumption DEF WalkEntry, Slot
    <2>3. dir[off].first \in FatByte
      BY <2>1 DEF TypeOK, Entry
    <2>4. x' \in FatByte /\ x' \in 0..255
      BY <1>15, <2>3, ByteValues DEF WalkEntry
    <2> QED BY <1>15, <2>2, <2>4 DEF WalkEntry, TypeOK
  <1>16. CASE ListDone
    BY <1>16, ExitType DEF ListDone, TypeOK
  <1>17. CASE BootBegin
    <2>1. job.file \in Seq(Byte)
      BY DataAssumption, BlankTypes DEF TypeOK, Job
    <2>2. FATZ - 2 \in 0..255
      BY SizesAssumption
    <2> QED BY <1>17, <2>1, <2>2 DEF BootBegin, TypeOK
  <1>18. CASE BootWrite
    <2>1. gran' \in [Gran -> [1..GRANZ -> Byte]]
      BY <1>18, WriteGranType, ChunkType DEF BootWrite, TypeOK
    <2>2. src' \in Seq(Byte)
      BY <1>18, ChunkType DEF BootWrite, TypeOK
    <2>3. x' \in 0..255
      BY <1>18, SizesAssumption DEF BootWrite, TypeOK
    <2> QED BY <1>18, <2>1, <2>2, <2>3 DEF BootWrite, TypeOK
  <1>19. CASE BootSaveFat
    <2>1. fat' \in [Gran -> FatByte]
      BY <1>19, ByteValues DEF BootSaveFat, TypeOK
    <2> QED BY <1>19, <2>1, ExitType DEF BootSaveFat, TypeOK
  <1> QED BY <1>1, <1>2, <1>3, <1>4, <1>5, <1>6, <1>7, <1>8, <1>9, <1>10, <1>11, <1>12,
             <1>13, <1>14, <1>15, <1>16, <1>17, <1>18, <1>19 DEF Step

(* Every variable keeps its type: in particular the granule cursors of     *)
(* put, rm, get, ls and putboot never leave the FAT but for a byte with    *)
(* the two top bits set, on which every loop stops.                        *)
THEOREM TypeCorrect == Spec => []TypeOK
  <1>1. TypeOK /\ [Next]_vars => TypeOK'
    <2> SUFFICES ASSUME TypeOK, [Next]_vars PROVE TypeOK'
      OBVIOUS
    <2>1. CASE Fail
      BY <2>1, ExitType, SizesAssumption DEF Fail, TypeOK
    <2>2. CASE UNCHANGED vars
      BY <2>2 DEF vars, TypeOK
    <2> QED BY <2>1, <2>2, CommandType, StepType DEF Next
  <1> QED BY InitType, <1>1, PTL DEF Spec

-----------------------------------------------------------------------------
(* Chains: what each change of the FAT does to the disjointness of files *)

LEMMA AllocateHead ==
    ASSUME NEW f \in [Gran -> FatByte], NEW d, NEW S, Disjoint(f, d, S, NoOwn),
           NEW g \in FreeGrans(f)
    PROVE  Disjoint(Store(f, g, LastByte(0)), d, S, g)
  BY ByteValues DEF Disjoint, Store, FreeGrans, NoOwn

LEMMA AllocateNext ==
    ASSUME NEW f \in [Gran -> FatByte], NEW d, NEW S, NEW own \in Gran,
           Disjoint(f, d, S, own), NEW z \in Gran, f[z] = LastByte(0),
           NEW g \in FreeGrans(f)
    PROVE  Disjoint(Store(Store(f, g, LastByte(0)), z, g), d, S, own)
  <1> DEFINE f1 == Store(Store(f, g, LastByte(0)), z, g)
  <1>1. g \in Gran /\ f[g] = FREE /\ g # z
    BY ByteValues DEF FreeGrans
  <1>2. /\ f1 \in [Gran -> FatByte] /\ f1[g] = LastByte(0) /\ f1[z] = g
        /\ \A h \in Gran : h # g /\ h # z => f1[h] = f[h]
    BY <1>1, ByteValues DEF Store
  <1> HIDE DEF f1
  <1>3. \A h \in Gran : f1[h] = FREE => f[h] = FREE
    BY <1>1, <1>2, ByteValues
  <1>4. \A h \in Gran : f1[h] \in Gran => (h = z /\ f1[h] = g) \/ (h # z /\ f1[h] = f[h])
    BY <1>1, <1>2, ByteValues
  <1>5. \A h \in Gran : f[h] # g
    BY <1>1 DEF Disjoint
  <1> QED BY <1>1, <1>2, <1>3, <1>4, <1>5, ByteValues DEF Disjoint, f1

LEMMA EndChain ==
    ASSUME NEW f \in [Gran -> FatByte], NEW d, NEW S, NEW own \in Gran,
           Disjoint(f, d, S, own), NEW z \in Gran, f[z] = LastByte(0),
           NEW b \in FatByte, b \notin Gran, b # FREE
    PROVE  Disjoint(Store(f, z, b), d, S, own)
  BY ByteValues DEF Disjoint, Store

LEMMA AdoptChain ==
    ASSUME NEW f, NEW d \in [Slot -> Entry], NEW S \in SUBSET Slot, NEW e,
           NEW i \in Slot, i \notin S, e.first \in Gran, Disjoint(f, d, S, e.first)
    PROVE  Disjoint(f, [d EXCEPT ![i] = e], S \cup {i}, NoOwn)
  BY ByteValues DEF Disjoint, NoOwn, FREE

LEMMA TakeChain ==
    ASSUME NEW f, NEW d, NEW S, NEW i \in S, Disjoint(f, d, S, NoOwn)
    PROVE  Disjoint(f, d, S \ {i}, d[i].first)
  BY DEF Disjoint

LEMMA FreeHead ==
    ASSUME NEW f \in [Gran -> FatByte], NEW d, NEW S, NEW z \in Gran, Disjoint(f, d, S, z)
    PROVE  Disjoint([f EXCEPT ![z] = FREE], d, S, f[z])
  <1> DEFINE f1 == [f EXCEPT ![z] = FREE]
  <1>1. f1[z] = FREE /\ \A h \in Gran : h # z => f1[h] = f[h]
    OBVIOUS
  <1> HIDE DEF f1
  <1>2. \A h \in Gran : f[h] # z
    BY DEF Disjoint
  <1> QED BY <1>1, <1>2, ByteValues DEF Disjoint, f1

LEMMA DropOwn ==
    ASSUME NEW f, NEW d, NEW S, NEW z, z \notin Gran, Disjoint(f, d, S, z)
    PROVE  Disjoint(f, d, S, NoOwn)
  BY ByteValues DEF Disjoint, NoOwn, FREE

LEMMA OtherSlots ==
    ASSUME NEW f, NEW d \in [Slot -> Entry], NEW S \in SUBSET Slot, NEW i, NEW e,
           i \notin S, Disjoint(f, d, S, NoOwn)
    PROVE  Disjoint(f, [d EXCEPT ![i] = e], S, NoOwn)
  BY DEF Disjoint

LEMMA SoundGives ==
    ASSUME Sound(fat, dir)
    PROVE  HeadsAllocated(fat, dir) /\ LinksAllocated(fat) /\ ReachedOnce(fat, dir) /\ DirSound(dir)
  BY DEF Sound, Disjoint, HeadsAllocated, LinksAllocated, ReachedOnce

-----------------------------------------------------------------------------
(* The directory: the slot put fills and the slot rm empties *)

LEMMA FillSlot ==
    ASSUME NEW d \in [Slot -> Entry], NEW i \in Slot, NEW e \in Entry, Live(e), ~Live(d[i]),
           \A j \in 0..(i - 1) : Live(d[j]), DirSound(d),
           \A j \in LiveSlots(d) : d[j].name # e.name
    PROVE  /\ LiveSlots([d EXCEPT ![i] = e]) = LiveSlots(d) \cup {i}
           /\ DirSound([d EXCEPT ![i] = e])
  <1> DEFINE d1 == [d EXCEPT ![i] = e]
  <1>1. d1[i] = e /\ \A j \in Slot : j # i => d1[j] = d[j]
    OBVIOUS
  <1> HIDE DEF d1
  <1>2. LiveSlots(d1) = LiveSlots(d) \cup {i}
    BY <1>1 DEF LiveSlots
  <1>3. e.name # EndMark /\ \A j \in LiveSlots(d) : d[j].name # EndMark
    BY NamesAssumption DEF Live, LiveSlots
  <1>4. \A j \in Visible(d) : j \in Visible(d1)
    <2> SUFFICES ASSUME NEW j \in Visible(d), NEW k \in 0..j PROVE d1[k].name # EndMark
      BY DEF Visible
    <2>1. k \in Slot /\ d[k].name # EndMark
      BY SizesAssumption DEF Visible, Slot
    <2> QED BY <1>1, <1>3, <2>1
  <1>5. i \in Visible(d1)
    <2>1. \A j \in 0..(i - 1) : j \in Slot /\ d1[j] = d[j] /\ j \in LiveSlots(d)
      BY <1>1, SizesAssumption DEF Slot, LiveSlots
    <2> QED BY <1>1, <1>3, <2>1 DEF Visible, Slot
  <1>6. LiveSlots(d1) \subseteq Visible(d1)
    BY <1>2, <1>4, <1>5 DEF DirSound
  <1>7. \A j, k \in LiveSlots(d1) : d1[j].name = d1[k].name => j = k
    BY <1>1, <1>2 DEF DirSound, LiveSlots
  <1> QED BY <1>2, <1>6, <1>7 DEF DirSound, d1

LEMMA EmptySlot ==
    ASSUME NEW d \in [Slot -> Entry], NEW i \in LiveSlots(d), NEW e \in Entry,
           e.name = Deleted, DirSound(d)
    PROVE  /\ LiveSlots([d EXCEPT ![i] = e]) = LiveSlots(d) \ {i}
           /\ DirSound([d EXCEPT ![i] = e])
  <1> DEFINE d1 == [d EXCEPT ![i] = e]
  <1>1. d1[i] = e /\ \A j \in Slot : j # i => d1[j] = d[j]
    BY DEF LiveSlots
  <1> HIDE DEF d1
  <1>2. LiveSlots(d1) = LiveSlots(d) \ {i}
    BY <1>1, NamesAssumption DEF LiveSlots, Live
  <1>3. Deleted # EndMark
    BY DEF Deleted, EndMark
  <1>4. \A j \in Visible(d) : j \in Visible(d1)
    <2> SUFFICES ASSUME NEW j \in Visible(d), NEW k \in 0..j PROVE d1[k].name # EndMark
      BY DEF Visible
    <2>1. k \in Slot /\ d[k].name # EndMark
      BY SizesAssumption DEF Visible, Slot
    <2> QED BY <1>1, <1>3, <2>1
  <1>5. LiveSlots(d1) \subseteq Visible(d1)
    BY <1>2, <1>4 DEF DirSound
  <1>6. \A j, k \in LiveSlots(d1) : d1[j].name = d1[k].name => j = k
    BY <1>1, <1>2 DEF DirSound, LiveSlots
  <1> QED BY <1>2, <1>5, <1>6 DEF DirSound, d1

-----------------------------------------------------------------------------
(* Counting free granules *)

LEMMA FreeFinite ==
    ASSUME NEW f
    PROVE  IsFiniteSet(FreeGrans(f)) /\ GranFree(f) \in Nat
  <1>1. IsFiniteSet(Gran)
    BY SizesAssumption, FS_Interval DEF Gran
  <1>2. FreeGrans(f) \in SUBSET Gran
    BY DEF FreeGrans
  <1>3. IsFiniteSet(FreeGrans(f))
    BY <1>1, <1>2, FS_Subset
  <1> QED BY <1>3, FS_CardinalityType DEF GranFree

LEMMA RoomLeft ==
    ASSUME NEW f, GranFree(f) >= 1
    PROVE  FindGran(f) \subseteq FreeGrans(f)
  <1>1. FreeGrans(f) # {}
    BY FS_EmptySet DEF GranFree
  <1> QED BY <1>1 DEF FindGran

LEMMA OneLess ==
    ASSUME NEW f \in [Gran -> FatByte], NEW f1 \in [Gran -> FatByte],
           NEW g \in FreeGrans(f), FreeGrans(f1) = FreeGrans(f) \ {g}
    PROVE  GranFree(f1) = GranFree(f) - 1
  BY FreeFinite, FS_RemoveElement DEF GranFree

LEMMA GranulesLeft ==
    ASSUME NEW n \in Nat, n >= GRANZ
    PROVE  n \div GRANZ >= 1 /\ (n - GRANZ) \div GRANZ = (n \div GRANZ) - 1
  <1> DEFINE G == GRANZ
  <1>1. G \in Nat /\ G > 0 /\ n >= G
    BY GranzPositive
  <1> HIDE DEF G
  <1>2. PICK q \in Nat, r \in 0..(G - 1) : n = q * G + r
    <2>1. n \div G \in Nat /\ n % G \in 0..(G - 1) /\ n = (n \div G) * G + (n % G)
      BY <1>1, SMTT(30)
    <2> QED BY <2>1
  <1>3. n \div G = q
    BY <1>1, <1>2, SMTT(30)
  <1>4. q >= 1
    BY <1>1, <1>2, SMTT(30)
  <1>5. n - G = (q - 1) * G + r
    BY <1>1, <1>2, SMTT(30)
  <1>6. (n - G) \div G = q - 1
    BY <1>1, <1>2, <1>4, <1>5, SMTT(30)
  <1> QED BY <1>3, <1>4, <1>6 DEF G

LEMMA AfterChunkLen ==
    ASSUME NEW s \in Seq(Byte), Len(s) >= GRANZ
    PROVE  Len(AfterChunk(s)) = Len(s) - GRANZ
  <1>1. Chunk(s) = SubSeq(s, 1, GRANZ) /\ Len(Chunk(s)) = GRANZ
    BY GranzPositive DEF Chunk
  <1> QED BY <1>1, GranzPositive DEF AfterChunk

-----------------------------------------------------------------------------
(* The FAT is sound *)

LEMMA BlankSound ==
    ASSUME NEW f \in [Gran -> FatByte], \A g \in Gran : f[g] \in {FREE, LastByte(0)},
           NEW d \in [Slot -> Entry], \A i \in Slot : d[i] = Wiped
    PROVE  Sound(f, d)
  <1>1. LiveSlots(d) = {}
    BY NamesAssumption DEF LiveSlots, Live, Wiped
  <1>2. \A g \in Gran : f[g] \notin Gran
    BY ByteValues
  <1>3. Disjoint(f, d, {}, NoOwn)
    BY <1>2, ByteValues DEF Disjoint, NoOwn, FREE
  <1> QED BY <1>1, <1>3 DEF Sound, DirSound

LEMMA InitSound == Init => SoundInv
  <1> SUFFICES ASSUME Init PROVE SoundInv
    OBVIOUS
  <1>1. TypeOK
    BY InitType
  <1>2. \A g \in Gran : fat[g] \in {FREE, LastByte(0)}
    BY DEF Init
  <1>3. \A i \in Slot : dir[i] = Wiped
    BY DEF Init
  <1>4. Sound(fat, dir)
    BY <1>1, <1>2, <1>3, BlankSound DEF TypeOK
  <1> QED BY <1>4 DEF Init, SoundInv, MkfsInv, PutInv, RmInv, WalkInv, RestInv

LEMMA OpenSound ==
    ASSUME TypeOK, Sound(fat, dir), NEW n \in Names, OpenFile(n)
    PROVE  /\ off' \in LiveSlots(dir)
           /\ Disjoint(mfat', dir, LiveSlots(dir) \ {off'}, x')
  <1>1. PICK i \in Find(dir, n) : off' = i /\ x' = dir[i].first /\ mfat' = fat
    BY DEF OpenFile
  <1>2. i \in LiveSlots(dir)
    BY DEF Find, Visible, LiveSlots, Live
  <1> QED BY <1>1, <1>2, TakeChain DEF Sound

LEMMA CommandSound ==
    ASSUME RoomAssumed, BootHeeded, TypeOK, SoundInv, Command, fails = 0
    PROVE  SoundInv'
  <1>1. pc = "idle" /\ Sound(fat, dir) /\ UNCHANGED image
    BY DEF Command, MkfsBegin, PutOpen, RmOpen, GetOpen, Refuse, List, PutBoot, WalkBegin,
           GetBoot, Begin, SoundInv, RestInv, image
  <1>2. fat' = fat /\ dir' = dir /\ Sound(fat', dir')
    BY <1>1 DEF image
  <1> USE DEF SoundInv, MkfsInv, PutInv, RmInv, WalkInv, RestInv
  <1>3. ASSUME NEW fl \in SUBSET {"m", "p"}, MkfsBegin(fl) PROVE SoundInv'
    <2>1. pc' = "mkfs" /\ x' = 0
      BY <1>3 DEF MkfsBegin, Begin
    <2>2. 0 \in 0..(FATZ + 2) /\ ~(0 > HALF) /\ ~(0 > HALF + 1)
      BY SizesAssumption
    <2> QED BY <2>1, <2>2
  <1>4. ASSUME NEW n \in Names, NEW s \in HostFiles, NEW fl \in SUBSET {"l"},
               PutOpen(n, s, fl)
        PROVE  SoundInv'
    <2>1. PICK i \in FreeSlot(dir), g \in FindGran(fat) :
            /\ off' = i /\ entry' = WithFirst(dir[i], g)
            /\ mfat' = Store(fat, g, LastByte(0)) /\ x' = g
      BY <1>4 DEF PutOpen
    <2>2. Needs(s) <= GranFree(fat) /\ Len(s) \in Nat /\ Len(s) \div GRANZ \in Nat
      BY <1>4, DataAssumption, GranzPositive DEF PutOpen
    <2>3. GranFree(fat) \in Nat /\ GranFree(fat) >= 1
      BY <2>2, FreeFinite DEF Needs
    <2>4. g \in FreeGrans(fat) /\ g \in Gran
      BY <2>3, RoomLeft DEF FreeGrans
    <2>5. mfat' \in [Gran -> FatByte] /\ mfat'[g] = LastByte(0)
      BY <2>1, <2>4, ByteValues DEF Store, TypeOK
    <2>6. FreeGrans(mfat') = FreeGrans(fat) \ {g}
      BY <2>1, <2>4, ByteValues DEF Store, TypeOK, FreeGrans
    <2>7. GranFree(mfat') = GranFree(fat) - 1
      BY <2>4, <2>5, <2>6, OneLess DEF TypeOK
    <2>8. src' = s /\ Len(src') \div GRANZ <= GranFree(mfat')
      BY <1>4, <2>2, <2>3, <2>7 DEF PutOpen, Needs
    <2>9. Disjoint(mfat', dir', LiveSlots(dir'), entry.first')
      BY <1>2, <2>1, <2>4, AllocateHead DEF Sound, TypeOK, WithFirst
    <2>10. \A j \in LiveSlots(dir) : dir[j].name # n
      <3> SUFFICES ASSUME NEW j \in LiveSlots(dir), dir[j].name = n PROVE FALSE
        OBVIOUS
      <3>1. j \in Visible(dir) /\ \A k \in LiveSlots(dir) : dir[k].name = n => k = j
        BY <1>1 DEF Sound, DirSound
      <3>2. \A k \in 0..(j - 1) : k \in Slot /\ k # j
        BY SizesAssumption DEF LiveSlots, Slot
      <3>3. \A k \in 0..(j - 1) : dir[k].name # n
        BY <3>1, <3>2 DEF LiveSlots, Live
      <3>4. j \in Find(dir, n)
        BY <3>1, <3>3 DEF Find
      <3> QED BY <1>4, <3>4 DEF PutOpen
    <2>11. job'.name = n /\ pc' = "put" /\ entry.first' = g
      BY <1>4, <2>1 DEF PutOpen, Begin, NewJob, WithFirst
    <2>12. off' \in Slot /\ ~Live(dir'[off']) /\ \A j \in 0..(off' - 1) : Live(dir'[j])
      BY <1>2, <2>1 DEF FreeSlot
    <2>13. PutSlotInv'
      BY <1>2, <2>4, <2>9, <2>10, <2>11, <2>12 DEF PutSlotInv, Sound
    <2> QED BY <2>1, <2>4, <2>5, <2>8, <2>11, <2>13
  <1>5. ASSUME NEW j \in Job, Refuse(j) PROVE SoundInv'
    BY <1>2, <1>5 DEF Refuse
  <1>6. ASSUME NEW n \in Names, RmOpen(n) PROVE SoundInv'
    <2>1. OpenFile(n) /\ pc' = "rm"
      BY <1>6 DEF RmOpen, Begin
    <2> QED BY <1>1, <1>2, <2>1, OpenSound DEF Sound
  <1>7. ASSUME NEW n \in Names, NEW fl \in SUBSET {"l"}, GetOpen(n, fl) PROVE SoundInv'
    BY <1>2, <1>7 DEF GetOpen, Begin
  <1>8. CASE List
    BY <1>2, <1>8 DEF List, WalkBegin, Begin, NewJob
  <1>9. ASSUME NEW s \in HostFiles, PutBoot(s) PROVE SoundInv'
    <2>1. \A g \in BootTrack : ~OnBootTrack(g)
      BY <1>9 DEF PutBoot
    <2>2. \A g \in BootTrack : \A i \in LiveSlots(dir), h \in Gran :
            dir[i].first # g /\ fat[h] # g
      BY <1>1, <2>1 DEF OnBootTrack, Sound, DirSound, LiveSlots
    <2> QED BY <1>2, <1>9, <2>2 DEF PutBoot, WalkBegin, Begin, NewJob
  <1>10. CASE GetBoot
    BY <1>1, <1>2, <1>10 DEF GetBoot
  <1> HIDE DEF SoundInv, MkfsInv, PutInv, RmInv, WalkInv, RestInv
  <1>11. \A n \in Names, s \in HostFiles, fl \in SUBSET {"l"} : NewJob("put", n, s, fl) \in Job
    BY JobType DEF Op, Flag
  <1>12. \A n \in Names, fl \in SUBSET {"l"} :
          NewJob("rm", n, << >>, {}) \in Job /\ NewJob("get", n, << >>, fl) \in Job
    BY JobType DEF Op, Flag
  <1> QED BY <1>3, <1>4, <1>5, <1>6, <1>7, <1>8, <1>9, <1>10, <1>11, <1>12 DEF Command

LEMMA ExitSound ==
    ASSUME Exit("ok") \/ Exit("err"), Sound(fat', dir')
    PROVE  SoundInv'
  BY DEF Exit, SoundInv, MkfsInv, PutInv, RmInv, WalkInv, RestInv

LEMMA MkfsSound ==
    ASSUME TypeOK, TypeOK', SoundInv, fails = 0, MkfsWrite \/ MkfsSaveFat
    PROVE  SoundInv'
  <1>1. CASE MkfsWrite
    <2>1. pc = "mkfs" /\ pc' = "mkfs" /\ x' = x + 1 /\ x \in 0..(FATZ + 1) /\ MkfsInv
      BY <1>1, SizesAssumption DEF MkfsWrite, SoundInv, MkfsInv
    <2>2. x' > HALF => fat' = BlankFat
      BY <1>1, <2>1, SizesAssumption DEF MkfsWrite, MkfsInv
    <2>3. x' > HALF => \A i \in Slot : i < DIR1 => dir'[i] = Wiped
      BY <1>1, <2>1, SizesAssumption DEF MkfsWrite, MkfsInv
    <2>4. x' > HALF + 1 => \A i \in Slot : dir'[i] = Wiped
      BY <1>1, <2>1, SizesAssumption DEF MkfsWrite, MkfsInv, Slot
    <2>5. x' \in 0..(FATZ + 2)
      BY <2>1, SizesAssumption
    <2>6. MkfsInv'
      BY <2>2, <2>3, <2>4, <2>5 DEF MkfsInv
    <2> QED BY <2>1, <2>6 DEF SoundInv, PutInv, RmInv, WalkInv, RestInv
  <1>2. CASE MkfsSaveFat
    <2>1. x > HALF /\ x > HALF + 1 /\ MkfsInv /\ pc = "mkfs"
      BY <1>2, SizesAssumption DEF MkfsSaveFat, SoundInv
    <2>2. \A g \in Gran : fat'[g] \in {FREE, LastByte(0)}
      BY <1>2, <2>1 DEF MkfsSaveFat, MkfsInv, BlankFat
    <2>3. \A i \in Slot : dir'[i] = Wiped
      BY <1>2, <2>1 DEF MkfsSaveFat, MkfsInv
    <2>4. Sound(fat', dir')
      BY <2>2, <2>3, BlankSound DEF TypeOK
    <2> QED BY <1>2, <2>4, ExitSound DEF MkfsSaveFat
  <1> QED BY <1>1, <1>2

(* Where every file fits, put always finds a free granule for the next one. *)
LEMMA FindsRoom ==
    ASSUME RoomAssumed, TypeOK, SoundInv, fails = 0, PutFull
    PROVE  \E g \in FreeGrans(mfat) :
             /\ mfat' = Store(Store(mfat, g, LastByte(0)), x, g) /\ x' = g
             /\ g \in Gran /\ mfat[g] = FREE /\ g # x
  <1>1. /\ x \in Gran /\ mfat[x] = LastByte(0)
        /\ Len(src) \div GRANZ <= GranFree(mfat) /\ Len(src) >= GRANZ
    BY DEF PutFull, SoundInv, PutInv
  <1>2. Len(src) \in Nat /\ GranFree(mfat) \in Nat
    BY FreeFinite DEF TypeOK
  <1>3. Len(src) \div GRANZ >= 1 /\ Len(src) \div GRANZ \in Nat
    BY <1>1, <1>2, GranulesLeft, GranzPositive
  <1>4. PICK g \in FindGran(mfat) : mfat' = Store(Store(mfat, g, LastByte(0)), x, g) /\ x' = g
    BY DEF PutFull
  <1>5. GranFree(mfat) >= 1
    BY <1>1, <1>2, <1>3
  <1> QED BY <1>1, <1>4, <1>5, RoomLeft, ByteValues DEF FreeGrans

LEMMA PutSound ==
    ASSUME RoomAssumed, TypeOK, TypeOK', SoundInv, fails = 0,
           PutFull \/ PutTail \/ PutSaveEntry \/ PutSaveFat
    PROVE  SoundInv'
  <1>1. CASE PutFull
    <2>1. /\ pc = "put" /\ pc' = "put" /\ PutSlotInv
          /\ x \in Gran /\ mfat[x] = LastByte(0)
          /\ Len(src) \div GRANZ <= GranFree(mfat) /\ Len(src) >= GRANZ
      BY <1>1 DEF PutFull, SoundInv, PutInv
    <2>2. Len(src) \in Nat /\ GranFree(mfat) \in Nat
      BY FreeFinite DEF TypeOK
    <2>3. /\ Len(src) \div GRANZ >= 1 /\ Len(src) \div GRANZ \in Nat
          /\ (Len(src) - GRANZ) \div GRANZ = Len(src) \div GRANZ - 1
      BY <2>1, <2>2, GranulesLeft, GranzPositive
    <2>4. PICK g \in FreeGrans(mfat) : /\ mfat' = Store(Store(mfat, g, LastByte(0)), x, g) /\ x' = g
                                       /\ g \in Gran /\ mfat[g] = FREE /\ g # x
      BY <1>1, FindsRoom
    <2>5. g \in FreeGrans(mfat) /\ g \in Gran /\ mfat[g] = FREE /\ g # x
      BY <2>4
    <2>6. mfat'[g] = LastByte(0)
      BY <2>1, <2>4, <2>5 DEF Store, TypeOK
    <2>7. FreeGrans(mfat') = FreeGrans(mfat) \ {g}
      BY <2>1, <2>4, <2>5, ByteValues DEF Store, TypeOK, FreeGrans
    <2>8. GranFree(mfat') = GranFree(mfat) - 1
      BY <2>5, <2>7, OneLess DEF TypeOK
    <2>9. Len(src') = Len(src) - GRANZ
      BY <1>1, <2>1, AfterChunkLen DEF PutFull, TypeOK
    <2>10. Len(src') \div GRANZ <= GranFree(mfat')
      BY <2>1, <2>2, <2>3, <2>8, <2>9
    <2>11. Disjoint(mfat', dir, LiveSlots(dir), entry.first)
      BY <2>1, <2>4, <2>5, AllocateNext DEF PutSlotInv, TypeOK
    <2>12. UNCHANGED <<dir, entry, off, job>>
      BY <1>1 DEF PutFull
    <2>13. PutSlotInv'
      BY <2>1, <2>11, <2>12 DEF PutSlotInv
    <2> QED BY <2>1, <2>4, <2>5, <2>6, <2>10, <2>13
            DEF SoundInv, MkfsInv, PutInv, RmInv, WalkInv, RestInv
  <1>2. CASE PutTail
    <2>1. /\ pc = "put" /\ pc' = "put_entry" /\ PutSlotInv
          /\ x \in Gran /\ mfat[x] = LastByte(0) /\ Len(src) \in Nat /\ Len(src) < GRANZ
      BY <1>2 DEF PutTail, SoundInv, PutInv, TypeOK
    <2> DEFINE b == LastByte((Len(src) + SECZ - 1) \div SECZ)
    <2>2. b \in FatByte /\ b \notin Gran /\ b # FREE
      BY <2>1, TailSectors, ByteValues
    <2>3. mfat' = Store(mfat, x, b) /\ UNCHANGED <<dir, off, job>>
      BY <1>2 DEF PutTail
    <2>4. entry.first' = entry.first /\ entry.name' = job.name
      BY <1>2 DEF PutTail
    <2> HIDE DEF b
    <2>5. Disjoint(mfat', dir, LiveSlots(dir), entry.first)
      BY <2>1, <2>2, <2>3, EndChain DEF PutSlotInv, TypeOK
    <2>6. PutSlotInv'
      BY <2>1, <2>3, <2>4, <2>5 DEF PutSlotInv
    <2> QED BY <2>1, <2>3, <2>4, <2>6 DEF SoundInv, MkfsInv, PutInv, RmInv, WalkInv, RestInv
  <1>3. CASE PutSaveEntry
    <2>1. /\ pc = "put_entry" /\ pc' = "put_fat" /\ PutSlotInv /\ entry.name = job.name
          /\ dir' = [dir EXCEPT ![off] = entry] /\ mfat' = mfat
      BY <1>3 DEF PutSaveEntry, SaveEntry, SoundInv, PutInv
    <2>2. Live(entry) /\ off \notin LiveSlots(dir)
      BY <2>1 DEF PutSlotInv, Live, LiveSlots
    <2>3. LiveSlots(dir') = LiveSlots(dir) \cup {off} /\ DirSound(dir')
      BY <2>1, <2>2, FillSlot DEF PutSlotInv, TypeOK
    <2>4. LiveSlots(dir) \in SUBSET Slot
      BY DEF LiveSlots
    <2>5. Disjoint(mfat, [dir EXCEPT ![off] = entry], LiveSlots(dir) \cup {off}, NoOwn)
      BY <2>1, <2>2, <2>4, AdoptChain DEF PutSlotInv, TypeOK
    <2>6. Sound(mfat', dir')
      BY <2>1, <2>3, <2>5 DEF Sound
    <2> QED BY <2>1, <2>6 DEF SoundInv, MkfsInv, PutInv, RmInv, WalkInv, RestInv
  <1>4. CASE PutSaveFat
    <2>1. Sound(mfat, dir) /\ fat' = mfat /\ dir' = dir
      BY <1>4 DEF PutSaveFat, SoundInv, PutInv
    <2> QED BY <1>4, <2>1, ExitSound DEF PutSaveFat
  <1> QED BY <1>1, <1>2, <1>3, <1>4

LEMMA RmSound ==
    ASSUME TypeOK, TypeOK', SoundInv, fails = 0, RmDelchain \/ RmSaveFat \/ RmSaveEntry
    PROVE  SoundInv'
  <1>1. CASE RmDelchain
    <2>1. /\ pc = "rm" /\ pc' = "rm" /\ off \in LiveSlots(dir) /\ DirSound(dir)
          /\ Disjoint(mfat, dir, LiveSlots(dir) \ {off}, x)
          /\ mfat' = [mfat EXCEPT ![x] = FREE] /\ x' = mfat[x] /\ UNCHANGED <<dir, off>>
      BY <1>1 DEF RmDelchain, SoundInv, RmInv, image
    <2>2. x \in Gran
      BY <1>1, <2>1, ByteValues DEF RmDelchain, TypeOK
    <2>3. Disjoint(mfat', dir, LiveSlots(dir) \ {off}, x')
      BY <2>1, <2>2, FreeHead DEF TypeOK
    <2> QED BY <2>1, <2>3 DEF SoundInv, MkfsInv, PutInv, RmInv, WalkInv, RestInv
  <1>2. CASE RmSaveFat
    <2>1. /\ pc = "rm" /\ pc' = "rm_entry" /\ off \in LiveSlots(dir) /\ DirSound(dir)
          /\ Disjoint(mfat, dir, LiveSlots(dir) \ {off}, x)
          /\ fat' = mfat /\ entry.name' = Deleted /\ UNCHANGED <<dir, off>>
      BY <1>2 DEF RmSaveFat, SoundInv, RmInv, WithName
    <2>2. x \notin Gran
      BY <1>2, <2>1, ByteValues DEF RmSaveFat, TypeOK
    <2>3. Disjoint(fat', dir, LiveSlots(dir) \ {off}, NoOwn)
      BY <2>1, <2>2, DropOwn
    <2> QED BY <2>1, <2>3 DEF SoundInv, MkfsInv, PutInv, RmInv, WalkInv, RestInv
  <1>3. CASE RmSaveEntry
    <2>1. /\ off \in LiveSlots(dir) /\ DirSound(dir) /\ entry.name = Deleted
          /\ Disjoint(fat, dir, LiveSlots(dir) \ {off}, NoOwn)
          /\ dir' = [dir EXCEPT ![off] = entry] /\ fat' = fat
      BY <1>3 DEF RmSaveEntry, SoundInv, RmInv
    <2>2. LiveSlots(dir') = LiveSlots(dir) \ {off} /\ DirSound(dir')
      BY <2>1, EmptySlot DEF TypeOK
    <2>3. LiveSlots(dir) \ {off} \in SUBSET Slot
      BY DEF LiveSlots
    <2>4. Disjoint(fat, [dir EXCEPT ![off] = entry], LiveSlots(dir) \ {off}, NoOwn)
      BY <2>1, <2>3, OtherSlots DEF TypeOK
    <2>5. Sound(fat', dir')
      BY <2>1, <2>2, <2>4 DEF Sound
    <2> QED BY <1>3, <2>5, ExitSound DEF RmSaveEntry
  <1> QED BY <1>1, <1>2, <1>3

LEMMA ReadSound ==
    ASSUME TypeOK, SoundInv, fails = 0,
           GetNext \/ GetLast \/ GetNegative \/ GetUndefined \/ WalkChain \/ WalkEntry \/ ListDone
    PROVE  SoundInv'
  <1>1. Sound(fat, dir) /\ fat' = fat /\ dir' = dir
    BY DEF GetNext, GetLast, GetNegative, GetUndefined, WalkChain, WalkEntry, ListDone,
           SoundInv, RestInv, image
  <1>2. CASE GetLast \/ GetNegative \/ GetUndefined \/ ListDone
    BY <1>1, <1>2, ExitSound DEF GetLast, GetNegative, GetUndefined, ListDone
  <1>3. CASE GetNext
    BY <1>1, <1>3 DEF GetNext, SoundInv, MkfsInv, PutInv, RmInv, WalkInv, RestInv
  <1>4. CASE WalkChain \/ WalkEntry
    BY <1>1, <1>4 DEF WalkChain, WalkEntry, SoundInv, MkfsInv, PutInv, RmInv, WalkInv, RestInv
  <1> QED BY <1>2, <1>3, <1>4

LEMMA BootSound ==
    ASSUME TypeOK, TypeOK', SoundInv, fails = 0, BootBegin \/ BootWrite \/ BootSaveFat
    PROVE  SoundInv'
  <1>1. /\ pc \in {"walk", "boot"} /\ Sound(fat, dir) /\ mfat = fat /\ dir' = dir
        /\ job.op = "putboot"
        /\ \A g \in BootTrack : \A i \in LiveSlots(dir), h \in Gran :
              dir[i].first # g /\ fat[h] # g
    BY DEF BootBegin, BootWrite, BootSaveFat, SoundInv, RestInv, WalkInv, image
  <1>2. CASE BootBegin \/ BootWrite
    <2>1. pc' = "boot" /\ fat' = fat /\ mfat' = mfat /\ job' = job
      BY <1>2 DEF BootBegin, BootWrite, image
    <2>2. x' \in (FATZ - 2)..FATZ
      BY <1>2, SizesAssumption DEF BootBegin, BootWrite, SoundInv, WalkInv
    <2> QED BY <1>1, <2>1, <2>2 DEF SoundInv, MkfsInv, PutInv, RmInv, WalkInv, RestInv
  <1>3. CASE BootSaveFat
    <2>1. fat' = [g \in Gran |-> IF g \in BootTrack THEN LastByte(0) ELSE fat[g]]
      BY <1>1, <1>3 DEF BootSaveFat
    <2>2. \A g \in Gran : /\ fat'[g] = FREE => fat[g] = FREE
                          /\ fat'[g] \in Gran => fat'[g] = fat[g]
      BY <2>1, ByteValues
    <2>3. \A g \in Gran, i \in LiveSlots(dir) : fat'[g] # dir[i].first
      BY <1>1, <2>2 DEF Sound, Disjoint
    <2> DEFINE f1 == fat'
    <2>4. Disjoint(f1, dir, LiveSlots(dir), NoOwn)
      <3>1. \A g \in Gran : f1[g] \in Gran => f1[f1[g]] # FREE /\ f1[g] # NoOwn
        BY <1>1, <2>2 DEF Sound, Disjoint
      <3>2. \A g, h \in Gran : f1[g] \in Gran /\ f1[g] = f1[h] => g = h
        BY <1>1, <2>2 DEF Sound, Disjoint
      <3>3. \A i \in LiveSlots(dir) :
              dir[i].first \in Gran /\ f1[dir[i].first] # FREE /\ dir[i].first # NoOwn
        BY <1>1, <2>2 DEF Sound, Disjoint
      <3>4. \A i, j \in LiveSlots(dir) : dir[i].first = dir[j].first => i = j
        BY <1>1 DEF Sound, Disjoint
      <3>5. NoOwn \notin Gran
        BY ByteValues DEF NoOwn, FREE
      <3> HIDE DEF f1
      <3> QED BY <2>3, <3>1, <3>2, <3>3, <3>4, <3>5 DEF Disjoint, f1
    <2>5. Sound(fat', dir')
      BY <1>1, <2>4 DEF Sound
    <2> QED BY <1>3, <2>5, ExitSound DEF BootSaveFat
  <1> QED BY <1>2, <1>3

LEMMA SoundAlways ==
    ASSUME RoomAssumed, BootHeeded
    PROVE  Spec => []SoundInv
  <1>1. TypeOK /\ TypeOK' /\ SoundInv /\ [Next]_vars => SoundInv'
    <2> SUFFICES ASSUME TypeOK, TypeOK', SoundInv, [Next]_vars, fails' = 0 PROVE SoundInv'
      BY DEF SoundInv
    <2>1. CASE UNCHANGED vars
      BY <2>1 DEF vars, SoundInv, MkfsInv, PutInv, PutSlotInv, RmInv, WalkInv, RestInv
    <2>2. CASE Fail
      BY <2>2 DEF Fail, TypeOK
    <2>3. CASE Command
      <3>1. fails = 0
        BY <2>3 DEF Command, MkfsBegin, PutOpen, RmOpen, GetOpen, Refuse, List, PutBoot,
                    WalkBegin, GetBoot
      <3> QED BY <2>3, <3>1, CommandSound
    <2>4. CASE Step
      <3>1. fails = 0
        BY <2>4 DEF Step, MkfsWrite, MkfsSaveFat, PutFull, PutTail, PutSaveEntry, PutSaveFat,
                    RmDelchain, RmSaveFat, RmSaveEntry, GetNext, GetLast, GetNegative,
                    GetUndefined, WalkChain, WalkEntry, ListDone, BootBegin, BootWrite,
                    BootSaveFat
      <3> QED BY <2>4, <3>1, MkfsSound, PutSound, RmSound, ReadSound, BootSound DEF Step
    <2> QED BY <2>1, <2>2, <2>3, <2>4 DEF Next
  <1> QED BY InitSound, TypeCorrect, <1>1, PTL DEF Spec

(* On a disk where every file put fits and putboot is not called on a disk *)
(* with a file on the boot track, the files are disjoint chains of         *)
(* allocated granules after any sequence of commands, on disks of any      *)
(* size: put, rm, mkfs and putboot never let two files share a granule and *)
(* never leave a file with a free one.                                     *)
THEOREM FatAlwaysSound ==
    ASSUME RoomAssumed, BootHeeded
    PROVE  Spec => []FatSound
  <1>1. SoundInv => FatSound
    BY SoundGives DEF SoundInv, RestInv, FatSound
  <1> QED BY SoundAlways, <1>1, PTL

-----------------------------------------------------------------------------
(* No granule is leaked *)

(* More heads lose nothing, and a head outside the table is of no use. *)
LEMMA LeakMore ==
    ASSUME NEW f, NEW H, NEW H1, NothingLeaked(f, H), H \cap Gran \subseteq H1
    PROVE  NothingLeaked(f, H1)
  <1> SUFFICES ASSUME NEW T \in SUBSET {g \in Gran : f[g] # FREE}, T # {}
               PROVE  Entered(f, H1, T)
    BY DEF NothingLeaked
  <1>1. Entered(f, H, T)
    BY DEF NothingLeaked
  <1> QED BY <1>1 DEF Entered

(* A byte that leads nowhere is replaced, in a granule where a chain begins *)
(* or that another leads to.                                               *)
LEMMA LeakTouch ==
    ASSUME NEW f \in [Gran -> FatByte], NEW H, NothingLeaked(f, H),
           NEW c \in Gran, f[c] \notin Gran, NEW v,
           c \in H \/ \E h \in Gran : h # c /\ f[h] = c
    PROVE  NothingLeaked([f EXCEPT ![c] = v], H)
  <1> DEFINE f1 == [f EXCEPT ![c] = v]
  <1>1. f1[c] = v /\ \A h \in Gran : h # c => f1[h] = f[h]
    OBVIOUS
  <1> HIDE DEF f1
  <1> SUFFICES ASSUME NEW T \in SUBSET {g \in Gran : f1[g] # FREE}, T # {}
               PROVE  Entered(f1, H, T)
    BY DEF NothingLeaked, f1
  <1>2. CASE T = {c}
    BY <1>1, <1>2 DEF Entered
  <1>3. CASE T # {c}
    <2> DEFINE U == T \ {c}
    <2>1. U # {} /\ U \in SUBSET {g \in Gran : f[g] # FREE}
      BY <1>1, <1>3
    <2>2. Entered(f, H, U)
      BY <2>1 DEF NothingLeaked
    <2>3. PICK g \in U : g \in H \/ SetAside(f, g) \/ \E h \in Gran \ U : f[h] = g
      BY <2>2 DEF Entered
    <2>4. g \in T /\ g \in Gran /\ f1[g] = f[g]
      BY <1>1, <2>3
    <2>5. CASE g \in H \/ SetAside(f, g)
      BY <2>4, <2>5 DEF Entered, SetAside
    <2>6. CASE \E h \in Gran \ U : f[h] = g
      <3>1. PICK h \in Gran \ U : f[h] = g
        BY <2>6
      <3>2. h # c
        BY <2>4, <3>1
      <3> QED BY <1>1, <2>4, <3>1, <3>2 DEF Entered
    <2> QED BY <2>3, <2>5, <2>6
  <1> QED BY <1>2, <1>3

LEMMA AccountMore ==
    ASSUME NEW f, NEW d, NEW d1, NEW S, NEW S1, NEW own,
           Accounted(f, d, S, own), S \subseteq S1, \A i \in S : d1[i].first = d[i].first
    PROVE  Accounted(f, d1, S1, own)
  <1>1. Heads(d, S) \cup {own} \subseteq Heads(d1, S1) \cup {own}
    BY DEF Heads
  <1> QED BY <1>1, LeakMore DEF Accounted

LEMMA AccountHead ==
    ASSUME NEW f \in [Gran -> FatByte], NEW d, NEW S, Accounted(f, d, S, NoOwn),
           NEW g \in FindGran(f)
    PROVE  Accounted(Store(f, g, LastByte(0)), d, S, g)
  <1>1. g \in Gran => f[g] \notin Gran
    BY ByteValues DEF FindGran, FreeGrans, FREE
  <1>2. NoOwn \notin Gran
    BY ByteValues DEF NoOwn, FREE
  <1>3. NothingLeaked(f, Heads(d, S) \cup {g})
    BY <1>2, LeakMore DEF Accounted
  <1>4. CASE g \in Gran
    <2>1. NothingLeaked([f EXCEPT ![g] = LastByte(0)], Heads(d, S) \cup {g})
      BY <1>1, <1>3, <1>4, LeakTouch
    <2> QED BY <1>4, <2>1 DEF Accounted, Store
  <1> QED BY <1>3, <1>4 DEF Accounted, Store

LEMMA AccountDrop ==
    ASSUME NEW f, NEW d, NEW S, NEW z, z \notin Gran, Accounted(f, d, S, z)
    PROVE  Accounted(f, d, S, NoOwn)
  BY LeakMore DEF Accounted

LEMMA AccountAdopt ==
    ASSUME NEW f, NEW d, NEW S, NEW i \in S, Accounted(f, d, S, d[i].first)
    PROVE  Accounted(f, d, S, NoOwn)
  <1>1. d[i].first \in Heads(d, S)
    BY DEF Heads
  <1> QED BY <1>1, LeakMore DEF Accounted

LEMMA AccountTake ==
    ASSUME NEW f, NEW d, NEW S, NEW i \in S, Accounted(f, d, S, NoOwn)
    PROVE  Accounted(f, d, S \ {i}, d[i].first)
  <1>1. Heads(d, S) \subseteq Heads(d, S \ {i}) \cup {d[i].first}
    BY DEF Heads
  <1>2. NoOwn \notin Gran
    BY ByteValues DEF NoOwn, FREE
  <1> QED BY <1>1, <1>2, LeakMore DEF Accounted

(* delchain frees the head of its chain and goes on from the next granule. *)
LEMMA AccountFree ==
    ASSUME NEW f \in [Gran -> FatByte], NEW d, NEW S, NEW z \in Gran, Accounted(f, d, S, z)
    PROVE  Accounted([f EXCEPT ![z] = FREE], d, S, f[z])
  <1> DEFINE f1 == [f EXCEPT ![z] = FREE]
             H == Heads(d, S)
  <1>1. f1[z] = FREE /\ \A h \in Gran : h # z => f1[h] = f[h]
    OBVIOUS
  <1>2. NothingLeaked(f, H \cup {z})
    BY DEF Accounted
  <1> HIDE DEF f1, H
  <1>3. ASSUME NEW T \in SUBSET {g \in Gran : f1[g] # FREE}, T # {}
        PROVE  Entered(f1, H \cup {f[z]}, T)
    <2>1. z \notin T /\ T \in SUBSET {g \in Gran : f[g] # FREE}
      BY <1>1
    <2>2. Entered(f, H \cup {z}, T)
      BY <1>2, <1>3, <2>1 DEF NothingLeaked
    <2>3. PICK g \in T : g \in H \cup {z} \/ SetAside(f, g) \/ \E h \in Gran \ T : f[h] = g
      BY <2>2 DEF Entered
    <2>4. g # z /\ f1[g] = f[g]
      BY <1>1, <2>1, <2>3
    <2>5. CASE g \in H \cup {z} \/ SetAside(f, g)
      BY <2>3, <2>4, <2>5 DEF Entered, SetAside
    <2>6. CASE \E h \in Gran \ T : f[h] = g
      <3>1. PICK h \in Gran \ T : f[h] = g
        BY <2>6
      <3>2. CASE h = z
        BY <2>3, <3>1, <3>2 DEF Entered
      <3>3. CASE h # z
        BY <1>1, <2>3, <3>1, <3>3 DEF Entered
      <3> QED BY <3>2, <3>3
    <2> QED BY <2>3, <2>5, <2>6
  <1>4. NothingLeaked(f1, H \cup {f[z]})
    BY <1>3 DEF NothingLeaked
  <1> QED BY <1>4 DEF Accounted, f1, H

LEMMA AccountBlank ==
    ASSUME NEW f, NEW d, NEW S, NEW own,
           \A g \in Gran : f[g] = FREE \/ (g \in {0} \cup BootTrack /\ f[g] = LastByte(0))
    PROVE  Accounted(f, d, S, own)
  BY DEF Accounted, NothingLeaked, Entered, SetAside

(* putboot marks a boot track that no chain gets to. *)
LEMMA AccountBoot ==
    ASSUME NEW f \in [Gran -> FatByte], NEW d, NEW S, Accounted(f, d, S, NoOwn),
           \A g \in BootTrack : Unreached(f, d, S, g)
    PROVE  Accounted([g \in Gran |-> IF g \in BootTrack THEN LastByte(0) ELSE f[g]], d, S, NoOwn)
  <1> DEFINE f1 == [g \in Gran |-> IF g \in BootTrack THEN LastByte(0) ELSE f[g]]
             H == Heads(d, S) \cup {NoOwn}
  <1>1. BootTrack \subseteq Gran
    BY SizesAssumption DEF BootTrack, Gran
  <1>2. /\ \A g \in BootTrack : f1[g] = LastByte(0)
        /\ \A g \in Gran \ BootTrack : f1[g] = f[g]
    BY <1>1
  <1>3. NoOwn \notin Gran
    BY ByteValues DEF NoOwn, FREE
  <1>4. NothingLeaked(f, H)
    BY DEF Accounted
  <1> HIDE DEF f1, H
  <1>5. ASSUME NEW b \in BootTrack PROVE f[b] \notin Gran
    <2> SUFFICES ASSUME f[b] # FREE, f[b] # LastByte(0) PROVE FALSE
      BY ByteValues DEF FREE
    <2>1. Entered(f, H, {b})
      BY <1>1, <1>4 DEF NothingLeaked
    <2> QED BY <1>1, <1>3, <2>1 DEF Entered, SetAside, Unreached, H
  <1>6. ASSUME NEW T \in SUBSET {g \in Gran : f1[g] # FREE}, T # {}
        PROVE  Entered(f1, H, T)
    <2>1. CASE \E g \in T : g \in BootTrack
      BY <1>2, <2>1 DEF Entered, SetAside
    <2>2. CASE \A g \in T : g \notin BootTrack
      <3>1. T \in SUBSET {g \in Gran : f[g] # FREE}
        BY <1>2, <2>2
      <3>2. Entered(f, H, T)
        BY <1>4, <1>6, <3>1 DEF NothingLeaked
      <3>3. PICK g \in T : g \in H \/ SetAside(f, g) \/ \E h \in Gran \ T : f[h] = g
        BY <3>2 DEF Entered
      <3>4. f1[g] = f[g] /\ g \in Gran
        BY <1>2, <2>2, <3>3
      <3>5. CASE g \in H \/ SetAside(f, g)
        BY <3>3, <3>4, <3>5 DEF Entered, SetAside
      <3>6. CASE \E h \in Gran \ T : f[h] = g
        <4>1. PICK h \in Gran \ T : f[h] = g
          BY <3>6
        <4>2. h \notin BootTrack
          BY <1>5, <3>4, <4>1
        <4> QED BY <1>2, <3>3, <4>1, <4>2 DEF Entered
      <3> QED BY <3>3, <3>5, <3>6
    <2> QED BY <2>1, <2>2
  <1>7. NothingLeaked(f1, H)
    BY <1>6 DEF NothingLeaked
  <1> QED BY <1>7 DEF Accounted, f1, H

(* The slots find sees, after put fills one and after rm empties one *)

LEMMA FillVisible ==
    ASSUME dir \in [Slot -> Entry], off \in Slot, entry \in Entry, Live(entry), ~Live(dir[off]),
           \A j \in 0..(off - 1) : Live(dir[j]), dir' = [dir EXCEPT ![off] = entry]
    PROVE  /\ VisibleFiles \cup {off} \subseteq VisibleFiles'
           /\ \A i \in VisibleFiles : dir'[i] = dir[i]
           /\ dir'[off] = entry
  <1>1. dir'[off] = entry /\ \A j \in Slot : j # off => dir'[j] = dir[j]
    OBVIOUS
  <1>2. entry.name # EndMark /\ \A j \in Slot : Live(dir[j]) => dir[j].name # EndMark
    BY NamesAssumption DEF Live
  <1>3. off \in Visible(dir')
    <2>1. \A j \in 0..(off - 1) : j \in Slot /\ j # off
      BY SizesAssumption DEF Slot
    <2>2. \A j \in 0..off : j = off \/ j \in 0..(off - 1)
      BY SizesAssumption DEF Slot
    <2> QED BY <1>1, <1>2, <2>1, <2>2 DEF Visible
  <1>4. \A j \in Visible(dir) : j \in Visible(dir')
    <2> SUFFICES ASSUME NEW j \in Visible(dir), NEW k \in 0..j PROVE dir'[k].name # EndMark
      BY DEF Visible
    <2>1. k \in Slot /\ dir[k].name # EndMark
      BY SizesAssumption DEF Visible, Slot
    <2> QED BY <1>1, <1>2, <2>1
  <1> QED BY <1>1, <1>3, <1>4 DEF VisibleFiles, LiveSlots

LEMMA EmptyVisible ==
    ASSUME dir \in [Slot -> Entry], off \in VisibleFiles, entry \in Entry,
           entry.name = Deleted, dir' = [dir EXCEPT ![off] = entry]
    PROVE  /\ VisibleFiles \ {off} \subseteq VisibleFiles'
           /\ \A i \in VisibleFiles \ {off} : dir'[i] = dir[i]
  <1>1. dir'[off] = entry /\ \A j \in Slot : j # off => dir'[j] = dir[j]
    BY DEF VisibleFiles, LiveSlots
  <1>2. \A j \in Visible(dir) : j \in Visible(dir')
    <2> SUFFICES ASSUME NEW j \in Visible(dir), NEW k \in 0..j PROVE dir'[k].name # EndMark
      BY DEF Visible
    <2>1. k \in Slot /\ dir[k].name # EndMark
      BY SizesAssumption DEF Visible, Slot
    <2> QED BY <1>1, <2>1 DEF Deleted, EndMark
  <1> QED BY <1>1, <1>2 DEF VisibleFiles, LiveSlots

LEMMA InitLeak == Init => LeakInv
  <1> SUFFICES ASSUME Init PROVE LeakInv
    OBVIOUS
  <1>1. \A g \in Gran : fat[g] = FREE \/ (g \in {0} \cup BootTrack /\ fat[g] = LastByte(0))
    BY DEF Init, Reserved
  <1>2. Accounted(fat, dir, VisibleFiles, NoOwn)
    BY <1>1, AccountBlank
  <1> QED BY <1>2 DEF Init, LeakInv

LEMMA ExitLeak ==
    ASSUME Exit("ok") \/ Exit("err"), Accounted(fat', dir', VisibleFiles', NoOwn)
    PROVE  LeakInv'
  BY DEF Exit, LeakInv

LEMMA OpenLeak ==
    ASSUME TypeOK, Accounted(fat, dir, VisibleFiles, NoOwn), NEW n \in Names, OpenFile(n)
    PROVE  /\ off' \in VisibleFiles
           /\ Accounted(mfat', dir, VisibleFiles \ {off'}, x')
  <1>1. PICK i \in Find(dir, n) : off' = i /\ x' = dir[i].first /\ mfat' = fat
    BY DEF OpenFile
  <1>2. i \in VisibleFiles
    BY DEF Find, Visible, VisibleFiles, LiveSlots, Live
  <1> QED BY <1>1, <1>2, AccountTake

LEMMA CommandLeak ==
    ASSUME TypeOK, TypeOK', LeakInv, Command
    PROVE  LeakInv'
  <1>1. pc = "idle" /\ Accounted(fat, dir, VisibleFiles, NoOwn) /\ UNCHANGED image
    BY DEF Command, MkfsBegin, PutOpen, RmOpen, GetOpen, Refuse, List, PutBoot, WalkBegin,
           GetBoot, Begin, LeakInv, image
  <1>2. fat' = fat /\ dir' = dir /\ VisibleFiles' = VisibleFiles
    BY <1>1 DEF image, VisibleFiles
  <1>3. Accounted(fat', dir', VisibleFiles', NoOwn)
    BY <1>1, <1>2
  <1>4. ASSUME NEW fl \in SUBSET {"m", "p"}, MkfsBegin(fl) PROVE LeakInv'
    <2>1. pc' = "mkfs" /\ x' = 0
      BY <1>4 DEF MkfsBegin, Begin
    <2>2. 0 \in 0..(FATZ + 2) /\ ~(0 > HALF)
      BY SizesAssumption
    <2> QED BY <1>3, <2>1, <2>2 DEF LeakInv
  <1>5. ASSUME NEW n \in Names, NEW s \in HostFiles, NEW fl \in SUBSET {"l"},
               PutOpen(n, s, fl)
        PROVE  LeakInv'
    <2>1. PICK i \in FreeSlot(dir), g \in FindGran(fat) :
            /\ off' = i /\ entry' = WithFirst(dir[i], g)
            /\ mfat' = Store(fat, g, LastByte(0)) /\ x' = g
      BY <1>5 DEF PutOpen
    <2>2. off' \in Slot /\ ~Live(dir'[off']) /\ \A j \in 0..(off' - 1) : Live(dir'[j])
      BY <1>2, <2>1 DEF FreeSlot
    <2>3. entry.first' = g
      BY <2>1 DEF WithFirst
    <2>4. Accounted(mfat', dir', VisibleFiles', entry.first')
      BY <1>1, <1>2, <2>1, <2>3, AccountHead DEF TypeOK
    <2>5. job'.name = n /\ pc' = "put"
      BY <1>5 DEF PutOpen, Begin, NewJob
    <2>6. g \in Gran => mfat'[g] = LastByte(0)
      BY <2>1 DEF Store, TypeOK
    <2>7. g \notin Gran => FreeGrans(fat) = {} /\ mfat' = fat
      BY <2>1 DEF FindGran, FreeGrans, Store
    <2>8. CursorInv'
      BY <2>1, <2>3, <2>6, <2>7 DEF CursorInv, OnOwnChain
    <2> QED BY <1>3, <2>2, <2>4, <2>5, <2>8 DEF LeakInv
  <1>6. ASSUME NEW j \in Job, Refuse(j) PROVE LeakInv'
    BY <1>1, <1>3, <1>6 DEF Refuse, LeakInv
  <1>7. ASSUME NEW n \in Names, RmOpen(n) PROVE LeakInv'
    <2>1. OpenFile(n) /\ pc' = "rm"
      BY <1>7 DEF RmOpen, Begin
    <2> QED BY <1>1, <1>2, <1>3, <2>1, OpenLeak DEF LeakInv
  <1>8. ASSUME NEW n \in Names, NEW fl \in SUBSET {"l"}, GetOpen(n, fl) PROVE LeakInv'
    BY <1>3, <1>8 DEF GetOpen, Begin, LeakInv
  <1>9. CASE List
    BY <1>2, <1>3, <1>9 DEF List, WalkBegin, Begin, NewJob, LeakInv
  <1>10. ASSUME NEW s \in HostFiles, PutBoot(s) PROVE LeakInv'
    <2>1. BootHeeded => \A g \in BootTrack : Unreached(fat, dir, VisibleFiles, g)
      BY <1>10 DEF PutBoot, OnBootTrack, Unreached, Heads, VisibleFiles, LiveSlots
    <2> QED BY <1>2, <1>3, <1>10, <2>1 DEF PutBoot, WalkBegin, Begin, NewJob, LeakInv
  <1>11. CASE GetBoot
    BY <1>1, <1>3, <1>11 DEF GetBoot, LeakInv
  <1>12. \A n \in Names, s \in HostFiles, fl \in SUBSET {"l"} : NewJob("put", n, s, fl) \in Job
    BY JobType DEF Op, Flag
  <1>13. \A n \in Names, fl \in SUBSET {"l"} :
          NewJob("rm", n, << >>, {}) \in Job /\ NewJob("get", n, << >>, fl) \in Job
    BY JobType DEF Op, Flag
  <1> QED BY <1>4, <1>5, <1>6, <1>7, <1>8, <1>9, <1>10, <1>11, <1>12, <1>13 DEF Command

LEMMA MkfsLeak ==
    ASSUME TypeOK, TypeOK', LeakInv, MkfsWrite \/ MkfsSaveFat
    PROVE  LeakInv'
  <1>1. /\ pc = "mkfs" /\ x \in 0..(FATZ + 2) /\ (x > HALF => fat = BlankFat)
        /\ x <= HALF => Accounted(fat, dir, VisibleFiles, NoOwn)
    BY DEF MkfsWrite, MkfsSaveFat, LeakInv
  <1>2. CASE MkfsWrite
    <2>1. pc' = "mkfs" /\ x' = x + 1 /\ x' \in 0..(FATZ + 2)
      BY <1>1, <1>2, SizesAssumption DEF MkfsWrite
    <2>2. x' > HALF => fat' = BlankFat
      BY <1>1, <1>2, <2>1, SizesAssumption DEF MkfsWrite
    <2>3. x' <= HALF => fat' = fat /\ dir' = dir
      BY <1>1, <1>2, <2>1, SizesAssumption DEF MkfsWrite, TypeOK
    <2>4. x' <= HALF => Accounted(fat', dir', VisibleFiles', NoOwn)
      <3>1. x' <= HALF => x <= HALF
        BY <1>1, <2>1, SizesAssumption
      <3> QED BY <1>1, <2>3, <3>1 DEF VisibleFiles
    <2> QED BY <2>1, <2>2, <2>4 DEF LeakInv
  <1>3. CASE MkfsSaveFat
    <2>1. fat = BlankFat
      BY <1>1, <1>3, SizesAssumption DEF MkfsSaveFat
    <2>2. \A g \in Gran : fat'[g] = FREE \/ (g \in {0} \cup BootTrack /\ fat'[g] = LastByte(0))
      BY <1>3, <2>1 DEF MkfsSaveFat, BlankFat, Reserved
    <2>3. Accounted(fat', dir', VisibleFiles', NoOwn)
      BY <2>2, AccountBlank
    <2> QED BY <1>3, <2>3, ExitLeak DEF MkfsSaveFat
  <1> QED BY <1>2, <1>3

(* A new head, or a granule its chain leads to, may get any byte. *)
LEMMA OwnTouch ==
    ASSUME NEW f \in [Gran -> FatByte], NEW d, NEW S, NEW own, Accounted(f, d, S, own),
           NEW c \in Gran, f[c] \notin Gran, NEW v,
           c = own \/ \E h \in Gran : h # c /\ f[h] = c
    PROVE  Accounted([f EXCEPT ![c] = v], d, S, own)
  <1>1. NothingLeaked([f EXCEPT ![c] = v], Heads(d, S) \cup {own})
    BY LeakTouch DEF Accounted
  <1> QED BY <1>1 DEF Accounted

LEMMA PutFullLeak ==
    ASSUME TypeOK, TypeOK', Accounted(mfat, dir, VisibleFiles, entry.first), CursorInv, PutFull
    PROVE  /\ Accounted(mfat', dir, VisibleFiles, entry.first)
           /\ CursorInv'
  <1>1. PICK g \in FindGran(mfat) : mfat' = Store(Store(mfat, g, LastByte(0)), x, g) /\ x' = g
    BY DEF PutFull
  <1>2. entry' = entry
    BY DEF PutFull
  <1>3. \/ g \in Gran /\ mfat[g] = FREE
        \/ g = FREE /\ g \notin Gran /\ FreeGrans(mfat) = {}
    BY ByteValues DEF FindGran, FreeGrans, FREE
  <1>4. CASE x \in Gran /\ g \in Gran
    <2>1. mfat[g] = FREE /\ g # x /\ mfat[x] = LastByte(0) /\ OnOwnChain(x)
      BY <1>3, <1>4, ByteValues DEF CursorInv
    <2>2. PICK f1 : f1 = [mfat EXCEPT ![x] = g]
      OBVIOUS
    <2>3. f1[x] = g /\ \A h \in Gran : h # x => f1[h] = mfat[h]
      BY <1>4, <2>2 DEF TypeOK
    <2>4. f1 \in [Gran -> FatByte]
      BY <1>4, <2>2, ByteValues DEF TypeOK
    <2>5. mfat' = [f1 EXCEPT ![g] = LastByte(0)]
      <3>1. mfat' = [[mfat EXCEPT ![g] = LastByte(0)] EXCEPT ![x] = g]
        BY <1>1, <1>4 DEF Store
      <3> QED BY <1>4, <2>1, <2>2, <3>1 DEF TypeOK
    <2>6. /\ mfat'[g] = LastByte(0) /\ mfat'[x] = g
          /\ \A h \in Gran : h # g /\ h # x => mfat'[h] = mfat[h]
      BY <1>4, <2>1, <2>3, <2>4, <2>5
    <2>7. x = entry.first \/ \E h \in Gran : h # x /\ mfat[h] = x
      BY <2>1, ByteValues DEF OnOwnChain
    <2>8. Accounted(f1, dir, VisibleFiles, entry.first)
      <3>1. Accounted([mfat EXCEPT ![x] = g], dir, VisibleFiles, entry.first)
        BY <1>4, <2>1, <2>7, ByteValues, OwnTouch DEF TypeOK
      <3> QED BY <2>2, <3>1
    <2>9. Accounted(mfat', dir, VisibleFiles, entry.first)
      <3>1. f1[g] \notin Gran /\ x # g /\ f1[x] = g
        BY <1>4, <2>1, <2>3, ByteValues
      <3>2. Accounted([f1 EXCEPT ![g] = LastByte(0)], dir, VisibleFiles, entry.first)
        BY <1>4, <2>4, <2>8, <3>1, OwnTouch
      <3> QED BY <2>5, <3>2
    <2>10. CursorInv'
      BY <1>1, <1>4, <2>6 DEF CursorInv, OnOwnChain
    <2> QED BY <2>9, <2>10
  <1>5. CASE x \in Gran /\ g \notin Gran
    <2>1. mfat' = [mfat EXCEPT ![x] = FREE] /\ FreeGrans(mfat) = {}
      BY <1>1, <1>3, <1>5 DEF Store
    <2>2. mfat[x] = LastByte(0) /\ OnOwnChain(x)
      BY <1>5 DEF CursorInv
    <2>3. \A h \in Gran : mfat[h] \in Gran => mfat'[h] = mfat[h]
      BY <2>1, <2>2, ByteValues DEF TypeOK
    <2>4. FreeGrans(mfat') = {x}
      BY <1>5, <2>1 DEF FreeGrans, TypeOK
    <2>5. Accounted(mfat', dir, VisibleFiles, entry.first)
      <3>1. mfat[x] \notin Gran /\ (x = entry.first \/ \E h \in Gran : h # x /\ mfat[h] = x)
        BY <2>2, ByteValues DEF OnOwnChain
      <3>2. Accounted([mfat EXCEPT ![x] = FREE], dir, VisibleFiles, entry.first)
        BY <1>5, <3>1, OwnTouch DEF TypeOK
      <3> QED BY <2>1, <3>2
    <2>6. x = entry.first' \/ \E h \in Gran : mfat'[h] = x
      BY <1>2, <1>5, <2>2, <2>3 DEF OnOwnChain
    <2>7. CursorInv'
      BY <1>1, <1>5, <2>4, <2>6 DEF CursorInv, OnOwnChain
    <2> QED BY <2>5, <2>7
  <1>6. CASE x \notin Gran /\ g \in Gran
    <2>1. mfat' = [mfat EXCEPT ![g] = LastByte(0)] /\ mfat[g] = FREE
      BY <1>1, <1>3, <1>6, ByteValues DEF Store
    <2>2. OnOwnChain(g)
      BY <1>6, <2>1 DEF CursorInv, FreeGrans
    <2>3. \A h \in Gran : mfat[h] \in Gran => mfat'[h] = mfat[h]
      BY <2>1, ByteValues DEF TypeOK
    <2>4. g = entry.first' \/ \E h \in Gran : mfat'[h] = g
      BY <1>2, <1>6, <2>2, <2>3 DEF OnOwnChain
    <2>5. Accounted(mfat', dir, VisibleFiles, entry.first)
      <3>1. mfat[g] \notin Gran /\ (g = entry.first \/ \E h \in Gran : h # g /\ mfat[h] = g)
        BY <1>6, <2>1, <2>2, ByteValues DEF OnOwnChain
      <3>2. Accounted([mfat EXCEPT ![g] = LastByte(0)], dir, VisibleFiles, entry.first)
        BY <1>6, <3>1, OwnTouch DEF TypeOK
      <3> QED BY <2>1, <3>2
    <2>6. mfat'[g] = LastByte(0)
      BY <1>6, <2>1 DEF TypeOK
    <2>7. CursorInv'
      BY <1>1, <1>6, <2>4, <2>6 DEF CursorInv, OnOwnChain
    <2> QED BY <2>5, <2>7
  <1>7. CASE x \notin Gran /\ g \notin Gran
    <2>1. mfat' = mfat /\ FreeGrans(mfat) = {}
      BY <1>1, <1>3, <1>7 DEF Store
    <2>2. CursorInv'
      BY <1>1, <1>7, <2>1 DEF CursorInv
    <2> QED BY <2>1, <2>2
  <1> QED BY <1>4, <1>5, <1>6, <1>7

LEMMA PutLeak ==
    ASSUME TypeOK, TypeOK', LeakInv, PutFull \/ PutTail \/ PutSaveEntry \/ PutSaveFat
    PROVE  LeakInv'
  <1>1. CASE PutFull
    <2>1. /\ pc = "put" /\ pc' = "put" /\ UNCHANGED <<fat, dir, entry, off, job>>
          /\ VisibleFiles' = VisibleFiles
      BY <1>1 DEF PutFull, VisibleFiles
    <2>2. Accounted(mfat', dir, VisibleFiles, entry.first) /\ CursorInv'
      BY <1>1, <2>1, PutFullLeak DEF LeakInv
    <2> QED BY <2>1, <2>2 DEF LeakInv
  <1>2. CASE PutTail
    <2>1. /\ pc = "put" /\ pc' = "put_entry" /\ UNCHANGED <<fat, dir, off, job>>
          /\ VisibleFiles' = VisibleFiles
          /\ entry.first' = entry.first /\ entry.name' = job.name
      BY <1>2 DEF PutTail, VisibleFiles
    <2>2. /\ Accounted(mfat, dir, VisibleFiles, entry.first) /\ CursorInv
          /\ Accounted(fat, dir, VisibleFiles, NoOwn)
      BY <2>1 DEF LeakInv
    <2> DEFINE b == LastByte((Len(src) + SECZ - 1) \div SECZ)
    <2>3. mfat' = Store(mfat, x, b)
      BY <1>2 DEF PutTail
    <2> HIDE DEF b
    <2>4. Accounted(mfat', dir, VisibleFiles, entry.first)
      <3>1. CASE x \in Gran
        <4>1. mfat[x] \notin Gran /\ (x = entry.first \/ \E h \in Gran : h # x /\ mfat[h] = x)
          BY <2>2, <3>1, ByteValues DEF CursorInv, OnOwnChain
        <4>2. Accounted([mfat EXCEPT ![x] = b], dir, VisibleFiles, entry.first)
          BY <2>2, <3>1, <4>1, OwnTouch DEF TypeOK
        <4> QED BY <2>3, <3>1, <4>2 DEF Store
      <3>2. CASE x \notin Gran
        BY <2>2, <2>3, <3>2 DEF Store
      <3> QED BY <3>1, <3>2
    <2> QED BY <2>1, <2>2, <2>4 DEF LeakInv
  <1>3. CASE PutSaveEntry
    <2>1. /\ pc = "put_entry" /\ pc' = "put_fat" /\ entry.name = job.name /\ job.name \in Names
          /\ dir' = [dir EXCEPT ![off] = entry] /\ mfat' = mfat /\ fat' = fat
          /\ off \in Slot /\ ~Live(dir[off]) /\ \A j \in 0..(off - 1) : Live(dir[j])
          /\ Accounted(mfat, dir, VisibleFiles, entry.first)
          /\ Accounted(fat, dir, VisibleFiles, NoOwn)
      BY <1>3 DEF PutSaveEntry, SaveEntry, LeakInv
    <2>2. /\ VisibleFiles \cup {off} \subseteq VisibleFiles'
          /\ \A i \in VisibleFiles : dir'[i] = dir[i]
          /\ dir'[off] = entry
      BY <2>1, FillVisible DEF Live, TypeOK
    <2>3. Accounted(mfat, dir', VisibleFiles', entry.first)
      BY <2>1, <2>2, AccountMore
    <2>4. Accounted(mfat, dir', VisibleFiles', NoOwn)
      BY <2>2, <2>3, AccountAdopt
    <2>5. Accounted(fat, dir', VisibleFiles', NoOwn)
      BY <2>1, <2>2, AccountMore
    <2> QED BY <2>1, <2>4, <2>5 DEF LeakInv
  <1>4. CASE PutSaveFat
    <2>1. Accounted(mfat, dir, VisibleFiles, NoOwn) /\ fat' = mfat /\ dir' = dir
      BY <1>4 DEF PutSaveFat, LeakInv
    <2> QED BY <1>4, <2>1, ExitLeak DEF PutSaveFat, VisibleFiles
  <1> QED BY <1>1, <1>2, <1>3, <1>4

LEMMA RmLeak ==
    ASSUME TypeOK, TypeOK', LeakInv, RmDelchain \/ RmSaveFat \/ RmSaveEntry
    PROVE  LeakInv'
  <1>1. CASE RmDelchain
    <2>1. /\ pc = "rm" /\ pc' = "rm" /\ off \in VisibleFiles /\ VisibleFiles' = VisibleFiles
          /\ Accounted(fat, dir, VisibleFiles, NoOwn)
          /\ Accounted(mfat, dir, VisibleFiles \ {off}, x)
          /\ mfat' = [mfat EXCEPT ![x] = FREE] /\ x' = mfat[x] /\ UNCHANGED <<fat, dir, off>>
      BY <1>1 DEF RmDelchain, LeakInv, image, VisibleFiles
    <2>2. x \in Gran
      BY <1>1, <2>1, ByteValues DEF RmDelchain, TypeOK
    <2>3. Accounted(mfat', dir, VisibleFiles \ {off}, x')
      BY <2>1, <2>2, AccountFree DEF TypeOK
    <2> QED BY <2>1, <2>3 DEF LeakInv
  <1>2. CASE RmSaveFat
    <2>1. /\ pc = "rm" /\ pc' = "rm_entry" /\ off \in VisibleFiles /\ VisibleFiles' = VisibleFiles
          /\ Accounted(mfat, dir, VisibleFiles \ {off}, x)
          /\ fat' = mfat /\ entry.name' = Deleted /\ UNCHANGED <<dir, off>>
      BY <1>2 DEF RmSaveFat, LeakInv, WithName, VisibleFiles
    <2>2. x \notin Gran
      BY <1>2, <2>1, ByteValues DEF RmSaveFat, TypeOK
    <2>3. Accounted(fat', dir, VisibleFiles \ {off}, NoOwn)
      BY <2>1, <2>2, AccountDrop
    <2>4. Accounted(fat', dir, VisibleFiles, NoOwn)
      BY <2>3, AccountMore
    <2> QED BY <2>1, <2>3, <2>4 DEF LeakInv
  <1>3. CASE RmSaveEntry
    <2>1. /\ off \in VisibleFiles /\ entry.name = Deleted
          /\ Accounted(fat, dir, VisibleFiles \ {off}, NoOwn)
          /\ dir' = [dir EXCEPT ![off] = entry] /\ fat' = fat
      BY <1>3 DEF RmSaveEntry, LeakInv
    <2>2. /\ VisibleFiles \ {off} \subseteq VisibleFiles'
          /\ \A i \in VisibleFiles \ {off} : dir'[i] = dir[i]
      BY <2>1, EmptyVisible DEF TypeOK
    <2>3. Accounted(fat', dir', VisibleFiles', NoOwn)
      BY <2>1, <2>2, AccountMore
    <2> QED BY <1>3, <2>3, ExitLeak DEF RmSaveEntry
  <1> QED BY <1>1, <1>2, <1>3

LEMMA ReadLeak ==
    ASSUME TypeOK, LeakInv,
           GetNext \/ GetLast \/ GetNegative \/ GetUndefined \/ WalkChain \/ WalkEntry \/ ListDone
    PROVE  LeakInv'
  <1>1. /\ Accounted(fat, dir, VisibleFiles, NoOwn) /\ fat' = fat /\ dir' = dir
        /\ VisibleFiles' = VisibleFiles
    BY DEF GetNext, GetLast, GetNegative, GetUndefined, WalkChain, WalkEntry, ListDone,
           LeakInv, image, VisibleFiles
  <1>2. CASE GetLast \/ GetNegative \/ GetUndefined \/ ListDone
    BY <1>1, <1>2, ExitLeak DEF GetLast, GetNegative, GetUndefined, ListDone
  <1>3. CASE GetNext
    BY <1>1, <1>3 DEF GetNext, LeakInv
  <1>4. CASE WalkChain \/ WalkEntry
    BY <1>1, <1>4 DEF WalkChain, WalkEntry, LeakInv
  <1> QED BY <1>2, <1>3, <1>4

LEMMA BootLeak ==
    ASSUME BootHeeded, TypeOK, TypeOK', LeakInv, BootBegin \/ BootWrite \/ BootSaveFat
    PROVE  LeakInv'
  <1>1. /\ pc \in {"walk", "boot"} /\ Accounted(fat, dir, VisibleFiles, NoOwn)
        /\ mfat = fat /\ dir' = dir /\ VisibleFiles' = VisibleFiles /\ job.op = "putboot"
        /\ \A g \in BootTrack : Unreached(fat, dir, VisibleFiles, g)
    BY DEF BootBegin, BootWrite, BootSaveFat, LeakInv, image, VisibleFiles
  <1>2. CASE BootBegin \/ BootWrite
    <2>1. pc' = "boot" /\ fat' = fat /\ mfat' = mfat /\ job' = job
      BY <1>2 DEF BootBegin, BootWrite, image
    <2> QED BY <1>1, <2>1 DEF LeakInv
  <1>3. CASE BootSaveFat
    <2>1. fat' = [g \in Gran |-> IF g \in BootTrack THEN LastByte(0) ELSE fat[g]]
      BY <1>1, <1>3 DEF BootSaveFat
    <2>2. Accounted(fat', dir, VisibleFiles, NoOwn)
      BY <1>1, <2>1, AccountBoot DEF TypeOK
    <2> QED BY <1>1, <1>3, <2>2, ExitLeak DEF BootSaveFat
  <1> QED BY <1>2, <1>3

(* Whichever command dies at whichever write, and even when a put runs off *)
(* the end of a full disk, every allocated granule can still be reached,   *)
(* link by link, from a file that find sees, or is a granule with the byte *)
(* and the place of a reserved one: the order of put's and rm's two last   *)
(* writes never loses space.                                               *)
THEOREM NeverLeaks ==
    ASSUME BootHeeded
    PROVE  Spec => []NoLeak
  <1>1. TypeOK /\ TypeOK' /\ LeakInv /\ [Next]_vars => LeakInv'
    <2> SUFFICES ASSUME TypeOK, TypeOK', LeakInv, [Next]_vars PROVE LeakInv'
      OBVIOUS
    <2>1. CASE UNCHANGED vars
      BY <2>1 DEF vars, LeakInv, CursorInv, OnOwnChain, VisibleFiles
    <2>2. CASE Fail
      <3>1. fat' = fat /\ dir' = dir /\ VisibleFiles' = VisibleFiles
        BY <2>2 DEF Fail, VisibleFiles
      <3>2. Accounted(fat, dir, VisibleFiles, NoOwn)
        <4>1. CASE pc # "mkfs"
          BY <4>1 DEF LeakInv
        <4>2. CASE pc = "mkfs" /\ x <= HALF
          BY <4>2 DEF LeakInv
        <4>3. CASE pc = "mkfs" /\ ~(x <= HALF)
          <5>1. fat = BlankFat
            BY <4>3, SizesAssumption DEF LeakInv, TypeOK
          <5> QED BY <5>1, AccountBlank DEF BlankFat
        <4> QED BY <4>1, <4>2, <4>3
      <3> QED BY <2>2, <3>1, <3>2, ExitLeak DEF Fail
    <2>3. CASE Command
      BY <2>3, CommandLeak
    <2>4. CASE Step
      BY <2>4, MkfsLeak, PutLeak, RmLeak, ReadLeak, BootLeak DEF Step
    <2> QED BY <2>1, <2>2, <2>3, <2>4 DEF Next
  <1>2. LeakInv => NoLeak
    <2>1. NoOwn \notin Gran
      BY ByteValues DEF NoOwn, FREE
    <2> QED BY <2>1, LeakMore DEF LeakInv, NoLeak, Accounted, VisibleFiles
  <1> QED BY InitLeak, TypeCorrect, <1>1, <1>2, PTL DEF Spec

-----------------------------------------------------------------------------
(* Reserved granules *)

(* A command begins: the reserved granules are what they were. *)
LEMMA KeepBegins ==
    ASSUME TypeOK, TypeOK', KeepInv, Command
    PROVE  KeepInv' /\ UNCHANGED image
  <1>1. UNCHANGED image /\ pc = "idle"
    BY DEF Command, MkfsBegin, PutOpen, RmOpen, GetOpen, Refuse, List, PutBoot, WalkBegin,
           GetBoot, Begin, image
  <1>2. fat' = fat /\ dir' = dir /\ \A g \in Gran : IsReserved(g)' <=> IsReserved(g)
    BY <1>1 DEF image, IsReserved
  <1>3. ASSUME NEW fl \in SUBSET {"m", "p"}, MkfsBegin(fl) PROVE KeepInv'
    BY <1>3 DEF MkfsBegin, Begin, NewJob, KeepInv
  <1>4. ASSUME NEW n \in Names, NEW s \in HostFiles, NEW fl \in SUBSET {"l"}, PutOpen(n, s, fl)
        PROVE  KeepInv'
    <2>1. PICK g \in FindGran(fat) : mfat' = Store(fat, g, LastByte(0)) /\ x' = g
      BY <1>4 DEF PutOpen
    <2>2. g \in Gran => fat[g] = FREE
      BY ByteValues DEF FindGran, FreeGrans, FREE
    <2>3. \A h \in Gran : fat[h] # FREE => mfat'[h] = fat[h]
      BY <2>1, <2>2 DEF Store, TypeOK
    <2>4. pc' = "put"
      BY <1>4 DEF PutOpen, Begin
    <2> QED BY <1>2, <2>1, <2>2, <2>3, <2>4 DEF KeepInv, OnlyAdds
  <1>5. ASSUME NEW n \in Names, RmOpen(n) PROVE KeepInv'
    <2>1. PICK i \in Find(dir, n) : x' = dir[i].first /\ mfat' = fat
      BY <1>5 DEF RmOpen, OpenFile
    <2>2. i \in LiveSlots(dir)
      BY DEF Find, Visible, LiveSlots, Live
    <2>3. x' \in Gran => ~IsReserved(x')
      BY <2>1, <2>2 DEF IsReserved
    <2>4. pc' = "rm"
      BY <1>5 DEF RmOpen, Begin
    <2> QED BY <1>2, <2>1, <2>3, <2>4 DEF KeepInv
  <1>6. ASSUME pc' \in {"idle", "get", "walk"} PROVE KeepInv'
    BY <1>6 DEF KeepInv
  <1>7. ASSUME NEW j, Refuse(j) PROVE pc' = "idle"
    BY <1>1, <1>7 DEF Refuse
  <1>8. \A n \in Names, fl \in SUBSET {"l"} : GetOpen(n, fl) => pc' = "get"
    BY DEF GetOpen, Begin
  <1>9. /\ List => pc' = "walk"
        /\ \A s \in HostFiles : PutBoot(s) => pc' = "walk"
        /\ GetBoot => pc' = "idle"
    BY <1>1 DEF List, PutBoot, WalkBegin, Begin, GetBoot
  <1> QED BY <1>1, <1>3, <1>4, <1>5, <1>6, <1>7, <1>8, <1>9 DEF Command

Kept == \A g \in Gran : IsReserved(g) => fat'[g] = LastByte(0) /\ gran'[g] = gran[g]

LEMMA KeepPut ==
    ASSUME TypeOK, TypeOK', KeepInv, PutFull \/ PutTail \/ PutSaveEntry \/ PutSaveFat
    PROVE  KeepInv' /\ Kept
  <1>1. OnlyAdds /\ (pc = "put" /\ x \in Gran => fat[x] = FREE)
    BY DEF PutFull, PutTail, PutSaveEntry, PutSaveFat, KeepInv
  <1>2. CASE PutFull
    <2>1. PICK g \in FindGran(mfat) : mfat' = Store(Store(mfat, g, LastByte(0)), x, g) /\ x' = g
      BY <1>2 DEF PutFull
    <2>2. /\ pc = "put" /\ pc' = "put" /\ fat' = fat
          /\ \A h \in Gran : h # x => gran'[h] = gran[h]
      BY <1>2 DEF PutFull, WriteGran
    <2>3. g \in Gran => mfat[g] = FREE /\ fat[g] = FREE
      BY <1>1, ByteValues DEF FindGran, FreeGrans, FREE, OnlyAdds
    <2>4. \A h \in Gran : h # x /\ h # g => mfat'[h] = mfat[h]
      BY <2>1 DEF Store, TypeOK
    <2>5. \A h \in Gran : fat[h] # FREE => mfat'[h] = fat[h]
      BY <1>1, <2>2, <2>3, <2>4 DEF OnlyAdds
    <2>6. Kept
      BY <1>1, <2>2, ByteValues DEF Kept, IsReserved
    <2> QED BY <2>1, <2>2, <2>3, <2>5, <2>6 DEF KeepInv, OnlyAdds
  <1>3. CASE PutTail
    <2>1. /\ pc = "put" /\ pc' = "put_entry" /\ fat' = fat
          /\ \A h \in Gran : h # x => gran'[h] = gran[h]
          /\ mfat' = Store(mfat, x, LastByte((Len(src) + SECZ - 1) \div SECZ))
      BY <1>3 DEF PutTail, WriteGran
    <2>2. \A h \in Gran : h # x => mfat'[h] = mfat[h]
      BY <2>1 DEF Store, TypeOK
    <2>3. \A h \in Gran : fat[h] # FREE => mfat'[h] = fat[h]
      BY <1>1, <2>1, <2>2 DEF OnlyAdds
    <2>4. Kept
      BY <1>1, <2>1, ByteValues DEF Kept, IsReserved
    <2> QED BY <2>1, <2>3, <2>4 DEF KeepInv, OnlyAdds
  <1>4. CASE PutSaveEntry
    BY <1>1, <1>4 DEF PutSaveEntry, SaveEntry, KeepInv, OnlyAdds, Kept, IsReserved
  <1>5. CASE PutSaveFat
    BY <1>1, <1>5, ByteValues DEF PutSaveFat, Exit, KeepInv, OnlyAdds, Kept, IsReserved
  <1> QED BY <1>2, <1>3, <1>4, <1>5

LEMMA KeepRm ==
    ASSUME TypeOK, TypeOK', KeepInv, RmDelchain \/ RmSaveFat \/ RmSaveEntry
    PROVE  KeepInv' /\ Kept
  <1>1. CASE RmDelchain
    <2>1. /\ pc = "rm" /\ pc' = "rm" /\ UNCHANGED <<fat, dir, gran>> /\ x \in Gran
          /\ mfat' = [mfat EXCEPT ![x] = FREE] /\ x' = mfat[x]
      BY <1>1, ByteValues DEF RmDelchain, TypeOK, image
    <2>2. /\ \A g \in Gran : mfat[g] \in {FREE, fat[g]}
          /\ \A g \in Gran : IsReserved(g) => mfat[g] = fat[g]
          /\ ~IsReserved(x)
      BY <2>1 DEF KeepInv
    <2>3. mfat'[x] = FREE /\ \A g \in Gran : g # x => mfat'[g] = mfat[g]
      BY <2>1 DEF TypeOK
    <2>4. \A g \in Gran : mfat'[g] \in {FREE, fat[g]}
      BY <2>2, <2>3
    <2>5. \A g \in Gran : IsReserved(g) => mfat'[g] = fat[g]
      BY <2>2, <2>3
    <2>6. x' \in Gran => ~IsReserved(x')
      BY <2>1, <2>2, ByteValues DEF IsReserved
    <2>7. \A g : IsReserved(g)' <=> IsReserved(g)
      BY <2>1 DEF IsReserved
    <2>8. x' \in Gran => ~IsReserved(x)'
      <3>1. IsReserved(x)' <=> IsReserved(x')
        BY <2>1 DEF IsReserved
      <3> QED BY <2>6, <3>1
    <2>9. KeepInv'
      BY <2>1, <2>4, <2>5, <2>7, <2>8 DEF KeepInv
    <2>10. Kept
      BY <2>1 DEF Kept, IsReserved
    <2> QED BY <2>9, <2>10
  <1>2. CASE RmSaveFat
    BY <1>2 DEF RmSaveFat, KeepInv, Kept, IsReserved
  <1>3. CASE RmSaveEntry
    BY <1>3 DEF RmSaveEntry, Exit, KeepInv, Kept, IsReserved
  <1> QED BY <1>1, <1>2, <1>3

LEMMA KeepStep ==
    ASSUME TypeOK, TypeOK', KeepInv, Step \/ Fail
    PROVE  KeepInv' /\ (job'.op \notin {"mkfs", "putboot"} => Kept)
  <1>1. CASE MkfsWrite \/ MkfsSaveFat
    BY <1>1 DEF MkfsWrite, MkfsSaveFat, Exit, KeepInv
  <1>2. CASE PutFull \/ PutTail \/ PutSaveEntry \/ PutSaveFat
    BY <1>2, KeepPut
  <1>3. CASE RmDelchain \/ RmSaveFat \/ RmSaveEntry
    BY <1>3, KeepRm
  <1>4. CASE GetNext \/ GetLast \/ GetNegative \/ GetUndefined
    BY <1>4 DEF GetNext, GetLast, GetNegative, GetUndefined, Exit, image, KeepInv, Kept,
                IsReserved
  <1>5. CASE WalkChain \/ WalkEntry \/ ListDone \/ BootBegin
    BY <1>5 DEF WalkChain, WalkEntry, ListDone, BootBegin, Exit, image, KeepInv, Kept,
                IsReserved
  <1>6. CASE BootWrite \/ BootSaveFat
    BY <1>6 DEF BootWrite, BootSaveFat, Exit, KeepInv
  <1>7. CASE Fail
    BY <1>7 DEF Fail, Exit, KeepInv, Kept, IsReserved
  <1> QED BY <1>1, <1>2, <1>3, <1>4, <1>5, <1>6, <1>7 DEF Step

(* A granule that mkfs -m, mkfs -p or putboot reserved stays reserved and  *)
(* keeps its contents through every other command, whatever crashes left   *)
(* on the image and however full the disk is.                              *)
THEOREM ReservedStays == Spec => ReservedKept
  <1> DEFINE K == job'.op \notin {"mkfs", "putboot"} => Kept
  <1>1. Init => KeepInv
    BY DEF Init, KeepInv
  <1>2. TypeOK /\ TypeOK' /\ KeepInv /\ [Next]_vars => KeepInv' /\ [K]_vars
    <2> SUFFICES ASSUME TypeOK, TypeOK', KeepInv, [Next]_vars PROVE KeepInv' /\ (K \/ vars' = vars)
      OBVIOUS
    <2>1. CASE UNCHANGED vars
      BY <2>1 DEF vars, KeepInv, OnlyAdds, IsReserved
    <2>2. CASE Command
      <3>1. KeepInv' /\ UNCHANGED <<fat, gran>>
        BY <2>2, KeepBegins DEF image
      <3>2. Kept
        BY <3>1 DEF Kept, IsReserved
      <3> QED BY <3>1, <3>2
    <2>3. CASE Step \/ Fail
      BY <2>3, KeepStep
    <2> QED BY <2>1, <2>2, <2>3 DEF Next
  <1>3. [][K]_vars => ReservedKept
    BY DEF ReservedKept, Kept
  <1> QED BY TypeCorrect, <1>1, <1>2, <1>3, PTL DEF Spec
=============================================================================
