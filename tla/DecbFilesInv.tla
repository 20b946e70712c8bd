---------------------------- MODULE DecbFilesInv ----------------------------
(***************************************************************************)
(* The inductive invariant behind DecbFiles: as long as no process has     *)
(* died, which files the image holds at each place of each command, how    *)
(* much of its file put has written, and how much get has copied.          *)
(***************************************************************************)
EXTENDS DecbFiles, DecbInv

(* Chain c of f ends at its granule m, and what is in use of that granule, *)
(* after its FAT byte and the remainder, is not all of it.                 *)
Ends(f, c, m, rem) ==
    /\ c[m] \in Gran
    /\ f[c[m]] \in {LastByte(n) : n \in 0..SPG}
    /\ TailBytes(f[c[m]], rem) \in 0..(GRANZ - 1)

Whole(f, e) ==
    e.first \in Gran /\ \E m \in 0..(FATZ - 1) : Ends(f, Chain(f, e.first), m, e.rem)
AllWhole(f, d, S) == \A i \in S : Whole(f, d[i])

(* The host file as put writes it. *)
Given == IF "l" \in job.flags THEN NlToCr(job.file) ELSE job.file

(* The first m granules of chain c hold the first bytes of s. *)
Begun(gr, c, m, s) ==
    \A i \in 1..(m * GRANZ) : gr[c[(i - 1) \div GRANZ]][1 + ((i - 1) % GRANZ)] = s[i]

Holds(f, e) == Whole(f, e) /\ FileOf(f, gran, e) = File(Given)

PutFiles ==
    /\ pc \in {"put", "put_entry", "put_fat"} => OnlyAdds /\ job.file \in HostFiles
    /\ pc = "put" =>
        /\ Needs(job.file) <= FATZ /\ fat[x] = FREE
        /\ \E m \in 0..(FATZ - 1) :
             /\ Chain(mfat, entry.first)[m] = x
             /\ m * GRANZ + Len(src) = Len(job.file)
             /\ \A j \in 1..Len(src) : src[j] = job.file[m * GRANZ + j]
             /\ Begun(gran, Chain(mfat, entry.first), m, Given)
    /\ pc = "put_entry" => Holds(mfat, entry)
    /\ pc = "put_fat" =>
        /\ off \in LiveSlots(dir) /\ dir[off].name = job.name
        /\ Disjoint(fat, dir, LiveSlots(dir) \ {off}, NoOwn)
        /\ AllWhole(fat, dir, LiveSlots(dir) \ {off})
        /\ Holds(mfat, dir[off])

RmFiles ==
    /\ pc \in {"rm", "rm_entry"} => dir[off].name = job.name
    /\ pc = "rm" =>
        \A i \in LiveSlots(dir) \ {off} :
            Whole(mfat, dir[i]) /\ FileOf(mfat, gran, dir[i]) = FileOf(fat, gran, dir[i])
    /\ pc = "rm_entry" => AllWhole(fat, dir, LiveSlots(dir) \ {off})

(* get has copied the first granules of its file. *)
Copied(c, m) ==
    /\ Len(dst) = m * GRANZ
    /\ \A i \in 1..(m * GRANZ) :
         dst[i] = Received(gran[c[(i - 1) \div GRANZ]])[1 + ((i - 1) % GRANZ)]

GetFiles ==
    pc = "get" =>
        /\ mfat = fat /\ off \in LiveSlots(dir) /\ entry = dir[off] /\ entry.name = job.name
        /\ \E m \in 0..(FATZ - 1) :
             x \in Gran /\ Chain(fat, entry.first)[m] = x /\ Copied(Chain(fat, entry.first), m)

RestFiles ==
    pc \in {"idle", "get", "walk", "boot", "put", "put_entry", "rm"} =>
        Sound(fat, dir) /\ AllWhole(fat, dir, LiveSlots(dir))

Running ==
    [idle |-> Op, mkfs |-> {"mkfs"}, put |-> {"put"}, put_entry |-> {"put"}, put_fat |-> {"put"},
     rm |-> {"rm"}, rm_entry |-> {"rm"}, get |-> {"get"}, walk |-> {"ls", "putboot"},
     boot |-> {"putboot"}]

(* At every instant of every command each file is whole, where the command *)
(* has not begun to take it apart or not finished putting it together.     *)
FilesInv ==
    fails = 0 =>
        /\ job.op \in Running[pc]
        /\ PutFiles /\ RmFiles /\ GetFiles /\ RestFiles /\ GetFaithful
=============================================================================
