-------------------------------- MODULE Booter --------------------------------
(***************************************************************************)
(* booter/booter.c: the machine around module BootFs.  main counts down,   *)
(* takes the boot parameters apart, mounts, shows a message and loads the  *)
(* kernel, section after section, into physical memory behind a window of  *)
(* one page; whenever something fails the user gets a command line, and    *)
(* "boot" goes back to the boot parameters.                                *)
(*                                                                         *)
(* A word of a command line is [abs, path, num]: as a path, whether it     *)
(* starts with a slash and its names; as a number, its first character     *)
(* less '0' in 8 bits.  Three cells of a file make a section's header:     *)
(* flag, length and address.                                               *)
(***************************************************************************)
EXTENDS BootFs

CONSTANTS PSZ,        \* cells of a page (0x2000)
          CMDAT,      \* where the kernel looks for its command line (0x88)
          FxCells,    \* the cells of FX$, and of what the user types behind fx
          Fx,
          Bounce,     \* the cells of the bounce routine
          BootVars,   \* values BT$ may have, sequences of words; <<>> when unset
          Typed,      \* commands the user may type: sequences of words
          Message,    \* the word "/boot/boot.msg"
          SECOND, TIMEMOD, Timers,  \* ticks of a second (60), what a uint8_t
                      \* wraps at (256), values of the 16-bit timer at the start
          MaxFaults, MaxReads,  \* bounds: failing transactions, which of the
                      \* first MaxReads transactions of a handler may fail,
          MaxTyped    \* and the commands the user types

Word == [abs : BOOLEAN, path : Seq(Names), num : 0..255]

ASSUME CellsFit == BSZ >= 3 /\ PSZ \in Nat /\ PSZ >= BSZ
ASSUME BooterAssumption ==
    /\ CMDAT \in Nat /\ {FxCells, Fx, Bounce} \subseteq Seq(Nat)
    /\ BootVars \subseteq Seq(Word) /\ Typed \subseteq Seq(Word) /\ Message \in Word
    /\ SECOND \in Nat /\ TIMEMOD \in Nat \ {0} /\ Timers \subseteq Nat
    /\ MaxFaults \in Nat /\ MaxReads \in Nat /\ MaxTyped \in Nat

BTTO == 3
PRE  == 0
HSZ  == 3

VARIABLES
    pc,        \* where main is
    f,         \* the device and the open file (module BootFs)
    cd, mountf,
    boot_file, cmd_line, drive_no, part_no,
    togo, timer,
    mem,       \* physical memory, as far as it was written: address -> cell
    win,       \* the window: paddr, and mleft, the cells to the page's end
    h, todo,   \* the section being loaded: its header and what is missing
    err,       \* the error of the last boot, 0 when there was none
    cdbad,     \* for the properties: a failure went unseen when cd was set
    faults, typed

vars == <<pc, f, cd, mountf, boot_file, cmd_line, drive_no, part_no, togo, timer,
          mem, win, h, todo, err, cdbad, faults, typed>>
params == <<boot_file, cmd_line, drive_no, part_no>>
clock  == <<togo, timer>>
loader == <<mem, win, h, todo>>

Init ==
    /\ pc = "start" /\ f = NoFile /\ cd = ROOT /\ mountf = FALSE
    /\ boot_file \in BootVars /\ cmd_line = FxCells /\ drive_no = 0 /\ part_no = 0
    /\ togo = BTTO /\ timer \in Timers
    /\ mem = <<>> /\ win = [paddr |-> 0, mleft |-> 0] /\ h = <<PRE, 0, 0>> /\ todo = 0
    /\ err = 0 /\ cdbad = FALSE /\ faults = 0 /\ typed = 0

(***************************************************************************)
(* A handler makes its transactions with f; one of them may fail.  With    *)
(* Handler(Op, Then) the record f becomes what Op makes of it, a fault is  *)
(* counted if it came about, and Then says what the result means.          *)
(***************************************************************************)
Ks == IF faults < MaxFaults THEN 0..MaxReads ELSE {0}
Handler(Op(_), Then(_)) ==
    \E k \in Ks :
      \E res \in {Op([f EXCEPT !.bad = k, !.unseen = FALSE])} :
        /\ k > 0 => res.f.bad = 0
        /\ faults' = IF k > 0 THEN faults + 1 ELSE faults
        /\ f' = [res.f EXCEPT !.bad = 0]
        /\ Then(res)

-----------------------------------------------------------------------------
(***************************************************************************)
(* main: the countdown.                                                    *)
(***************************************************************************)
Go(label) == pc' = label

\* getbas: without BT$ there is nothing to wait for.
Begin ==
    /\ pc = "start" /\ Go(IF boot_file = <<>> THEN "cmd" ELSE "count")
    /\ UNCHANGED <<f, cd, mountf, params, clock, loader, err, cdbad, faults>>

\* The end of a second is kept in a uint8_t, so there is nothing to wait for
\* either when the timer stands past it.
Deadline == (timer + SECOND) % TIMEMOD
WaitSecond ==
    /\ pc = "count" /\ togo > 0
    /\ togo' = togo - 1
    /\ timer' = IF Deadline > timer THEN Deadline ELSE timer
    /\ UNCHANGED <<pc, f, cd, mountf, params, loader, err, cdbad, faults>>

\* A key is seen only while there is something to wait for.
KeyDown ==
    /\ pc = "count" /\ togo > 0 /\ Deadline > timer
    /\ \E key \in {"cmd", "again"} : Go(key)
    /\ UNCHANGED <<f, cd, mountf, params, clock, loader, err, cdbad, faults>>

CountedDown ==
    /\ pc = "count" /\ togo = 0 /\ Go("again")
    /\ UNCHANGED <<f, cd, mountf, params, clock, loader, err, cdbad, faults>>

-----------------------------------------------------------------------------
(***************************************************************************)
(* main: again.  strtok cuts boot_file after its first word and nobody     *)
(* mends it: the second time round there is no driver, drive or partition  *)
(* any more, and what they set the first time stays.                       *)
(***************************************************************************)
Dw(w) == ~w.abs /\ w.path = <<"dw">>

\* set_driver knows one driver; an unknown name changes nothing.
set_driver(w) == Dw(w)

Again ==
    /\ pc = "again"
    /\ LET n  == Len(boot_file)
           ok == n < 2 \/ set_driver(boot_file[2])
           part == IF n >= 4 THEN boot_file[4].num ELSE part_no
       IN  /\ boot_file' = IF n = 0 THEN <<>> ELSE <<boot_file[1]>>
           /\ Go(IF ok THEN "mount" ELSE "cmd")
           /\ drive_no' = IF ok /\ n >= 3 THEN boot_file[3].num ELSE drive_no
           /\ part_no'  = IF ~ok \/ n < 3 THEN part_no ELSE IF part > 4 THEN 0 ELSE part
    /\ UNCHANGED <<f, cd, mountf, cmd_line, clock, loader, err, cdbad, faults>>

\* What mount does to cd and mountf.
Mounted(ok) ==
    /\ mountf' = ok
    /\ cd' = IF ok THEN ROOT ELSE cd
    /\ cdbad' = (cdbad /\ ~ok)

MountIt ==
    /\ pc = "mount"
    /\ Handler(LAMBDA x : mount(x, drive_no, part_no),
               LAMBDA res : Mounted(res.ok) /\ Go(IF res.ok THEN "msg" ELSE "cmd"))
    /\ UNCHANGED <<params, clock, loader, err>>

ShowMessage ==
    /\ pc = "msg" /\ Go("open")
    /\ Handler(LAMBDA x : [f |-> cat(x, cd, Message)], LAMBDA res : TRUE)
    /\ UNCHANGED <<cd, mountf, params, clock, loader, err, cdbad>>

-----------------------------------------------------------------------------
(***************************************************************************)
(* boot.  Memory is written through the window: the cells up to the end of *)
(* the page, then mseek puts the window on the next one.                   *)
(***************************************************************************)
\* Mutant: the address is not cut down to an offset in its page.
mseek_whole(addr) == [paddr |-> addr, mleft |-> PSZ - addr]
mseek(addr) == [paddr |-> addr, mleft |-> PSZ - (addr % PSZ)]
Advance(w, n) == [paddr |-> w.paddr + n, mleft |-> w.mleft - n]
Cells(addr, s) == [a \in addr..(addr + Len(s) - 1) |-> s[a - addr + 1]]
Over(m, old) == [a \in DOMAIN m \cup DOMAIN old |-> IF a \in DOMAIN m THEN m[a] ELSE old[a]]
Least(a, b) == IF a < b THEN a ELSE b

\* The memory and the window after cells s, page by page.
MwritePart(acc) ==
    LET w == IF acc.win.mleft = 0 THEN mseek(acc.win.paddr) ELSE acc.win
        n == Least(w.mleft, Len(acc.s))
    IN  [mem |-> Over(Cells(w.paddr, SubSeq(acc.s, 1, n)), acc.mem),
         win |-> Advance(w, n), s |-> SubSeq(acc.s, n + 1, Len(acc.s))]
More(acc) == IF acc.s = <<>> THEN acc ELSE MwritePart(acc)
mwrite(m, w, s) ==
    LET After[k \in 0..Len(s)] ==
          IF k = 0 THEN [mem |-> m, win |-> w, s |-> s] ELSE More(After[k - 1])
    IN  After[Len(s)]

\* Mutant: a boot that failed is tried again at once.
FailsAgain(no) == Go("again") /\ err' = no

\* boot failed: the user is told the error, and gets the command line.
Fails(no) == Go("cmd") /\ err' = no

\* A word that is not there is read through a null pointer, at address 0,
\* which is taken to hold 0: no number, and the path of cd.
NoWord == [abs |-> FALSE, path |-> <<>>, num |-> 0]
Kernel == IF boot_file = <<>> THEN NoWord ELSE boot_file[1]

OpenKernel ==
    /\ pc = "open"
    /\ Handler(LAMBDA x : open(x, cd, Kernel),
               LAMBDA res : IF res.ok THEN Go("header") /\ UNCHANGED err ELSE Fails(2))
    /\ UNCHANGED <<cd, mountf, params, clock, loader, cdbad>>

\* From here on a failure nobody saw stays with the open file.
Loading(Op(_), Then(_)) ==
    \E k \in Ks \intersect {0, 1} :
      \E res \in {Op([f EXCEPT !.bad = k])} :
        /\ k > 0 => res.f.bad = 0
        /\ faults' = IF k > 0 THEN faults + 1 ELSE faults
        /\ f' = [res.f EXCEPT !.bad = 0]
        /\ Then(res)

\* One iread, so a header must lie in one block.
ReadHeader ==
    /\ pc = "header"
    /\ Loading(LAMBDA x : iread(x, HSZ),
               LAMBDA res :
                 IF Len(res.got) # HSZ
                 THEN Fails(3) /\ UNCHANGED <<h, todo, win>>
                 ELSE /\ h' = res.got /\ UNCHANGED err
                      /\ IF res.got[1] # PRE
                         THEN Go("jump") /\ UNCHANGED <<todo, win>>
                         ELSE /\ todo' = res.got[2] /\ win' = mseek(res.got[3])
                              /\ Go("section"))
    /\ UNCHANGED <<cd, mountf, params, clock, mem, cdbad>>

SectionDone ==
    /\ pc = "section" /\ todo = 0 /\ Go("header")
    /\ UNCHANGED <<f, cd, mountf, params, clock, loader, err, cdbad, faults>>

\* CNTL stops the loading.
Interrupt ==
    /\ pc = "section" /\ todo > 0 /\ Fails(0)
    /\ UNCHANGED <<f, cd, mountf, params, clock, loader, cdbad, faults>>

\* Mutant: what is left of the block before is forgotten.
DirectAlways == Least(Least(todo, win.mleft), BSZ) = BSZ

\* A whole block, nothing left of the one before, and room in the page:
\* the device writes to memory itself.
Direct == Least(Least(todo, win.mleft), BSZ) = BSZ /\ f.left = 0

ReadDirect ==
    /\ pc = "section" /\ todo > 0 /\ Direct
    /\ IF f.spos = f.epos
       THEN Fails(7) /\ UNCHANGED <<f, loader, faults>>
       ELSE Loading(LAMBDA x : dev_read([x EXCEPT !.spos = @ + 1], bmap(x), Zero),
                    LAMBDA res :
                      IF ~res.ok
                      THEN Fails(6) /\ UNCHANGED loader
                      ELSE /\ mem' = Over(Cells(win.paddr, res.got.bytes), mem)
                           /\ win' = Advance(win, BSZ) /\ todo' = todo - BSZ
                           /\ UNCHANGED <<pc, err, h>>)
    /\ UNCHANGED <<cd, mountf, params, clock, cdbad>>

ReadBuffered ==
    /\ pc = "section" /\ todo > 0 /\ ~Direct
    /\ Loading(LAMBDA x : iread(x, todo),
               LAMBDA res :
                 IF res.got = <<>>
                 THEN Fails(4) /\ UNCHANGED <<mem, win, todo>>
                 ELSE LET w == mwrite(mem, win, res.got)
                      IN  /\ mem' = w.mem /\ win' = w.win
                          /\ todo' = todo - Len(res.got)
                          /\ UNCHANGED <<pc, err>>)
    /\ UNCHANGED <<cd, mountf, params, clock, h, cdbad>>

\* The bounce routine, the entry point behind it, the command line; then the
\* kernel runs.
Jump ==
    /\ pc = "jump" /\ Go("gone")
    /\ LET a == mwrite(mem, mseek(0), Bounce \o <<h[3]>>)
           b == mwrite(a.mem, mseek(CMDAT), cmd_line)
       IN  mem' = b.mem /\ win' = b.win
    /\ UNCHANGED <<f, cd, mountf, params, clock, h, todo, err, cdbad, faults>>

-----------------------------------------------------------------------------
(***************************************************************************)
(* docmd.  A command is typed, looked up and obeyed; a first word it does  *)
(* not know changes nothing, nor do ls, cat and cd when nothing is         *)
(* mounted, mount with a number that is too large, or bt and fx alone.     *)
(***************************************************************************)
Says(line, name) == Len(line) > 0 /\ ~line[1].abs /\ line[1].path = <<name>>

Prompt(line, name) == pc = "cmd" /\ Says(line, name)

DoLs(line) ==
    /\ Prompt(line, "ls") /\ mountf
    /\ Handler(LAMBDA x : [f |-> dir(x, cd)], LAMBDA res : TRUE)
    /\ UNCHANGED <<pc, cd, mountf, params, clock, loader, err, cdbad>>

DoCat(line) ==
    /\ Prompt(line, "cat") /\ mountf
    /\ Handler(LAMBDA x : [f |-> cat(x, cd, IF Len(line) > 1 THEN line[2] ELSE NoWord)],
               LAMBDA res : TRUE)
    /\ UNCHANGED <<pc, cd, mountf, params, clock, loader, err, cdbad>>

\* Mutant: docd does not look whether it is a directory.
ChDirBlind(res) ==
    IF res.ok THEN cd' = res.no /\ cdbad' = res.f.unseen
    ELSE UNCHANGED <<cd, cdbad>>

\* cd moves to what a word names when that is a directory.
ChDir(res) ==
    IF res.ok /\ res.f.i.dir THEN cd' = res.no /\ cdbad' = (cdbad \/ res.f.unseen)
    ELSE UNCHANGED <<cd, cdbad>>

DoCd(line) ==
    /\ Prompt(line, "cd") /\ mountf
    /\ IF Len(line) = 1
       THEN cd' = ROOT /\ cdbad' = FALSE /\ UNCHANGED <<f, faults>>
       ELSE Handler(LAMBDA x : open(x, cd, line[2]), ChDir)
    /\ UNCHANGED <<pc, mountf, params, clock, loader, err>>

Arg(line, k) == IF Len(line) >= k THEN line[k].num ELSE 0

\* mount needs a driver, and does not mind which.
DoMount(line) ==
    /\ Prompt(line, "mount") /\ Len(line) > 1
    /\ Arg(line, 3) <= 9 /\ Arg(line, 4) <= 4
    /\ Handler(LAMBDA x : mount(x, Arg(line, 3), Arg(line, 4)), LAMBDA res : Mounted(res.ok))
    /\ UNCHANGED <<pc, params, clock, loader, err>>

DoPart(line) ==
    /\ Prompt(line, "part")
    /\ Handler(LAMBDA x : [f |-> dopart(x)], LAMBDA res : TRUE)
    /\ UNCHANGED <<pc, cd, mountf, params, clock, loader, err, cdbad>>

\* bt with words sets boot_file to all of them.
DoOverride(line) ==
    /\ Prompt(line, "bt") /\ Len(line) > 1
    /\ boot_file' = Tail(line)
    /\ UNCHANGED <<pc, f, cd, mountf, cmd_line, drive_no, part_no, clock, loader, err,
                   cdbad, faults>>

\* fx with words sets cmd_line.
DoFx(line) ==
    /\ Prompt(line, "fx") /\ Len(line) > 1
    /\ cmd_line' = Fx
    /\ UNCHANGED <<pc, f, cd, mountf, boot_file, drive_no, part_no, clock, loader, err,
                   cdbad, faults>>

DoBoot(line) ==
    /\ Prompt(line, "boot") /\ Go("again")
    /\ UNCHANGED <<f, cd, mountf, params, clock, loader, err, cdbad, faults>>

DoExit(line) ==
    /\ pc = "cmd" /\ (Says(line, "exit") \/ Says(line, "quit")) /\ Go("exited")
    /\ UNCHANGED <<f, cd, mountf, params, clock, loader, err, cdbad, faults>>

docmd ==
    /\ typed < MaxTyped /\ typed' = typed + 1
    /\ \E line \in Typed :
         \/ DoLs(line) \/ DoCat(line) \/ DoCd(line) \/ DoMount(line) \/ DoPart(line)
         \/ DoOverride(line) \/ DoFx(line) \/ DoBoot(line) \/ DoExit(line)

boot ==
    \/ OpenKernel \/ ReadHeader \/ SectionDone \/ Interrupt \/ ReadDirect \/ ReadBuffered
    \/ Jump

main ==
    /\ Begin \/ WaitSecond \/ CountedDown \/ Again \/ MountIt \/ ShowMessage \/ boot
    /\ UNCHANGED typed

Next == main \/ (KeyDown /\ UNCHANGED typed) \/ docmd

Spec == Init /\ [][Next]_vars

\* The program runs; the user need not type.  This is WF_vars(main) with what
\* enables main written out: it always has a next step until it waits for a
\* command, or is left.
Running == pc \notin {"cmd", "gone", "exited"}
FairSpec == Spec /\ ([]<>~Running \/ []<><<Running>>_vars)

-----------------------------------------------------------------------------
(***************************************************************************)
(* What a disk says without the program: a file's inode and cells, the     *)
(* inode a path names, the memory a kernel file describes, and whether a   *)
(* partition can be mounted with the MBR looked for at block off.          *)
(***************************************************************************)
At(x, n) == Block(x.drive, x.part_offset + n)
InodeOf(x, no) == At(x, 2 + no \div IPB).inodes[(no % IPB) + 1]
BlockOf(x, i, k) == At(x, IF k <= NDirect THEN i.addr[k] ELSE At(x, i.ind).ptrs[k - NDirect])
FileCells(x, i) ==
    [n \in 1..(i.blocks * BSZ) |-> BlockOf(x, i, (n - 1) \div BSZ + 1).bytes[((n - 1) % BSZ) + 1]]

\* The first block of a directory that has a name says which inode it is.
Having(x, i, name) == {k \in 1..i.blocks : Match(BlockOf(x, i, k).ents, name) # None}
Named(x, i, name) ==
    IF Having(x, i, name) = {} THEN None
    ELSE Match(BlockOf(x, i, Min(Having(x, i, name))).ents, name)
Resolved(x, dir_no, w) ==
    LET Upto[k \in 0..Len(w.path)] ==
          IF k = 0 THEN IF w.abs THEN ROOT ELSE dir_no
          ELSE IF Upto[k - 1] = None THEN None ELSE Named(x, InodeOf(x, Upto[k - 1]), w.path[k])
    IN  Upto[Len(w.path)]

\* The kernel's cells s, section by section: where the next header starts,
\* the memory the sections before it make, a later one over an earlier, and,
\* at the last header, how they end.
NextSection(s, at) ==
    LET p    == at.p
        next == p + HSZ + s[p + 1]
    IN  IF at.ends # "more" THEN at
        ELSE IF p + HSZ - 1 > Len(s) THEN [at EXCEPT !.ends = "no header"]
        ELSE IF s[p] # PRE THEN [at EXCEPT !.ends = "well", !.entry = s[p + 2]]
        ELSE IF next - 1 > Len(s) THEN [at EXCEPT !.ends = "truncated"]
        ELSE [at EXCEPT !.p = next,
                        !.mem = Over(Cells(s[p + 2], SubSeq(s, p + HSZ, next - 1)), @)]
NoSection == [p |-> 1, mem |-> <<>>, entry |-> 0, ends |-> "more"]
Sections(s) ==
    LET After[k \in 0..(Len(s) + 1)] ==
          IF k = 0 THEN NoSection ELSE NextSection(s, After[k - 1])
    IN  After
Image(s) == Sections(s)[Len(s) + 1]
Headers(s) == {Sections(s)[k].p : k \in 0..(Len(s) + 1)}
Straddles(p) == ((p - 1) % BSZ) + HSZ > BSZ

\* The kernel's file.
KernelNo == Resolved(f, cd, Kernel)
KernelCells == FileCells(f, InodeOf(f, KernelNo))

Mounts(d, part, off) ==
    LET b == Block(d, off)
        o == IF ~b.mbr THEN 0 ELSE IF part # 0 THEN b.part[d] ELSE off
    IN  d \in DOMAIN Disks /\ (b.mbr \/ part = 0) /\ Block(d, o + 1).super

-----------------------------------------------------------------------------
(***************************************************************************)
(* Properties.                                                             *)
(***************************************************************************)
\* The variables have their types: the partition is one of an MBR's four or
\* none (booter.c:806), the window never has more cells than a page.
TypeOK ==
    /\ pc \in {"start", "count", "cmd", "again", "mount", "msg", "open", "header",
               "section", "jump", "gone", "exited"}
    /\ f.left \in 0..BSZ /\ f.spos \in 0..f.epos /\ f.drive \in 0..255
    /\ mountf \in BOOLEAN /\ cd \in Nat /\ drive_no \in 0..255 /\ part_no \in 0..4
    /\ togo \in 0..BTTO /\ timer \in Nat /\ err \in {0, 2, 3, 4, 6, 7}
    /\ win.mleft \in 0..PSZ /\ todo \in Nat /\ faults \in 0..MaxFaults /\ typed \in 0..MaxTyped

\* When the kernel is started, memory holds every cell its file's sections
\* define, the bounce routine with the entry point, and the command line
\* (boot, booter.c:496-575: direct reads, buffered ones and the window's page
\* changes together lose, shift or repeat nothing).
Loaded ==
    pc = "gone" /\ ~f.unseen =>
      LET img  == Image(KernelCells)
          want == Over(Cells(CMDAT, cmd_line), Over(Cells(0, Bounce \o <<img.entry>>), img.mem))
      IN  /\ img.ends = "well"
          /\ \A a \in DOMAIN want : a \in DOMAIN mem /\ mem[a] = want[a]

\* boot gives up only for a reason the file or the device has: no such file
\* (2), a header that is missing or lies across two blocks (3), a section
\* longer than the file (4, 7), a device that failed (6) (booter.c:501-547).
Reason(no) ==
    CASE no = 2 -> KernelNo = None
      [] no = 3 -> \/ Image(KernelCells).ends = "no header"
                   \/ \E p \in Headers(KernelCells) : Straddles(p)
      [] no \in {4, 7} -> Image(KernelCells).ends = "truncated"
      [] no = 6 -> faults' > faults
      [] OTHER -> TRUE
FailsForReason ==
    [][(pc \in {"open", "header", "section"} /\ pc' = "cmd" /\ ~f'.unseen) => Reason(err')]_vars

\* A mount that fails although the device answered leaves the booter as able
\* to mount as it was when it started: what part_offset the mount before left
\* decides nothing a second time (mount, booter.c:402-429).
RetryWorks ==
    [][(pc = "mount" /\ pc' = "cmd" /\ faults' = faults) =>
         (Mounts(drive_no, part_no, f'.part_offset) <=> Mounts(drive_no, part_no, 0))]_vars

\* As long as a file system is mounted, the current directory is a directory
\* of that file system, of the disk and at the offset that are read from
\* (docd, booter.c:630-649, with mount's reset of cd).
CdIsDir == mountf /\ ~cdbad => InodeOf(f, cd).dir

\* A boot that was begun ends: the kernel runs or the user has the command
\* line, whatever the file and the device are like (main, booter.c:779-825).
BootEnds == pc = "again" ~> pc \in {"cmd", "gone"}
=============================================================================
