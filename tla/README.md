# A verification project for fip

fip is a collection of small programs for Fuzix on the Tandy Color Computer: a
disk-image tool, a DriveWire server, a boot loader, a compressor, a `useradd`, a
widget toolkit and others.  They are separate programs that share no code; what
connects them is data (disk images) and one protocol (DriveWire, between the boot
loader and the server).  This directory holds TLA+ models of those with state
worth checking, TLC runs on small instances, and TLAPS proofs.

## Inventory

| Component | State | Operations | What is hard | Properties that make it correct |
|---|---|---|---|---|
| `decb/decb.c`, RSDOS image tool | image: FAT, directory, granules; a process's copy of the FAT and of one entry | mkfs, ls, get, put, rm, putboot, getboot (map, label) | data, entry and FAT are separate writes; the disk fills up; sizes at sector boundaries; chains followed without a limit | files are disjoint chains; nothing is lost by a crash; get returns what was put; every command ends |
| `lwwire/lwwire.c`, DriveWire server | open images; place in the protocol | an opcode loop with a handler each | no framing, no timeout; bytes lost | in step with the client; only writes what it was asked to |
| `booter/dw.c` + `dw_ll.s` + `dwread/dwwrite`, DriveWire client | drive number; request buffer | dw_init, dw_read | timeouts against late answers | a read that returns 0 is right; calls come back |
| `booter/booter.c`, boot loader | mounted partition; one open inode with its buffer; memory window; command line | mount, path lookup, iread, boot, command loop, retry | state left over between mounts and retries; unchecked read errors; block boundaries | a kernel is loaded whole or not at all; a retry starts afresh |
| `uncompress/`, LZW encoder and decoder | dictionary, code width, bit buffers | add, clear, widen, get/put a symbol | the two dictionaries move out of phase; the dictionary is full | decode after encode is the identity |
| `util/useradd.c` | passwd and group files, their `.tmp` and `.bak` | allocate ids, update files, groups, home, mail | crash between renames; no locks; iterating a file while rewriting it | a user is added once, to each group; no other entry is lost |
| `snazzy/`, widgets | widget tree, one global iterator, dirty flags | iterate, pack, draw, select, input | callbacks that restart the iterator | all dirty widgets are drawn |
| `slz/slz.c`, LZSS | history window | pack, unpack | window wrap, lengths at their limits | unpack after pack is the identity |
| `firc/`, IRC client | line buffers, resolver | input, server lines, DNS query | buffers at their limits, lost answers | lines are neither split wrongly nor wedged |
| `os9sim/`, OS-9 runner | break, registers | memory calls, path parsing, system calls | 16-bit arithmetic | memory stays inside the process |
| `bfc/`, Forth-like compiler | dictionary, code, control stack | words | nesting | balanced control flow |

`cbe`, `tcl/picol.c`, `util/xxd.c`, `decb/romfs.c`, `decb/detoken.c`, the scripts and
the Makefiles are not modelled: third-party code, one-pass filters, a hardware
benchmark, and data.

## Modules

| Program | Modules | Composed of | Status |
|---|---|---|---|
| decb | `Decb`, `DecbFiles`, `FileStore`, `DecbInv`, `DecbFilesInv`, `DecbProofs`, `DecbFilesProofs`, `MCDecb` | `DecbFiles` extends `Decb` and instantiates `FileStore` | modelled, checked, proved |
| DriveWire | `Lwwire`, `DriveWire`, `DriveWireInv`, `DriveWireProofs`, `DriveWireSync`, `MCDriveWire` | `DriveWire` is the client and the line on top of the server `Lwwire` | modelled, checked, proved |
| useradd | `EtcFiles`, `UseraddArgs`, `UserDefaults`, `Useradd`, `UseraddInv`, `UseraddProofs`, `MCUseradd` | file system, options, then the two halves of `main`, run by several processes | modelled, checked; proved: the -D half and the home directories |
| booter | `BootFs`, `Booter`, `BooterInv`, `BooterProofs`, `MCBooter` | `BootFs` reads the file system, `Booter` is `main`, the commands and the loader | modelled, checked, proved |
| compress, uncompress | `Lzw`, `Compress`, `Uncompress`, `LzwInv`, `UncompressProofs`, `MCUncompress` | `Uncompress` extends `Compress` and reads what it wrote | modelled, checked, proved |

`Recursion` holds what several proof modules need: induction on numbers and the
existence of recursively defined functions.

Not begun: proofs about the tables of useradd, whose properties stay with TLC; modules for the
snazzy iterator, slz, the buffers of firc, the memory calls of os9sim, and bfc.

## decb: `Decb`, `DecbFiles`, `FileStore`, `DecbInv`, `DecbFilesInv`

`Decb` models one image and the invocations that run on it one after another.

* `fat`, `dir`, `gran` are the image.  `mfat`, `entry`, `off`, `x`, `src` are the
  globals and locals of the running process (`fat[]`, `entry`, `entry_off`, the
  granule cursor, what is left of the host file); `dst` is the host file `get`
  writes.  `pc` says where the process is, `job` which command it is, `status` how the last one
  ended.  `fails` counts the processes that died.
* Every action ends at one `write` to the image or is one turn of a loop over a
  chain: `MkfsWrite` and `MkfsSaveFat`; `PutOpen`, `PutFull`, `PutTail`,
  `PutSaveEntry`, `PutSaveFat`; `RmOpen`, `RmDelchain`, `RmSaveFat`,
  `RmSaveEntry`; `GetOpen`, `GetNext`, `GetLast` with its two ways to go wrong; the
  walk over all chains that `ls` and `putboot` make; `BootWrite`, `BootSaveFat`;
  `GetBoot`.  `Refuse` is the early exit of put, get and rm.  `Fail` is a
  failing system call or a killed process: it may come after any action, and the
  image stays as it is at that point.
* A FAT byte is modelled with its value: below `FATZ` a link, `192 + n` the last
  granule with `n` sectors, 255 free.  `findgran`'s -1 becomes 255 when it is
  stored in a `uint8_t`, and the model goes on with 255 as the code does: stores
  to `fat[255]` fall outside the table (into whatever the linker put there), data
  written to granule 255 falls outside the image.
* Names are compared as `stringconv` leaves them.  `-l` is modelled (it changes
  bytes); the file type and ascii flag are not.

Two constants bound what users ask for, so that what holds can be told from what
does not: `RoomAssumed` (put is only given files that fit) and `BootHeeded`
(putboot is only called when no file is on the boot track).  They guard
`PutOpen` and `PutBoot`; the runs and theorems say which they assume.

`DecbFiles` reads the files off the image (`FileOf`: follow the chain, cut the
last granule at the remainder) and instantiates `FileStore`, which says
what a user may rely on: a set of named files, put, rm and format.  The refinement
mapping hides the file being put until its FAT is written, the file being removed
once the FAT is written, and everything while mkfs runs.

### Runs

| Run | What it checks | Bounds |
|---|---|---|
| `decb` | `TypeOK`, `FatSound` (between commands: heads and links allocated, no granule reached twice, no hidden or doubled name), `DamageWindow` (at which instants a crash can hurt a file, and which), `GetFaithful`, `ReservedKept`, `ImplementsFileStore`; `FilesInv`, the invariant of the proofs | 4 granules of two 2-byte sectors, 2 directory slots, 3 names, an empty file and one of two granules with a line end of either kind; no deaths |
| `decb_crash` | `NoLeak` (each allocated granule is reached, link by link, from a file that `find` sees, or has the place and byte of a reserved one) and `Terminates`, with one death after any write, and with a full disk | 5 one-byte granules, 2 slots, files of one and two granules and one that does not fit |
| `decb_aligned` (violation) | `GetReturnsFile`: a file with a full last sector comes back short | |
| `decb_full` (violation) | `PutStatusHonest`: put on a full disk exits 0 | |
| `decb_boot` (violation) | `BootKeepsFiles`: putboot overwrites a file it has just reported | |

The bounds let every slot be reused, a chain grow in any order of granules, the
boot track be used by a file, and both reservations be in force; three names over two slots
reach the full directory.  The names of `decb` are symmetric: no definition tells them
apart, and none of the run's properties is a liveness property.  One death is enough to leave a damaged image, on which
all later commands run.  `GetFaithful` says exactly what get does, full last
sectors included (in the run only at the end of a granule, in `GetGivesBack` anywhere), so that it can hold where `GetReturnsFile` does not.

`Terminates` assumes weak fairness of the running process's own steps: a
command that the system schedules keeps running.  Commands and deaths are not
assumed to happen.

### Proofs (`DecbProofs`, `DecbFilesProofs`)

For every geometry (`SizesAssumption`: 4 to 128 granules, at most 61 sectors each,
so that a sector count fits in six bits and is not 63, the free mark; any directory
size), any names, any host files:

* `TypeCorrect`: `Spec => []TypeOK`.  `TypeOK` is inductive as it stands.  What
  needs an argument: the sector count of the last granule stays below 63, a
  remainder below the sector size, and cursors only hold FAT bytes.
* `FatAlwaysSound`: `Spec => []FatSound`, if `RoomAssumed` and `BootHeeded`.  `FatSound` speaks of
  the FAT on the image between commands, and is not inductive: during a command
  the FAT in memory is ahead.  `SoundInv` says, for each place in each command,
  which FAT and which set of slots are `Disjoint`, with the command's own chain as an extra
  head: put's chain, which no entry names yet, and rm's, whose
  head moves as `delchain` frees it.  It also counts that the free granules suffice
  for the rest of the host file (`RoomAssumed`), which rules out 255.
* `NeverLeaks`: `Spec => []NoLeak`, if `BootHeeded`: with any number of deaths
  and with files that do not fit.  Reachability is stated without a recursive
  definition: no set of allocated granules is without a way in (a file's head, a
  link from outside the set, or a reserved granule), which the set of all lost granules
  would be.  A granule 0 or one of the boot track counts as reserved when its byte
  is the one mkfs and putboot give it; anywhere else, and with any other byte, there is no exception.
  `LeakInv` gives, for each place, the FAT that
  is `Accounted` for, with the chain in hand as one more head: a byte changes only where a
  chain begins or leads (`LeakTouch`), `delchain` frees the head and takes the
  next granule for the head (`AccountFree`), and putboot marks granules nothing
  leads to (`AccountBoot`).  The subtle part is the full disk: the granule that 255 was
  stored in looks free, is handed out again, and is still on put's own
  chain (`CursorInv`).

* `ReservedStays`: `Spec => ReservedKept`, with no assumption: also after crashes, and
  on full disks.  A reserved granule is one that no file starts at and no
  granule leads to.  `KeepInv` says that put only fills granules that are
  free on the image, and that rm's cursor never stands on a reserved
  granule and has freed none, whatever files share the chain.
* `FilesAlways`: `Spec => []FilesInv`, if `RoomAssumed` and `BootHeeded`.  `FilesInv`
  (`DecbFilesInv`) is about contents, as long as no process has died.  `SoundInv` says that chains are disjoint
  but not that they end, or what is in them.  `FilesInv` adds: each file is `Whole`
  (its chain reaches a last granule within the FAT); put's chain leads to the cursor, and
  its granules hold the first bytes of the host file (`Begun`); rm, taking its own chain
  apart, has not changed another file; get has copied its file up to the cursor.
  That a link of one file never touches another's chain is where `Disjoint` comes in.
* `GetGivesBack`: `[]GetFaithful`, and `DamageIsBrief`: `[]DamageWindow`, from `FilesInv`.
* `FileStoreImplemented`: `Spec => ImplementsFileStore`, for any number of granules, sectors,
  slots and names and any host files: `Init` maps to an empty store, each action to one
  of put, remove, format, or to a stutter.  Besides `RoomAssumed` and `BootHeeded` this
  assumes `MaxFail = 0`: after a crash a file may be lost, which `FileStore` does not allow.

A chain is a recursive function of the number of links followed.  That it exists and
what it is at each number comes from `Recursion`, and how two chains compare is shown by induction on that number.

TLC has checked `SoundInv` on the instance of `decb`, and `LeakInv` and `KeepInv` on that of
`decb_crash` as well.  Model-checked only: `Terminates` (liveness is out of the prover's reach).

## DriveWire: `Lwwire`, `DriveWire`, `DriveWireInv`

`Lwwire` is the server: `up` and `down` are the bytes on the line, `disk` the
images, `sp` its place (`op`: waiting for an opcode, `args`: for the bytes of a request,
`cksum`: for READEX's checksum, `silent`: in `lwwire_protoerror`, `exited`).
Opcodes and bytes keep their values, because a byte that arrives out of step
is taken for whatever it encodes; only the sector is shortened, from 256 bytes
(`SECZ`) to 25 in `drivewire` and to 2 in the other runs; the theorems are about 25 to 257.
`lwwire_readdata` spins until it has all its bytes, so a read is a step enabled
when they are there.  No extension is registered in `main`, so
requests for one are refused, and `lwwire_reset` has nothing to reset.

`DriveWire` adds the client.  A transaction (`Trans`) takes the bytes it wants
from the line, or gives up on some of them; `dw_cksum` is then the number of bytes missing,
which is what register Y holds.  The checksum is sent all the same, as in `read`
of `dw.c`.  `Late` lets a client give up although the bytes are on
their way; without it it gives up only when the server is `Quiet`.  The kernel's driver is not in
this repository: `CallWrite` and `CallOther` send its requests (external),
and so are the faults of the line: `Lose` (a byte, either direction), `Garble` (a
byte of an answer), `Misread` (a failing read on the host), `Leave` (hang-up).

| Run | What it checks | Bounds |
|---|---|---|
| `drivewire` | `TypeOK`; `SyncInv`, the invariant of the proofs; `InStep` and `Succeeds` as long as nothing was lost and nothing strange was sent (`Clean`); `CallsEnd` whatever happens | three calls out of all requests, unknown opcodes included; a writable, a read-only and a missing drive; blocks 0 and 2^23; one byte lost |
| `drivewire_faults` | `ReadHonest`, `WriteHonest`, `OnlyAsked`: nothing is wrong before something has failed (on a line of which the proofs know that it is `Understood`) | three calls, one byte lost, one changed, late answers; the written sector is in a block that is read |
| `drivewire_wedge` (violation) | `ReadTimesOut`: the server's comment says its reads time out | one byte lost |
| `drivewire_late` (violation) | `ZeroIsOk`: a late answer shifts all later ones | three calls, nothing lost |

Two faults and three calls are enough for a fault in a call, a call after it, and
one that sees the leftovers.  With two changed bytes the sum can cancel, so
`ReadHonest` is stated for one (`MaxNoise`).

`CallsEnd` assumes weak fairness of the server's steps and of the client's: the server polls
its input in a loop, the client polls the port and counts vertical syncs.
Deadlock is not checked in these runs: the number of calls is bounded, and a client
that has made them stops.

Not modelled: changed bytes of a request, which has no checksum, failing reads and writes of an image on the host, printing other
than the byte that goes to `lpr.log`, and the bit-banger and UART variants of the
6809 routines.

### Proofs (`DriveWireProofs`, `DriveWireSync`)

For any images, drives, blocks and data, any requests of the kernel that are
answered with as many bytes as it waits for, and any number of calls and lost bytes:

| Theorem | |
|---|---|
| `TypeCorrect` | `[]TypeOK`: bytes are bytes, sectors have `SECZ` of them, the server handles arguments only of opcodes that have some |
| `StaysInPlace` | `[]SyncInv`, the inductive invariant |
| `StaysInStep`, `CleanSucceeds` | `[]InStep` and `[]Succeeds`: on a clean line the two ends are in step and every call succeeds that can |
| `ReadsAreHonest` | `[]ReadHonest`: until a call fails, a read that returns 0 returned what is on the disk, though bytes were lost or late and one was changed |
| `WritesAreHonest`, `WritesOnlyAsked` | `[]WriteHonest` and `OnlyAsked`: a WRITE answered with 0 is on the disk, and nothing else is ever written, until a call fails |

`TypeCorrect` goes through `Typed`, which adds what a place of the client says of its
call.  The others follow from `SyncInv` (`DriveWireInv`).  None of them is inductive: `ReadHonest`
speaks of the moment when dw_read returns, and its reason lies in which bytes are on the line
and what the server will make of them.  `SyncInv` says so for each place of the
client:

* `Settled` (no call), `Waiting` (the request is on the line or being taken),
  `Answered`.  As requests may be without an answer, the server may have several of them to take
  before the client's own: `Ahead` and `Cuts` say where one ends and the next begins,
  by a set of positions, so that no recursion is needed.
* `InData`, then `InStatus`: a sector on its way, whole (`Whole`), or cut short
  (`Behind`: the checksum of an incomplete sector is still to come, and the call will fail).
  `Whole` carries the point of the checksum: one changed byte changes the sum
  (`SumChanged` in `DriveWireProofs`, by induction over the recursive function `Sum`), and the server then
  does not answer 0.
* `Deaf` and `Short`: after a loss, what is left of a request is either not an opcode the
  server answers, or the answers to all of it are too few bytes for a sector.

Where the assumption comes from: `SectorFits` (`SECZ \in 25..257`; the program has 256).  Four bytes
that are left of a request can be taken for four requests, with answers of 24 bytes in all,
which must be less than a sector; and the sum of more than 257 bytes does not
fit in the 16 bits that are sent.  That a property ends with the first failing
call is no convenience: `drivewire_late` shows what comes after.  `Understood` says that no
byte was lost, or that READEX, DWINIT and WRITE are the only requests and no WRITE contains a byte
that is an opcode with an answer or arguments: "What the checks found" tells what
happens otherwise.
`CallsEnd` and `ReadTimesOut` are liveness properties and stay with TLC.

## useradd: `EtcFiles`, `UseraddArgs`, `UserDefaults`, `Useradd`, `UseraddInv`

* `EtcFiles` is the part of the file system the program uses: `fs` is a directory
  (name to file number) and the files' contents, one member per line, with create,
  write, rename, link and unlink as `useradd` calls them (external).  A file that is
  open goes on existing without a name.  Tables are read whole: between opening
  and closing one, `pw_update` and `gr_update` do nothing else, and only
  `grp_update`'s scan is kept open, as `stream`.
* `UseraddArgs` is `get_defaults` and `process_flags`, all pure: a command line is a list of
  options, and `process_flags` folds them in order, one arm of the switch each,
  then applies the tests that follow the loop.
* `UserDefaults` has the invocations (`pc[p]`, and their variables in the record
  `r[p]`), `Start` (options, defaults, opening the files) and `set_defaults`, one action per
  library call that touches a file.
* `Useradd` is the rest of `main`: new uid and gid, the update of a table
  (`OpenTmp`, `CopyTable`, `CloseTmp`, `RenameOld`, `RenameTmp`), the scan for secondary
  groups, the home directory with the skeleton, the mail box.

`Crash` stops an invocation between any two steps.  One fault per behaviour (`MaxFaults`):
a call the code tests fails (get_defaults' and set_defaults' opening of the old defaults file
included); or one it does not look at: `fclose` on a full disk shortens a table, and `copy_tree`
goes on when the open, mkdir, opendir or write for a path of the skeleton has failed (`CopyFails`).
`gr_dup` (`useradd.c:158`) counts members in a variable it never set, so it returns the first
few of them, all, or all and what lies beyond (`Garbage`), or dies (`GrDupDies`).  That the
garbage may contain the separators of the table, and so more than one bad member, is not modelled.

The run `useradd` gives ten commands to two invocations, one after the other or with a
-D in the middle of the other (`Overlap`).  Two additions at once are left out on
purpose: the locks are empty macros (`useradd.c:96`), so one account
replaces the other, and no property of the tables would hold.  Two commands suffice for an update
that runs into what an earlier one, complete or not, has left.

| Property | About |
|---|---|
| `AccountsKept`, `GroupsKept` | every account and group is kept over rewriting, and none is there that was not made by an addition which succeeded or could not take it back; an added user has the group it asked for; members change only in groups given with -G, where `gr_dup` may drop them or add garbage |
| `HomeReady` | a new home belongs to its user, with the whole skeleton but for what a failed call was for, or lies below it |
| `Recoverable` | after a crash or a full disk each account is in one of `passwd`, `.tmp`, `.bak` (and what is excepted) |
| `DefaultsNeverLost`, `OthersKept` | -D: a whole defaults file always exists; lines it does not know stay until a -D fails to open the old file |
| `RoundTrip` | what -D set is read back, except for a key with two lines, which goes back to what the old file said |
| `EtcInv` | the invariant of the proofs |
| `AnyOrder` | options in another order give the same (a comment in the code says so) |
| `Ends` | from some time on nothing runs: every invocation comes to its end, under weak fairness of the invocations' steps |

`AnyOrder` is evaluated on all lists of up to three of 28 options.  `Ends`
depends on the C library: `gr_update` calls `endgrent` while `grp_update` scans with
`getgrent`.  The model takes `getgrent` on a closed stream to return NULL, so
the scan stops after the first group; if it opened the file anew, the scan would never end.

The file numbers of `EtcFiles` are bounded (`Files`); a file is made when there is a number
free (`Room`), which in the run there always is.

### Proofs (`UseraddProofs`)

Assumed: the names are those of the tables, of the defaults file and its backup, and the
temporary ones, all different (`NamesAssumption`); there are at least the three first files
(`FilesAssumption`); option lists and first contents are sequences (`CommandsAssumption`,
`LinesAssumption`); the tree of a skeleton has the directory of each path (`SkelsAssumption`).  Commands, the number of
invocations and of faults, and which commands run together (`Overlap`) are
arbitrary: unlike in the run, two additions may interleave, and a -D with both.

* `EtcKept`: `Spec => [](Typed /\ EtcInv)`.  `EtcInv` says that a file of -D has one name
  only, but that the defaults file may be its own backup (`Apart`); that each new defaults file
  belongs to one invocation, which alone has it open, until it is moved into
  place (`Owned`, `OneOwner`); what it holds at each of these steps (`NewOK`: nothing before the
  flush, after it complete lines with all old unknown ones if the old file could be opened, `Good`); and that
  a file number without a name or a descriptor is empty (`Clean`), which is why a file that
  is made anew has nothing of an old one in it.  Two updates of a table may share a
  descriptor or lose each other's file; the lemmas show that even so they
  never reach a file of -D (`MoveFine`, `CloseTmpFine`).
* `DefaultsNeverLostHolds`: `Spec => DefaultsNeverLost` and `OthersKeptHolds`: `Spec => OthersKept`, step by
  step from `EtcInv`.  What `set_defaults` writes is a fold over the old lines; that it has every
  key, and the unknown lines of the old file in their order, is shown by induction on how many were read.
  `OthersKept` ends where a `set_defaults` could not open the old file (`Unread`): what it then moves into place
  has none of those lines.
* `HomeReadyHolds`: `Spec => []HomeReady`, from `HomeInv` (`HomeKept`): two invocations never both own the same
  home directory (`OwnHomes`, because `mkdir` refuses one that is there), and each path that was dealt with is there,
  owned by the user and whole, or a call failed for it or for a directory above it (`Given`, `Filled`).  That nothing of
  the skeleton is left out when no path is ready: the shortest such path would be
  (`AllCopied`).  The theorem holds without the property's condition that nothing else ran.

TLC has checked `EtcInv`, and `HomeInv` but for the types, on the instance of `useradd`.  Model-checked only:
`TypeOK`, `RoundTrip`, `Recoverable`, `AnyOrder`, and `AccountsKept` and `GroupsKept`, which hold
only as long as no two additions run together and need an account of every uid in both tables over all
updates; `Ends` is liveness.

## booter: `BootFs`, `Booter`, `BooterInv`

`BootFs` is the device and the one open file as a record `f` that the C functions
change: `drive`, `part_offset`, `buf`, the inode `i`, `idir`, `dbuf`, `left`, `spos`, `epos`.  A block is
what each reader takes it for (boot record, super block, inodes, block numbers,
directory entries, cells).  Small operators that
pass the result of a read on, `ReadInode` to `ReadIndirect` to `Opened`, follow
the order of the reads; the loops (`lookup`, `dopath`, `cat`, and `mwrite` over pages) are
recursive functions on how often they went round.

`Booter` has the rest of the program's variables and `pc`.  Main: `Begin`, the countdown
(`WaitSecond`, `KeyDown`, `CountedDown`), `Again` (the parameters), `MountIt`,
`ShowMessage`; `boot`: `OpenKernel`, `ReadHeader`, `SectionDone`, `Interrupt`, `ReadDirect`,
`ReadBuffered`, `Jump`; one action per command.  Any transaction of a handler
with the device may fail (`MaxFaults` in all, among the first `MaxReads` of a handler); `f.unseen` records, for the properties,
that the code did not look.  The properties compare with what the disk itself
says (`Resolved`, `Image`, `Mounts`), which is computed without the program.

The run `booter` has blocks of 4 cells and pages of 8, so that the kernel `k` needs every way of
reading: left-overs in the buffer, direct reads, page changes, blocks behind
the indirect one, a section over an earlier one.  `s`, `t`, `u` are a header across two
blocks and two truncated files.  Three commands (`MaxTyped`) cover a mount, a
change of directory or of kernel, and a retry.  `BootEnds` assumes that the
program goes on while it does not wait for a command; the
formula writes out what enables `main`, because TLC is slow to evaluate ENABLED of it.

`RetryWorks` says that a failing mount is not sticky.  It is not that the first
retry succeeds: after a partition was mounted, the next mount looks for the
boot record inside the partition and fails, once.

Left out: the keyboard and printing, `tick_div`, addresses that wrap at 2^16, sections
of 2^15 bytes and more.  A word that is missing is read through a null pointer (`strtok`
with `rest` NULL); the model takes the byte at address 0 to be 0.  A failing direct read
leaves memory as it was; the boot has failed then, and the next one writes those cells again.

### Proofs (`BooterProofs`)

Assumed (`DisksAssumption`, `CellsFit`, `BooterAssumption`): blocks are typed, a
block has room for a section's header and a page for a block.  How many disks there are and what is on them,
the sizes, the parameters, the commands and how often and where the device fails is
arbitrary.  The five safety properties of the run are theorems.

* `TypeOKHolds`: `Spec => []TypeOK`, from `TypeInv`, which types the device's record,
  memory and the words of a command line.  Every read keeps the position in the open file
  inside the file, through all loops (`FurtherFits`, `ReadSteps`, `WriteSteps`).
* `CdIsDirHolds`: `[]CdIsDir`, if `RootsAreDirs`: the inode 1 behind a
  super block is a directory.  `MountInv` adds what `CdIsDir` needs to be
  inductive: a mounted file system's super block is at `part_offset` + 1.
  `LookupFacts`, `DopathFacts` and `OpenFacts` say that the program's search, block by block in one
  buffer, finds what `Resolved` reads off the disk, unless a failure went unseen.
* `RetryHolds`: `Spec => RetryWorks`, if `OneMbr`: only block 0 of a disk ends like a master boot
  record.  It is needed: if the first block of a partition ended like one too, the next mount would
  look for partitions inside the partition, and could fail where the first went well.
* `LoadedHolds`: `[]Loaded`, and `FailsForReasonHolds`: `Spec => FailsForReason`.  Both come from
  `LoadInv`: while loading, the open file is the kernel's (`IsOpen`), `Pos` cells of it were handed out, and
  memory holds all sections before, and of the one being loaded exactly the cells
  up to `Pos`, at the address where the window stands (`InSection`, `Partly`).  The lemmas
  under it: `CellsOf` and `Slice`, cells of the file in terms of blocks; `IreadFacts` and `OverFacts`, what a
  buffered and a direct read hand out is the next part of the file; `MwriteFacts`, a write
  page by page is one write; `OverMore`, two writes in a row are one of both; `SectionOn`, `SectionOver`,
  `SectionCut`, a section goes on, is complete, or is longer than the file.

TLC has checked the conjunction of these invariants on the instance of `booter`, and
evaluates `RootsAreDirs` and `OneMbr` on its disks.  `BootEnds` is liveness and stays with TLC.

## compress and uncompress: `Lzw`, `Compress`, `Uncompress`, `LzwInv`

`Lzw` has the dictionary (`entry`, `nexti`, `bits`), the string of a code, and codes as bits.
`Compress` takes one byte of the text per action: `Longer` (the string is known), `AddEntry`,
`ClearDict`, `RunAway` (the string of an entry has no end), `CEnd`.  `Uncompress`
then reads the bits, one code per action (`FirstSym`, `NextSym`, `Cleared`,
`BadStream`, `EndOfFile`), in `main`'s loop over arguments with its prompt; the
output buffer, the offset in the output file and failing calls are there, but for
reads of the input that fail (`uncompress.c:96`).

In the run `lzw` there are three byte values, codes of three bits and bytes of two: four entries fill the
dictionary, as 255 do in the program, and a byte has fewer bits than a code.  The
decoder's memory allows four bits, so it could widen too early.  All texts of up to seven
bytes, and three longer ones that clear the dictionary twice or have strings of the greatest length.

| Property | About |
|---|---|
| `InStep` | every code is read in the width it was written in |
| `Decoded` | what comes back is the text, without the byte dropped at each CLEAR |
| `Grounded` | no endless string, no refused stream |
| `Fits` | strings fit the encoder's buffers (the longest does exactly) |
| `OldKept` | a file is only overwritten with -f or a yes for it |

`Decoded` and `Grounded` are about texts where w is a plain byte whenever the dictionary
is cleared, and that are not empty (`Sound`); the last section but two says what happens to the others.

### Proofs (`UncompressProofs`)

Assumed (`Widths`, `UncompressAssumption`): a code can name at least one entry, a byte has fewer bits
than a code, the decoder has memory for codes of the encoder's width, texts and
files are bytes.  Everything else is arbitrary: the number of byte values, the widths, the size of the
output buffer, how wide the decoder's codes may get, texts of any length, command lines, other files, failing calls.
All six properties of the run are theorems.

* `Types`: `[]TypeOK`, from `Typed`, which adds the shape of both dictionaries.
* `OldStays`: `[]OldKept`, with `TargetInv`: the output is a file that was agreed on.
* `WidthsAgree`: `[]InStep`, for all texts.  `sent` is read in runs, from one CLEAR to the next (`Run`).
  `EncodeInv` says where the bits of each code are in `zbits` and that no run but the last is longer
  than there is room for entries (`RunsShort`); `Decoding` that the decoder's dictionary
  has one entry less than codes of the run were read, so `Widens` can only be true
  at the code before a CLEAR, which does not come to matter.
* `StringsFit`: `[]Fits`; `TextBack`: `[]Decoded`; `AllGrounded`: `[]Grounded`.  What a code means
  depends on a dictionary that is overwritten again and again.  The proofs tie it to the text instead:
  `ends`, a history variable, is how much of the text each code brings one to; the
  m-th entry of a run is made by its m-th code, and stands for that code's piece of the text and the byte
  behind it, which is the same in both programs.  `Cut` says that every code sent stands for its piece
  under this reading, `Holds` that a dictionary agrees with it, and `Pending` that
  `w` stands for what is kept but not sent.  From `Holds` follows what `buildstr` gives, by
  induction on the entry (`Meaning`, `KnowsText`): it ends at a byte and gives that piece.
  The code that names the entry it makes (`uncompress.c:227`) is a piece that
  repeats the one before (`LeadText`).  `DecodedInv` then says that what is written is what
  the codes read so far bring, over buffered and flushed writes and offsets (`OverType`, `OutWritten`).

TLC has checked the conjunction of these invariants (`LzwInv`) on the instance of `lzw`.

## What the checks found

Five runs end in a violation, each of something the repository says of itself:
get and sector-aligned files (`decb_aligned`), put on a full disk
(`decb_full`), putboot over a file (`decb_boot`), the server's timeout
(`drivewire_wedge`) and the meaning of a 0 from the client (`drivewire_late`).
`PROJECT.json` quotes the lines.  The others have no run of their own: in the first two
the comment above `set_defaults` does promise more, but each already shows as the exception that a
property of `useradd` states (`RoundTrip`, `OthersKept`); of the rest no line of the
repository promises more, or they restrict a property that has a run.  The models behave as the code
does in all of them:

* `useradd.c:651` says "Duplicated lines are pruned".  They are copied (735): the first
  line of a key is renewed, a second one goes to the new file as it is, and `get_defaults` takes
  the last.  So -D on such a file says it has set a value that no useradd will find.
* `useradd.c:652` says "unrecognized lines are copied as is".  When `fopen` of the old file
  fails (694), for whatever reason, a fresh file without them is moved into place.

* `compress.c:271`: a full dictionary costs one byte of the text.  If `w` is
  an entry at that moment, its code means something else after the CLEAR: the
  encoder may follow a prefix in a circle (33 kB of one byte are enough; `RunAway`), and
  uncompress may print an entry it never made.
* `compress.c:264`: an empty text is compressed to one code of all ones.  With more
  than 9 bits (`compress.c:187` overrides what `myalloc` found) encoder and decoder would
  widen at different codes.
* `uncompress.c:370`: an existing output is opened without O_TRUNC, so a
  longer old file keeps its tail; `uncompress.c:216`: a file without any code gives a byte 0;
  `uncompress.c:71`: a failing write recurses between `outflush` and `myabort`.
  `uncompress.c:180`: the output file is closed, and what ends the program afterwards flushes to
  the closed descriptor: where that write fails the same recursion begins (`EndsIn`).
* `booter.c:323`: `i.i_mode & F_DIR == 0` is always 0, any file is searched like a
  directory.  `booter.c:410`: the partition is chosen with the drive number.
  `booter.c:307`: a section header across two blocks is an error.  `booter.c:789`: after
  a failure the driver, drive and partition in BT$ are gone.  `booter.c:802`: a bad
  drive number is only reported.  `booter.c:767`: the end of a second is kept in 8
  bits, so the countdown does not wait when the timer is past 255.
* `lwwire.c:338`: when the opcode of a WRITE is lost, the bytes of the sector are
  taken for requests.  A READ among them is answered with a 0 first, and the client takes that
  for the status of its WRITE.  So `ReadHonest`, `WriteHonest` and `OnlyAsked` are
  about lines where this does not happen (`Understood`).
* `useradd.c`: accounts whose id another one has replace it (277, with -o), the next uid
  wraps at 65535 to 0 (320), a failing step after the tables were changed leaves
  account and group (507, 1573), only the first of several secondary groups is updated
  (947, 993), its members are counted in a variable that is not set (158), a skeleton that
  could not be copied is not reported (349, 391), and the locks do nothing (96, 1320).

## Limits

Liveness is checked by TLC only.  What a recursive definition computes on all inputs is
proved where it is a recursive function over numbers (`Sum`, `Chain`, `buildstr`, `Shl`,
`BitsOf` and `ValueOf`, the loops of the booter, `Sections`, `Copied` and `Others`); folds are only checked.  One invocation of decb runs at a time: the
tool takes no lock, and nothing says it may be run twice on one image.

## Not modelled

* decb's `map` (prints the FAT) and `label` (one sector nobody reads back), `romfs` and
  `detoken`: filters without state between steps.
* snazzy, slz, firc, os9sim, bfc: planned, see above.  What is known to be delicate
  there: a draw callback restarts the one global iterator its caller uses
  (`snazzy.c:366`), the cursor of a text field has no limit (`snazzy.c:190`), a full
  input buffer of firc refuses newline and backspace too (`firc.c:295`), and os9sim's
  break goes through a signed int (`os9sim.c:352`).
* `tcl/picol.c` and `util/xxd.c` are third-party programs; `cbe` is a benchmark with hardware tricks;
  `boot`, `etc`, `dev`, `extra`, `usr` and the Makefiles are data and scripts.
