----------------------------- MODULE UserDefaults -----------------------------
(***************************************************************************)
(* util/useradd.c: the invocations and the files they share, and the -D    *)
(* half of the program, which writes /etc/default/useradd anew beside the  *)
(* old file and moves it into place.  The other half, which adds a user,   *)
(* is module Useradd.  Each library call that touches the files is a step; *)
(* the calls the code tests may fail, those of copy_tree and the writes of *)
(* fclose too, and an invocation may die between any two steps.            *)
(***************************************************************************)
EXTENDS UseraddArgs, FiniteSets, FiniteSetsExt, EtcFiles

CONSTANTS Procs,         \* bound: the invocations
          Commands,      \* a sequence of commands
          Overlap,       \* bound: the commands, by number, that may be given
                         \* while another invocation runs
          Lines0,        \* contents of the defaults file, <<>> for no file
          Passwd0, Group0,   \* the tables at first
          TempNames,     \* names mkstemps can make
          MaxFaults      \* bound: crashes, failing calls and short writes

USER_DEFAULTS_FILE == "useradd"
BACKUP == "useradd-"
TableNames == {"passwd", "group", "passwd.tmp", "group.tmp", "passwd.bak", "group.bak"}

\* Lines as they are read from a file.
IsSeq(s) == Len(s) \in Nat /\ s = [i \in 1..Len(s) |-> s[i]]

ASSUME NamesAssumption ==
    /\ Names = TableNames \union {USER_DEFAULTS_FILE, BACKUP} \union TempNames
    /\ TempNames \intersect (TableNames \union {USER_DEFAULTS_FILE, BACKUP}) = {}
ASSUME FilesAssumption == Files \in Nat /\ Files >= 3
ASSUME FaultsAssumption == MaxFaults \in Nat
ASSUME LinesAssumption == \A lines \in Lines0 : IsSeq(lines)
ASSUME CommandsAssumption ==
    Len(Commands) \in Nat /\ \A c \in 1..Len(Commands) : IsSeq(Commands[c].opts)

VARIABLES fs,       \* /etc: the tables, the defaults, what is beside them
          home,     \* home directories: <<base, name>> -> what is there
          mail,     \* mail boxes: name -> owner
          pc,       \* where each invocation is
          r,        \* its variables
          faults

vars == <<fs, home, mail, pc, r, faults>>

Over == {"off", "done", "dead"}
Running == {p \in Procs : pc[p] \notin Over}

\* The files some invocation has open for writing.
Open == {r[p].fd : p \in Running} \ {NoFile}
OpenBut(p) == {r[q].fd : q \in Running \ {p}} \ {NoFile}

(***************************************************************************)
(* The variables of an invocation: g the globals of process_flags; the     *)
(* lines buf it is writing to the file fd, and new_file; uid and gid as    *)
(* they end up; the update of a table (table tab, entry e, what follows    *)
(* it); stream, the lines the outer scan of grp_update has still to see;   *)
(* added, home_added; copied, what copy_tree has been at.  For the         *)
(* properties only: short, some fclose did not write everything; unread,   *)
(* set_defaults could not open the old file; failed, the paths of copy_tree *)
(* for which a call failed; alone, no other invocation ran at the same     *)
(* time.                                                                   *)
(***************************************************************************)
Idle == [g |-> Globals, buf |-> <<>>, fd |-> NoFile, new_file |-> None,
         uid |-> 0, gid |-> 0, tab |-> "passwd", e |-> <<>>,
         then |-> "done", stream |-> <<>>, added |-> FALSE, copied |-> {},
         failed |-> {}, short |-> FALSE, unread |-> FALSE, alone |-> TRUE]

Fill(f, n, lines) ==
    IF lines = <<>> THEN f
    ELSE LET made == Creat(f, n, {}) IN Write(made, made.dir[n], lines)
Empty == [dir |-> [n \in Names |-> NoFile], data |-> [i \in 1..Files |-> <<>>]]
Init ==
    /\ \E lines \in Lines0 :
         fs = Fill(Fill(Fill(Empty, "passwd", Passwd0), "group", Group0),
                   USER_DEFAULTS_FILE, lines)
    /\ home = <<>> /\ mail = <<>>
    /\ pc = [p \in Procs |-> "off"] /\ r = [p \in Procs |-> Idle]
    /\ faults = 0

Goto(p, label) == pc' = [pc EXCEPT ![p] = label]
Quit(p, status) == /\ Goto(p, "done")
                   /\ r' = [r EXCEPT ![p].g.exit = status]
Etc == <<fs, home, mail, faults>>

Defaults == Contents(fs, USER_DEFAULTS_FILE)
Groups == Contents(fs, "group")

\* What main does after process_flags: -D shows the defaults, or with -g, -b
\* or -s sets them; without -D a user is added.
Setting(g) == "D" \in g.flags /\ {"g", "b", "s"} \intersect g.flags # {}
Branch(g) ==
    IF g.exit # GoesOn \/ ("D" \in g.flags /\ ~Setting(g)) THEN "done"
    ELSE IF Setting(g) THEN "mkstemps" ELSE "name"

\* A call may fail as long as the bound allows.
Fails == faults < MaxFaults /\ faults' = faults + 1

\* fopen(n, "r") fails although the file is there.
CannotOpen(n) == Exists(fs, n) /\ Fails

\* Invocations start in the order of Procs: which is which does not matter.
\* get_defaults goes on without a file it cannot open.
Start(p) ==
    /\ pc[p] = "off" /\ \A q \in Procs : q < p => pc[q] # "off"
    /\ \E lines \in {Defaults, <<>>} :
         /\ \/ lines = Defaults /\ UNCHANGED faults
            \/ lines = <<>> /\ CannotOpen(USER_DEFAULTS_FILE)
         /\ \E c \in {k \in 1..Len(Commands) : Running = {} \/ k \in Overlap} :
              \E g \in {process_flags(Commands[c], lines, Groups)} :
                LET shown == Branch(g) = "done" /\ g.exit = GoesOn
                IN  /\ r' = [q \in Procs |->
                               IF q = p
                               THEN [Idle EXCEPT !.g = IF shown THEN Leaves(g, E_SUCCESS) ELSE g,
                                                 !.uid = g.uid, !.gid = g.gid,
                                                 !.alone = Running = {}]
                               ELSE [r[q] EXCEPT !.alone = @ /\ q \notin Running]]
                    /\ Goto(p, Branch(g))
    /\ UNCHANGED <<fs, home, mail>>

-----------------------------------------------------------------------------
(***************************************************************************)
(* set_defaults.  What it returns is the exit status of the program.       *)
(***************************************************************************)
\* A call failed: new_file is removed, or stays.
GiveUp(p, files) ==
    /\ Goto(p, "done")
    /\ r' = [r EXCEPT ![p].g.exit = 1, ![p].fd = NoFile]
    /\ fs' = Collect(files, OpenBut(p))
Removed(p) == Unlink(fs, r[p].new_file, OpenBut(p))

FreshNames == {n \in TempNames : ~Exists(fs, n)}

mkstemps(p) ==
    /\ pc[p] = "mkstemps"
    /\ \/ /\ FreshNames # {}
          /\ LET n == CHOOSE n \in FreshNames : TRUE
             IN  /\ Room(fs, n, Open)
                 /\ fs' = Creat(fs, n, Open)
                 /\ r' = [r EXCEPT ![p].new_file = n, ![p].fd = fs'.dir[n]]
          /\ Goto(p, "lines") /\ UNCHANGED faults
       \/ Fails /\ GiveUp(p, fs)
    /\ UNCHANGED <<home, mail>>

KeySet == {"GROUP", "HOME", "SHELL", "SKEL", "CREATE_MAIL_SPOOL"}
Text(key, v) == [key |-> key, num |-> FALSE, gid |-> 0, v |-> v]

\* The line that gives the current value of a key.
Current(g, key) ==
    CASE key = "GROUP" -> [key |-> key, num |-> TRUE, gid |-> g.group, v |-> None]
      [] key = "HOME"  -> Text(key, g.base)
      [] key = "SHELL" -> Text(key, g.defshell)
      [] key = "SKEL"  -> Text(key, g.skel)
      [] OTHER         -> Text(key, g.spool)

Recognised(line, done) == line.key \in KeySet /\ line.key \notin done

\* Mutant: only the lines the program knows are copied.
CopyLineKnown(g, acc, line) ==
    IF Recognised(line, acc.done)
    THEN [lines |-> Append(acc.lines, Current(g, line.key)), done |-> acc.done \union {line.key}]
    ELSE acc

\* The first line of each key is renewed, every other line copied.
CopyLine(g, acc, line) ==
    IF Recognised(line, acc.done)
    THEN [lines |-> Append(acc.lines, Current(g, line.key)), done |-> acc.done \union {line.key}]
    ELSE [acc EXCEPT !.lines = Append(@, line)]

Copied(g, lines) ==
    LET after[i \in 0..Len(lines)] ==      \* i lines
            IF i = 0 THEN [lines |-> <<>>, done |-> {}]
            ELSE CopyLine(g, after[i - 1], lines[i])
    IN  after[Len(lines)]

\* Mutant: HOME is not added.
AddButHome(g, lines, done, key) ==
    IF key \in done \union {"HOME"} THEN lines ELSE Append(lines, Current(g, key))

\* What follows the old lines: each key none of them had.
AddUnless(g, lines, done, key) ==
    IF key \in done THEN lines ELSE Append(lines, Current(g, key))

Complete(g, got) ==
    LET Add(lines, key) == AddUnless(g, lines, got.done, key)
    IN  Add(Add(Add(Add(Add(got.lines, "GROUP"), "HOME"), "SHELL"), "SKEL"), "CREATE_MAIL_SPOOL")

TooLong(lines) == \E i \in DOMAIN lines : lines[i].key = "LONG"

\* The one line a new file begins with.
Header == <<Text("#", "useradd defaults file")>>

\* A file that cannot be opened is taken for one that is not there.  A line
\* of 1023 bytes or more ends it; new_file stays behind.
CopyLines(p) ==
    /\ pc[p] = "lines"
    /\ \E unread \in BOOLEAN :
         /\ IF unread THEN CannotOpen(USER_DEFAULTS_FILE) ELSE UNCHANGED faults
         /\ LET old == IF Exists(fs, USER_DEFAULTS_FILE) /\ ~unread THEN Defaults ELSE Header
                g   == r[p].g
            IN  IF TooLong(old)
                THEN GiveUp(p, fs)
                ELSE /\ r' = [r EXCEPT ![p].buf = Complete(g, Copied(g, old)),
                                       ![p].unread = @ \/ unread]
                     /\ Goto(p, "flush") /\ UNCHANGED fs
    /\ UNCHANGED <<home, mail>>

\* fflush, fsync and fclose.
FlushNew(p) ==
    /\ pc[p] = "flush"
    /\ \/ /\ fs' = Write(fs, r[p].fd, r[p].buf)
          /\ r' = [r EXCEPT ![p].fd = NoFile, ![p].buf = <<>>]
          /\ Goto(p, "unlink") /\ UNCHANGED faults
       \/ Fails /\ GiveUp(p, Removed(p))
    /\ UNCHANGED <<home, mail>>

\* Mutant: the new file is unlinked.
UnlinkNew(p) ==
    /\ pc[p] = "unlink"
    /\ fs' = Removed(p) /\ Goto(p, "link")
    /\ UNCHANGED <<home, mail, r, faults>>

UnlinkBackup(p) ==
    /\ pc[p] = "unlink"
    /\ fs' = Unlink(fs, BACKUP, Open) /\ Goto(p, "link")
    /\ UNCHANGED <<home, mail, r, faults>>

\* Mutant: the old file is renamed, as the other half does with /etc/passwd.
MoveBackup(f, open) == Rename(f, USER_DEFAULTS_FILE, BACKUP, open)

\* The old file keeps its name and gets the backup's too.
MakeBackup(f, open) == Link(f, USER_DEFAULTS_FILE, BACKUP)

\* link refuses a name that is there again: another invocation made it.
LinkBackup(p) ==
    /\ pc[p] = "link"
    /\ \/ /\ ~Exists(fs, BACKUP)
          /\ fs' = MakeBackup(fs, Open) /\ Goto(p, "rename")
          /\ UNCHANGED <<r, faults>>
       \/ Exists(fs, BACKUP) /\ GiveUp(p, Removed(p)) /\ UNCHANGED faults
       \/ Fails /\ GiveUp(p, Removed(p))
    /\ UNCHANGED <<home, mail>>

RenameNew(p) ==
    /\ pc[p] = "rename"
    /\ \/ /\ fs' = Rename(fs, r[p].new_file, USER_DEFAULTS_FILE, Open)
          /\ Quit(p, E_SUCCESS) /\ UNCHANGED faults
       \/ Fails /\ GiveUp(p, fs)
    /\ UNCHANGED <<home, mail>>

SetDefaults(p) ==
    \/ mkstemps(p) \/ CopyLines(p) \/ FlushNew(p)
    \/ UnlinkBackup(p) \/ LinkBackup(p) \/ RenameNew(p)

\* The invocation, or the machine, stops between two calls.
Crash(p) ==
    /\ p \in Running /\ Fails
    /\ Goto(p, "dead")
    /\ r' = [r EXCEPT ![p].g.exit = Killed, ![p].fd = NoFile]
    /\ fs' = Collect(fs, OpenBut(p))
    /\ UNCHANGED <<home, mail>>

-----------------------------------------------------------------------------
HasLine(lines, key) == \E i \in DOMAIN lines : lines[i].key = key
\* The lines set_defaults does not know.
Keep(lines, line) == IF line.key \in KeySet THEN lines ELSE Append(lines, line)
Others(lines) ==
    LET first[i \in 0..Len(lines)] ==      \* of i lines
            IF i = 0 THEN <<>> ELSE Keep(first[i - 1], lines[i])
    IN  first[Len(lines)]

\* Whatever fails, wherever an invocation dies and whatever another one does
\* meanwhile, there is a defaults file once there was one, and it is the old
\* one or a complete new one: set_defaults writes beside it and renames.
DefaultsNeverLost ==
    [][Exists(fs, USER_DEFAULTS_FILE) =>
         /\ Exists(fs', USER_DEFAULTS_FILE)
         /\ \/ Contents(fs', USER_DEFAULTS_FILE) = Defaults
            \/ \A k \in KeySet : HasLine(Contents(fs', USER_DEFAULTS_FILE), k)]_vars

\* Some set_defaults could not open the file.
Unread == \E p \in Procs : r[p].unread

\* "unrecognized lines are copied as is", in their order, over any number of
\* changes, until a set_defaults cannot open the file: it then writes one
\* that has none of those lines, and moves it into place all the same.
OthersKept ==
    [][(Exists(fs, USER_DEFAULTS_FILE) /\ ~Unread) =>
         Others(Contents(fs', USER_DEFAULTS_FILE)) = Others(Defaults)]_vars

\* The last invocation so far: it has set the defaults.
HasSet(p) == /\ pc[p] = "done" /\ r[p].g.exit = E_SUCCESS /\ r[p].new_file # None
             /\ \A q \in Procs : q > p => pc[q] = "off"

\* What the variables are that a key stands for.
Value(g, key) ==
    CASE key = "GROUP" -> g.group
      [] key = "HOME"  -> g.base
      [] key = "SHELL" -> g.defshell
      [] key = "SKEL"  -> g.skel
      [] OTHER         -> g.spool

\* A line of the key that get_defaults heeds comes after another.
Overruled(lines, key) ==
    \E i, j \in DOMAIN lines :
        /\ i < j /\ lines[i].key = key /\ lines[j].key = key
        /\ key = "GROUP" => getgr_nam_gid(Groups, lines[j]) # <<>>

\* What -D says it has set is what the next useradd finds, key by key, but
\* for a key that had a second line: "Duplicated lines are pruned", says the
\* comment of set_defaults, but they are copied, the last one counts, and the
\* next useradd finds what the old file, now the backup, said.
RoundTrip ==
    \A p \in Procs : (HasSet(p) /\ r[p].alone) =>
        LET found == get_defaults(Defaults, Groups)
            old   == get_defaults(Contents(fs, BACKUP), Groups)
        IN  \A key \in KeySet :
              Value(found, key) = Value(IF Overruled(Defaults, key) THEN old ELSE r[p].g, key)
=============================================================================
