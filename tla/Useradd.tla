------------------------------- MODULE Useradd --------------------------------
(***************************************************************************)
(* util/useradd.c from the check of the user's name to its end: the new    *)
(* uid and gid, the rewriting of /etc/group and /etc/passwd, the secondary *)
(* groups, the home directory and the mail box; with UserDefaults the      *)
(* whole program.  The lock macros do nothing, so the steps of two         *)
(* invocations interleave wherever Overlap lets two run at once.           *)
(***************************************************************************)
EXTENDS UserDefaults

CONSTANTS Bases,         \* directories that can hold a home directory
          Skels,         \* what a skeleton directory holds: name -> set of
                         \* paths; a name not in its domain is not there
          Garbage,       \* what gr_dup finds beyond the members of a group
          Letters,       \* a sequence of options, for AnyOrder
          Lists          \* command lines [opts, args], opts positions in Letters

ASSUME SkelsAssumption ==      \* a path's directory is in the tree
    \A dir \in DOMAIN Skels : \A f \in Skels[dir] :
        IsSeq(f) /\ (Front(f) = <<>> \/ Front(f) \in Skels[dir])

Tables == {"passwd", "group"}
Tmp == [passwd |-> "passwd.tmp", group |-> "group.tmp"]
Bak == [passwd |-> "passwd.bak", group |-> "group.bak"]

IdLimit == 65536       \* uid_t and gid_t have 16 bits

Has(p, flag) == flag \in r[p].g.flags

CheckName(p) ==
    /\ pc[p] = "name"
    /\ IF Named(Contents(fs, "passwd"), r[p].g.name) # <<>>
       THEN Quit(p, E_NAME_IN_USE)
       ELSE Goto(p, IF Has(p, "U") THEN "group" ELSE "uid") /\ UNCHANGED r
    /\ UNCHANGED Etc

CheckGroup(p) ==
    /\ pc[p] = "group"
    /\ IF Named(Groups, r[p].g.name) # <<>>
       THEN Quit(p, E_NAME_IN_USE)
       ELSE Goto(p, "uid") /\ UNCHANGED r
    /\ UNCHANGED Etc

Ids(table) == {table[i].id : i \in DOMAIN table}

\* Mutant: max++ for ++max.
NextIdPost(ids, least) == Max(ids \union {least}) % IdLimit

\* One more than the greatest id, and than "least", in 16 bits.
NextId(ids, least) == (Max(ids \union {least}) + 1) % IdLimit

\* With -o the uid of -u is taken as it is; with -u alone it must be free;
\* else a new one is sought, from 1001 on.
PickUid(p) ==
    /\ pc[p] = "uid"
    /\ LET table == Contents(fs, "passwd")
       IN  IF ~Has(p, "o") /\ Has(p, "u") /\ r[p].uid \in Ids(table)
           THEN Quit(p, E_UID_IN_USE)
           ELSE /\ r' = IF Has(p, "u") THEN r
                        ELSE [r EXCEPT ![p].uid = NextId(Ids(table), 1000)]
                /\ Goto(p, IF Has(p, "U") THEN "gid" ELSE "usr")
    /\ UNCHANGED Etc

\* An update of a table is prepared: entry e, and what comes after it.
Prepare(p, table, e, then) ==
    [r[p] EXCEPT !.tab = table, !.e = e, !.then = then, !.stream = <<>>]

\* find_new_gid and grp_add: a group of the user's own, without members.
AddGroup(p) ==
    /\ pc[p] = "gid"
    /\ \E gid \in {NextId(Ids(Groups), 0)} :
         r' = [r EXCEPT ![p] = [Prepare(p, "group",
                                        [name |-> r[p].g.name, id |-> gid, mem |-> <<>>], "usr")
                                EXCEPT !.gid = gid]]
    /\ Goto(p, "open")
    /\ UNCHANGED Etc

NewPwent(p) == [name |-> r[p].g.name, id |-> r[p].uid, gid |-> r[p].gid,
                home |-> r[p].g.home, shell |-> r[p].g.shell]

UsrUpdate(p) ==
    /\ pc[p] = "usr"
    /\ r' = [r EXCEPT ![p] = Prepare(p, "passwd", NewPwent(p), "groups")]
    /\ Goto(p, "open")
    /\ UNCHANGED Etc

-----------------------------------------------------------------------------
(***************************************************************************)
(* gr_update and pw_update: the table is copied to its .tmp, the entry of  *)
(* the same id replaced (or the new one put last); then the table becomes  *)
(* .bak and .tmp the table.  Nothing is tested.                            *)
(***************************************************************************)
OpenTmp(p) ==
    /\ pc[p] = "open" /\ Room(fs, Tmp[r[p].tab], Open)
    /\ \E f \in {Creat(fs, Tmp[r[p].tab], Open)} :
         /\ fs' = f
         /\ r' = [r EXCEPT ![p].fd = f.dir[Tmp[r[p].tab]]]
    /\ Goto(p, "copy")
    /\ UNCHANGED <<home, mail, faults>>

Replaced(table, e) ==
    IF e.id \in Ids(table)
    THEN [i \in DOMAIN table |-> IF table[i].id = e.id THEN e ELSE table[i]]
    ELSE Append(table, e)

CopyTable(p) ==
    /\ pc[p] = "copy"
    /\ r' = [r EXCEPT ![p].buf = Replaced(Contents(fs, r[p].tab), r[p].e)]
    /\ Goto(p, "close")
    /\ UNCHANGED Etc

\* Mutant: the file is not closed.
CloseTmpLeak(p) ==
    /\ pc[p] = "close"
    /\ fs' = Write(fs, r[p].fd, r[p].buf)
    /\ Goto(p, "bak")
    /\ UNCHANGED <<home, mail, r, faults>>

\* fclose writes the lines; on a full disk it writes the first of them and
\* the code does not see it.
CloseTmp(p) ==
    /\ pc[p] = "close"
    /\ \E k \in 0..Len(r[p].buf) :
         /\ k < Len(r[p].buf) => faults < MaxFaults
         /\ faults' = IF k < Len(r[p].buf) THEN faults + 1 ELSE faults
         /\ fs' = Collect(Write(fs, r[p].fd, SubSeq(r[p].buf, 1, k)), OpenBut(p))
    /\ r' = [r EXCEPT ![p].fd = NoFile, ![p].buf = <<>>, ![p].short = @ \/ faults' # faults]
    /\ Goto(p, "bak")
    /\ UNCHANGED <<home, mail>>

\* Mutant: the old table is unlinked.
RenameOldDrop(p) ==
    /\ pc[p] = "bak"
    /\ fs' = Unlink(fs, r[p].tab, Open)
    /\ Goto(p, "swap")
    /\ UNCHANGED <<home, mail, r, faults>>

RenameOld(p) ==
    /\ pc[p] = "bak"
    /\ fs' = Rename(fs, r[p].tab, Bak[r[p].tab], Open)
    /\ Goto(p, "swap")
    /\ UNCHANGED <<home, mail, r, faults>>

RenameTmp(p) ==
    /\ pc[p] = "swap"
    /\ fs' = Rename(fs, Tmp[r[p].tab], r[p].tab, Open)
    /\ Goto(p, r[p].then)
    /\ UNCHANGED <<home, mail, r, faults>>

-----------------------------------------------------------------------------
\* do_grp_update: there are secondary groups, or a group was added.
DoGrpUpdate(p) == Has(p, "U") \/ r[p].g.groups # <<>>

\* grp_update opens the group file.
GrpUpdate(p) ==
    /\ pc[p] = "groups"
    /\ IF DoGrpUpdate(p)
       THEN /\ r' = [r EXCEPT ![p].stream = Groups]
            /\ Goto(p, "scan")
       ELSE Goto(p, "home") /\ UNCHANGED r
    /\ UNCHANGED Etc

Listed(p) == SelectSeq(r[p].stream, LAMBDA e : e.name \in ToSet(r[p].g.groups))

\* Mutant: strcmp(...) for strcmp(...) == 0.
add_list_differs(list, member) ==
    IF ToSet(list) \ {member} # {} THEN list ELSE Append(list, member)

add_list(list, member) == IF member \in ToSet(list) THEN list ELSE Append(list, member)

\* gr_dup adds the number of members to a variable it never set, and copies
\* as many pointers: too few, all, or all and what lies beyond them.
gr_dup(mem) == {SubSeq(mem, 1, k) : k \in 0..Len(mem)} \union {Append(mem, Garbage)}

\* What the outer scan finds after gr_update: the C library has one stream
\* for the group file, and the scan in gr_update has closed it (Prepare).
ScanGroups(p) ==
    /\ pc[p] = "scan"
    /\ IF Listed(p) = <<>>
       THEN Goto(p, "home") /\ UNCHANGED r
       ELSE /\ \E grp \in {Listed(p)[1]} : \E mem \in gr_dup(grp.mem) :
                 r' = [r EXCEPT ![p] = Prepare(p, "group",
                         [grp EXCEPT !.mem = add_list(mem, r[p].g.name)], "scan")]
            /\ Goto(p, "open")
    /\ UNCHANGED Etc

\* With a count far off it dies.
GrDupDies(p) ==
    /\ pc[p] = "scan" /\ Listed(p) # <<>>
    /\ Goto(p, "dead")
    /\ r' = [r EXCEPT ![p].g.exit = Killed]
    /\ UNCHANGED Etc

-----------------------------------------------------------------------------
Dir(p) == r[p].g.home
There(d) == d \in DOMAIN home
Put(f, x, v) == [y \in DOMAIN f \union {x} |-> IF y = x THEN v ELSE f[y]]

\* create_home: nothing to do for a directory that is there.
CreateHome(p) ==
    /\ pc[p] = "home"
    /\ Goto(p, IF Has(p, "m") /\ ~There(Dir(p)) THEN "mkdir" ELSE "mail")
    /\ UNCHANGED <<Etc, r>>

\* fail_exit removes nothing here: home_added is not set yet, and the
\* entries of the tables stay.
MakeHome(p) ==
    /\ pc[p] = "mkdir"
    /\ \/ /\ ~There(Dir(p)) /\ Dir(p)[1] \in Bases
          /\ home' = Put(home, Dir(p), [uid |-> 0, gid |-> 0, mode |-> "000", files |-> <<>>])
          /\ Goto(p, "chown") /\ UNCHANGED <<r, faults>>
       \/ /\ There(Dir(p)) \/ Dir(p)[1] \notin Bases
          /\ Quit(p, E_HOMEDIR) /\ UNCHANGED <<home, faults>>
       \/ Fails /\ Quit(p, E_HOMEDIR) /\ UNCHANGED home
    /\ UNCHANGED <<fs, mail>>

OwnHome(p) ==
    /\ pc[p] = "chown"
    /\ home' = [home EXCEPT ![Dir(p)] =
                  [@ EXCEPT !.uid = r[p].uid, !.gid = r[p].gid, !.mode = "755"]]
    /\ r' = [r EXCEPT ![p].added = TRUE]
    /\ Goto(p, "skel")
    /\ UNCHANGED <<fs, mail, faults>>

\* The paths of the skeleton; none when the directory cannot be opened.
Skeleton(p) == IF r[p].g.skel \in DOMAIN Skels THEN Skels[r[p].g.skel] ELSE {}
\* Mutant: copy_tree does not go into a directory.
ReadyTop(p) == {f \in Skeleton(p) \ r[p].copied : Front(f) = <<>>}
\* Mutant: a directory is read from its start again.
ReadyAgain(p) == {f \in Skeleton(p) : Front(f) = <<>> \/ Front(f) \in r[p].copied}
Ready(p) == {f \in Skeleton(p) \ r[p].copied : Front(f) = <<>> \/ Front(f) \in r[p].copied}

\* The directory a path is in has been made.
Placed(p, f) == Front(f) = <<>> \/ Front(f) \in DOMAIN home[Dir(p)].files
IsDirectory(p, f) == \E x \in Skeleton(p) : Front(x) = f
Below(p, f) == {x \in Skeleton(p) : IsPrefix(f, x)}

PutFile(p, f, uid, gid, whole) ==
    home' = [home EXCEPT ![Dir(p)].files = Put(@, f, [uid |-> uid, gid |-> gid, whole |-> whole])]

\* copy_tree: the entries in the order the directories give them, a
\* directory before what is in it; copied files go to the user.  Nothing can
\* be made where the directory is missing, and nobody notices.
CopySkel(p) ==
    /\ pc[p] = "skel"
    /\ \E f \in Ready(p) :
         /\ IF Placed(p, f) THEN PutFile(p, f, r[p].uid, r[p].gid, TRUE) ELSE UNCHANGED home
         /\ r' = [r EXCEPT ![p].copied = @ \union {f}]
    /\ UNCHANGED <<fs, mail, pc, faults>>

\* A call for f fails, and copy_tree goes on: mkdir or the open of the copy
\* (there is no f); the open of the original (an empty file stays, of root),
\* or a write, on a full disk; opendir_r (the directory stays empty).
EntryFails(p, f) ==
    /\ Placed(p, f)
    /\ \/ /\ UNCHANGED home
          /\ r' = [r EXCEPT ![p].copied = @ \union {f}, ![p].failed = @ \union {f}]
       \/ /\ ~IsDirectory(p, f)
          /\ PutFile(p, f, 0, 0, FALSE) \/ PutFile(p, f, r[p].uid, r[p].gid, FALSE)
          /\ r' = [r EXCEPT ![p].copied = @ \union {f}, ![p].failed = @ \union {f}]
       \/ /\ IsDirectory(p, f)
          /\ PutFile(p, f, r[p].uid, r[p].gid, TRUE)
          /\ r' = [r EXCEPT ![p].copied = @ \union Below(p, f), ![p].failed = @ \union {f}]

\* The skeleton itself cannot be opened: it is <<>>, above all its paths.
SkelFails(p) ==
    /\ r[p].copied = {} /\ UNCHANGED home
    /\ r' = [r EXCEPT ![p].copied = Skeleton(p), ![p].failed = {<<>>}]

CopyFails(p) ==
    /\ pc[p] = "skel" /\ Ready(p) # {} /\ Fails
    /\ SkelFails(p) \/ \E f \in Ready(p) : EntryFails(p, f)
    /\ UNCHANGED <<fs, mail, pc>>

CopyDone(p) ==
    /\ pc[p] = "skel" /\ Ready(p) = {}
    /\ Goto(p, "mail")
    /\ UNCHANGED <<Etc, r>>

\* create_mail (a box that is there is left alone) and the end of main.
MailGid(p) ==
    LET grp == Named(Groups, "mail")
    IN  IF grp = <<>> THEN [gid |-> r[p].gid, mode |-> "600"]
                      ELSE [gid |-> grp[1].id, mode |-> "660"]
CreateMail(p) ==
    /\ pc[p] = "mail"
    /\ \/ /\ mail' = IF Has(p, "r") \/ r[p].g.spool # "yes" \/ r[p].g.name \in DOMAIN mail
                     THEN mail
                     ELSE Put(mail, r[p].g.name, [uid  |-> r[p].uid, gid |-> MailGid(p).gid,
                                                  mode |-> MailGid(p).mode])
          /\ UNCHANGED faults
       \/ ~Has(p, "r") /\ r[p].g.spool = "yes" /\ Fails /\ UNCHANGED mail
    /\ Quit(p, E_SUCCESS)
    /\ UNCHANGED <<fs, home>>

\* The first half of main is Start and SetDefaults.
Step(p) ==
    \/ SetDefaults(p)
    \/ CheckName(p) \/ CheckGroup(p) \/ PickUid(p) \/ AddGroup(p) \/ UsrUpdate(p)
    \/ OpenTmp(p) \/ CopyTable(p) \/ CloseTmp(p) \/ RenameOld(p) \/ RenameTmp(p)
    \/ GrpUpdate(p) \/ ScanGroups(p) \/ GrDupDies(p)
    \/ CreateHome(p) \/ MakeHome(p) \/ OwnHome(p)
    \/ CopySkel(p) \/ CopyFails(p) \/ CopyDone(p) \/ CreateMail(p)

Next == \E p \in Procs : Start(p) \/ Step(p) \/ Crash(p)

Spec == Init /\ [][Next]_vars

\* The system always runs some program that can go on.
FairSpec == Spec /\ WF_vars(\E p \in Procs : Step(p))

-----------------------------------------------------------------------------
\* It has added its user.
Added(p) == pc[p] = "done" /\ r[p].g.exit = E_SUCCESS /\ r[p].then # "done"

\* Nothing runs, and nothing has run together with another.
Quiet == Running = {}
Alone == \A p \in Procs : r[p].alone

Users == ToSet(Contents(fs, "passwd"))
GroupSet == ToSet(Groups)

\* The accounts that should be there: the first ones and those useradd said
\* it added.
Accounts == ToSet(Passwd0) \union {NewPwent(p) : p \in {q \in Procs : Added(q)}}

\* A uid that somebody has asked to share.
Shared(id) == \E p \in Procs : Has(p, "o") /\ r[p].uid = id

TypeOK ==
    /\ \A n \in Names : fs.dir[n] \in 0..Files
    /\ \A i \in 1..Files : fs.data[i] # <<>> => i \in Open \/ \E n \in Names : fs.dir[n] = i
    /\ \A p \in Procs :
         /\ pc[p] \in Over \union {"mkstemps", "lines", "flush", "unlink", "link", "rename", "name", "group", "uid", "gid", "usr", "open", "copy", "close",
                        "bak", "swap", "groups", "scan", "home", "mkdir", "chown", "skel", "mail"}
         /\ r[p].fd # NoFile <=> pc[p] \in {"lines", "flush", "copy", "close"}
         /\ pc[p] \notin Over => r[p].g.exit = GoesOn
         /\ r[p].uid \in 0..(IdLimit - 1) /\ r[p].gid \in 0..(IdLimit - 1)
         /\ r[p].tab \in Tables
    /\ faults \in 0..MaxFaults

\* It ended badly after its entries were in the tables: when the home
\* directory could not be made, or in gr_dup.  Nothing takes them out again.
LeavesEntries(p) == pc[p] = "dead" \/ r[p].g.exit = E_HOMEDIR
Behind == {NewPwent(p) : p \in {q \in Procs : LeavesEntries(q)}}

\* No invocation takes away an account another one has made: the uid it picks
\* is one pw_update finds no entry for (unless -o asks for a shared uid).  And
\* no account is there but those and the ones left behind.
AccountsKept ==
    (Quiet /\ Alone /\ faults = 0) =>
      /\ \A e \in Accounts : e \in Users \/ Shared(e.id)
      /\ Users \subseteq Accounts \union Behind

\* The invocations that gave the group with -G.
Asked(name) == {p \in Procs : name \in ToSet(r[p].g.groups)}

\* Groups keep their gids over every rewriting of the table, and their
\* members as long as nobody gives them with -G: gr_dup may then drop members
\* or add garbage, but nobody is added who did not ask.  An added user has the
\* group it was given, and is in the one it gave with -G until another gives
\* that too; and no group is there but those and the ones left behind.
GroupsKept ==
    (Quiet /\ Alone /\ faults = 0) =>
      /\ \A e \in ToSet(Group0) : \E f \in GroupSet :
           /\ f.name = e.name /\ f.id = e.id
           /\ Asked(e.name) = {} => f.mem = e.mem
           /\ ToSet(f.mem) \subseteq
                ToSet(e.mem) \union {r[p].g.name : p \in Asked(e.name)} \union {Garbage}
      /\ \A p \in Procs : Added(p) =>
           /\ Has(p, "U") => \E f \in GroupSet : f.name = r[p].g.name /\ f.id = r[p].gid
           /\ Has(p, "g") => r[p].gid \in {f.id : f \in GroupSet}
           /\ Len(r[p].g.groups) = 1 =>
                \/ \E q \in Asked(r[p].g.groups[1]) : q > p
                \/ \E f \in GroupSet : f.name = r[p].g.groups[1] /\ r[p].g.name \in ToSet(f.mem)
      /\ \A f \in GroupSet :
           \/ \E e \in ToSet(Group0) : e.name = f.name /\ e.id = f.id
           \/ \E p \in Procs : /\ Has(p, "U") /\ (Added(p) \/ LeavesEntries(p))
                               /\ f.name = r[p].g.name /\ f.id = r[p].gid

\* The user's, and all of it.
InPlace(p, f) ==
    LET files == home[Dir(p)].files
    IN  /\ f \in DOMAIN files
        /\ files[f] = [uid |-> r[p].uid, gid |-> r[p].gid, whole |-> TRUE]

\* A call of copy_tree failed for f or a directory it is in.
Missed(p, f) == \E x \in r[p].failed : IsPrefix(x, f)

\* A user that was given a new home directory owns it, and all of the
\* skeleton in it, but for the files, and what is in the directories, for
\* which a call failed (copy_tree does not look at what copy_file and mkdir
\* return): a failure costs nothing else.
HomeReady ==
    \A p \in Procs : (Added(p) /\ r[p].added /\ Alone) =>
        LET h == home[Dir(p)]
        IN  /\ <<h.uid, h.gid, h.mode>> = <<r[p].uid, r[p].gid, "755">>
            /\ \A f \in Skeleton(p) : InPlace(p, f) \/ Missed(p, f)
            /\ r[p].failed # {} => faults # 0

\* What a crash between two renames or a full disk leaves: each account is
\* still in one of the files, until the next useradd after a short write and
\* the second one after a crash.  (The account that was being added when the
\* disk was full may be nowhere, though useradd ended with 0.)
Later(p) == Cardinality({q \in Procs : q > p /\ pc[q] # "off"})
Recoverable ==
    Alone => \A e \in Accounts \ {NewPwent(p) : p \in {q \in Procs : r[q].short}} :
        \/ \E n \in {"passwd", "passwd.bak", "passwd.tmp"} : e \in ToSet(Contents(fs, n))
        \/ Shared(e.id)
        \/ \E p \in Procs : (r[p].short /\ Later(p) >= 1) \/ (pc[p] = "dead" /\ Later(p) >= 2)

\* From some time on nothing runs: every invocation comes to its end, the
\* scan of grp_update included, whose stream each gr_update closes.
Ends == <>[](Running = {})

\* "so that they can be specified in any order" (process_flags): when every
\* option comes once and the command line is accepted, each other order of
\* the options is accepted too and sets the same.  -D is the exception: it
\* has to come first.
Flags(list, order) ==
    process_flags([opts |-> [i \in DOMAIN order |-> Letters[list.opts[order[i]]]],
                   args |-> list.args], Defaults, Groups)
Once(list) == Cardinality({Letters[i].o : i \in ToSet(list.opts)}) = Len(list.opts)
AnyOrder ==
    (\A p \in Procs : pc[p] = "off") =>
        \A list \in {l \in Lists : Once(l)} :
            LET all == [i \in DOMAIN list.opts |-> i]
                g   == Flags(list, all)
            IN  (g.exit = GoesOn /\ "D" \notin g.flags) =>
                  \A order \in SetToSeqs(DOMAIN list.opts) : Flags(list, order) = g
=============================================================================
