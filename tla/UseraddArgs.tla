------------------------------ MODULE UseraddArgs -----------------------------
(***************************************************************************)
(* What util/useradd.c makes of its command line and of                    *)
(* /etc/default/useradd: get_defaults, process_flags, get_groups and the   *)
(* look-ups they use.  A command is [opts |-> <<[o, a], ...>>, args |->    *)
(* <<name, ...>>], o the letter of the option and a its argument.          *)
(*                                                                         *)
(* A path, a shell or a comment is one value; BAD is every argument the    *)
(* code's own tests refuse (a ':' or a newline in it, a directory that is  *)
(* not absolute, a uid that is no number or is (uid_t)-1).  A group is     *)
(* given as [num |-> TRUE, gid |-> gid, v |-> ""] or [num |-> FALSE,       *)
(* gid |-> 0, v |-> name]; a line of the defaults file is such a record    *)
(* with the "key" of the line.                                             *)
(***************************************************************************)
EXTENDS Naturals, Sequences, SequencesExt

CONSTANTS NGroupsMax,   \* sysconf(_SC_NGROUPS_MAX)
          BAD

E_SUCCESS     == 0
E_USAGE       == 2
E_BAD_ARG     == 3
E_UID_IN_USE  == 4
E_NOTFOUND    == 6
E_NAME_IN_USE == 9
E_HOMEDIR     == 12
GoesOn        == 99     \* the program has not left yet
Killed        == 98     \* it was killed, or died of a signal

SKEL_DIR == "/etc/skel"
None     == ""          \* no name, no value

\* The entries of a table (a sequence of lines of /etc/passwd or
\* /etc/group) under a name, or under an id; the first is the one found.
Named(table, n) == SelectSeq(table, LAMBDA e : e.name = n)
WithId(table, i) == SelectSeq(table, LAMBDA e : e.id = i)

\* Digits are a gid, anything else a name.
getgr_nam_gid(table, a) == IF a.num THEN WithId(table, a.gid) ELSE Named(table, a.v)

(***************************************************************************)
(* The globals of the program: the defaults (group, base, defshell, skel,  *)
(* spool), what is known of the user, the options seen, and the exit       *)
(* status.  Options without a flag of their own count in "flags" too: they *)
(* make anyflag true.                                                      *)
(***************************************************************************)
Globals == [group |-> 100, base |-> "/home", defshell |-> "/bin/sh",
            skel |-> SKEL_DIR, spool |-> "no",
            flags |-> {}, name |-> None, uid |-> 0, gid |-> 0, shell |-> None,
            home |-> <<>>, groups |-> <<>>, exit |-> GoesOn]

\* One line of the defaults file.  A group that does not exist is ignored.
DefaultLine(g, line, table) ==
    CASE line.key = "GROUP" ->
            LET found == getgr_nam_gid(table, line)
            IN  IF found = <<>> THEN g ELSE [g EXCEPT !.group = found[1].id]
      [] line.key = "HOME"  -> [g EXCEPT !.base = line.v]
      [] line.key = "SHELL" -> [g EXCEPT !.defshell = line.v]
      [] line.key = "SKEL"  -> [g EXCEPT !.skel = IF line.v = None THEN SKEL_DIR ELSE line.v]
      [] line.key = "CREATE_MAIL_SPOOL" ->
            [g EXCEPT !.spool = IF line.v = None THEN "no" ELSE line.v]
      [] OTHER -> g

get_defaults(lines, table) ==
    LET after[i \in 0..Len(lines)] ==      \* i lines
            IF i = 0 THEN Globals ELSE DefaultLine(after[i - 1], lines[i], table)
    IN  after[Len(lines)]

\* get_groups walks the list; it stops at the first group beyond the limit,
\* without an error, and so does not see what is wrong with the rest.
TakeGroup(acc, a, table) ==
    LET found == getgr_nam_gid(table, a)
    IN  CASE acc.full     -> acc
          [] found = <<>> -> [acc EXCEPT !.errors = TRUE]
          [] Len(acc.names) = NGroupsMax -> [acc EXCEPT !.full = TRUE]
          [] OTHER -> [acc EXCEPT !.names = Append(@, found[1].name)]
get_groups(list, table) ==
    FoldLeft(LAMBDA acc, a : TakeGroup(acc, a, table),
             [names |-> <<>>, errors |-> FALSE, full |-> FALSE], list)

(***************************************************************************)
(* process_flags, one option.                                              *)
(***************************************************************************)
Leaves(g, status) == [g EXCEPT !.exit = status]

\* -g: the default group after -D, the user's group without it.
PrimaryGroup(g, a, table) ==
    LET found == getgr_nam_gid(table, a)
    IN  CASE found = <<>>       -> Leaves(g, E_NOTFOUND)
          [] "D" \in g.flags    -> [g EXCEPT !.group = found[1].id]
          [] OTHER              -> [g EXCEPT !.gid = found[1].id]

\* -G: an empty list leaves what an earlier -G said.
SecondaryGroups(g, list, table) ==
    LET got == get_groups(list, table)
    IN  CASE list = <<>> -> g
          [] got.errors  -> Leaves(g, E_NOTFOUND)
          [] OTHER       -> [g EXCEPT !.groups = got.names]

Checked == {"b", "c", "d", "p", "s", "u"}      \* arguments that may be BAD
Simple  == {"l", "m", "M", "N", "o", "r", "U", "R", "c", "p"}

\* An option that sets a variable to its argument, or has only its flag.
TakeArgument(g, o) ==
    CASE o.o = "b" -> [g EXCEPT !.base = o.a]
      [] o.o = "d" -> [g EXCEPT !.home = o.a]
      [] o.o = "k" -> [g EXCEPT !.skel = o.a]
      [] o.o = "s" -> [g EXCEPT !.shell = o.a, !.defshell = o.a]
      [] o.o = "u" -> [g EXCEPT !.uid = o.a]
      [] OTHER -> g

OptionSets(g, o, table) ==
    IF o.o \in Checked /\ o.a = BAD THEN Leaves(g, E_BAD_ARG)
    ELSE IF o.o = "D" /\ g.flags # {} THEN Leaves(g, E_USAGE)
    ELSE
    CASE o.o = "h" -> Leaves(g, E_SUCCESS)
      [] o.o = "g" -> PrimaryGroup(g, o.a, table)
      [] o.o = "G" -> SecondaryGroups(g, o.a, table)
      [] o.o \in Simple \union {"D", "b", "d", "k", "s", "u"} -> TakeArgument(g, o)
      [] OTHER -> Leaves(g, E_USAGE)           \* -K is announced by getopt only

\* Mutant: -o is refused unless -u has been seen.
OptionEager(g, o, table) ==
    IF g.exit # GoesOn THEN g
    ELSE IF o.o = "o" /\ "u" \notin g.flags THEN Leaves(g, E_USAGE)
    ELSE LET after == OptionSets(g, o, table)
         IN  IF after.exit # GoesOn THEN after ELSE [after EXCEPT !.flags = @ \union {o.o}]

\* Nothing is read once the program has left.
Option(g, o, table) ==
    LET after == OptionSets(g, o, table)
    IN  IF g.exit # GoesOn THEN g
        ELSE IF after.exit # GoesOn THEN after
        ELSE [after EXCEPT !.flags = @ \union {o.o}]

(***************************************************************************)
(* process_flags after the options: which go together, and what follows.   *)
(***************************************************************************)
WantsGroup(g) == {"g", "N", "U"} \intersect g.flags = {}

Conflict(flags, args) ==
    \/ "o" \in flags /\ "u" \notin flags
    \/ "k" \in flags /\ "m" \notin flags
    \/ {"U", "g"} \subseteq flags
    \/ {"U", "N"} \subseteq flags
    \/ {"m", "M"} \subseteq flags
    \/ "D" \in flags /\ (args # <<>> \/ {"u", "G", "d", "c", "m"} \intersect flags # {})
    \/ "D" \notin flags /\ Len(args) # 1

\* A home directory unless this is a system account; never with -M.
HomeFlag(flags) ==
    IF "M" \in flags THEN flags \ {"m"}
    ELSE IF "r" \in flags THEN flags
    ELSE flags \union {"m"}

Settle(g, args) ==
    LET flags == IF WantsGroup(g) THEN g.flags \union {"U"} ELSE g.flags
        name  == IF "D" \in flags THEN None ELSE args[1]
    IN  IF g.exit # GoesOn THEN g
        ELSE IF Conflict(flags, args) THEN Leaves(g, E_USAGE)
        ELSE [g EXCEPT
                !.name  = name,
                !.home  = IF "d" \in flags \/ "D" \in flags THEN @ ELSE <<g.base, name>>,
                !.gid   = IF "g" \in flags THEN @ ELSE g.group,
                !.shell = IF "s" \in flags THEN @ ELSE g.defshell,
                !.flags = HomeFlag(flags)]

getopt(g, opts, table) ==
    LET after[i \in 0..Len(opts)] ==       \* i options
            IF i = 0 THEN g ELSE Option(after[i - 1], opts[i], table)
    IN  after[Len(opts)]

\* The whole of it: defaults, options, settlement.
process_flags(cmd, lines, table) ==
    Settle(getopt(get_defaults(lines, table), cmd.opts, table), cmd.args)
=============================================================================
