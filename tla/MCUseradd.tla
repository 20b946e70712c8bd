---- MODULE MCUseradd ----
(* Instances of Useradd for TLC. *)
EXTENDS UseraddInv, TLC

Gid(n) == [num |-> TRUE, gid |-> n, v |-> ""]
Grp(n) == [num |-> FALSE, gid |-> 0, v |-> n]
Opt(o, a) == [o |-> o, a |-> a]
Cmd(opts, name) == [opts |-> opts, args |-> <<name>>]
Set(opts) == [opts |-> <<Opt("D", "")>> \o opts, args |-> <<>>]
Key(k, a) == [key |-> k] @@ a
User(n, id, gid) == [name |-> n, id |-> id, gid |-> gid, home |-> <<"/home", n>>,
                     shell |-> "/bin/sh"]

Passwd == <<User("root", 0, 0), User("eve", 1001, 7)>>
Group == <<[name |-> "root", id |-> 0, mem |-> <<>>],
           [name |-> "staff", id |-> 7, mem |-> <<"eve">>],
           [name |-> "mail", id |-> 8, mem |-> <<>>]>>
HomeBases == {"/home", "/usr"}
SkelTrees == [dir \in {"/etc/skel"} |-> {<<"profile">>, <<"bin">>, <<"bin", "ls">>}]
FileNames == {"passwd", "group", "passwd.tmp", "group.tmp", "passwd.bak", "group.bak",
              "useradd", "useradd-", "nuadd1", "nuadd2"}
Temps == {"nuadd1", "nuadd2"}

(* Defaults files: none, one that says HOME twice and has a line of its own, *)
(* one with a line that is too long.                                         *)
Note == Text("#", "local")
Twice == <<Text("HOME", "/usr"), Note, Key("GROUP", Grp("gone")), Text("HOME", "/home"),
           Text("SKEL", ""), Text("CREATE_MAIL_SPOOL", "yes")>>
Long == <<Text("HOME", "/usr"), Text("LONG", "x")>>
AllLines == {<<>>, Twice, Long}

(* -D with and without something to set, and every way through the rest of  *)
(* main.                                                                     *)
AllCommands == <<
    Set(<<>>), Set(<<Opt("b", "/usr"), Opt("g", Gid(7))>>), Set(<<Opt("s", "/bin/ash")>>),
    Cmd(<<>>, "ann"),
    Cmd(<<Opt("u", 1005), Opt("g", Gid(7)), Opt("G", <<Gid(8)>>),
          Opt("d", <<"/home", "ann">>)>>, "dan"),
    Cmd(<<Opt("u", 1001), Opt("o", ""), Opt("N", ""), Opt("b", "/none")>>, "twin"),
    Cmd(<<Opt("m", ""), Opt("k", "/nothing"), Opt("G", <<Grp("staff"), Grp("mail")>>)>>, "bob"),
    Cmd(<<Opt("u", 1001)>>, "late"),
    Cmd(<<>>, "staff"), Cmd(<<>>, "eve")>>

(* Every letter getopt knows, the ones with an argument also with a bad one. *)
AllLetters == <<Opt("D", ""), Opt("b", "/usr"), Opt("g", Gid(7)), Opt("s", "/bin/ash"),
                Opt("g", Grp("staff")), Opt("G", <<Grp("staff"), Gid(8)>>),
                Opt("G", <<Grp("staff"), Gid(0), Grp("root")>>), Opt("G", <<>>),
                Opt("g", Grp("gone")), Opt("G", <<Grp("root"), Gid(9)>>),
                Opt("k", "/etc/skel2"), Opt("m", ""), Opt("M", ""), Opt("N", ""),
                Opt("o", ""), Opt("u", 1005), Opt("U", ""), Opt("r", ""),
                Opt("d", <<"/home", "x">>), Opt("c", "text"), Opt("l", ""),
                Opt("p", "secret"), Opt("R", "/"), Opt("K", "UID_MIN=1"), Opt("h", ""),
                Opt("b", BAD), Opt("u", BAD), Opt("s", BAD)>>

UpTo(n, S) == UNION {[1..k -> S] : k \in 0..n}
(* -D may come in between; two additions at once are left out (the locks    *)
(* do nothing, and nothing holds).                                           *)
OnlySet == {2, 3}

SomeLists == [opts : UpTo(3, 1..Len(AllLetters)), args : {<<"ann">>}]
             \union [opts : UpTo(2, 1..Len(AllLetters)), args : {<<>>}]
Ps2 == 1..2
====
