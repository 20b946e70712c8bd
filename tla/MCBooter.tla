------------------------------- MODULE MCBooter -------------------------------
(***************************************************************************)
(* Two disks for module Booter, with blocks of four cells, pages of eight  *)
(* and two inodes to a block.  Drive 0 is a file system; drive 1 has the   *)
(* same file system in its first partition, at block 20.                   *)
(***************************************************************************)
EXTENDS BooterInv, TLC

NoInode == [dir |-> FALSE, blocks |-> 0, addr |-> <<0, 0>>, ind |-> 0]
MCZero == [mbr |-> FALSE, part |-> [d \in 0..1 |-> 0], super |-> FALSE,
           inodes |-> <<NoInode, NoInode>>, ptrs |-> [k \in 1..8 |-> 0],
           ents |-> <<>>, bytes |-> <<0, 0, 0, 0>>]

Entry(name, no) == [name |-> name, inode |-> no]
Dir(b)  == [dir |-> TRUE, blocks |-> 1, addr |-> <<b, 0>>, ind |-> 0]
File(n, addr, ind) == [dir |-> FALSE, blocks |-> n, addr |-> addr, ind |-> ind]
Inodes(a, b) == [MCZero EXCEPT !.inodes = <<a, b>>]
Ents(s)  == [MCZero EXCEPT !.ents = s]
Data(s)  == [MCZero EXCEPT !.bytes = s]

\* k is a kernel of two sections, the second over the first, which together
\* need every way of reading, and blocks behind the indirect one; s has its
\* second header across two blocks; t and u end before their sections.
Fs == 0 :> MCZero @@ 1 :> [MCZero EXCEPT !.super = TRUE]
   @@ 2 :> Inodes(NoInode, Dir(6)) @@ 3 :> Inodes(File(7, <<8, 9>>, 10), Dir(7))
   @@ 4 :> Inodes(File(1, <<16, 0>>, 0), File(2, <<11, 12>>, 0))
   @@ 5 :> Inodes(File(2, <<17, 18>>, 0), File(2, <<19, 18>>, 0))
   @@ 6 :> Ents(<<Entry("", 0), Entry("k", 2), Entry("boot", 3), Entry("s", 5),
                  Entry("t", 6), Entry("u", 7)>>)
   @@ 7 :> Ents(<<Entry("msg", 4), Entry("k", 2)>>)
   @@ 8 :> Data(<<0, 9, 6, 31>>)
   @@ 9 :> Data(<<32, 33, 34, 35>>)
   @@ 10 :> [MCZero EXCEPT !.ptrs = <<13, 14, 15, 14, 21, 0, 0, 0>>]
   @@ 11 :> Data(<<0, 0, 9, 255>>) @@ 12 :> Data(<<0, 9, 0, 0>>)
   @@ 13 :> Data(<<36, 37, 38, 39>>)
   @@ 14 :> Data(<<0, 9, 3, 41>>)
   @@ 15 :> Data(<<42, 43, 44, 45>>)
   @@ 16 :> Data(<<72, 73, 0, 0>>)
   @@ 17 :> Data(<<0, 13, 9, 51>>) @@ 18 :> Data(<<52, 53, 54, 55>>)
   @@ 19 :> Data(<<0, 6, 9, 61>>)
   @@ 21 :> Data(<<255, 0, 9, 0>>)

MCDisks == 0 :> Fs
   @@ 1 :> ([n \in {k + 20 : k \in DOMAIN Fs} |-> Fs[n - 20]]
            @@ 0 :> [MCZero EXCEPT !.mbr = TRUE, !.part = 0 :> 3 @@ 1 :> 20])

\* Words.
MCNames == {"", "k", "boot", "s", "t", "u", "msg", "dw", "sdc", "digit", "ls", "cat", "cd",
            "mount", "part", "bt", "fx", "x", "exit"}
Name(s)   == [abs |-> FALSE, path |-> s, num |-> 59]
Root(s)   == [abs |-> TRUE, path |-> s, num |-> 255]
Digit(n)  == [abs |-> FALSE, path |-> <<"digit">>, num |-> n]
dw == Name(<<"dw">>)
k == Name(<<"k">>)

MCMessage == Root(<<"boot", "msg">>)
MCBootVars == {<<>>, <<k>>, <<Root(<<"boot", "k">>), dw, Digit(1), Digit(1)>>,
               <<Name(<<"s">>), dw, Digit(0)>>, <<k, Name(<<"sdc">>)>>}
MCTyped ==
    {<<Name(<<"ls">>)>>, <<Name(<<"cat">>), k>>, <<Name(<<"cat">>)>>,
     <<Name(<<"cd">>)>>, <<Name(<<"cd">>), Root(<<"boot">>)>>, <<Name(<<"cd">>), k>>,
     <<Name(<<"mount">>), dw, Digit(0)>>, <<Name(<<"mount">>), dw, Digit(1), Digit(1)>>,
     <<Name(<<"mount">>), dw, Digit(7)>>, <<Name(<<"part">>)>>,
     <<Name(<<"bt">>), Name(<<"t">>)>>, <<Name(<<"bt">>), Name(<<"u">>), dw, Digit(1), Digit(5)>>,
     <<Name(<<"fx">>), Name(<<"x">>)>>, <<Name(<<"boot">>)>>, <<Name(<<"exit">>)>>}
MCTimers == {100}
MCBounce == <<71, 72>>
MCFxCells == <<0>>
MCFx == <<81, 0>>

ASSUME TheseDisks == RootsAreDirs /\ OneMbr
=============================================================================
