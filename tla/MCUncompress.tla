----------------------------- MODULE MCUncompress -----------------------------
(***************************************************************************)
(* Uncompress with three byte values, codes of three bits (so that four    *)
(* entries fill the dictionary) and bytes of two.                          *)
(***************************************************************************)
EXTENDS LzwInv, TLC

Opt(s)  == [flags |-> s, name |-> ""]
File(n) == [flags |-> {}, name |-> n]
Dash == File(Stdout)

MCArgvs == {<<Dash>>, <<File("a")>>, <<Opt({"c"}), File("a"), File("b"), Dash>>,
            <<File("a"), File("b")>>, <<File("b"), Opt({"f", "v"}), File("a")>>,
            <<File("wide"), File("a")>>, <<File("bad")>>, <<File("none")>>,
            <<File("odd"), File("a")>>, <<Opt({"c", "x"})>>}

\* All texts of up to seven bytes through a pipe; three that fill the dictionary
\* more than once or with ever longer strings; a few for the files.
Long == {<<0, 2, 0, 1, 0, 0, 0, 2, 2, 0, 1, 2, 0, 0>>, [k \in 1..18 |-> 0],
         [k \in 1..16 |-> k % 2]}
MCTexts(line) == IF line = <<Dash>> THEN UNION {[1..n -> Byte] : n \in 0..7} \cup Long
                 ELSE {<<>>, <<1>>, <<0, 0, 0, 1, 0, 2>>}

\* "b.Z" holds 2 1; "odd.Z" a code that is not in the dictionary.
Z(ok, m, b) == [id |-> ok, max |-> m, bits |-> b]
MCZs == "b" :> Z(TRUE, 3, <<0, 1, 0, 1, 0, 0>>) @@ "bad" :> Z(FALSE, 3, <<>>)
        @@ "wide" :> Z(TRUE, 16, <<0, 0, 0>>) @@ "odd" :> Z(TRUE, 3, <<1, 0, 0, 0, 1, 1>>)
MCFiles == {Stdout :> <<>>,
            Stdout :> <<>> @@ "a" :> <<2, 2, 2, 2, 2, 2, 2, 2>> @@ "b" :> <<0>>}
=============================================================================
