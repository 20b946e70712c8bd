---------------------------------- MODULE Lzw ----------------------------------
(***************************************************************************)
(* What uncompress/compress.c and uncompress/uncompress.c share: the       *)
(* dictionary of the LZW code and codes as bits.  Bytes are 0..ALPHA-1;    *)
(* CLEAR is the code behind them and the dictionary's entries, a prefix    *)
(* code and a suffix byte, follow.                                         *)
(***************************************************************************)
EXTENDS Integers, Sequences, SequencesExt, FiniteSets

CONSTANTS ALPHA,    \* byte values (256)
          BITS0,    \* bits of a code in an empty dictionary (9)
          BYTE      \* bits of a byte (8)

\* 1 << n, the number of codes of n bits
Shl(n) == LET at[k \in 0..n] == IF k = 0 THEN 1 ELSE 2 * at[k - 1] IN at[n]

(***************************************************************************)
(* There is room for an entry, and a code is wider than what is put behind *)
(* the last one to fill its byte.                                          *)
(***************************************************************************)
ASSUME Widths ==
    /\ ALPHA \in Nat \ {0} /\ BITS0 \in Nat /\ BYTE \in Nat \ {0}
    /\ Shl(BITS0) > ALPHA + 1 /\ BYTE < BITS0

CLEAR == ALPHA

With(e, c, v) == [k \in DOMAIN e \cup {c} |-> IF k = c THEN v ELSE e[k]]

(***************************************************************************)
(* ref and app as one table, entry; nexti; bits.  Clearing forgets no      *)
(* entry: what lies behind nexti is as it was.                             *)
(***************************************************************************)
NoDict == [entry |-> <<>>, nexti |-> CLEAR + 1, bits |-> BITS0]
cleardict(d) == [entry |-> d.entry, nexti |-> CLEAR + 1, bits |-> BITS0]
Added(d, prefix, suffix) ==
    [entry |-> With(d.entry, d.nexti, <<prefix, suffix>>), nexti |-> d.nexti + 1, bits |-> d.bits]

\* The bytes a code stands for, in front of those found, along the prefixes;
\* well tells that the walk came to an end at a byte.
Walk(d, acc) ==
    IF acc.well \/ acc.code \notin (0..(ALPHA - 1)) \cup DOMAIN d.entry THEN acc
    ELSE IF acc.code < ALPHA THEN [acc EXCEPT !.str = <<acc.code>> \o @, !.well = TRUE]
    ELSE [acc EXCEPT !.str = <<d.entry[acc.code][2]>> \o @, !.code = d.entry[acc.code][1]]

\* A walk of n steps from code s.  One that is longer than there are entries
\* has come back to where it was.
Walked(d, s, n) ==
    LET at[k \in 0..n] == IF k = 0 THEN [code |-> s, str |-> <<>>, well |-> FALSE]
                          ELSE Walk(d, at[k - 1])
    IN  at[n]
buildstr(d, s) == Walked(d, s, Cardinality(DOMAIN d.entry) + 1)

\* A code on its way, the lowest bit first: s >> n, its lowest n bits, and
\* what bits b are as a code.
Shr(s, n) == LET at[k \in 0..n] == IF k = 0 THEN s ELSE at[k - 1] \div 2 IN at[n]
BitsOf(s, n) == [k \in 1..n |-> Shr(s, k - 1) % 2]
ValueOf(b) ==
    LET at[k \in 0..Len(b)] == IF k = 0 THEN 0 ELSE b[Len(b) + 1 - k] + 2 * at[k - 1]
    IN  at[Len(b)]
=============================================================================
