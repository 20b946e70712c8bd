------------------------------- MODULE LzwInv -------------------------------
(***************************************************************************)
(* The inductive invariants behind the properties of Uncompress.  They     *)
(* read what was sent in runs: the codes from a CLEAR, or the start, up to *)
(* the next.  The m-th entry of either dictionary is made when the m-th    *)
(* code of its run is followed by another, and stands for the bytes of     *)
(* that code and the byte behind them, wherever they are in the text.      *)
(***************************************************************************)
EXTENDS Uncompress

Byte == 0..(ALPHA - 1)
Live(d) == (CLEAR + 1)..(d.nexti - 1)
IsDict(d) ==
    /\ d = [entry |-> d.entry, nexti |-> d.nexti, bits |-> d.bits]
    /\ \E m \in CLEAR..(Shl(DMAX) - 1) : d.entry \in [(CLEAR + 1)..m -> Nat \X Byte]
    /\ d.nexti \in Nat /\ d.bits \in Nat /\ Live(d) \subseteq DOMAIN d.entry

(* A dictionary that its codes can name. *)
Named(d) == IsDict(d) /\ d.nexti \in (CLEAR + 1)..Shl(d.bits) /\ d.bits \in BITS0..DMAX

EncoderTyped ==
    /\ cpc \in {"start", "read", "done", "runaway"}
    /\ text \in Seq(Byte) /\ w \in Nat /\ zbits \in Seq({0, 1})
    /\ Named(ed) /\ ed.bits = BITS0

DecoderTyped ==
    /\ upc \in {"wait", "args", "ask", "openout", "header", "first", "next", "flush", "abort",
                "exit0", "exit1", "runaway", "overflow"}
    /\ Named(dd) /\ prev \in Nat /\ inb \in Seq({0, 1})
    /\ obuf \in Seq(Byte) /\ Len(obuf) < BUFZ /\ faults \in 0..MaxFaults
    /\ \A n \in DOMAIN zs : zs[n].bits \in Seq({0, 1})
    /\ upc \in {"ask", "openout", "header"} => input \in DOMAIN zs
    /\ upc # "wait" => cpc = "done" /\ "a" \in DOMAIN zs /\ zs["a"].bits = zbits

Typed == EncoderTyped /\ DecoderTyped

-----------------------------------------------------------------------------
(* An existing file that was not agreed on is never the output. *)
Agreed(n) == n \in DOMAIN old \ {Stdout} => fflg \/ n \in agreed

TargetInv ==
    /\ DOMAIN old \subseteq DOMAIN files
    /\ Agreed(output)
    /\ upc = "openout" => Agreed(input)

-----------------------------------------------------------------------------
(* Codes in step: where the bits of each code are, and how long runs get.  *)
Code(k) == sent[k][1]
Starts(j) == j = 1 \/ Code(j - 1) = CLEAR
Run(j, k) == Starts(j) /\ \A i \in j..k : Code(i) # CLEAR
Room == Shl(BITS0) - CLEAR - 1

Piece(b, k) == SubSeq(b, (k - 1) * BITS0 + 1, k * BITS0)

Packed ==
    /\ sent \in Seq(Nat \X {BITS0})
    /\ \A k \in 1..Len(sent) : ValueOf(Piece(zbits, k)) = Code(k)
    /\ IF cpc = "done" THEN sent # <<>> /\ Len(zbits) - Len(sent) * BITS0 \in 0..(BYTE - 1)
       ELSE Len(zbits) = Len(sent) * BITS0

RunsShort ==
    /\ \A j \in 1..Len(sent) : Starts(j) /\ (j = Len(sent) => cpc # "done") => Code(j) # CLEAR
    /\ \A k \in 1..(Len(sent) - 1) : \A j \in 1..k : Run(j, k) => k - j + 1 <= Room

(* The run that is being written, from code j on. *)
Writing(j) == Run(j, Len(sent)) /\ ed.nexti = CLEAR + 2 + Len(sent) - j

EncodeInv ==
    /\ Packed /\ RunsShort
    /\ cpc = "start" => sent = <<>> /\ kept = <<>>
    /\ cpc = "read" =>
        /\ \E j \in 1..(Len(sent) + 1) : Writing(j)
        /\ \/ w \in Byte \cup (CLEAR + 1)..(Shl(BITS0) - 1)
           \/ text = <<>> /\ sent = <<>> /\ kept = <<>>

(* The run that is being read, from code j on. *)
Reading(j) == Run(j, Len(got)) /\ dd.nexti = CLEAR + 1 + Len(got) - j

Decoding ==
    /\ IsPrefix(got, sent)
    /\ Len(got) = Len(sent) => Len(inb) < BITS0
    /\ Len(got) < Len(sent) =>
        /\ inb = SubSeq(zbits, Len(got) * BITS0 + 1, Len(zbits)) /\ dd.bits = BITS0
        /\ upc = "first" => Starts(Len(got) + 1) /\ dd.nexti = CLEAR + 1
        /\ upc = "next" => \E j \in 1..Len(got) : Reading(j)

DecodeInv ==
    /\ got \in Seq(Nat \X Nat)
    /\ upc \in {"ask", "openout", "header"} => got = <<>>
    /\ input = "a" /\ upc \in {"first", "next"} => Decoding
    /\ InStep

-----------------------------------------------------------------------------
(* Codes mean text: code k brings kept from Before(k) to ends[k].          *)

(* The n bytes of kept from behind a are the bytes from behind b. *)
Repeats(a, b, n) == \A i \in 1..n : kept[a + i] = kept[b + i]

(* In a run from code j on, the bytes of kept from behind a to e are what  *)
(* code c stands for.                                                      *)
Maker(j, c) == j + c - CLEAR - 1
Means_(j, c, a, e) ==
    /\ c \in Byte => e = a + 1 /\ kept[e] = c
    /\ c > CLEAR =>
        LET q == Maker(j, c)
        IN  e - a = ends[q] - Before(q) + 1 /\ Repeats(a, Before(q), e - a)

CutAt(k) ==
    /\ Before(k) <= ends[k] /\ ends[k] <= Len(kept)
    /\ Code(k) = CLEAR => ends[k] = Before(k)
    /\ Starts(k) => Code(k) \in Byte
    /\ \A j \in 1..k : Run(j, k) =>
        /\ Code(k) > CLEAR => Maker(j, Code(k)) \in j..(k - 1)
        /\ Means_(j, Code(k), Before(k), ends[k])
        /\ ends[k] - Before(k) <= k - j + 1

Cut == ends \in Seq(Nat) /\ Len(ends) = Len(sent) /\ \A k \in 1..Len(sent) : CutAt(k)

(* The live entries of dictionary d, in a run from code j on. *)
Holds(d, j) ==
    \A h \in Live(d) : LET q == Maker(j, h) IN d.entry[h] = <<Code(q), kept[ends[q] + 1]>>

(* What is kept but not sent is what w stands for. *)
Pending(j) ==
    LET n == Len(sent)
    IN  /\ w > CLEAR => Maker(j, w) \in j..n
        /\ Means_(j, w, Before(n + 1), Len(kept))
        /\ Before(n + 1) < Len(kept) /\ Len(kept) - Before(n + 1) <= n - j + 2

EncodedInv ==
    /\ kept \in Seq(Byte)
    /\ cpc = "start" => ends = <<>>
    /\ cpc = "read" /\ text # <<>> => kept # <<>>
    /\ Sound =>
        /\ cpc # "runaway"
        /\ Cut
        /\ cpc = "read" =>
            \A j \in 1..(Len(sent) + 1) : Writing(j) => Holds(ed, j) /\ Pending(j)
        /\ cpc = "done" =>
            Len(sent) > 0 /\ Code(Len(sent)) # CLEAR /\ ends[Len(sent)] = Len(kept)

(* While it is read, EncodedInv says how long the strings are. *)
FitsInv == (kept = <<>> => ed.nexti = CLEAR + 1) /\ (cpc # "read" => Fits)

(* What of the text is out when the codes read are. *)
Restored == SubSeq(kept, 1, Before(Len(got) + 1))

Opened == output \in DOMAIN files /\ start \in 0..pos /\ pos \in 0..Len(files[output])

FilesTyped ==
    /\ \A n \in DOMAIN files : files[n] \in Seq(Byte)
    /\ Stdout \in DOMAIN files
    /\ obuf # <<>> \/ upc \in {"header", "first", "next", "flush"} => Opened
    /\ upc \in {"wait", "args", "ask", "openout", "header"} => obuf = <<>>
    /\ upc = "header" => pos = start

DecodedInv ==
    Sound /\ input = "a" =>
        /\ upc # "runaway"
        /\ upc = "abort" => got = <<>>
        /\ upc = "flush" => Written = kept
        /\ upc \in {"first", "next"} => Written = Restored
        /\ upc = "first" => Len(got) < Len(sent)
        /\ upc = "next" /\ Len(got) < Len(sent) =>
            /\ prev = Code(Len(got))
            /\ \A j \in 1..Len(got) : Reading(j) => Holds(dd, j)

LzwInv ==
    /\ TargetInv /\ EncodeInv /\ DecodeInv /\ EncodedInv /\ FitsInv
    /\ FilesTyped /\ DecodedInv
=============================================================================
