------------------------------ MODULE Uncompress ------------------------------
(***************************************************************************)
(* uncompress/uncompress.c on what compress.c made of a text (the file     *)
(* "a.Z", or a pipe) and on files from elsewhere.  The two programs run    *)
(* one after the other, which shows the same as a pipe between them: each  *)
(* only reads or only writes it, in order.                                 *)
(*                                                                         *)
(* A file NAME.Z is zs[NAME]: [id, max, bits], whether it has the magic    *)
(* bytes, the width in its third byte and its bits.  files[NAME] is the    *)
(* bytes of NAME, files[Stdout] what went to standard output.  Owners and  *)
(* modes are left out.                                                     *)
(***************************************************************************)
EXTENDS Compress

CONSTANTS Argvs,      \* command lines: sequences of [flags, name]; of an option
                      \* its letters, of a file its name without ".Z"
          Texts(_),   \* the texts compressed for a command line
          OldZs, OldFiles,   \* the files there are; "a.Z" is not one of them
          DMAX,       \* the widest codes the decoder has memory for
          BUFZ,       \* bytes of the output buffer (512)
          MaxFaults   \* bound: calls that fail

Stdout == "stdout"

(***************************************************************************)
(* Texts are bytes and files bytes or bits; standard output is there.  The *)
(* decoder has memory for the codes the encoder writes: neither program    *)
(* runs on less than its first width (myalloc).                            *)
(***************************************************************************)
ASSUME UncompressAssumption ==
    /\ \A line \in Argvs : Texts(line) \subseteq Seq(0..(ALPHA - 1))
    /\ \A n \in DOMAIN OldZs : OldZs[n].bits \in Seq({0, 1})
    /\ \A old_files \in OldFiles :
         /\ Stdout \in DOMAIN old_files
         /\ \A n \in DOMAIN old_files : old_files[n] \in Seq(0..(ALPHA - 1))
    /\ DMAX \in Nat /\ BITS0 <= DMAX /\ BUFZ \in Nat \ {0} /\ MaxFaults \in Nat

VARIABLES
    upc,
    argv, cflg, fflg,            \* the arguments that are left; the flags
    zs, files,
    input, output, start, pos,   \* the names of both files, the offsets in the
                                 \* output where this file began and is
    last,                        \* whether to exit after this file
    inb,                         \* the bits of the open file that are left
    dd, prev, obuf,              \* the decoder's dictionary, last code, buffer
    got,                         \* for the properties: the codes read and widths,
    agreed, old,                 \* the files to overwrite, and the files there were
    faults

args == <<argv, cflg, fflg>>
target == <<input, output, start, pos, last>>
decoder == <<inb, dd, prev, obuf, got>>
rest == <<zs, agreed, old, faults>>
vars == <<cvars, upc, args, files, target, decoder, rest>>

Init ==
    /\ CInit /\ upc = "wait" /\ cflg = FALSE /\ fflg = FALSE
    /\ argv \in Argvs /\ text \in Texts(argv)
    /\ zs = OldZs /\ files \in OldFiles /\ old = files
    /\ input = Stdout /\ output = Stdout /\ start = 0 /\ pos = 0 /\ last = FALSE
    /\ inb = <<>> /\ dd = NoDict /\ prev = 0 /\ obuf = <<>> /\ got = <<>>
    /\ agreed = {} /\ faults = 0

Fault == faults < MaxFaults /\ faults' = faults + 1
Go(label) == upc' = label

\* compress > a.Z; then uncompress starts.
Compressed ==
    /\ upc = "wait" /\ cpc = "done" /\ Go("args")
    /\ zs' = With(zs, "a", [id |-> TRUE, max |-> mymaxbits, bits |-> zbits])
    /\ UNCHANGED <<cvars, args, files, target, decoder, agreed, old, faults>>

-----------------------------------------------------------------------------
(***************************************************************************)
(* main.                                                                   *)
(***************************************************************************)
Arg(a) == upc = "args" /\ argv # <<>> /\ a = Head(argv) /\ argv' = Tail(argv)

Option ==
    /\ \E a \in Range(argv) :
         /\ Arg(a) /\ a.flags # {}
         /\ cflg' = (cflg \/ "c" \in a.flags) /\ fflg' = (fflg \/ "f" \in a.flags)
         /\ Go(IF a.flags \subseteq {"c", "f", "v"} THEN "args" ELSE "exit1")
    /\ UNCHANGED <<cvars, files, target, decoder, rest>>

\* Standard output goes on where it was, a file from its start.
Opens(out) == start' = (IF out = Stdout THEN Len(files[Stdout]) ELSE 0) /\ pos' = start'

\* Standard input is what compress wrote.  No argument is like a lone dash.
pipeit ==
    /\ \E a \in Range(argv) : Arg(a) /\ a.flags = {} /\ a.name = Stdout
    /\ input' = "a" /\ output' = Stdout /\ Opens(Stdout) /\ last' = TRUE /\ Go("header")
    /\ got' = <<>> /\ UNCHANGED <<cvars, cflg, fflg, files, inb, dd, prev, obuf, rest>>

\* Mutant: who agreed once has agreed to all.
AsksOnce(n) == ~fflg /\ n \in DOMAIN files /\ agreed = {}
Asks(n) == ~fflg /\ n \in DOMAIN files

\* A name: the input must be there; the output must not, or the user is
\* asked, even when it would not be written.
OpenIn ==
    /\ \E a \in Range(argv) :
         /\ Arg(a) /\ a.flags = {} /\ a.name # Stdout
         /\ input' = a.name
         /\ Go(IF a.name \notin DOMAIN zs THEN "exit1"
               ELSE IF Asks(a.name) THEN "ask" ELSE "openout")
    /\ got' = <<>>
    /\ UNCHANGED <<cvars, cflg, fflg, files, output, start, pos, last, inb, dd, prev, obuf, rest>>

\* A name is closed once it is written, but outflush still calls write, for no
\* byte: where that is refused, it and myabort call each other until the stack
\* is used up.
EndsIn(label) == Go(label) \/ (output # Stdout /\ Go("overflow"))

\* Without a terminal to ask on, with a no or at its end, the program aborts.
Answer ==
    /\ upc = "ask"
    /\ \/ Go("openout") /\ agreed' = agreed \cup {input}
       \/ EndsIn("abort") /\ UNCHANGED agreed
    /\ UNCHANGED <<cvars, args, zs, files, target, decoder, old, faults>>

\* The output is made if it is not there, and not cut off if it is.
Made(n) == IF n \in DOMAIN files THEN files ELSE With(files, n, <<>>)

OpenOut ==
    /\ upc = "openout" /\ Go("header")
    /\ output' = (IF cflg THEN Stdout ELSE input) /\ Opens(output')
    /\ files' = IF cflg THEN files ELSE Made(input)
    /\ UNCHANGED <<cvars, args, input, last, decoder, rest>>

\* fstat or open fails, or fchown or fchmod when the file is made.
CallFails ==
    /\ upc = "openout" /\ Fault
    /\ \/ EndsIn("abort") /\ UNCHANGED files
       \/ Go("abort") /\ files' = IF cflg THEN files ELSE Made(input)
    /\ UNCHANGED <<cvars, args, target, decoder, zs, agreed, old>>

\* myexit.
Exit ==
    /\ upc = "args" /\ argv = <<>> /\ EndsIn("exit0")
    /\ UNCHANGED <<cvars, args, files, target, decoder, rest>>

-----------------------------------------------------------------------------
(***************************************************************************)
(* decompress.  It ends only where getbit has no bit left, so a new file   *)
(* starts with a new byte.                                                 *)
(***************************************************************************)
Header ==
    /\ upc = "header"
    /\ Go(IF zs[input].id /\ zs[input].max <= DMAX THEN "first" ELSE "abort")
    /\ inb' = zs[input].bits /\ dd' = cleardict(dd)
    /\ UNCHANGED <<cvars, args, files, target, prev, obuf, got, rest>>

\* getsym: at the end of the file, what bits there are.
eof == Len(inb) < dd.bits
Sym == ValueOf(SubSeq(inb, 1, IF eof THEN Len(inb) ELSE dd.bits))
getsym ==
    /\ inb' = IF eof THEN <<>> ELSE SubSeq(inb, dd.bits + 1, Len(inb))
    /\ got' = IF eof THEN got ELSE Append(got, <<Sym, dd.bits>>)

\* Mutant: the codes widen one entry early.
WidensEarly(d) == d.nexti + 1 >= Shl(d.bits) /\ d.bits < DMAX
Widens(d) == d.nexti >= Shl(d.bits) /\ d.bits < DMAX

adddict(d, prefix, suffix) ==
    IF d.nexti = Shl(d.bits) THEN d
    ELSE LET e == Added(d, prefix, suffix)
         IN  IF Widens(e) THEN [e EXCEPT !.bits = @ + 1] ELSE e

\* write: over what the file holds, from offset p on.
Over(file, p, s) == SubSeq(file, 1, p) \o s \o SubSeq(file, p + Len(s) + 1, Len(file))
Write(s) ==
    /\ files' = [files EXCEPT ![output] = Over(@, pos, s)]
    /\ pos' = pos + Len(s)

\* outbyte for each byte of s: a full buffer is written.
outbytes(s) ==
    LET all == obuf \o s
        n   == (Len(all) \div BUFZ) * BUFZ
    IN  Write(SubSeq(all, 1, n)) /\ obuf' = SubSeq(all, n + 1, Len(all))

Means(d, s) == buildstr(d, s).well

\* printsym, and what is next.  A code that stands for nothing has no end.
printsym(d, s) ==
    IF Means(d, s) THEN outbytes(buildstr(d, s).str) /\ Go("next")
    ELSE Go("runaway") /\ UNCHANGED <<files, pos, obuf>>

\* again: the code after the header or a CLEAR.
FirstSym ==
    /\ upc = "first" /\ getsym
    /\ prev' = Sym /\ printsym(dd, Sym)
    /\ UNCHANGED <<cvars, args, input, output, start, last, dd, rest>>

\* Mutant: the code that is not in the dictionary yet is taken for one that is.
LeadPlain(cur) == buildstr(dd, cur)
\* Mutant: the entry ends with the first byte of the code before.
LeadPrev(cur) == buildstr(dd, prev)

\* first, of the code itself or, when that is the entry to be made, of prev.
Lead(cur) == IF cur = dd.nexti THEN buildstr(dd, prev) ELSE buildstr(dd, cur)

NextSym ==
    /\ upc = "next" /\ ~eof /\ Sym <= dd.nexti /\ Sym # CLEAR
    /\ getsym /\ prev' = Sym
    /\ IF Lead(Sym).well
       THEN /\ dd' = adddict(dd, prev, Head(Lead(Sym).str))
            /\ printsym(dd', Sym)
       ELSE Go("runaway") /\ UNCHANGED <<dd, files, pos, obuf>>
    /\ UNCHANGED <<cvars, args, input, output, start, last, rest>>

Cleared ==
    /\ upc = "next" /\ ~eof /\ Sym = CLEAR /\ getsym
    /\ dd' = cleardict(dd) /\ Go("first")
    /\ UNCHANGED <<cvars, args, files, target, prev, obuf, rest>>

BadStream ==
    /\ upc = "next" /\ ~eof /\ Sym > dd.nexti /\ getsym /\ Go("abort")
    /\ UNCHANGED <<cvars, args, files, target, dd, prev, obuf, rest>>

EndOfFile ==
    /\ upc = "next" /\ eof /\ getsym /\ Go("flush")
    /\ UNCHANGED <<cvars, args, files, target, dd, prev, obuf, rest>>

\* outflush; pipeit exits.
Flush ==
    /\ upc = "flush" /\ Write(obuf) /\ obuf' = <<>>
    /\ Go(IF last THEN "exit0" ELSE "args")
    /\ UNCHANGED <<cvars, args, input, output, start, last, inb, dd, prev, got, rest>>

\* A write that goes on failing: outflush and myabort call each other until
\* the stack is used up.
WriteFails ==
    /\ upc \in {"first", "next", "flush"} /\ obuf # <<>> /\ Fault /\ Go("overflow")
    /\ UNCHANGED <<cvars, args, files, target, decoder, zs, agreed, old>>

\* myabort: what is in the buffer is written.
Abort ==
    /\ upc = "abort" /\ Go("exit1")
    /\ IF obuf = <<>> THEN UNCHANGED <<files, pos>> ELSE Write(obuf)
    /\ obuf' = <<>>
    /\ UNCHANGED <<cvars, args, input, output, start, last, inb, dd, prev, got, rest>>

-----------------------------------------------------------------------------
main == Option \/ pipeit \/ OpenIn \/ Answer \/ OpenOut \/ CallFails \/ Exit \/ Abort
decompress ==
    \/ Header \/ FirstSym \/ NextSym \/ Cleared \/ BadStream \/ EndOfFile \/ Flush
    \/ WriteFails

Next ==
    \/ upc = "wait" /\ compress
                    /\ UNCHANGED <<upc, args, files, target, decoder, rest>>
    \/ Compressed \/ main \/ decompress

Spec == Init /\ [][Next]_vars

-----------------------------------------------------------------------------
(***************************************************************************)
(* Properties.  A dictionary that is cleared while w is an entry leaves    *)
(* both programs with a code whose meaning is lost (compress.c:271); they  *)
(* are about all other texts.                                              *)
(***************************************************************************)
Sound == ~stale /\ kept # <<>>

\* The variables have their types; the encoder's dictionary never has more
\* entries than its codes can name.
TypeOK ==
    /\ cpc \in {"start", "read", "done", "runaway"}
    /\ upc \in {"wait", "args", "ask", "openout", "header", "first", "next", "flush", "abort",
                "exit0", "exit1", "runaway", "overflow"}
    /\ text \in Seq(0..(ALPHA - 1)) /\ Range(zbits) \subseteq {0, 1}
    /\ ed.nexti \in (CLEAR + 1)..Shl(ed.bits) /\ dd.nexti \in (CLEAR + 1)..Shl(dd.bits)
    /\ ed.bits = mymaxbits /\ dd.bits \in BITS0..DMAX
    /\ Len(obuf) < BUFZ /\ faults \in 0..MaxFaults

\* The decoder, one entry behind, reads every code in the width it was put
\* out, past every CLEAR and whatever is in the dictionary (compress.c:142 and
\* 277, uncompress.c:170).
InStep == input = "a" /\ upc \in {"first", "next", "flush", "abort", "runaway"} =>
          IsPrefix(got, sent)

\* What uncompress writes for compress's output is the text, except the byte
\* read at each CLEAR, which is lost: all the way a prefix of it, in the end
\* all of it (compress.c:245-283, uncompress.c:184-236).
Written == IF output \in DOMAIN files THEN SubSeq(files[output], start + 1, pos) \o obuf ELSE obuf
Decoded ==
    Sound /\ input = "a" =>
      /\ upc \in {"first", "next", "flush"} => IsPrefix(Written, kept)
      /\ upc = "flush" => Written = kept

\* Neither program follows a prefix that leads back to itself or to no entry,
\* and the decoder does not refuse the stream (buildstr, compress.c:200;
\* printsym and first, uncompress.c:145-160, 220).
Grounded ==
    Sound => /\ cpc # "runaway"
             /\ input = "a" => upc # "runaway" /\ (upc = "abort" => got = <<>>)

\* The string of every entry fits the buffers st and st1 of the encoder: there
\* are as many bytes in them as entries in a full dictionary, and one (256)
\* (compress.c:200-217).
Fits ==
    ~stale => \A h \in Entries : Len(buildstr(ed, h).str) <= Shl(BITS0) - ALPHA

\* A file that was there is only changed if -f came before it or the user said
\* yes to that file (uncompress.c:346-363).
OldKept ==
    \A n \in DOMAIN old \ {Stdout} : n \in DOMAIN files /\ (files[n] # old[n] => fflg \/ n \in agreed)
=============================================================================
