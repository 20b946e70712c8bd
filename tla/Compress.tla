------------------------------- MODULE Compress -------------------------------
(***************************************************************************)
(* uncompress/compress.c: standard input to standard output, one action    *)
(* per byte.  The output is a file's header and its bits; it is written in *)
(* whole bytes at the end.                                                 *)
(***************************************************************************)
EXTENDS Lzw

VARIABLES
    cpc,      \* "start", "read", "done", or "runaway" in buildstr
    text,     \* the input that is left
    w, ed,    \* the code of what was matched, the encoder's dictionary
    zbits,    \* the bits put out
    sent,     \* for the properties: the codes put out with their widths,
    kept,     \* the bytes read but those dropped,
    ends,     \* how many of them each code sent brings them to,
    stale     \* and whether w was an entry when the dictionary was cleared

cvars == <<cpc, text, w, ed, zbits, sent, kept, ends, stale>>

\* Mutant: it takes what it has found.
mymaxbits_found == BITS0 + 1
\* myalloc finds out how many bits there is memory for, and takes 9.
mymaxbits == BITS0

CInit ==
    /\ cpc = "start" /\ w = 0 /\ ed = NoDict /\ zbits = <<>>
    /\ sent = <<>> /\ kept = <<>> /\ ends = <<>> /\ stale = FALSE

\* Bytes of kept that are out before code k is.
Before(k) == IF k = 1 THEN 0 ELSE ends[k - 1]

outsym(s, n) ==
    /\ zbits' = zbits \o BitsOf(s, n)
    /\ sent' = Append(sent, <<s % Shl(n), n>>)
    /\ ends' = Append(ends, IF s = CLEAR THEN Before(Len(sent) + 1) ELSE Len(kept))

\* inbyte's -1, at the end of an empty input, is a code of all ones.
Minus1 == 65535

CStart ==
    /\ cpc = "start" /\ cpc' = "read"
    /\ IF text = <<>> THEN w' = Minus1 /\ UNCHANGED <<text, kept>>
       ELSE w' = Head(text) /\ text' = Tail(text) /\ kept' = <<Head(text)>>
    /\ ed' = cleardict(ed)
    /\ UNCHANGED <<zbits, sent, ends, stale>>

Match(h, s) == buildstr(ed, h).str = s /\ buildstr(ed, h).well
Entries == (CLEAR + 1)..(ed.nexti - 1)

(***************************************************************************)
(* exist looks the string of w and the byte up, entry after entry.  A      *)
(* prefix that leads back to itself never ends.                            *)
(***************************************************************************)
Found(s) == {h \in Entries : Match(h, s) /\ \A g \in Entries : g < h => ~Match(g, s)}
Endless(s) ==
    \/ ~buildstr(ed, w).well
    \/ \E h \in Entries : ~buildstr(ed, h).well /\ \A g \in Found(s) : h < g

\* Mutant: the dictionary may grow over what a code can say.
FullLate == ed.nexti = Shl(ed.bits) + 1
Full == ed.nexti = Shl(ed.bits)

Ready(ch) == cpc = "read" /\ text # <<>> /\ ch = Head(text)
String(ch) == Append(buildstr(ed, w).str, ch)

Longer ==
    \E ch \in 0..(ALPHA - 1) : \E h \in Found(String(ch)) :
        /\ Ready(ch) /\ ~Endless(String(ch))
        /\ w' = h /\ text' = Tail(text) /\ kept' = Append(kept, ch)
        /\ UNCHANGED <<cpc, ed, zbits, sent, ends, stale>>

New(ch) == Ready(ch) /\ ~Endless(String(ch)) /\ Found(String(ch)) = {}

\* The code is put out after the entry was added, in the width it needs.
AddEntry ==
    \E ch \in 0..(ALPHA - 1) :
        /\ New(ch) /\ ~(Full /\ ed.bits = mymaxbits)
        /\ LET d == IF Full THEN [ed EXCEPT !.bits = @ + 1] ELSE ed
           IN  ed' = Added(d, w, ch) /\ outsym(w, d.bits)
        /\ w' = ch /\ text' = Tail(text) /\ kept' = Append(kept, ch)
        /\ UNCHANGED <<cpc, stale>>

\* No room: CLEAR is put out instead of w, which stays, and the byte is lost.
ClearDict ==
    \E ch \in 0..(ALPHA - 1) :
        /\ New(ch) /\ Full /\ ed.bits = mymaxbits
        /\ outsym(CLEAR, ed.bits) /\ ed' = cleardict(ed)
        /\ text' = Tail(text) /\ stale' = (stale \/ w >= CLEAR)
        /\ UNCHANGED <<cpc, w, kept>>

RunAway ==
    \E ch \in 0..(ALPHA - 1) :
        /\ Ready(ch) /\ Endless(String(ch)) /\ cpc' = "runaway"
        /\ UNCHANGED <<text, w, ed, zbits, sent, kept, ends, stale>>

\* The last code, and flushbits: the last byte is filled with zeros.
CEnd ==
    /\ cpc = "read" /\ text = <<>> /\ cpc' = "done"
    /\ LET n == Len(zbits) + ed.bits
       IN  zbits' = zbits \o BitsOf(w, ed.bits) \o [k \in 1..((BYTE - (n % BYTE)) % BYTE) |-> 0]
    /\ sent' = Append(sent, <<w % Shl(ed.bits), ed.bits>>)
    /\ ends' = Append(ends, Len(kept))
    /\ UNCHANGED <<text, w, ed, kept, stale>>

compress == CStart \/ Longer \/ AddEntry \/ ClearDict \/ RunAway \/ CEnd
=============================================================================
