------------------------------- MODULE Lwwire -------------------------------
(***************************************************************************)
(* lwwire/lwwire.c: a DriveWire server on a serial line.  It reads an      *)
(* opcode, reads the bytes that go with it, answers, and comes back for    *)
(* the next opcode.  Bytes are the numbers the program sees, since a byte  *)
(* that reaches the server out of step is taken as whatever it encodes.    *)
(*                                                                         *)
(* lwwire_readdata spins until all the bytes it wants are there, so a read *)
(* is one step, enabled once they are.  No extension is registered (the    *)
(* list stays all zero), so lwwire_reset changes nothing here.             *)
(***************************************************************************)
EXTENDS Integers, Sequences, SequencesExt

CONSTANTS
    SECZ,       \* bytes of a sector (256 in the code)
    Paths,      \* the drive numbers given an image with drive=N,PATH
    ReadOnly,   \* those given with drive=CN,PATH
    Images,     \* the images at the start: a function from sectors for each
    Clock       \* the six bytes TIME answers with

ByteVal == 0..255
Sector == [1..SECZ -> ByteVal]
Lsn == 0..(2^24 - 1)

ASSUME ServerAssumption ==
    /\ SECZ \in Nat \ {0}
    /\ Paths \subseteq ByteVal /\ ReadOnly \subseteq Paths
    /\ DOMAIN Images = Paths
    /\ \A d \in Paths : DOMAIN Images[d] \subseteq Lsn
    /\ \A d \in Paths : \A n \in DOMAIN Images[d] : Images[d][n] \in Sector
    /\ Clock \in Seq(ByteVal) /\ Len(Clock) = 6

CHECKSUM == 243   \* LWERR_CHECKSUM, 0xF3
WRITEERR == 245   \* LWERR_WRITE, 0xF5
NOTREADY == 246   \* LWERR_NOTREADY, 0xF6

VARIABLES
    up,        \* bytes on their way from the client to the server
    down,      \* bytes on their way back
    hangup,    \* the client's end of the line is closed
    disk,      \* the images: a function from sectors for each drive
    sp,        \* where the server is
    op,        \* the opcode it is handling
    reply,     \* READEX: status and checksum kept while the client answers
    lpr        \* lpr.log, what was printed

line == <<up, down, hangup>>
server == <<disk, sp, op, reply, lpr>>

-----------------------------------------------------------------------------
(* Bytes *)

Sum(s) ==
    LET upto[i \in 0..Len(s)] == IF i = 0 THEN 0 ELSE upto[i - 1] + s[i]
    IN  upto[Len(s)]
Zeros == [i \in 1..SECZ |-> 0]

(* Sector numbers travel as three bytes, checksums as two, high byte first. *)
LsnBytes(n) == <<(n \div 65536) % 256, (n \div 256) % 256, n % 256>>
(* Mutant: the middle byte is not shifted. *)
LsnOfUnshifted(b) == b[1] * 65536 + b[2] + b[3]
LsnOf(b) == b[1] * 65536 + b[2] * 256 + b[3]
Word(n) == <<(n \div 256) % 256, n % 256>>
WordOf(b) == b[1] * 256 + b[2]

-----------------------------------------------------------------------------
(* Opcodes, by what the server does on them, and the bytes each one takes *)

QuietOps == {0, 70, 73, 84, 248, 254, 255}   \* NOOP, PRINTFLUSH, INIT, TERM, RESET1-3
TIME == 35
DWINIT == 90
READ == {82, 114}
WRITE == {87, 119}
READEX == {210, 242}
STAT == {71, 83}
PRINT == 80
REQUESTEXT == 240
DISABLEEXT == 241
EXTENSIONOP == 243

Takes ==
    [o \in READ \cup READEX \cup WRITE \cup STAT
             \cup {EXTENSIONOP, PRINT, DWINIT, REQUESTEXT, DISABLEEXT} |->
        CASE o \in READ \cup READEX -> 4
          [] o \in WRITE -> 4 + SECZ + 2
          [] o \in STAT \cup {EXTENSIONOP} -> 2
          [] OTHER -> 1]

Needs == IF sp = "op" THEN 1 ELSE IF sp = "args" THEN Takes[op] ELSE 2
Reading == sp \in {"op", "args", "cksum"}

(* lwwire_readdata, given that the bytes are there *)
Args == SubSeq(up, 1, Needs)
Take == Reading /\ Len(up) >= Needs /\ up' = SubSeq(up, Needs + 1, Len(up))

(* lwwire_write *)
Answer(s) == down' = down \o s

-----------------------------------------------------------------------------
(* Disk images: lwwire_fetch_sector, lwwire_save_sector.  A sector past    *)
(* the end of an image reads as zeros, and writing one extends the image.  *)

Fetch(d, n) ==
    IF d \notin Paths THEN [ec |-> NOTREADY, data |-> Zeros]
    ELSE [ec |-> 0, data |-> IF n \in DOMAIN disk[d] THEN disk[d][n] ELSE Zeros]

SaveStatus(d) ==
    IF d \in ReadOnly THEN WRITEERR ELSE IF d \notin Paths THEN NOTREADY ELSE 0

With(f, n, s) == [m \in DOMAIN f \cup {n} |-> IF m = n THEN s ELSE f[m]]

Save(d, n, s) ==
    disk' = IF SaveStatus(d) = 0 THEN [disk EXCEPT ![d] = With(@, n, s)] ELSE disk

-----------------------------------------------------------------------------
(* The main loop *)

Dispatch ==
    /\ sp = "op" /\ Take
    /\ op' = Head(up)
    /\ UNCHANGED <<hangup, disk, reply, lpr>>

Ignored == Dispatch /\ op' \in QuietOps /\ UNCHANGED <<sp, down>>

TellTime == Dispatch /\ op' = TIME /\ Answer(Clock) /\ UNCHANGED sp

WithArgs == Dispatch /\ op' \in DOMAIN Takes /\ sp' = "args" /\ UNCHANGED down

(* lwwire_protoerror: radio silence, then a reset *)
Unrecognized ==
    /\ Dispatch /\ op' \notin QuietOps \cup {TIME} \cup DOMAIN Takes
    /\ sp' = "silent" /\ UNCHANGED down

SilenceOver == sp = "silent" /\ sp' = "op" /\ UNCHANGED <<line, disk, op, reply, lpr>>

-----------------------------------------------------------------------------
(* The handlers *)

Handle(ops) ==
    /\ sp = "args" /\ op \in ops /\ Take
    /\ op # PRINT => UNCHANGED lpr
    /\ UNCHANGED <<hangup, op>>

(* Mutant: no early return on an error. *)
lwwire_proto_read_on ==
    /\ Handle(READ) /\ sp' = "op"
    /\ \E f \in {Fetch(Args[1], LsnOf(Tail(Args)))} :
         Answer(<<f.ec>> \o f.data \o Word(Sum(f.data)))
    /\ UNCHANGED <<disk, reply>>

lwwire_proto_read ==
    /\ Handle(READ) /\ sp' = "op"
    /\ \E f \in {Fetch(Args[1], LsnOf(Tail(Args)))} :
         Answer(IF f.ec # 0 THEN <<f.ec>> ELSE <<0>> \o f.data \o Word(Sum(f.data)))
    /\ UNCHANGED <<disk, reply>>

(* Mutant: what lwwire_save_sector returns is dropped. *)
lwwire_proto_write_ok ==
    /\ Handle(WRITE) /\ sp' = "op"
    /\ \E d \in {Args[1]}, n \in {LsnOf(SubSeq(Args, 2, 4))}, s \in {SubSeq(Args, 5, 4 + SECZ)} :
         IF Sum(s) # WordOf(SubSeq(Args, 5 + SECZ, 6 + SECZ))
         THEN Answer(<<CHECKSUM>>) /\ UNCHANGED disk
         ELSE Save(d, n, s) /\ Answer(<<0>>)
    /\ UNCHANGED reply

lwwire_proto_write ==
    /\ Handle(WRITE) /\ sp' = "op"
    /\ \E d \in {Args[1]}, n \in {LsnOf(SubSeq(Args, 2, 4))}, s \in {SubSeq(Args, 5, 4 + SECZ)} :
         IF Sum(s) # WordOf(SubSeq(Args, 5 + SECZ, 6 + SECZ))
         THEN Answer(<<CHECKSUM>>) /\ UNCHANGED disk
         ELSE Save(d, n, s) /\ Answer(<<SaveStatus(d)>>)
    /\ UNCHANGED reply

lwwire_proto_readex ==
    /\ Handle(READEX) /\ sp' = "cksum"
    /\ \E f \in {Fetch(Args[1], LsnOf(Tail(Args)))} :
         Answer(f.data) /\ reply' = [ec |-> f.ec, csum |-> Sum(f.data)]
    /\ UNCHANGED disk

(* Mutant: the status goes out whatever checksum the client sends. *)
ReadexStatusBlind ==
    /\ sp = "cksum" /\ Take /\ sp' = "op"
    /\ Answer(<<reply.ec>>)
    /\ UNCHANGED <<hangup, disk, op, reply, lpr>>

ReadexStatus ==
    /\ sp = "cksum" /\ Take /\ sp' = "op"
    /\ Answer(<<IF WordOf(Args) # reply.csum THEN CHECKSUM ELSE reply.ec>>)
    /\ UNCHANGED <<hangup, disk, op, reply, lpr>>

InitReply == Handle({DWINIT}) /\ sp' = "op" /\ Answer(<<128>>) /\ UNCHANGED <<disk, reply>>

Burn == Handle(STAT) /\ sp' = "op" /\ UNCHANGED <<down, disk, reply>>

LogPrint ==
    /\ Handle({PRINT}) /\ sp' = "op"
    /\ lpr' = Append(lpr, Args[1])
    /\ UNCHANGED <<down, disk, reply>>

lwwire_proto_requestextension ==
    Handle({REQUESTEXT}) /\ sp' = "op" /\ Answer(<<85>>) /\ UNCHANGED <<disk, reply>>

lwwire_proto_disableextension ==
    Handle({DISABLEEXT}) /\ sp' = "op" /\ Answer(<<66>>) /\ UNCHANGED <<disk, reply>>

lwwire_proto_extensionop ==
    Handle({EXTENSIONOP}) /\ sp' = "silent" /\ UNCHANGED <<down, disk, reply>>

(* The line is closed and the bytes left on it are not enough. *)
Eof ==
    /\ hangup /\ Reading /\ Len(up) < Needs
    /\ sp' = "exited" /\ up' = << >>
    /\ UNCHANGED <<down, hangup, disk, op, reply, lpr>>

Server ==
    \/ Ignored \/ TellTime \/ WithArgs \/ Unrecognized \/ SilenceOver
    \/ lwwire_proto_read \/ lwwire_proto_write \/ lwwire_proto_readex \/ ReadexStatus
    \/ InitReply \/ Burn \/ LogPrint \/ Eof
    \/ lwwire_proto_requestextension \/ lwwire_proto_disableextension
    \/ lwwire_proto_extensionop

(* read(0, ...) fails: an error state between requests, the end inside one *)
ReadError ==
    /\ Reading
    /\ sp' = IF sp = "op" THEN "silent" ELSE "exited"
    /\ UNCHANGED <<line, disk, op, reply, lpr>>

ServerInit ==
    /\ up = << >> /\ down = << >> /\ hangup = FALSE
    /\ disk = Images /\ sp = "op" /\ op = 0 /\ reply = [ec |-> 0, csum |-> 0]
    /\ lpr = << >>

(* The server will send nothing more until something happens to the line. *)
Quiet ==
    \/ sp \in {"silent", "exited"}
    \/ Len(up) < Needs

DiskType ==
    /\ DOMAIN disk = Paths
    /\ \A d \in Paths : DOMAIN disk[d] \subseteq Lsn
    /\ \A d \in Paths : \A n \in DOMAIN disk[d] : disk[d][n] \in Sector

ServerTypeOK ==
    /\ up \in Seq(ByteVal) /\ down \in Seq(ByteVal) /\ hangup \in BOOLEAN
    /\ DiskType
    /\ sp \in {"op", "args", "cksum", "silent", "exited"}
    /\ op \in ByteVal /\ (sp = "args" => op \in DOMAIN Takes)
    /\ reply.ec \in ByteVal /\ reply.csum \in Nat /\ lpr \in Seq(ByteVal)
=============================================================================
