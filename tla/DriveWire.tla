------------------------------ MODULE DriveWire ------------------------------
(***************************************************************************)
(* The two ends of a DriveWire line: the lwwire server, and the booter's   *)
(* client (booter/dw.c, and dw_ll.s with the Becker port routines of       *)
(* dwread-6809.s and dwwrite-6809.s).  The client reads a block of two     *)
(* sectors with READEX: request, sector, checksum, status.  Nothing on the *)
(* line says where a request or an answer begins.                          *)
(*                                                                         *)
(* The kernel, which is not in this repository, uses the server as well    *)
(* (WRITE and the other opcodes): CallWrite and CallOther stand for it.    *)
(***************************************************************************)
EXTENDS Lwwire

CONSTANTS
    Blocks,      \* block numbers given to dw_read
    Drives,      \* drive numbers given to dw_init and to WRITE
    WriteLsns, WriteData,   \* sectors and contents of WRITE
    Others,      \* other requests: the bytes, and how many are answered
    Late,        \* answers may come after the client gave up on them
    Noise,       \* what a byte of an answer may turn into
    MaxCalls, MaxLoss, MaxNoise

ASSUME ClientAssumption ==
    /\ Blocks \subseteq Nat /\ Drives \subseteq ByteVal /\ WriteLsns \subseteq Lsn
    /\ WriteData \subseteq Sector /\ Noise \subseteq ByteVal /\ Late \in BOOLEAN
    /\ MaxCalls \in Nat /\ MaxLoss \in Nat /\ MaxNoise \in Nat

(* A request of the kernel is one request, and it knows how many bytes the *)
(* server answers: its writes are CallWrite, and it does not use READEX.   *)
Answers(s) ==
    IF s[1] = TIME THEN 6
    ELSE IF s[1] \in READ THEN IF s[2] \in Paths THEN SECZ + 3 ELSE 1
    ELSE IF s[1] \in {DWINIT, REQUESTEXT, DISABLEEXT} THEN 1 ELSE 0

ASSUME OthersAssumption ==
    \A t \in Others :
        /\ t.send \in Seq(ByteVal) /\ t.send # << >>
        /\ t.send[1] \notin WRITE \cup READEX
        /\ Len(t.send) = 1 + (IF t.send[1] \in DOMAIN Takes THEN Takes[t.send[1]] ELSE 0)
        /\ t.want = Answers(t.send)

VARIABLES
    cp,       \* where the client is
    drive,    \* b2[1], the drive of the last dw_init
    call,     \* the running or last call
    sect,     \* sector being read
    data,     \* the caller's buffer
    err,      \* ret of the first transaction of a sector was not 0
    ret,      \* what the last call returned
    failed,   \* some earlier call did not return 0
    calls, lost, noise,  \* calls made, bytes lost, bytes changed
    strange   \* a request was sent that the server answers with silence

client == <<cp, drive, call, sect, data, err, ret, failed, calls>>
faults == <<lost, noise, strange>>
vars == <<line, server, client, faults>>

BLKLIMIT == 2^23   \* dw_read refuses a block with any of the bits 0xff800000

-----------------------------------------------------------------------------
(* dw_trans: DWWrite sends, DWRead reads n bytes or gives up.  It returns   *)
(* in dw_cksum the sum of the bytes, or, when it gave up, the number that   *)
(* were missing (register Y either way).                                    *)

(* Mutant: the Arduino variant of DWRead, which never gives up. *)
TransForever(n) == {[got |-> SubSeq(down, 1, n), ok |-> TRUE] : k \in {j \in {n} : j <= Len(down)}}

Trans(n) ==
    {[got |-> SubSeq(down, 1, k), ok |-> k = n] :
        k \in {j \in 0..n : /\ j <= Len(down)
                            /\ j = n \/ Late \/ (j = Len(down) /\ Quiet)}}

(* Mutant: the sum is kept in eight bits. *)
Cksum8(n, r) == IF r.ok THEN Sum(r.got) % 256 ELSE n - Len(r.got)
Cksum(n, r) == IF r.ok THEN Sum(r.got) % 65536 ELSE n - Len(r.got)

Received(r) == down' = SubSeq(down, Len(r.got) + 1, Len(down))
Send(s) == up' = up \o s

Starts(c, next) ==
    /\ cp = "idle" /\ calls < MaxCalls
    /\ cp' = next /\ call' = c /\ calls' = calls + 1
    /\ data' = << >> /\ err' = FALSE

Returns(v) == cp' = "idle" /\ ret' = v /\ failed' = (failed \/ v # 0)

-----------------------------------------------------------------------------
(* dw_init *)

dw_init(d) ==
    /\ Starts([fn |-> "dw_init"], "init") /\ drive' = d
    /\ Send(<<DWINIT, 0>>)
    /\ UNCHANGED <<server, faults, down, hangup, sect, ret, failed>>

InitDone ==
    /\ cp = "init"
    /\ \E r \in Trans(1) : Received(r) /\ Returns(IF r.ok THEN 0 ELSE 4)
    /\ UNCHANGED <<server, faults, up, hangup, drive, call, sect, data, err, calls>>

-----------------------------------------------------------------------------
(* dw_read *)

Request(n) == <<210, drive>> \o LsnBytes(n)

(* Mutant: the first block past the limit is let through. *)
TooBigOffByOne(b) == b > BLKLIMIT
TooBig(b) == b >= BLKLIMIT

dw_read_refuse(b) ==
    /\ TooBig(b)
    /\ cp = "idle" /\ calls < MaxCalls
    /\ call' = [fn |-> "dw_read", blk |-> b] /\ calls' = calls + 1
    /\ data' = << >> /\ err' = FALSE /\ Returns(-1)
    /\ UNCHANGED <<line, server, faults, drive, sect>>

dw_read(b) ==
    /\ ~TooBig(b)
    /\ Starts([fn |-> "dw_read", blk |-> b], "data")
    /\ sect' = 2 * b /\ Send(Request(2 * b))
    /\ UNCHANGED <<server, faults, down, hangup, drive, ret, failed>>

(* First transaction of read(): whatever came of it the checksum is sent. *)
ReadData ==
    /\ cp = "data" /\ cp' = "status"
    /\ \E r \in Trans(SECZ) :
         /\ Received(r) /\ err' = ~r.ok /\ data' = data \o r.got
         /\ Send(Word(Cksum(SECZ, r)))
    /\ UNCHANGED <<server, faults, hangup, drive, call, sect, ret, failed, calls>>

(* Second transaction: a byte that is not there leaves b2[4] as it was.    *)
(* dw_read goes on to its second sector when all of this came to 0; -1     *)
(* stands for whatever else it returns.                                    *)
ReadStatus ==
    /\ cp = "status"
    /\ \E r \in Trans(1) :
         /\ Received(r)
         /\ LET good == ~err /\ r.ok /\ r.got = <<0>>
            IN  IF good /\ sect = 2 * call.blk
                THEN /\ cp' = "data" /\ sect' = sect + 1 /\ Send(Request(sect + 1))
                     /\ UNCHANGED <<ret, failed>>
                ELSE Returns(IF good THEN 0 ELSE -1) /\ UNCHANGED <<sect, up>>
    /\ UNCHANGED <<server, faults, hangup, drive, call, data, err, calls>>

-----------------------------------------------------------------------------
(* The kernel's requests (external) *)

WriteRequest(d, n, s) == <<87, d>> \o LsnBytes(n) \o s \o Word(Sum(s))

CallWrite(d, n, s) ==
    /\ Starts([fn |-> "write", drive |-> d, lsn |-> n, data |-> s, want |-> 1], "other")
    /\ Send(WriteRequest(d, n, s))
    /\ UNCHANGED <<server, faults, down, hangup, drive, sect, ret, failed>>

(* The opcodes that do not throw the server into radio silence. *)
Known == (QuietOps \union {TIME} \union DOMAIN Takes) \ {EXTENSIONOP}

CallOther(t) ==
    /\ Starts([fn |-> "other", want |-> t.want], "other")
    /\ Send(t.send)
    /\ strange' = (strange \/ t.send[1] \notin Known)
    /\ UNCHANGED <<server, lost, noise, down, hangup, drive, sect, ret, failed>>

OtherDone ==
    /\ cp = "other"
    /\ \E r \in Trans(call.want) :
         /\ Received(r) /\ data' = r.got
         /\ Returns(IF ~r.ok THEN 4 ELSE IF call.fn = "write" THEN r.got[1] ELSE 0)
    /\ UNCHANGED <<server, faults, up, hangup, drive, call, sect, err, calls>>

-----------------------------------------------------------------------------
(* What the line and the machines on it may do *)

Lose ==
    /\ lost < MaxLoss /\ lost' = lost + 1
    /\ \/ \E i \in DOMAIN up : up' = RemoveAt(up, i) /\ UNCHANGED down
       \/ \E i \in DOMAIN down : down' = RemoveAt(down, i) /\ UNCHANGED up
    /\ UNCHANGED <<hangup, server, client, noise, strange>>

Garble ==
    /\ noise < MaxNoise /\ noise' = noise + 1
    /\ \E i \in DOMAIN down, v \in Noise : v # down[i] /\ down' = ReplaceAt(down, i, v)
    /\ UNCHANGED <<up, hangup, server, client, lost, strange>>

Misread ==
    /\ lost < MaxLoss /\ lost' = lost + 1 /\ ReadError
    /\ UNCHANGED <<client, noise, strange>>

Leave ==
    /\ cp # "gone" /\ cp' = "gone" /\ hangup' = TRUE /\ MaxLoss > 0
    /\ UNCHANGED <<up, down, server, drive, call, sect, data, err, ret, failed, calls, faults>>

-----------------------------------------------------------------------------
Init ==
    /\ ServerInit
    /\ cp = "idle" /\ drive = 0 /\ call = [fn |-> "none"] /\ sect = 0 /\ data = << >>
    /\ err = FALSE /\ ret = 0 /\ failed = FALSE /\ calls = 0 /\ lost = 0 /\ noise = 0
    /\ strange = FALSE

ServerStep == Server /\ UNCHANGED <<client, faults>>

Client == InitDone \/ ReadData \/ ReadStatus \/ OtherDone

Call ==
    \/ \E d \in Drives : dw_init(d)
    \/ \E b \in Blocks : dw_read(b) \/ dw_read_refuse(b)
    \/ \E d \in Drives, n \in WriteLsns, s \in WriteData : CallWrite(d, n, s)
    \/ \E t \in Others : CallOther(t)

Next == ServerStep \/ Client \/ Call \/ Lose \/ Garble \/ Misread \/ Leave

Spec == Init /\ [][Next]_vars

(* The server loops on its reads, and the client's DWRead counts vsyncs. *)
FairSpec == Spec /\ WF_vars(ServerStep) /\ WF_vars(Client)

-----------------------------------------------------------------------------
TypeOK ==
    /\ ServerTypeOK
    /\ cp \in {"idle", "init", "data", "status", "other", "gone"}
    /\ drive \in ByteVal /\ sect \in Lsn /\ data \in Seq(ByteVal)

OnDisk(d, b) == Fetch(d, 2 * b).data \o Fetch(d, 2 * b + 1).data

Ended(fn) == cp = "idle" /\ call.fn = fn

(* When a byte of a request is lost, the bytes behind it are taken for      *)
(* opcodes.  A sector that is written may then say anything to the server: *)
(* with the bytes of a READ in it, WRITE is answered 0 and not done.  So    *)
(* what is said of a line that loses bytes is said of the booter, and of a  *)
(* kernel whose WRITE requests hold no byte that is an opcode with an       *)
(* answer or with bytes of its own.                                        *)
Speaks == {TIME} \cup DOMAIN Takes
Inert(s) == \A i \in 2..Len(s) : s[i] \notin Speaks
Understood ==
    \/ lost = 0
    \/ Others = {} /\ \A d \in Drives, n \in WriteLsns, s \in WriteData :
                         Inert(WriteRequest(d, n, s))

(* Until a call fails, dw_read never lies: when it returns 0 the buffer    *)
(* holds the block of the drive, although bytes may be lost on the way in  *)
(* either direction, a byte of an answer may be changed, and answers may   *)
(* come too late.  (When no byte is changed, the drive also has an image.) *)
ReadHonest ==
    (Ended("dw_read") /\ ret = 0 /\ ~failed /\ noise <= 1 /\ Understood) =>
        data = OnDisk(drive, call.blk) /\ (noise = 0 => drive \in Paths)

(* The same for WRITE, on a line that changes no byte: status 0 means that *)
(* the sector is on the image.                                             *)
WriteHonest ==
    (Ended("write") /\ ret = 0 /\ ~failed /\ noise = 0 /\ Understood) =>
        Fetch(call.drive, call.lsn) = [ec |-> 0, data |-> call.data]

(* Until a call fails, the image only changes by a sector the client asked *)
(* to have written, whatever bytes are lost or changed.                    *)
OnlyAsked ==
    [][~failed /\ Understood => \A d \in Paths : disk'[d] # disk[d] =>
         /\ call.fn = "write" /\ d = call.drive
         /\ disk'[d] = With(disk[d], call.lsn, call.data)]_vars

(* The line neither loses, changes nor delays bytes, and no request has     *)
(* thrown the server into radio silence.                                   *)
Clean == lost = 0 /\ noise = 0 /\ ~Late /\ ~strange

(* On such a line the two ends never get out of step: when a call has      *)
(* ended and the server has nothing left to do it waits for an opcode, and *)
(* both directions are empty.                                              *)
InStep ==
    (Clean /\ cp = "idle" /\ Quiet) =>
        sp \in {"op", "silent"} /\ up = << >> /\ down = << >>

(* On such a line a call fails only for a reason: a drive without an       *)
(* image, a read-only drive, or a block past the limit.                    *)
Succeeds ==
    Clean =>
        /\ Ended("dw_init") => ret = 0
        /\ Ended("dw_read") => (ret = 0 <=> drive \in Paths /\ ~TooBig(call.blk))
        /\ Ended("write") => ret = SaveStatus(call.drive)
        /\ Ended("other") => ret = 0

(* Every call comes back, whatever the line and the server do. *)
CallsEnd == (cp \notin {"idle", "gone"}) ~> (cp \in {"idle", "gone"})

(* The comment on lwwire_readdata: a read inside a request "will           *)
(* eventually time out".                                                   *)
ReadTimesOut == (sp \in {"args", "cksum"}) ~> (sp \notin {"args", "cksum"})

(* The comment on dw_trans: "returns 0 = ok". *)
ZeroIsOk ==
    (Ended("dw_read") /\ ret = 0) => data = OnDisk(drive, call.blk)
=============================================================================
