----------------------------- MODULE DriveWireInv -----------------------------
(***************************************************************************)
(* The inductive invariant behind the safety properties of DriveWire: for  *)
(* each place of the client, what is on the line and where the server is,  *)
(* first as long as the two are in step, then when bytes were lost.        *)
(***************************************************************************)
EXTENDS DriveWire

(* Short of 25 bytes, four other requests can be answered with as many as  *)
(* a sector has, and past 257 a sum may not fit in two bytes.              *)
SectorFits == SECZ \in 25..257

(* Types, and what a place of the client says of its call. *)
Calls ==
    {[fn |-> "none"], [fn |-> "dw_init"]}
    \cup {[fn |-> "dw_read", blk |-> b] : b \in Blocks}
    \cup {[fn |-> "write", drive |-> d, lsn |-> n, data |-> s, want |-> 1] :
             d \in Drives, n \in WriteLsns, s \in WriteData}
    \cup {[fn |-> "other", want |-> t.want] : t \in Others}

Typed ==
    /\ TypeOK
    /\ hangup => cp = "gone"
    /\ lost \in Nat /\ noise \in Nat
    /\ err \in BOOLEAN /\ failed \in BOOLEAN /\ strange \in BOOLEAN
    /\ call \in Calls
    /\ cp = "init" => call.fn = "dw_init"
    /\ cp \in {"data", "status"} =>
         call.fn = "dw_read" /\ ~TooBig(call.blk) /\ sect \in {2 * call.blk, 2 * call.blk + 1}
    /\ cp = "other" => call.fn \in {"write", "other"}

-----------------------------------------------------------------------------
(* Requests that the server takes without an answer may be on their way,   *)
(* since the client does not wait for it.  The first k bytes of u, from    *)
(* byte a + 1 on, are such requests: C is where one ends and one begins.   *)
(* odd tells that some may have opcodes that make the server silent.       *)
Mute(o) == o \notin {TIME, DWINIT, REQUESTEXT, DISABLEEXT} \cup READ \cup WRITE \cup READEX
Length(o) == 1 + (IF o \in DOMAIN Takes THEN Takes[o] ELSE 0)

Cuts(u, k, a, odd) ==
    \E C \in SUBSET (0..k) :
        /\ a \in C /\ k \in C
        /\ \A c \in C : c < k =>
             /\ Mute(u[c + 1]) /\ (odd \/ u[c + 1] \in Known)
             /\ c + Length(u[c + 1]) \in C

(* The server waits for an opcode. *)
AtOp == sp = "op" \/ (sp = "silent" /\ (lost > 0 \/ strange))

(* It has still to take the first k bytes of up and answers none of them. *)
Ahead(k) ==
    \/ AtOp /\ Cuts(up, k, 0, strange)
    \/ /\ sp = "args" /\ op \in DOMAIN Takes /\ Mute(op) /\ (strange \/ op \in Known)
       /\ Cuts(up, k, Takes[op], strange)

(* Nothing is being asked. *)
Settled == down = << >> /\ (Others = {} => up = << >> /\ AtOp) /\ Ahead(Len(up))

(* Bytes k + 1 and so on of u are the bytes of r from its j-th on. *)
Holds(u, k, r, j) ==
    Len(u) = k + Len(r) - j + 1 /\ \A i \in j..Len(r) : u[k + i - j + 1] = r[i]

(* Request r was sent and is not answered; its opcode may be taken. *)
Waiting(r) ==
    /\ down = << >>
    /\ \/ \E k \in 0..Len(up) :
            Holds(up, k, r, 1) /\ (Others = {} => k = 0 /\ AtOp) /\ Ahead(k)
       \/ sp = "args" /\ op = r[1] /\ Holds(up, 0, r, 2)

(* It is answered, with n bytes. *)
Answered(n) == AtOp /\ up = << >> /\ Len(down) = n

-----------------------------------------------------------------------------
(* After a loss. *)
Lossy == lost > 0 /\ Others = {}

(* No answer will come, since no byte that is left is an opcode with all   *)
(* that belongs to it. *)
Deaf ==
    /\ Lossy /\ down = << >>
    /\ \/ sp = "exited"
       \/ /\ AtOp /\ Inert(up)
          /\ up # << >> /\ up[1] \in Speaks =>
               up[1] \in DOMAIN Takes /\ Len(up) <= Takes[up[1]]
       \/ sp = "args" /\ Len(up) < Takes[op]

(* Not a sector's worth of answer will come: of five bytes of a request    *)
(* one is missing, and no other request is answered with more than six.    *)
Short ==
    /\ Lossy /\ Len(up) <= 4
    /\ \/ sp = "exited" /\ Len(down) < SECZ
       \/ sp = "cksum" /\ up = << >> /\ Len(down) < SECZ
       \/ AtOp /\ Len(down) + 6 * Len(up) <= 24
       \/ sp = "args" /\ Len(up) <= 3 /\ Len(down) + 6 * Len(up) + 1 <= 24

-----------------------------------------------------------------------------
(* The places of the client. *)

(* s is what the server sent as t: as it was when no byte was changed, with *)
(* one byte other than it was when one was. *)
Near(s, t) ==
    /\ Len(s) = Len(t)
    /\ noise <= 1 =>
         s = t \/ (noise = 1 /\ \E i \in 1..Len(t), v \in ByteVal :
                                   v # t[i] /\ s = [t EXCEPT ![i] = v])

Kept == [ec |-> Fetch(drive, sect).ec, csum |-> Sum(Fetch(drive, sect).data)]

(* The sector read before this one is right. *)
Before == IF sect = 2 * call.blk THEN << >> ELSE Fetch(drive, 2 * call.blk).data
SecondToo == sect # 2 * call.blk /\ noise = 0 => drive \in Paths

InInit == Waiting(<<DWINIT, 0>>) \/ Answered(1) \/ Deaf

InData ==
    /\ call.fn = "dw_read"
    /\ noise <= 1 => data = Before
    /\ SecondToo
    /\ \/ Waiting(Request(sect))
       \/ /\ up = << >>
          /\ (sp = "cksum" /\ reply = Kept) \/ (sp = "exited" /\ Lossy)
          /\ Near(down, Fetch(drive, sect).data)
       \/ Short

Exact == data = Before \o Fetch(drive, sect).data

(* The sector came whole.  A changed byte shows in the checksum, and then  *)
(* in the status. *)
Whole ==
    /\ SecondToo
    /\ noise = 0 => Exact
    /\ \/ /\ sp = "cksum" /\ down = << >> /\ reply = Kept /\ Len(up) = 2
          /\ noise = 0 => WordOf(up) = reply.csum
          /\ noise = 1 /\ ~Exact => WordOf(up) # reply.csum
       \/ /\ Answered(1)
          /\ noise = 0 => down[1] = Kept.ec
          /\ noise = 1 /\ ~Exact => down[1] # 0
       \/ /\ Lossy /\ down = << >>
          /\ sp = "exited" \/ (sp = "cksum" /\ Len(up) < 2) \/ (AtOp /\ up = << >>)

(* It did not: dw_read will return -1, and the server still has to take     *)
(* what was sent, which holds no WRITE. *)
Behind ==
    \/ /\ lost = 0
       /\ \/ \E k \in 0..Len(up) :
               /\ Len(up) = k + 7 /\ up[k + 1] = 210
               /\ Others = {} => k = 0
               /\ Ahead(k)
          \/ sp = "args" /\ op = 210 /\ Len(up) = 6
          \/ sp = "cksum" /\ Len(up) = 2
          \/ AtOp /\ up = << >>
    \/ Lossy /\ Len(up) <= 7

InTime == lost = 0 /\ ~Late /\ ~strange
InStatus ==
    /\ call.fn = "dw_read"
    /\ InTime => ~err
    /\ IF err THEN Behind ELSE Whole

Stored == Fetch(call.drive, call.lsn) = [ec |-> 0, data |-> call.data]
InWrite ==
    /\ call.fn = "write"
    /\ \/ Waiting(WriteRequest(call.drive, call.lsn, call.data))
       \/ /\ Answered(1)
          /\ noise = 0 => down[1] = SaveStatus(call.drive)
          /\ SaveStatus(call.drive) = 0 => Stored
       \/ Deaf

InOther ==
    /\ call.fn = "other" /\ lost = 0
    /\ \E t \in Others :
         /\ t.want = call.want
         /\ IF t.want = 0 THEN Settled ELSE Waiting(t.send) \/ Answered(t.want)

(* What a call that has ended leaves. *)
Result ==
    /\ call.fn = "dw_init" /\ Clean => ret = 0
    /\ call.fn = "dw_read" =>
         /\ ret = 0 /\ ~failed /\ noise <= 1 =>
              data = OnDisk(drive, call.blk) /\ (noise = 0 => drive \in Paths)
         /\ Clean => (ret = 0 <=> drive \in Paths /\ ~TooBig(call.blk))
    /\ call.fn = "write" =>
         /\ ret = 0 /\ ~failed /\ noise = 0 => Stored
         /\ Clean => ret = SaveStatus(call.drive)
    /\ call.fn = "other" /\ Clean => ret = 0

(* As long as no call failed, or the line is such that the ends stay in    *)
(* step all the same.                                                      *)
Watched == Understood /\ (~failed \/ InTime)

(* When the client has gone, the server goes on with what is on the line.  *)
SyncInv ==
    Watched =>
        /\ cp = "idle" => Settled /\ Result
        /\ cp = "init" => InInit
        /\ cp = "data" => InData
        /\ cp = "status" => InStatus
        /\ cp = "other" => InWrite \/ InOther
        /\ cp = "gone" =>
             sp = "exited" \/ InInit \/ InData \/ InStatus \/ InWrite \/ InOther \/ Settled
=============================================================================
