---------------------------- MODULE DriveWireSync ----------------------------
(***************************************************************************)
(* Proofs that the two ends of a DriveWire line stay in step as long as    *)
(* the line lets them, and what follows for READEX and WRITE.              *)
(***************************************************************************)
EXTENDS DriveWireProofs

-----------------------------------------------------------------------------
(* Requests without an answer *)

LEMMA LengthType == \A o : Length(o) \in Nat /\ Length(o) >= 1
  BY TakesSome DEF Length

LEMMA CutsNone == \A u, odd : Cuts(u, 0, 0, odd)
  <1> SUFFICES ASSUME NEW u, NEW odd PROVE Cuts(u, 0, 0, odd)
    OBVIOUS
  <1> DEFINE C == {0}
  <1>1. C \in SUBSET (0..0) /\ 0 \in C /\ \A c \in C : ~(c < 0)
    OBVIOUS
  <1> HIDE DEF C
  <1> QED BY <1>1 DEF Cuts

(* The request at the first cut is a mute one and ends at a cut. *)
LEMMA CutsFirst ==
    ASSUME NEW u, NEW k \in Nat, NEW a, NEW odd, Cuts(u, k, a, odd)
    PROVE  /\ a \in 0..k
           /\ a < k => /\ Mute(u[a + 1]) /\ (odd \/ u[a + 1] \in Known)
                      /\ a + Length(u[a + 1]) \in 0..k
                      /\ Cuts(u, k, a + Length(u[a + 1]), odd)
  <1>1. PICK C \in SUBSET (0..k) :
          /\ a \in C /\ k \in C
          /\ \A c \in C : c < k =>
               /\ Mute(u[c + 1]) /\ (odd \/ u[c + 1] \in Known)
               /\ c + Length(u[c + 1]) \in C
    BY DEF Cuts
  <1>2. a \in 0..k
    BY <1>1
  <1>3. ASSUME a < k PROVE /\ Mute(u[a + 1]) /\ (odd \/ u[a + 1] \in Known)
                           /\ a + Length(u[a + 1]) \in C
    BY <1>1, <1>3
  <1>4. \A c \in C : Cuts(u, k, c, odd)
    BY <1>1 DEF Cuts
  <1> QED BY <1>1, <1>2, <1>3, <1>4

(* The cuts only depend on the bytes in front of them. *)
LEMMA CutsAgree ==
    ASSUME NEW u, NEW v, NEW k \in Nat, NEW a, NEW odd, NEW odd2,
           \A i \in 1..k : v[i] = u[i], odd => odd2, Cuts(u, k, a, odd)
    PROVE  Cuts(v, k, a, odd2)
  <1>1. PICK C \in SUBSET (0..k) :
          /\ a \in C /\ k \in C
          /\ \A c \in C : c < k =>
               /\ Mute(u[c + 1]) /\ (odd \/ u[c + 1] \in Known)
               /\ c + Length(u[c + 1]) \in C
    BY DEF Cuts
  <1>2. \A c \in C : c < k => v[c + 1] = u[c + 1]
    BY <1>1
  <1>3. \A c \in C : c < k =>
               /\ Mute(v[c + 1]) /\ (odd2 \/ v[c + 1] \in Known)
               /\ c + Length(v[c + 1]) \in C
    BY <1>1, <1>2
  <1> QED BY <1>1, <1>3 DEF Cuts

(* Bytes are taken off the front. *)
LEMMA CutsDrop ==
    ASSUME NEW u \in Bytes, NEW v, NEW k \in 0..Len(u), NEW a \in 0..k, NEW n \in 0..a, NEW odd,
           Dropped(v, u, n), Cuts(u, k, a, odd)
    PROVE  Cuts(v, k - n, a - n, odd)
  <1>1. PICK C \in SUBSET (0..k) :
          /\ a \in C /\ k \in C
          /\ \A c \in C : c < k =>
               /\ Mute(u[c + 1]) /\ (odd \/ u[c + 1] \in Known)
               /\ c + Length(u[c + 1]) \in C
    BY DEF Cuts
  <1>2. k \in Nat /\ Len(u) \in Nat /\ a \in Nat /\ n \in Nat /\ n <= k
        /\ \A i \in 1..(k - n) : v[i] = u[n + i]
    BY NoBytes DEF Dropped
  <1> DEFINE D == {d \in 0..(k - n) : d + n \in C}
  <1>3. D \in SUBSET (0..(k - n)) /\ a - n \in D /\ k - n \in D
    BY <1>1, <1>2
  <1>4. ASSUME NEW d \in D, d < k - n
        PROVE  /\ Mute(v[d + 1]) /\ (odd \/ v[d + 1] \in Known)
               /\ d + Length(v[d + 1]) \in D
    <2>1. d + n \in C /\ d + n < k /\ d \in Nat /\ d + 1 \in 1..(k - n)
      BY <1>2, <1>4
    <2>2. v[d + 1] = u[d + n + 1]
      <3>1. v[d + 1] = u[n + (d + 1)] /\ n + (d + 1) = d + n + 1
        BY <1>2, <2>1
      <3> QED BY <3>1
    <2>3. /\ Mute(u[d + n + 1]) /\ (odd \/ u[d + n + 1] \in Known)
          /\ d + n + Length(u[d + n + 1]) \in C
      BY <1>1, <2>1
    <2>4. Length(v[d + 1]) \in Nat
      BY LengthType
    <2>5. d + Length(v[d + 1]) + n \in C
      BY <1>2, <2>1, <2>2, <2>3, <2>4
    <2>6. d + Length(v[d + 1]) \in 0..(k - n)
      BY <1>1, <1>2, <2>1, <2>4, <2>5
    <2> QED BY <2>2, <2>3, <2>5, <2>6
  <1> HIDE DEF D
  <1> QED BY <1>3, <1>4 DEF Cuts

(* One more request is sent. *)
LEMMA CutsGrow ==
    ASSUME NEW u, NEW v, NEW k \in Nat, NEW a, NEW odd, NEW odd2,
           \A i \in 1..k : v[i] = u[i], odd => odd2, Cuts(u, k, a, odd),
           Mute(v[k + 1]), odd2 \/ v[k + 1] \in Known
    PROVE  Cuts(v, k + Length(v[k + 1]), a, odd2)
  <1>1. PICK C \in SUBSET (0..k) :
          /\ a \in C /\ k \in C
          /\ \A c \in C : c < k =>
               /\ Mute(u[c + 1]) /\ (odd \/ u[c + 1] \in Known)
               /\ c + Length(u[c + 1]) \in C
    BY DEF Cuts
  <1> DEFINE m == k + Length(v[k + 1])
             D == C \cup {m}
  <1>2. m \in Nat /\ m > k
    BY LengthType
  <1>3. D \in SUBSET (0..m) /\ a \in D /\ m \in D
    <2> HIDE DEF m
    <2>1. \A x \in C : x \in 0..m
      BY <1>1, <1>2
    <2>2. m \in 0..m
      BY <1>2
    <2> QED BY <1>1, <2>1, <2>2
  <1>4. ASSUME NEW c \in D, c < m
        PROVE  /\ Mute(v[c + 1]) /\ (odd2 \/ v[c + 1] \in Known)
               /\ c + Length(v[c + 1]) \in D
    <2>1. c \in C
      BY <1>2, <1>4
    <2>2. CASE c < k
      <3>1. v[c + 1] = u[c + 1]
        BY <1>1, <2>1, <2>2
      <3> QED BY <1>1, <2>1, <2>2, <3>1
    <2>3. CASE c = k
      BY <2>3
    <2> QED BY <1>1, <2>1, <2>2, <2>3
  <1> HIDE DEF D
  <1> QED BY <1>3, <1>4 DEF Cuts

(* What the server does while it has k such bytes to take: it takes n of   *)
(* them without a word.                                                    *)
Behaved(k, n) ==
    /\ n \in 0..k /\ Dropped(up', up, n)
    /\ down' = down /\ disk' = disk
    /\ Ahead(k - n)'
    /\ AtOp /\ k = 0 => AtOp'

LEMMA NoneDropped == up \in Bytes /\ up' = up => Dropped(up', up, 0)
  BY NoBytes DEF Dropped

LEMMA TakesApart == \A o \in DOMAIN Takes : o \notin QuietOps /\ o # TIME
  BY Codes

LEMMA AheadServer ==
    ASSUME Typed, Server, ~Eof, UNCHANGED faults, NEW k \in 0..Len(up), Ahead(k)
    PROVE  \/ \E n \in 0..k : Behaved(k, n)
           \/ k = 0 /\ sp = "op" /\ Dispatch
  <1>1. /\ ServerTypeOK /\ up \in Bytes /\ k \in Nat /\ k <= Len(up) /\ Len(up) \in Nat
        /\ lost' = lost /\ strange' = strange /\ strange \in BOOLEAN
    BY NoBytes DEF Typed, TypeOK, ServerTypeOK, Bytes, faults
  <1>2. CASE AtOp /\ sp = "silent" /\ Cuts(up, k, 0, strange)
    <2>1. sp' = "op" /\ UNCHANGED <<up, down, disk>>
      BY <1>2, AtSilent DEF SilenceOver, line
    <2>2. AtOp' /\ Dropped(up', up, 0)
      BY <1>1, <2>1, NoneDropped DEF AtOp
    <2>3. Cuts(up', k - 0, 0, strange')
      BY <1>1, <1>2, <2>1
    <2>4. Behaved(k, 0)
      BY <1>1, <2>1, <2>2, <2>3 DEF Behaved, Ahead
    <2> QED BY <1>1, <2>4
  <1>3. CASE sp = "op" /\ k > 0 /\ Cuts(up, k, 0, strange)
    <2>1. Dispatch /\ (Ignored \/ TellTime \/ WithArgs \/ Unrecognized)
      BY <1>3, AtOpcode
    <2>2. op' = up[1] /\ Dropped(up', up, 1) /\ disk' = disk
      BY <1>1, <2>1, DispatchTakes DEF Dispatch
    <2>3. /\ Mute(up[1]) /\ (strange \/ up[1] \in Known)
          /\ Length(up[1]) \in 0..k /\ Length(up[1]) >= 1
          /\ Cuts(up, k, Length(up[1]), strange)
      BY <1>1, <1>3, CutsFirst, LengthType
    <2>4. Cuts(up', k - 1, Length(up[1]) - 1, strange')
      <3> DEFINE a == Length(up[1])
      <3>1. a \in 0..k /\ 1 \in 0..a /\ Cuts(up, k, a, strange) /\ strange' = strange
        BY <1>1, <2>3
      <3> HIDE DEF a
      <3>2. Cuts(up', k - 1, a - 1, strange)
        BY <1>1, <2>2, <3>1, CutsDrop
      <3> QED BY <3>1, <3>2 DEF a
    <2>5. CASE up[1] \in DOMAIN Takes
      <3>1. sp' = "args" /\ down' = down
        <4>1. ~Ignored /\ ~TellTime /\ ~Unrecognized
          BY <2>2, <2>5, TakesApart DEF Ignored, TellTime, Unrecognized
        <4> QED BY <2>1, <4>1 DEF WithArgs
      <3>2. Length(up[1]) - 1 = Takes[up[1]]
        BY <2>5, TakesSome DEF Length
      <3>3. Ahead(k - 1)'
        BY <1>1, <2>2, <2>3, <2>4, <2>5, <3>1, <3>2 DEF Ahead
      <3>4. Behaved(k, 1)
        BY <1>1, <1>3, <2>2, <3>1, <3>3 DEF Behaved
      <3> QED BY <1>1, <1>3, <3>4
    <2>6. CASE up[1] \notin DOMAIN Takes
      <3>1. sp' = "op" \/ (sp' = "silent" /\ up[1] \notin Known)
        BY <2>1, <2>2, <2>6, Codes DEF Dispatch, Ignored, TellTime, WithArgs, Unrecognized, Known
      <3>2. down' = down
        BY <2>1, <2>2, <2>3, <2>6 DEF Ignored, TellTime, WithArgs, Unrecognized, Mute
      <3>3. Length(up[1]) - 1 = 0
        BY <2>6 DEF Length
      <3>4. AtOp'
        BY <1>1, <2>3, <3>1 DEF AtOp
      <3>5. Ahead(k - 1)'
        BY <2>4, <3>3, <3>4 DEF Ahead
      <3>6. Behaved(k, 1)
        BY <1>1, <1>3, <2>2, <3>2, <3>5 DEF Behaved
      <3> QED BY <1>1, <1>3, <3>6
    <2> QED BY <2>5, <2>6
  <1>4. CASE /\ sp = "args" /\ op \in DOMAIN Takes /\ Mute(op) /\ (strange \/ op \in Known)
             /\ Cuts(up, k, Takes[op], strange)
    <2>1. \/ InitReply \/ Burn \/ LogPrint \/ lwwire_proto_requestextension
          \/ lwwire_proto_disableextension \/ lwwire_proto_extensionop
      BY <1>4, AtArgs DEF Mute, Handle, lwwire_proto_read, lwwire_proto_write, lwwire_proto_readex
    <2>2. /\ Handle({op}) /\ disk' = disk /\ down' = down
          /\ sp' = "op" \/ (sp' = "silent" /\ op = EXTENSIONOP)
      BY <1>1, <1>4, <2>1, OthersDo, Codes DEF Mute
    <2>3. Dropped(up', up, Takes[op]) /\ Takes[op] \in Nat
      BY <1>1, <2>2, Handled
    <2>4. Takes[op] \in 0..k
      BY <1>1, <1>4, CutsFirst
    <2>5. Cuts(up', k - Takes[op], Takes[op] - Takes[op], strange')
      <3> DEFINE a == Takes[op]
      <3>1. /\ a \in 0..k /\ a \in 0..a /\ Cuts(up, k, a, strange) /\ strange' = strange
            /\ Dropped(up', up, a)
        BY <1>1, <1>4, <2>3, <2>4
      <3> HIDE DEF a
      <3>2. Cuts(up', k - a, a - a, strange)
        BY <1>1, <3>1, CutsDrop
      <3> QED BY <3>1, <3>2 DEF a
    <2>6. AtOp'
      BY <1>1, <1>4, <2>2 DEF AtOp, Known
    <2>7. Ahead(k - Takes[op])'
      <3>1. Takes[op] - Takes[op] = 0 /\ op' = op
        BY <2>2, <2>3 DEF Handle
      <3> QED BY <2>5, <2>6, <3>1 DEF Ahead
    <2>8. Behaved(k, Takes[op])
      BY <2>2, <2>3, <2>4, <2>6, <2>7 DEF Behaved
    <2> QED BY <2>4, <2>8
  <1>5. CASE sp = "op" /\ k = 0
    BY <1>5, AtOpcode
  <1> QED BY <1>1, <1>2, <1>3, <1>4, <1>5 DEF Ahead, AtOp

-----------------------------------------------------------------------------
(* What the server does at each place of the client.  None of them is      *)
(* about the client's position, so that they hold of one that has gone.    *)

LEMMA SettledServer ==
    ASSUME Typed, Server, ~Eof, UNCHANGED faults, Settled
    PROVE  Settled' /\ disk' = disk
  <1>1. /\ up \in Bytes /\ Len(up) \in Nat /\ Len(up) \in 0..Len(up)
        /\ down = << >> /\ Ahead(Len(up)) /\ (Others = {} => up = << >> /\ AtOp)
    BY NoBytes DEF Typed, TypeOK, ServerTypeOK, Bytes, Settled
  <1>2. PICK k \in Nat : k = Len(up)
    BY <1>1
  <1>3. ~(k = 0 /\ sp = "op" /\ Dispatch) /\ k \in 0..Len(up) /\ Ahead(k)
    BY <1>1, <1>2, DispatchTakes DEF Typed, TypeOK
  <1>4. PICK n \in 0..k : Behaved(k, n)
    BY <1>3, AheadServer
  <1>5. Len(up') = k - n /\ up' \in Bytes /\ down' = << >> /\ disk' = disk /\ Ahead(k - n)'
    BY <1>1, <1>2, <1>4 DEF Behaved, Dropped
  <1>6. Ahead(Len(up))'
    BY <1>5 DEF Ahead
  <1>7. Others = {} => up' = << >> /\ AtOp'
    <2> SUFFICES ASSUME Others = {} PROVE up' = << >> /\ AtOp'
      OBVIOUS
    <2>1. k = 0
      BY <1>1, <1>2
    <2>2. Len(up') = 0
      <3>1. n \in Int /\ 0 <= n /\ n <= k
        OBVIOUS
      <3>2. n = 0
        BY <2>1, <3>1
      <3>3. Len(up') = 0 - 0
        BY <1>5, <2>1, <3>2
      <3> QED BY <3>3
    <2> QED BY <1>1, <1>4, <1>5, <2>1, <2>2, NoBytes DEF Behaved
  <1> QED BY <1>5, <1>6, <1>7 DEF Settled

LEMMA AnsweredServer ==
    ASSUME Typed, Server, ~Eof, UNCHANGED faults, NEW n, Answered(n)
    PROVE  Answered(n)' /\ down' = down /\ disk' = disk
  <1>1. up = << >> /\ AtOp /\ Len(up) = 0
    BY DEF Answered
  <1>2. sp # "op"
    BY <1>1, AtOpcode, DispatchTakes DEF Typed, TypeOK
  <1>3. SilenceOver
    BY <1>1, <1>2, AtSilent DEF AtOp
  <1> QED BY <1>1, <1>3 DEF SilenceOver, line, Answered, AtOp

(* A request that the server answers *)
Asked(r) == r \in Bytes /\ Len(r) = Length(r[1]) /\ Len(r) >= 1 /\ ~Mute(r[1])

(* The request has been taken, all but its opcode is on the line. *)
Handed(r) == sp = "args" /\ op = r[1] /\ Holds(up, 0, r, 2) /\ down = << >>

LEMMA WaitingServer ==
    ASSUME Typed, Server, ~Eof, UNCHANGED faults, NEW r, Asked(r), Waiting(r)
    PROVE  \/ Waiting(r)' /\ disk' = disk
           \/ r[1] = TIME /\ Answered(6)' /\ disk' = disk
           \/ Handed(r)
  <1>1. /\ ServerTypeOK /\ up \in Bytes /\ Len(up) \in Nat /\ down = << >>
        /\ r \in Bytes /\ Len(r) = Length(r[1]) /\ Len(r) >= 1 /\ Len(r) \in Nat /\ ~Mute(r[1])
    BY NoBytes DEF Typed, TypeOK, ServerTypeOK, Bytes, Waiting, Asked
  <1>2. CASE sp = "args" /\ op = r[1] /\ Holds(up, 0, r, 2)
    BY <1>1, <1>2 DEF Handed
  <1>3. CASE \E k \in 0..Len(up) :
                Holds(up, k, r, 1) /\ (Others = {} => k = 0 /\ AtOp) /\ Ahead(k)
    <2>1. PICK k \in 0..Len(up) :
                Holds(up, k, r, 1) /\ (Others = {} => k = 0 /\ AtOp) /\ Ahead(k)
      BY <1>3
    <2>2. Len(up) = k + Len(r) /\ \A i \in 1..Len(r) : up[k + i] = r[i]
      BY <1>1, <2>1 DEF Holds
    <2>3. CASE \E n \in 0..k : Behaved(k, n)
      <3>1. PICK n \in 0..k : Behaved(k, n)
        BY <2>3
      <3>2. /\ Dropped(up', up, n) /\ down' = << >> /\ disk' = disk /\ Ahead(k - n)'
            /\ AtOp /\ k = 0 => AtOp'
        BY <1>1, <3>1 DEF Behaved
      <3>3. Len(up') = k - n + Len(r) /\ k - n \in 0..Len(up')
        BY <1>1, <2>2, <3>2 DEF Dropped
      <3>4. \A i \in 1..Len(r) : up'[k - n + i] = r[i]
        <4> SUFFICES ASSUME NEW i \in 1..Len(r) PROVE up'[k - n + i] = r[i]
          OBVIOUS
        <4>1. k - n + i \in 1..(Len(up) - n) /\ n + (k - n + i) = k + i
          BY <1>1, <2>2
        <4>2. up'[k - n + i] = up[n + (k - n + i)]
          BY <3>2, <4>1 DEF Dropped
        <4> QED BY <2>2, <4>1, <4>2
      <3> DEFINE m == k - n
      <3>5. /\ m \in 0..Len(up') /\ Len(up') = m + Len(r) /\ \A i \in 1..Len(r) : up'[m + i] = r[i]
            /\ Ahead(m)' /\ (Others = {} => m = 0 /\ AtOp')
        BY <2>1, <3>2, <3>3, <3>4
      <3> HIDE DEF m
      <3>6. Holds(up', m, r, 1)
        BY <1>1, <3>5 DEF Holds
      <3>7. Waiting(r)'
        BY <3>2, <3>5, <3>6 DEF Waiting
      <3> QED BY <3>2, <3>7
    <2>4. CASE k = 0 /\ sp = "op" /\ Dispatch
      <3>1. op' = up[1] /\ Dropped(up', up, 1) /\ disk' = disk
        BY <1>1, <2>4, DispatchTakes DEF Dispatch
      <3>2. up[1] = r[1] /\ Len(up) = Len(r)
        BY <1>1, <2>2, <2>4
      <3>3. Ignored \/ TellTime \/ WithArgs \/ Unrecognized
        BY <2>4, AtOpcode
      <3>4. /\ r[1] \in DOMAIN Takes \/ r[1] = TIME
            /\ r[1] = TIME => r[1] \notin DOMAIN Takes /\ r[1] \notin QuietOps
        <4>1. PICK o : o = r[1]
          OBVIOUS
        <4>2. ~Mute(o)
          BY <1>1, <4>1
        <4>3. o \in {TIME, DWINIT, REQUESTEXT, DISABLEEXT} \union READ \union WRITE \union READEX
          BY <4>2 DEF Mute
        <4>4. o \in {35, 90, 240, 241, 82, 114, 87, 119, 210, 242}
          BY <4>3, Codes
        <4>5. (o \in DOMAIN Takes \/ o = TIME) /\ (o = TIME => o \notin DOMAIN Takes /\ o \notin QuietOps)
          BY <4>4, Codes
        <4> QED BY <4>1, <4>5
      <3>5. CASE r[1] = TIME
        <4>1. TellTime
          BY <3>1, <3>2, <3>3, <3>4, <3>5 DEF Ignored, TellTime, WithArgs, Unrecognized
        <4>2. Len(down') = 6 /\ sp' = "op"
          BY <1>1, <4>1, TellTimeDoes
        <4>3. Len(up') = 0 /\ up' \in Bytes
          BY <1>1, <3>1, <3>2, <3>4, <3>5 DEF Dropped, Length
        <4> QED BY <3>1, <3>5, <4>2, <4>3, NoBytes DEF Answered, AtOp
      <3>6. CASE r[1] \in DOMAIN Takes
        <4>1. ~Ignored /\ ~TellTime /\ ~Unrecognized
          BY <3>1, <3>2, <3>6, TakesApart DEF Ignored, TellTime, Unrecognized
        <4>2. sp' = "args" /\ down' = << >> /\ op' = r[1]
          BY <1>1, <3>1, <3>2, <3>3, <4>1 DEF WithArgs
        <4>3. Holds(up', 0, r, 2)
          <5>1. Len(up') = 0 + Len(r) - 2 + 1
            BY <1>1, <3>1, <3>2 DEF Dropped
          <5>2. ASSUME NEW i \in 2..Len(r) PROVE up'[0 + i - 2 + 1] = r[i]
            <6>1. i - 1 \in 1..(Len(up) - 1) /\ 1 + (i - 1) = i /\ 0 + i - 2 + 1 = i - 1
              BY <1>1, <3>2
            <6>2. up'[i - 1] = up[1 + (i - 1)]
              BY <3>1, <6>1 DEF Dropped
            <6>3. up[0 + i] = r[i] /\ 0 + i = i
              BY <2>2, <2>4
            <6> QED BY <6>1, <6>2, <6>3
          <5> QED BY <5>1, <5>2 DEF Holds
        <4> QED BY <3>1, <4>2, <4>3 DEF Waiting
      <3> QED BY <3>4, <3>5, <3>6
    <2> QED BY <2>1, <2>3, <2>4, AheadServer
  <1> QED BY <1>2, <1>3 DEF Waiting

(* Only a WRITE that is whole changes an image. *)
LEMMA TakesOnly ==
    ASSUME Typed, Server, ~Eof
    PROVE  /\ up' \in Bytes /\ Len(up') <= Len(up)
           /\ disk' # disk => lwwire_proto_write /\ Len(up) >= SECZ + 6
  <1>1. ServerTypeOK /\ up \in Bytes /\ Len(up) \in Nat
    BY NoBytes DEF Typed, TypeOK, ServerTypeOK, Bytes
  <1>2. sp \in {"op", "args", "cksum", "silent", "exited"}
    BY <1>1 DEF ServerTypeOK
  <1>3. CASE sp = "op"
    <2>1. Dispatch
      BY <1>3, AtOpcode
    <2> QED BY <1>1, <2>1, DispatchTakes DEF Dropped, Dispatch
  <1>4. CASE sp = "args"
    <2>1. \E ops : Handle(ops)
      BY <1>4, AtArgs DEF lwwire_proto_read, lwwire_proto_write, lwwire_proto_readex, InitReply, Burn,
         LogPrint, lwwire_proto_requestextension, lwwire_proto_disableextension,
         lwwire_proto_extensionop
    <2>2. up' \in Bytes /\ Len(up') <= Len(up)
      BY <1>1, <2>1, Handled DEF Dropped
    <2>3. disk' # disk => lwwire_proto_write
      BY <1>4, AtArgs DEF lwwire_proto_read, lwwire_proto_readex, InitReply, Burn,
         LogPrint, lwwire_proto_requestextension, lwwire_proto_disableextension,
         lwwire_proto_extensionop
    <2> QED BY <1>1, <2>2, <2>3, WriteDoes
  <1>5. CASE sp = "cksum"
    BY <1>1, <1>5, AtCksum, StatusDoes DEF Dropped
  <1>6. CASE sp = "silent"
    BY <1>1, <1>6, AtSilent DEF SilenceOver, line
  <1>7. CASE sp = "exited"
    BY <1>7, AtExit
  <1> QED BY <1>2, <1>3, <1>4, <1>5, <1>6, <1>7

LEMMA DeafServer ==
    ASSUME Typed, Server, ~Eof, UNCHANGED faults, Deaf
    PROVE  Deaf' /\ disk' = disk
  <1>1. /\ ServerTypeOK /\ up \in Bytes /\ Len(up) \in Nat /\ Lossy /\ down = << >>
        /\ lost' = lost /\ Lossy'
    BY NoBytes DEF Typed, TypeOK, ServerTypeOK, Bytes, Deaf, Lossy, faults
  <1>2. sp # "exited"
    BY AtExit
  <1>3. CASE AtOp /\ sp = "silent" /\ Deaf
    <2>1. sp' = "op" /\ UNCHANGED <<up, down, disk>>
      BY <1>3, AtSilent DEF SilenceOver, line
    <2> QED BY <1>1, <1>3, <2>1 DEF Deaf, AtOp, Inert
  <1>4. CASE sp = "op"
    <2>1. Dispatch /\ (Ignored \/ TellTime \/ WithArgs \/ Unrecognized)
      BY <1>4, AtOpcode
    <2>2. op' = up[1] /\ Dropped(up', up, 1) /\ disk' = disk /\ Len(up) >= 1 /\ up # << >>
      BY <1>1, <2>1, DispatchTakes, NoBytes DEF Dispatch
    <2>3. /\ Inert(up)
          /\ up[1] \in Speaks => up[1] \in DOMAIN Takes /\ Len(up) <= Takes[up[1]]
      BY <1>4, <2>2 DEF Deaf
    <2>4. ~TellTime
      BY <2>2, <2>3, Codes DEF TellTime, Speaks
    <2>5. CASE up[1] \in DOMAIN Takes
      <3>1. sp' = "args" /\ down' = << >>
        <4>1. ~Ignored /\ ~Unrecognized
          BY <2>2, <2>5, TakesApart DEF Ignored, Unrecognized
        <4> QED BY <1>1, <2>1, <2>4, <4>1 DEF WithArgs
      <3>2. Len(up') < Takes[op']
        BY <1>1, <2>2, <2>3, <2>5, TakesSome DEF Dropped, Speaks
      <3> QED BY <1>1, <2>2, <3>1, <3>2 DEF Deaf
    <2>6. CASE up[1] \notin DOMAIN Takes
      <3>1. ~WithArgs
        BY <2>2, <2>6 DEF WithArgs
      <3>2. AtOp' /\ down' = << >>
        BY <1>1, <1>4, <2>1, <2>4, <3>1 DEF Ignored, Unrecognized, AtOp, Lossy
      <3>3. \A i \in 1..Len(up') : up'[i] \notin Speaks
        <4> SUFFICES ASSUME NEW i \in 1..Len(up') PROVE up'[i] \notin Speaks
          OBVIOUS
        <4>1. i \in 1..(Len(up) - 1) /\ 1 + i \in 2..Len(up)
          BY <1>1, <2>2 DEF Dropped
        <4>2. up'[i] = up[1 + i]
          BY <2>2, <4>1 DEF Dropped
        <4> QED BY <2>3, <4>1, <4>2 DEF Inert
      <3>4. up' \in Bytes
        BY <2>2 DEF Dropped
      <3>5. Inert(up') /\ (up' # << >> => up'[1] \notin Speaks)
        BY <3>3, <3>4, NoBytes DEF Inert
      <3> QED BY <1>1, <2>2, <3>2, <3>5 DEF Deaf
    <2> QED BY <2>5, <2>6
  <1>5. CASE sp = "args"
    <2>1. Len(up) < Takes[op]
      BY <1>5 DEF Deaf, AtOp
    <2>2. ~\E ops : Handle(ops)
      BY <1>1, <2>1, Handled
    <2>3. FALSE
      BY <1>5, <2>2, AtArgs DEF lwwire_proto_read, lwwire_proto_write, lwwire_proto_readex, InitReply, Burn,
         LogPrint, lwwire_proto_requestextension, lwwire_proto_disableextension,
         lwwire_proto_extensionop
    <2> QED BY <2>3
  <1> QED BY <1>2, <1>3, <1>4, <1>5 DEF Deaf, AtOp

LEMMA ShortServer ==
    ASSUME Typed, Server, ~Eof, UNCHANGED faults, SectorFits, Short
    PROVE  Short' /\ disk' = disk
  <1>1. /\ ServerTypeOK /\ up \in Bytes /\ Len(up) \in Nat /\ Lossy /\ lost' = lost /\ Lossy'
        /\ down \in Bytes /\ Len(down) \in Nat /\ Len(up) <= 4
        /\ SECZ \in Nat /\ SECZ >= 25
    <2>1. ServerTypeOK /\ up \in Bytes /\ down \in Bytes
      BY DEF Typed, TypeOK, ServerTypeOK, Bytes
    <2>2. Len(up) \in Nat /\ Len(down) \in Nat
      BY <2>1, NoBytes
    <2>3. Lossy /\ lost' = lost /\ Lossy' /\ Len(up) <= 4
      BY DEF Short, Lossy, faults
    <2>4. SECZ \in Nat /\ SECZ >= 25
      BY DEF SectorFits
    <2> QED BY <2>1, <2>2, <2>3, <2>4
  <1>2. up' \in Bytes /\ Len(up') \in Nat /\ Len(up') <= 4 /\ disk' = disk
    BY <1>1, TakesOnly, NoBytes
  <1>3. sp # "exited"
    BY AtExit
  <1>4. sp # "cksum"
    BY <1>1, AtCksum, StatusDoes DEF Short, AtOp
  <1>5. CASE sp = "silent"
    <2>1. sp' = "op" /\ UNCHANGED <<up, down, disk>>
      BY <1>5, AtSilent DEF SilenceOver, line
    <2>2. AtOp /\ AtOp'
      BY <1>5, <2>1 DEF Short, AtOp
    <2> QED BY <1>1, <1>2, <1>5, <2>1, <2>2 DEF Short
  <1>6. CASE sp = "op"
    <2>1. Dispatch /\ (Ignored \/ TellTime \/ WithArgs \/ Unrecognized)
      BY <1>6, AtOpcode
    <2>2. /\ op' = up[1] /\ Len(up') = Len(up) - 1 /\ Len(up) >= 1
          /\ Len(down) + 6 * Len(up) <= 24
      BY <1>1, <1>6, <2>1, DispatchTakes DEF Dropped, Short, AtOp
    <2>3. CASE TellTime
      <3>1. Len(down') = Len(down) + 6 /\ sp' = "op"
        BY <1>1, <2>3, TellTimeDoes
      <3>2. Len(down') + 6 * Len(up') <= 24
        BY <1>1, <2>2, <3>1
      <3> QED BY <1>1, <1>2, <3>1, <3>2 DEF Short, AtOp
    <2>4. CASE WithArgs
      <3>1. down' = down /\ sp' = "args"
        BY <2>4 DEF WithArgs
      <3>2. Len(down') + 6 * Len(up') + 1 <= 24 /\ Len(up') <= 3
        BY <1>1, <2>2, <3>1
      <3> QED BY <1>1, <1>2, <3>1, <3>2 DEF Short
    <2>5. CASE Ignored \/ Unrecognized
      <3>1. down' = down /\ AtOp'
        BY <1>1, <1>6, <2>5 DEF Ignored, Unrecognized, AtOp, Lossy
      <3>2. Len(down') + 6 * Len(up') <= 24
        BY <1>1, <2>2, <3>1
      <3> QED BY <1>1, <1>2, <3>1, <3>2 DEF Short
    <2> QED BY <2>1, <2>3, <2>4, <2>5
  <1>7. CASE sp = "args"
    <2>1. Len(up) <= 3 /\ Len(down) + 6 * Len(up) + 1 <= 24
      BY <1>7 DEF Short, AtOp
    <2>2. ~lwwire_proto_read /\ ~lwwire_proto_write /\ ~lwwire_proto_readex
      BY <1>1, <2>1, ReadDoes, WriteDoes, ReadexDoes
    <2>3. \/ InitReply \/ Burn \/ LogPrint \/ lwwire_proto_requestextension
          \/ lwwire_proto_disableextension \/ lwwire_proto_extensionop
      BY <1>7, <2>2, AtArgs
    <2>4. /\ Handle({op}) /\ sp' \in {"op", "silent"}
          /\ (\E v \in ByteVal : Answer(<<v>>)) \/ down' = down
      BY <1>1, <2>3, OthersDo
    <2>5. Len(up') <= Len(up) - 1
      BY <1>1, <2>4, Handled DEF Dropped
    <2>6. Len(down') \in Nat /\ Len(down') <= Len(down) + 1
      <3>1. CASE \E v \in ByteVal : Answer(<<v>>)
        BY <1>1, <3>1, AnswerOne
      <3> QED BY <1>1, <2>4, <3>1
    <2>7. AtOp' /\ Len(down') + 6 * Len(up') <= 24
      BY <1>1, <1>2, <2>1, <2>4, <2>5, <2>6 DEF AtOp, Lossy
    <2> QED BY <1>1, <1>2, <2>7 DEF Short
  <1> QED BY <1>3, <1>4, <1>5, <1>6, <1>7 DEF Short, AtOp

(* The requests that the client sends and the server answers *)
LEMMA InitAsked == Asked(<<DWINIT, 0>>)
  <1>1. <<DWINIT, 0>> \in Bytes /\ Len(<<DWINIT, 0>>) = 2 /\ <<DWINIT, 0>>[1] = DWINIT
    BY DEF Bytes, ByteVal, DWINIT
  <1>2. Length(DWINIT) = 2 /\ ~Mute(DWINIT)
    BY TakesOf DEF Length, Mute
  <1> QED BY <1>1, <1>2 DEF Asked

LEMMA ReadAsked ==
    ASSUME drive \in ByteVal, NEW n \in Lsn
    PROVE  Asked(Request(n)) /\ IsRequest(Request(n), drive, n) /\ Len(Request(n)) = 5
  <1>1. IsRequest(Request(n), drive, n)
    BY RequestBytes
  <1>2. Length(210) = 5 /\ ~Mute(210)
    BY TakesOf, Codes DEF Length, Mute
  <1> QED BY <1>1, <1>2 DEF Asked, IsRequest

LEMMA WriteAsked ==
    ASSUME NEW d \in Drives, NEW n \in WriteLsns, NEW s \in WriteData
    PROVE  /\ Asked(WriteRequest(d, n, s)) /\ IsWrite(WriteRequest(d, n, s), d, n, s)
           /\ d \in ByteVal /\ n \in Lsn /\ s \in Sector
  <1>1. d \in ByteVal /\ n \in Lsn /\ s \in Sector
    BY ClientAssumption
  <1>2. IsWrite(WriteRequest(d, n, s), d, n, s)
    BY <1>1, WriteRequestBytes
  <1>3. Length(87) = SECZ + 7 /\ ~Mute(87) /\ SECZ \in Nat
    BY TakesOf, Codes, ServerAssumption DEF Length, Mute
  <1> QED BY <1>1, <1>2, <1>3 DEF Asked, IsWrite

LEMMA OtherAsked == \A t \in Others : t.want # 0 => Asked(t.send)
  BY OtherRequest DEF Asked

(* A request is there whole: the handler takes it and nothing is left. *)
LEMMA HandedTakes ==
    ASSUME Typed, NEW r, Asked(r), Handed(r), NEW ops, Handle(ops)
    PROVE  /\ op = r[1] /\ op \in DOMAIN Takes /\ Len(up) = Len(r) - 1 /\ Len(r) = Takes[op] + 1
           /\ \A i \in 1..(Len(r) - 1) : up[i] = r[i + 1]
           /\ up' = << >> /\ down = << >>
  <1>1. /\ ServerTypeOK /\ up \in Bytes /\ Len(up) \in Nat /\ Len(r) \in Nat
        /\ op = r[1] /\ op \in DOMAIN Takes /\ Len(r) = Length(op) /\ Holds(up, 0, r, 2)
        /\ down = << >>
    BY Handled, NoBytes DEF Typed, TypeOK, ServerTypeOK, Bytes, Asked, Handed
  <1>2. Len(r) = Takes[op] + 1 /\ Takes[op] \in Nat
    BY <1>1, TakesSome DEF Length
  <1>3. Len(up) = Len(r) - 1
    BY <1>1 DEF Holds
  <1>4. ASSUME NEW i \in 1..(Len(r) - 1) PROVE up[i] = r[i + 1]
    <2>1. i + 1 \in 2..Len(r) /\ 0 + (i + 1) - 2 + 1 = i
      BY <1>1
    <2> QED BY <1>1, <2>1 DEF Holds
  <1>5. Dropped(up', up, Takes[op])
    BY <1>1, Handled
  <1>6. up' \in Bytes /\ Len(up') = 0
    BY <1>1, <1>2, <1>3, <1>5 DEF Dropped
  <1> QED BY <1>1, <1>2, <1>3, <1>4, <1>6, NoBytes

LEMMA HandedOne ==
    ASSUME Typed, Server, ~Eof, NEW r, Asked(r), Handed(r), r[1] \in {DWINIT, REQUESTEXT, DISABLEEXT}
    PROVE  Answered(1)' /\ disk' = disk
  <1>1. /\ ServerTypeOK /\ sp = "args" /\ op = r[1] /\ down = << >> /\ Len(down) = 0
        /\ op \notin READ \cup WRITE \cup READEX
    BY Codes DEF Typed, TypeOK, Handed
  <1>2. \/ InitReply \/ Burn \/ LogPrint \/ lwwire_proto_requestextension
        \/ lwwire_proto_disableextension \/ lwwire_proto_extensionop
    BY <1>1, AtArgs DEF Handle, lwwire_proto_read, lwwire_proto_write, lwwire_proto_readex
  <1>3. /\ Handle({op}) /\ disk' = disk /\ sp' = "op" /\ \E v \in ByteVal : Answer(<<v>>)
    <2>1. op \in {DWINIT, REQUESTEXT, DISABLEEXT} /\ op # EXTENSIONOP
      BY <1>1, Codes
    <2> QED BY <1>1, <1>2, <2>1, OthersDo
  <1>4. Len(down') = 1
    BY <1>1, <1>3, AnswerOne
  <1>5. up' = << >>
    BY <1>3, HandedTakes
  <1> QED BY <1>3, <1>4, <1>5 DEF Answered, AtOp

LEMMA HandedRead ==
    ASSUME Typed, Server, ~Eof, NEW r, Asked(r), Handed(r), r[1] \in READ
    PROVE  Answered(IF r[2] \in Paths THEN SECZ + 3 ELSE 1)' /\ disk' = disk
  <1>1. ServerTypeOK /\ sp = "args" /\ op = r[1] /\ down = << >> /\ op \in READ
    BY DEF Typed, TypeOK, Handed
  <1>2. lwwire_proto_read
    BY <1>1, AtArgs, Codes DEF Handle, lwwire_proto_write, lwwire_proto_readex, InitReply, Burn,
         LogPrint, lwwire_proto_requestextension, lwwire_proto_disableextension,
         lwwire_proto_extensionop
  <1>3. /\ sp' = "op" /\ disk' = disk /\ Takes[op] = 4
        /\ Len(down') = IF up[1] \in Paths THEN SECZ + 3 ELSE 1
    BY <1>1, <1>2, ReadDoes
  <1>4. Handle(READ)
    BY <1>2 DEF lwwire_proto_read
  <1>5. /\ up' = << >> /\ Len(r) = 5
        /\ \A i \in 1..(Len(r) - 1) : up[i] = r[i + 1]
    BY <1>3, <1>4, HandedTakes
  <1>6. up[1] = r[2]
    <2>1. 1 \in 1..(Len(r) - 1) /\ 1 + 1 = 2
      BY <1>5
    <2> QED BY <1>5, <2>1
  <1> QED BY <1>3, <1>5, <1>6 DEF Answered, AtOp

LEMMA HandedReadex ==
    ASSUME Typed, Server, ~Eof, NEW r, NEW d, NEW n, Asked(r), Handed(r), IsRequest(r, d, n)
    PROVE  /\ up' = << >> /\ sp' = "cksum" /\ disk' = disk
           /\ down' = Fetch(d, n).data
           /\ reply' = [ec |-> Fetch(d, n).ec, csum |-> Sum(Fetch(d, n).data)]
  <1>1. ServerTypeOK /\ sp = "args" /\ op = 210 /\ down = << >> /\ op \in READEX
    BY Codes DEF Typed, TypeOK, Handed, IsRequest
  <1>2. lwwire_proto_readex
    BY <1>1, AtArgs, Codes DEF Handle, lwwire_proto_write, lwwire_proto_read, InitReply, Burn,
         LogPrint, lwwire_proto_requestextension, lwwire_proto_disableextension,
         lwwire_proto_extensionop
  <1>3. Handle(READEX)
    BY <1>2 DEF lwwire_proto_readex
  <1>4. /\ up' = << >> /\ \A i \in 1..(Len(r) - 1) : up[i] = r[i + 1]
        /\ Len(r) = 5 /\ r[2] = d /\ LsnAt(r, 3) = n
    <2>1. up' = << >> /\ \A i \in 1..(Len(r) - 1) : up[i] = r[i + 1]
      BY <1>3, HandedTakes
    <2> QED BY <2>1 DEF IsRequest
  <1>5. up[1] = r[2] /\ up[2] = r[3] /\ up[3] = r[4] /\ up[4] = r[5]
    BY <1>4
  <1>6. LsnAt(up, 2) = LsnAt(r, 3)
    BY <1>5 DEF LsnAt
  <1> QED BY <1>1, <1>2, <1>4, <1>5, <1>6, ReadexDoes

LEMMA HandedWrite ==
    ASSUME Typed, Server, ~Eof, SectorFits,
           NEW r, NEW d, NEW n, NEW s \in Sector, Asked(r), Handed(r), IsWrite(r, d, n, s)
    PROVE  /\ Answered(1)' /\ down'[1] = SaveStatus(d) /\ Save(d, n, s)
  <1>1. /\ ServerTypeOK /\ sp = "args" /\ op = 87 /\ down = << >> /\ op \in WRITE
        /\ SECZ \in Nat /\ 1 <= SECZ /\ SECZ <= 257
    BY Codes DEF Typed, TypeOK, Handed, IsWrite, SectorFits
  <1>2. lwwire_proto_write
    BY <1>1, AtArgs, Codes DEF Handle, lwwire_proto_readex, lwwire_proto_read, InitReply, Burn,
         LogPrint, lwwire_proto_requestextension, lwwire_proto_disableextension,
         lwwire_proto_extensionop
  <1>3. Handle(WRITE)
    BY <1>2 DEF lwwire_proto_write
  <1>4. /\ up' = << >> /\ \A i \in 1..(Len(r) - 1) : up[i] = r[i + 1]
        /\ Len(r) = SECZ + 7 /\ r[2] = d /\ LsnAt(r, 3) = n
        /\ \A i \in 1..SECZ : r[5 + i] = s[i]
        /\ WordAt(r, 6 + SECZ) = Sum(s) % 65536
    BY <1>3, HandedTakes DEF IsWrite
  <1>5. /\ up[1] = r[2] /\ up[2] = r[3] /\ up[3] = r[4] /\ up[4] = r[5]
        /\ up[5 + SECZ] = r[6 + SECZ] /\ up[5 + SECZ + 1] = r[6 + SECZ + 1]
    <2>1. \A i \in 1..(SECZ + 6) : up[i] = r[i + 1]
      BY <1>1, <1>4
    <2> QED BY <1>1, <2>1
  <1>6. LsnAt(up, 2) = n
    BY <1>4, <1>5 DEF LsnAt
  <1>7. SectorAt(up) = s
    <2>1. SectorAt(up) \in Sector /\ \A i \in 1..SECZ : SectorAt(up)[i] = up[4 + i]
      BY <1>1, <1>3, WriteArgs
    <2>2. \A i \in 1..SECZ : up[4 + i] = s[i]
      <3> SUFFICES ASSUME NEW i \in 1..SECZ PROVE up[4 + i] = s[i]
        OBVIOUS
      <3>1. 4 + i \in 1..(Len(r) - 1) /\ 4 + i + 1 = 5 + i
        BY <1>1, <1>4
      <3> QED BY <1>4, <3>1
    <2> QED BY <2>1, <2>2, SectorBytes, Same
  <1>8. Sum(s) = WordAt(up, 5 + SECZ)
    <2>1. WordAt(up, 5 + SECZ) = WordAt(r, 6 + SECZ)
      <3>1. 6 + SECZ + 1 = 7 + SECZ /\ 5 + SECZ + 1 = 6 + SECZ
        BY <1>1
      <3> QED BY <1>5, <3>1 DEF WordAt
    <2>2. s \in Bytes /\ Len(s) = SECZ
      BY SectorBytes
    <2>3. Sum(s) \in 0..(255 * SECZ)
      BY <2>2, SumType
    <2>4. Sum(s) \in Nat /\ Sum(s) <= 65535
      BY <1>1, <2>3
    <2>5. Sum(s) % 65536 = Sum(s)
      BY <2>4
    <2> QED BY <1>4, <2>1, <2>5
  <1>9. sp' = "op" /\ Save(d, n, s) /\ \E v \in ByteVal : Answer(<<v>>) /\ v = SaveStatus(d)
    BY <1>1, <1>2, <1>4, <1>5, <1>6, <1>7, <1>8, WriteDoes
  <1>10. down' = <<SaveStatus(d)>>
    BY <1>1, <1>9, AnswerOne
  <1> QED BY <1>4, <1>9, <1>10 DEF Answered, AtOp

(* The server's step at each place *)
LEMMA StepFacts ==
    ASSUME Typed, ServerStep
    PROVE  /\ Server /\ UNCHANGED faults /\ UNCHANGED client
           /\ UNCHANGED <<cp, drive, call, sect, data, err, ret, failed, lost, noise, strange>>
  BY DEF ServerStep, client, faults

LEMMA InitServer ==
    ASSUME Typed, ServerStep, ~Eof, InInit
    PROVE  InInit' /\ disk' = disk
  <1> DEFINE r == <<DWINIT, 0>>
  <1>1. Asked(r) /\ r[1] = DWINIT /\ DWINIT # TIME
    BY InitAsked, Codes
  <1>2. CASE Waiting(r)
    <2> HIDE DEF r
    <2>1. Waiting(r)' \/ Answered(1)'
      BY <1>1, <1>2, StepFacts, WaitingServer, HandedOne
    <2>2. disk' = disk
      BY <1>1, <1>2, StepFacts, WaitingServer, HandedOne
    <2> QED BY <2>1, <2>2 DEF InInit, r
  <1>3. CASE Answered(1)
    BY <1>3, StepFacts, AnsweredServer DEF InInit
  <1>4. CASE Deaf
    BY <1>4, StepFacts, DeafServer DEF InInit
  <1> QED BY <1>2, <1>3, <1>4 DEF InInit

LEMMA FetchSame ==
    ASSUME disk' = disk, drive' = drive, NEW d, NEW n
    PROVE  Fetch(d, n)' = Fetch(d, n)
  BY DEF Fetch

LEMMA BeforeSame ==
    ASSUME disk' = disk, drive' = drive, sect' = sect, call' = call
    PROVE  /\ Before' = Before /\ Kept' = Kept
           /\ Fetch(drive, sect)' = Fetch(drive, sect)
  BY DEF Before, Kept, Fetch

LEMMA DataServer ==
    ASSUME Typed, ServerStep, ~Eof, SectorFits, InData
    PROVE  InData' /\ disk' = disk
  <1>1. /\ call.fn = "dw_read" /\ (noise <= 1 => data = Before) /\ SecondToo
        /\ UNCHANGED <<drive, call, sect, data, lost, noise>>
        /\ drive \in ByteVal /\ sect \in Lsn
    BY StepFacts DEF InData, Typed, TypeOK
  <1>2. disk' = disk => /\ call'.fn = "dw_read" /\ (noise' <= 1 => data' = Before') /\ SecondToo'
    BY <1>1, BeforeSame DEF SecondToo
  <1>3. CASE Waiting(Request(sect))
    <2> DEFINE r == Request(sect)
    <2>1. Asked(r) /\ IsRequest(r, drive, sect) /\ r[1] # TIME
      BY <1>1, ReadAsked, Codes DEF IsRequest
    <2>2. r' = r
      BY <1>1 DEF Request, LsnBytes
    <2> HIDE DEF r
    <2>3. PICK q : q = r
      OBVIOUS
    <2>4. \/ Waiting(q)' /\ disk' = disk
          \/ Handed(r)
      BY <1>3, <2>1, <2>3, StepFacts, WaitingServer DEF r
    <2>5. CASE Waiting(q)' /\ disk' = disk
      <3>1. Waiting(r)'
        BY <2>2, <2>3, <2>5
      <3> QED BY <1>2, <2>5, <3>1 DEF InData, r
    <2>6. CASE Handed(r)
      <3>1. /\ up' = << >> /\ sp' = "cksum" /\ disk' = disk
            /\ down' = Fetch(drive, sect).data
            /\ reply' = [ec |-> Fetch(drive, sect).ec, csum |-> Sum(Fetch(drive, sect).data)]
        BY <2>1, <2>6, StepFacts, HandedReadex
      <3>2. reply' = Kept' /\ down' = Fetch(drive, sect)'.data
        BY <1>1, <3>1, BeforeSame DEF Kept
      <3>3. Near(down, Fetch(drive, sect).data)'
        BY <3>2 DEF Near
      <3> QED BY <1>2, <3>1, <3>2, <3>3 DEF InData
    <2> QED BY <2>4, <2>5, <2>6
  <1>4. CASE up = << >> /\ sp \in {"cksum", "exited"}
    <2>1. Server /\ Len(up) = 0
      BY <1>4, StepFacts
    <2> QED BY <1>4, <2>1, AtExit, AtCksum, StatusDoes DEF Typed, TypeOK
  <1>5. CASE Short
    <2>1. Short' /\ disk' = disk
      BY <1>5, StepFacts, ShortServer
    <2> QED BY <1>2, <2>1 DEF InData
  <1> QED BY <1>3, <1>4, <1>5 DEF InData

LEMMA WholeServer ==
    ASSUME Typed, ServerStep, ~Eof, Whole
    PROVE  Whole' /\ disk' = disk
  <1>1. /\ SecondToo /\ (noise = 0 => Exact)
        /\ UNCHANGED <<drive, call, sect, data, lost, noise>>
        /\ ServerTypeOK /\ Server /\ noise \in Nat
    BY StepFacts DEF Whole, Typed, TypeOK
  <1>2. disk' = disk => /\ SecondToo' /\ (noise' = 0 => Exact') /\ Exact' = Exact /\ Kept' = Kept
    BY <1>1, BeforeSame DEF SecondToo, Exact
  <1>3. CASE /\ sp = "cksum" /\ down = << >> /\ reply = Kept /\ Len(up) = 2
             /\ noise = 0 => WordOf(up) = reply.csum
             /\ noise = 1 /\ ~Exact => WordOf(up) # reply.csum
    <2>1. /\ sp' = "op" /\ disk' = disk /\ Dropped(up', up, 2)
          /\ \E v \in ByteVal : Answer(<<v>>) /\ v = IF WordOf(up) # reply.csum THEN CHECKSUM ELSE reply.ec
      BY <1>1, <1>3, AtCksum, StatusDoes
    <2>2. up' \in Bytes /\ Len(up') = 0
      BY <1>3, <2>1 DEF Dropped
    <2>3. down' = <<IF WordOf(up) # reply.csum THEN CHECKSUM ELSE reply.ec>>
      BY <1>1, <1>3, <2>1, AnswerOne
    <2>4. Answered(1)' /\ down'[1] = IF WordOf(up) # reply.csum THEN CHECKSUM ELSE reply.ec
      BY <2>1, <2>2, <2>3, NoBytes DEF Answered, AtOp
    <2>5. /\ noise = 0 => down'[1] = Kept.ec
          /\ noise = 1 /\ ~Exact => down'[1] # 0
      BY <1>3, <2>4, Statuses
    <2> QED BY <1>1, <1>2, <2>1, <2>4, <2>5 DEF Whole
  <1>4. CASE /\ Answered(1)
             /\ noise = 0 => down[1] = Kept.ec
             /\ noise = 1 /\ ~Exact => down[1] # 0
    <2>1. Answered(1)' /\ down' = down /\ disk' = disk
      BY <1>4, StepFacts, AnsweredServer
    <2> QED BY <1>1, <1>2, <1>4, <2>1 DEF Whole
  <1>5. CASE /\ Lossy /\ down = << >>
             /\ sp = "exited" \/ (sp = "cksum" /\ Len(up) < 2) \/ (AtOp /\ up = << >>)
    <2>1. AtOp /\ up = << >>
      <3>1. sp # "exited"
        BY <1>1, AtExit
      <3>2. ~(sp = "cksum" /\ Len(up) < 2)
        <4>1. Len(up) \in Nat
          BY <1>1 DEF ServerTypeOK
        <4> QED BY <1>1, <4>1, AtCksum, StatusDoes
      <3> QED BY <1>5, <3>1, <3>2
    <2>2. Len(down) = 0
      BY <1>5
    <2>3. Answered(0)
      BY <2>1, <2>2 DEF Answered
    <2>4. Answered(0)' /\ down' = << >> /\ disk' = disk
      BY <1>5, <2>3, StepFacts, AnsweredServer
    <2> QED BY <1>1, <1>2, <1>5, <2>4 DEF Whole, Answered, Lossy
  <1> QED BY <1>1, <1>3, <1>4, <1>5 DEF Whole

LEMMA BehindServer ==
    ASSUME Typed, ServerStep, ~Eof, SectorFits, Behind
    PROVE  Behind' /\ disk' = disk
  <1>1. /\ lost' = lost /\ lost \in Nat /\ ServerTypeOK /\ Server /\ UNCHANGED faults
        /\ up \in Bytes /\ Len(up) \in Nat /\ SECZ \in Nat /\ SECZ >= 25
    <2>1. lost' = lost /\ lost \in Nat /\ ServerTypeOK /\ Server /\ UNCHANGED faults
      BY StepFacts DEF Typed, TypeOK
    <2>2. up \in Bytes /\ Len(up) \in Nat
      BY <2>1, NoBytes DEF ServerTypeOK, Bytes
    <2> QED BY <2>1, <2>2 DEF SectorFits
  <1>2. up' \in Bytes /\ Len(up') \in Nat /\ Len(up') <= Len(up)
    BY <1>1, TakesOnly, NoBytes
  <1>3. CASE Lossy /\ Len(up) <= 7
    <2>1. disk' = disk
      BY <1>1, <1>3, TakesOnly
    <2> QED BY <1>1, <1>2, <1>3, <2>1 DEF Behind, Lossy
  <1>4. CASE lost = 0 /\ \E k \in 0..Len(up) :
               /\ Len(up) = k + 7 /\ up[k + 1] = 210
               /\ Others = {} => k = 0
               /\ Ahead(k)
    <2>1. PICK k \in 0..Len(up) :
               /\ Len(up) = k + 7 /\ up[k + 1] = 210
               /\ Others = {} => k = 0
               /\ Ahead(k)
      BY <1>4
    <2>2. CASE \E n \in 0..k : Behaved(k, n)
      <3>1. PICK n \in 0..k : Behaved(k, n)
        BY <2>2
      <3> DEFINE m == k - n
      <3>2. /\ m \in 0..Len(up') /\ Len(up') = m + 7 /\ up'[m + 1] = 210
            /\ (Others = {} => m = 0) /\ Ahead(m)' /\ disk' = disk
        <4>1. Dropped(up', up, n) /\ Ahead(k - n)' /\ disk' = disk
          BY <3>1 DEF Behaved
        <4>2. Len(up') = k - n + 7 /\ k - n + 1 \in 1..(Len(up) - n) /\ n + (k - n + 1) = k + 1
          BY <1>1, <2>1, <4>1 DEF Dropped
        <4>3. up'[k - n + 1] = up[n + (k - n + 1)]
          BY <4>1, <4>2 DEF Dropped
        <4> QED BY <1>1, <2>1, <4>1, <4>2, <4>3
      <3> HIDE DEF m
      <3>3. Behind'
        BY <1>1, <1>4, <3>2 DEF Behind
      <3> QED BY <3>2, <3>3
    <2>3. CASE k = 0 /\ sp = "op" /\ Dispatch
      <3>1. op' = up[1] /\ Dropped(up', up, 1) /\ disk' = disk
        BY <1>1, <2>3, DispatchTakes DEF Dispatch
      <3>2. up[1] = 210 /\ Len(up) = 7 /\ 210 \in DOMAIN Takes
        BY <2>1, <2>3, Codes
      <3>3. ~Ignored /\ ~TellTime /\ ~Unrecognized
        BY <3>1, <3>2, TakesApart DEF Ignored, TellTime, Unrecognized
      <3>4. sp' = "args"
        BY <2>3, <3>3, AtOpcode, <1>1 DEF WithArgs
      <3>5. Len(up') = 6
        BY <3>1, <3>2 DEF Dropped
      <3> QED BY <1>1, <1>4, <3>1, <3>2, <3>4, <3>5 DEF Behind
    <2> QED BY <1>1, <2>1, <2>2, <2>3, AheadServer
  <1>5. CASE lost = 0 /\ sp = "args" /\ op = 210 /\ Len(up) = 6
    <2>1. lwwire_proto_readex
      BY <1>1, <1>5, AtArgs, Codes DEF Handle, lwwire_proto_write, lwwire_proto_read, InitReply, Burn,
         LogPrint, lwwire_proto_requestextension, lwwire_proto_disableextension,
         lwwire_proto_extensionop
    <2>2. sp' = "cksum" /\ disk' = disk /\ Takes[op] = 4
      BY <1>1, <2>1, ReadexDoes
    <2>3. Dropped(up', up, 4)
      BY <1>1, <2>1, <2>2, Handled DEF lwwire_proto_readex
    <2>4. Len(up') = 2
      BY <1>5, <2>3 DEF Dropped
    <2> QED BY <1>1, <1>5, <2>2, <2>4 DEF Behind
  <1>6. CASE lost = 0 /\ sp = "cksum" /\ Len(up) = 2
    <2>1. sp' = "op" /\ disk' = disk /\ Dropped(up', up, 2)
      BY <1>1, <1>6, AtCksum, StatusDoes
    <2>2. up' \in Bytes /\ Len(up') = 0
      BY <1>6, <2>1 DEF Dropped
    <2> QED BY <1>1, <1>6, <2>1, <2>2, NoBytes DEF Behind, AtOp
  <1>7. CASE lost = 0 /\ AtOp /\ up = << >>
    <2> DEFINE n == Len(down)
    <2>1. PICK m : m = Len(down)
      OBVIOUS
    <2>2. Answered(m)
      BY <1>7, <2>1 DEF Answered
    <2>3. Answered(m)' /\ disk' = disk
      BY <2>2, StepFacts, AnsweredServer
    <2> QED BY <1>1, <1>7, <2>3 DEF Behind, Answered
  <1> QED BY <1>3, <1>4, <1>5, <1>6, <1>7 DEF Behind

LEMMA StatusServer ==
    ASSUME Typed, ServerStep, ~Eof, SectorFits, InStatus
    PROVE  InStatus' /\ disk' = disk
  <1>1. UNCHANGED <<call, err, lost, strange>>
    BY StepFacts
  <1>2. CASE err
    BY <1>1, <1>2, BehindServer DEF InStatus, InTime
  <1>3. CASE ~err
    BY <1>1, <1>3, WholeServer DEF InStatus, InTime
  <1> QED BY <1>2, <1>3

LEMMA WriteServer ==
    ASSUME Typed, ServerStep, ~Eof, SectorFits, InWrite
    PROVE  /\ InWrite'
           /\ \A d \in Paths : disk'[d] # disk[d] =>
                /\ call.fn = "write" /\ d = call.drive
                /\ disk'[d] = With(disk[d], call.lsn, call.data)
  <1>1. /\ call' = call /\ noise' = noise /\ call.fn = "write"
        /\ call.drive \in Drives /\ call.lsn \in WriteLsns /\ call.data \in WriteData
    BY StepFacts, CallFields DEF Typed, InWrite
  <1>2. disk' = disk => (Stored' <=> Stored)
    BY <1>1 DEF Stored, Fetch
  <1>3. CASE Waiting(WriteRequest(call.drive, call.lsn, call.data))
    <2> DEFINE r == WriteRequest(call.drive, call.lsn, call.data)
    <2>1. /\ Asked(r) /\ IsWrite(r, call.drive, call.lsn, call.data) /\ r[1] # TIME
          /\ call.data \in Sector /\ call.drive \in ByteVal
      <3>1. /\ Asked(r) /\ IsWrite(r, call.drive, call.lsn, call.data)
            /\ call.data \in Sector /\ call.drive \in ByteVal
        BY <1>1, WriteAsked
      <3> HIDE DEF r
      <3>2. r[1] # TIME
        BY <3>1, Codes DEF IsWrite
      <3> QED BY <3>1, <3>2
    <2>2. r' = r
      BY <1>1 DEF WriteRequest
    <2> HIDE DEF r
    <2>3. PICK q : q = r
      OBVIOUS
    <2>4. \/ Waiting(q)' /\ disk' = disk
          \/ Handed(r)
      BY <1>3, <2>1, <2>3, StepFacts, WaitingServer DEF r
    <2>5. CASE Waiting(q)' /\ disk' = disk
      <3>1. Waiting(r)'
        BY <2>2, <2>3, <2>5
      <3> QED BY <1>1, <2>5, <3>1 DEF InWrite, r
    <2>6. CASE Handed(r)
      <3>1. /\ Answered(1)' /\ down'[1] = SaveStatus(call.drive)
            /\ Save(call.drive, call.lsn, call.data)
        BY <2>1, <2>6, StepFacts, HandedWrite
      <3>2. SaveStatus(call.drive) = 0 => Stored'
        <4> SUFFICES ASSUME SaveStatus(call.drive) = 0 PROVE Stored'
          OBVIOUS
        <4>1. PICK d, n, s : d = call.drive /\ n = call.lsn /\ s = call.data
          OBVIOUS
        <4>2. Fetch(d, n)' = [ec |-> 0, data |-> s]
          BY <3>1, <4>1, SaveFetch DEF Typed, TypeOK, ServerTypeOK
        <4> QED BY <1>1, <4>1, <4>2 DEF Stored, Fetch
      <3>3. SaveStatus(call.drive)' = SaveStatus(call.drive)
        BY <1>1 DEF SaveStatus
      <3>4. InWrite'
        BY <1>1, <3>1, <3>2, <3>3 DEF InWrite
      <3>5. ASSUME NEW d \in Paths, disk'[d] # disk[d]
            PROVE  d = call.drive /\ disk'[d] = With(disk[d], call.lsn, call.data)
        <4>1. DOMAIN disk = Paths
          BY DEF Typed, TypeOK, ServerTypeOK, DiskType
        <4>2. disk' = [disk EXCEPT ![call.drive] = With(disk[call.drive], call.lsn, call.data)]
          BY <3>1, <3>5 DEF Save
        <4>3. d = call.drive
          BY <3>5, <4>1, <4>2
        <4> QED BY <4>1, <4>2, <4>3
      <3> QED BY <1>1, <3>4, <3>5
    <2> QED BY <2>4, <2>5, <2>6
  <1>4. CASE /\ Answered(1)
             /\ noise = 0 => down[1] = SaveStatus(call.drive)
             /\ SaveStatus(call.drive) = 0 => Stored
    <2>1. Answered(1)' /\ down' = down /\ disk' = disk
      BY <1>4, StepFacts, AnsweredServer
    <2> QED BY <1>1, <1>2, <1>4, <2>1 DEF InWrite, SaveStatus
  <1>5. CASE Deaf
    <2>1. Deaf' /\ disk' = disk
      BY <1>5, StepFacts, DeafServer
    <2> QED BY <1>1, <2>1 DEF InWrite
  <1> QED BY <1>3, <1>4, <1>5 DEF InWrite

LEMMA OtherServer ==
    ASSUME Typed, ServerStep, ~Eof, InOther
    PROVE  InOther' /\ disk' = disk
  <1>1. /\ call' = call /\ lost' = lost /\ call.fn = "other" /\ lost = 0
    BY StepFacts DEF InOther
  <1>2. PICK t \in Others :
            /\ t.want = call.want
            /\ IF t.want = 0 THEN Settled ELSE Waiting(t.send) \/ Answered(t.want)
    BY DEF InOther
  <1>3. CASE t.want = 0
    <2>1. Settled' /\ disk' = disk
      BY <1>2, <1>3, StepFacts, SettledServer
    <2> QED BY <1>1, <1>2, <1>3, <2>1 DEF InOther
  <1>4. CASE t.want # 0 /\ Waiting(t.send)
    <2>1. Asked(t.send) /\ t.want = Answers(t.send) /\ t.send[1] \notin WRITE \cup READEX
      BY <1>4, OtherAsked, OtherRequest
    <2>2. t.send[1] = TIME => t.want = 6
      BY <2>1 DEF Answers
    <2>3. CASE Handed(t.send)
      <3>1. t.send[1] # TIME
        <4>1. op = t.send[1] /\ op \in DOMAIN Takes
          BY <2>3 DEF Handed, Typed, TypeOK, ServerTypeOK
        <4> QED BY <4>1, TakesApart
      <3>2. CASE t.send[1] \in READ
        <4>1. t.want = IF t.send[2] \in Paths THEN SECZ + 3 ELSE 1
          BY <2>1, <3>1, <3>2 DEF Answers
        <4>2. Answered(t.want)' /\ disk' = disk
          BY <2>1, <2>3, <3>2, <4>1, StepFacts, HandedRead
        <4> QED BY <1>1, <1>2, <1>4, <4>2 DEF InOther
      <3>3. CASE t.send[1] \in {DWINIT, REQUESTEXT, DISABLEEXT}
        <4>1. t.want = 1
          BY <2>1, <3>1, <3>3, Codes DEF Answers
        <4>2. Answered(1)' /\ disk' = disk
          BY <2>1, <2>3, <3>3, StepFacts, HandedOne
        <4> QED BY <1>1, <1>2, <4>1, <4>2 DEF InOther
      <3> QED BY <2>1, <3>1, <3>2, <3>3 DEF Asked, Mute
    <2>4. CASE Waiting(t.send)' /\ disk' = disk
      BY <1>1, <1>2, <1>4, <2>4 DEF InOther
    <2>5. CASE t.send[1] = TIME /\ Answered(6)' /\ disk' = disk
      <3>1. t.want = 6
        BY <2>2, <2>5
      <3> QED BY <1>1, <1>2, <2>5, <3>1 DEF InOther
    <2> QED BY <1>4, <2>1, <2>3, <2>4, <2>5, StepFacts, WaitingServer
  <1>5. CASE t.want # 0 /\ Answered(t.want)
    <2>1. Answered(t.want)' /\ disk' = disk
      BY <1>5, StepFacts, AnsweredServer
    <2> QED BY <1>1, <1>2, <1>5, <2>1 DEF InOther
  <1> QED BY <1>2, <1>3, <1>4, <1>5

-----------------------------------------------------------------------------
(* What the client finds at each place *)

(* On a line that loses nothing the server is quiet only when it has taken *)
(* all that was sent. *)
LEMMA Busy ==
    ASSUME Typed, InTime, NEW k \in 0..Len(up), Ahead(k), Quiet
    PROVE  sp = "op" /\ up = << >>
  <1>1. /\ lost = 0 /\ ~strange /\ ServerTypeOK /\ up \in Bytes /\ Len(up) \in Nat
    BY NoBytes DEF Typed, TypeOK, ServerTypeOK, Bytes, InTime
  <1>2. CASE sp = "op"
    <2>1. Len(up) < 1
      BY <1>2 DEF Quiet, Needs
    <2>2. Len(up) = 0
      BY <1>1, <2>1
    <2> QED BY <1>1, <1>2, <2>2, NoBytes
  <1>3. CASE sp # "op"
    <2>1. sp = "args" /\ op \in DOMAIN Takes /\ Cuts(up, k, Takes[op], strange)
      BY <1>1, <1>3 DEF Ahead, AtOp
    <2>2. Takes[op] \in 0..k
      BY <1>1, <2>1, CutsFirst
    <2>3. Len(up) < Takes[op]
      BY <2>1 DEF Quiet, Needs
    <2> QED BY <1>1, <2>2, <2>3
  <1> QED BY <1>2, <1>3

LEMMA BusyWaiting ==
    ASSUME Typed, InTime, NEW r, Asked(r), Waiting(r)
    PROVE  ~Quiet
  <1>1. r \in Bytes /\ Len(r) \in Nat /\ Len(r) >= 1 /\ Len(r) = Length(r[1]) /\ Len(up) \in Nat
    BY NoBytes DEF Asked, Typed, TypeOK, ServerTypeOK
  <1>2. CASE sp = "args" /\ op = r[1] /\ Holds(up, 0, r, 2)
    <2>1. op \in DOMAIN Takes /\ Takes[op] \in Nat
      BY <1>2, TakesSome DEF Typed, TypeOK, ServerTypeOK
    <2>2. Len(up) = Takes[op]
      BY <1>1, <1>2, <2>1 DEF Holds, Length
    <2> QED BY <1>2, <2>1, <2>2 DEF Quiet, Needs
  <1>3. CASE \E k \in 0..Len(up) : Holds(up, k, r, 1) /\ Ahead(k)
    <2>1. PICK k \in 0..Len(up) : Holds(up, k, r, 1) /\ Ahead(k)
      BY <1>3
    <2>2. Len(up) = k + Len(r) - 1 + 1
      BY <2>1 DEF Holds
    <2>3. Len(up) # 0
      BY <1>1, <2>2
    <2>4. up # << >>
      BY <2>3
    <2> QED BY <2>1, <2>4, Busy
  <1> QED BY <1>2, <1>3 DEF Waiting

LEMMA GotNone ==
    ASSUME ServerTypeOK, NEW n \in Nat, n >= 1, NEW r \in Trans(n), Received(r), down = << >>
    PROVE  ~r.ok /\ (Late \/ Quiet)
  <1>1. PICK k \in 0..n : /\ k <= Len(down) /\ (r.ok <=> k = n)
                          /\ k = n \/ Late \/ (k = Len(down) /\ Quiet)
    BY TransGot
  <1>2. Len(down) = 0
    OBVIOUS
  <1>3. k # n
    BY <1>1, <1>2
  <1> QED BY <1>1, <1>3

LEMMA GotAll ==
    ASSUME ServerTypeOK, NEW n \in Nat, NEW r \in Trans(n), Received(r), Len(down) = n, r.ok \/ ~Late
    PROVE  r.ok /\ r.got = down /\ down' = << >>
  <1>1. PICK k \in 0..n : /\ (r.ok <=> k = n)
                          /\ r.got \in Bytes /\ Len(r.got) = k /\ \A i \in 1..k : r.got[i] = down[i]
                          /\ Dropped(down', down, k)
                          /\ k = n \/ Late \/ (k = Len(down) /\ Quiet)
    BY TransGot
  <1>2. k = n /\ r.ok /\ down \in Bytes
    BY <1>1 DEF ServerTypeOK, Bytes
  <1>3. down' \in Bytes /\ Len(down') = 0
    BY <1>1, <1>2 DEF Dropped
  <1>4. r.got = down
    BY <1>1, <1>2, Same
  <1> QED BY <1>2, <1>3, <1>4, NoBytes

LEMMA NothingAhead == AtOp /\ up = << >> => Ahead(Len(up))
  <1>1. Cuts(up, 0, 0, strange)
    BY CutsNone
  <1> QED BY <1>1 DEF Ahead

LEMMA SettledAfter ==
    ASSUME AtOp, up = << >>, down' = << >>, UNCHANGED <<up, sp, lost, strange>>
    PROVE  Settled'
  <1>1. AtOp' /\ up' = << >> /\ Len(up') = 0
    BY DEF AtOp
  <1>2. Cuts(up', 0, 0, strange')
    BY CutsNone
  <1> QED BY <1>1, <1>2 DEF Settled, Ahead

(* A client step that is watched afterwards was watched before. *)
LEMMA WatchedBefore ==
    ASSUME Watched', UNCHANGED <<lost, noise>>, strange => strange', failed => failed'
    PROVE  Watched /\ (failed' => InTime)
  BY DEF Watched, Understood, InTime

LEMMA InitDoneStep ==
    ASSUME Typed, SyncInv, InitDone, Watched'
    PROVE  cp' = "idle" /\ Settled' /\ Result'
  <1>1. PICK r \in Trans(1) : Received(r) /\ Returns(IF r.ok THEN 0 ELSE 4)
    BY DEF InitDone
  <1>2. /\ ServerTypeOK /\ UNCHANGED <<up, sp, lost, noise, strange, call>>
        /\ call.fn = "dw_init" /\ cp = "init"
    BY DEF InitDone, server, faults, Typed, TypeOK
  <1>3. cp' = "idle" /\ ret' = (IF r.ok THEN 0 ELSE 4) /\ failed' = (failed \/ ~r.ok)
    BY <1>1 DEF Returns
  <1>4. Watched /\ (failed' => InTime)
    BY <1>2, <1>3, WatchedBefore
  <1>5. InInit
    BY <1>2, <1>4 DEF SyncInv
  <1>6. ~r.ok => InTime
    BY <1>3, <1>4
  <1>7. CASE Answered(1)
    <2>1. r.ok /\ down' = << >>
      BY <1>1, <1>2, <1>6, <1>7, GotAll DEF Answered, InTime
    <2>2. Settled'
      BY <1>2, <1>7, <2>1, SettledAfter DEF Answered
    <2>3. Result'
      BY <1>2, <1>3, <2>1 DEF Result
    <2> QED BY <1>3, <2>2, <2>3
  <1>8. CASE Waiting(<<DWINIT, 0>>)
    <2>1. down = << >>
      BY <1>8 DEF Waiting
    <2>2. ~r.ok /\ (Late \/ Quiet)
      BY <1>1, <1>2, <2>1, GotNone
    <2> QED BY <1>6, <1>8, <2>2, InitAsked, BusyWaiting DEF InTime
  <1>9. CASE Deaf
    <2>1. down = << >> /\ lost > 0
      BY <1>9 DEF Deaf, Lossy
    <2>2. ~r.ok
      BY <1>1, <1>2, <2>1, GotNone
    <2> QED BY <1>6, <2>1, <2>2 DEF InTime
  <1> QED BY <1>5, <1>7, <1>8, <1>9 DEF InInit

(* A sector with another byte in one place has another sum, even in two    *)
(* bytes.                                                                  *)
LEMMA SumFits ==
    ASSUME SectorFits, NEW s \in Bytes, Len(s) = SECZ
    PROVE  Sum(s) \in Nat /\ Sum(s) % 65536 = Sum(s)
  <1>1. SECZ \in Nat /\ SECZ <= 257
    BY DEF SectorFits
  <1>2. Sum(s) \in 0..(255 * SECZ)
    BY SumType
  <1>3. Sum(s) \in Nat /\ Sum(s) <= 65535
    BY <1>1, <1>2
  <1> QED BY <1>3

LEMMA SumTells ==
    ASSUME NEW s \in Bytes, NEW i \in 1..Len(s), NEW v \in ByteVal, v # s[i]
    PROVE  Sum([s EXCEPT ![i] = v]) # Sum(s)
  <1>1. Sum([s EXCEPT ![i] = v]) = Sum(s) - s[i] + v
    BY SumChanged
  <1>2. s[i] \in Int /\ v \in Int /\ Sum(s) \in Int
    <2>1. s[i] \in ByteVal /\ Sum(s) \in 0..(255 * Len(s)) /\ Len(s) \in Nat
      BY NoBytes, SumType
    <2> QED BY <2>1, ByteRange
  <1> QED BY <1>1, <1>2

LEMMA DataWhole ==
    ASSUME Typed, SectorFits, ReadData, InData,
           NEW r \in Trans(SECZ), Received(r), r.ok, err' = ~r.ok, data' = data \o r.got,
           Send(Word(Cksum(SECZ, r)))
    PROVE  Whole'
  <1>1. /\ ServerTypeOK /\ up \in Bytes /\ down \in Bytes
        /\ SECZ \in Nat /\ SECZ >= 25 /\ SECZ <= 257
    BY DEF Typed, TypeOK, ServerTypeOK, Bytes, SectorFits
  <1>2. /\ UNCHANGED <<disk, sp, reply, lost, noise, drive, call, sect>>
        /\ noise \in Nat
    BY DEF ReadData, server, faults, Typed
  <1>3. Before' = Before /\ Kept' = Kept /\ Fetch(drive, sect)' = Fetch(drive, sect)
    BY <1>2, BeforeSame
  <1> DEFINE F == Fetch(drive, sect).data
  <1>4. F \in Bytes /\ Len(F) = SECZ /\ F' = F
    BY <1>1, <1>3, FetchType, SectorBytes DEF ServerTypeOK
  <1>5. Len(down) >= SECZ
    <2>1. PICK k \in 0..SECZ : k <= Len(down) /\ (r.ok <=> k = SECZ)
      BY <1>1, TransGot
    <2> QED BY <2>1
  <1>6. ~Short
    BY <1>1, <1>5, NoBytes DEF Short
  <1>7. ~Waiting(Request(sect))
    BY <1>1, <1>5 DEF Waiting
  <1>8. /\ up = << >>
        /\ (sp = "cksum" /\ reply = Kept) \/ (sp = "exited" /\ Lossy)
        /\ Near(down, F)
        /\ noise <= 1 => data = Before
        /\ SecondToo
    BY <1>6, <1>7 DEF InData
  <1> HIDE DEF F
  <1>9. Len(down) = SECZ
    BY <1>4, <1>8 DEF Near
  <1>10. r.got = down /\ down' = << >>
    BY <1>1, <1>9, GotAll
  <1>11. SecondToo'
    BY <1>2, <1>8 DEF SecondToo
  <1>12. Exact' <=> data \o down = Before \o F
    BY <1>2, <1>3, <1>4, <1>10 DEF Exact, F
  <1>13. noise = 0 => down = F /\ Exact'
    BY <1>8, <1>12 DEF Near
  <1>14. CASE sp = "exited" /\ Lossy
    BY <1>2, <1>10, <1>11, <1>13, <1>14 DEF Whole, Lossy
  <1>15. CASE sp = "cksum" /\ reply = Kept
    <2>1. Sum(down) \in Nat /\ Sum(down) % 65536 = Sum(down) /\ reply.csum = Sum(F)
      BY <1>1, <1>9, <1>15, SumFits DEF Kept, F
    <2>2. Cksum(SECZ, r) = Sum(down)
      BY <1>10, <2>1 DEF Cksum
    <2> DEFINE w == Word(Sum(down))
    <2>3. w \in Bytes /\ Len(w) = 2 /\ WordOf(w) = Sum(down)
      BY <2>1, WordBytes
    <2>4. up' = w
      <3>1. up' = << >> \o w
        BY <1>8, <2>2 DEF Send
      <3> HIDE DEF w
      <3> QED BY <2>3, <3>1, ConcatEmptySeq DEF Bytes
    <2> HIDE DEF w
    <2>5. Len(up') = 2 /\ WordOf(up') = Sum(down)
      BY <2>3, <2>4
    <2>6. noise = 0 => WordOf(up') = reply.csum
      BY <1>13, <2>1, <2>5
    <2>7. noise = 1 /\ ~Exact' => WordOf(up') # reply.csum
      <3> SUFFICES ASSUME noise = 1, ~Exact' PROVE Sum(down) # Sum(F)
        BY <2>1, <2>5
      <3>1. down # F
        BY <1>8, <1>12
      <3>2. PICK i \in 1..Len(F), v \in ByteVal : v # F[i] /\ down = [F EXCEPT ![i] = v]
        BY <1>8, <3>1 DEF Near
      <3> QED BY <1>4, <3>2, SumTells
    <2>8. (WordOf(up) = reply.csum)' <=> WordOf(up') = reply.csum
      BY <1>2 DEF WordOf
    <2> QED BY <1>2, <1>3, <1>10, <1>11, <1>13, <1>15, <2>5, <2>6, <2>7, <2>8 DEF Whole
  <1> QED BY <1>8, <1>14, <1>15

LEMMA DataBehind ==
    ASSUME Typed, Watched, SectorFits, ReadData, InData,
           NEW r \in Trans(SECZ), Received(r), ~r.ok, err' = ~r.ok,
           Send(Word(Cksum(SECZ, r)))
    PROVE  Behind' /\ ~InTime
  <1>1. /\ ServerTypeOK /\ up \in Bytes /\ Len(up) \in Nat /\ lost \in Nat
        /\ SECZ \in Nat /\ SECZ >= 25 /\ drive \in ByteVal /\ sect \in Lsn
    <2>1. ServerTypeOK /\ up \in Bytes /\ lost \in Nat /\ drive \in ByteVal /\ sect \in Lsn
      BY DEF Typed, TypeOK, ServerTypeOK, Bytes
    <2> QED BY <2>1, NoBytes DEF SectorFits
  <1>2. UNCHANGED <<sp, op, lost, strange>>
    BY DEF ReadData, server, faults
  <1> DEFINE q == Request(sect)
  <1>3. Asked(q) /\ q[1] = 210 /\ Len(q) = 5 /\ q \in Bytes
    BY <1>1, ReadAsked DEF IsRequest
  <1>4. /\ up' \in Bytes /\ Len(up') = Len(up) + 2 /\ \A i \in 1..Len(up) : up'[i] = up[i]
    <2>1. Cksum(SECZ, r) \in Nat
      <3>1. PICK k \in 0..SECZ : Len(r.got) = k
        BY <1>1, TransGot
      <3> QED BY <1>1, <3>1 DEF Cksum
    <2> DEFINE w == Word(Cksum(SECZ, r))
    <2>2. w \in Bytes /\ Len(w) = 2 /\ Send(w)
      BY <2>1, WordBytes
    <2> HIDE DEF w
    <2>3. Joined(up', up, w)
      BY <1>1, <2>2, Sent
    <2> QED BY <2>2, <2>3 DEF Joined
  <1> HIDE DEF q
  <1>5. CASE Waiting(q)
    <2>1. down = << >>
      BY <1>5 DEF Waiting
    <2>2. Late \/ Quiet
      BY <1>1, <2>1, GotNone
    <2>3. ~InTime
      BY <1>3, <1>5, <2>2, BusyWaiting DEF InTime
    <2>4. CASE sp = "args" /\ op = q[1] /\ Holds(up, 0, q, 2)
      <3>1. Len(up) = 4
        BY <1>3, <2>4 DEF Holds
      <3>2. Len(up') = 6 /\ Len(up') <= 7
        BY <1>4, <3>1
      <3>3. CASE lost = 0
        BY <1>2, <1>3, <2>3, <2>4, <3>2, <3>3 DEF Behind
      <3>4. CASE lost # 0
        BY <1>1, <1>2, <2>3, <3>2, <3>4 DEF Behind, Lossy, Watched, Understood
      <3> QED BY <2>3, <3>3, <3>4
    <2>5. CASE \E k \in 0..Len(up) : Holds(up, k, q, 1) /\ (Others = {} => k = 0 /\ AtOp) /\ Ahead(k)
      <3>1. PICK k \in 0..Len(up) : Holds(up, k, q, 1) /\ (Others = {} => k = 0 /\ AtOp) /\ Ahead(k)
        BY <2>5
      <3>2. Len(up) = k + 5 /\ up[k + 1] = 210
        <4>1. Len(up) = k + 5 - 1 + 1 /\ up[k + 1 - 1 + 1] = q[1]
          BY <1>3, <3>1 DEF Holds
        <4>2. k + 1 - 1 + 1 = k + 1 /\ k + 5 - 1 + 1 = k + 5
          OBVIOUS
        <4> QED BY <1>3, <4>1, <4>2
      <3>3. Len(up') = k + 7 /\ up'[k + 1] = 210 /\ k \in 0..Len(up') /\ k \in Nat
        <4>1. k + 1 \in 1..Len(up)
          BY <3>2
        <4> QED BY <1>1, <1>4, <3>2, <4>1
      <3>4. Ahead(k)'
        <4>1. \A i \in 1..k : up'[i] = up[i]
          BY <1>1, <1>4
        <4>2. \A a : Cuts(up, k, a, strange) => Cuts(up', k, a, strange')
          BY <1>2, <3>3, <4>1, CutsAgree
        <4> QED BY <1>2, <3>1, <4>2 DEF Ahead, AtOp
      <3>5. CASE lost = 0
        BY <1>2, <2>3, <3>1, <3>3, <3>4, <3>5 DEF Behind
      <3>6. CASE lost # 0
        <4>1. Others = {} /\ lost > 0
          BY <1>1, <3>6 DEF Watched, Understood
        <4>2. k = 0
          BY <3>1, <4>1
        <4>3. Len(up') <= 7
          BY <3>3, <4>2
        <4> QED BY <1>2, <2>3, <4>1, <4>3 DEF Behind, Lossy
      <3> QED BY <2>3, <3>5, <3>6
    <2> QED BY <1>5, <2>4, <2>5 DEF Waiting
  <1>6. CASE /\ up = << >>
             /\ (sp = "cksum" /\ reply = Kept) \/ (sp = "exited" /\ Lossy)
             /\ Near(down, Fetch(drive, sect).data)
    <2>1. Len(down) = SECZ
      <3>1. Fetch(drive, sect).data \in Sector
        BY <1>1, FetchType DEF ServerTypeOK
      <3>2. Len(Fetch(drive, sect).data) = SECZ
        BY <3>1, SectorBytes
      <3> QED BY <1>6, <3>2 DEF Near
    <2>2. ~InTime
      BY <1>1, <2>1, GotAll DEF InTime
    <2>3. Len(up') = 2
      BY <1>4, <1>6
    <2>4. CASE lost = 0
      BY <1>2, <1>6, <2>2, <2>3, <2>4 DEF Behind, Lossy
    <2>5. CASE lost # 0
      BY <1>1, <1>2, <2>2, <2>3, <2>5 DEF Behind, Lossy, Watched, Understood
    <2> QED BY <2>2, <2>4, <2>5
  <1>7. CASE Short
    <2>1. Lossy /\ lost > 0 /\ Len(up) <= 4
      BY <1>7 DEF Short, Lossy
    <2>2. Len(up') <= 7
      BY <1>1, <1>4, <2>1
    <2> QED BY <1>2, <2>1, <2>2 DEF Behind, Lossy, InTime
  <1> QED BY <1>5, <1>6, <1>7 DEF InData, q

LEMMA ReadDataStep ==
    ASSUME Typed, SectorFits, SyncInv, ReadData, Watched'
    PROVE  cp' = "status" /\ InStatus'
  <1>1. PICK r \in Trans(SECZ) :
            /\ Received(r) /\ err' = ~r.ok /\ data' = data \o r.got
            /\ Send(Word(Cksum(SECZ, r)))
    BY DEF ReadData
  <1>2. /\ cp = "data" /\ cp' = "status" /\ UNCHANGED <<call, failed, lost, noise, strange>>
        /\ call.fn = "dw_read"
    BY DEF ReadData, faults, Typed
  <1>3. Watched /\ InData
    BY <1>2, WatchedBefore DEF SyncInv
  <1>4. CASE r.ok
    BY <1>1, <1>2, <1>3, <1>4, DataWhole DEF InStatus
  <1>5. CASE ~r.ok
    <2>1. Behind' /\ ~InTime /\ err' = TRUE
      BY <1>1, <1>3, <1>5, DataBehind
    <2> QED BY <1>2, <2>1 DEF InStatus, InTime
  <1> QED BY <1>4, <1>5

LEMMA BlockSector ==
    ASSUME Typed, cp \in {"data", "status"}
    PROVE  /\ call.fn = "dw_read" /\ ~TooBig(call.blk) /\ call.blk \in Nat
           /\ sect \in {2 * call.blk, 2 * call.blk + 1}
           /\ 2 * call.blk \in Lsn /\ 2 * call.blk + 1 \in Lsn
  <1>1. /\ call.fn = "dw_read" /\ ~TooBig(call.blk) /\ call.blk \in Blocks
        /\ sect \in {2 * call.blk, 2 * call.blk + 1}
    BY CallFields DEF Typed
  <1> QED BY <1>1, BlockSectors

(* A request is sent when nothing is being asked. *)
LEMMA SendWaiting ==
    ASSUME Typed, Ahead(Len(up)), Others = {} => up = << >> /\ AtOp,
           NEW r \in Bytes, Len(r) >= 1, Send(r), down' = << >>, UNCHANGED <<sp, op, lost>>,
           strange => strange'
    PROVE  Waiting(r)'
  <1>1. /\ ServerTypeOK /\ up \in Bytes /\ Len(up) \in Nat /\ Len(r) \in Nat
    BY NoBytes DEF Typed, TypeOK, ServerTypeOK, Bytes
  <1>2. PICK k \in Nat : k = Len(up)
    BY <1>1
  <1>3. Joined(up', up, r)
    BY <1>1, Sent
  <1>4. /\ Len(up') = k + Len(r) /\ k \in 0..Len(up')
        /\ (\A i \in 1..k : up'[i] = up[i])
        /\ (\A i \in 1..Len(r) : up'[k + i] = r[i])
    BY <1>1, <1>2, <1>3 DEF Joined
  <1>5. Holds(up', k, r, 1)
    <2>1. ASSUME NEW i \in 1..Len(r) PROVE up'[k + i - 1 + 1] = r[i]
      <3>1. k + i - 1 + 1 = k + i
        BY <1>1
      <3> QED BY <1>4, <3>1
    <2>2. Len(up') = k + Len(r) - 1 + 1
      BY <1>1, <1>4
    <2> QED BY <2>1, <2>2 DEF Holds
  <1>6. Ahead(k)'
    <2>1. \A a : Cuts(up, k, a, strange) => Cuts(up', k, a, strange')
      <3> SUFFICES ASSUME NEW a, Cuts(up, k, a, strange) PROVE Cuts(up', k, a, strange')
        OBVIOUS
      <3>1. PICK o, o2 : o = strange /\ o2 = strange'
        OBVIOUS
      <3>2. Cuts(up, k, a, o) /\ (o => o2)
        BY <3>1
      <3>3. Cuts(up', k, a, o2)
        BY <1>2, <1>4, <3>2, CutsAgree
      <3> QED BY <3>1, <3>3
    <2> QED BY <1>1, <1>2, <2>1 DEF Ahead, AtOp
  <1>7. Others = {} => k = 0 /\ AtOp'
    BY <1>1, <1>2 DEF AtOp
  <1> QED BY <1>1, <1>4, <1>5, <1>6, <1>7 DEF Waiting

(* The second transaction of read() has its byte. *)
LEMMA GotStatus ==
    ASSUME Typed, Whole, NEW r \in Trans(1), Received(r), r.ok
    PROVE  /\ Answered(1) /\ r.got = down /\ down' = << >>
           /\ noise = 0 => down[1] = Kept.ec
           /\ noise = 1 /\ ~Exact => down[1] # 0
  <1>1. ServerTypeOK
    BY DEF Typed, TypeOK
  <1>2. down # << >>
    BY <1>1, GotNone
  <1>3. /\ Answered(1)
        /\ noise = 0 => down[1] = Kept.ec
        /\ noise = 1 /\ ~Exact => down[1] # 0
    BY <1>2 DEF Whole
  <1> QED BY <1>1, <1>3, GotAll DEF Answered

LEMMA KeptTells == DiskType => (Kept.ec = 0 <=> drive \in Paths)
  BY FetchType DEF Kept, NOTREADY

LEMMA StatusOn ==
    ASSUME Typed, InStatus, cp = "status", cp' = "data", ~err,
           NEW r \in Trans(1), Received(r), r.ok, r.got = << 0 >>, sect = 2 * call.blk,
           sect' = sect + 1, Send(Request(sect + 1)),
           UNCHANGED <<disk, sp, op, drive, call, data, lost, noise, strange>>
    PROVE  InData'
  <1>1. /\ ServerTypeOK /\ DiskType /\ call.fn = "dw_read" /\ call.blk \in Nat /\ drive \in ByteVal
        /\ sect \in Nat /\ sect + 1 \in Lsn /\ sect' = 2 * call.blk + 1 /\ noise \in Nat
    BY BlockSector DEF Typed, TypeOK, ServerTypeOK
  <1>2. /\ Whole /\ Answered(1) /\ down = << 0 >> /\ down' = << >>
        /\ noise = 0 => 0 = Kept.ec /\ Exact
        /\ noise = 1 => Exact
    <2>1. Whole
      BY DEF InStatus
    <2>2. /\ Answered(1) /\ down = << 0 >> /\ down' = << >>
          /\ noise = 0 => down[1] = Kept.ec
          /\ noise = 1 /\ ~Exact => down[1] # 0
      <3>1. /\ Answered(1) /\ r.got = down /\ down' = << >>
            /\ noise = 0 => down[1] = Kept.ec
            /\ noise = 1 /\ ~Exact => down[1] # 0
        BY <2>1, GotStatus
      <3> QED BY <3>1
    <2>3. down[1] = 0
      BY <2>2
    <2>4. noise = 0 => Exact
      BY <2>1 DEF Whole
    <2> QED BY <2>1, <2>2, <2>3, <2>4
  <1>3. noise <= 1 => data = Fetch(drive, 2 * call.blk).data
    <2> SUFFICES ASSUME noise <= 1 PROVE data = Fetch(drive, 2 * call.blk).data
      OBVIOUS
    <2>1. Exact
      BY <1>1, <1>2
    <2> DEFINE F == Fetch(drive, sect).data
    <2>2. F \in Bytes /\ data = << >> \o F
      BY <1>1, <2>1, FetchType, SectorBytes DEF Exact, Before
    <2>3. F = Fetch(drive, 2 * call.blk).data
      OBVIOUS
    <2> HIDE DEF F
    <2> QED BY <2>2, <2>3, ConcatEmptySeq DEF Bytes
  <1>4. Before' = Fetch(drive, 2 * call.blk).data
    <2>1. Fetch(drive, 2 * call.blk)' = Fetch(drive, 2 * call.blk)
      BY DEF Fetch
    <2>2. sect' # 2 * call.blk
      BY <1>1
    <2> QED BY <2>1, <2>2 DEF Before
  <1>5. SecondToo'
    BY <1>1, <1>2, KeptTells DEF SecondToo
  <1>6. Waiting(Request(sect))'
    <2> DEFINE q == Request(sect + 1)
    <2>1. q \in Bytes /\ Len(q) = 5 /\ Send(q)
      BY <1>1, ReadAsked DEF IsRequest
    <2>2. Request(sect)' = q
      BY DEF Request, LsnBytes
    <2> HIDE DEF q
    <2>3. PICK p : p = q
      OBVIOUS
    <2>4. Len(up) = 0 /\ up = << >> /\ AtOp
      BY <1>2 DEF Answered
    <2>5. Waiting(p)'
      <3>1. Ahead(Len(up)) /\ (Others = {} => up = << >> /\ AtOp)
        BY <2>4, NothingAhead
      <3>2. p \in Bytes /\ Len(p) >= 1 /\ Send(p) /\ down' = << >>
        BY <1>2, <2>1, <2>3
      <3>3. UNCHANGED <<sp, op, lost>> /\ (strange => strange')
        OBVIOUS
      <3> QED BY <3>1, <3>2, <3>3, SendWaiting
    <2> QED BY <2>2, <2>3, <2>5
  <1> QED BY <1>1, <1>3, <1>4, <1>5, <1>6 DEF InData

LEMMA StatusEnd ==
    ASSUME Typed, InStatus, cp = "status", cp' = "idle", NEW r \in Trans(1), Received(r),
           NEW good \in BOOLEAN, good <=> (~err /\ r.ok /\ r.got = << 0 >>),
           ~good => InTime, good => sect = 2 * call.blk + 1,
           ret' = (IF good THEN 0 ELSE -1),
           UNCHANGED <<disk, up, sp, drive, call, data, lost, noise, strange>>
    PROVE  Settled' /\ Result'
  <1>1. /\ ServerTypeOK /\ DiskType /\ call.fn = "dw_read" /\ call.blk \in Nat
        /\ drive \in ByteVal /\ noise \in Nat /\ ~TooBig(call.blk)
    BY BlockSector DEF Typed, TypeOK, ServerTypeOK
  <1>2. Whole
    BY DEF InStatus
  <1>3. r.ok
    <2>1. CASE good
      BY <2>1
    <2>2. CASE ~good
      <3>1. InTime /\ lost = 0
        BY <2>2 DEF InTime
      <3>2. CASE sp = "cksum" /\ Len(up) = 2 /\ down = << >>
        <4>1. ~Quiet
          BY <3>2 DEF Quiet, Needs
        <4> QED BY <1>1, <3>1, <3>2, <4>1, GotNone DEF InTime
      <3>3. CASE Answered(1)
        BY <1>1, <3>1, <3>3, GotAll DEF Answered, InTime
      <3> QED BY <1>2, <3>1, <3>2, <3>3 DEF Whole, Lossy
    <2> QED BY <2>1, <2>2
  <1>4. /\ Answered(1) /\ r.got = down /\ down' = << >>
        /\ noise = 0 => down[1] = Kept.ec
        /\ noise = 1 /\ ~Exact => down[1] # 0
    BY <1>2, <1>3, GotStatus
  <1>5. Settled'
    BY <1>4, SettledAfter DEF Answered
  <1>6. down = <<down[1]>>
    <2>1. down \in Bytes /\ Len(down) = 1
      BY <1>1, <1>4 DEF ServerTypeOK, Bytes, Answered
    <2> QED BY <2>1 DEF Bytes
  <1>7. CASE good
    <2>1. ret' = 0 /\ down[1] = 0
      BY <1>4, <1>7
    <2>2. noise = 0 => drive \in Paths
      BY <1>1, <1>4, <2>1, KeptTells
    <2>3. noise <= 1 => Exact
      <3>1. noise = 0 => Exact
        BY <1>2 DEF Whole
      <3> QED BY <1>1, <1>4, <2>1, <3>1
    <2>4. Exact => data = OnDisk(drive, call.blk)
      <3>1. sect = 2 * call.blk + 1 /\ sect # 2 * call.blk
        BY <1>1, <1>7
      <3> QED BY <3>1 DEF Exact, Before, OnDisk
    <2>5. OnDisk(drive, call.blk)' = OnDisk(drive, call.blk)
      BY DEF OnDisk, Fetch
    <2>6. noise' <= 1 => data' = OnDisk(drive, call.blk)' /\ (noise' = 0 => drive' \in Paths)
      BY <2>2, <2>3, <2>4, <2>5
    <2>7. Clean' => drive' \in Paths /\ ~TooBig(call.blk)'
      BY <1>1, <2>2 DEF Clean, TooBig, BLKLIMIT
    <2>8. Result'
      BY <1>1, <2>1, <2>6, <2>7 DEF Result
    <2> QED BY <1>5, <2>8
  <1>8. CASE ~good
    <2>1. ret' = -1 /\ ret' # 0
      BY <1>8
    <2>2. ~err
      BY <1>8 DEF InStatus
    <2>3. down[1] # 0
      BY <1>3, <1>4, <1>6, <1>8, <2>2
    <2>4. noise = 0 => drive \notin Paths
      BY <1>1, <1>4, <2>3, KeptTells
    <2>5. Clean' => drive' \notin Paths
      BY <2>4 DEF Clean
    <2>6. Result'
      BY <1>1, <2>1, <2>5 DEF Result
    <2> QED BY <1>5, <2>6
  <1> QED BY <1>7, <1>8

LEMMA ReadStatusStep ==
    ASSUME Typed, SyncInv, ReadStatus, Watched'
    PROVE  \/ cp' = "data" /\ InData'
           \/ cp' = "idle" /\ Settled' /\ Result'
  <1> DEFINE Good(r) == ~err /\ r.ok /\ r.got = << 0 >>
  <1>1. PICK r \in Trans(1) :
            /\ Received(r)
            /\ IF Good(r) /\ sect = 2 * call.blk
               THEN /\ cp' = "data" /\ sect' = sect + 1 /\ Send(Request(sect + 1))
                    /\ UNCHANGED <<ret, failed>>
               ELSE Returns(IF Good(r) THEN 0 ELSE -1) /\ UNCHANGED <<sect, up>>
    BY DEF ReadStatus
  <1>2. /\ cp = "status" /\ UNCHANGED <<disk, sp, op, drive, call, data, lost, noise, strange>>
    BY DEF ReadStatus, server, faults
  <1>3. failed => failed'
    BY <1>1 DEF Returns
  <1>4. Watched /\ (failed' => InTime)
    BY <1>2, <1>3, WatchedBefore
  <1>5. InStatus
    BY <1>2, <1>4 DEF SyncInv
  <1>6. PICK good \in BOOLEAN : good <=> Good(r)
    OBVIOUS
  <1>7. good <=> (~err /\ r.ok /\ r.got = << 0 >>)
    BY <1>6
  <1> HIDE DEF Good
  <1>8. CASE good /\ sect = 2 * call.blk
    <2>1. cp' = "data" /\ sect' = sect + 1 /\ Send(Request(sect + 1)) /\ Received(r)
      BY <1>1, <1>6, <1>8
    <2> QED BY <1>2, <1>5, <1>7, <1>8, <2>1, StatusOn
  <1>9. CASE ~(good /\ sect = 2 * call.blk)
    <2>1. /\ Returns(IF good THEN 0 ELSE -1) /\ up' = up /\ Received(r)
      BY <1>1, <1>6, <1>9
    <2>2. cp' = "idle" /\ ret' = (IF good THEN 0 ELSE -1) /\ (~good => failed')
      <3>1. cp' = "idle" /\ ret' = (IF good THEN 0 ELSE -1)
            /\ failed' = (failed \/ (IF good THEN 0 ELSE -1) # 0)
        BY <2>1, Zenon DEF Returns
      <3>2. ~good => (IF good THEN 0 ELSE -1) # 0
        OBVIOUS
      <3> QED BY <3>1, <3>2, Zenon
    <2>3. good => sect = 2 * call.blk + 1
      BY <1>2, <1>9, BlockSector
    <2> QED BY <1>2, <1>4, <1>5, <1>7, <2>1, <2>2, <2>3, StatusEnd
  <1> QED BY <1>8, <1>9

LEMMA OtherDoneStep ==
    ASSUME Typed, SyncInv, OtherDone, Watched'
    PROVE  cp' = "idle" /\ Settled' /\ Result'
  <1> DEFINE V(r) == IF ~r.ok THEN 4 ELSE IF call.fn = "write" THEN r.got[1] ELSE 0
  <1>1. PICK r \in Trans(call.want) : Received(r) /\ Returns(V(r))
    BY DEF OtherDone
  <1>2. /\ ServerTypeOK /\ UNCHANGED <<disk, up, sp, lost, noise, strange, call>>
        /\ cp = "other" /\ noise \in Nat
    BY DEF OtherDone, server, faults, Typed, TypeOK
  <1>3. cp' = "idle" /\ ret' = V(r) /\ failed' = (failed \/ V(r) # 0)
    BY <1>1, Zenon DEF Returns
  <1>4. Watched /\ (failed' => InTime)
    BY <1>2, <1>3, WatchedBefore
  <1>5. InWrite \/ InOther
    BY <1>2, <1>4 DEF SyncInv
  <1>6. ~r.ok => InTime
    <2>1. ~r.ok => V(r) # 0
      OBVIOUS
    <2> HIDE DEF V
    <2> QED BY <1>3, <1>4, <2>1
  <1>7. CASE InWrite
    <2>1. call.fn = "write" /\ call.want = 1 /\ call.drive \in Drives /\ call.lsn \in WriteLsns
          /\ call.data \in WriteData
      BY <1>7, CallFields DEF InWrite, Typed
    <2>2. r \in Trans(1)
      BY <2>1
    <2>3. CASE /\ Answered(1)
               /\ noise = 0 => down[1] = SaveStatus(call.drive)
               /\ SaveStatus(call.drive) = 0 => Stored
      <3>1. r.ok /\ r.got = down /\ down' = << >>
        BY <1>1, <1>2, <1>6, <2>2, <2>3, GotAll DEF Answered, InTime
      <3>2. Settled'
        BY <1>2, <2>3, <3>1, SettledAfter DEF Answered
      <3>3. ret' = down[1]
        BY <1>3, <2>1, <3>1
      <3>4. (Stored' <=> Stored) /\ SaveStatus(call.drive)' = SaveStatus(call.drive)
        BY <1>2 DEF Stored, Fetch, SaveStatus
      <3>5. noise' = 0 => ret' = SaveStatus(call.drive)' /\ (ret' = 0 => Stored')
        BY <1>2, <2>3, <3>3, <3>4
      <3>6. Result'
        BY <1>2, <2>1, <3>5 DEF Result, Clean
      <3> QED BY <1>3, <3>2, <3>6
    <2>4. CASE Waiting(WriteRequest(call.drive, call.lsn, call.data))
      <3>1. down = << >>
        BY <2>4 DEF Waiting
      <3>2. ~r.ok /\ (Late \/ Quiet)
        BY <1>1, <1>2, <2>2, <3>1, GotNone
      <3> QED BY <1>6, <2>1, <2>4, <3>2, WriteAsked, BusyWaiting DEF InTime
    <2>5. CASE Deaf
      <3>1. down = << >> /\ lost > 0
        BY <2>5 DEF Deaf, Lossy
      <3>2. ~r.ok
        BY <1>1, <1>2, <2>2, <3>1, GotNone
      <3> QED BY <1>6, <3>1, <3>2 DEF InTime
    <2> QED BY <1>7, <2>3, <2>4, <2>5 DEF InWrite
  <1>8. CASE InOther
    <2>1. PICK t \in Others :
             /\ t.want = call.want
             /\ IF t.want = 0 THEN Settled ELSE Waiting(t.send) \/ Answered(t.want)
      BY <1>8 DEF InOther
    <2>2. call.fn = "other" /\ t.want \in Nat /\ r \in Trans(t.want)
      BY <1>1, <1>8, <2>1, OtherRequest DEF InOther
    <2>3. r.ok => ret' = 0
      BY <1>3, <2>2
    <2>4. r.ok => Result'
      BY <1>2, <2>2, <2>3 DEF Result
    <2>5. CASE t.want = 0
      <3>1. Settled /\ down = << >> /\ Len(down) = t.want /\ Len(down) = 0
        BY <2>1, <2>5 DEF Settled
      <3>2. PICK k \in 0..t.want : (r.ok <=> k = t.want)
        BY <1>1, <1>2, <2>2, TransGot
      <3>3. k = 0
        BY <2>5, <3>2
      <3>4. r.ok
        BY <2>5, <3>2, <3>3
      <3>5. down' = << >>
        BY <1>1, <1>2, <2>2, <3>1, <3>4, GotAll
      <3>6. Settled'
        BY <1>2, <3>1, <3>5 DEF Settled, Ahead, AtOp, OtherDone, server
      <3> QED BY <1>3, <2>4, <3>4, <3>6
    <2>6. CASE t.want # 0 /\ Waiting(t.send)
      <3>1. down = << >> /\ t.want >= 1
        BY <2>2, <2>6 DEF Waiting
      <3>2. ~r.ok /\ (Late \/ Quiet)
        BY <1>1, <1>2, <2>2, <3>1, GotNone
      <3> QED BY <1>6, <2>6, <3>2, OtherAsked, BusyWaiting DEF InTime
    <2>7. CASE t.want # 0 /\ Answered(t.want)
      <3>1. r.ok /\ down' = << >>
        BY <1>1, <1>2, <1>6, <2>2, <2>7, GotAll DEF Answered, InTime
      <3>2. Settled'
        BY <1>2, <2>7, <3>1, SettledAfter DEF Answered
      <3> QED BY <1>3, <2>4, <3>1, <3>2
    <2> QED BY <2>1, <2>5, <2>6, <2>7
  <1> QED BY <1>5, <1>7, <1>8

-----------------------------------------------------------------------------
(* The calls *)

LEMMA CallInit ==
    ASSUME Typed, SyncInv, NEW d \in Drives, dw_init(d), Watched'
    PROVE  cp' = "init" /\ InInit'
  <1>1. /\ cp = "idle" /\ cp' = "init" /\ Send(<<DWINIT, 0>>)
        /\ UNCHANGED <<down, sp, op, lost, noise, strange, failed>>
    BY DEF dw_init, Starts, server, faults
  <1>2. Settled
    BY <1>1, WatchedBefore DEF SyncInv
  <1> DEFINE r == <<DWINIT, 0>>
  <1>3. r \in Bytes /\ Len(r) >= 1
    BY InitAsked DEF Asked
  <1> HIDE DEF r
  <1>4. Waiting(r)'
    BY <1>1, <1>2, <1>3, SendWaiting DEF r, Settled
  <1> QED BY <1>1, <1>4 DEF InInit, r

LEMMA CallRead ==
    ASSUME Typed, SyncInv, NEW b \in Blocks, dw_read(b), Watched'
    PROVE  cp' = "data" /\ InData'
  <1>1. /\ cp = "idle" /\ cp' = "data" /\ Send(Request(2 * b)) /\ sect' = 2 * b
        /\ call' = [fn |-> "dw_read", blk |-> b] /\ data' = << >>
        /\ UNCHANGED <<down, sp, op, drive, lost, noise, strange, failed>>
    BY DEF dw_read, Starts, server, faults
  <1>2. Settled
    BY <1>1, WatchedBefore DEF SyncInv
  <1>3. 2 * b \in Lsn /\ drive \in ByteVal
    BY BlockSectors DEF dw_read, Typed, TypeOK
  <1> DEFINE r == Request(2 * b)
  <1>4. r \in Bytes /\ Len(r) >= 1 /\ Request(sect)' = r
    <2>1. Request(sect)' = r
      BY <1>1 DEF Request, LsnBytes
    <2> QED BY <1>3, <2>1, ReadAsked DEF Asked
  <1>5. Send(r)
    BY <1>1
  <1> HIDE DEF r
  <1>6. PICK q : q = r
    OBVIOUS
  <1>7. Waiting(q)'
    BY <1>1, <1>2, <1>4, <1>5, <1>6, SendWaiting DEF Settled
  <1>8. Waiting(Request(sect))'
    BY <1>4, <1>6, <1>7
  <1> QED BY <1>1, <1>8 DEF InData, Before, SecondToo

LEMMA CallRefuse ==
    ASSUME Typed, SyncInv, NEW b \in Blocks, dw_read_refuse(b), Watched'
    PROVE  cp' = "idle" /\ Settled' /\ Result'
  <1>1. /\ cp = "idle" /\ cp' = "idle" /\ TooBig(b) /\ ret' # 0
        /\ call' = [fn |-> "dw_read", blk |-> b] /\ (failed => failed')
        /\ UNCHANGED <<up, down, sp, op, lost, noise, strange>>
    <2>1. ret' = -1 /\ cp' = "idle" /\ (failed => failed')
      BY Zenon DEF dw_read_refuse, Returns
    <2>2. /\ cp = "idle" /\ TooBig(b) /\ call' = [fn |-> "dw_read", blk |-> b]
          /\ UNCHANGED <<up, down, sp, op, lost, noise, strange>>
      BY DEF dw_read_refuse, line, server, faults
    <2>3. ret' # 0
      BY <2>1
    <2> QED BY <2>1, <2>2, <2>3, Zenon
  <1>2. Settled
    BY <1>1, WatchedBefore DEF SyncInv
  <1>3. Settled'
    BY <1>1, <1>2 DEF Settled, Ahead, AtOp
  <1> QED BY <1>1, <1>3 DEF Result, TooBig, BLKLIMIT

LEMMA CallWriting ==
    ASSUME Typed, SyncInv, NEW d \in Drives, NEW n \in WriteLsns, NEW s \in WriteData,
           CallWrite(d, n, s), Watched'
    PROVE  cp' = "other" /\ InWrite'
  <1> DEFINE r == WriteRequest(d, n, s)
  <1>1. /\ cp = "idle" /\ cp' = "other" /\ Send(r)
        /\ call' = [fn |-> "write", drive |-> d, lsn |-> n, data |-> s, want |-> 1]
        /\ UNCHANGED <<down, sp, op, lost, noise, strange, failed>>
    BY DEF CallWrite, Starts, server, faults
  <1>2. Settled
    BY <1>1, WatchedBefore DEF SyncInv
  <1>3. r \in Bytes /\ Len(r) >= 1
    BY WriteAsked DEF Asked
  <1>4. WriteRequest(call.drive, call.lsn, call.data)' = r
    BY <1>1
  <1> HIDE DEF r
  <1>5. PICK q : q = r
    OBVIOUS
  <1>6. Waiting(q)'
    BY <1>1, <1>2, <1>3, <1>5, SendWaiting DEF Settled
  <1>7. Waiting(WriteRequest(call.drive, call.lsn, call.data))'
    BY <1>4, <1>5, <1>6
  <1> QED BY <1>1, <1>7 DEF InWrite

LEMMA CallOthers ==
    ASSUME Typed, SyncInv, NEW t \in Others, CallOther(t), Watched'
    PROVE  cp' = "other" /\ InOther'
  <1>1. /\ cp = "idle" /\ cp' = "other" /\ Send(t.send)
        /\ call' = [fn |-> "other", want |-> t.want]
        /\ strange' = (strange \/ t.send[1] \notin Known)
        /\ UNCHANGED <<down, sp, op, lost, noise, failed>>
    BY DEF CallOther, Starts, server
  <1>2. Settled /\ (strange => strange')
    <2>1. strange => strange'
      BY <1>1
    <2> QED BY <1>1, <2>1, WatchedBefore DEF SyncInv
  <1>3. lost' = 0
    BY DEF Watched, Understood
  <1>4. /\ t.send \in Bytes /\ Len(t.send) = Length(t.send[1]) /\ Len(t.send) >= 1
        /\ (t.want = 0 <=> Mute(t.send[1]))
    BY OtherRequest
  <1>5. CASE t.want # 0
    <2>1. Waiting(t.send)'
      BY <1>1, <1>2, <1>4, SendWaiting DEF Settled
    <2> QED BY <1>1, <1>3, <1>5, <2>1 DEF InOther
  <1>6. CASE t.want = 0
    <2>1. PICK k \in Nat : k = Len(up) /\ up \in Bytes /\ ServerTypeOK
      BY NoBytes DEF Typed, TypeOK, ServerTypeOK, Bytes
    <2>2. Joined(up', up, t.send)
      BY <1>1, <1>4, <2>1, Sent
    <2>3. /\ Len(up') = k + Length(t.send[1]) /\ \A i \in 1..k : up'[i] = up[i]
      BY <1>4, <2>1, <2>2 DEF Joined
    <2>4. up'[k + 1] = t.send[1]
      BY <1>4, <2>1, <2>2, LengthType DEF Joined
    <2>5. Mute(up'[k + 1]) /\ (strange' \/ up'[k + 1] \in Known)
      BY <1>1, <1>4, <1>6, <2>4
    <2>6. ASSUME NEW a, Cuts(up, k, a, strange)
          PROVE  Cuts(up', k + Length(up'[k + 1]), a, strange')
      <3>1. PICK o, o2, u, v : o = strange /\ o2 = strange' /\ u = up /\ v = up'
        OBVIOUS
      <3>2. Cuts(u, k, a, o) /\ (o => o2) /\ Mute(v[k + 1]) /\ (o2 \/ v[k + 1] \in Known)
        BY <1>2, <2>5, <2>6, <3>1
      <3>3. k \in Nat /\ \A i \in 1..k : v[i] = u[i]
        BY <2>3, <3>1
      <3>4. Cuts(v, k + Length(v[k + 1]), a, o2)
        BY <3>2, <3>3, CutsGrow
      <3> QED BY <3>1, <3>4
    <2>7. Ahead(k)
      BY <1>2, <2>1 DEF Settled
    <2>8. Ahead(Len(up))'
      <3>1. Len(up') = k + Length(up'[k + 1])
        BY <2>3, <2>4
      <3> QED BY <1>1, <1>2, <2>6, <2>7, <3>1 DEF Ahead, AtOp
    <2>9. Settled'
      BY <1>1, <1>2, <2>8 DEF Settled
    <2> QED BY <1>1, <1>3, <1>6, <2>9 DEF InOther
  <1> QED BY <1>5, <1>6

-----------------------------------------------------------------------------
(* What the line does to each place *)

LEMMA SettledNew ==
    ASSUME AtOp', up' = << >>, down' = << >>
    PROVE  Settled'
  <1>1. Cuts(up', 0, 0, strange')
    BY CutsNone
  <1>2. Len(up') = 0
    OBVIOUS
  <1> QED BY <1>1, <1>2 DEF Settled, Ahead

LEMMA DeafNew ==
    ASSUME Lossy', AtOp', up' = << >>, down' = << >>
    PROVE  Deaf'
  <1>1. Len(up') = 0
    OBVIOUS
  <1> QED BY <1>1 DEF Deaf, Inert

(* Once bytes are lost, nobody but the booter, or a kernel whose writes are *)
(* harmless, is watched, and only until a call fails.                      *)
LEMMA LossWatched ==
    ASSUME Typed, Watched', lost' = lost + 1, failed' = failed
    PROVE  /\ Watched /\ Lossy' /\ Others = {} /\ ~InTime'
           /\ \A d \in Drives, n \in WriteLsns, s \in WriteData : Inert(WriteRequest(d, n, s))
  <1>1. lost \in Nat /\ lost' > 0 /\ lost' # 0
    BY DEF Typed
  <1> QED BY <1>1 DEF Watched, Understood, InTime, Lossy

LEMMA BehindLength ==
    ASSUME Typed, Others = {}, Behind
    PROVE  Len(up) <= 7
  <1>1. up \in Bytes /\ Len(up) \in Nat
    BY NoBytes DEF Typed, TypeOK, ServerTypeOK, Bytes
  <1>2. ASSUME NEW k \in 0..Len(up), Len(up) = k + 7, Others = {} => k = 0
        PROVE  Len(up) <= 7
    BY <1>1, <1>2
  <1>3. up = << >> => Len(up) <= 7
    OBVIOUS
  <1>4. \A n \in Nat : n = 6 \/ n = 2 => n <= 7
    OBVIOUS
  <1>5. Len(up) = 6 \/ Len(up) = 2 => Len(up) <= 7
    BY <1>1, <1>4, Zenon
  <1> QED BY <1>2, <1>3, <1>5, Zenon DEF Behind

(* A request alone on the line, or with its opcode taken. *)
LEMMA WaitingAlone ==
    ASSUME Typed, Others = {}, NEW r \in Bytes, Len(r) >= 1, Waiting(r)
    PROVE  /\ down = << >>
           /\ \/ AtOp /\ up = r
              \/ sp = "args" /\ op = r[1] /\ Len(up) = Len(r) - 1
  <1>1. up \in Bytes /\ Len(r) \in Nat
    BY NoBytes DEF Typed, TypeOK, ServerTypeOK, Bytes
  <1>2. ASSUME NEW k \in 0..Len(up), Holds(up, k, r, 1), k = 0 PROVE up = r
    <2>1. Len(up) = Len(r)
      BY <1>1, <1>2 DEF Holds
    <2>2. ASSUME NEW i \in 1..Len(r) PROVE up[i] = r[i]
      <3>1. k + i - 1 + 1 = i
        BY <1>2
      <3> QED BY <1>2, <3>1 DEF Holds
    <2> QED BY <1>1, <2>1, <2>2, Same
  <1>3. Holds(up, 0, r, 2) => Len(up) = Len(r) - 1
    BY <1>1 DEF Holds
  <1> QED BY <1>2, <1>3 DEF Waiting

(* Which of what the client asks for can be on the line *)
LEMMA Requests ==
    ASSUME Typed
    PROVE  /\ InInit => <<DWINIT, 0>> \in Bytes /\ Len(<<DWINIT, 0>>) = 2
           /\ InData => Request(sect) \in Bytes /\ Len(Request(sect)) = 5
           /\ InWrite => /\ call.drive \in Drives /\ call.lsn \in WriteLsns
                         /\ call.data \in WriteData
  <1>1. drive \in ByteVal /\ sect \in Lsn
    BY DEF Typed, TypeOK
  <1>2. InWrite => call.drive \in Drives /\ call.lsn \in WriteLsns /\ call.data \in WriteData
    BY CallFields DEF Typed, InWrite
  <1> QED BY <1>1, <1>2, InitAsked, ReadAsked DEF Asked, IsRequest

LEMMA MisreadFacts ==
    ASSUME Typed, Misread
    PROVE  /\ UNCHANGED <<up, down, disk, op, reply, cp, drive, call, sect, data, err, ret, failed,
                          noise, strange>>
           /\ lost' = lost + 1
           /\ \/ sp = "op" /\ sp' = "silent"
              \/ sp \in {"args", "cksum"} /\ sp' = "exited"
  BY DEF Misread, ReadError, Reading, line, client

(* A read that fails: between requests the server is silent for a while,   *)
(* within one it exits.                                                    *)
LEMMA MisreadWaiting ==
    ASSUME Typed, Misread, Lossy', Others = {}, NEW r \in Bytes, Len(r) >= 1, Waiting(r)
    PROVE  /\ down' = << >> /\ up' = up
           /\ \/ AtOp' /\ Waiting(r)'
              \/ sp' = "exited" /\ Len(up) = Len(r) - 1
  <1>1. down = << >> /\ \/ AtOp /\ up = r
                        \/ sp = "args" /\ op = r[1] /\ Len(up) = Len(r) - 1
    BY WaitingAlone
  <1>2. up' = up /\ down' = << >>
    BY <1>1, MisreadFacts
  <1>3. CASE AtOp /\ up = r
    <2>1. AtOp'
      BY <1>3, MisreadFacts DEF AtOp, Lossy
    <2>2. Cuts(up', 0, 0, strange')
      BY CutsNone
    <2>3. Len(r) \in Nat /\ 0 \in 0..Len(up') /\ up' = r
      BY <1>2, <1>3, NoBytes
    <2>4. Holds(up', 0, r, 1)
      <3>1. \A i \in 1..Len(r) : 0 + i - 1 + 1 = i
        OBVIOUS
      <3>2. Len(r) = 0 + Len(r) - 1 + 1
        BY <2>3
      <3> QED BY <2>3, <3>1, <3>2 DEF Holds
    <2>5. Ahead(0)'
      BY <2>1, <2>2 DEF Ahead
    <2>6. Waiting(r)'
      BY <1>2, <2>1, <2>3, <2>4, <2>5 DEF Waiting
    <2> QED BY <1>2, <2>1, <2>6
  <1>4. CASE sp = "args" /\ Len(up) = Len(r) - 1
    BY <1>2, <1>4, MisreadFacts
  <1> QED BY <1>1, <1>3, <1>4

LEMMA MisreadDeaf ==
    ASSUME Typed, Misread, Lossy', Deaf
    PROVE  Deaf'
  <1>1. CASE sp' = "exited"
    BY <1>1, MisreadFacts DEF Deaf
  <1>2. CASE sp = "op" /\ sp' = "silent"
    <2>1. AtOp' /\ AtOp
      BY <1>2 DEF AtOp, Lossy
    <2> QED BY <1>2, <2>1, MisreadFacts DEF Deaf, Inert
  <1> QED BY <1>1, <1>2, MisreadFacts

LEMMA MisreadInit ==
    ASSUME Typed, Misread, Lossy', Others = {}, InInit
    PROVE  InInit'
  <1>1. CASE Waiting(<<DWINIT, 0>>)
    <2> DEFINE r == <<DWINIT, 0>>
    <2>1. r \in Bytes /\ Len(r) >= 1
      BY Requests DEF InInit
    <2> HIDE DEF r
    <2>2. Waiting(r)
      BY <1>1 DEF r
    <2>3. down' = << >> /\ (Waiting(r)' \/ sp' = "exited")
      BY <2>1, <2>2, MisreadWaiting
    <2> QED BY <2>3 DEF InInit, Deaf, r
  <1>2. CASE Answered(1)
    <2>1. AtOp'
      BY <1>2, MisreadFacts DEF Answered, AtOp, Lossy
    <2> QED BY <1>2, <2>1, MisreadFacts DEF InInit, Answered
  <1>3. CASE Deaf
    BY <1>3, MisreadDeaf DEF InInit
  <1> QED BY <1>1, <1>2, <1>3 DEF InInit

LEMMA MisreadData ==
    ASSUME Typed, Misread, Lossy', Others = {}, SectorFits, InData
    PROVE  InData'
  <1>1. /\ UNCHANGED <<up, down, disk, op, reply, drive, call, sect, data, noise>>
        /\ up \in Bytes /\ Len(up) \in Nat /\ down \in Bytes /\ Len(down) \in Nat
        /\ SECZ \in Nat /\ SECZ >= 25
    <2>1. up \in Bytes /\ down \in Bytes
      BY DEF Typed, TypeOK, ServerTypeOK, Bytes
    <2> QED BY <2>1, MisreadFacts, NoBytes DEF SectorFits
  <1>2. /\ call'.fn = "dw_read" /\ (noise' <= 1 => data' = Before') /\ SecondToo'
        /\ Fetch(drive, sect)' = Fetch(drive, sect)
    BY <1>1, BeforeSame DEF InData, SecondToo
  <1>3. CASE Waiting(Request(sect))
    <2>1. Request(sect) \in Bytes /\ Len(Request(sect)) = 5
      BY Requests
    <2>2. PICK r : r = Request(sect)
      OBVIOUS
    <2>3. r \in Bytes /\ Len(r) = 5 /\ Waiting(r)
      BY <1>3, <2>1, <2>2
    <2>4. down' = << >> /\ (Waiting(r)' \/ (sp' = "exited" /\ Len(up) = 4))
      <3>1. Len(r) >= 1 /\ Len(r) - 1 = 4
        BY <2>3
      <3> QED BY <2>3, <3>1, MisreadWaiting
    <2>5. Request(sect)' = r
      BY <1>1, <2>2 DEF Request, LsnBytes
    <2>6. CASE Waiting(r)'
      BY <1>2, <2>5, <2>6 DEF InData
    <2>7. CASE sp' = "exited" /\ Len(up) = 4
      <3>1. Len(up') <= 4 /\ Len(down') = 0
        BY <1>1, <2>4, <2>7
      <3>2. Short'
        BY <1>1, <2>7, <3>1 DEF Short
      <3> QED BY <1>2, <3>2 DEF InData
    <2> QED BY <2>4, <2>6, <2>7
  <1>4. CASE /\ up = << >>
             /\ (sp = "cksum" /\ reply = Kept) \/ (sp = "exited" /\ Lossy)
             /\ Near(down, Fetch(drive, sect).data)
    <2>1. sp' = "exited"
      BY <1>4, MisreadFacts
    <2>2. Near(down, Fetch(drive, sect).data)'
      BY <1>1, <1>2, <1>4 DEF Near
    <2> QED BY <1>1, <1>2, <1>4, <2>1, <2>2 DEF InData
  <1>5. CASE Short
    <2>1. CASE sp = "op" /\ sp' = "silent"
      <3>1. AtOp' /\ AtOp
        BY <2>1 DEF AtOp, Lossy
      <3> QED BY <1>1, <1>2, <1>5, <2>1, <3>1 DEF InData, Short
    <2>2. CASE sp' = "exited"
      <3>1. Len(down) < SECZ
        BY <1>1, <1>5, MisreadFacts DEF Short, AtOp
      <3>2. Short'
        BY <1>1, <1>5, <2>2, <3>1 DEF Short
      <3> QED BY <1>2, <3>2 DEF InData
    <2> QED BY <2>1, <2>2, MisreadFacts
  <1> QED BY <1>3, <1>4, <1>5 DEF InData

LEMMA MisreadStatus ==
    ASSUME Typed, Misread, Lossy', Others = {}, InStatus
    PROVE  InStatus'
  <1>1. /\ UNCHANGED <<up, down, disk, op, reply, drive, call, sect, data, err, noise>>
        /\ ~InTime' /\ noise \in Nat
    BY MisreadFacts DEF Lossy, InTime, Typed
  <1>2. CASE err
    <2>1. Behind
      BY <1>2 DEF InStatus
    <2>2. Len(up) <= 7
      BY <2>1, BehindLength
    <2> QED BY <1>1, <1>2, <2>2 DEF InStatus, Behind
  <1>3. CASE ~err
    <2>1. Whole
      BY <1>3 DEF InStatus
    <2>2. Exact' = Exact /\ Kept' = Kept /\ SecondToo' = SecondToo
      BY <1>1, BeforeSame DEF Exact, SecondToo
    <2>3. SecondToo' /\ (noise' = 0 => Exact')
      BY <1>1, <2>1, <2>2 DEF Whole
    <2>4. CASE sp = "cksum" /\ down = << >>
      <3>1. sp' = "exited"
        BY <2>4, MisreadFacts
      <3> QED BY <1>1, <1>3, <2>3, <2>4, <3>1 DEF InStatus, Whole
    <2>5. CASE Answered(1) /\ (noise = 0 => down[1] = Kept.ec) /\ (noise = 1 /\ ~Exact => down[1] # 0)
      <3>1. AtOp'
        BY <2>5, MisreadFacts DEF Answered, AtOp, Lossy
      <3>2. Answered(1)'
        BY <1>1, <2>5, <3>1 DEF Answered
      <3>3. Whole'
        BY <1>1, <2>2, <2>3, <2>5, <3>2 DEF Whole
      <3> QED BY <1>1, <1>3, <3>3 DEF InStatus
    <2>6. CASE down = << >> /\ AtOp /\ up = << >>
      <3>1. AtOp'
        BY <2>6, MisreadFacts DEF AtOp, Lossy
      <3> QED BY <1>1, <1>3, <2>3, <2>6, <3>1 DEF InStatus, Whole
    <2>7. sp # "exited"
      BY MisreadFacts
    <2> QED BY <2>1, <2>4, <2>5, <2>6, <2>7 DEF Whole
  <1> QED BY <1>2, <1>3

LEMMA MisreadWrite ==
    ASSUME Typed, Misread, Lossy', Others = {}, InWrite
    PROVE  InWrite'
  <1>1. UNCHANGED <<up, down, disk, op, call, noise>> /\ call.fn = "write"
    BY MisreadFacts DEF InWrite
  <1>2. CASE Waiting(WriteRequest(call.drive, call.lsn, call.data))
    <2> DEFINE q == WriteRequest(call.drive, call.lsn, call.data)
    <2>1. q \in Bytes /\ Len(q) >= 1
      BY Requests, WriteAsked DEF Asked
    <2>2. q' = q
      BY <1>1 DEF WriteRequest
    <2>3. Waiting(q)
      BY <1>2
    <2> HIDE DEF q
    <2>4. PICK r : r = q
      OBVIOUS
    <2>5. down' = << >> /\ (Waiting(r)' \/ sp' = "exited")
      BY <2>1, <2>3, <2>4, MisreadWaiting
    <2>6. Waiting(r)' => Waiting(q)'
      BY <2>2, <2>4
    <2> QED BY <1>1, <2>5, <2>6 DEF InWrite, Deaf, q
  <1>3. CASE /\ Answered(1)
             /\ noise = 0 => down[1] = SaveStatus(call.drive)
             /\ SaveStatus(call.drive) = 0 => Stored
    <2>1. AtOp'
      BY <1>3, MisreadFacts DEF Answered, AtOp, Lossy
    <2>2. Answered(1)'
      BY <1>1, <1>3, <2>1 DEF Answered
    <2> QED BY <1>1, <1>3, <2>2 DEF InWrite, SaveStatus, Stored, Fetch
  <1>4. CASE Deaf
    BY <1>1, <1>4, MisreadDeaf DEF InWrite
  <1> QED BY <1>2, <1>3, <1>4 DEF InWrite

LEMMA MisreadSettled ==
    ASSUME Typed, Misread, Lossy', Others = {}, Settled
    PROVE  Settled'
  <1>1. AtOp /\ up' = << >> /\ down' = << >>
    BY MisreadFacts DEF Settled
  <1>2. AtOp'
    BY <1>1, MisreadFacts DEF AtOp, Lossy
  <1> QED BY <1>1, <1>2, SettledNew

(* A byte of an answer becomes another. *)
LEMMA GarbleFacts ==
    ASSUME Typed, Garble
    PROVE  /\ UNCHANGED <<up, disk, sp, op, reply, cp, drive, call, sect, data, err, ret, failed,
                          lost, strange>>
           /\ noise' = noise + 1 /\ noise \in Nat
           /\ down # << >> /\ Len(down') = Len(down)
           /\ \E i \in 1..Len(down), v \in ByteVal : v # down[i] /\ down' = [down EXCEPT ![i] = v]
  <1>1. PICK i \in DOMAIN down, v \in Noise : v # down[i] /\ down' = ReplaceAt(down, i, v)
    BY DEF Garble
  <1>2. down \in Bytes /\ v \in ByteVal /\ i \in 1..Len(down)
    BY ClientAssumption, NoBytes DEF Typed, TypeOK, ServerTypeOK, Bytes
  <1>3. down' = [down EXCEPT ![i] = v] /\ Len(down') = Len(down)
    BY <1>1, <1>2, Replaced
  <1>4. down # << >>
    BY <1>2
  <1> QED BY <1>1, <1>2, <1>3, <1>4 DEF Garble, server, client, Typed

LEMMA GarbleAnswered ==
    ASSUME Typed, Garble, NEW n, Answered(n)
    PROVE  Answered(n)'
  BY GarbleFacts DEF Answered, AtOp

LEMMA GarbleInit ==
    ASSUME Typed, Garble, InInit
    PROVE  InInit'
  BY GarbleFacts, GarbleAnswered DEF InInit, Waiting, Deaf

LEMMA GarbleData ==
    ASSUME Typed, Garble, InData
    PROVE  InData'
  <1>1. /\ UNCHANGED <<up, disk, sp, op, reply, drive, call, sect, data, lost>>
        /\ noise' = noise + 1 /\ noise \in Nat /\ down # << >>
    BY GarbleFacts
  <1>2. /\ call'.fn = "dw_read" /\ (noise' <= 1 => data' = Before') /\ SecondToo'
        /\ Fetch(drive, sect)' = Fetch(drive, sect) /\ Kept' = Kept
    BY <1>1, BeforeSame DEF InData, SecondToo
  <1>3. CASE /\ up = << >>
             /\ (sp = "cksum" /\ reply = Kept) \/ (sp = "exited" /\ Lossy)
             /\ Near(down, Fetch(drive, sect).data)
    <2> DEFINE F == Fetch(drive, sect).data
    <2>1. F' = F /\ Near(down, F)
      BY <1>2, <1>3
    <2> HIDE DEF F
    <2>2. PICK i \in 1..Len(down), v \in ByteVal : v # down[i] /\ down' = [down EXCEPT ![i] = v]
      BY GarbleFacts
    <2>3. Len(down') = Len(F') /\ Len(down) = Len(F)
      BY <2>1, GarbleFacts DEF Near
    <2>4. noise' <= 1 => noise = 0 /\ noise' = 1
      BY <1>1
    <2>5. noise' <= 1 => down = F
      BY <1>1, <2>1, <2>4 DEF Near
    <2>6. noise' <= 1 =>
             noise' = 1 /\ \E j \in 1..Len(F'), w \in ByteVal : w # F'[j] /\ down' = [F' EXCEPT ![j] = w]
      BY <2>1, <2>2, <2>4, <2>5
    <2>7. Near(down, F)'
      BY <2>3, <2>6 DEF Near
    <2> QED BY <1>1, <1>2, <1>3, <2>7 DEF InData, Lossy, F
  <1>4. CASE Short
    <2>1. Short'
      BY <1>1, <1>4, GarbleFacts DEF Short, Lossy, AtOp
    <2> QED BY <1>2, <2>1 DEF InData
  <1> QED BY <1>1, <1>3, <1>4 DEF InData, Waiting

LEMMA GarbleStatus ==
    ASSUME Typed, Garble, InStatus
    PROVE  InStatus'
  <1>1. /\ UNCHANGED <<up, disk, sp, op, reply, drive, call, sect, data, err, lost, strange>>
        /\ noise' = noise + 1 /\ noise \in Nat /\ down # << >>
    BY GarbleFacts
  <1>2. call'.fn = "dw_read" /\ (InTime' => ~err')
    BY <1>1 DEF InStatus, InTime
  <1>3. CASE err
    <2>1. Behind
      BY <1>3 DEF InStatus
    <2>2. Behind'
      BY <1>1, <2>1 DEF Behind, Ahead, AtOp, Lossy
    <2> QED BY <1>1, <1>2, <1>3, <2>2 DEF InStatus
  <1>4. CASE ~err
    <2>1. Answered(1) /\ SecondToo /\ (noise = 0 => Exact)
      BY <1>1, <1>4 DEF InStatus, Whole
    <2>2. Answered(1)'
      BY <2>1, GarbleAnswered
    <2>3. Exact' = Exact
      BY <1>1, BeforeSame DEF Exact
    <2>4. SecondToo' /\ noise' # 0 /\ (noise' = 1 => Exact')
      BY <1>1, <2>1, <2>3 DEF SecondToo
    <2>5. Whole'
      BY <2>2, <2>4 DEF Whole
    <2> QED BY <1>1, <1>2, <1>4, <2>5 DEF InStatus
  <1> QED BY <1>3, <1>4

LEMMA GarbleWrite ==
    ASSUME Typed, Garble, InWrite
    PROVE  InWrite'
  <1>1. UNCHANGED <<disk, call>> /\ noise' = noise + 1 /\ noise \in Nat /\ down # << >>
    BY GarbleFacts
  <1>2. /\ call.fn = "write" /\ Answered(1)
        /\ SaveStatus(call.drive) = 0 => Stored
    BY <1>1 DEF InWrite, Waiting, Deaf
  <1>3. Answered(1)' /\ noise' # 0
    BY <1>1, <1>2, GarbleAnswered
  <1> QED BY <1>1, <1>2, <1>3 DEF InWrite, SaveStatus, Stored, Fetch

LEMMA GarbleOther ==
    ASSUME Typed, Garble, InOther
    PROVE  InOther'
  <1>1. down # << >> /\ call' = call /\ lost' = lost
    BY GarbleFacts
  <1>2. PICK t \in Others : t.want = call.want /\ t.want # 0 /\ Answered(t.want)
    BY <1>1 DEF InOther, Settled, Waiting
  <1>3. Answered(t.want)'
    BY <1>2, GarbleAnswered
  <1> QED BY <1>1, <1>2, <1>3 DEF InOther

(* A byte is lost, on its way up or on its way down. *)
LEMMA LoseFacts ==
    ASSUME Typed, Lose
    PROVE  /\ UNCHANGED <<disk, sp, op, reply, cp, drive, call, sect, data, err, ret, failed,
                          noise, strange>>
           /\ lost' = lost + 1
           /\ up \in Bytes /\ up' \in Bytes /\ Len(up) \in Nat /\ Len(up') \in Nat
           /\ down \in Bytes /\ down' \in Bytes /\ Len(down) \in Nat /\ Len(down') \in Nat
           /\ \/ Len(up') = Len(up) - 1 /\ down' = down
              \/ Len(down') = Len(down) - 1 /\ up' = up
  <1>1. up \in Bytes /\ down \in Bytes
    BY DEF Typed, TypeOK, ServerTypeOK, Bytes
  <1>2. CASE \E i \in DOMAIN up : up' = RemoveAt(up, i) /\ UNCHANGED down
    <2>1. up' \in Bytes /\ Len(up') = Len(up) - 1 /\ down' = down
      BY <1>1, <1>2, Removed, NoBytes
    <2> QED BY <1>1, <2>1, NoBytes DEF Lose, server, client
  <1>3. CASE \E i \in DOMAIN down : down' = RemoveAt(down, i) /\ UNCHANGED up
    <2>1. down' \in Bytes /\ Len(down') = Len(down) - 1 /\ up' = up
      BY <1>1, <1>3, Removed, NoBytes
    <2> QED BY <1>1, <2>1, NoBytes DEF Lose, server, client
  <1> QED BY <1>2, <1>3 DEF Lose

LEMMA LoseUp ==
    ASSUME Typed, Lose, down' = down
    PROVE  \E i \in 1..Len(up) :
              \A j \in 1..(Len(up) - 1) : up'[j] = IF j < i THEN up[j] ELSE up[j + 1]
  <1>1. up \in Bytes /\ down \in Bytes
    BY DEF Typed, TypeOK, ServerTypeOK, Bytes
  <1>2. ASSUME NEW i \in DOMAIN down, down' = RemoveAt(down, i) PROVE FALSE
    <2>1. Len(down') = Len(down) - 1 /\ Len(down) \in Nat
      BY <1>1, <1>2, Removed, NoBytes
    <2> QED BY <2>1
  <1>3. PICK i \in DOMAIN up : up' = RemoveAt(up, i)
    BY <1>2 DEF Lose
  <1>4. i \in 1..Len(up)
    BY <1>1, NoBytes
  <1>5. \A j \in 1..(Len(up) - 1) : RemoveAt(up, i)[j] = IF j < i THEN up[j] ELSE up[j + 1]
    BY <1>1, <1>4, Removed
  <1> QED BY <1>3, <1>4, <1>5

(* A request of which a byte is lost can be taken for no other one, if     *)
(* none of its bytes but the first is an opcode that says anything.        *)
LEMMA LoseWaiting ==
    ASSUME Typed, Lose, Lossy', Others = {}, NEW r, Asked(r), r[1] \in DOMAIN Takes,
           Waiting(r), Inert(r)
    PROVE  Deaf'
  <1>1. /\ r \in Bytes /\ Len(r) \in Nat /\ Len(r) >= 1 /\ Takes[r[1]] \in Nat
        /\ Len(r) = 1 + Takes[r[1]]
    BY NoBytes, TakesSome DEF Asked, Length
  <1>2. down = << >> /\ \/ AtOp /\ up = r
                        \/ sp = "args" /\ op = r[1] /\ Len(up) = Len(r) - 1
    BY <1>1, WaitingAlone
  <1>3. /\ up' \in Bytes /\ Len(up) \in Nat /\ Len(up') = Len(up) - 1 /\ down' = << >>
        /\ UNCHANGED <<sp, op, strange>>
    <2>1. Len(down) = 0
      BY <1>2
    <2>2. Len(down') # Len(down) - 1
      BY <2>1, LoseFacts
    <2> QED BY <1>2, <2>2, LoseFacts
  <1>4. CASE AtOp /\ up = r
    <2>1. AtOp'
      BY <1>3, <1>4 DEF AtOp, Lossy
    <2>2. PICK i \in 1..Len(r) :
             \A j \in 1..(Len(r) - 1) : up'[j] = IF j < i THEN r[j] ELSE r[j + 1]
      BY <1>2, <1>3, <1>4, LoseUp
    <2>3. Len(up') = Len(r) - 1 /\ Len(up') <= Takes[r[1]]
      BY <1>1, <1>3, <1>4
    <2>4. Inert(up')
      <3> SUFFICES ASSUME NEW j \in 2..Len(up') PROVE up'[j] \notin Speaks
        BY DEF Inert
      <3>0. PICK n \in Nat : n = Len(r) /\ Len(up') = n - 1
        BY <1>1, <2>3
      <3>1. j \in 2..Len(r) /\ j + 1 \in 2..Len(r) /\ j \in 1..(Len(r) - 1)
        BY <3>0
      <3>2. up'[j] = r[j] \/ up'[j] = r[j + 1]
        BY <2>2, <3>1
      <3> QED BY <3>1, <3>2 DEF Inert
    <2>5. up' # << >> => up'[1] = r[1] \/ up'[1] \notin Speaks
      <3> SUFFICES ASSUME up' # << >> PROVE up'[1] = r[1] \/ up'[1] \notin Speaks
        OBVIOUS
      <3>1. 1 \in 1..(Len(r) - 1) /\ 2 \in 2..Len(r)
        BY <1>1, <1>3, <2>3, NoBytes
      <3>2. up'[1] = IF 1 < i THEN r[1] ELSE r[1 + 1]
        BY <2>2, <3>1
      <3>3. up'[1] = r[1] \/ up'[1] = r[2]
        BY <3>2
      <3> QED BY <3>1, <3>3 DEF Inert
    <2> QED BY <1>3, <2>1, <2>3, <2>4, <2>5 DEF Deaf, Speaks
  <1>5. CASE sp = "args" /\ op = r[1] /\ Len(up) = Len(r) - 1
    <2>1. Len(up') < Takes[op]
      BY <1>1, <1>3, <1>5
    <2>2. op' = op /\ sp' = sp
      BY <1>3
    <2> QED BY <1>3, <1>5, <2>1, <2>2 DEF Deaf
  <1> QED BY <1>2, <1>4, <1>5

LEMMA LoseDeaf ==
    ASSUME Typed, Lose, Lossy', Deaf
    PROVE  Deaf'
  <1>1. /\ up \in Bytes /\ up' \in Bytes /\ Len(up) \in Nat /\ Len(up') = Len(up) - 1 /\ down' = << >>
        /\ UNCHANGED <<sp, op, strange, disk>>
    <2>1. Len(down) = 0 /\ down = << >>
      BY DEF Deaf
    <2>2. Len(down') # Len(down) - 1
      BY <2>1, LoseFacts
    <2> QED BY <2>1, <2>2, LoseFacts
  <1>2. CASE sp = "exited"
    BY <1>1, <1>2 DEF Deaf
  <1>3. CASE sp = "args" /\ Len(up) < Takes[op]
    <2>1. op \in DOMAIN Takes
      BY <1>3 DEF Typed, TypeOK, ServerTypeOK
    <2>2. Takes[op] \in Nat
      BY <2>1, TakesSome
    <2>3. Len(up') < Takes[op]
      BY <1>1, <1>3, <2>2
    <2>4. op' = op
      BY <1>1
    <2> QED BY <1>1, <1>3, <2>3, <2>4 DEF Deaf
  <1>4. CASE /\ AtOp /\ Inert(up)
             /\ up # << >> /\ up[1] \in Speaks =>
                  up[1] \in DOMAIN Takes /\ Len(up) <= Takes[up[1]]
    <2>1. AtOp'
      BY <1>1, <1>4 DEF AtOp, Lossy
    <2>2. PICK i \in 1..Len(up) :
             \A j \in 1..(Len(up) - 1) : up'[j] = IF j < i THEN up[j] ELSE up[j + 1]
      BY <1>1, LoseUp DEF Deaf
    <2>3. Inert(up')
      <3> SUFFICES ASSUME NEW j \in 2..Len(up') PROVE up'[j] \notin Speaks
        BY DEF Inert
      <3>1. j \in 2..Len(up) /\ j + 1 \in 2..Len(up) /\ j \in 1..(Len(up) - 1)
        BY <1>1
      <3>2. up'[j] = up[j] \/ up'[j] = up[j + 1]
        BY <2>2, <3>1
      <3> QED BY <1>4, <3>1, <3>2 DEF Inert
    <2>4. ASSUME up' # << >>, up'[1] \in Speaks
          PROVE  up'[1] \in DOMAIN Takes /\ Len(up') <= Takes[up'[1]]
      <3>1. 1 \in 1..(Len(up) - 1) /\ 2 \in 2..Len(up) /\ up # << >>
        BY <1>1, <2>4, NoBytes
      <3>2. up'[1] = IF 1 < i THEN up[1] ELSE up[1 + 1]
        BY <2>2, <3>1
      <3>3. up'[1] = up[1] \/ up'[1] = up[2]
        BY <3>2
      <3>4. up'[1] = up[1]
        BY <1>4, <2>4, <3>1, <3>3 DEF Inert
      <3>5. up[1] \in DOMAIN Takes /\ Len(up) <= Takes[up[1]] /\ Takes[up[1]] \in Nat
        BY <1>4, <2>4, <3>1, <3>4, TakesSome
      <3>6. Len(up') <= Takes[up[1]]
        BY <1>1, <3>5
      <3> QED BY <3>4, <3>5, <3>6
    <2> QED BY <1>1, <2>1, <2>3, <2>4 DEF Deaf
  <1> QED BY <1>2, <1>3, <1>4 DEF Deaf

(* The only byte of an answer is lost. *)
LEMMA LoseAnswered ==
    ASSUME Typed, Lose, Lossy', Answered(1)
    PROVE  AtOp' /\ up' = << >> /\ down' = << >>
  <1>1. Len(up) = 0 /\ up = << >> /\ Len(down) = 1 /\ AtOp
    BY DEF Answered
  <1>2. Len(down') = 0 /\ up' = << >>
    BY <1>1, LoseFacts
  <1> QED BY <1>1, <1>2, LoseFacts, NoBytes DEF AtOp, Lossy

LEMMA LoseInit ==
    ASSUME Typed, Lose, Lossy', Others = {}, InInit
    PROVE  InInit'
  <1>1. CASE Waiting(<<DWINIT, 0>>)
    <2> DEFINE r == <<DWINIT, 0>>
    <2>1. Asked(r) /\ r[1] \in DOMAIN Takes /\ Waiting(r)
      BY <1>1, InitAsked, Codes
    <2>2. Inert(r)
      <3>1. 0 \notin Speaks
        BY Codes DEF Speaks
      <3>2. \A i \in 2..Len(r) : i = 2
        OBVIOUS
      <3>3. \A i \in 2..Len(r) : r[i] = 0
        BY <3>2
      <3> QED BY <3>1, <3>3 DEF Inert
    <2> HIDE DEF r
    <2> QED BY <2>1, <2>2, LoseWaiting DEF InInit
  <1>2. CASE Answered(1)
    <2>1. AtOp' /\ up' = << >> /\ down' = << >>
      BY <1>2, LoseAnswered
    <2> QED BY <2>1, DeafNew DEF InInit
  <1>3. CASE Deaf
    BY <1>3, LoseDeaf DEF InInit
  <1> QED BY <1>1, <1>2, <1>3 DEF InInit

LEMMA LoseData ==
    ASSUME Typed, Lose, Lossy', Others = {}, SectorFits, InData
    PROVE  InData'
  <1>1. /\ UNCHANGED <<disk, sp, op, reply, drive, call, sect, data, noise>>
        /\ up' \in Bytes /\ Len(up) \in Nat /\ Len(up') \in Nat /\ Len(down) \in Nat /\ Len(down') \in Nat
        /\ \/ Len(up') = Len(up) - 1 /\ down' = down
           \/ Len(down') = Len(down) - 1 /\ up' = up
        /\ SECZ \in Nat /\ SECZ >= 25
    <2>1. SECZ \in Nat /\ SECZ >= 25
      BY DEF SectorFits
    <2> QED BY <2>1, LoseFacts
  <1>2. /\ call'.fn = "dw_read" /\ (noise' <= 1 => data' = Before') /\ SecondToo'
    BY <1>1, BeforeSame DEF InData, SecondToo
  <1>3. Short' => InData'
    BY <1>2 DEF InData
  <1>4. AtOp' <=> AtOp \/ sp = "silent"
    BY <1>1 DEF AtOp, Lossy
  <1>5. CASE Waiting(Request(sect))
    <2>1. Request(sect) \in Bytes /\ Len(Request(sect)) = 5
      BY Requests
    <2>2. PICK r : r = Request(sect)
      OBVIOUS
    <2>3. r \in Bytes /\ Len(r) = 5 /\ Waiting(r) /\ Len(r) >= 1
      BY <1>5, <2>1, <2>2
    <2>4. down = << >> /\ \/ AtOp /\ up = r
                          \/ sp = "args" /\ op = r[1] /\ Len(up) = Len(r) - 1
      BY <2>3, WaitingAlone
    <2>5. Len(down) = 0
      BY <2>4
    <2>6. Len(up') = Len(up) - 1 /\ Len(down') = 0
      BY <1>1, <2>5
    <2>7. CASE AtOp /\ up = r
      <3>1. Len(up') = 4
        BY <2>3, <2>6, <2>7
      <3>2. AtOp'
        BY <1>4, <2>7
      <3>3. \A d \in Nat, u \in Nat : d = 0 /\ u = 4 => u <= 4 /\ d + 6 * u <= 24
        OBVIOUS
      <3>4. Len(up') <= 4 /\ Len(down') + 6 * Len(up') <= 24
        BY <1>1, <2>6, <3>1, <3>3, Zenon
      <3> QED BY <1>3, <3>2, <3>4 DEF Short
    <2>8. CASE sp = "args" /\ Len(up) = Len(r) - 1
      <3>1. Len(up') = 3 /\ sp' = "args"
        BY <1>1, <2>3, <2>6, <2>8
      <3>2. \A d \in Nat, u \in Nat : d = 0 /\ u = 3 => u <= 4 /\ u <= 3 /\ d + 6 * u + 1 <= 24
        OBVIOUS
      <3>3. Len(up') <= 4 /\ Len(up') <= 3 /\ Len(down') + 6 * Len(up') + 1 <= 24
        BY <1>1, <2>6, <3>1, <3>2, Zenon
      <3> QED BY <1>3, <3>1, <3>3 DEF Short
    <2> QED BY <2>4, <2>7, <2>8
  <1>6. CASE /\ up = << >>
             /\ (sp = "cksum" /\ reply = Kept) \/ (sp = "exited" /\ Lossy)
             /\ Near(down, Fetch(drive, sect).data)
    <2>1. Len(down) = SECZ
      <3>1. Fetch(drive, sect).data \in Sector
        BY FetchType DEF Typed, TypeOK, ServerTypeOK
      <3> QED BY <1>6, <3>1, SectorBytes DEF Near
    <2>2. Len(up) = 0
      BY <1>6
    <2>3. Len(down') < SECZ /\ up' = << >> /\ Len(up') <= 4
      <3>1. Len(up') # Len(up) - 1
        BY <1>1, <2>2
      <3> QED BY <1>1, <1>6, <2>1, <2>2, <3>1
    <2>4. sp' = "cksum" \/ sp' = "exited"
      BY <1>1, <1>6
    <2> QED BY <1>3, <2>3, <2>4 DEF Short
  <1>7. CASE Short
    <2>1. Len(up) <= 4 /\ Len(up') <= Len(up) /\ Len(down') <= Len(down) /\ Len(up') <= 4
      BY <1>1, <1>7 DEF Short
    <2>2. CASE sp = "exited" /\ Len(down) < SECZ
      BY <1>1, <1>3, <2>1, <2>2 DEF Short
    <2>3. CASE sp = "cksum" /\ up = << >> /\ Len(down) < SECZ
      <3>1. Len(up) = 0
        BY <2>3
      <3>2. up' = << >>
        BY <1>1, <2>3, <3>1
      <3> QED BY <1>1, <1>3, <2>1, <2>3, <3>2 DEF Short
    <2>4. CASE AtOp /\ Len(down) + 6 * Len(up) <= 24
      <3>1. Len(down') + 6 * Len(up') <= 24
        BY <1>1, <2>1, <2>4
      <3> QED BY <1>3, <1>4, <2>1, <2>4, <3>1 DEF Short
    <2>5. CASE sp = "args" /\ Len(up) <= 3 /\ Len(down) + 6 * Len(up) + 1 <= 24
      <3>1. Len(up') <= 3 /\ Len(down') + 6 * Len(up') + 1 <= 24
        BY <1>1, <2>1, <2>5
      <3> QED BY <1>1, <1>3, <2>1, <2>5, <3>1 DEF Short
    <2> QED BY <1>7, <2>2, <2>3, <2>4, <2>5 DEF Short
  <1> QED BY <1>5, <1>6, <1>7 DEF InData

LEMMA LoseStatus ==
    ASSUME Typed, Lose, Lossy', Others = {}, InStatus
    PROVE  InStatus'
  <1>1. /\ UNCHANGED <<disk, sp, op, reply, drive, call, sect, data, err, noise>>
        /\ up' \in Bytes /\ Len(up) \in Nat /\ Len(up') \in Nat /\ Len(down) \in Nat /\ Len(down') \in Nat
        /\ \/ Len(up') = Len(up) - 1 /\ down' = down
           \/ Len(down') = Len(down) - 1 /\ up' = up
    BY LoseFacts
  <1>2. ~InTime' /\ call'.fn = "dw_read"
    BY <1>1 DEF InTime, Lossy, InStatus
  <1>3. CASE err
    <2>1. Behind
      BY <1>3 DEF InStatus
    <2>2. Len(up) <= 7
      BY <2>1, BehindLength
    <2>3. Len(up') <= 7
      BY <1>1, <2>2
    <2> QED BY <1>1, <1>2, <1>3, <2>3 DEF InStatus, Behind
  <1>4. CASE ~err
    <2>1. Whole
      BY <1>4 DEF InStatus
    <2>2. SecondToo' /\ (noise' = 0 => Exact')
      BY <1>1, <2>1, BeforeSame DEF Whole, Exact, SecondToo
    <2>3. CASE sp = "cksum" /\ down = << >> /\ (Len(up) = 2 \/ Len(up) < 2)
      <3>1. Len(down) = 0
        BY <2>3
      <3>2. Len(up') = Len(up) - 1 /\ down' = << >>
        BY <1>1, <2>3, <3>1
      <3>3. \A u \in Nat, v \in Nat : v = u - 1 /\ (u = 2 \/ u < 2) => v < 2
        OBVIOUS
      <3>4. Len(up') < 2
        BY <1>1, <2>3, <3>2, <3>3, Zenon
      <3>5. Whole'
        BY <1>1, <2>2, <2>3, <3>2, <3>4 DEF Whole
      <3> QED BY <1>1, <1>2, <1>4, <3>5 DEF InStatus
    <2>4. CASE Answered(1)
      <3>1. AtOp' /\ up' = << >> /\ down' = << >>
        BY <2>4, LoseAnswered
      <3>2. Whole'
        BY <2>2, <3>1 DEF Whole
      <3> QED BY <1>1, <1>2, <1>4, <3>2 DEF InStatus
    <2>5. CASE sp = "exited" /\ down = << >>
      <3>1. Len(down) = 0
        BY <2>5
      <3>2. down' = << >>
        BY <1>1, <2>5, <3>1
      <3>3. Whole'
        BY <1>1, <2>2, <2>5, <3>2 DEF Whole
      <3> QED BY <1>1, <1>2, <1>4, <3>3 DEF InStatus
    <2>6. CASE AtOp /\ up = << >> /\ down = << >>
      <3>1. Len(up) = 0 /\ Len(down) = 0
        BY <2>6
      <3> QED BY <1>1, <3>1
    <2> QED BY <2>1, <2>3, <2>4, <2>5, <2>6, Zenon DEF Whole
  <1> QED BY <1>3, <1>4

LEMMA LoseWrite ==
    ASSUME Typed, Lose, Lossy', Others = {}, InWrite,
           \A d \in Drives, n \in WriteLsns, s \in WriteData : Inert(WriteRequest(d, n, s))
    PROVE  InWrite'
  <1>1. UNCHANGED <<disk, call>> /\ call.fn = "write"
    BY LoseFacts DEF InWrite
  <1>2. Deaf' => InWrite'
    BY <1>1 DEF InWrite
  <1>3. CASE Waiting(WriteRequest(call.drive, call.lsn, call.data))
    <2> DEFINE q == WriteRequest(call.drive, call.lsn, call.data)
    <2>1. Asked(q) /\ q[1] = 87 /\ 87 \in DOMAIN Takes /\ Inert(q) /\ Waiting(q)
      BY <1>3, Requests, WriteAsked, Codes DEF IsWrite
    <2> HIDE DEF q
    <2> QED BY <1>2, <2>1, LoseWaiting
  <1>4. CASE Answered(1)
    <2>1. AtOp' /\ up' = << >> /\ down' = << >>
      BY <1>4, LoseAnswered
    <2> QED BY <1>2, <2>1, DeafNew
  <1>5. CASE Deaf
    BY <1>2, <1>5, LoseDeaf
  <1> QED BY <1>3, <1>4, <1>5 DEF InWrite

LEMMA LoseSettled ==
    ASSUME Typed, Lose, Others = {}
    PROVE  ~Settled
  <1>1. Settled => up = << >> /\ down = << >>
    BY DEF Settled
  <1>2. up = << >> => Len(up) = 0
    OBVIOUS
  <1>3. down = << >> => Len(down) = 0
    OBVIOUS
  <1> QED BY <1>1, <1>2, <1>3, LoseFacts

-----------------------------------------------------------------------------
(* The invariant *)

(* What the place of the client says of the line, and of the server. *)
Place ==
    /\ cp = "idle" => Settled
    /\ cp = "init" => InInit
    /\ cp = "data" => InData
    /\ cp = "status" => InStatus
    /\ cp = "other" => InWrite \/ InOther
    /\ cp = "gone" =>
         sp = "exited" \/ InInit \/ InData \/ InStatus \/ InWrite \/ InOther \/ Settled

LEMMA SyncPlace == SyncInv <=> (Watched => Place /\ (cp = "idle" => Result))
  BY DEF SyncInv, Place

(* An image changes when the WRITE that was asked for is done, and by it. *)
AskedOnly ==
    \A d \in Paths : disk'[d] # disk[d] =>
         /\ call.fn = "write" /\ d = call.drive
         /\ disk'[d] = With(disk[d], call.lsn, call.data)

LEMMA ServerPlace ==
    ASSUME Typed, SectorFits, ServerStep, Place
    PROVE  /\ Place' /\ AskedOnly
           /\ cp = "idle" => disk' = disk
  <1>1. cp' = cp /\ Server /\ UNCHANGED faults
    BY DEF ServerStep, client
  <1>2. disk' = disk => AskedOnly
    BY DEF AskedOnly
  <1>3. CASE Eof
    <2>1. cp = "gone" /\ sp' = "exited" /\ disk' = disk
      BY <1>3 DEF Eof, Typed
    <2> QED BY <1>1, <1>2, <2>1 DEF Place
  <1>4. CASE ~Eof
    <2>1. Settled => Settled' /\ disk' = disk
      BY <1>1, <1>4, SettledServer
    <2>2. InInit => InInit' /\ disk' = disk
      BY <1>4, InitServer
    <2>3. InData => InData' /\ disk' = disk
      BY <1>4, DataServer
    <2>4. InStatus => InStatus' /\ disk' = disk
      BY <1>4, StatusServer
    <2>5. InWrite => InWrite' /\ AskedOnly
      BY <1>4, WriteServer DEF AskedOnly
    <2>6. InOther => InOther' /\ disk' = disk
      BY <1>4, OtherServer
    <2>7. sp # "exited"
      BY <1>1, AtExit
    <2>8. cp \in {"idle", "init", "data", "status", "other", "gone"}
      BY DEF Typed, TypeOK
    <2> QED BY <1>1, <1>2, <2>1, <2>2, <2>3, <2>4, <2>5, <2>6, <2>7, <2>8, Zenon DEF Place
  <1> QED BY <1>3, <1>4

LEMMA ServerNext ==
    ASSUME Typed, SectorFits, ServerStep, SyncInv
    PROVE  SyncInv'
  <1>1. UNCHANGED <<cp, drive, call, sect, data, err, ret, failed, lost, noise, strange>>
    BY StepFacts
  <1>2. Watched' <=> Watched
    BY <1>1 DEF Watched, Understood, InTime
  <1>3. CASE Watched
    <2>1. Place /\ (cp = "idle" => Result)
      BY <1>3, SyncPlace
    <2>2. Place' /\ (cp = "idle" => disk' = disk)
      BY <2>1, ServerPlace
    <2>3. disk' = disk /\ Result => Result'
      BY <1>1 DEF Result, Clean, OnDisk, Stored, Fetch, SaveStatus, TooBig, BLKLIMIT
    <2>4. cp' = "idle" => Result'
      BY <1>1, <2>1, <2>2, <2>3
    <2> QED BY <2>2, <2>4 DEF SyncInv, Place
  <1>4. CASE ~Watched
    BY <1>2, <1>4 DEF SyncInv
  <1> QED BY <1>3, <1>4

LEMMA MisreadNext ==
    ASSUME Typed, SectorFits, Misread, SyncInv
    PROVE  SyncInv'
  <1> SUFFICES ASSUME Watched' PROVE Place' /\ (cp' = "idle" => Result')
    BY DEF SyncInv, Place
  <1>1. UNCHANGED <<disk, cp, drive, call, data, ret, failed, noise>> /\ lost' = lost + 1
    BY MisreadFacts
  <1>2. Watched /\ Lossy' /\ Others = {} /\ ~InTime'
    BY <1>1, LossWatched
  <1>3. Place /\ (cp = "idle" => Result)
    BY <1>2, SyncPlace
  <1>4. Settled => Settled'
    BY <1>2, MisreadSettled
  <1>5. InInit => InInit'
    BY <1>2, MisreadInit
  <1>6. InData => InData'
    BY <1>2, MisreadData
  <1>7. InStatus => InStatus'
    BY <1>2, MisreadStatus
  <1>8. InWrite => InWrite'
    BY <1>2, MisreadWrite
  <1>9. ~InOther /\ sp # "exited"
    BY <1>2, MisreadFacts DEF InOther
  <1>10. Place'
    BY <1>1, <1>3, <1>4, <1>5, <1>6, <1>7, <1>8, <1>9, Zenon DEF Place
  <1>11. Result => Result'
    <2>1. ~Clean'
      BY <1>2 DEF Clean, Lossy
    <2> QED BY <1>1, <2>1 DEF Result, OnDisk, Stored, Fetch
  <1> QED BY <1>1, <1>3, <1>10, <1>11

LEMMA LoseNext ==
    ASSUME Typed, SectorFits, Lose, SyncInv
    PROVE  SyncInv'
  <1> SUFFICES ASSUME Watched' PROVE Place' /\ (cp' = "idle" => Result')
    BY DEF SyncInv, Place
  <1>1. UNCHANGED <<cp, sp, failed>> /\ lost' = lost + 1
    BY LoseFacts
  <1>2. /\ Watched /\ Lossy' /\ Others = {}
        /\ \A d \in Drives, n \in WriteLsns, s \in WriteData : Inert(WriteRequest(d, n, s))
    BY <1>1, LossWatched
  <1>3. Place
    BY <1>2, SyncPlace
  <1>4. ~Settled
    BY <1>2, LoseSettled
  <1>5. InInit => InInit'
    BY <1>2, LoseInit
  <1>6. InData => InData'
    BY <1>2, LoseData
  <1>7. InStatus => InStatus'
    BY <1>2, LoseStatus
  <1>8. InWrite => InWrite'
    BY <1>2, LoseWrite
  <1>9. ~InOther
    BY <1>2 DEF InOther
  <1>10. Place' /\ cp # "idle"
    BY <1>1, <1>3, <1>4, <1>5, <1>6, <1>7, <1>8, <1>9, Zenon DEF Place
  <1> QED BY <1>1, <1>10

LEMMA GarbleNext ==
    ASSUME Typed, Garble, SyncInv
    PROVE  SyncInv'
  <1> SUFFICES ASSUME Watched' PROVE Place' /\ (cp' = "idle" => Result')
    BY DEF SyncInv, Place
  <1>1. UNCHANGED <<cp, sp, failed, lost, strange>> /\ down # << >>
    BY GarbleFacts
  <1>2. Watched
    BY <1>1 DEF Watched, Understood, InTime
  <1>3. Place
    BY <1>2, SyncPlace
  <1>4. ~Settled
    BY <1>1 DEF Settled
  <1>5. InInit => InInit'
    BY GarbleInit
  <1>6. InData => InData'
    BY GarbleData
  <1>7. InStatus => InStatus'
    BY GarbleStatus
  <1>8. InWrite => InWrite'
    BY GarbleWrite
  <1>9. InOther => InOther'
    BY GarbleOther
  <1>10. Place' /\ cp # "idle"
    BY <1>1, <1>3, <1>4, <1>5, <1>6, <1>7, <1>8, <1>9, Zenon DEF Place
  <1> QED BY <1>1, <1>10

(* What a place says does not depend on where the client is. *)
LEMMA PlaceSame ==
    ASSUME UNCHANGED <<up, down, disk, sp, op, reply, drive, call, sect, data, err,
                       lost, noise, strange>>
    PROVE  /\ (Settled => Settled') /\ (InInit => InInit') /\ (InData => InData')
           /\ (InStatus => InStatus') /\ (InWrite => InWrite') /\ (InOther => InOther')
  <1>1. (AtOp' <=> AtOp) /\ (Lossy' <=> Lossy) /\ (InTime' <=> InTime)
    BY DEF AtOp, Lossy, InTime
  <1>2. \A k : Ahead(k)' <=> Ahead(k)
    BY <1>1 DEF Ahead
  <1>3. \A r : Waiting(r)' <=> Waiting(r)
    BY <1>1, <1>2 DEF Waiting
  <1>4. \A n : Answered(n)' <=> Answered(n)
    BY <1>1 DEF Answered
  <1>5. (Deaf' <=> Deaf) /\ (Short' <=> Short)
    BY <1>1 DEF Deaf, Short
  <1>6. Settled => Settled'
    BY <1>1, <1>2 DEF Settled
  <1>7. InInit => InInit'
    BY <1>3, <1>4, <1>5 DEF InInit
  <1>8. Before' = Before /\ Kept' = Kept /\ Fetch(drive, sect)' = Fetch(drive, sect)
    BY BeforeSame
  <1>9. InData => InData'
    <2> SUFFICES ASSUME InData PROVE InData'
      OBVIOUS
    <2>1. call'.fn = "dw_read" /\ (noise' <= 1 => data' = Before') /\ SecondToo'
      BY <1>8 DEF InData, SecondToo
    <2>2. Waiting(Request(sect)) => Waiting(Request(sect))'
      <3>1. PICK r : r = Request(sect)
        OBVIOUS
      <3>2. Request(sect)' = r
        BY <3>1 DEF Request, LsnBytes
      <3> QED BY <1>3, <3>1, <3>2
    <2>3. Near(down, Fetch(drive, sect).data) => Near(down, Fetch(drive, sect).data)'
      BY <1>8 DEF Near
    <2> QED BY <1>1, <1>5, <1>8, <2>1, <2>2, <2>3 DEF InData
  <1>10. InStatus => InStatus'
    <2>1. Whole => Whole'
      <3>1. Exact' <=> Exact
        BY <1>8 DEF Exact
      <3>2. SecondToo' <=> SecondToo
        BY DEF SecondToo
      <3> QED BY <1>1, <1>4, <1>8, <3>1, <3>2 DEF Whole
    <2>2. Behind => Behind'
      BY <1>1, <1>2 DEF Behind
    <2> QED BY <1>1, <2>1, <2>2 DEF InStatus
  <1>11. InWrite => InWrite'
    <2>1. WriteRequest(call.drive, call.lsn, call.data)' = WriteRequest(call.drive, call.lsn, call.data)
      BY DEF WriteRequest
    <2>2. PICK r : r = WriteRequest(call.drive, call.lsn, call.data)
      OBVIOUS
    <2>3. Waiting(r) => Waiting(WriteRequest(call.drive, call.lsn, call.data))'
      BY <1>3, <2>1, <2>2
    <2>4. Stored' = Stored /\ SaveStatus(call.drive)' = SaveStatus(call.drive)
      BY DEF Stored, SaveStatus, Fetch
    <2> QED BY <1>4, <1>5, <2>2, <2>3, <2>4 DEF InWrite
  <1>12. InOther => InOther'
    BY <1>3, <1>4, <1>6 DEF InOther
  <1> QED BY <1>6, <1>7, <1>9, <1>10, <1>11, <1>12

(* The client goes: the line stays as it is. *)
LEMMA LeaveNext ==
    ASSUME Typed, Leave, SyncInv
    PROVE  SyncInv'
  <1> SUFFICES ASSUME Watched' PROVE Place' /\ (cp' = "idle" => Result')
    BY DEF SyncInv, Place
  <1>1. /\ UNCHANGED <<up, down, disk, sp, op, reply, drive, call, sect, data, err, failed,
                       lost, noise, strange>>
        /\ cp' = "gone" /\ cp # "gone"
    BY DEF Leave, server, faults
  <1>2. Watched
    BY <1>1 DEF Watched, Understood, InTime
  <1>3. Place
    BY <1>2, SyncPlace
  <1>4. cp \in {"idle", "init", "data", "status", "other", "gone"}
    BY DEF Typed, TypeOK
  <1> QED BY <1>1, <1>3, <1>4, PlaceSame DEF Place

LEMMA SyncInit == Init => SyncInv
  <1> SUFFICES ASSUME Init PROVE Settled /\ Result /\ cp = "idle"
    BY DEF SyncInv
  <1>1. sp = "op" /\ up = << >> /\ down = << >> /\ Len(up) = 0
    BY DEF Init, ServerInit
  <1>2. Settled
    BY <1>1, NothingAhead DEF Settled, AtOp
  <1>3. call.fn = "none"
    BY DEF Init
  <1> QED BY <1>2, <1>3 DEF Result, Init

LEMMA SyncNext == Typed /\ SectorFits /\ SyncInv /\ [Next]_vars => SyncInv'
  <1> SUFFICES ASSUME Typed, SectorFits, SyncInv, [Next]_vars PROVE SyncInv'
    OBVIOUS
  <1>1. ASSUME ServerStep PROVE SyncInv'
    BY <1>1, ServerNext
  <1>2. ASSUME Client PROVE SyncInv'
    <2> SUFFICES ASSUME Watched'
                 PROVE  \/ cp' = "idle" /\ Settled' /\ Result'
                        \/ cp' = "data" /\ InData'
                        \/ cp' = "status" /\ InStatus'
      BY DEF SyncInv
    <2> QED BY <1>2, InitDoneStep, ReadDataStep, ReadStatusStep, OtherDoneStep DEF Client
  <1>3. ASSUME Call PROVE SyncInv'
    <2> SUFFICES ASSUME Watched'
                 PROVE  \/ cp' = "idle" /\ Settled' /\ Result'
                        \/ cp' = "init" /\ InInit'
                        \/ cp' = "data" /\ InData'
                        \/ cp' = "other" /\ (InWrite' \/ InOther')
      BY DEF SyncInv
    <2> QED BY <1>3, CallInit, CallRead, CallRefuse, CallWriting, CallOthers DEF Call
  <1>4. ASSUME Lose PROVE SyncInv'
    BY <1>4, LoseNext
  <1>5. ASSUME Garble PROVE SyncInv'
    BY <1>5, GarbleNext
  <1>6. ASSUME Misread PROVE SyncInv'
    BY <1>6, MisreadNext
  <1>7. ASSUME Leave PROVE SyncInv'
    BY <1>7, LeaveNext
  <1>8. ASSUME UNCHANGED vars PROVE SyncInv'
    <2>1. UNCHANGED <<up, down, hangup, disk, sp, op, reply, lpr, cp, drive, call, sect, data, err,
                      ret, failed, calls, lost, noise, strange>>
      BY <1>8 DEF vars, line, server, client, faults
    <2>2. Watched' <=> Watched
      BY <2>1 DEF Watched, Understood, InTime
    <2>3. Result => Result'
      BY <2>1 DEF Result, Clean, OnDisk, Stored, Fetch, SaveStatus, TooBig, BLKLIMIT
    <2>4. Place => Place'
      BY <2>1, PlaceSame DEF Place
    <2> QED BY <2>1, <2>2, <2>3, <2>4 DEF SyncInv, Place
  <1> QED BY <1>1, <1>2, <1>3, <1>4, <1>5, <1>6, <1>7, <1>8 DEF Next

LEMMA SyncInductive ==
    ASSUME SectorFits
    PROVE  /\ Init => Typed /\ SyncInv
           /\ (Typed /\ SyncInv) /\ [Next]_vars => (Typed /\ SyncInv)'
  BY TypedInit, TypedNext, SyncInit, SyncNext

-----------------------------------------------------------------------------
(* What follows *)

(* Whatever the client, the server and the line do, what is on the line     *)
(* and where the server is fits the place of the client in dw_init,        *)
(* dw_read, or a request of the kernel, until a call has failed.           *)
THEOREM StaysInPlace ==
    ASSUME SectorFits
    PROVE  Spec => []SyncInv
  <1> QED BY SyncInductive, PTL DEF Spec

(* On a line that neither loses, changes nor delays bytes, dw_trans and the *)
(* loop of lwwire never get out of step: between two calls of the client,  *)
(* when the server has nothing left to take, it waits for an opcode and    *)
(* both directions are empty, after any number of READEX, WRITE and other  *)
(* requests.                                                               *)
THEOREM StaysInStep ==
    ASSUME SectorFits
    PROVE  Spec => []InStep
  <1>1. Typed /\ SyncInv => InStep
    <2> SUFFICES ASSUME Typed, SyncInv, Clean, cp = "idle", Quiet
                 PROVE  sp \in {"op", "silent"} /\ up = << >> /\ down = << >>
      BY DEF InStep
    <2>1. InTime /\ Watched
      BY DEF Clean, InTime, Watched, Understood
    <2>2. Settled
      BY <2>1 DEF SyncInv
    <2>3. PICK k : k = Len(up)
      OBVIOUS
    <2>4. k \in 0..Len(up) /\ Ahead(k)
      BY <2>2, <2>3, NoBytes DEF Settled, Typed, TypeOK, ServerTypeOK, Bytes
    <2> QED BY <2>1, <2>2, <2>4, Busy DEF Settled
  <1> QED BY <1>1, SyncInductive, PTL DEF Spec

(* On such a line dw_init and dw_read succeed, but for a drive without an   *)
(* image and a block past the limit, and WRITE returns what                *)
(* lwwire_save_sector returned.                                            *)
THEOREM CleanSucceeds ==
    ASSUME SectorFits
    PROVE  Spec => []Succeeds
  <1>1. SyncInv => Succeeds
    <2> SUFFICES ASSUME SyncInv, Clean, cp = "idle" PROVE Succeeds
      BY DEF Succeeds, Ended
    <2>1. Result
      BY DEF SyncInv, Watched, Understood, InTime, Clean
    <2> QED BY <2>1 DEF Result, Succeeds, Ended
  <1> QED BY <1>1, SyncInductive, PTL DEF Spec

(* Until a call fails, a dw_read that returns 0 has left in the buffer the  *)
(* two sectors that lwwire has for the block, with any number of bytes     *)
(* lost, any delay, and one changed byte in an answer: the checksum that   *)
(* READEX has the client send, and lwwire compares, is enough for that.    *)
THEOREM ReadsAreHonest ==
    ASSUME SectorFits
    PROVE  Spec => []ReadHonest
  <1>1. SyncInv => ReadHonest
    <2> SUFFICES ASSUME SyncInv, Ended("dw_read"), ret = 0, ~failed, noise <= 1, Understood
                 PROVE  data = OnDisk(drive, call.blk) /\ (noise = 0 => drive \in Paths)
      BY DEF ReadHonest
    <2>1. Result
      BY DEF SyncInv, Watched, Ended
    <2> QED BY <2>1 DEF Result, Ended
  <1> QED BY <1>1, SyncInductive, PTL DEF Spec

(* Until a call fails, a WRITE that was answered 0 on a line that changes   *)
(* no byte has put its sector on the image.                                *)
THEOREM WritesAreHonest ==
    ASSUME SectorFits
    PROVE  Spec => []WriteHonest
  <1>1. SyncInv => WriteHonest
    <2> SUFFICES ASSUME SyncInv, Ended("write"), ret = 0, ~failed, noise = 0, Understood
                 PROVE  Stored
      BY DEF WriteHonest, Stored
    <2>1. Result
      BY DEF SyncInv, Watched, Ended
    <2> QED BY <2>1 DEF Result, Ended
  <1> QED BY <1>1, SyncInductive, PTL DEF Spec

(* Until a call fails, lwwire changes an image only by the sector, drive    *)
(* and contents of the WRITE that is running, whatever bytes are lost,     *)
(* changed or late.                                                        *)
THEOREM WritesOnlyAsked ==
    ASSUME SectorFits
    PROVE  Spec => OnlyAsked
  <1>1. Typed /\ SyncInv /\ [Next]_vars =>
           [~failed /\ Understood => AskedOnly]_vars
    <2> SUFFICES ASSUME Typed, SyncInv, Next, ~failed, Understood PROVE AskedOnly
      OBVIOUS
    <2>1. Place
      BY SyncPlace DEF Watched
    <2>2. CASE ServerStep
      BY <2>1, <2>2, ServerPlace
    <2>3. disk' = disk => AskedOnly
      BY DEF AskedOnly
    <2>4. Client \/ Call => disk' = disk
      BY DEF Client, Call, InitDone, ReadData, ReadStatus, OtherDone, dw_init, dw_read,
             dw_read_refuse, CallWrite, CallOther, server
    <2>5. Lose \/ Garble \/ Misread \/ Leave => disk' = disk
      BY DEF Lose, Garble, Misread, ReadError, Leave, server
    <2> QED BY <2>2, <2>3, <2>4, <2>5 DEF Next
  <1>2. Spec => [][~failed /\ Understood => AskedOnly]_vars
    BY <1>1, SyncInductive, PTL DEF Spec
  <1> QED BY <1>2 DEF OnlyAsked, AskedOnly
=============================================================================
