---------------------------- MODULE MCDriveWire ----------------------------
(* Small instances of DriveWire: drive 0 is writable, drive 1 read-only,   *)
(* drive 2 without an image.                                               *)
EXTENDS DriveWireInv

(* A sector that begins with bytes a and b *)
MCSector(a, b) == [i \in 1..SECZ |-> IF i = 1 THEN a ELSE IF i = 2 THEN b ELSE 0]
MCImages ==
    (0 :> [n \in 0..3 |-> MCSector(n + 1, 0)]) @@ (1 :> [n \in 0..1 |-> MCSector(200, n + 100)])
MCClock == <<126, 11, 18, 9, 40, 0>>
MCWriteData == { MCSector(9, 200) }

(* Requests the server answers, or takes without an answer. *)
MCPlain == {
    [send |-> <<73>>, want |-> 0], [send |-> <<35>>, want |-> 6],
    [send |-> <<71, 0, 0>>, want |-> 0], [send |-> <<80, 65>>, want |-> 0],
    [send |-> <<82, 2, 0, 0, 1>>, want |-> 1], [send |-> <<114, 1, 0, 0, 0>>, want |-> SECZ + 3],
    [send |-> <<240, 1>>, want |-> 1], [send |-> <<241, 1>>, want |-> 1] }

(* Requests the server answers with radio silence *)
MCBad == { [send |-> <<1>>, want |-> 0], [send |-> <<243, 1, 1>>, want |-> 0] }
MCAll == MCPlain \union MCBad
MCNoise == {0, 255}
MCNone == {}
=============================================================================
