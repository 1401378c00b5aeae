------------------------------ MODULE WireLink ------------------------------
(***************************************************************************)
(* One frame crossing the raw CAN envelope: the sender encodes a wire      *)
(* frame (mcu_can_bridge_encode), the payload may reach the receiver with  *)
(* one byte, its arbitration id, its length or its flags changed, and the  *)
(* receiver decodes it (mcu_can_bridge_decode).                            *)
(***************************************************************************)
EXTENDS FrameCodec

CONSTANTS
    Frames,        \* wire frames a caller may try to send, valid or not
    ByteValues,    \* values a payload byte may be changed to
    None           \* no frame, no envelope, no verdict

VARIABLES
    tx,            \* the frame handed to the encoder, or None
    envelope,      \* hal_can_frame on the bus, or None
    intact,        \* no part of the envelope was changed
    rx             \* what the receiver's decoder published

vars == <<tx, envelope, intact, rx>>

\* HAL_CAN_STANDARD_ID_MAX
StandardIdMax == 2047

\* mcu_can_bridge_encode: flags NONE and DLC 8 around the encoded payload; on
\* any failure the caller's buffer is left alone.
mcu_can_bridge_encode(f) ==
    LET e == mcu_frame_encode(f)
    IN  IF e.status # "OK" \/ e.id > StandardIdMax \/ Len(e.data) # Dlc
        THEN None
        ELSE [flags |-> 0, arbitration_id |-> e.id, data |-> e.data]

\* mcu_can_bridge_decode: the envelope is judged before the payload.
mcu_can_bridge_decode(e) ==
    CASE e.flags # 0                      -> [status |-> "INVALID_FLAGS"]
      [] e.flags = 0 /\ e.arbitration_id > StandardIdMax ->
                                     [status |-> "INVALID_ARBITRATION_ID"]
      [] OTHER -> mcu_frame_decode(e.arbitration_id, e.data)

Init ==
    /\ tx = None
    /\ envelope = None
    /\ intact = TRUE
    /\ rx = None

Send(f) ==
    /\ tx = None
    /\ tx' = f
    /\ envelope' = mcu_can_bridge_encode(f)
    /\ UNCHANGED <<intact, rx>>

OnTheBus == envelope # None /\ intact /\ rx = None

ChangeByte(i, b) ==
    /\ OnTheBus
    /\ envelope.data[i] # b
    /\ envelope' = [envelope EXCEPT !.data[i] = b]
    /\ intact' = FALSE
    /\ UNCHANGED <<tx, rx>>

ChangeId(id) ==
    /\ OnTheBus
    /\ envelope.arbitration_id # id
    /\ envelope' = [envelope EXCEPT !.arbitration_id = id]
    /\ intact' = FALSE
    /\ UNCHANGED <<tx, rx>>

SetFlag ==
    /\ OnTheBus
    /\ envelope' = [envelope EXCEPT !.flags = 1]
    /\ intact' = FALSE
    /\ UNCHANGED <<tx, rx>>

Truncate(n) ==
    /\ OnTheBus
    /\ envelope' = [envelope EXCEPT !.data = SubSeq(envelope.data, 1, n)]
    /\ intact' = FALSE
    /\ UNCHANGED <<tx, rx>>

Receive ==
    /\ envelope # None
    /\ rx = None
    /\ rx' = mcu_can_bridge_decode(envelope)
    /\ UNCHANGED <<tx, envelope, intact>>

Next ==
    \/ \E f \in Frames : Send(f)
    \/ \E i \in 1..Dlc, b \in ByteValues : ChangeByte(i, b)
    \/ \E id \in {0, 4096} \cup {CanIds[k] : k \in DOMAIN CanIds} : ChangeId(id)
    \/ SetFlag
    \/ \E n \in {0, 7} : Truncate(n)
    \/ Receive

Spec == Init /\ [][Next]_vars

-----------------------------------------------------------------------------
Received == rx # None /\ rx.status = "OK"

\* Every valid frame survives the link unchanged, and an invalid one never
\* leaves the sender (mcu_frame_encode validates before it writes).
RoundTrip ==
    /\ (envelope # None => frame_is_valid(tx))
    /\ (tx # None /\ frame_is_valid(tx) => envelope # None)
    /\ (rx # None /\ intact => Received /\ rx.frame = tx)

\* The encoding is canonical: whatever envelope the decoder accepts, changed
\* or not, is exactly the envelope the encoder writes for the decoded frame.
\* No reserved byte, out-of-range code or foreign id slips through.
Canonical == Received => mcu_can_bridge_encode(rx.frame) = envelope

\* No single change, the arbitration id included, turns an ordinary command
\* into a STOP or a STOP into a command: their id ranges and opcodes are
\* disjoint, so the STOP path is entered only by a frame sent as a STOP.
StopIsNeverForged ==
    Received => {tx.kind, rx.frame.kind} # {"COMMAND", "STOP"}
=============================================================================
