----------------------------- MODULE FrameCodec -----------------------------
(***************************************************************************)
(* CAN Wire V1, the frame format of firmware/mcu/core/frame_codec.c.       *)
(*                                                                         *)
(* A wire frame is the C struct mcu_wire_frame_t as a record; the          *)
(* enumerations are sequences, a value's code being its index minus one.   *)
(* The byte level (EncodeFrame, DecodeFrame) is total: a source byte that  *)
(* names no member of an enumeration decodes to OutOfRange, which          *)
(* frame_is_valid rejects, as the C cast followed by the range checks do.  *)
(***************************************************************************)
EXTENDS Integers, Sequences

CONSTANT CommandIdModulus   \* MCU_COMMAND_SERIAL_MASK + 1 (2^15 on the wire)

ASSUME CommandIdAssumption == CommandIdModulus \in Nat \ {0}

CommandIdMax == CommandIdModulus - 1
StopIdMin    == CommandIdModulus

KindCodes   == <<"COMMAND", "ACK", "TELEMETRY", "STOP", "STOP_ACK">>
OpcodeCodes == <<"RESERVED", "MOVE", "GRIP_OPEN", "GRIP_CLOSE", "HOLD",
                 "STOP", "HEARTBEAT">>
ResultCodes == <<"ACCEPTED", "REJECTED">>
FaultCodes  == <<"NONE", "ACK_TIMEOUT", "STOP_TIMEOUT", "STOP_REJECTED",
                 "LINK_LOST", "DUPLICATE_FRAME", "WATCHDOG_EXPIRED",
                 "MALFORMED_FRAME">>
ModeCodes   == <<"IDLE", "MOVING", "HOLDING", "STOPPED", "FAULTED">>

\* Lower arbitration identifiers win the bus: STOP traffic goes first.
CanIds == [STOP |-> 128, STOP_ACK |-> 129, COMMAND |-> 256, ACK |-> 257,
           TELEMETRY |-> 384]

WireVersion == 16
Dlc         == 8
OutOfRange  == "OUT_OF_RANGE"
NoSequence  == <<0, 0>>     \* a 32-bit sequence_no is its two 16-bit halves

-----------------------------------------------------------------------------
(* Structural validity of a decoded frame.                                 *)

OrdinaryOpcodes == {"MOVE", "GRIP_OPEN", "GRIP_CLOSE", "HOLD", "HEARTBEAT"}
NonFaultedModes == {"IDLE", "MOVING", "HOLDING", "STOPPED"}

clear_frame ==
    [kind |-> "COMMAND", command_id |-> 0, sequence_no |-> NoSequence,
     opcode |-> "RESERVED", retry_count |-> 0, result_code |-> "ACCEPTED",
     fault_code |-> "NONE", device_mode |-> "IDLE"]

absent_command_fields_are_zero(f) ==
    /\ f.command_id = 0
    /\ f.opcode = "RESERVED"
    /\ f.retry_count = 0
    /\ f.result_code = "ACCEPTED"

absent_response_fields_are_zero(f) ==
    /\ f.sequence_no = NoSequence
    /\ f.result_code = "ACCEPTED"
    /\ f.fault_code = "NONE"
    /\ f.device_mode = "IDLE"

ordinary_ack_is_valid(f) ==
    \/ /\ f.result_code = "ACCEPTED"
       /\ f.fault_code = "NONE"
       /\ f.device_mode \in NonFaultedModes
    \/ /\ f.result_code = "REJECTED"
       /\ f.fault_code \in {"DUPLICATE_FRAME", "MALFORMED_FRAME"}
       /\ f.device_mode = "FAULTED"

stop_ack_is_valid(f) ==
    \/ /\ f.result_code = "ACCEPTED"
       /\ f.fault_code = "NONE"
       /\ f.device_mode = "STOPPED"
    \/ /\ f.result_code = "REJECTED"
       /\ f.fault_code = "STOP_REJECTED"
       /\ f.device_mode = "FAULTED"

telemetry_is_valid(f) ==
    /\ absent_command_fields_are_zero(f)
    /\ \/ f.fault_code = "NONE" /\ f.device_mode \in NonFaultedModes
       \/ /\ f.fault_code \in {"LINK_LOST", "WATCHDOG_EXPIRED"}
          /\ f.device_mode = "FAULTED"

\* Mutant: a STOP is trusted by its arbitration id alone.
mut_frame_is_valid(f) ==
    \/ /\ f.kind = "COMMAND"
       /\ f.command_id <= CommandIdMax
       /\ f.opcode \in OrdinaryOpcodes
       /\ absent_response_fields_are_zero(f)
    \/ f.kind = "ACK" /\ f.sequence_no = NoSequence /\ ordinary_ack_is_valid(f)
    \/ f.kind = "TELEMETRY" /\ telemetry_is_valid(f)
    \/ f.kind = "STOP" /\ absent_response_fields_are_zero(f)
    \/ f.kind = "STOP_ACK" /\ f.sequence_no = NoSequence /\ stop_ack_is_valid(f)

frame_is_valid(f) ==
    \/ /\ f.kind = "COMMAND"
       /\ f.command_id <= CommandIdMax
       /\ f.opcode \in OrdinaryOpcodes
       /\ absent_response_fields_are_zero(f)
    \/ /\ f.kind = "ACK"
       /\ f.command_id <= CommandIdMax
       /\ f.opcode \in OrdinaryOpcodes
       /\ f.sequence_no = NoSequence
       /\ ordinary_ack_is_valid(f)
    \/ /\ f.kind = "TELEMETRY"
       /\ telemetry_is_valid(f)
    \/ /\ f.kind = "STOP"
       /\ f.command_id >= StopIdMin
       /\ f.opcode = "STOP"
       /\ absent_response_fields_are_zero(f)
    \/ /\ f.kind = "STOP_ACK"
       /\ f.command_id >= StopIdMin
       /\ f.opcode = "STOP"
       /\ f.sequence_no = NoSequence
       /\ stop_ack_is_valid(f)

-----------------------------------------------------------------------------
(* The byte level.  A payload is a sequence of eight bytes, data[i] of the *)
(* C array being payload[i + 1].                                           *)

Code(codes, v)  == (CHOOSE i \in DOMAIN codes : codes[i] = v) - 1
Value(codes, b) == IF b + 1 \in DOMAIN codes THEN codes[b + 1] ELSE OutOfRange

\* Mutant: the low byte first.
mut_write_u16_be(v) == <<v % 256, (v \div 256) % 256>>

write_u16_be(v) == <<(v \div 256) % 256, v % 256>>
write_u32_be(v) == write_u16_be(v[1]) \o write_u16_be(v[2])
read_u16_be(b)  == 256 * b[1] + b[2]
read_u32_be(b)  == <<read_u16_be(SubSeq(b, 1, 2)), read_u16_be(SubSeq(b, 3, 4))>>

frame_kind_to_id(kind) == CanIds[kind]

RequestPayload(f) ==
    <<WireVersion>> \o write_u16_be(f.command_id)
        \o <<Code(OpcodeCodes, f.opcode), f.retry_count, 0, 0, 0>>

ResponsePayload(f) ==
    <<WireVersion>> \o write_u16_be(f.command_id)
        \o <<Code(OpcodeCodes, f.opcode), f.retry_count,
             Code(ResultCodes, f.result_code), Code(FaultCodes, f.fault_code),
             Code(ModeCodes, f.device_mode)>>

TelemetryPayload(f) ==
    <<WireVersion>> \o write_u32_be(f.sequence_no)
        \o <<Code(FaultCodes, f.fault_code), Code(ModeCodes, f.device_mode), 0>>

\* mcu_frame_encode: an invalid frame is refused and nothing is written.
mcu_frame_encode(f) ==
    IF ~frame_is_valid(f) THEN [status |-> "INVALID_FIELD"]
    ELSE [status |-> "OK",
          id |-> frame_kind_to_id(f.kind),
          data |-> CASE f.kind \in {"COMMAND", "STOP"}  -> RequestPayload(f)
                     [] f.kind \in {"ACK", "STOP_ACK"}  -> ResponsePayload(f)
                     [] f.kind = "TELEMETRY"            -> TelemetryPayload(f)]

\* What the decoder reads from the payload once the reserved bytes are zero.
DecodedFields(kind, data) ==
    LET command == [clear_frame EXCEPT
                      !.kind = kind,
                      !.command_id = read_u16_be(SubSeq(data, 2, 3)),
                      !.opcode = Value(OpcodeCodes, data[4]),
                      !.retry_count = data[5]]
    IN  CASE kind \in {"COMMAND", "STOP"} -> command
          [] kind \in {"ACK", "STOP_ACK"} ->
                [command EXCEPT !.result_code = Value(ResultCodes, data[6]),
                                !.fault_code = Value(FaultCodes, data[7]),
                                !.device_mode = Value(ModeCodes, data[8])]
          [] kind = "TELEMETRY" ->
                [clear_frame EXCEPT !.kind = kind,
                   !.sequence_no = read_u32_be(SubSeq(data, 2, 5)),
                   !.fault_code = Value(FaultCodes, data[6]),
                   !.device_mode = Value(ModeCodes, data[7])]

\* Mutant: reserved bytes are ignored.
mut_ReservedBytes(kind) == {}

\* The payload bytes Wire V1 reserves, per kind of frame.
ReservedBytes(kind) ==
    CASE kind \in {"COMMAND", "STOP"} -> {6, 7, 8}
      [] kind \in {"ACK", "STOP_ACK"} -> {}
      [] kind = "TELEMETRY"           -> {8}

\* id_to_frame_kind: the kinds (one at most) an arbitration id stands for.
id_to_frame_kind(id) == {k \in DOMAIN CanIds : CanIds[k] = id}

\* mcu_frame_decode: every byte and cross-field rule passes, or nothing is
\* published.
mcu_frame_decode(id, data) ==
    IF Len(data) # Dlc THEN [status |-> "INVALID_LENGTH"]
    ELSE IF id_to_frame_kind(id) = {} THEN [status |-> "UNSUPPORTED_ID"]
    ELSE IF data[1] # WireVersion THEN [status |-> "INVALID_VERSION"]
    ELSE LET kind == CHOOSE k \in id_to_frame_kind(id) : TRUE
             f    == DecodedFields(kind, data)
         IN  IF \E i \in ReservedBytes(kind) : data[i] # 0
             THEN [status |-> "NONZERO_RESERVED"]
             ELSE IF ~frame_is_valid(f) THEN [status |-> "INVALID_FIELD"]
             ELSE [status |-> "OK", frame |-> f]
=============================================================================
