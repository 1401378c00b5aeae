----------------------------- MODULE MCWireLink -----------------------------
EXTENDS WireLink

\* Ids and counts at the edges of their ranges.
MCIds     == {0, 1, 255, 32767, 32768, 65535}
MCRetries == {0, 255}

MCFrames ==
    [kind : {"COMMAND", "STOP"}, command_id : MCIds,
     sequence_no : {NoSequence}, opcode : {"RESERVED", "MOVE", "STOP"},
     retry_count : MCRetries, result_code : {"ACCEPTED"},
     fault_code : {"NONE"}, device_mode : {"IDLE"}]
    \cup
    [kind : {"ACK", "STOP_ACK"}, command_id : {1, 32767, 32768},
     sequence_no : {NoSequence}, opcode : {"HEARTBEAT", "STOP"},
     retry_count : {3}, result_code : {"ACCEPTED", "REJECTED"},
     fault_code : {"NONE", "STOP_REJECTED", "DUPLICATE_FRAME", "ACK_TIMEOUT"},
     device_mode : {"IDLE", "STOPPED", "FAULTED"}]
    \cup
    [kind : {"TELEMETRY"}, command_id : {0, 1},
     sequence_no : {NoSequence, <<1, 256>>, <<65535, 65535>>},
     opcode : {"RESERVED"}, retry_count : {0}, result_code : {"ACCEPTED"},
     fault_code : {"NONE", "WATCHDOG_EXPIRED", "STOP_TIMEOUT"},
     device_mode : {"MOVING", "FAULTED"}]

MCBytes == {0, 1, 3, 5, 7, 16, 127, 128, 255}
=============================================================================
