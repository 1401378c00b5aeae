---------------------------- MODULE CommandDedup ----------------------------
(***************************************************************************)
(* firmware/mcu/core/command_dedup.c: the replay window for ordinary       *)
(* commands, as operators on a dedup record.  Command ids are serial       *)
(* numbers of CommandIdModulus values compared by half range; the window   *)
(* retains the answers of the last WindowSize dispatched commands.         *)
(***************************************************************************)
EXTENDS Watchdog

CONSTANT WindowSize   \* MCU_COMMAND_REPLAY_WINDOW_SIZE

ASSUME WindowAssumption == WindowSize \in Nat \ {0}

Slots == 0..(WindowSize - 1)

SerialHalfRange == CommandIdModulus \div 2

clear_entry ==
    [valid |-> FALSE, command_id |-> 0, opcode |-> "RESERVED",
     last_retry_count |-> 0, result_code |-> "ACCEPTED",
     fault_code |-> "NONE", device_mode |-> "IDLE"]

\* clear_history, followed by the assignment of session_open.
ClearedDedup(open) ==
    [session_open      |-> open,
     has_last_accepted |-> FALSE,
     last_accepted_id  |-> 0,
     next_slot         |-> 0,
     entries           |-> [i \in Slots |-> clear_entry]]

mcu_command_dedup_init == ClearedDedup(FALSE)

cached_response_is_valid(e) ==
    /\ e.valid
    /\ e.command_id <= CommandIdMax
    /\ e.opcode \in OrdinaryOpcodes
    /\ ordinary_ack_is_valid(e)

NoEntries(d) == \A i \in Slots : ~d.entries[i].valid

mcu_command_dedup_is_valid(d) ==
    /\ d.next_slot < WindowSize
    /\ d.has_last_accepted => d.last_accepted_id <= CommandIdMax
    /\ \A i \in Slots : d.entries[i].valid => cached_response_is_valid(d.entries[i])
    /\ \A i, j \in Slots :
          /\ d.entries[i].valid
          /\ d.entries[j].valid
          /\ d.entries[i].command_id = d.entries[j].command_id
          => i = j
    /\ IF d.session_open /\ d.has_last_accepted
       THEN \E i \in Slots : /\ d.entries[i].valid
                             /\ d.entries[i].command_id = d.last_accepted_id
       ELSE /\ ~d.has_last_accepted
            /\ NoEntries(d)
            /\ d.next_slot = 0

-----------------------------------------------------------------------------
\* Mutant: plain subtraction.
mut_serial_delta(candidate, last) == candidate - last

serial_delta(candidate, last) == (candidate - last) % CommandIdModulus

\* Mutant: ids are compared as plain numbers.
mut_SeriallyNew(d, id) == id > d.last_accepted_id

\* 0 < delta < half range: ahead of the last dispatched command.
SeriallyNew(d, id) ==
    LET delta == serial_delta(id, d.last_accepted_id)
    IN  delta # 0 /\ delta < SerialHalfRange

\* Mutant: a retained entry answers for a serially new id as well.
mut_Retained(d, id) ==
    {i \in Slots : d.entries[i].valid /\ d.entries[i].command_id = id}

\* find_entry, and the rule that a serially new id wins over a retained entry
\* with the same number: the slots (one at most) that answer for id.
Retained(d, id) ==
    {i \in Slots : /\ d.entries[i].valid
                   /\ d.entries[i].command_id = id
                   /\ ~(d.has_last_accepted /\ SeriallyNew(d, id))}

IsStale(d, id) ==
    /\ Retained(d, id) = {}
    /\ d.has_last_accepted
    /\ ~SeriallyNew(d, id)

IsNew(d, id) ==
    /\ Retained(d, id) = {}
    /\ d.has_last_accepted => SeriallyNew(d, id)

make_ack(c, result, fault, mode) ==
    [clear_frame EXCEPT
        !.kind = "ACK",
        !.command_id = c.command_id,
        !.opcode = c.opcode,
        !.retry_count = c.retry_count,
        !.result_code = result,
        !.fault_code = fault,
        !.device_mode = mode]

\* Mutant: a replay reports an idle device.
mut_make_cached_ack(c, e) == make_ack(c, e.result_code, e.fault_code, "IDLE")

make_cached_ack(c, e) ==
    make_ack(c, e.result_code, e.fault_code, e.device_mode)

CorrelationAck(c) == make_ack(c, "REJECTED", "DUPLICATE_FRAME", "FAULTED")

raise_duplicate_fault(m) ==
    mcu_sm_dispatch(m, [Event("RAISE_FAULT") EXCEPT
                          !.fault_code = "DUPLICATE_FRAME"]).machine

opcode_to_event(opcode) ==
    CASE opcode = "HOLD"      -> "BEGIN_HOLD"
      [] opcode = "HEARTBEAT" -> "HEARTBEAT"
      [] OTHER                -> "BEGIN_MOVE"

dispatch_new_command(m, c) == mcu_sm_dispatch(m, Event(opcode_to_event(c.opcode)))

\* Mutant: the machine's own fault code is reported.
mut_NewCommandAck(c, transition) ==
    IF transition.result_code = "ACCEPTED"
    THEN make_ack(c, "ACCEPTED", "NONE", transition.machine.device_mode)
    ELSE make_ack(c, "REJECTED", transition.response_fault_code, "FAULTED")

\* The answer to a dispatched command.  Whatever cause the machine reports, a
\* rejection is answered as a malformed frame from a faulted device.
NewCommandAck(c, transition) ==
    IF transition.result_code = "ACCEPTED"
    THEN make_ack(c, "ACCEPTED", "NONE", transition.machine.device_mode)
    ELSE make_ack(c, "REJECTED", "MALFORMED_FRAME", "FAULTED")

\* Mutant: the entries from before the wrap stay.
mut_AfterWrap(d, id) == d

\* A serially new id below the last one starts an epoch: nothing retained
\* before the wrap may answer for it.
AfterWrap(d, id) ==
    IF d.has_last_accepted /\ id < d.last_accepted_id
    THEN ClearedDedup(d.session_open)
    ELSE d

\* Mutant: the slot index is not reduced.
mut_cache_new_result(d, c, ack) ==
    [d EXCEPT
        !.entries[d.next_slot] =
            [valid |-> TRUE, command_id |-> c.command_id, opcode |-> c.opcode,
             last_retry_count |-> c.retry_count,
             result_code |-> ack.result_code, fault_code |-> ack.fault_code,
             device_mode |-> ack.device_mode],
        !.next_slot = d.next_slot + 1,
        !.has_last_accepted = TRUE,
        !.last_accepted_id = c.command_id]

cache_new_result(d, c, ack) ==
    [d EXCEPT
        !.entries[d.next_slot] =
            [valid |-> TRUE, command_id |-> c.command_id, opcode |-> c.opcode,
             last_retry_count |-> c.retry_count,
             result_code |-> ack.result_code, fault_code |-> ack.fault_code,
             device_mode |-> ack.device_mode],
        !.next_slot = (d.next_slot + 1) % WindowSize,
        !.has_last_accepted = TRUE,
        !.last_accepted_id = c.command_id]
=============================================================================
