------------------------------ MODULE Watchdog ------------------------------
(***************************************************************************)
(* firmware/mcu/core/watchdog.c: the software link watchdog and the slot   *)
(* that holds an accepted STOP until its STOP_ACK is handed to the         *)
(* transport.  A watchdog is a record; each C function is an operator from *)
(* the watchdog (and the machine and the clock reading) to their values    *)
(* after the call.  Clock readings are TimeModulus wide, as uint64_t ones  *)
(* are 2^64 wide, and deadlines are compared by half range.                *)
(*                                                                         *)
(* Left out: next_telemetry_sequence and the timestamps copied into        *)
(* diagnostic records, which no decision of the code reads.                *)
(***************************************************************************)
EXTENDS FrameCodec, SafetyStateMachine

CONSTANTS
    TimeModulus,      \* width of the clock
    LinkTimeout,      \* MCU_SOFTWARE_WATCHDOG_TIMEOUT_US
    StopAckDeadline   \* MCU_STOP_ACK_DEADLINE_US

ASSUME TimeAssumption ==
    /\ TimeModulus \in Nat \ {0}
    /\ LinkTimeout \in Nat
    /\ StopAckDeadline \in Nat

Times == 0..(TimeModulus - 1)

TimeHalfRange == TimeModulus \div 2

deadline_reached(now, deadline) ==
    (now - deadline) % TimeModulus < TimeHalfRange

deadline_after(now, deadline) ==
    now # deadline /\ deadline_reached(now, deadline)

TimeAfter(now, delay) == (now + delay) % TimeModulus

-----------------------------------------------------------------------------
mcu_watchdog_init ==
    [link_watchdog_armed         |-> FALSE,
     watchdog_cause_active       |-> FALSE,
     watchdog_record_emitted     |-> FALSE,
     link_deadline_us            |-> 0,
     stop_ack_pending            |-> FALSE,
     stop_timeout_cause_active   |-> FALSE,
     stop_deadline_us            |-> 0,
     stop_command_id             |-> 0,
     stop_retry_count            |-> 0,
     stop_ack_frame              |-> clear_frame]

mcu_watchdog_is_valid(w) ==
    w.stop_ack_pending => w.stop_command_id >= StopIdMin

\* Mutant: any decodable frame refreshes the deadline.
mut_note_any_activity(w, m, activity, now) ==
    IF m.state # "EXECUTING"
    THEN [w EXCEPT !.link_watchdog_armed = FALSE]
    ELSE IF w.watchdog_cause_active
    THEN w
    ELSE [w EXCEPT !.link_watchdog_armed = TRUE,
                   !.link_deadline_us = TimeAfter(now, LinkTimeout)]

\* Mutant: the deadline is set but the watchdog is not armed.
mut_note_without_arming(w, m, activity, now) ==
    IF m.state # "EXECUTING"
    THEN [w EXCEPT !.link_watchdog_armed = FALSE]
    ELSE IF w.watchdog_cause_active \/ activity # "VALID_NEW"
    THEN w
    ELSE [w EXCEPT !.link_deadline_us = TimeAfter(now, LinkTimeout)]

\* Only serially new traffic pushes the link deadline out, and only while the
\* machine executes.
mcu_watchdog_note_activity(w, m, activity, now) ==
    IF m.state # "EXECUTING"
    THEN [w EXCEPT !.link_watchdog_armed = FALSE]
    ELSE IF w.watchdog_cause_active \/ activity # "VALID_NEW"
    THEN w
    ELSE [w EXCEPT !.link_watchdog_armed = TRUE,
                   !.link_deadline_us = TimeAfter(now, LinkTimeout)]

-----------------------------------------------------------------------------
(* mcu_watchdog_poll, in the three cases that change state.                *)

StopTimedOut(w, now) ==
    w.stop_ack_pending /\ deadline_after(now, w.stop_deadline_us)

LinkExpired(w, m, now) ==
    /\ m.state = "EXECUTING"
    /\ w.link_watchdog_armed
    /\ deadline_reached(now, w.link_deadline_us)
    /\ ~w.watchdog_cause_active

\* Mutant: the early return for a machine that does not execute comes first.
mut_PolledWatchdog(w, m, now) ==
    IF m.state # "EXECUTING"
    THEN [w EXCEPT !.link_watchdog_armed = FALSE]
    ELSE IF StopTimedOut(w, now)
    THEN [w EXCEPT !.stop_ack_pending = FALSE,
                   !.stop_ack_frame = clear_frame,
                   !.stop_timeout_cause_active = TRUE]
    ELSE IF LinkExpired(w, m, now)
    THEN [w EXCEPT !.link_watchdog_armed = FALSE,
                   !.watchdog_cause_active = TRUE,
                   !.watchdog_record_emitted = TRUE]
    ELSE w

PolledWatchdog(w, m, now) ==
    IF StopTimedOut(w, now)
    THEN [w EXCEPT !.stop_ack_pending = FALSE,
                   !.stop_ack_frame = clear_frame,
                   !.stop_timeout_cause_active = TRUE]
    ELSE IF LinkExpired(w, m, now)
    THEN [w EXCEPT !.link_watchdog_armed = FALSE,
                   !.watchdog_cause_active = TRUE,
                   !.watchdog_record_emitted = TRUE]
    ELSE IF m.state # "EXECUTING"
    THEN [w EXCEPT !.link_watchdog_armed = FALSE]
    ELSE w

PolledMachine(w, m, now) ==
    IF ~StopTimedOut(w, now) /\ LinkExpired(w, m, now)
    THEN mcu_sm_dispatch(m, Event("WATCHDOG_EXPIRED")).machine
    ELSE m

\* The record the poll publishes: at most one, and the telemetry only once
\* until a reset clears watchdog_record_emitted.
PolledRecord(w, m, now) ==
    IF StopTimedOut(w, now) THEN "STOP_TIMEOUT"
    ELSE IF LinkExpired(w, m, now) /\ ~w.watchdog_record_emitted
    THEN "FAULT_TELEMETRY"
    ELSE "NONE"

-----------------------------------------------------------------------------
(* The STOP path.                                                          *)

stop_matches_pending(w, stop) ==
    /\ w.stop_ack_pending
    /\ w.stop_command_id = stop.command_id
    /\ stop.retry_count >= w.stop_retry_count

\* mcu_watchdog_receive_stop returns false and touches nothing.
StopRefused(w, stop, now) ==
    \/ w.stop_timeout_cause_active
    \/ /\ w.stop_ack_pending
       /\ \/ ~stop_matches_pending(w, stop)
          \/ deadline_after(now, w.stop_deadline_us)

make_stop_ack(stop, transition) ==
    [clear_frame EXCEPT
        !.kind = "STOP_ACK",
        !.command_id = stop.command_id,
        !.opcode = "STOP",
        !.retry_count = stop.retry_count,
        !.result_code = transition.result_code,
        !.fault_code = transition.response_fault_code,
        !.device_mode = IF transition.machine.device_mode = "FAULTED"
                        THEN "FAULTED" ELSE "STOPPED"]

\* A STOP that repeats the pending one: the cached answer is replayed with the
\* attempt's own retry_count, and the deadline stays where it was.
replay_pending_stop_ack(w, stop) ==
    [w EXCEPT !.stop_ack_frame.retry_count = stop.retry_count,
              !.stop_retry_count = stop.retry_count]

\* A STOP outside any pending slot, after mcu_sm_dispatch produced transition.
StopDispatched(w, stop, transition, now) ==
    LET pending == transition.result_code = "ACCEPTED"
    IN  [w EXCEPT
            !.link_watchdog_armed = FALSE,
            !.stop_ack_pending = pending,
            !.stop_deadline_us = TimeAfter(now, StopAckDeadline),
            !.stop_command_id = stop.command_id,
            !.stop_retry_count = stop.retry_count,
            !.stop_ack_frame = IF pending THEN make_stop_ack(stop, transition)
                                          ELSE clear_frame]

mcu_watchdog_confirm_stop_ack(w, command_id, retry_count, now) ==
    IF /\ w.stop_ack_pending
       /\ w.stop_command_id = command_id
       /\ w.stop_retry_count = retry_count
       /\ ~deadline_after(now, w.stop_deadline_us)
    THEN [w EXCEPT !.stop_ack_pending = FALSE, !.stop_ack_frame = clear_frame]
    ELSE w

-----------------------------------------------------------------------------
(* Reset and the hardware watchdog.                                        *)

mcu_watchdog_mark_causes_cleared(w) ==
    [w EXCEPT !.watchdog_cause_active = FALSE,
              !.stop_timeout_cause_active = FALSE]

live_cause(w) ==
    w.watchdog_cause_active \/ w.stop_timeout_cause_active \/ w.stop_ack_pending

ResetEvent(w, authorized, cleared) ==
    [Event("TRUSTED_RESET") EXCEPT
        !.reset_authorized = authorized,
        !.cause_cleared = cleared /\ ~live_cause(w)]

AfterReset(w) ==
    [w EXCEPT !.link_watchdog_armed = FALSE,
              !.watchdog_cause_active = FALSE,
              !.watchdog_record_emitted = FALSE,
              !.stop_ack_pending = FALSE,
              !.stop_ack_frame = clear_frame,
              !.stop_timeout_cause_active = FALSE]

\* Mutant: the feed looks at the machine only.
mut_should_feed(w, m) == mcu_sm_is_valid(m) /\ m.state # "FAULT"

mcu_watchdog_should_feed_hardware(w, m) ==
    /\ mcu_watchdog_is_valid(w)
    /\ mcu_sm_is_valid(m)
    /\ m.state # "FAULT"
    /\ ~w.watchdog_cause_active
    /\ ~w.stop_timeout_cause_active
=============================================================================
