------------------------------- MODULE McuNode -------------------------------
(***************************************************************************)
(* The firmware safety core as one node: state machine, watchdog, replay   *)
(* window, CAN bridge (firmware/mcu/core/can_bridge.c) and the timer       *)
(* interrupt of hal/qemu/main_qemu.c.                                      *)
(*                                                                         *)
(* The bus is the most general one: at every moment any decodable frame    *)
(* may be the next one the HAL returns, so loss, delay, duplication and    *)
(* reordering need no state of their own.  Calls are serialized by the     *)
(* owning target (can_bridge.h), so each is one step.  The trusted owner   *)
(* of the node (completion of a motion, session gate, clearing of causes,  *)
(* reset) lies outside core/ and may act at any time.                      *)
(***************************************************************************)
EXTENDS CommandDedup

CONSTANTS
    Opcodes,           \* opcodes of the ordinary commands on the bus
    StopIds,           \* command ids of the STOP frames on the bus
    MaxRetry,          \* largest retry_count on the bus
    HeartbeatPeriod,   \* MCU_HEARTBEAT_PERIOD_US, the timer period
    MaxLatency         \* bound: how late a due timer interrupt may be taken

ASSUME BusAssumption ==
    /\ Opcodes \subseteq OrdinaryOpcodes
    /\ StopIds \subseteq {i \in Nat : i >= StopIdMin}
    /\ MaxRetry \in Nat
    /\ HeartbeatPeriod \in Nat \ {0}
    /\ MaxLatency \in Nat

VARIABLES
    machine,     \* mcu_state_machine_t
    watchdog,    \* mcu_watchdog_t
    dedup,       \* mcu_command_dedup_t
    now,         \* hal_now_us()
    timer_at,    \* when the one-shot machine timer fires
    hw_fed,      \* the last timer interrupt fed the hardware watchdog
    response,    \* the frame or record the last step produced
    quiet        \* history: ticks executed since the last serially new command

vars == <<machine, watchdog, dedup, now, timer_at, hw_fed, response, quiet>>

CommandIds == 0..CommandIdMax
Retries    == 0..MaxRetry

\* The frames the codec lets through to the two request paths.
Commands ==
    [kind : {"COMMAND"}, command_id : CommandIds, sequence_no : {NoSequence},
     opcode : Opcodes, retry_count : Retries, result_code : {"ACCEPTED"},
     fault_code : {"NONE"}, device_mode : {"IDLE"}]

StopFrames ==
    [kind : {"STOP"}, command_id : StopIds, sequence_no : {NoSequence},
     opcode : {"STOP"}, retry_count : Retries, result_code : {"ACCEPTED"},
     fault_code : {"NONE"}, device_mode : {"IDLE"}]

Results == {"ACCEPTED", "REJECTED"}

WireFrames ==
    [kind : {"ACK", "STOP_ACK", "COMMAND", "NONE", "STOP_TIMEOUT",
             "FAULT_TELEMETRY"},
     command_id : CommandIds \cup StopIds, sequence_no : {NoSequence},
     opcode : {"RESERVED", "STOP"} \cup Opcodes, retry_count : Retries,
     result_code : Results, fault_code : Faults, device_mode : Modes]

\* Nothing was produced / the poll published a local record.
Record(kind) == [clear_frame EXCEPT !.kind = kind]
NoResponse   == Record("NONE")

QuietLimit == LinkTimeout + HeartbeatPeriod + MaxLatency

\* Every module as its init function leaves it, the timer armed one period
\* ahead.
Init ==
    /\ machine = mcu_sm_init
    /\ watchdog = mcu_watchdog_init
    /\ dedup = mcu_command_dedup_init
    /\ now = 0
    /\ timer_at = TimeAfter(0, HeartbeatPeriod)
    /\ hw_fed = TRUE
    /\ response = NoResponse
    /\ quiet = 0

-----------------------------------------------------------------------------
(* The CAN bridge: mcu_can_bridge_poll around one received frame.          *)

safety_dependencies_are_valid ==
    mcu_sm_is_valid(machine) /\ mcu_watchdog_is_valid(watchdog)

\* mcu_can_bridge_send: encoding may refuse the frame, the HAL may be full.
HandedOff(frame, hal_accepts) == frame_is_valid(frame) /\ hal_accepts

\* mcu_can_bridge_poll after the frame was processed: the response goes out,
\* and an accepted STOP_ACK that went out confirms the pending slot.
Respond(w, frame, hal_accepts) ==
    /\ response' = frame
    /\ watchdog' =
          IF /\ HandedOff(frame, hal_accepts)
             /\ frame.kind = "STOP_ACK"
             /\ frame.result_code = "ACCEPTED"
          THEN mcu_watchdog_confirm_stop_ack(w, frame.command_id,
                                             frame.retry_count, now)
          ELSE w

\* The history variable restarts with every refresh of the link deadline.
QuietAfter(refreshed) ==
    quiet' = IF machine'.state # "EXECUTING" \/ refreshed THEN 0 ELSE quiet

BusUnchanged == UNCHANGED <<now, timer_at, hw_fed>>

\* A frame the codec or the direction check refuses: no state is touched.
RejectFrame ==
    /\ safety_dependencies_are_valid
    /\ response' = NoResponse
    /\ UNCHANGED <<machine, watchdog, dedup, quiet>>
    /\ BusUnchanged

RefuseStop(stop) ==
    /\ safety_dependencies_are_valid
    /\ StopRefused(watchdog, stop, now)
    /\ response' = NoResponse
    /\ UNCHANGED <<machine, watchdog, dedup, quiet>>
    /\ BusUnchanged

ReplayStop(stop, hal_accepts) ==
    /\ safety_dependencies_are_valid
    /\ ~StopRefused(watchdog, stop, now)
    /\ watchdog.stop_ack_pending
    /\ LET w == replay_pending_stop_ack(watchdog, stop)
       IN  Respond(w, w.stop_ack_frame, hal_accepts)
    /\ UNCHANGED <<machine, dedup, quiet>>
    /\ BusUnchanged

DispatchStop(stop, hal_accepts) ==
    /\ safety_dependencies_are_valid
    /\ ~StopRefused(watchdog, stop, now)
    /\ ~watchdog.stop_ack_pending
    /\ LET t == mcu_sm_dispatch(machine, Event("STOP"))
       IN  /\ machine' = t.machine
           /\ Respond(StopDispatched(watchdog, stop, t, now),
                      make_stop_ack(stop, t), hal_accepts)
    /\ QuietAfter(FALSE)
    /\ UNCHANGED dedup
    /\ BusUnchanged

-----------------------------------------------------------------------------
(* mcu_command_dedup_receive, by outcome.                                  *)

OrdinaryPath ==
    /\ safety_dependencies_are_valid
    /\ mcu_command_dedup_is_valid(dedup)

SessionClosed ==
    /\ OrdinaryPath
    /\ ~dedup.session_open
    /\ response' = NoResponse
    /\ UNCHANGED <<machine, watchdog, dedup, quiet>>
    /\ BusUnchanged

reject_correlation(c, activity) ==
    /\ machine' = raise_duplicate_fault(machine)
    /\ watchdog' = mcu_watchdog_note_activity(watchdog, machine', activity, now)
    /\ response' = CorrelationAck(c)
    /\ QuietAfter(FALSE)
    /\ UNCHANGED dedup
    /\ BusUnchanged

RejectConflict(c) ==
    /\ OrdinaryPath
    /\ dedup.session_open
    /\ \E i \in Retained(dedup, c.command_id) : dedup.entries[i].opcode # c.opcode
    /\ reject_correlation(c, "DUPLICATE")

RejectRetry(c) ==
    /\ OrdinaryPath
    /\ dedup.session_open
    /\ \E i \in Retained(dedup, c.command_id) :
          /\ dedup.entries[i].opcode = c.opcode
          /\ c.retry_count < dedup.entries[i].last_retry_count
    /\ reject_correlation(c, "STALE")

RejectStale(c) ==
    /\ OrdinaryPath
    /\ dedup.session_open
    /\ IsStale(dedup, c.command_id)
    /\ reject_correlation(c, "STALE")

ReplayCommand(c) ==
    /\ OrdinaryPath
    /\ dedup.session_open
    /\ \E i \in Retained(dedup, c.command_id) :
          LET e == dedup.entries[i]
          IN  /\ e.opcode = c.opcode
              /\ c.retry_count >= e.last_retry_count
              /\ response' = make_cached_ack(c, e)
              /\ watchdog' = mcu_watchdog_note_activity(watchdog, machine,
                    IF c.retry_count = e.last_retry_count
                    THEN "DUPLICATE" ELSE "RETRY", now)
              /\ dedup' = [dedup EXCEPT
                             !.entries[i].last_retry_count = c.retry_count]
    /\ UNCHANGED <<machine, quiet>>
    /\ BusUnchanged

DispatchCommand(c) ==
    /\ OrdinaryPath
    /\ dedup.session_open
    /\ IsNew(dedup, c.command_id)
    /\ LET t   == dispatch_new_command(machine, c)
           ack == NewCommandAck(c, t)
       IN  /\ machine' = t.machine
           /\ dedup' = cache_new_result(AfterWrap(dedup, c.command_id), c, ack)
           /\ watchdog' = mcu_watchdog_note_activity(watchdog, t.machine,
                                                     "VALID_NEW", now)
           /\ response' = ack
    /\ QuietAfter(TRUE)
    /\ BusUnchanged

-----------------------------------------------------------------------------
(* The timer interrupt, the clock, and the trusted owner.                  *)

Overdue == (now - timer_at) % TimeModulus

\* mcu_qemu_timer_interrupt: poll, feed the hardware watchdog, re-arm from the
\* time of the interrupt.
TimerInterrupt ==
    /\ Overdue <= MaxLatency
    /\ safety_dependencies_are_valid
    /\ machine' = PolledMachine(watchdog, machine, now)
    /\ watchdog' = PolledWatchdog(watchdog, machine, now)
    /\ response' = Record(PolledRecord(watchdog, machine, now))
    /\ hw_fed' = mcu_watchdog_should_feed_hardware(watchdog', machine')
    /\ timer_at' = TimeAfter(now, HeartbeatPeriod)
    /\ QuietAfter(FALSE)
    /\ UNCHANGED <<dedup, now>>

\* Time passes; a due interrupt may be taken late, by MaxLatency at most.
Tick ==
    /\ Overdue # MaxLatency
    /\ now' = TimeAfter(now, 1)
    /\ quiet' = IF machine.state = "EXECUTING" /\ quiet < QuietLimit
                THEN quiet + 1 ELSE quiet
    /\ response' = NoResponse
    /\ UNCHANGED <<machine, watchdog, dedup, timer_at, hw_fed>>

\* The motion the node executes has ended.
CompleteMotion ==
    /\ machine' = mcu_sm_dispatch(machine, Event("COMPLETE")).machine
    /\ response' = NoResponse
    /\ QuietAfter(FALSE)
    /\ UNCHANGED <<watchdog, dedup>>
    /\ BusUnchanged

OpenSession ==
    /\ mcu_command_dedup_is_valid(dedup)
    /\ ~dedup.session_open
    /\ dedup' = ClearedDedup(TRUE)
    /\ response' = NoResponse
    /\ UNCHANGED <<machine, watchdog, quiet>>
    /\ BusUnchanged

CloseSession ==
    /\ mcu_command_dedup_is_valid(dedup)
    /\ dedup' = ClearedDedup(FALSE)
    /\ response' = NoResponse
    /\ UNCHANGED <<machine, watchdog, quiet>>
    /\ BusUnchanged

MarkCausesCleared ==
    /\ mcu_watchdog_is_valid(watchdog)
    /\ watchdog' = mcu_watchdog_mark_causes_cleared(watchdog)
    /\ response' = NoResponse
    /\ UNCHANGED <<machine, dedup, quiet>>
    /\ BusUnchanged

RequestReset(authorized, cleared) ==
    /\ mcu_watchdog_is_valid(watchdog)
    /\ LET t == mcu_sm_dispatch(machine,
                                ResetEvent(watchdog, authorized, cleared))
       IN  /\ machine' = t.machine
           /\ watchdog' = IF t.result_code = "ACCEPTED"
                          THEN AfterReset(watchdog) ELSE watchdog
    /\ response' = NoResponse
    /\ QuietAfter(FALSE)
    /\ UNCHANGED dedup
    /\ BusUnchanged

\* Power cycle or hardware watchdog: every module is initialized again.
Reboot ==
    /\ machine' = mcu_sm_init
    /\ watchdog' = mcu_watchdog_init
    /\ dedup' = mcu_command_dedup_init
    /\ now' = 0
    /\ timer_at' = TimeAfter(0, HeartbeatPeriod)
    /\ hw_fed' = TRUE
    /\ response' = NoResponse
    /\ quiet' = 0

ReceiveStop ==
    \E s \in StopFrames, hal_accepts \in BOOLEAN :
        \/ RefuseStop(s)
        \/ ReplayStop(s, hal_accepts)
        \/ DispatchStop(s, hal_accepts)

ReceiveCommand ==
    \/ SessionClosed
    \/ \E c \in Commands :
        \/ RejectConflict(c)
        \/ RejectRetry(c)
        \/ RejectStale(c)
        \/ ReplayCommand(c)
        \/ DispatchCommand(c)

Owner ==
    \/ CompleteMotion
    \/ OpenSession
    \/ CloseSession
    \/ MarkCausesCleared
    \/ \E authorized, cleared \in BOOLEAN : RequestReset(authorized, cleared)

Next ==
    \/ RejectFrame
    \/ ReceiveStop
    \/ ReceiveCommand
    \/ TimerInterrupt
    \/ Tick
    \/ Owner
    \/ Reboot

\* The timer interrupt cannot be postponed for ever, and time goes on.
Fairness == WF_vars(TimerInterrupt) /\ WF_vars(Tick)

Spec == Init /\ [][Next]_vars /\ Fairness

-----------------------------------------------------------------------------
(* Properties.                                                             *)

Watchdogs ==
    [link_watchdog_armed : BOOLEAN, watchdog_cause_active : BOOLEAN,
     watchdog_record_emitted : BOOLEAN, link_deadline_us : Times,
     stop_ack_pending : BOOLEAN, stop_timeout_cause_active : BOOLEAN,
     stop_deadline_us : Times, stop_command_id : {0} \cup StopIds,
     stop_retry_count : Retries, stop_ack_frame : WireFrames]

Entries ==
    [valid : BOOLEAN, command_id : CommandIds,
     opcode : {"RESERVED"} \cup Opcodes, last_retry_count : Retries,
     result_code : Results, fault_code : Faults, device_mode : Modes]

Dedups ==
    [session_open : BOOLEAN, has_last_accepted : BOOLEAN,
     last_accepted_id : CommandIds, next_slot : Slots,
     entries : [Slots -> Entries]]

\* Every variable stays in the range its C type and the bus give it.
TypeOK ==
    /\ machine \in Machines
    /\ watchdog \in Watchdogs
    /\ dedup \in Dedups
    /\ now \in Times
    /\ timer_at \in Times
    /\ hw_fed \in BOOLEAN
    /\ response \in WireFrames
    /\ quiet \in 0..QuietLimit

\* The is_valid checks that every entry point runs first never fail: no
\* sequence of frames, polls, owner calls and reboots builds a machine, a
\* watchdog or a replay window that the code itself calls corrupt (a corrupt
\* window would refuse every later command).
DependenciesValid ==
    /\ mcu_sm_is_valid(machine)
    /\ mcu_watchdog_is_valid(watchdog)
    /\ mcu_command_dedup_is_valid(dedup)

\* A node that executes has an armed link deadline and no latched timing
\* cause: motion is never unsupervised.
ExecutionIsWatched ==
    machine.state = "EXECUTING" =>
        watchdog.link_watchdog_armed /\ ~watchdog.watchdog_cause_active

\* From the moment a STOP is accepted until its STOP_ACK is confirmed, and
\* while a STOP timeout is latched, the node neither moves nor accepts motion.
StopHolds ==
    watchdog.stop_ack_pending \/ watchdog.stop_timeout_cause_active =>
        machine.state \in {"SAFE_STOP", "FAULT"}

\* Whatever the bridge answers, the codec can encode it, so an answer is lost
\* only on the bus; and an answer that claims a stop is given only by a node
\* that does not execute.
AnswersAreTruthful ==
    response.kind \in {"ACK", "STOP_ACK"} =>
        /\ frame_is_valid(response)
        /\ response.kind = "STOP_ACK" => machine.state \in {"SAFE_STOP", "FAULT"}

\* While the node executes, the last serially new command is never older than
\* the link timeout plus one timer period and the latency of its interrupt,
\* wherever the clock wraps.
BoundedSilence == machine.state = "EXECUTING" => quiet < QuietLimit

-----------------------------------------------------------------------------
(* What a step may never do.                                               *)

\* A latched fault, cause included, changes only by an authorized reset with
\* every timing cause cleared, or by a reboot.
FaultIsLatched ==
    [][machine.state = "FAULT" =>
          \/ machine' = machine
          \/ Reboot
          \/ RequestReset(TRUE, TRUE) /\ ~live_cause(watchdog)]_vars

\* Motion starts only from IDLE, in an open session, by a command that is
\* serially new in that session.
MotionNeedsNewCommand ==
    [][machine.state # "EXECUTING" /\ machine'.state = "EXECUTING" =>
          /\ machine.state = "IDLE"
          /\ dedup.session_open
          /\ dedup'.has_last_accepted
          /\ dedup.has_last_accepted =>
                (dedup'.last_accepted_id - dedup.last_accepted_id)
                    % CommandIdModulus \in 1..(SerialHalfRange - 1)]_vars

\* Traffic that dispatches no command (retries, duplicates, stale, refused or
\* STOP frames) never moves the link deadline, and no retry of a pending STOP
\* moves the STOP deadline.
DeadlinesNotExtended ==
    [][/\ \/ watchdog'.link_deadline_us = watchdog.link_deadline_us
          \/ Reboot
          \/ \E c \in Commands : DispatchCommand(c)
       /\ watchdog.stop_ack_pending /\ watchdog'.stop_ack_pending =>
              watchdog'.stop_deadline_us = watchdog.stop_deadline_us]_vars

\* A reset or reboot is the only way out of SAFE_STOP that does not fault: no
\* command, replayed or new, resumes motion after a stop.
StopIsFinal ==
    [][machine.state = "SAFE_STOP" =>
          \/ machine'.state \in {"SAFE_STOP", "FAULT"}
          \/ Reboot
          \/ RequestReset(TRUE, TRUE) /\ ~live_cause(watchdog)]_vars

-----------------------------------------------------------------------------
(* What must eventually happen.                                            *)

\* A pending STOP is always settled: confirmed, timed out or rebooted away.
StopIsSettled == watchdog.stop_ack_pending ~> ~watchdog.stop_ack_pending

\* A node that stays faulted, or stays with a STOP timeout, eventually stops
\* feeding the hardware watchdog for good.
FaultStarvesHardware ==
    <>[](machine.state = "FAULT" \/ watchdog.stop_timeout_cause_active)
        => <>[](~hw_fed)
=============================================================================
