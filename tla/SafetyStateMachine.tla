------------------------- MODULE SafetyStateMachine -------------------------
(***************************************************************************)
(* firmware/mcu/core/state_machine.c: the platform independent safety      *)
(* state machine, as operators on a machine record.  mcu_sm_dispatch       *)
(* returns the machine after the event and the response it produces.  The  *)
(* null-pointer branches of the C code have no counterpart: a record is    *)
(* never missing.                                                          *)
(***************************************************************************)

States == {"IDLE", "EXECUTING", "SAFE_STOP", "FAULT"}
Modes  == {"IDLE", "MOVING", "HOLDING", "STOPPED", "FAULTED"}
Faults == {"NONE", "STOP_REJECTED", "LINK_LOST", "DUPLICATE_FRAME",
           "WATCHDOG_EXPIRED", "MALFORMED_FRAME"}

Machines == [state : States, device_mode : Modes, fault_code : Faults]

active_fault_is_valid(f) == f \in Faults \ {"NONE"}

mcu_sm_is_valid(m) ==
    \/ /\ m.state = "IDLE"
       /\ m.device_mode = "IDLE"
       /\ m.fault_code = "NONE"
    \/ /\ m.state = "EXECUTING"
       /\ m.device_mode \in {"MOVING", "HOLDING"}
       /\ m.fault_code = "NONE"
    \/ /\ m.state = "SAFE_STOP"
       /\ m.device_mode = "STOPPED"
       /\ m.fault_code = "NONE"
    \/ /\ m.state = "FAULT"
       /\ m.device_mode = "FAULTED"
       /\ active_fault_is_valid(m.fault_code)

enter_idle ==
    [state |-> "IDLE", device_mode |-> "IDLE", fault_code |-> "NONE"]

mcu_sm_init == enter_idle

enter_executing(mode) ==
    [state |-> "EXECUTING", device_mode |-> mode, fault_code |-> "NONE"]

enter_safe_stop ==
    [state |-> "SAFE_STOP", device_mode |-> "STOPPED", fault_code |-> "NONE"]

\* Mutant: the latest cause wins.
mut_enter_fault(m, fault) ==
    [state |-> "FAULT", device_mode |-> "FAULTED", fault_code |-> fault]

\* The first active cause is kept: later traffic never overwrites it.
enter_fault(m, fault) ==
    [state       |-> "FAULT",
     device_mode |-> "FAULTED",
     fault_code  |-> IF m.state = "FAULT" /\ active_fault_is_valid(m.fault_code)
                     THEN m.fault_code
                     ELSE fault]

Accept(m, fault) ==
    [machine |-> m, result_code |-> "ACCEPTED", response_fault_code |-> fault]

Reject(m, fault) ==
    [machine |-> m, result_code |-> "REJECTED", response_fault_code |-> fault]

FailClosed(m) ==
    Reject(enter_fault(m, "MALFORMED_FRAME"), "MALFORMED_FRAME")

-----------------------------------------------------------------------------
Event(kind) ==
    [kind |-> kind, fault_code |-> "NONE",
     reset_authorized |-> FALSE, cause_cleared |-> FALSE]

\* Mutant: a stopped machine may start again.
mut_BeginMotion(m, mode) ==
    IF m.state \in {"IDLE", "SAFE_STOP"} THEN Accept(enter_executing(mode), "NONE")
                                         ELSE FailClosed(m)

BeginMotion(m, mode) ==
    IF m.state = "IDLE" THEN Accept(enter_executing(mode), "NONE")
                        ELSE FailClosed(m)

Complete(m) ==
    IF m.state = "EXECUTING" THEN Accept(enter_idle, "NONE")
                             ELSE Reject(m, "NONE")

Heartbeat(m) ==
    IF m.state = "FAULT" THEN Reject(m, m.fault_code) ELSE Accept(m, "NONE")

\* Mutant: a busy machine answers that it cannot stop.
mut_StopWhenBusy(m) ==
    IF m.state \in {"FAULT", "EXECUTING"} THEN Reject(m, "STOP_REJECTED")
                                          ELSE Accept(enter_safe_stop, "NONE")

\* Mutant: an idle machine has nothing to stop and stays idle.
mut_StopWhenIdle(m) ==
    IF m.state = "FAULT" THEN Reject(m, "STOP_REJECTED")
    ELSE Accept(IF m.state = "IDLE" THEN m ELSE enter_safe_stop, "NONE")

Stop(m) ==
    IF m.state = "FAULT" THEN Reject(m, "STOP_REJECTED")
                         ELSE Accept(enter_safe_stop, "NONE")

RaiseFault(m, fault) ==
    IF active_fault_is_valid(fault) /\ fault # "STOP_REJECTED"
    THEN Accept(enter_fault(m, fault), fault)
    ELSE FailClosed(m)

handle_reset(m, e) ==
    IF ~(e.reset_authorized /\ e.cause_cleared) THEN Reject(m, "NONE")
    ELSE IF m.state = "EXECUTING" THEN FailClosed(m)
    ELSE Accept(enter_idle, "NONE")

mcu_sm_dispatch(m, e) ==
    IF ~mcu_sm_is_valid(m)
    THEN Reject([state |-> "FAULT", device_mode |-> "FAULTED",
                 fault_code |-> "MALFORMED_FRAME"], "MALFORMED_FRAME")
    ELSE CASE e.kind = "BEGIN_MOVE"       -> BeginMotion(m, "MOVING")
           [] e.kind = "BEGIN_HOLD"       -> BeginMotion(m, "HOLDING")
           [] e.kind = "COMPLETE"         -> Complete(m)
           [] e.kind = "HEARTBEAT"        -> Heartbeat(m)
           [] e.kind = "STOP"             -> Stop(m)
           [] e.kind = "WATCHDOG_EXPIRED" ->
                Accept(enter_fault(m, "WATCHDOG_EXPIRED"), "WATCHDOG_EXPIRED")
           [] e.kind = "RAISE_FAULT"      -> RaiseFault(m, e.fault_code)
           [] e.kind = "TRUSTED_RESET"    -> handle_reset(m, e)
           [] OTHER                       -> FailClosed(m)
=============================================================================
