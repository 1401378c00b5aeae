---------------------------- MODULE McuNodeProofs ----------------------------
(***************************************************************************)
(* Proofs about McuNode for every clock width, timeout, serial range,      *)
(* window size and set of frames.                                          *)
(***************************************************************************)
EXTENDS McuNode, TLAPS

-----------------------------------------------------------------------------
(* The state machine.                                                      *)

\* What every call of mcu_sm_dispatch returns: a machine that mcu_sm_is_valid
\* accepts, with a result and a fault code.
Transitions ==
    {t \in [machine : Machines, result_code : Results,
            response_fault_code : Faults] : mcu_sm_is_valid(t.machine)}

\* Entering FAULT gives a valid machine, whatever the machine was.
LEMMA FailClosedStep ==
    ASSUME NEW m \in Machines
    PROVE  FailClosed(m) \in Transitions
  BY DEF FailClosed, Reject, enter_fault, active_fault_is_valid, Transitions,
         Machines, States, Modes, Faults, Results, mcu_sm_is_valid

\* mcu_sm_dispatch returns a valid machine and a typed answer, whatever the
\* event and even for a machine that was not valid.
LEMMA DispatchStep ==
    ASSUME NEW m \in Machines, NEW e
    PROVE  mcu_sm_dispatch(m, e) \in Transitions
<1>1. CASE ~mcu_sm_is_valid(m)
  <2>1. Reject([state |-> "FAULT", device_mode |-> "FAULTED",
                fault_code |-> "MALFORMED_FRAME"], "MALFORMED_FRAME") \in Transitions
    BY DEF Reject, Transitions, Machines, States, Modes, Faults, Results,
           mcu_sm_is_valid, active_fault_is_valid
  <2> QED BY <1>1, <2>1 DEF mcu_sm_dispatch
<1>2. CASE mcu_sm_is_valid(m)
  <2> USE <1>2 DEF Accept, Reject, Transitions, Machines, States, Modes,
                   Faults, Results
  <2>1. \A mode \in {"MOVING", "HOLDING"} : BeginMotion(m, mode) \in Transitions
    BY FailClosedStep DEF BeginMotion, enter_executing, mcu_sm_is_valid
  <2>2. Complete(m) \in Transitions
    BY DEF Complete, enter_idle, mcu_sm_is_valid
  <2>3. Heartbeat(m) \in Transitions
    BY DEF Heartbeat
  <2>4. Stop(m) \in Transitions
    BY DEF Stop, enter_safe_stop, mcu_sm_is_valid
  <2>5. \A f \in Faults \ {"NONE"} : Accept(enter_fault(m, f), f) \in Transitions
    BY DEF enter_fault, active_fault_is_valid, mcu_sm_is_valid
  <2>6. \A f : RaiseFault(m, f) \in Transitions
    BY <2>5, FailClosedStep DEF RaiseFault, active_fault_is_valid
  <2>7. handle_reset(m, e) \in Transitions
    BY FailClosedStep DEF handle_reset, enter_idle, mcu_sm_is_valid
  <2> HIDE DEF Accept, Reject, Transitions, Machines, States, Modes, Results
  <2> QED BY <2>1, <2>2, <2>3, <2>4, <2>5, <2>6, <2>7, FailClosedStep
          DEF mcu_sm_dispatch
<1> QED BY <1>1, <1>2

\* A clock reading plus a delay is a clock reading.
LEMMA TimeAfterType ==
    ASSUME NEW t \in Int, NEW d \in Int
    PROVE  TimeAfter(t, d) \in Times
  BY TimeAssumption DEF TimeAfter, Times

\* The branch of mcu_sm_dispatch that each event of the node takes.
LEMMA DispatchBranch ==
    ASSUME NEW m, NEW e, mcu_sm_is_valid(m)
    PROVE  /\ e.kind = "STOP" => mcu_sm_dispatch(m, e) = Stop(m)
           /\ e.kind = "COMPLETE" => mcu_sm_dispatch(m, e) = Complete(m)
           /\ e.kind = "HEARTBEAT" => mcu_sm_dispatch(m, e) = Heartbeat(m)
           /\ e.kind = "BEGIN_MOVE" =>
                mcu_sm_dispatch(m, e) = BeginMotion(m, "MOVING")
           /\ e.kind = "BEGIN_HOLD" =>
                mcu_sm_dispatch(m, e) = BeginMotion(m, "HOLDING")
           /\ e.kind = "RAISE_FAULT" =>
                mcu_sm_dispatch(m, e) = RaiseFault(m, e.fault_code)
           /\ e.kind = "TRUSTED_RESET" =>
                mcu_sm_dispatch(m, e) = handle_reset(m, e)
           /\ e.kind = "WATCHDOG_EXPIRED" =>
                mcu_sm_dispatch(m, e) =
                  Accept(enter_fault(m, "WATCHDOG_EXPIRED"), "WATCHDOG_EXPIRED")
  BY DEF mcu_sm_dispatch

\* A STOP stops every machine that is not faulted, and says which.
LEMMA StopStep ==
    ASSUME NEW m \in Machines, mcu_sm_is_valid(m)
    PROVE  LET t == mcu_sm_dispatch(m, Event("STOP"))
           IN  \/ /\ m.state = "FAULT"
                  /\ t = Reject(m, "STOP_REJECTED")
               \/ /\ m.state # "FAULT"
                  /\ t = Accept(enter_safe_stop, "NONE")
  BY DispatchBranch DEF Event, Stop

\* A correlation error faults the machine, and keeps an earlier cause.
LEMMA DuplicateFaultStep ==
    ASSUME NEW m \in Machines, mcu_sm_is_valid(m)
    PROVE  /\ raise_duplicate_fault(m) \in Machines
           /\ mcu_sm_is_valid(raise_duplicate_fault(m))
           /\ raise_duplicate_fault(m).state = "FAULT"
           /\ m.state = "FAULT" => raise_duplicate_fault(m) = m
<1> DEFINE e == [Event("RAISE_FAULT") EXCEPT !.fault_code = "DUPLICATE_FRAME"]
<1>1. e.kind = "RAISE_FAULT" /\ e.fault_code = "DUPLICATE_FRAME"
  BY DEF Event
<1>2. mcu_sm_dispatch(m, e) = RaiseFault(m, "DUPLICATE_FRAME")
  BY <1>1, DispatchBranch
<1>3. RaiseFault(m, "DUPLICATE_FRAME").machine = enter_fault(m, "DUPLICATE_FRAME")
  BY DEF RaiseFault, active_fault_is_valid, Faults, Accept
<1> QED
  BY <1>2, <1>3 DEF raise_duplicate_fault, enter_fault, active_fault_is_valid,
     mcu_sm_is_valid, Machines, States, Modes, Faults

\* What a serially new command does: motion starts from IDLE only, a faulted
\* machine stays as it is, and a stopped one stays stopped or faults.
LEMMA CommandStep ==
    ASSUME NEW m \in Machines, mcu_sm_is_valid(m),
           NEW c, c.opcode \in OrdinaryOpcodes
    PROVE  LET t == dispatch_new_command(m, c)
           IN  /\ t \in Transitions
               /\ t.result_code = "ACCEPTED" => t.machine.device_mode # "FAULTED"
               /\ m.state = "FAULT" => t.machine = m
               /\ m.state = "SAFE_STOP" => t.machine.state \in {"SAFE_STOP", "FAULT"}
               /\ t.machine.state = "EXECUTING" => m.state \in {"IDLE", "EXECUTING"}
<1> DEFINE e == Event(opcode_to_event(c.opcode))
           t == mcu_sm_dispatch(m, e)
<1>1. opcode_to_event(c.opcode) \in {"BEGIN_HOLD", "HEARTBEAT", "BEGIN_MOVE"}
  BY Zenon DEF opcode_to_event, OrdinaryOpcodes
<1>2. e.kind = opcode_to_event(c.opcode)
  BY DEF Event
<1> HIDE DEF e
<1>3. t \in {Heartbeat(m), BeginMotion(m, "MOVING"), BeginMotion(m, "HOLDING")}
  BY <1>1, <1>2, DispatchBranch
<1>4. t \in Transitions
  BY DispatchStep
<1>5. /\ t.result_code = "ACCEPTED" => t.machine.device_mode # "FAULTED"
      /\ m.state = "FAULT" => t.machine = m
      /\ m.state = "SAFE_STOP" => t.machine.state \in {"SAFE_STOP", "FAULT"}
      /\ t.machine.state = "EXECUTING" => m.state \in {"IDLE", "EXECUTING"}
  <2> HIDE DEF t
  <2> QED
    BY <1>3 DEF Heartbeat, BeginMotion, FailClosed, enter_fault, enter_executing,
       Accept, Reject, mcu_sm_is_valid, active_fault_is_valid, Machines, States
<1> QED BY <1>4, <1>5 DEF dispatch_new_command, e

\* The end of a motion leaves EXECUTING for IDLE and changes nothing else.
LEMMA CompleteStep ==
    ASSUME NEW m \in Machines, mcu_sm_is_valid(m)
    PROVE  LET n == mcu_sm_dispatch(m, Event("COMPLETE")).machine
           IN  n = IF m.state = "EXECUTING" THEN enter_idle ELSE m
  BY DispatchBranch DEF Event, Complete, Accept, Reject

\* A reset is accepted only when it is authorized, declared clear and no
\* timing cause is live; otherwise the machine stays or faults.
LEMMA ResetStep ==
    ASSUME NEW m \in Machines, mcu_sm_is_valid(m), NEW w,
           NEW a \in BOOLEAN, NEW cleared \in BOOLEAN
    PROVE  LET t == mcu_sm_dispatch(m, ResetEvent(w, a, cleared))
           IN  \/ /\ a /\ cleared /\ ~live_cause(w)
                  /\ m.state # "EXECUTING"
                  /\ t = Accept(enter_idle, "NONE")
               \/ t = Reject(m, "NONE")
               \/ m.state = "EXECUTING" /\ t = FailClosed(m)
<1> DEFINE e == ResetEvent(w, a, cleared)
<1>1. /\ e.kind = "TRUSTED_RESET"
      /\ e.reset_authorized = a
      /\ e.cause_cleared = (cleared /\ ~live_cause(w))
  BY DEF ResetEvent, Event
<1> HIDE DEF e
<1>2. mcu_sm_dispatch(m, e) = handle_reset(m, e)
  BY <1>1, DispatchBranch
<1> QED BY <1>1, <1>2 DEF handle_reset, e

-----------------------------------------------------------------------------
(* The replay window.                                                      *)

\* Within one epoch the retained ids never lie ahead of the last dispatched
\* one: command_dedup.c clears the window when the serial number wraps.
RetainedBehindLast(d) ==
    \A i \in Slots :
        d.entries[i].valid => /\ d.has_last_accepted
                              /\ d.entries[i].command_id <= d.last_accepted_id

WindowInv(d) ==
    /\ d \in Dedups
    /\ mcu_command_dedup_is_valid(d)
    /\ RetainedBehindLast(d)

\* The ids, opcodes and counts of a command on the bus.
LEMMA CommandFields ==
    ASSUME NEW c \in Commands
    PROVE  /\ c.command_id \in CommandIds
           /\ c.opcode \in Opcodes
           /\ c.opcode \in OrdinaryOpcodes
           /\ c.retry_count \in Retries
  BY BusAssumption DEF Commands

\* A cleared window is valid, whether the session is open or not.
LEMMA ClearedWindow ==
    ASSUME NEW open \in BOOLEAN
    PROVE  WindowInv(ClearedDedup(open))
<1>1. 0 \in Slots /\ 0 \in CommandIds /\ 0 \in Retries
  BY WindowAssumption, CommandIdAssumption, BusAssumption
     DEF Slots, CommandIds, CommandIdMax, Retries
<1>2. clear_entry \in Entries /\ ~clear_entry.valid
  BY <1>1 DEF clear_entry, Entries, Results, Faults, Modes
<1>3. ClearedDedup(open) \in Dedups
  BY <1>1, <1>2 DEF ClearedDedup, Dedups
<1>4. \A i \in Slots : ~ClearedDedup(open).entries[i].valid
  BY <1>2 DEF ClearedDedup
<1>5. /\ ~ClearedDedup(open).has_last_accepted
      /\ ClearedDedup(open).next_slot = 0
  BY DEF ClearedDedup
<1> HIDE DEF ClearedDedup
<1> QED
  BY <1>3, <1>4, <1>5, WindowAssumption
     DEF WindowInv, RetainedBehindLast, mcu_command_dedup_is_valid, NoEntries

\* After the wrap check, every retained id is below a serially new one.
LEMMA NewIdIsAhead ==
    ASSUME NEW d, WindowInv(d), d.session_open,
           NEW id \in CommandIds, IsNew(d, id)
    PROVE  LET a == AfterWrap(d, id)
           IN  /\ a \in Dedups
               /\ a.session_open
               /\ \A i \in Slots : a.entries[i].valid =>
                     /\ cached_response_is_valid(a.entries[i])
                     /\ a.entries[i].command_id < id
               /\ \A i, j \in Slots :
                     /\ a.entries[i].valid
                     /\ a.entries[j].valid
                     /\ a.entries[i].command_id = a.entries[j].command_id
                     => i = j
<1>1. CASE d.has_last_accepted /\ id < d.last_accepted_id
  <2>1. AfterWrap(d, id) = ClearedDedup(TRUE)
    BY <1>1 DEF AfterWrap, WindowInv, Dedups
  <2>2. WindowInv(ClearedDedup(TRUE))
    BY ClearedWindow
  <2>3. \A i \in Slots : ~ClearedDedup(TRUE).entries[i].valid
    BY DEF ClearedDedup, clear_entry
  <2>4. ClearedDedup(TRUE).session_open
    BY DEF ClearedDedup
  <2> QED BY <2>1, <2>2, <2>3, <2>4 DEF WindowInv
<1>2. CASE ~(d.has_last_accepted /\ id < d.last_accepted_id)
  <2>1. AfterWrap(d, id) = d
    BY <1>2 DEF AfterWrap
  <2>2. d.has_last_accepted => id > d.last_accepted_id
    <3>1. d.last_accepted_id \in Int /\ id \in Int
      BY DEF WindowInv, Dedups, CommandIds
    <3>2. d.has_last_accepted => serial_delta(id, d.last_accepted_id) # 0
      BY DEF IsNew, SeriallyNew
    <3>3. id = d.last_accepted_id => serial_delta(id, d.last_accepted_id) = 0
      BY <3>1, CommandIdAssumption DEF serial_delta
    <3> QED BY <1>2, <3>1, <3>2, <3>3
  <2>3. \A i \in Slots : d.entries[i].command_id \in Int
    BY DEF WindowInv, Dedups, Entries, CommandIds
  <2>4. d.last_accepted_id \in Int /\ id \in Int
    BY DEF WindowInv, Dedups, CommandIds
  <2>5. \A i \in Slots : d.entries[i].valid =>
           /\ cached_response_is_valid(d.entries[i])
           /\ d.entries[i].command_id < id
    BY <2>2, <2>3, <2>4 DEF WindowInv, RetainedBehindLast, mcu_command_dedup_is_valid
  <2> QED BY <2>1, <2>5 DEF WindowInv, mcu_command_dedup_is_valid
<1> QED BY <1>1, <1>2

\* Caching the answer of a serially new command keeps the window valid: the
\* slot it overwrites is the only one that holds the new id.
LEMMA CachedWindow ==
    ASSUME NEW d, WindowInv(d), d.session_open,
           NEW c \in Commands, IsNew(d, c.command_id),
           NEW ack, ack.result_code \in Results, ack.fault_code \in Faults,
           ack.device_mode \in Modes, ordinary_ack_is_valid(ack)
    PROVE  WindowInv(cache_new_result(AfterWrap(d, c.command_id), c, ack))
<1> DEFINE a == AfterWrap(d, c.command_id)
           e == [valid |-> TRUE, command_id |-> c.command_id,
                 opcode |-> c.opcode, last_retry_count |-> c.retry_count,
                 result_code |-> ack.result_code,
                 fault_code |-> ack.fault_code,
                 device_mode |-> ack.device_mode]
           n == cache_new_result(a, c, ack)
<1>1. /\ c.command_id \in CommandIds
      /\ c.opcode \in Opcodes
      /\ c.opcode \in OrdinaryOpcodes
      /\ c.retry_count \in Retries
  BY CommandFields
<1>2. /\ a \in Dedups
      /\ a.session_open
      /\ \A i \in Slots : a.entries[i].valid =>
            /\ cached_response_is_valid(a.entries[i])
            /\ a.entries[i].command_id < c.command_id
      /\ \A i, j \in Slots :
            /\ a.entries[i].valid
            /\ a.entries[j].valid
            /\ a.entries[i].command_id = a.entries[j].command_id
            => i = j
  BY <1>1, NewIdIsAhead
<1>3. e \in Entries
  BY <1>1 DEF Entries
<1>4. cached_response_is_valid(e) /\ e.valid /\ e.command_id = c.command_id
  BY <1>1 DEF cached_response_is_valid, ordinary_ack_is_valid, CommandIds
<1>5. n = [a EXCEPT !.entries[a.next_slot] = e,
                    !.next_slot = (a.next_slot + 1) % WindowSize,
                    !.has_last_accepted = TRUE,
                    !.last_accepted_id = c.command_id]
  BY DEF cache_new_result
<1> HIDE DEF a, e, n
<1>6. (a.next_slot + 1) % WindowSize \in Slots
  BY <1>2, WindowAssumption DEF Dedups, Slots
<1>7. /\ n \in Dedups
      /\ n.session_open
      /\ n.has_last_accepted
      /\ n.last_accepted_id = c.command_id
      /\ n.entries = [a.entries EXCEPT ![a.next_slot] = e]
      /\ n.next_slot \in Slots
  BY <1>1, <1>2, <1>3, <1>5, <1>6 DEF Dedups
<1>8. a.next_slot \in Slots /\ a.entries \in [Slots -> Entries]
  BY <1>2 DEF Dedups
<1>9. \A i \in Slots : n.entries[i] = IF i = a.next_slot THEN e ELSE a.entries[i]
  BY <1>7, <1>8
<1>10. \A i \in Slots : a.entries[i].command_id \in Int
  BY <1>8 DEF Entries, CommandIds
<1>11. c.command_id \in Int
  BY <1>1 DEF CommandIds
<1>12. RetainedBehindLast(n)
  BY <1>2, <1>4, <1>7, <1>9, <1>10, <1>11 DEF RetainedBehindLast
<1>13. mcu_command_dedup_is_valid(n)
  <2>1. n.next_slot < WindowSize
    BY <1>7, WindowAssumption DEF Slots
  <2>2. n.last_accepted_id <= CommandIdMax
    BY <1>1, <1>7 DEF CommandIds
  <2>3. \A i \in Slots : n.entries[i].valid => cached_response_is_valid(n.entries[i])
    BY <1>2, <1>4, <1>9
  <2>4. \A i, j \in Slots :
          /\ n.entries[i].valid
          /\ n.entries[j].valid
          /\ n.entries[i].command_id = n.entries[j].command_id
          => i = j
    BY <1>2, <1>4, <1>9, <1>10, <1>11
  <2>5. \E i \in Slots : /\ n.entries[i].valid
                         /\ n.entries[i].command_id = n.last_accepted_id
    BY <1>4, <1>7, <1>8, <1>9
  <2> QED BY <1>7, <2>1, <2>2, <2>3, <2>4, <2>5 DEF mcu_command_dedup_is_valid
<1> QED BY <1>7, <1>12, <1>13 DEF WindowInv, n, a

\* A replay only moves the last seen retry_count of the entry that answers.
LEMMA ReplayedWindow ==
    ASSUME NEW d, WindowInv(d), NEW i \in Slots, NEW r \in Retries
    PROVE  WindowInv([d EXCEPT !.entries[i].last_retry_count = r])
<1> DEFINE n == [d EXCEPT !.entries[i].last_retry_count = r]
<1>1. d \in Dedups /\ d.entries \in [Slots -> Entries]
  BY DEF WindowInv, Dedups
<1>2. /\ n \in Dedups
      /\ n.session_open = d.session_open
      /\ n.has_last_accepted = d.has_last_accepted
      /\ n.last_accepted_id = d.last_accepted_id
      /\ n.next_slot = d.next_slot
  BY <1>1 DEF Dedups, Entries
<1>3. \A j \in Slots :
        /\ n.entries[j].valid = d.entries[j].valid
        /\ n.entries[j].command_id = d.entries[j].command_id
        /\ n.entries[j].opcode = d.entries[j].opcode
        /\ n.entries[j].result_code = d.entries[j].result_code
        /\ n.entries[j].fault_code = d.entries[j].fault_code
        /\ n.entries[j].device_mode = d.entries[j].device_mode
  BY <1>1 DEF Dedups, Entries
<1> HIDE DEF n
<1>4. \A j \in Slots : cached_response_is_valid(d.entries[j])
                          => cached_response_is_valid(n.entries[j])
  BY <1>3 DEF cached_response_is_valid, ordinary_ack_is_valid
<1>5. mcu_command_dedup_is_valid(n)
  BY <1>2, <1>3, <1>4 DEF WindowInv, mcu_command_dedup_is_valid, NoEntries
<1>6. RetainedBehindLast(n)
  BY <1>2, <1>3 DEF WindowInv, RetainedBehindLast
<1> QED BY <1>2, <1>5, <1>6 DEF WindowInv, n

-----------------------------------------------------------------------------
(* The machine and its watchdog.                                           *)

\* The cached STOP_ACK is the answer to the pending STOP, attempt included.
PendingAckIsCached(w) ==
    w.stop_ack_pending =>
        /\ w.stop_ack_frame.kind = "STOP_ACK"
        /\ w.stop_ack_frame.opcode = "STOP"
        /\ w.stop_ack_frame.sequence_no = NoSequence
        /\ w.stop_ack_frame.command_id = w.stop_command_id
        /\ w.stop_ack_frame.retry_count = w.stop_retry_count
        /\ w.stop_ack_frame.result_code = "ACCEPTED"
        /\ w.stop_ack_frame.fault_code = "NONE"
        /\ w.stop_ack_frame.device_mode = "STOPPED"

\* What every call preserves: motion is watched, a STOP holds, and (so that
\* this is inductive) an expired link leaves the machine faulted.
SafetyInv(m, w) ==
    /\ m \in Machines
    /\ mcu_sm_is_valid(m)
    /\ w \in Watchdogs
    /\ mcu_watchdog_is_valid(w)
    /\ m.state = "EXECUTING" => w.link_watchdog_armed
    /\ w.stop_ack_pending \/ w.stop_timeout_cause_active =>
          m.state \in {"SAFE_STOP", "FAULT"}
    /\ w.watchdog_cause_active => m.state = "FAULT"
    /\ PendingAckIsCached(w)

\* The empty frame, and every record the poll publishes, is a typed response.
LEMMA RecordType ==
    ASSUME NEW kind \in {"NONE", "STOP_TIMEOUT", "FAULT_TELEMETRY", "COMMAND"}
    PROVE  Record(kind) \in WireFrames /\ clear_frame \in WireFrames
  BY CommandIdAssumption, BusAssumption
     DEF Record, clear_frame, WireFrames, CommandIds, CommandIdMax, Retries,
         Results, Faults, Modes, NoSequence

\* The state mcu_sm_init and mcu_watchdog_init build.
LEMMA InitSafety == SafetyInv(mcu_sm_init, mcu_watchdog_init)
<1>1. clear_frame \in WireFrames
  BY RecordType
<1>2. 0 \in Times /\ 0 \in Retries
  BY TimeAssumption, BusAssumption DEF Times, Retries
<1> QED
  BY <1>1, <1>2
     DEF SafetyInv, mcu_sm_init, enter_idle, mcu_watchdog_init, Machines, States,
         Modes, Faults, Watchdogs, mcu_sm_is_valid, mcu_watchdog_is_valid,
         PendingAckIsCached

\* mcu_watchdog_note_activity after a step of the machine that starts motion
\* only on serially new traffic and never leaves a stop or a fault.
LEMMA NoteSafety ==
    ASSUME NEW m, NEW w, SafetyInv(m, w),
           NEW n \in Machines, mcu_sm_is_valid(n),
           NEW activity, NEW t \in Times,
           n.state = "EXECUTING" => activity = "VALID_NEW" \/ m.state = "EXECUTING",
           m.state \in {"SAFE_STOP", "FAULT"} => n.state \in {"SAFE_STOP", "FAULT"},
           m.state = "FAULT" => n.state = "FAULT"
    PROVE  SafetyInv(n, mcu_watchdog_note_activity(w, n, activity, t))
<1>1. TimeAfter(t, LinkTimeout) \in Times
  BY TimeAfterType, TimeAssumption DEF Times
<1> QED
  BY <1>1 DEF SafetyInv, mcu_watchdog_note_activity, Watchdogs,
     mcu_watchdog_is_valid, PendingAckIsCached

\* mcu_watchdog_poll.
LEMMA PollSafety ==
    ASSUME NEW m, NEW w, SafetyInv(m, w), NEW t \in Times
    PROVE  SafetyInv(PolledMachine(w, m, t), PolledWatchdog(w, m, t))
<1>1. clear_frame \in WireFrames
  BY RecordType
<1>2. m \in Machines /\ mcu_sm_is_valid(m)
  BY DEF SafetyInv
<1>3. CASE StopTimedOut(w, t)
  BY <1>1, <1>3 DEF PolledMachine, PolledWatchdog, SafetyInv, Watchdogs,
     StopTimedOut, mcu_watchdog_is_valid, PendingAckIsCached
<1>4. CASE ~StopTimedOut(w, t) /\ LinkExpired(w, m, t)
  <2>1. PolledMachine(w, m, t) = enter_fault(m, "WATCHDOG_EXPIRED")
    BY <1>2, <1>4, DispatchBranch DEF PolledMachine, Event, Accept
  <2>2. /\ enter_fault(m, "WATCHDOG_EXPIRED") \in Machines
        /\ mcu_sm_is_valid(enter_fault(m, "WATCHDOG_EXPIRED"))
        /\ enter_fault(m, "WATCHDOG_EXPIRED").state = "FAULT"
    BY <1>2 DEF enter_fault, Machines, States, Modes, Faults, mcu_sm_is_valid,
       active_fault_is_valid
  <2> QED
    BY <1>4, <2>1, <2>2 DEF PolledWatchdog, SafetyInv, Watchdogs,
       mcu_watchdog_is_valid, PendingAckIsCached
<1>5. CASE ~StopTimedOut(w, t) /\ ~LinkExpired(w, m, t)
  BY <1>5 DEF PolledMachine, PolledWatchdog, SafetyInv, Watchdogs,
     mcu_watchdog_is_valid, PendingAckIsCached
<1> QED BY <1>3, <1>4, <1>5

\* The ids and counts of a STOP on the bus.
LEMMA StopFields ==
    ASSUME NEW stop \in StopFrames
    PROVE  /\ stop.command_id \in StopIds
           /\ stop.command_id \in Nat
           /\ stop.command_id >= StopIdMin
           /\ stop.retry_count \in Retries
  BY BusAssumption DEF StopFrames

\* Confirming a STOP_ACK only closes the pending slot.
LEMMA ConfirmSafety ==
    ASSUME NEW m, NEW w, SafetyInv(m, w), NEW id, NEW r, NEW t
    PROVE  SafetyInv(m, mcu_watchdog_confirm_stop_ack(w, id, r, t))
<1>1. clear_frame \in WireFrames
  BY RecordType
<1> QED
  BY <1>1 DEF mcu_watchdog_confirm_stop_ack, SafetyInv, Watchdogs,
     mcu_watchdog_is_valid, PendingAckIsCached

\* The answer to a dispatched STOP is typed, encodable, and claims a stop only
\* of a machine that is stopped or faulted.
LEMMA StopAckFrame ==
    ASSUME NEW m \in Machines, mcu_sm_is_valid(m), NEW stop \in StopFrames
    PROVE  LET t == mcu_sm_dispatch(m, Event("STOP"))
               f == make_stop_ack(stop, t)
           IN  /\ t \in Transitions
               /\ f \in WireFrames
               /\ frame_is_valid(f)
               /\ f.kind = "STOP_ACK"
               /\ t.machine.state \in {"SAFE_STOP", "FAULT"}
               /\ m.state = "FAULT" => t.machine = m
<1> DEFINE t == mcu_sm_dispatch(m, Event("STOP"))
           f == make_stop_ack(stop, t)
<1>1. \/ m.state = "FAULT" /\ t = Reject(m, "STOP_REJECTED")
      \/ m.state # "FAULT" /\ t = Accept(enter_safe_stop, "NONE")
  BY StopStep
<1>2. t \in Transitions
  BY DispatchStep
<1>3. /\ stop.command_id \in StopIds
      /\ stop.command_id >= StopIdMin
      /\ stop.retry_count \in Retries
  BY StopFields
<1> HIDE DEF t
<1>4. f \in WireFrames
  BY <1>2, <1>3 DEF make_stop_ack, clear_frame, WireFrames, Transitions,
     Results, Modes
<1>5. frame_is_valid(f) /\ f.kind = "STOP_ACK"
  BY <1>1, <1>3 DEF make_stop_ack, clear_frame, frame_is_valid, stop_ack_is_valid,
     Accept, Reject, enter_safe_stop, mcu_sm_is_valid
<1>6. /\ t.machine.state \in {"SAFE_STOP", "FAULT"}
      /\ m.state = "FAULT" => t.machine = m
  BY <1>1 DEF Accept, Reject, enter_safe_stop
<1> QED BY <1>2, <1>4, <1>5, <1>6 DEF t

\* A STOP outside a pending slot.
LEMMA DispatchStopSafety ==
    ASSUME NEW m, NEW w, SafetyInv(m, w), NEW stop \in StopFrames,
           NEW now0 \in Times, ~w.stop_ack_pending, ~w.stop_timeout_cause_active
    PROVE  LET t == mcu_sm_dispatch(m, Event("STOP"))
           IN  SafetyInv(t.machine, StopDispatched(w, stop, t, now0))
<1> DEFINE t == mcu_sm_dispatch(m, Event("STOP"))
           f == make_stop_ack(stop, t)
           n == StopDispatched(w, stop, t, now0)
<1>1. m \in Machines /\ mcu_sm_is_valid(m)
  BY DEF SafetyInv
<1>2. \/ m.state = "FAULT" /\ t = Reject(m, "STOP_REJECTED")
      \/ m.state # "FAULT" /\ t = Accept(enter_safe_stop, "NONE")
  BY <1>1, StopStep
<1>3. /\ t \in Transitions
      /\ f \in WireFrames
      /\ t.machine.state \in {"SAFE_STOP", "FAULT"}
      /\ m.state = "FAULT" => t.machine = m
  BY <1>1, StopAckFrame
<1>4. /\ stop.command_id \in StopIds
      /\ stop.command_id >= StopIdMin
      /\ stop.retry_count \in Retries
  BY StopFields
<1>5. TimeAfter(now0, StopAckDeadline) \in Times
  BY TimeAfterType, TimeAssumption DEF Times
<1>6. clear_frame \in WireFrames
  BY RecordType
<1> HIDE DEF t
<1>7. n \in Watchdogs
  BY <1>3, <1>4, <1>5, <1>6 DEF SafetyInv, Watchdogs, StopDispatched
<1>8. mcu_watchdog_is_valid(n)
  BY <1>4 DEF SafetyInv, Watchdogs, StopDispatched, mcu_watchdog_is_valid
<1>9. PendingAckIsCached(n)
  BY <1>2 DEF SafetyInv, Watchdogs, StopDispatched, PendingAckIsCached,
     make_stop_ack, clear_frame, Accept, Reject, enter_safe_stop
<1>10. n.watchdog_cause_active = w.watchdog_cause_active
  BY DEF SafetyInv, Watchdogs, StopDispatched
<1> HIDE DEF n
<1>11. t.machine \in Machines /\ mcu_sm_is_valid(t.machine)
  BY <1>3 DEF Transitions
<1>12. n.watchdog_cause_active => t.machine.state = "FAULT"
  BY <1>3, <1>10 DEF SafetyInv
<1>13. SafetyInv(t.machine, n)
  BY <1>3, <1>7, <1>8, <1>9, <1>11, <1>12 DEF SafetyInv
<1> QED BY <1>13 DEF n, t

\* A retry of the pending STOP: the cached answer takes the attempt's
\* retry_count and stays the answer to the pending STOP.
LEMMA ReplayStopSafety ==
    ASSUME NEW m, NEW w, SafetyInv(m, w), NEW stop \in StopFrames,
           w.stop_ack_pending
    PROVE  LET n == replay_pending_stop_ack(w, stop)
           IN  /\ SafetyInv(m, n)
               /\ n.stop_ack_pending
               /\ n.stop_ack_frame \in WireFrames
               /\ frame_is_valid(n.stop_ack_frame)
<1> DEFINE n == replay_pending_stop_ack(w, stop)
<1>1. stop.retry_count \in Retries
  BY StopFields
<1>2. SafetyInv(m, n) /\ n.stop_ack_pending
  BY <1>1 DEF SafetyInv, Watchdogs, WireFrames, replay_pending_stop_ack,
     mcu_watchdog_is_valid, PendingAckIsCached
<1> HIDE DEF n
<1>3. n.stop_ack_frame \in WireFrames
  BY <1>2 DEF SafetyInv, Watchdogs
<1>4. frame_is_valid(n.stop_ack_frame)
  BY <1>2 DEF SafetyInv, PendingAckIsCached, mcu_watchdog_is_valid,
     frame_is_valid, stop_ack_is_valid
<1> QED BY <1>2, <1>3, <1>4 DEF n

-----------------------------------------------------------------------------
(* The inductive invariant of the node.                                    *)

IInv ==
    /\ SafetyInv(machine, watchdog)
    /\ WindowInv(dedup)
    /\ now \in Times
    /\ timer_at \in Times
    /\ hw_fed \in BOOLEAN
    /\ quiet \in 0..QuietLimit
    /\ response \in WireFrames
    /\ AnswersAreTruthful

\* An answer to a command with a valid verdict is typed and encodable.
LEMMA AckFrame ==
    ASSUME NEW c \in Commands, NEW result \in Results, NEW fault \in Faults,
           NEW mode \in Modes,
           \/ result = "ACCEPTED" /\ fault = "NONE" /\ mode # "FAULTED"
           \/ /\ result = "REJECTED"
              /\ fault \in {"DUPLICATE_FRAME", "MALFORMED_FRAME"}
              /\ mode = "FAULTED"
    PROVE  LET f == make_ack(c, result, fault, mode)
           IN  /\ f \in WireFrames
               /\ frame_is_valid(f)
               /\ ordinary_ack_is_valid(f)
               /\ f.kind = "ACK"
<1>1. /\ c.command_id \in CommandIds
      /\ c.opcode \in Opcodes
      /\ c.opcode \in OrdinaryOpcodes
      /\ c.retry_count \in Retries
  BY CommandFields
<1>2. c.command_id <= CommandIdMax
  BY <1>1 DEF CommandIds
<1> QED
  BY <1>1, <1>2 DEF make_ack, clear_frame, WireFrames, frame_is_valid,
     ordinary_ack_is_valid, NonFaultedModes, Modes

\* The history variable stays in its range.
LEMMA QuietType ==
    ASSUME quiet \in 0..QuietLimit, NEW b, QuietAfter(b)
    PROVE  quiet' \in 0..QuietLimit
  BY TimeAssumption, BusAssumption DEF QuietAfter, QuietLimit

\* A step that answers nothing keeps the part of IInv about answers.
LEMMA SilentStep ==
    ASSUME response' = NoResponse
    PROVE  response' \in WireFrames /\ AnswersAreTruthful'
<1>1. response' \in WireFrames
  BY RecordType DEF NoResponse
<1>2. response'.kind = "NONE"
  BY DEF NoResponse, Record, clear_frame
<1> QED BY <1>1, <1>2 DEF AnswersAreTruthful

\* A retry of the pending STOP preserves the invariant.
LEMMA ReplayStopInv ==
    ASSUME IInv, NEW s \in StopFrames, NEW hal \in BOOLEAN, ReplayStop(s, hal)
    PROVE  IInv'
<1> DEFINE w == replay_pending_stop_ack(watchdog, s)
<1>1. /\ SafetyInv(machine, w)
      /\ w.stop_ack_pending
      /\ w.stop_ack_frame \in WireFrames
      /\ frame_is_valid(w.stop_ack_frame)
  BY ReplayStopSafety DEF IInv, ReplayStop
<1>2. /\ response' = w.stop_ack_frame
      /\ \/ watchdog' = w
         \/ watchdog' = mcu_watchdog_confirm_stop_ack(w, w.stop_ack_frame.command_id,
                                      w.stop_ack_frame.retry_count, now)
  BY DEF ReplayStop, Respond
<1>3. UNCHANGED <<machine, dedup, quiet, now, timer_at, hw_fed>>
  BY DEF ReplayStop, BusUnchanged
<1> HIDE DEF w
<1>4. SafetyInv(machine', watchdog')
  BY <1>1, <1>2, <1>3, ConfirmSafety
<1>5. AnswersAreTruthful'
  BY <1>1, <1>2, <1>3 DEF AnswersAreTruthful, SafetyInv
<1> QED BY <1>1, <1>2, <1>3, <1>4, <1>5 DEF IInv

\* A STOP that is dispatched, and its STOP_ACK handed to the HAL or not,
\* preserves the invariant.
LEMMA DispatchStopInv ==
    ASSUME IInv, NEW s \in StopFrames, NEW hal \in BOOLEAN, DispatchStop(s, hal)
    PROVE  IInv'
<1> DEFINE t == mcu_sm_dispatch(machine, Event("STOP"))
           w == StopDispatched(watchdog, s, t, now)
           f == make_stop_ack(s, t)
<1>1. /\ f \in WireFrames
      /\ frame_is_valid(f)
      /\ t.machine.state \in {"SAFE_STOP", "FAULT"}
  BY StopAckFrame DEF IInv, SafetyInv
<1>2. SafetyInv(t.machine, w)
  BY DispatchStopSafety DEF IInv, DispatchStop, StopRefused
<1>3. /\ machine' = t.machine
      /\ response' = f
      /\ \/ watchdog' = w
         \/ watchdog' = mcu_watchdog_confirm_stop_ack(w, f.command_id,
                                                      f.retry_count, now)
  BY DEF DispatchStop, Respond
<1>4. UNCHANGED <<dedup, now, timer_at, hw_fed>> /\ QuietAfter(FALSE)
  BY DEF DispatchStop, BusUnchanged
<1> HIDE DEF t, w, f
<1>5. SafetyInv(machine', watchdog')
  BY <1>2, <1>3, ConfirmSafety
<1>6. AnswersAreTruthful'
  BY <1>1, <1>3 DEF AnswersAreTruthful
<1>7. quiet' \in 0..QuietLimit
  BY <1>4, QuietType DEF IInv
<1> QED BY <1>1, <1>3, <1>4, <1>5, <1>6, <1>7 DEF IInv

\* A refused command (reject_correlation) preserves the invariant.
LEMMA CorrelationInv ==
    ASSUME IInv, NEW c \in Commands, NEW activity, reject_correlation(c, activity)
    PROVE  IInv'
<1>1. /\ machine' = raise_duplicate_fault(machine)
      /\ watchdog' = mcu_watchdog_note_activity(watchdog, machine', activity, now)
      /\ response' = CorrelationAck(c)
      /\ QuietAfter(FALSE)
      /\ UNCHANGED <<dedup, now, timer_at, hw_fed>>
  BY DEF reject_correlation, BusUnchanged
<1>2. /\ machine' \in Machines
      /\ mcu_sm_is_valid(machine')
      /\ machine'.state = "FAULT"
  BY <1>1, DuplicateFaultStep DEF IInv, SafetyInv
<1>3. SafetyInv(machine', watchdog')
  BY <1>1, <1>2, NoteSafety DEF IInv
<1>4. /\ response' \in WireFrames
      /\ frame_is_valid(response')
      /\ response'.kind = "ACK"
  BY <1>1, AckFrame DEF CorrelationAck, Results, Faults, Modes
<1>5. AnswersAreTruthful'
  BY <1>4 DEF AnswersAreTruthful
<1>6. quiet' \in 0..QuietLimit
  BY <1>1, QuietType DEF IInv
<1> QED BY <1>1, <1>3, <1>4, <1>5, <1>6 DEF IInv

\* A replayed answer preserves the invariant.
LEMMA ReplayCommandInv ==
    ASSUME IInv, NEW c \in Commands, ReplayCommand(c)
    PROVE  IInv'
<1>1. PICK i \in Slots :
        /\ dedup.entries[i].valid
        /\ response' = make_cached_ack(c, dedup.entries[i])
        /\ watchdog' = mcu_watchdog_note_activity(watchdog, machine,
                         IF c.retry_count = dedup.entries[i].last_retry_count
                         THEN "DUPLICATE" ELSE "RETRY", now)
        /\ dedup' = [dedup EXCEPT !.entries[i].last_retry_count = c.retry_count]
  BY DEF ReplayCommand, Retained
<1>2. UNCHANGED <<machine, quiet, now, timer_at, hw_fed>>
  BY DEF ReplayCommand, BusUnchanged
<1>3. c.retry_count \in Retries
  BY CommandFields
<1>4. WindowInv(dedup')
  BY <1>1, <1>3, ReplayedWindow DEF IInv
<1>5. SafetyInv(machine', watchdog')
  BY <1>1, <1>2, NoteSafety DEF IInv, SafetyInv
<1>6. dedup.entries[i] \in Entries /\ cached_response_is_valid(dedup.entries[i])
  BY <1>1 DEF IInv, WindowInv, Dedups, mcu_command_dedup_is_valid
<1>7. /\ response' \in WireFrames
      /\ frame_is_valid(response')
      /\ response'.kind = "ACK"
  BY <1>1, <1>6, AckFrame
     DEF make_cached_ack, cached_response_is_valid, ordinary_ack_is_valid,
         Entries, NonFaultedModes
<1>8. AnswersAreTruthful'
  BY <1>7 DEF AnswersAreTruthful
<1> QED BY <1>2, <1>4, <1>5, <1>7, <1>8 DEF IInv

\* Dispatching a serially new command preserves the invariant: motion starts
\* watched, and the answer is cached in a valid window.
LEMMA DispatchCommandInv ==
    ASSUME IInv, NEW c \in Commands, DispatchCommand(c)
    PROVE  IInv'
<1> DEFINE t   == dispatch_new_command(machine, c)
           ack == NewCommandAck(c, t)
<1>1. /\ machine' = t.machine
      /\ dedup' = cache_new_result(AfterWrap(dedup, c.command_id), c, ack)
      /\ watchdog' = mcu_watchdog_note_activity(watchdog, t.machine,
                                                "VALID_NEW", now)
      /\ response' = ack
      /\ QuietAfter(TRUE)
      /\ UNCHANGED <<now, timer_at, hw_fed>>
  BY DEF DispatchCommand, BusUnchanged
<1>2. c.opcode \in OrdinaryOpcodes
  BY CommandFields
<1>3. /\ t \in Transitions
      /\ t.result_code = "ACCEPTED" => t.machine.device_mode # "FAULTED"
      /\ machine.state = "FAULT" => t.machine = machine
      /\ machine.state = "SAFE_STOP" => t.machine.state \in {"SAFE_STOP", "FAULT"}
  BY <1>2, CommandStep DEF IInv, SafetyInv
<1> HIDE DEF t
<1>4. t.machine \in Machines /\ mcu_sm_is_valid(t.machine)
  BY <1>3 DEF Transitions
<1>5. SafetyInv(machine', watchdog')
  BY <1>1, <1>3, <1>4, NoteSafety DEF IInv
<1>6. /\ ack \in WireFrames
      /\ frame_is_valid(ack)
      /\ ordinary_ack_is_valid(ack)
      /\ ack.kind = "ACK"
  <2>1. t.machine.device_mode \in Modes
    BY <1>4 DEF Machines
  <2>2. CASE t.result_code = "ACCEPTED"
    BY <1>3, <2>1, <2>2, AckFrame DEF NewCommandAck, Results, Faults
  <2>3. CASE t.result_code # "ACCEPTED"
    BY <2>3, AckFrame DEF NewCommandAck, Results, Faults, Modes
  <2> QED BY <2>2, <2>3
<1> HIDE DEF ack
<1>7. ack.result_code \in Results /\ ack.fault_code \in Faults
      /\ ack.device_mode \in Modes
  BY <1>6 DEF WireFrames
<1>8. WindowInv(dedup')
  BY <1>1, <1>6, <1>7, CachedWindow DEF IInv, DispatchCommand
<1>9. AnswersAreTruthful'
  BY <1>1, <1>6 DEF AnswersAreTruthful
<1>10. quiet' \in 0..QuietLimit
  BY <1>1, QuietType DEF IInv
<1> QED BY <1>1, <1>5, <1>6, <1>8, <1>9, <1>10 DEF IInv

\* The timer interrupt (poll, feed, re-arm) preserves the invariant.
LEMMA TimerInterruptInv ==
    ASSUME IInv, TimerInterrupt
    PROVE  IInv'
<1>1. SafetyInv(machine', watchdog')
  BY PollSafety DEF IInv, TimerInterrupt
<1>2. timer_at' \in Times
  BY TimeAfterType, BusAssumption DEF IInv, TimerInterrupt, Times
<1>3. hw_fed' \in BOOLEAN
  BY <1>1 DEF TimerInterrupt, mcu_watchdog_should_feed_hardware
<1>4. response' \in WireFrames /\ response'.kind \notin {"ACK", "STOP_ACK"}
  BY RecordType DEF TimerInterrupt, PolledRecord, Record, clear_frame
<1>5. quiet' \in 0..QuietLimit
  BY QuietType DEF IInv, TimerInterrupt
<1>6. AnswersAreTruthful'
  BY <1>4 DEF AnswersAreTruthful
<1> QED BY <1>1, <1>2, <1>3, <1>4, <1>5, <1>6 DEF IInv, TimerInterrupt

\* The passing of time preserves the invariant.
LEMMA TickInv ==
    ASSUME IInv, Tick
    PROVE  IInv'
<1>1. now' \in Times
  BY TimeAfterType DEF IInv, Tick, Times
<1>2. quiet' \in 0..QuietLimit
  BY TimeAssumption, BusAssumption DEF IInv, Tick, QuietLimit
<1>3. response' \in WireFrames /\ AnswersAreTruthful'
  BY SilentStep DEF Tick
<1> QED BY <1>1, <1>2, <1>3 DEF IInv, Tick

\* Completion of a motion, the session gate and the clearing of causes
\* preserve the invariant.
LEMMA OwnerCallInv ==
    ASSUME IInv, CompleteMotion \/ OpenSession \/ CloseSession \/ MarkCausesCleared
    PROVE  IInv'
<1>1. response' \in WireFrames /\ AnswersAreTruthful'
  BY SilentStep DEF CompleteMotion, OpenSession, CloseSession, MarkCausesCleared
<1>2. CASE CompleteMotion
  <2>1. machine' = IF machine.state = "EXECUTING" THEN enter_idle ELSE machine
    BY <1>2, CompleteStep DEF CompleteMotion, IInv, SafetyInv
  <2>2. SafetyInv(machine', watchdog')
    BY <1>2, <2>1 DEF CompleteMotion, IInv, SafetyInv, enter_idle,
       mcu_sm_is_valid, Machines, States, Modes, Faults
  <2>3. quiet' \in 0..QuietLimit
    BY <1>2, QuietType DEF CompleteMotion, IInv
  <2> QED BY <1>1, <1>2, <2>2, <2>3 DEF CompleteMotion, IInv, BusUnchanged
<1>3. CASE OpenSession
  BY <1>1, <1>3, ClearedWindow DEF OpenSession, IInv, BusUnchanged
<1>4. CASE CloseSession
  BY <1>1, <1>4, ClearedWindow DEF CloseSession, IInv, BusUnchanged
<1>5. CASE MarkCausesCleared
  <2>1. SafetyInv(machine', watchdog')
    BY <1>5 DEF MarkCausesCleared, mcu_watchdog_mark_causes_cleared, IInv,
       SafetyInv, Watchdogs, mcu_watchdog_is_valid, PendingAckIsCached
  <2> QED BY <1>1, <1>5, <2>1 DEF MarkCausesCleared, IInv, BusUnchanged
<1> QED BY <1>2, <1>3, <1>4, <1>5

\* A reset request, accepted or not, preserves the invariant.
LEMMA RequestResetInv ==
    ASSUME IInv, NEW a \in BOOLEAN, NEW cleared \in BOOLEAN, RequestReset(a, cleared)
    PROVE  IInv'
<1> DEFINE t == mcu_sm_dispatch(machine, ResetEvent(watchdog, a, cleared))
<1>1. /\ machine' = t.machine
      /\ watchdog' = IF t.result_code = "ACCEPTED"
                     THEN AfterReset(watchdog) ELSE watchdog
      /\ UNCHANGED <<dedup, now, timer_at, hw_fed>>
  BY DEF RequestReset, BusUnchanged
<1>2. \/ t = Accept(enter_idle, "NONE")
      \/ t = Reject(machine, "NONE")
      \/ machine.state = "EXECUTING" /\ t = FailClosed(machine)
  BY ResetStep DEF IInv, SafetyInv
<1>3. clear_frame \in WireFrames
  BY RecordType
<1> HIDE DEF t
<1>4. SafetyInv(machine', watchdog')
  <2>1. CASE t = Accept(enter_idle, "NONE")
    BY <1>1, <1>3, <2>1 DEF Accept, enter_idle, AfterReset, IInv, SafetyInv,
       Watchdogs, mcu_watchdog_is_valid, PendingAckIsCached, mcu_sm_is_valid,
       Machines, States, Modes, Faults
  <2>2. CASE t = Reject(machine, "NONE")
    BY <1>1, <2>2 DEF Reject, IInv
  <2>3. CASE machine.state = "EXECUTING" /\ t = FailClosed(machine)
    <3>1. /\ machine' \in Machines
          /\ mcu_sm_is_valid(machine')
          /\ machine'.state = "FAULT"
          /\ watchdog' = watchdog
      BY <1>1, <2>3, FailClosedStep DEF IInv, SafetyInv, FailClosed, Reject,
         enter_fault, Transitions
    <3> QED BY <3>1 DEF IInv, SafetyInv
  <2> QED BY <1>2, <2>1, <2>2, <2>3
<1>5. quiet' \in 0..QuietLimit
  BY QuietType DEF RequestReset, IInv
<1>6. response' \in WireFrames /\ AnswersAreTruthful'
  BY SilentStep DEF RequestReset
<1> QED BY <1>1, <1>4, <1>5, <1>6 DEF IInv

\* The initial state, which a reboot restores, satisfies the invariant.
LEMMA InitInv == Init => IInv
<1> SUFFICES ASSUME Init PROVE IInv
  OBVIOUS
<1>1. SafetyInv(machine, watchdog) /\ WindowInv(dedup)
  BY InitSafety, ClearedWindow DEF Init, mcu_command_dedup_init
<1>2. now \in Times /\ timer_at \in Times
  BY TimeAfterType, TimeAssumption, BusAssumption DEF Init, Times
<1>3. quiet \in 0..QuietLimit /\ hw_fed \in BOOLEAN
  BY TimeAssumption, BusAssumption DEF Init, QuietLimit
<1>4. response \in WireFrames /\ response.kind = "NONE"
  BY RecordType DEF Init, NoResponse, Record, clear_frame
<1> QED BY <1>1, <1>2, <1>3, <1>4 DEF IInv, AnswersAreTruthful

\* Every step of the node preserves the invariant.
LEMMA NextInv == IInv /\ [Next]_vars => IInv'
<1> SUFFICES ASSUME IInv, [Next]_vars PROVE IInv'
  OBVIOUS
<1>1. CASE RejectFrame \/ SessionClosed
  BY <1>1, SilentStep DEF RejectFrame, SessionClosed, IInv, BusUnchanged
<1>2. ASSUME NEW s \in StopFrames, NEW hal \in BOOLEAN,
             RefuseStop(s) \/ ReplayStop(s, hal) \/ DispatchStop(s, hal)
      PROVE  IInv'
  <2>1. CASE RefuseStop(s)
    BY <2>1, SilentStep DEF RefuseStop, IInv, BusUnchanged
  <2> QED BY <1>2, <2>1, ReplayStopInv, DispatchStopInv
<1>3. ASSUME NEW c \in Commands,
             \/ RejectConflict(c) \/ RejectRetry(c) \/ RejectStale(c)
             \/ ReplayCommand(c) \/ DispatchCommand(c)
      PROVE  IInv'
  BY <1>3, CorrelationInv, ReplayCommandInv, DispatchCommandInv
     DEF RejectConflict, RejectRetry, RejectStale
<1>4. CASE TimerInterrupt
  BY <1>4, TimerInterruptInv
<1>5. CASE Tick
  BY <1>5, TickInv
<1>6. CASE Owner
  BY <1>6, OwnerCallInv, RequestResetInv DEF Owner
<1>7. CASE Reboot
  <2>1. SafetyInv(machine', watchdog') /\ WindowInv(dedup')
    BY <1>7, InitSafety, ClearedWindow DEF Reboot, mcu_command_dedup_init
  <2>2. now' \in Times /\ timer_at' \in Times
    BY <1>7, TimeAfterType, TimeAssumption, BusAssumption DEF Reboot, Times
  <2>3. quiet' \in 0..QuietLimit /\ hw_fed' \in BOOLEAN
    BY <1>7, TimeAssumption, BusAssumption DEF Reboot, QuietLimit
  <2>4. response' \in WireFrames /\ AnswersAreTruthful'
    BY <1>7, SilentStep DEF Reboot
  <2> QED BY <2>1, <2>2, <2>3, <2>4 DEF IInv
<1>8. CASE UNCHANGED vars
  BY <1>8 DEF vars, IInv, AnswersAreTruthful
<1> QED
  BY <1>1, <1>2, <1>3, <1>4, <1>5, <1>6, <1>7, <1>8
     DEF Next, ReceiveStop, ReceiveCommand

\* The inductive invariant holds in every reachable state.
THEOREM InvariantHolds == Spec => []IInv
  BY InitInv, NextInv, PTL DEF Spec

\* IInv gives the properties the runs check.
LEMMA InvConsequences ==
    IInv => /\ TypeOK
            /\ DependenciesValid
            /\ ExecutionIsWatched
            /\ StopHolds
            /\ AnswersAreTruthful
  BY DEF IInv, SafetyInv, WindowInv, TypeOK, DependenciesValid,
     ExecutionIsWatched, StopHolds

\* Type correctness for every clock, timeout, serial range, window and bus.
THEOREM TypeCorrect == Spec => []TypeOK
  BY InvariantHolds, InvConsequences, PTL

\* The is_valid check at the head of every entry point of the core never
\* fails: no call sequence corrupts the machine, the watchdog or the window.
THEOREM DependenciesStayValid == Spec => []DependenciesValid
  BY InvariantHolds, InvConsequences, PTL

\* A node that executes always has an armed link watchdog and no latched
\* timing cause.
THEOREM MotionIsSupervised == Spec => []ExecutionIsWatched
  BY InvariantHolds, InvConsequences, PTL

\* From an accepted STOP to its confirmation, and while a STOP timeout is
\* latched, the machine is in SAFE_STOP or FAULT.
THEOREM StopAlwaysHolds == Spec => []StopHolds
  BY InvariantHolds, InvConsequences, PTL

\* Every answer of the bridge can be encoded, and a STOP_ACK is given only by
\* a machine in SAFE_STOP or FAULT.
THEOREM AnswersStayTruthful == Spec => []AnswersAreTruthful
  BY InvariantHolds, InvConsequences, PTL

-----------------------------------------------------------------------------
(* What a step may never do.                                               *)

\* Every step of the machine, with the operation it takes.
LEMMA MachineSteps ==
    ASSUME IInv, Next
    PROVE  \/ machine' = machine
           \/ machine.state # "FAULT" /\ machine'.state \in {"SAFE_STOP", "FAULT"}
           \/ machine.state = "EXECUTING" /\ machine'.state = "IDLE"
           \/ Reboot
           \/ /\ RequestReset(TRUE, TRUE) /\ ~live_cause(watchdog)
              /\ machine'.state = "IDLE"
           \/ \E c \in Commands : /\ DispatchCommand(c)
                                  /\ machine.state = "IDLE"
                                  /\ machine'.state = "EXECUTING"
<1>1. machine \in Machines /\ mcu_sm_is_valid(machine)
  BY DEF IInv, SafetyInv
<1>2. ASSUME NEW s \in StopFrames, NEW hal \in BOOLEAN, DispatchStop(s, hal)
      PROVE  \/ machine' = machine
             \/ machine.state # "FAULT" /\ machine'.state \in {"SAFE_STOP", "FAULT"}
  BY <1>1, <1>2, StopAckFrame DEF DispatchStop
<1>3. ASSUME NEW c \in Commands, NEW activity, reject_correlation(c, activity)
      PROVE  machine' = machine \/ (machine.state # "FAULT" /\ machine'.state = "FAULT")
  BY <1>1, <1>3, DuplicateFaultStep DEF reject_correlation
<1>4. ASSUME NEW c \in Commands, DispatchCommand(c)
      PROVE  \/ machine' = machine
             \/ machine.state # "FAULT" /\ machine'.state \in {"SAFE_STOP", "FAULT"}
             \/ machine.state = "IDLE" /\ machine'.state = "EXECUTING"
  <2> DEFINE t == mcu_sm_dispatch(machine, Event(opcode_to_event(c.opcode)))
  <2>1. machine' = t.machine
    BY <1>4 DEF DispatchCommand, dispatch_new_command
  <2>2. opcode_to_event(c.opcode) \in {"BEGIN_HOLD", "HEARTBEAT", "BEGIN_MOVE"}
    BY Zenon DEF opcode_to_event
  <2>3. t \in {Heartbeat(machine), BeginMotion(machine, "MOVING"),
               BeginMotion(machine, "HOLDING")}
    BY <1>1, <2>2, DispatchBranch DEF Event
  <2> HIDE DEF t
  <2> QED
    BY <1>1, <2>1, <2>3 DEF Heartbeat, BeginMotion, FailClosed, enter_fault,
       enter_executing, Accept, Reject, mcu_sm_is_valid, active_fault_is_valid,
       Machines, States
<1>5. TimerInterrupt =>
        machine' = machine \/ (machine.state # "FAULT" /\ machine'.state = "FAULT")
  <2>1. mcu_sm_dispatch(machine, Event("WATCHDOG_EXPIRED")).machine =
          enter_fault(machine, "WATCHDOG_EXPIRED")
    BY <1>1, DispatchBranch DEF Event, Accept
  <2>2. TimerInterrupt => machine' = PolledMachine(watchdog, machine, now)
    BY Zenon DEF TimerInterrupt
  <2>3. \/ PolledMachine(watchdog, machine, now) = machine
        \/ /\ machine.state = "EXECUTING"
           /\ PolledMachine(watchdog, machine, now) =
                enter_fault(machine, "WATCHDOG_EXPIRED")
    BY <2>1 DEF PolledMachine, LinkExpired
  <2>4. enter_fault(machine, "WATCHDOG_EXPIRED").state = "FAULT"
    BY DEF enter_fault
  <2> QED BY <2>2, <2>3, <2>4
<1>6. CompleteMotion =>
        machine' = machine \/ (machine.state = "EXECUTING" /\ machine'.state = "IDLE")
  <2>1. mcu_sm_dispatch(machine, Event("COMPLETE")).machine =
          IF machine.state = "EXECUTING" THEN enter_idle ELSE machine
    BY <1>1, CompleteStep
  <2>2. CompleteMotion =>
          machine' = mcu_sm_dispatch(machine, Event("COMPLETE")).machine
    BY Zenon DEF CompleteMotion
  <2>3. enter_idle.state = "IDLE"
    BY DEF enter_idle
  <2> QED BY <2>1, <2>2, <2>3
<1>7. ASSUME NEW a \in BOOLEAN, NEW cleared \in BOOLEAN, RequestReset(a, cleared)
      PROVE  \/ machine' = machine
             \/ machine.state # "FAULT" /\ machine'.state = "FAULT"
             \/ /\ RequestReset(TRUE, TRUE) /\ ~live_cause(watchdog)
                /\ machine'.state = "IDLE"
  <2> DEFINE t == mcu_sm_dispatch(machine, ResetEvent(watchdog, a, cleared))
  <2>1. machine' = t.machine
    BY <1>7 DEF RequestReset
  <2>2. \/ /\ a /\ cleared /\ ~live_cause(watchdog)
           /\ t = Accept(enter_idle, "NONE")
        \/ t = Reject(machine, "NONE")
        \/ machine.state = "EXECUTING" /\ t = FailClosed(machine)
    BY <1>1, ResetStep
  <2> HIDE DEF t
  <2>3. CASE a /\ cleared /\ ~live_cause(watchdog) /\ t = Accept(enter_idle, "NONE")
    <3>1. a = TRUE /\ cleared = TRUE
      BY <2>3
    <3>2. RequestReset(TRUE, TRUE)
      BY <1>7, <3>1
    <3> QED BY <2>1, <2>3, <3>2 DEF Accept, enter_idle
  <2>4. CASE t = Reject(machine, "NONE")
    BY <2>1, <2>4 DEF Reject
  <2>5. CASE machine.state = "EXECUTING" /\ t = FailClosed(machine)
    BY <2>1, <2>5 DEF FailClosed, Reject, enter_fault
  <2> QED BY <2>2, <2>3, <2>4, <2>5
<1>8. ASSUME \/ RejectFrame \/ SessionClosed \/ Tick \/ OpenSession
             \/ CloseSession \/ MarkCausesCleared
             \/ \E s \in StopFrames, hal \in BOOLEAN :
                   RefuseStop(s) \/ ReplayStop(s, hal)
             \/ \E c \in Commands : ReplayCommand(c)
      PROVE  machine' = machine
  BY <1>8 DEF RejectFrame, SessionClosed, Tick, OpenSession, CloseSession,
     MarkCausesCleared, RefuseStop, ReplayStop, ReplayCommand
<1> QED
  BY <1>2, <1>3, <1>4, <1>5, <1>6, <1>7, <1>8
     DEF Next, ReceiveStop, ReceiveCommand, Owner, RejectConflict, RejectRetry,
         RejectStale

\* A latched fault, cause included, is left only by an authorized reset with
\* no live timing cause, or by a reboot.
THEOREM FaultStaysLatched == Spec => FaultIsLatched
<1>1. IInv /\ [Next]_vars =>
        [machine.state = "FAULT" =>
            \/ machine' = machine
            \/ Reboot
            \/ RequestReset(TRUE, TRUE) /\ ~live_cause(watchdog)]_vars
  BY MachineSteps
<1> QED BY <1>1, InvariantHolds, PTL DEF Spec, FaultIsLatched

\* No command, replayed or new, resumes motion after a stop.
THEOREM StopStaysFinal == Spec => StopIsFinal
<1>1. IInv /\ [Next]_vars =>
        [machine.state = "SAFE_STOP" =>
            \/ machine'.state \in {"SAFE_STOP", "FAULT"}
            \/ Reboot
            \/ RequestReset(TRUE, TRUE) /\ ~live_cause(watchdog)]_vars
  BY MachineSteps
<1> QED BY <1>1, InvariantHolds, PTL DEF Spec, StopIsFinal

\* Motion starts only from IDLE, in an open session, by a command that is
\* serially new in that session.
THEOREM MotionStartsWithNewCommand == Spec => MotionNeedsNewCommand
<1> DEFINE A == machine.state # "EXECUTING" /\ machine'.state = "EXECUTING" =>
                   /\ machine.state = "IDLE"
                   /\ dedup.session_open
                   /\ dedup'.has_last_accepted
                   /\ dedup.has_last_accepted =>
                        (dedup'.last_accepted_id - dedup.last_accepted_id)
                            % CommandIdModulus \in 1..(SerialHalfRange - 1)
<1>1. IInv /\ [Next]_vars => [A]_vars
  <2> SUFFICES ASSUME IInv, Next, machine.state # "EXECUTING",
                      machine'.state = "EXECUTING"
               PROVE  A
    OBVIOUS
  <2>1. PICK c \in Commands : DispatchCommand(c) /\ machine.state = "IDLE"
    <3>1. Reboot => machine'.state = "IDLE"
      BY DEF Reboot, mcu_sm_init, enter_idle
    <3> QED BY <3>1, MachineSteps
  <2>2. /\ dedup.session_open
        /\ dedup.has_last_accepted => SeriallyNew(dedup, c.command_id)
    BY <2>1 DEF DispatchCommand, IsNew
  <2>3. c.command_id \in CommandIds
    BY CommandFields
  <2>4. AfterWrap(dedup, c.command_id) \in Dedups
    BY <2>1, <2>2, <2>3, NewIdIsAhead DEF IInv, DispatchCommand
  <2>5. dedup'.has_last_accepted /\ dedup'.last_accepted_id = c.command_id
    BY <2>1, <2>4 DEF DispatchCommand, cache_new_result, Dedups
  <2>6. dedup.last_accepted_id \in Int /\ c.command_id \in Int
    BY <2>3 DEF IInv, WindowInv, Dedups, CommandIds
  <2>7. dedup.has_last_accepted =>
          (c.command_id - dedup.last_accepted_id) % CommandIdModulus
              \in 1..(SerialHalfRange - 1)
    BY <2>2, <2>6, CommandIdAssumption DEF SeriallyNew, serial_delta, SerialHalfRange
  <2> QED BY <2>1, <2>2, <2>5, <2>7
<1> QED BY <1>1, InvariantHolds, PTL DEF Spec, MotionNeedsNewCommand

\* No operation of the watchdog but a serially new command moves the link
\* deadline, and none moves the deadline of a STOP that stays pending.
LEMMA DeadlineSteps ==
    ASSUME IInv, Next
    PROVE  /\ \/ watchdog'.link_deadline_us = watchdog.link_deadline_us
              \/ Reboot
              \/ \E c \in Commands : DispatchCommand(c)
           /\ watchdog.stop_ack_pending /\ watchdog'.stop_ack_pending =>
                  watchdog'.stop_deadline_us = watchdog.stop_deadline_us
<1> DEFINE Kept == /\ watchdog'.link_deadline_us = watchdog.link_deadline_us
                   /\ watchdog.stop_ack_pending /\ watchdog'.stop_ack_pending =>
                        watchdog'.stop_deadline_us = watchdog.stop_deadline_us
<1>1. watchdog \in Watchdogs
  BY DEF IInv, SafetyInv
<1>2. ASSUME NEW s \in StopFrames, NEW hal \in BOOLEAN,
             ReplayStop(s, hal) \/ DispatchStop(s, hal)
      PROVE  Kept
  <2>1. CASE ReplayStop(s, hal)
    BY <1>1, <2>1 DEF ReplayStop, Respond, replay_pending_stop_ack,
       mcu_watchdog_confirm_stop_ack, Watchdogs
  <2>2. CASE DispatchStop(s, hal)
    BY <1>1, <2>2 DEF DispatchStop, Respond, StopDispatched,
       mcu_watchdog_confirm_stop_ack, Watchdogs
  <2> QED BY <1>2, <2>1, <2>2
<1>3. ASSUME NEW m, NEW activity, activity # "VALID_NEW",
             watchdog' = mcu_watchdog_note_activity(watchdog, m, activity, now)
      PROVE  Kept
  BY <1>1, <1>3 DEF mcu_watchdog_note_activity, Watchdogs
<1>4. ASSUME NEW c \in Commands,
             \/ RejectConflict(c) \/ RejectRetry(c) \/ RejectStale(c)
             \/ ReplayCommand(c)
      PROVE  Kept
  BY <1>3, <1>4 DEF RejectConflict, RejectRetry, RejectStale, ReplayCommand,
     reject_correlation
<1>5. ASSUME NEW c \in Commands, DispatchCommand(c)
      PROVE  watchdog'.stop_deadline_us = watchdog.stop_deadline_us
  BY <1>1, <1>5 DEF DispatchCommand, mcu_watchdog_note_activity, Watchdogs
<1>6. TimerInterrupt => Kept
  BY <1>1 DEF TimerInterrupt, PolledWatchdog, Watchdogs
<1>7. ASSUME NEW a \in BOOLEAN, NEW cleared \in BOOLEAN, RequestReset(a, cleared)
      PROVE  Kept
  BY <1>1, <1>7 DEF RequestReset, AfterReset, Watchdogs
<1>8. MarkCausesCleared => Kept
  BY <1>1 DEF MarkCausesCleared, mcu_watchdog_mark_causes_cleared, Watchdogs
<1>9. Reboot => ~watchdog'.stop_ack_pending
  BY DEF Reboot, mcu_watchdog_init
<1>10. ASSUME \/ RejectFrame \/ SessionClosed \/ Tick \/ CompleteMotion
              \/ OpenSession \/ CloseSession
              \/ \E s \in StopFrames : RefuseStop(s)
       PROVE  Kept
  BY <1>10 DEF RejectFrame, SessionClosed, Tick, CompleteMotion, OpenSession,
     CloseSession, RefuseStop
<1> QED
  BY <1>2, <1>4, <1>5, <1>6, <1>7, <1>8, <1>9, <1>10
     DEF Next, ReceiveStop, ReceiveCommand, Owner

\* Retries, duplicates, stale and refused frames never extend a deadline.
THEOREM DeadlinesStayPut == Spec => DeadlinesNotExtended
<1>1. IInv /\ [Next]_vars =>
        [/\ \/ watchdog'.link_deadline_us = watchdog.link_deadline_us
            \/ Reboot
            \/ \E c \in Commands : DispatchCommand(c)
         /\ watchdog.stop_ack_pending /\ watchdog'.stop_ack_pending =>
                watchdog'.stop_deadline_us = watchdog.stop_deadline_us]_vars
  BY DeadlineSteps
<1> QED BY <1>1, InvariantHolds, PTL DEF Spec, DeadlinesNotExtended

=============================================================================
