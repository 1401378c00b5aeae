----------------------------- MODULE SafeCanBus -----------------------------
(***************************************************************************)
(* The host's CAN protocol: SafeCANBus of                                  *)
(* libs/hardware/workbench/hardware/can_driver_safe.py, hosted by a        *)
(* DeviceRuntime whose worker has started.                                 *)
(*                                                                         *)
(* Every `with self._runtime.lock` block is one step.  The calls of the    *)
(* transport (send, receive, recover) and of the subscribers run outside   *)
(* the lock, so callers of send, recover and shutdown interleave with a    *)
(* poll at each of them.  The bus is the most general one: any answer may  *)
(* arrive at any time.                                                     *)
(*                                                                         *)
(* Abstractions: a deadline is a flag that time raises (expired); the      *)
(* opcode of a correlation key is dropped, an id in use being refused      *)
(* whatever its opcode; of a telemetry frame only the verdict of its       *)
(* sequence check and its fault matter; diagnostics are left out.          *)
(***************************************************************************)
EXTENDS Integers, Sequences, FiniteSets, SequencesExt

CONSTANTS
    CommandIds,           \* ids of the ordinary commands callers send
    StopIdCount,          \* STOP ids are 0x8000 .. 0x8000 + StopIdCount - 1
    FirstRetries,         \* retry_count a caller may put into a frame
    RetryMax,             \* 0xFF
    AckRetryBudget,       \* ack_retry_budget
    StopRetryBudget,      \* stop_retry_budget
    BackpressureBudget,   \* transport_backpressure_budget
    QueueCapacity,        \* queue_capacity
    CorrelationCapacity,  \* correlation_capacity
    Recoverers,           \* threads that call recover()
    None                  \* Python's None

ASSUME BusConfigAssumption ==
    /\ StopIdCount \in Nat \ {0}
    /\ RetryMax \in Nat
    /\ FirstRetries \subseteq 0..RetryMax
    /\ {AckRetryBudget, StopRetryBudget, BackpressureBudget} \subseteq Nat
    /\ {QueueCapacity, CorrelationCapacity} \subseteq Nat \ {0}

VARIABLES
    runtime,          \* DeviceRuntime._state, from ACTIVE on
    link,             \* _state, a CanLinkState
    queue,            \* the runtime's command plane
    pending_command,  \* _pending_command
    pending_stop,     \* _pending_stop
    dispatching,      \* _dispatching
    backpressure,     \* _transport_backpressure_key and _attempts
    completed,        \* _completed in the order of _completed_order
    timed_out,        \* _timed_out in the order of _timed_out_order
    next_stop_id,     \* _next_stop_command_id
    poll,             \* where the worker is in poll()
    sending,          \* the worker's local `dispatch`
    recovering,       \* recover() calls inside transport.recover()
    onwire            \* history: unevicted requests the transport accepted

protocol == <<queue, pending_command, pending_stop, dispatching, backpressure,
              completed, timed_out, next_stop_id>>
vars     == <<runtime, link, protocol, poll, sending, recovering, onwire>>

-----------------------------------------------------------------------------
StopIds    == 0..(StopIdCount - 1)
Kinds      == {"COMMAND", "STOP"}
LinkStates == {"ACTIVE", "STOPPING", "SAFE_STOPPED", "LINK_LOST", "BUS_OFF",
               "SHUTDOWN"}
Lost       == {"LINK_LOST", "BUS_OFF"}
Polling    == {"idle", "entering", "sending", "receiving", "delivering",
               "raising"}

Frames ==
    [kind : {"COMMAND"}, id : CommandIds, retry : 0..RetryMax]
        \cup [kind : {"STOP"}, id : StopIds, retry : 0..RetryMax]

Frame(kind, id, retry)  == [kind |-> kind, id |-> id, retry |-> retry]
FrameOf(x)              == Frame(x.kind, x.id, x.retry)
KeyOf(x)                == <<x.kind, x.id>>
Dispatch(f, is_retry)   == [kind |-> f.kind, id |-> f.id, retry |-> f.retry,
                            is_retry |-> is_retry]
Budget(kind)            == IF kind = "STOP" THEN StopRetryBudget
                                            ELSE AckRetryBudget

NoBackpressure == [key |-> None, attempts |-> 0]

Init ==
    /\ runtime = "ACTIVE"
    /\ link = "ACTIVE"
    /\ queue = <<>>
    /\ pending_command = None
    /\ pending_stop = None
    /\ dispatching = None
    /\ backpressure = NoBackpressure
    /\ completed = <<>>
    /\ timed_out = <<>>
    /\ next_stop_id = 0
    /\ poll = "idle"
    /\ sending = None
    /\ recovering = [r \in Recoverers |-> FALSE]
    /\ onwire = {}

-----------------------------------------------------------------------------
(* The bounded correlation windows.                                        *)

Entry(request) ==
    [kind |-> request.kind, id |-> request.id, sent |-> request.sent]

\* _remember_correlation_locked: the newest entry per key, oldest evicted.
remember_correlation(window, request) ==
    LET Other(e) == KeyOf(e) # KeyOf(request)
        grown    == Append(SelectSeq(window, Other), Entry(request))
    IN  IF Len(grown) > CorrelationCapacity THEN Tail(grown) ELSE grown

\* The keys that drop out of a window.
Evicted(window, window2) ==
    {KeyOf(e) : e \in Range(window)} \ {KeyOf(e) : e \in Range(window2)}

Requests(x) == IF x = None THEN {} ELSE {x}

\* _correlation_id_in_use_locked, over the live frames and both windows.
correlation_id_in_use(kind, id, live, windows) ==
    \E x \in live \cup windows : KeyOf(x) = <<kind, id>>

InUse(kind, id) ==
    correlation_id_in_use(kind, id,
        Range(queue) \cup Requests(dispatching) \cup Requests(pending_command)
            \cup Requests(pending_stop),
        Range(completed) \cup Range(timed_out))

-----------------------------------------------------------------------------
(* send(): admission into the command plane, atomic under the lock.  A     *)
(* refused frame changes nothing.                                          *)

SendCommand(f) ==
    /\ f.kind = "COMMAND"
    /\ runtime = "ACTIVE"
    /\ link = "ACTIVE"
    /\ ~InUse(f.kind, f.id)
    /\ Len(queue) < QueueCapacity
    /\ queue' = Append(queue, f)
    /\ UNCHANGED <<runtime, link, pending_command, pending_stop, dispatching,
                   backpressure, completed, timed_out, next_stop_id, poll,
                   sending, recovering, onwire>>

mut_StopOutstanding ==
    \E x \in Range(queue) \cup Requests(dispatching) : x.kind = "STOP"

StopOutstanding ==
    \/ pending_stop # None
    \/ dispatching # None /\ dispatching.kind = "STOP"
    \/ \E f \in Range(queue) : f.kind = "STOP"

mut_Preempted == Requests(pending_command)

\* The ordinary request a STOP puts aside, with every attempt that was or is
\* being sent.
Preempted ==
    LET in_flight == {d \in Requests(dispatching) : d.kind = "COMMAND"}
        retries   == {d.retry : d \in in_flight}
    IN  IF pending_command # None
        THEN {[pending_command EXCEPT !.sent = @ \cup retries]}
        ELSE {[kind |-> d.kind, id |-> d.id, sent |-> {d.retry}] : d \in in_flight}

\* requests holds at most one request.
RememberAny(window, requests) ==
    IF requests = {} THEN window
    ELSE remember_correlation(window, CHOOSE r \in requests : TRUE)

\* send() of a STOP: _preempt_for_stop_locked, then the STOP alone is queued.
\* Only an ordinary command can be in flight here, and it is disowned.
SendStop(f) ==
    /\ f.kind = "STOP"
    /\ runtime = "ACTIVE"
    /\ link \in {"ACTIVE", "STOPPING"}
    /\ ~StopOutstanding
    /\ ~InUse(f.kind, f.id)
    /\ timed_out' = RememberAny(timed_out, Preempted)
    /\ onwire' = onwire \ Evicted(timed_out, timed_out')
    /\ pending_command' = None
    /\ dispatching' = None
    /\ backpressure' = NoBackpressure
    /\ link' = "STOPPING"
    /\ queue' = <<f>>
    /\ UNCHANGED <<runtime, pending_stop, completed, next_stop_id, poll,
                   sending, recovering>>

-----------------------------------------------------------------------------
(* _handle_transport_error: everything in hand is dropped, the requests    *)
(* that await an answer are remembered as timed out.                       *)

mut_LinkAfter(error) == error

LinkAfter(error) == IF link = "SHUTDOWN" THEN link ELSE error

TimedOutByError ==
    RememberAny(RememberAny(timed_out, Requests(pending_command)),
                Requests(pending_stop))

handle_transport_error(error) ==
    /\ timed_out' = TimedOutByError
    /\ onwire' = onwire \ Evicted(timed_out, timed_out')
    /\ pending_command' = None
    /\ pending_stop' = None
    /\ dispatching' = None
    /\ backpressure' = NoBackpressure
    /\ queue' = <<>>
    /\ link' = LinkAfter(error)
    /\ UNCHANGED <<completed, next_stop_id>>

-----------------------------------------------------------------------------
(* poll(): one transport cycle of the worker.                              *)

\* service_once: the lifecycle check, before poll() takes the lock again.
EnterPoll ==
    /\ poll = "idle"
    /\ runtime = "ACTIVE"
    /\ poll' = "entering"
    /\ UNCHANGED <<runtime, link, protocol, sending, recovering, onwire>>

Serving == poll = "entering" /\ link \in {"ACTIVE", "STOPPING"}

\* The link is down or stopped: poll() returns without touching the port.
LeavePoll ==
    /\ poll = "entering"
    /\ link \notin {"ACTIVE", "STOPPING"}
    /\ poll' = "idle"
    /\ UNCHANGED <<runtime, link, protocol, sending, recovering, onwire>>

StartSending(d) ==
    /\ dispatching' = d
    /\ sending' = d
    /\ poll' = "sending"

mut_CanRetry(p) == p.used <= Budget(p.kind) /\ p.retry < RetryMax

CanRetry(p) == p.used < Budget(p.kind) /\ p.retry < RetryMax

\* The request _next_dispatch_locked looks at first.
Pending == IF pending_stop # None THEN pending_stop ELSE pending_command

\* An expired request with budget left is sent again, one retry_count up.
RetryPending ==
    /\ Serving
    /\ Pending # None
    /\ Pending.expired
    /\ CanRetry(Pending)
    /\ StartSending(Dispatch([FrameOf(Pending) EXCEPT !.retry = @ + 1], TRUE))
    /\ UNCHANGED <<runtime, link, queue, pending_command, pending_stop,
                   backpressure, completed, timed_out, next_stop_id,
                   recovering, onwire>>

\* An expired STOP without budget: the link is lost, then poll() receives.
StopTimesOut ==
    /\ Serving
    /\ pending_stop # None
    /\ pending_stop.expired
    /\ ~CanRetry(pending_stop)
    /\ timed_out' = remember_correlation(timed_out, pending_stop)
    /\ onwire' = onwire \ Evicted(timed_out, timed_out')
    /\ pending_stop' = None
    /\ queue' = <<>>
    /\ link' = "LINK_LOST"
    /\ poll' = "receiving"
    /\ UNCHANGED <<runtime, pending_command, dispatching, backpressure,
                   completed, next_stop_id, sending, recovering>>

StopIdAfter(n) == (next_stop_id + n) % StopIdCount

\* _new_stop_frame_locked: the tries that find a free STOP id, once the
\* command's timeout has been remembered in window.
FreeTries(window) ==
    {n \in 0..CorrelationCapacity :
        ~correlation_id_in_use("STOP", StopIdAfter(n), {},
                               Range(completed) \cup Range(window))}

CommandExpired ==
    /\ Serving
    /\ pending_stop = None
    /\ pending_command # None
    /\ pending_command.expired
    /\ ~CanRetry(pending_command)

\* An expired command without budget: a STOP of the driver's own follows in
\* the same step.
CommandTimesOut ==
    /\ CommandExpired
    /\ timed_out' = remember_correlation(timed_out, pending_command)
    /\ onwire' = onwire \ Evicted(timed_out, timed_out')
    /\ \E n \in FreeTries(timed_out') :
          /\ \A m \in FreeTries(timed_out') : n <= m
          /\ next_stop_id' = StopIdAfter(n + 1)
          /\ StartSending(Dispatch(Frame("STOP", StopIdAfter(n), 0), FALSE))
    /\ pending_command' = None
    /\ queue' = <<>>
    /\ link' = "STOPPING"
    /\ UNCHANGED <<runtime, pending_stop, backpressure, completed, recovering>>

\* Every tried id is retained: _new_stop_frame_locked raises out of poll(),
\* which releases the lock.
StopIdsExhausted ==
    /\ CommandExpired
    /\ timed_out' = remember_correlation(timed_out, pending_command)
    /\ onwire' = onwire \ Evicted(timed_out, timed_out')
    /\ FreeTries(timed_out') = {}
    /\ next_stop_id' = StopIdAfter(CorrelationCapacity + 1)
    /\ pending_command' = None
    /\ queue' = <<>>
    /\ poll' = "raising"
    /\ UNCHANGED <<runtime, link, pending_stop, dispatching, backpressure,
                   completed, sending, recovering>>

\* service_once hands the exception to on_runtime_error.
OnRuntimeError ==
    /\ poll = "raising"
    /\ handle_transport_error("LINK_LOST")
    /\ poll' = "idle"
    /\ UNCHANGED <<runtime, sending, recovering>>

mut_MayDispatch == pending_stop = None /\ queue # <<>>

MayDispatch == Pending = None /\ queue # <<>>

DispatchQueued ==
    /\ Serving
    /\ MayDispatch
    /\ queue' = Tail(queue)
    /\ StartSending(Dispatch(Head(queue), FALSE))
    /\ UNCHANGED <<runtime, link, pending_command, pending_stop, backpressure,
                   completed, timed_out, next_stop_id, recovering, onwire>>

\* Nothing to send: the answer is not due yet, or there is no request.
NothingToSend ==
    /\ Serving
    /\ IF Pending # None THEN ~Pending.expired ELSE queue = <<>>
    /\ poll' = "receiving"
    /\ UNCHANGED <<runtime, link, protocol, sending, recovering, onwire>>

-----------------------------------------------------------------------------
(* transport.send returns.                                                 *)

Request(d, used, sent) ==
    [kind |-> d.kind, id |-> d.id, retry |-> d.retry, used |-> used,
     sent |-> sent, expired |-> FALSE]

\* _record_dispatch_locked for one of the two pending slots.
Recorded(d, slot) ==
    IF d.is_retry
    THEN Request(d, slot.used + 1, slot.sent \cup {d.retry})
    ELSE Request(d, 0, {d.retry})

\* The attempt is recorded and its deadline starts.
SendRecorded ==
    /\ poll = "sending"
    /\ dispatching = sending
    /\ runtime = "ACTIVE"
    /\ dispatching' = None
    /\ backpressure' = NoBackpressure
    /\ IF sending.kind = "STOP"
       THEN /\ pending_stop' = Recorded(sending, pending_stop)
            /\ link' = "STOPPING"
            /\ UNCHANGED pending_command
       ELSE /\ pending_command' = Recorded(sending, pending_command)
            /\ UNCHANGED <<link, pending_stop>>
    /\ onwire' = onwire \cup {KeyOf(sending)}
    /\ poll' = "receiving"
    /\ sending' = None
    /\ UNCHANGED <<runtime, queue, completed, timed_out, next_stop_id,
                   recovering>>

\* Somebody took the dispatch away meanwhile: nothing is recorded.
SendDisowned ==
    /\ poll = "sending"
    /\ dispatching # sending \/ runtime # "ACTIVE"
    /\ onwire' = onwire \cup {KeyOf(sending)}
    /\ poll' = "idle"
    /\ sending' = None
    /\ UNCHANGED <<runtime, link, protocol, recovering>>

mut_BackpressureAfter(d) == [key |-> FrameOf(d), attempts |-> 1]

BackpressureAfter(d) ==
    LET key == FrameOf(d)
    IN  [key |-> key,
         attempts |-> IF backpressure.key = key THEN backpressure.attempts + 1
                                                ELSE 1]

\* _handle_transport_backpressure, by outcome.
SendBackpressured ==
    /\ poll = "sending"
    /\ poll' = "idle"
    /\ sending' = None
    /\ \/ /\ dispatching = None
          /\ UNCHANGED <<link, protocol, onwire>>
       \/ /\ dispatching # None
          /\ BackpressureAfter(dispatching).attempts > BackpressureBudget
          /\ handle_transport_error("LINK_LOST")
       \/ /\ dispatching # None
          /\ BackpressureAfter(dispatching).attempts <= BackpressureBudget
          /\ backpressure' = BackpressureAfter(dispatching)
          /\ dispatching' = None
          /\ queue' = IF Pending # None THEN queue
                      ELSE <<FrameOf(dispatching)>>
                             \o (IF dispatching.kind = "STOP" THEN <<>> ELSE queue)
          /\ UNCHANGED <<link, pending_command, pending_stop, completed,
                         timed_out, next_stop_id, onwire>>
    /\ UNCHANGED <<runtime, recovering>>

SendFails(error) ==
    /\ poll = "sending"
    /\ handle_transport_error(error)
    /\ poll' = "idle"
    /\ sending' = None
    /\ UNCHANGED <<runtime, recovering>>

-----------------------------------------------------------------------------
(* transport.receive returns.                                              *)

\* A timeout, backpressure, a malformed frame, or any frame once shutdown was
\* requested: nothing changes.
ReceiveNothing ==
    /\ poll = "receiving"
    /\ poll' = "idle"
    /\ UNCHANGED <<runtime, link, protocol, sending, recovering, onwire>>

\* A transport error; a bus-off error frame has the same effect.
ReceiveFails(error) ==
    /\ poll = "receiving"
    /\ handle_transport_error(error)
    /\ poll' = "idle"
    /\ UNCHANGED <<runtime, sending, recovering>>

\* Fresh telemetry; a fault disables the link before subscribers see it.
ReceiveTelemetry(fault) ==
    /\ poll = "receiving"
    /\ runtime = "ACTIVE"
    /\ IF fault THEN handle_transport_error("LINK_LOST")
                ELSE UNCHANGED <<link, protocol, onwire>>
    /\ poll' = "delivering"
    /\ UNCHANGED <<runtime, sending, recovering>>

\* _correlate_received_locked: the answer matches a pending attempt.
Correlates(answer, slot) ==
    /\ slot # None
    /\ KeyOf(answer) = KeyOf(slot)
    /\ answer.retry \in slot.sent

mut_QueueAfterAck(accepted) == queue

\* A rejected command takes the queued ones with it.
QueueAfterAck(accepted) == IF accepted THEN queue ELSE <<>>

ReceiveAck(answer, accepted) ==
    /\ poll = "receiving"
    /\ runtime = "ACTIVE"
    /\ answer.kind = "COMMAND"
    /\ Correlates(answer, pending_command)
    /\ completed' = remember_correlation(completed, pending_command)
    /\ onwire' = onwire \ Evicted(completed, completed')
    /\ pending_command' = None
    /\ queue' = QueueAfterAck(accepted)
    /\ link' = IF accepted THEN link ELSE "LINK_LOST"
    /\ poll' = "delivering"
    /\ UNCHANGED <<runtime, pending_stop, dispatching, backpressure, timed_out,
                   next_stop_id, sending, recovering>>

ReceiveStopAck(answer, accepted) ==
    /\ poll = "receiving"
    /\ runtime = "ACTIVE"
    /\ answer.kind = "STOP"
    /\ Correlates(answer, pending_stop)
    /\ completed' = remember_correlation(completed, pending_stop)
    /\ onwire' = onwire \ Evicted(completed, completed')
    /\ pending_stop' = None
    /\ queue' = <<>>
    /\ link' = IF accepted THEN "SAFE_STOPPED" ELSE "LINK_LOST"
    /\ poll' = "delivering"
    /\ UNCHANGED <<runtime, pending_command, dispatching, backpressure,
                   timed_out, next_stop_id, sending, recovering>>

\* A duplicate, late or uncorrelated answer changes nothing.
ReceiveUnmatched(answer) ==
    /\ poll = "receiving"
    /\ ~Correlates(answer, IF answer.kind = "STOP" THEN pending_stop
                                                   ELSE pending_command)
    /\ poll' = "idle"
    /\ UNCHANGED <<runtime, link, protocol, sending, recovering, onwire>>

\* The subscribers run outside the lock, then the record is published.
Deliver ==
    /\ poll = "delivering"
    /\ poll' = "idle"
    /\ UNCHANGED <<runtime, link, protocol, sending, recovering, onwire>>

\* Time passes beyond the deadline of the request that awaits an answer.
DeadlinePasses ==
    /\ \/ /\ pending_command # None
          /\ ~pending_command.expired
          /\ pending_command' = [pending_command EXCEPT !.expired = TRUE]
          /\ UNCHANGED pending_stop
       \/ /\ pending_stop # None
          /\ ~pending_stop.expired
          /\ pending_stop' = [pending_stop EXCEPT !.expired = TRUE]
          /\ UNCHANGED pending_command
    /\ UNCHANGED <<runtime, link, queue, dispatching, backpressure, completed,
                   timed_out, next_stop_id, poll, sending, recovering, onwire>>

-----------------------------------------------------------------------------
(* recover() and shutdown() of other threads.                              *)

mut_Recoverable == link \in Lost \cup {"SAFE_STOPPED"}

Recoverable == link \in Lost

BeginRecover(r) ==
    /\ ~recovering[r]
    /\ Recoverable
    /\ runtime = "ACTIVE"
    /\ recovering' = [recovering EXCEPT ![r] = TRUE]
    /\ UNCHANGED <<runtime, link, protocol, poll, sending, onwire>>

\* transport.recover() returned False, or the result is no longer wanted.
RecoverWithoutEffect(r) ==
    /\ recovering[r]
    /\ recovering' = [recovering EXCEPT ![r] = FALSE]
    /\ UNCHANGED <<runtime, link, protocol, poll, sending, onwire>>

RecoverFails(r, error) ==
    /\ recovering[r]
    /\ recovering' = [recovering EXCEPT ![r] = FALSE]
    /\ handle_transport_error(error)
    /\ UNCHANGED <<runtime, poll, sending>>

RecoverApplies(r) ==
    /\ recovering[r]
    /\ runtime = "ACTIVE"
    /\ Recoverable
    /\ recovering' = [recovering EXCEPT ![r] = FALSE]
    /\ queue' = <<>>
    /\ pending_command' = None
    /\ pending_stop' = None
    /\ dispatching' = None
    /\ backpressure' = NoBackpressure
    /\ link' = "ACTIVE"
    /\ UNCHANGED <<runtime, completed, timed_out, next_stop_id, poll, sending,
                   onwire>>

\* DeviceRuntime.shutdown, first block: no more admissions, no more polls.
CancelRuntime ==
    /\ runtime = "ACTIVE"
    /\ runtime' = "DEACTIVATING"
    /\ queue' = <<>>
    /\ UNCHANGED <<link, pending_command, pending_stop, dispatching,
                   backpressure, completed, timed_out, next_stop_id, poll,
                   sending, recovering, onwire>>

\* on_runtime_shutdown_requested: no more sends from a poll that runs on.
CancelProtocol ==
    /\ runtime = "DEACTIVATING"
    /\ link # "SHUTDOWN"
    /\ link' = "SHUTDOWN"
    /\ queue' = <<>>
    /\ pending_command' = None
    /\ pending_stop' = None
    /\ dispatching' = None
    /\ backpressure' = NoBackpressure
    /\ UNCHANGED <<runtime, completed, timed_out, next_stop_id, poll, sending,
                   recovering, onwire>>

-----------------------------------------------------------------------------
Callers ==
    \E f \in Frames : f.retry \in FirstRetries /\ (SendCommand(f) \/ SendStop(f))

\* What the worker does next, and what the transport returns to it.
Worker ==
    \/ EnterPoll
    \/ LeavePoll
    \/ RetryPending
    \/ StopTimesOut
    \/ CommandTimesOut
    \/ StopIdsExhausted
    \/ OnRuntimeError
    \/ DispatchQueued
    \/ NothingToSend
    \/ SendRecorded
    \/ SendDisowned
    \/ SendBackpressured
    \/ \E error \in Lost : SendFails(error) \/ ReceiveFails(error)
    \/ ReceiveNothing
    \/ \E fault \in BOOLEAN : ReceiveTelemetry(fault)
    \/ \E f \in Frames, accepted \in BOOLEAN :
          ReceiveAck(f, accepted) \/ ReceiveStopAck(f, accepted)
    \/ \E f \in Frames : ReceiveUnmatched(f)
    \/ Deliver

Recovery ==
    \E r \in Recoverers :
        \/ BeginRecover(r)
        \/ RecoverWithoutEffect(r)
        \/ \E error \in Lost : RecoverFails(r, error)
        \/ RecoverApplies(r)

Next ==
    \/ Callers
    \/ Worker
    \/ DeadlinePasses
    \/ Recovery
    \/ CancelRuntime
    \/ CancelProtocol

\* The worker's loop goes on and the transport's calls return, time passes, and
\* shutdown() goes from its first block to its hook.
Fairness ==
    WF_vars(Worker) /\ WF_vars(DeadlinePasses) /\ WF_vars(CancelProtocol)

Spec == Init /\ [][Next]_vars /\ Fairness

-----------------------------------------------------------------------------
(* Properties.                                                             *)

Slots(ids, kind) ==
    {None} \cup [kind : {kind}, id : ids, retry : 0..RetryMax,
                 used : 0..Budget(kind), sent : SUBSET (0..RetryMax),
                 expired : BOOLEAN]

Dispatches ==
    {None} \cup {Dispatch(f, r) : f \in Frames, r \in BOOLEAN}

IsWindow(w) ==
    /\ Len(w) <= CorrelationCapacity
    /\ \A e \in Range(w) :
          /\ e.kind \in Kinds
          /\ e.id \in IF e.kind = "STOP" THEN StopIds ELSE CommandIds
          /\ e.sent \subseteq 0..RetryMax
    /\ \A i, j \in DOMAIN w : KeyOf(w[i]) = KeyOf(w[j]) => i = j

\* Every variable stays in range: the queue within its capacity (a STOP or a
\* requeued frame may use one place more), the retries within their budgets,
\* the windows within theirs and without duplicates.
TypeOK ==
    /\ runtime \in {"ACTIVE", "DEACTIVATING"}
    /\ link \in LinkStates
    /\ queue \in Seq(Frames) /\ Len(queue) <= QueueCapacity + 1
    /\ pending_command \in Slots(CommandIds, "COMMAND")
    /\ pending_stop \in Slots(StopIds, "STOP")
    /\ dispatching \in Dispatches
    /\ backpressure.key \in {None} \cup Frames
    /\ backpressure.attempts \in 0..BackpressureBudget
    /\ IsWindow(completed)
    /\ IsWindow(timed_out)
    /\ next_stop_id \in StopIds
    /\ poll \in Polling
    /\ sending \in Dispatches
    /\ (sending # None) = (poll = "sending")
    /\ recovering \in [Recoverers -> BOOLEAN]

\* While the link is STOPPING the driver holds exactly one STOP, queued, being
\* sent or awaiting its answer, and nothing else: no ordinary command can
\* follow the STOP, and the STOP cannot get lost unless the link says so.
StopInHand ==
    link = "STOPPING" =>
        /\ pending_command = None
        /\ \A x \in Range(queue) \cup Requests(dispatching) : x.kind = "STOP"
        /\ runtime = "ACTIVE" =>
              Cardinality({KeyOf(x) : x \in Range(queue) \cup Requests(dispatching)
                                            \cup Requests(pending_stop)}) = 1

\* One request is in flight at a time: a retry in flight belongs to the slot
\* that awaits its answer (so the two RuntimeErrors of _record_dispatch_locked
\* are unreachable), and a first attempt is in flight only when none awaits one.
InFlightIsSingle ==
    /\ pending_command = None \/ pending_stop = None
    /\ dispatching # None =>
          IF dispatching.is_retry
          THEN /\ Pending # None
               /\ KeyOf(Pending) = KeyOf(dispatching)
               /\ dispatching.retry = Pending.retry + 1
          ELSE Pending = None

\* A link that is down or stopped holds no frame and sends none: a confirmed
\* stop is not followed by a command, and whatever recover() later re-enables,
\* it replays no traffic from before the fault.
DownIsEmpty ==
    link \in Lost \cup {"SAFE_STOPPED"} =>
        /\ queue = <<>>
        /\ Pending = None
        /\ dispatching = None
        /\ poll # "sending"

\* Every request the transport took is tracked until it is evicted, also
\* across recover(), which keeps both windows (RecoveryClearsCorrelation): its
\* late or repeated answers are recognised and its id is not given to another
\* request meanwhile.
UnansweredIsRemembered ==
    runtime = "ACTIVE" =>
        \A k \in onwire : InUse(k[1], k[2])

\* A confirmed stop is final: neither commands nor recovery bring the link
\* back, only shutdown ends it.
StoppedStaysStopped ==
    [][link = "SAFE_STOPPED" => link' \in {"SAFE_STOPPED", "SHUTDOWN"}]_vars

\* Once shutdown has cancelled the protocol, no error revives the link and no
\* send begins.
ShutdownSilences ==
    [][link = "SHUTDOWN" =>
          /\ link' = "SHUTDOWN"
          /\ poll' = "sending" => poll = "sending"]_vars

\* A STOP is always settled: confirmed, or reported as a lost link.
StopIsResolved == link = "STOPPING" ~> link # "STOPPING"

\* No ordinary command waits for its answer for ever.
CommandIsResolved == pending_command # None ~> pending_command = None

\* When the retries of a command are exhausted, a STOP is sent.
ExhaustionEmitsStop ==
    [][CommandExpired /\ poll' # "entering" =>
          sending' # None /\ sending'.kind = "STOP"]_vars

\* A recovery that is applied forgets the requests from before the fault: it
\* leaves no correlation state behind.
RecoveryClearsCorrelation ==
    [][\A r \in Recoverers :
          RecoverApplies(r) => completed' = <<>> /\ timed_out' = <<>>]_vars
=============================================================================
