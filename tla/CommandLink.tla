----------------------------- MODULE CommandLink -----------------------------
(***************************************************************************)
(* A host that issues ordinary commands with consecutive serial numbers    *)
(* and repeats the one that awaits its answer, a bus that delays, loses,   *)
(* duplicates and reorders them, and the node of McuNode.                  *)
(*                                                                         *)
(* The wire carries only an id of CommandIdModulus values.  Half-range     *)
(* comparison can tell old from new only while every copy on the bus, and  *)
(* the last command the node dispatched, are less than half the range      *)
(* behind the newest command; IssueCommand states both assumptions.        *)
(*                                                                         *)
(* A session opens behind the startup gate: the bus is drained (the        *)
(* queued_traffic_discarded of open_session) and the host's pending        *)
(* request is dropped.  The driver does not drop it by itself: that is the *)
(* caller's part of the gate (docs/architecture/mcu-protocol-v1.md and     *)
(* host-can-transport-v1.md).                                              *)
(***************************************************************************)
EXTENDS McuNode, FiniteSets

CONSTANTS
    MaxCommands,    \* bound: commands the host issues
    MaxInFlight,    \* bound: distinct frames on the bus
    FirstId,        \* command id of the host's first command
    NoVerdict

VARIABLES
    issued,         \* commands issued so far
    pending,        \* host: the request that awaits an answer, {} or {frame}
    flight,         \* frames on the bus: a frame may be delivered repeatedly
    verdict,        \* history: serial -> answer given when it was dispatched
    answering       \* history: the serial the current response answers

linkVars == <<issued, pending, flight, verdict, answering>>
allVars  == <<vars, linkVars>>

Serials  == 0..(MaxCommands - 1)
NoSerial == MaxCommands

Verdicts == [result_code : Results, fault_code : Faults, device_mode : Modes]

VerdictOf(ack) ==
    [result_code |-> ack.result_code, fault_code |-> ack.fault_code,
     device_mode |-> ack.device_mode]

WireFrame(f) ==
    [clear_frame EXCEPT !.command_id = (FirstId + f.serial) % CommandIdModulus,
                        !.opcode = f.opcode, !.retry_count = f.retry]

LinkInit ==
    /\ Init
    /\ issued = 0
    /\ pending = {}
    /\ flight = {}
    /\ verdict = [n \in Serials |-> NoVerdict]
    /\ answering = NoSerial

-----------------------------------------------------------------------------
Executed == {n \in Serials : verdict[n] # NoVerdict}

PutOnBus(f) ==
    /\ flight' = flight \cup {f}
    /\ Cardinality(flight') <= MaxInFlight

\* A step of the host or the bus: the node's last response is history.
NodeIdle ==
    /\ response' = NoResponse
    /\ answering' = NoSerial
    /\ UNCHANGED <<machine, watchdog, dedup, quiet, verdict>>
    /\ BusUnchanged

\* The earlier request was answered or given up: its slot is free.
IssueCommand(opcode) ==
    /\ issued < MaxCommands
    /\ \A f \in flight : issued - f.serial < SerialHalfRange
    /\ dedup.has_last_accepted =>
          \E n \in Executed : issued - n < SerialHalfRange
    /\ LET f == [serial |-> issued, opcode |-> opcode, retry |-> 0]
       IN  PutOnBus(f) /\ pending' = {f}
    /\ issued' = issued + 1
    /\ NodeIdle

\* The deadline of the pending request passes: it is sent again with the next
\* retry_count, whatever became of the earlier attempts and their answers.
RetryCommand(f) ==
    /\ f.retry < MaxRetry
    /\ LET g == [f EXCEPT !.retry = @ + 1]
       IN  PutOnBus(g) /\ pending' = {g}
    /\ UNCHANGED issued
    /\ NodeIdle

Lose(f) ==
    /\ flight' = flight \ {f}
    /\ UNCHANGED <<issued, pending>>
    /\ NodeIdle

\* The node takes a copy of a frame; the bus keeps another.
DeliverNew(f) ==
    /\ DispatchCommand(WireFrame(f))
    /\ verdict' = [verdict EXCEPT ![f.serial] = VerdictOf(response')]
    /\ answering' = f.serial
    /\ UNCHANGED <<issued, pending, flight>>

DeliverReplay(f) ==
    /\ ReplayCommand(WireFrame(f))
    /\ answering' = f.serial
    /\ UNCHANGED <<issued, pending, flight, verdict>>

DeliverRefused(f) ==
    /\ \/ RejectRetry(WireFrame(f))
       \/ RejectStale(WireFrame(f))
    /\ answering' = f.serial
    /\ UNCHANGED <<issued, pending, flight, verdict>>

\* No session is open: the node neither acts on the frame nor answers it.
DeliverIgnored ==
    /\ SessionClosed
    /\ answering' = NoSerial
    /\ UNCHANGED <<issued, pending, flight, verdict>>

OpenDrainedSession ==
    /\ OpenSession
    /\ flight' = {}
    /\ pending' = {}
    /\ answering' = NoSerial
    /\ UNCHANGED <<issued, verdict>>

\* The other steps of the node that reach the replay window or make the
\* machine ready for a command again.
NodeStep ==
    /\ \/ CompleteMotion
       \/ CloseSession
       \/ RequestReset(TRUE, TRUE)
       \/ Reboot
    /\ answering' = NoSerial
    /\ UNCHANGED <<issued, pending, flight, verdict>>

LinkNext ==
    \/ \E o \in Opcodes : IssueCommand(o)
    \/ \E f \in pending : RetryCommand(f)
    \/ \E f \in flight : \/ Lose(f)
                         \/ DeliverNew(f)
                         \/ DeliverReplay(f)
                         \/ DeliverRefused(f)
                         \/ DeliverIgnored
    \/ OpenDrainedSession
    \/ NodeStep

LinkSpec == LinkInit /\ [][LinkNext]_allVars

-----------------------------------------------------------------------------
Ledger == INSTANCE CommandLedger

\* The node and its bus implement the ledger: at most one execution of every
\* issued command, in order of issue, through wraps of the serial number,
\* resets, sessions and reboots.
AtMostOnce == Ledger!Spec

Refusal == response.fault_code = "DUPLICATE_FRAME"

\* An answer that is not a correlation refusal is the verdict of exactly the
\* command it answers, however late, repeated or retried the request was.
AnswersAgree ==
    answering # NoSerial /\ ~Refusal => VerdictOf(response) = verdict[answering]

\* A frame is refused as stale, or as an outdated retry, only if its command or
\* a later one was dispatched: the window never refuses a command it has not
\* been overtaken by, the first one after a wrap of the serial included.
RefusalIsJustified ==
    answering # NoSerial /\ Refusal => \E n \in Executed : n >= answering

\* No frame of a host that numbers its commands in order is ever taken for a
\* conflicting reuse of an id, though entries from before a wrap carry the
\* numbers of new commands: a serially new number wins over such an entry.
NoFalseConflict ==
    dedup.session_open =>
        \A f \in flight :
            \A i \in Retained(dedup, WireFrame(f).command_id) :
                dedup.entries[i].opcode = f.opcode

-----------------------------------------------------------------------------
\* For TLC.  Of the verdicts the future depends on which command was executed
\* last and on those of the commands that may still be answered; no step reads
\* the last answer, of which the view keeps whether the invariants hold.
LinkView ==
    <<machine, watchdog, dedup, now, timer_at, hw_fed, quiet, issued, pending,
      flight, {n \in Executed : \A k \in Executed : k <= n},
      [n \in {f.serial : f \in flight \cup pending} |-> verdict[n]],
      AnswersAgree, RefusalIsJustified>>
=============================================================================
