# Verification of the Workbench motion-safety path

This directory holds TLA+ models of the Workbench mobile home robot, the TLC
runs that check them on small instances and the TLAPS proofs that hold for every
instance. Everything is translated from the source; `PROJECT.json` maps each
definition to the lines it stands for.

## 1. The system

A task travels from a planner to a motor through five layers:

| layer | source | what can go wrong there |
|---|---|---|
| planning and agent runtime | `services/agent_runtime`, `services/world_model` | dispatching twice, acting after a STOP |
| task execution (ROS 2) | `integrations/embodied_agent_runtime/ros2_ws/src` (`runtime_gateway`, `task_orchestrator`, `task_executor`, `device_bridge`, `runtime_history`) | cancel against completion, late goal responses, restart with uncertain requests |
| host CAN driver | `libs/hardware/workbench/hardware/can_driver_safe.py`, `socketcan_transport.py`, `kernel/wbcan` | STOP preemption, late and duplicate answers, recovery and shutdown races |
| bus | CAN Wire V1 | loss, delay, duplication, corruption |
| motor node firmware | `firmware/mcu/core`, `firmware/mcu/hal` | replay, wrapping serials and clocks, watchdogs, latched faults |

The rest of the repository (perception, robot descriptions, continuous control,
dashboards, board and CAD generators, container files, quality tools) has no
protocol state of its own. `components` in `PROJECT.json` lists every part with
its status and the reason.

The core of the system is the motor node: whatever the layers above do, it alone
decides whether the robot moves. It is modelled completely and proved first.

## 2. Modules

| module | models | state and actions |
|---|---|---|
| `FrameCodec` | `core/frame_codec.c` | operators: validity of a frame, bytes of a frame, frame of the bytes |
| `WireLink` | `can_bridge.c` encode / decode | one frame sent, changed in one place on the bus, received |
| `SafetyStateMachine` | `core/state_machine.c` | operators on a machine record, `mcu_sm_dispatch` |
| `Watchdog` | `core/watchdog.c` | operators on a watchdog record and a wrapping clock |
| `CommandDedup` | `core/command_dedup.c` | operators on a replay window |
| `McuNode` | `core/can_bridge.c`, `hal/qemu/main_qemu.c` | the node: one action per outcome of a received frame, the timer interrupt, the owner's calls, reboot |
| `CommandLedger` | abstract | what the window promises: each command executed at most once, in order, one verdict |
| `CommandLink` | host serials + lossy bus + `McuNode` | issue, retry of the pending request, lose, deliver, sessions |
| `SafeCanBus` | `can_driver_safe.py`: `SafeCANBus` under a running `DeviceRuntime` | queue, pending slots, correlation windows; callers, worker, recovery and shutdown threads |
| `MCWireLink`, `MCMcuNode` | - | constants and the view for TLC |
| `McuNodeProofs` | - | lemmas, the inductive invariant and the theorems about `McuNode` |

Correspondence. C structs are records with the C field names; C functions keep
their names as operators from the old values to the new ones. `McuNode` calls
them in the order of `mcu_can_bridge_poll`: envelope and direction checks
(`RejectFrame`), the STOP path (`RefuseStop`, `ReplayStop`, `DispatchStop`), the
ordinary path (`SessionClosed`, `RejectConflict`, `RejectRetry`, `RejectStale`,
`ReplayCommand`, `DispatchCommand`), and the response, whose hand-off to the HAL may
fail. `Init` and `Reboot` are the init functions of the three modules, with the timer
armed one period ahead. A due timer interrupt may be taken up to `MaxLatency` late and
re-arms the timer from the time it is taken. The owning target serializes calls (`can_bridge.h`), so one call is one
step. `CompleteMotion`, `OpenSession`, `CloseSession`, `MarkCausesCleared` and
`RequestReset` are entry points of `core/` that the surrounding target calls at times
of its own choosing. `Tick` and `Reboot` are the environment.

The bus of `McuNode` is the most general one: any decodable frame may arrive at any
moment, so no theorem about it depends on how the host behaves. `CommandLink`
restricts it to a host that numbers its commands, to state what such a host may
rely on. The host holds the request that awaits its answer (`pending`, the
`_pending_command` of the driver) and repeats it with the next retry count whether or
not a copy is still on the bus. Two assumptions are stated there and nowhere weakened:

- every copy on the bus, and the last command the node dispatched, are less than half
  the serial range behind a newly issued command (`IssueCommand`). At half the range
  exactly the new command is refused or answered from an old entry, and beyond it an old
  copy is taken for new;
- a session opens behind the startup gate of `mcu-protocol-v1.md` and
  `host-can-transport-v1.md`: the bus is drained and the host's pending request is
  dropped (`OpenDrainedSession`). The second half is the caller's duty. `SafeCANBus`
  does not forget a pending request when the node reboots, and a retry that
  crossed into a new session would be executed again.

`SafeCanBus` has one action per block under the runtime lock. `poll` and `sending` are
the worker's place in `poll()` and its local `dispatch`; transport calls and
subscribers run between two actions, so `send()`, `recover()` and `shutdown()` fall into
every gap (`SendRecorded` against `SendDisowned` is the code's test after such a gap).
A deadline is a flag that time may raise at any moment; the bus answers anything at
any time; an exception out of `poll()` releases the lock before `on_runtime_error`
takes it again (`StopIdsExhausted`, `OnRuntimeError`). `onwire` is history. A STOP of
a caller draws its id from the driver's own range, the case with most conflicts.
One thread recovers: nothing in the repository calls `recover()` outside tests, and
overlapping calls are listed as a hazard. Opening and closing the port, and the
telemetry, health and external planes, are left out.

Abstractions of the node: null pointers and buffer sizes of the C interface, cookie fields,
`next_telemetry_sequence`, diagnostic timestamps. `stop_timeout_record_emitted`
is always set together with `stop_timeout_cause_active` and is not kept apart.

## 3. Runs

| run | what it checks | bounds |
|---|---|---|
| `wire_link` | `RoundTrip`, `Canonical`, `StopIsNeverForged` | real field widths; ids at 0, 1, 255, 0x7fff, 0x8000, 0xffff; any one byte, the id, the flags or the length changed |
| `mcu_node` | types, self-checks, supervision, STOP and fault latches, truthful answers, bounded silence, action properties | 4 serials (half range 2, so wraps are frequent), clock of 8, link timeout 3, timer period 2, interrupts up to 1 late, STOP deadline 1, window of 1, 2 opcodes, 2 STOP ids, retry counts 0..1 |
| `mcu_liveness` | `StopIsSettled`, `FaultStarvesHardware` | clock of 4, punctual interrupts, one opcode, one STOP id |
| `command_link` | `AtMostOnce` (refinement of `CommandLedger`), `AnswersAgree`, `RefusalIsJustified` | 6 ids (half range 3), 5 commands from id 3 on, so the id wraps after three; window of 2, one retry, 2 distinct frames on the bus, each deliverable any number of times |
| `command_epoch` | `NoFalseConflict`, `DependenciesValid` | 6 ids, 8 commands, window of 4, one frame on the bus, no retries |
| `can_bus` | `StopInHand`, `DownIsEmpty`, `UnansweredIsRemembered`, `StoppedStaysStopped`, `ShutdownSilences` | 2 commands, 3 STOP ids, one retry, windows of 2, queue of 1 (a requeued frame makes it 2), one backpressure retry |
| `can_bus_liveness` | `StopIsResolved`, `CommandIsResolved`, `InFlightIsSingle` | the same with a STOP retry, 2 STOP ids and windows of 1 |
| `can_bus_exhaustion` | a violation: `ExhaustionEmitsStop` | no retries, windows of 2, 3 STOP ids |
| `can_bus_recovery` | a violation: `RecoveryClearsCorrelation` | the same |

`command_epoch` has the bounds its case needs. A new id is at most 2 ahead of the last
one, so four retained entries (0, 1, 3, 5) reach back over the whole range of 6: command
6 meets entry 0, command 7 would stand beside entry 1. Without the rule that a serially
new id wins over a retained entry, command 6 is taken for a conflicting reuse of id 0;
without the clearing at a wrap, ids 1 and 7 share a number and the window fails its own
validity check from then on.

`can_bus_exhaustion` shows a difference between code and document.
`docs/architecture/host-can-transport-v1.md` says that an exhausted retry budget "emits
a correlated STOP request". The driver looks for a STOP id among
`correlation_capacity + 1` candidates while its two windows can retain twice the
capacity; after enough timed-out and rejected STOPs with ids of that range it
raises and goes to `LINK_LOST` without a STOP. The link fails closed; the node is then
stopped by its own watchdog, not by the host. With the default capacity of 128 this
takes 129 retained STOPs.

`can_bus_recovery` shows another. The same document says that `SafeCANBus.recover()`
"clears pre-fault commands and correlation state". The code clears the queue, the
pending slots and the dispatch in flight, but keeps the completed and the timed-out window.
`UnansweredIsRemembered` describes what the code does: a request from before a fault is
still recognised after the recovery, so that its late answer is not taken for that
of a new command. The price is that ids from before the fault stay refused, and that
retained STOP ids accumulate over recoveries towards the exhaustion above.

`MCMcuNode!ClockView` identifies states that differ by a rotation of the clock or in
a deadline nobody waits for: the code reads the clock only as a distance to a
deadline it waits for. `CommandLink!LinkView` drops the verdicts of commands that can no
longer be answered. Both drop the last response, which no step reads, and keep the
truth of the invariants about it.

The small clock keeps what matters. The link timeout (3) is below half of the clock
in `mcu_node` (4), and so is the longest gap between two polls, `HeartbeatPeriod +
MaxLatency` (3): a deadline is seen within half the range after it has passed, as in the
code (polls every 50 ms, half range 2^63 us). The clock wraps within a few
interrupts, which the real one never does in a test. Interrupts late by half the range
are in no run, and `mcu_liveness` has punctual ones.

Fairness. `WF(TimerInterrupt)` and `WF(Tick)`: the interrupt handler re-arms the
machine timer on every invocation and nothing in `core/` masks it. Frames, owner
calls and reboots have no fairness: nobody has to send anything. In `SafeCanBus`,
`WF(Worker)`: the loop of `_worker_main` runs until cancelled, the socket of
`SocketCANTransport` is non-blocking and its receive has a timeout; `WF(DeadlinePasses)`: monotonic time; `WF(CancelProtocol)`: `shutdown()`
calls its hook without waiting for anything. Callers and recovery have none.

## 4. Proofs

`McuNodeProofs` proves, for all widths, window sizes, timeouts and traffic
(`CommandIdAssumption`, `TimeAssumption`, `WindowAssumption`, `BusAssumption`):

- `TypeCorrect`, `DependenciesStayValid`, `MotionIsSupervised`, `StopAlwaysHolds`,
  `AnswersStayTruthful`: the invariants of `mcu_node`;
- `FaultStaysLatched`, `StopStaysFinal`, `MotionStartsWithNewCommand`,
  `DeadlinesStayPut`: its action properties.

None of the invariants is inductive alone. `IInv` adds: the machine is valid; an
armed watchdog goes with an executing machine; a pending STOP goes with a stopped
machine and a cached answer that is exactly the STOP_ACK for the pending id and
retry count (`PendingAckIsCached`); every retained entry of the replay window lies
behind the last accepted serial within the epoch (`RetainedBehindLast`), which is what
keeps a newly cached id distinct from the retained ones. `NextInv` has one lemma per
action; the theorems follow from `IInv` by `InvConsequences`, `MachineSteps` and
`DeadlineSteps`.

Only model-checked: `BoundedSilence` (arithmetic modulo a symbolic clock width), the two
liveness properties, the refinement `AtMostOnce` with the other properties of
`CommandLink`, and the properties of `WireLink` and `SafeCanBus`.

## 5. Plan

In this order; each item is a module of its own with a run and its mutants.

1. Proofs about `SafeCanBus`: `StopInHand`, `DownIsEmpty` and `InFlightIsSingle` from one
   inductive invariant.
2. `DeviceRuntime` (host): start, join and cleanup threads over the runtime lock: cleanup
   never runs beside a live poll, CLEANED is final, a caller that retries shutdown
   gets there.
3. `HostAndNode`: `SafeCanBus` over a lossy bus with `McuNode`: SAFE_STOPPED on the
   host means the node does not execute.
4. `TaskExecutor`: goal admission, child goal, cancel, timeouts, shutdown.
5. `DeviceBridge` with the virtual device: ACK and completion timeouts, cancel.
6. `Gateway` over its durable store: admission, uncertain outcomes, restart; an
   abstract at-most-once submission as its specification.
7. `Orchestrator` and the agent runtime's execution controller.
8. The Linux driver contracts (IRQ lines, DMA buffers, power states), the kernel module
   `wbcan`, `SocketCANTransport`, lifecycle and system manager.

Theorems planned next: the safety invariants of `SafeCanBus` and `DeviceRuntime`, the
step simulation of `CommandLedger` by `CommandLink`, and the end-to-end stop
property of `HostAndNode`.
