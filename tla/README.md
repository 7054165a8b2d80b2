# Mini-BEAM runtime: TLA+ models, TLC runs and TLAPS proofs

The subject is `src/erts/example/mini_beam_esp32/`, the part of this repository
that is its own: a small actor runtime in C for microcontrollers (ESP32, nRF52,
and a host build), with a bytecode VM, bounded mailboxes, a cooperative
round-robin scheduler, a per-process copying heap, board drivers, and a compiler
from dataflow descriptions to bytecode. The rest of the tree is documentation
(`system/doc`) and porting notes (`skills`). Paths below are relative to that
directory.

## 1. Inventory

| Component | State | Operations | Where |
|---|---|---|---|
| Values | none | `mb_validate_command`, term tagging | `include/mb_types.h`, `mb_errors.h`, `mb_term.h` |
| Mailbox ring | `items, head, tail, count` | `mb_mailbox_push_raw`, `mb_mailbox_pop_raw` | `src/mb_vm.c:98-128` |
| Process VM | pc, registers, mailbox, halted, last_error, state, deadline, reductions | `mb_proc_init`, `mb_proc_step` (19 opcodes), `mb_proc_run` | `src/mb_vm.c:231-700` |
| Scheduler | process table, `current`, `process_count` | `mb_sched_init/spawn/send/tick`, `mb_sched_wake_sleepers` | `src/mb_scheduler.c` |
| Heap and collector | two semispaces `from` and `to`, `hp` | `mb_heap_alloc`, `mb_heap_make_tuple`, `mb_heap_cons`, `mb_heap_gc` (Cheney) | `src/mb_heap.c` |
| Flow compiler | none (pure) | validation, `compile_flow`, `emit_header`; its inputs `flows/*.flow` and the checked-in header | `tools/flow_compile.escript`, `zephyr_app/src/flow_generated.h` |
| Native main loop | the scheduler; event count, peak depths, last timestamp | spawn the flow's programs, tick for ever, sample and report telemetry, feed the watchdog | `zephyr_app/src/main.c:780-872` |
| Firmware boot | watchdog, probe thread, retained boot counter | I2C signature scan, probe with timeout, boot count | `zephyr_app/src/main.c:254-269, 476-592, 669-776` |
| Compatibility VM | one process without a scheduler | `mb_vm_*` | `src/mb_vm.c:702-753` |
| Board drivers | which devices are ready, the signal on each PWM channel | `mb_hal_*` | `src/mb_hal_*.c` |
| Host tests and demos | scripts of calls with expected results | `main` of each | `src/main_*_host.c`, `src/main_host.c`, `espidf_app/main/app_main.c` |

**How they interact.** One native thread owns everything. It spawns programs
(`mb_sched_spawn`), may push commands into mailboxes (`mb_sched_send`) and calls
`mb_sched_tick` in a loop. A tick wakes the sleepers whose deadline has come,
scans the table from `current` for a READY process and lets `mb_proc_run`
interpret it until it faults, is no longer READY, or has used `MB_REDUCTIONS`.
During a run a `SEND` writes into *another* process's mailbox and state. BIFs
call the board drivers; the millisecond clock moves under all of it. After each
tick the firmware's loop looks into two processes from outside, for telemetry.
Programs that predate the scheduler use the compatibility VM instead: each
native call copies a machine into a process on the stack, interprets that with
the same `mb_proc_step`, and copies it back.

**What is hard.** No preemption, so the interleavings are those of runs, native
calls between ticks and the clock; but the same three words of a process (its
state, its halted flag, its mailbox count) are written from five places:
`RECV_CMD`, `SEND` from another process, `mb_sched_send`, the wake-up pass, and
`mb_proc_run`. Instructions can fail part-way through their operands. A program
is an arbitrary byte string and a fault does not stop its process. The clock
wraps. Compiled and hand-assembled programs rely on register conventions and
jump offsets nobody checks.

**What makes each component correct.**

- Mailbox: it is a bounded FIFO queue whatever the position of the ring; only
  valid commands get in.
- VM: arbitrary bytes never make it leave its registers, its program or its
  mailbox; an instruction that fails has had no effect; every instruction is
  paid for; a process touches no other process except by a push and a wake-up.
- Scheduler: no wake-up is lost, HALTED is final, no READY process starves, a
  sleeper is woken, pids are dense and stable.
- Flow compiler: a compiled flow does not fault, reaches the actuator it was
  compiled for, and every delivered reading is applied; what is checked in is
  what it emits.
- Telemetry: an event is counted once and in its window, a peak is not missed.
- Drivers: an error code never turns into a signal; a PWM channel has a signal that a
  program asked for, within the range of the call.
- Compatibility VM: how a program is cut into calls does not show, no call
  hangs or runs further than it may, no command is lost between calls.
- Heap: no value a register holds is ever changed by an allocation or a
  collection; a collection keeps nothing else, stays in its space and ends.
- Boot: a stuck bus does not keep the firmware from its main loop; no probe's
  answer is taken for another's; a hang in the main loop ends in a reset.

`PROJECT.json` lists the hazards behind these at their source lines, with the
property that covers each.

## 2. Modules

| Module | Models | Notes |
|---|---|---|
| `MbTypes` | status codes, commands, `mb_validate_command`, terms | pure operators |
| `MbMailbox` | the ring, push and pop | also `Contents`, the queue the ring stands for |
| `MbActors` | *abstract*: actors with bounded FIFO inboxes and a mode | no bytecode, registers, ring or scan order |
| `MbVm` | `mb_proc_step`, `mb_proc_run`, `mb_proc_init` | one action per opcode, plus its ways to fail |
| `MbBytecode` | which byte strings decode as they were written, and that they do | EXTENDS `MbVm`; checked of programs, never assumed |
| `MbScheduler` | `mb_scheduler.c`; the specification `Spec`, its properties, the refinement mapping to `MbActors` | EXTENDS `MbVm` |
| `MbMain` | native main program: spawn a list in order, then tick | EXTENDS `MbScheduler` |
| `MbTelemetry` | what the firmware's loop does around the tick | EXTENDS `MbMain` |
| `MbNrf52` | the nRF52 driver: the I2C read and both PWM calls, with devices ready or not | EXTENDS `MbVm` |
| `MbFirmware` | the loop with its telemetry on that driver | EXTENDS `MbTelemetry`, `MbNrf52` |
| `MbStub` | the host's stub driver: what each call returns | EXTENDS `MbVm`; uses Bitwise, for TLC only |
| `MbWindows` | the windows between two telemetry summaries, as history of `MbFirmware` | what the loop should have seen |
| `MbFlow` | a compiled flow on that loop: any flow the compiler accepts, its programs spawned in order, its devices | EXTENDS `MbWindows`, `FlowCompiler` |
| `MbCompat` | the `mb_vm_t` calls and the five opcodes that differ without a scheduler | EXTENDS `MbVm` |
| `MbCompatCalls` | native code that makes these calls in any order, with the history of commands and of the current call | EXTENDS `MbCompat` |
| `FlowCompiler` | validation, `compile_flow`, `emit_header` | pure, byte for byte |
| `FlowFiles` | `flows/*.flow` and the bytes of `flow_generated.h` | data |
| `MbTermStore` | *abstract*: registers hold immutable values (words, tuples, cells) | no memory, so no collection |
| `MbHeap` | `mb_heap.c` and the heap instructions of `mb_proc_step` | one process's heap, on its own |
| `MbHeapValues` | what the words stand for: the refinement mapping to `MbTermStore`, the live words | RECURSIVE, for TLC only |
| `MbBoot` | `zephyr_app/src/main.c` from reset to the main loop's watchdog feed | the loop's tick is a step that may not end; `MbMain` has its inside |
| `MCNativeTests`, `MCCompatTests` | the test programs and demos, as scripts of calls with the results they expect | run by `MCFlow` and `MCCompat` |
| `MCScheduler`, `MCInstructions`, `MCFlow`, `MCCompat`, `MCClockWrap`, `MCHeap`, `MCBoot` | instances for TLC | programs and small sets |
| `MbVmProofs`, `MbSchedulerProofs`, `MbSafetyProofs`, `MbFirmwareProofs`, `MbFlowProofs`, `MbCompatProofs`, `MbHeapProofs`, `MbBootProofs` | theorems | section 4 |

**State.** The fields of `mb_process_t` are functions from pids: `state`,
`program`, `pc`, `regs`, `mailbox`, `halted`, `lastError`, `sleepUntil`,
`reductions`. `running` is the process inside `mb_proc_run` (0 between runs) and
`runRc` what the last run or idle tick returned. `current` and `count` are the
scheduler's. `clock` counts milliseconds without a wrap and the code sees
`Now == clock % ClockMod`. `hal` is the last hardware write, the only thing the
outside world sees.

**Actions.** `TickRun` is the part of `mb_sched_tick` up to the call of
`mb_proc_run`: the wake-up pass, the scan, the advance of `current`, the reset
of the reductions. The run then takes one step per instruction (`Run(p)`), and
the clock may move between any two of them. `TickIdle` is a tick that finds
nothing. `Spawn` and `SchedSend` happen between ticks; a call that is refused
(full table, dead pid, invalid command or full mailbox) changes nothing in the
code and is a stutter here. Within a run each opcode of `mb_proc_step` is one
action with all it does: for example `Send` reads six registers, validates and
pushes, wakes a WAITING target, and overwrites the pid register with the status.
Failing decodes are actions too (`NoOpcode`, `TruncatedOperands`, `BadRegister`,
`BadOpcode`, `CallBifUndecoded`, `MakeTupleUndecoded`): they leave the pc in the
middle of the instruction, where the next turn starts decoding, exactly as the C
code's byte-wise fetch does. Programs are byte strings for this reason.

**Abstractions.**

- *Heap, in `MbVm`.* A boxed or cons term has an arbitrary location in `HeapLocs`; an
  allocation may move every reference in the registers (`RelocatedRegs`), may
  fail with `MB_HEAP_OOM` where `HeapCanFill`, and a load returns any term of
  `HeapContents`. This over-approximates what the collector may do to the
  registers; the collector itself is `MbHeap`.
- *Hardware, in `MbVm`.* A BIF that reads returns any of `ReadResults`, one that
  writes any of `WriteResults` (negative values are I2C error codes). `MbNrf52`
  and `MbStub` restrict these to what the driver returns: `MbStub` for the
  scripts of the host's tests and demos, value by value.
- *Terms* are a tag and a payload. `Payload` wraps to the width
  `2 * PayloadHalf`: the arithmetic of the 28-bit payload. TLC runs that do not
  depend on the width use a smaller one.
- *Names and layout.* Programs are identified by the name of their code; logging
  is left out, and with it the counters that nothing but the log reads.

**The heap.** A process heap is touched only by its own process, inside one
instruction, so `MbHeap` models one heap apart from the scheduler. Words are
numbers, encoded as `mb_term.h` encodes them, because what a stray word means
when it is read as a term is the point. `Allocate` is a `MAKE_TUPLE` or `CONS`
that finds room. `StartCollection` is one that does not: it swaps the spaces as
`mb_heap_gc` does first; then `CopyRoot` copies one register, `ScanWord` updates
one word of the new space, both through `CopyTerm` (`mb_gc_copy_term`, with its
forwarding pointers), and `Retry` clears the old space and tries the instruction
once more, with `MAKE_TUPLE` using the element words it read before. The code
scans a tuple's elements in an inner loop; since no header has a reference's
tag, word by word is the same. Cell `HeapWords` of a space is the memory past
its end. `MbHeapValues` follows the words, through forwarding pointers in the
middle of a collection, to the value of each register: `ImplementsTermStore`
says that these values behave as `MbTermStore` says, hence that every step of a
collection leaves them all alone.

**The boot.** In `MbBoot`, `stage` is where main is and `timer` and `wdt` count
down; `Pass` lets a unit of time go by, only when main waits. `ProbeStart` is
`os2_i2c_probe_timeout` up to its wait: the thread it creates has a higher
priority than main and runs at once up to its bus transfer. `TransferEnds`
writes `os2_probe_ctx` and gives the semaphore, at any time or never. Between
`ProbeExpires` and `ProbeAborted` the kernel has decided that the wait failed but
main has not run yet, and the thread may still end. `answered` is a history
variable. `WdtFires` keeps the retained registers, `PowerLoss` does not.
Values are compared as if `mask` had been applied. The thread, the semaphore and
the timers are the kernel's: external, as main.c uses them.

**The main loop, its telemetry and its board.** `due` says whether the loop is
about to tick or to look. `Sample` is the rest of the loop's body: the event
count from sensor 1's timestamp register, the two peak depths, and every
`StatsPeriod` the summary that starts the window over. `BoardRun` is a run's
step on the nRF52: a call of `I2C_READ_REG` gives -1 unless its bus is there and
ready, one of `PWM_SET_DUTY` or `PWM_CONFIG` gives -1 unless the PWM is ready and
the driver's own check passes. What Zephyr's transfer or `pwm_set` returns
otherwise is any of `ReadResults` or `WriteResults` (`BoardAssumption`: -1, which
the driver returns by itself, is among them). Where it is 0 the channel's period
and pulse on `wire` are the call's, computed from the registers as they are cast to
the driver's types (`ChannelArg`, `PermilleArg`). The board's devices are chosen
once, before the loop.

**The compatibility VM.** `vm[p]` is a machine between calls; during a call the
variables of `MbVm` are the local `mb_process_t`. `Call` is `mb_vm_to_proc`,
`Return` is `mb_proc_to_vm`, `CompatStep` is `mb_proc_step` with `RECV_CMD`,
`SEND`, `SELF`, `YIELD` and `SLEEP_MS` as they are without a scheduler and a heap
of capacity 0. Reductions are counted from `Reductions - max_steps`, so that the
interpreter's own count ends the call. `mb_vm_step` is a call with one step.

Operators whose comment begins "Faulty" (`AwakenedLate`, `DeliverAsleep`,
`SendWritesTarget`, ...) belong to no specification. Each is the definition
below it with one plausible slip; replacing the one by the other must break the
property that `PROJECT.json` pairs with it.

## 3. Runs

| Run | Instance | Shows |
|---|---|---|
| `scheduler` | `MCScheduler`, 2 slots, mailboxes of 3, budget 3, clock to 3 | any mix of a server, a never-yielding client and a sleeper that halts, plus native sends valid and invalid: `TypeOK`, `NoLostWakeup`, `MailboxesSound`, `ModesAgree`, `TableDense`, `Isolation`, `HaltedIsFinal`, and that the runtime implements `MbActors` |
| `programs` | `MCInstructions`: eleven programs, each alone, that execute every opcode and fail in every way, with a heap that can be full, among them well-formed ones; on the nRF52 driver, where one of them sets duties and frequencies inside, at the ends of and outside their ranges, some of which the casts bring back inside (66036 is 500 as a `uint16_t`, 256 is channel 0), with the PWM ready or not and calls that fail; or 3 processes of `MCScheduler`'s programs, mailboxes of 1, budget 2, clock to 1 | `FaultHasNoEffect`, `EndOfProgramIsFinal`, `EveryStepCounts`, `WellFormedDecodes`, `SignalsAsAsked`, `BoundedWaiting`, `ReadyRuns`, `RunEnds`, `SleeperWakes` |
| `flow` | `MCFlow`: 2 sensors and an actuator as `compile_flow` emits them, in the firmware's loop, on a board with all devices, without bus 1 or without the PWM; beside it nine test programs of the host over the stub driver; an ASSUME checks that every one of these programs is well-formed | `FlowNeverFaults`, `OnlyReadingsDriveThePwm` (on the wire), `DeliveredIsApplied`, `EventsAreNewStamps`, `SampledPeakIsReached`, `HeaderIsCurrent`, `TestsPass` |
| `compat` | `MCCompat`: one machine given commands between calls of 0, 1 or 3 steps; two machines with one program cut into calls differently; the scripts of the demos and tests over the stub driver, with the code's sizes; an ASSUME checks which of the hand-assembled programs are well-formed | `EachCommandOnce`, `AtMostMaxSteps`, `SlicingIsInvisible`, `AsExpected`, `CallReturns` |
| `esp_dispatcher` | as `compat` | **violated**: `DispatcherRuns` |
| `flow_reporting` | as `flow` | **violated**: `SensorsKeepReporting` |
| `clock_wrap` | `MCClockWrap`, clock modulo 8 | **violated**: `NotWokenEarly` |
| `heap` | `MCHeap`, 6 words, 3 registers; lists of lists and of tuples, sharing, tuples of immediates | `TypeOK` (nothing is written past a space), `ReferencesSound` (references name whole objects, objects do not overlap), `NothingButLive`, `ImplementsTermStore`, `CollectionEnds` |
| `heap_nested` | `MCHeap`, 4 words, tuples with references in them | **violated**: `ImplementsTermStore` |
| `heap_empty` | `MCHeap`, 4 words, tuples without elements | **violated**: `ImplementsTermStore` |
| `boot` | `MCBoot`, the table of 14 signatures, bus 1 only, times in units of 50 ms | `OneProbeAtATime`, `ScanFindsAnswers`, `BootsTellApart`, `BootReachesLoop`, `HangsEndInReset` |
| `boot_both_buses` | as `boot`, with both buses | **violated**: `BootReachesLoop` |

**The six violations** are disagreements between the code and what its own
comments or checks say:

1. *Compiled sensors report once.* `compile_sensor` loads the actuator's pid
   into r3 before the loop (`tools/flow_compile.escript:110`), and `SEND`
   overwrites its pid register with the result (`src/mb_vm.c:430`). On the
   second poll the sensor sends to pid 0 (`MB_OK`), which is nobody, and from
   then on to pid 11 (`MB_BAD_PID`). `zephyr_app/src/main.c:796` says the sensor
   "SENDs to actuator on its own schedule".
2. *A sleeper is woken early at the wrap.* `now >= sleep_until_ms` on wrapping
   `uint32_t` (`src/mb_scheduler.c:55`) against "woken when monotonic time
   passes the deadline" (`include/mb_scheduler.h:12`).
3. *A tuple gets a stale element.* `MAKE_TUPLE` retries with the words it copied
   before the collection (`src/mb_vm.c:552`); "Heap pointers were updated via
   roots. Re-copy from registers." (lines 550-551) describes what it does not do.
4. *Moving an empty tuple damages its neighbour.* The forwarding offset
   (`src/mb_heap.c:98`) needs a second word that a tuple of arity 0 does not
   have, though `include/mb_heap.h:52` allows that arity.
5. *Two silent buses and the board never gets to its main loop.* The 6000 ms
   watchdog starts before the scan and is not fed in it; 14 probes take up to
   7000 ms (`zephyr_app/src/main.c:765, 778`), although each is "skipped" when
   it times out (line 572). One silent bus is survived (`boot`): 11 probes, 5550 ms.
6. *The ESP-IDF application's dispatcher does not dispatch.* For the command that
   app_main pushes, the first jump (`espidf_app/main/app_main.c:20`) lands inside a
   `CONST_I32` and what follows leads into the middle of a `CALL_BIF`: the run ends
   with `MB_BAD_OPCODE` and the pin is not written. app_main checks the result for
   `MB_OK` and logs "vm failed" (lines 61-62).

Further disagreements, which the models contain and no run is devoted to:

- `include/mb_vm.h:81` says "Execute up to max_steps VM instructions". `YIELD`
  writes `MB_REDUCTIONS` (64) into the counter that is compared with `max_steps`
  (`src/mb_vm.c:449, 682`), so with more steps than that it does not end the call
  but may set the counter back: `YIELD` in a short loop makes `mb_vm_run` with
  `max_steps` of 67 or more run for ever. `main_host.c:51` passes 1024 and
  `app_main.c:60` 128, with programs that do not yield. `AtMostMaxSteps` and the
  free calls of `CallReturns` keep to limits up to the budget
  (`FreeLimitsAssumption`); the scripts use the callers' own.
- `system/doc/M5_STRESS_TEST_REPORT.md:74, 84` takes 995 events/s for the reads of
  four sensors and a peak depth of 0 for an actuator that drains in the tick of
  the delivery. The loop counts new milliseconds of sensor 1 only
  (`EventsAreNewStamps`), a receiver runs in a later tick than its sender, and
  depth 0 is what (1) gives: nothing is sent any more.
- The stability test counts what was never sent: the last jump of its consumer
  (`src/main_stability_host.c:119`) lands after the `RECV_CMD` and not at
  "loop (pc=6)" (line 109). The test passes all the same.
- On the nRF52 `pwm_set_duty` always programs a period of 20000 ns
  (`src/mb_hal_nrf52.c:122`), so what `PWM_CONFIG` set, "PWM base frequency for a
  channel" (`include/mb_hal.h:21`), is gone with the next duty. Compiled flows set
  duties only.
- `main_flow_host.c` uses `os2_flow_sensor_prog`, an array that the checked-in
  header does not define.
- The flow's `policy` reaches the header and no further.

Consequence for `heap`: its instructions build tuples of one or more immediates
only, so that it shows what holds of programs which avoid (3) and (4). Lists may
hold anything, and tuples sit inside lists, so nesting, sharing and forwarding
of both kinds of object occur.

Consequence for `compat`: `AsExpected` is about the tests and the host's demos, and
`esp_dispatcher` about app_main. Of the hand-assembled programs that are meant to run
app_main's is the only one that is not well-formed (`OnlyTheDispatcherIsNot`).

Consequence for `flow`: because of (1) each sensor delivers its first reading
and no more (a first send that the mailbox or the validation refuses is lost as
well), so `DeliveredIsApplied` speaks of what got into the mailbox, not of what was read.

**Bounds, and why they are enough.** `MaxProcesses`, `MailboxCapacity`,
`RegCount` and `Reductions` are constants of the code (`MB_*`), taken small: two
slots suffice for a sender and a receiver, three to tell a fair scan from one
that restarts; a capacity of 3 makes the ring wrap with commands in it, 1 makes
it always either empty or full; a budget of 2 or 3 ends runs between any two
instructions. The programs loop, so every queue length and scan position is
reached. The proofs of section 4 remove these bounds for safety. `MaxClock`, in
the guard of `ClockTick`, is the only bound that is not in the code: once it is
reached the clock stands still and everything else goes on, so a sleeper whose
deadline is past it sleeps on. Deadlock is checked in every run: native code can
always tick, an idle tick being a step. Six heap words hold three cells, or two
tuples of two elements: enough for shared and nested objects,
for garbage between live objects, for collections that free part, all or nothing
of the space, and for `MB_HEAP_OOM`.
In `programs` a program of the instruction set has the runtime to itself
(`Allowed`): what it checks is a process's own doing, and the other half of the
run is about competition. There the ranges of the PWM calls are the code's, and the
program goes on behind each call that is refused, so every one is reached.
In `flow` registers, budget and program bytes are the code's; the clock moves
twice at most, and a summary period of two milliseconds puts a summary between
any two looks or none. Each device gives one byte of its own and one error, so a
reading on the wire tells where it came from.
In `compat` registers, budget and the calls' limits are the code's where the
scripts depend on them; a machine alone executes up to 10 instructions in free
calls and is given up to 3 inputs, which fills its mailbox of 2; each machine of
a pair executes up to 7 and is given one.
In `boot` the times are the code's; the table of targets is cut from six to two,
so that three devices fill it, and the counter from 256 values to three, so
that it wraps.

**Fairness** (`Fairness`, `MainFairness`): weak fairness of the tick, because
the native loop calls `mb_sched_tick` for ever, and of the steps of the running
process, because nothing preempts a run; in `MbMain` also of the next spawn,
which straight-line code executes. Nothing is assumed of the clock, of native
sends or of individual processes. In `MCFlow` it is weak fairness of main as a
whole (`Main`): one thread that nothing preempts, doing the next thing of its
loop. In `MCCompat` it is of the steps and the return of a call that has begun,
and of no call: native code may stop calling, hence no deadlock check there. `ReadyRuns` thus really rests on the
round-robin scan, and `RunEnds` on the reduction count. Both rest on steps
taking finite time: a board driver that never returns is outside the model. In
`MbHeap` fairness is of `Collect` alone: a collection is one call that nothing
interrupts, while a program need not go on. In `MbBoot` it is of time, of
main's own steps and of the watchdog, and of no transfer and no tick.

## 4. Proofs

The theorems hold for every number of slots, mailbox capacity, register count,
budget, clock width, heap size, table of signatures, every set of native commands
and driver results, and **every program**: `Code` is any function to byte strings,
`Instructions` any set of heap instructions. The assumptions are the named
`ASSUME`s of the modules: sizes are positive, sets have the right type, and what
the code's constants give (the compatibility layer has no heap; the collector's
marker is no offset of the heap; the boot counter has room for more than two
boots); for the firmware `BootAssumption`, that the programs it spawns fit the
table; for flows `FlowAssumption`, that these programs are the compiler's for a flow
that passes its validation. Where a theorem has a further condition, it is named
below.

**`MbVmProofs`** is about one process, with or without a scheduler. First the
ring: the arithmetic of walking it (`RingWalk`), and from it `PushedContents` and
`PoppedContents`: on the queue `Contents`, a push is `Append` and a pop is `Head`
and `Tail`. Then the instructions: from `MachineOK` (the process has registers, a
pc and a program, and is READY) every instruction, whatever its bytes, ends in one
of three shapes: `Faulted` (registers may be relocated, the run ends), `Counted`
(registers, pc, at most one mailbox move, one reduction used) or `Left` (the
process leaves READY). `InstructionEnds` shows this once, and the theorems about
the scheduler and about the compatibility layer argue about three shapes instead
of 27 actions.

Last, well-formed programs. Nothing checks a program before it runs, so
`MbBytecode` says what it must be like: laid end to end from offset 0, its
instructions are whole (`Whole`: known opcode, all operands, valid registers, the
right number of arguments), and execution after each goes on at another one of
them (`Follow`, `Closed`). `WholeGoesOn` shows that a process at a whole
instruction has exactly the instruction's own actions enabled, none of the failing
decodes, and that whichever is taken, the pc goes to `Follow` or the process halts:
also when the instruction faults, parks the process or uses up its budget.
`WellFormedFacts` and `InstructionGoesOn` say this of `StartsOf`. They need of
`Starts` only that it is what `Closed` says; how it is computed is TLC's.

**`MbSchedulerProofs`.** `TypeOK` is not inductive: an instruction is fetched
from `Code[program[p]]`, so the running process must have a program, which
needs the process to be live and READY; and `reductions <= Reductions + 1` needs
that a run which goes on has budget left. The inductive invariant is

    IInv == TypeOK /\ ModesAgree /\ ProgramLoaded /\ FreeAfterCount

where `FreeAfterCount` (slots past `count` are the FREE ones) also bounds
`count`. It implies `MachineOK` (`MachineSound`). Results: `TypeCorrect`,
`ModesAlwaysAgree`.

**`MbSafetyProofs`.** With `MailInv == NoLostWakeup /\ MailboxesSound /\ FreeIsEmpty`
on top of `IInv`: `NoWakeupIsLost`, `MailboxesStaySound`, `TableStaysDense`. The
key is that `ModesAgree` makes the running process READY, so the receiver of a
wake-up is never the process whose state the interpreter is about to write. The
action properties follow from the step shapes: `ProcessesAreIsolated`,
`HaltedStaysHalted`, `StepsAreCounted`, `FaultsHaveNoEffect`, `EndedStaysEnded`.
`WaitingIsBounded` needs arithmetic of going round `MaxProcesses` slots
(`RoundTrip`): each tick that passes over a READY process leaves strictly fewer
slots before it. `WellFormedProgramsDecode` has the invariant `OnInstructions`: every
process of a well-formed program that has not halted, running or not, is at an
instruction of it. It is inductive with `IInv`, and gives the step property.

Last, the refinement: `RuntimeImplementsActors == Spec => ImplementsActors`. Initial states map to initial states, and each step of `Next` to a step of
`MbActors` or a stutter: `SEND` and `mb_sched_send` to `Deliver` or nothing,
`RECV_CMD` to `Receive` or `Block`, the wake-up pass to `Wake`, `SLEEP_MS` to
`Sleep`, `HALT` to `Finish`, all else to a stutter. `PushedContents` and
`PoppedContents` carry the ring to the queue.

**`MbFirmwareProofs`.** A step of the firmware (`BoardNext`) is a step of the
scheduler or a stutter (`BoardNextIsNext`), which needs that main spawns no more
than its list. So the invariants above hold there, and `FirmwareImplementsActors`
and `FirmwareMailboxesSound` follow without fairness. `SignalsFollowPrograms` is about every
program on the firmware's loop: a PWM call that does not fault has passed
`mb_call_bif`'s checks (`PwmChecked`), on checked numbers the casts change nothing
(`CastsKeepChecked`) and the division of the pulse loses nothing (`SignalIsExact`),
so the channel that the driver changes has the signal of the registers (`WiredAsAsked`).
`ReportsDepths`: the loop looks into existing processes. `FirmwareDecodes` takes
`OnInstructions` to the firmware.

`SamplingMissesNoPeak` is about telemetry that looks at the actuator's mailbox once
per tick, whatever ran in between. A tick is one run of one process. If that is
another process, the mailbox only grows (`MailboxGrowth`: a `SEND` pushes one), so
the look sees the deepest of the tick. If it is the actuator, the mailbox only
shrinks (`ActuatorOnlyTakes`), and the look before the tick saw the deepest,
unless this actuator pushed to itself. That it cannot is the hypothesis
`ActuatorSendsNothing`, and it needs `OnInstructions`: bytes without a `SEND`
opcode at an instruction may have one inside an operand. The invariant
(`WindowInv`) relates the sampled maximum, the deepest push (`rise`) and the deepest
mailbox (`peak`) at every moment of a tick. Flows of any number of sensors, with
any programs, are covered.

**`MbFlowProofs`** is about `FlowLoop`: the firmware's loop with the programs of any
flow that the compiler accepts, any number of sensors that fit the table, any
addresses, registers and poll times, devices that answer what they like. The
argument is from bytes to behaviour.

1. *Bytes.* `SensorBytes` and `ActuatorBytes` say which bytes `compile_sensor` and
   `compile_actuator` put where, through the concatenations (`Joined`) and the
   backward jumps, whose offsets the VM reads back as they were written
   (`OperandRead`: little-endian, negative ones included).
2. *Instructions.* For each shape of instruction that the compiler emits a lemma says
   what it does when a process is at such bytes: `ConstRuns`, `ReadRuns`, `TimeRuns`,
   `SendRuns`, `YieldRuns`, `SleepRuns`, `JumpRuns`, `RecvRuns`, `DutyRuns`. They rest on
   `OpcodeActs` of `MbVmProofs`: at a whole instruction only the instruction's own
   actions are enabled.
3. *Places.* `SensorAt` and `ActuatorAt` list the offsets at which a process of the
   flow can be, and what its registers hold there. `SensorRuns` and `ActuatorRuns` go
   from place to place.
4. *The flow.* `FlowInv`: each spawned process is at its place, every waiting command
   is on the flow's channel with a good reading (`FlowCommands`), every signal is such
   a reading's, and no run has ended in a fault. It is inductive with the firmware's
   invariants (`Firm`). An error code is in a sensor's register and in no mailbox:
   `mb_mailbox_push_raw` validates the duty. `FlowsNeverFault` and
   `FlowsPassReadingsOn` follow.
5. *Events.* `FlowsCountEvents` adds `StampInv`: main has missed at most one change of
   the timestamp, and only while the sensor is between its look at the clock and its
   rest. This is why counting after each tick suffices: the rest ends the tick. Its
   condition is `StampsDiffer`, that the clock's bound is below where a register's
   payload wraps; `MCFlow` meets it, and main's own comparison needs it.

TLC checked `FlowInv` and `StampInv` as invariants of `flow` before they were proved.

**`MbCompatProofs`** is about `CallsSpec` of `MbCompatCalls`: any program on each
machine and native calls in any order with any limits. (A step of `MCCompat` is
such a step, with more history and with bounds.) `EachCommandOnce` speaks of the
copied mailbox during a call and of the machine's own between calls; it is
inductive together with `RingsSound` (head, tail and count of every ring and of
the copy agree) and `MachineOK`. For `AtMostMaxSteps` the invariant adds
`WithinBudget`: while a call goes on, the reductions are exactly its limit's start
plus the instructions it executed; a `YIELD` breaks this sum, and is harmless
because under the property's condition it ends the call. Results: `TypeCorrect`,
`CommandsGoThroughOnce`, `CallsAreBounded`, and `CallsDecode`: a call copies the pc
and `halted` in and out, so a machine goes on at the instruction where its last
call ended (`MachinesOnInstructions`).

**`MbHeapProofs`.** `TypeOK` of the heap says that `hp` and the words stay in their
space, and a collection can violate it only by copying an object twice or by
following a word that is no reference to an object. So the inductive invariant
`HeapInv` has to describe the layout of both spaces at every moment of a
collection (`Midway`): the references already followed (`moved`) have left a
marker and an offset in the old space, and these forward them to whole objects of
the new space that do not overlap; the other references that the collection can
still meet (`W`) name whole objects of the old space, in cells that have not been
copied; what has been updated refers to the new space. As many cells have been
copied (`cells`) as the new space has words, so that whatever is left fits: this is
why the collector needs no bound check. At the end of a collection all this is
`ReferencesSound` again. The condition:

- `TuplesHaveElements`: the program makes no tuples of arity 0. Without it the
  forwarding word overwrites a neighbour: violation (4) of section 3.
- `NoStaleOperands`: no `MAKE_TUPLE` that a collection interrupts has read a
  reference. Without it the retried tuple holds a pointer into the old space:
  violation (3).

`HeapStaysInside` and `ReferencesStaySound` assume the second along the behaviour.
`ImmediateTuplesAreSafe` needs nothing of the behaviour: for a set of registers
which the program gives immediates only, and from which it makes its tuples
(`ImmediatesOnly`), both hold in every run. The instructions of the run `heap` are
such, with register 2; lists may hold anything.

**`MbBootProofs`.** `ScanFindsAnswers` is about the end of the scan. What holds all
along is that the table has the first devices that answered among the signatures
behind main, for as many as it has room (`TargetsFirst`). It needs that a
transfer belongs to the probe being waited for (`OwnTransfer`), which is what
`k_thread_abort` after a timeout establishes, and that semaphore and context agree
with the transfer (`ProbeContext`). Results: `TypeCorrect`,
`ProbesAreSerial`, `ScanIsExact`, `BootsAreNumberedApart`.

**Model-checked only.**

- The liveness properties (`ReadyRuns`, `RunEnds`, `SleeperWakes`,
  `DeliveredIsApplied`, `CallReturns`, `CollectionEnds`, `BootReachesLoop`,
  `HangsEndInReset`): fairness and ENABLED are out of the prover's reach. For the
  first, `BoundedWaiting` is the safety half and is proved; for `CallReturns`,
  `AtMostMaxSteps`.
- `ImplementsTermStore` and `NothingButLive`: the value of a word and the set of
  words reachable from the registers are recursive definitions.
- `HeaderIsCurrent`, `TestsPass`, `AsExpected`: they speak of concrete programs.
- `SlicingIsInvisible` compares two machines that run one program in step; the
  proof would need that an instruction is a function of its process.

## 5. Not modelled

What is left out, and why:

- *Drivers.* Of the nRF52 driver the I2C read and the two PWM calls are
  modelled. GPIO and the I2C write have no caller on that board;
  the ESP-IDF driver is straight calls of its SDK whose outcome only the SDK
  knows. In `MbVm` all of them may return any result.
- *A flow of more sensors than slots.* The compiler sets no limit; the actuator's
  spawn then fails and the loop reads through a null `proc_a`
  (`zephyr_app/src/main.c:790, 832`). `BootAssumption` excludes it.
- *Unit tests of the heap and of terms* in `src/main_regression_host.c`: calls of
  pure functions with constant arguments. The scripts hold the other tests.
- `main_stability_host.c`: two programs for an endurance test, see section 3.
- In `zephyr_app/src/main.c` the cyclic program, the mailbox helpers and the
  degraded-sensor policy (lines 271-439, 594-667, 684-693) are defined but never
  called, so no model contains them: in particular nothing withholds the
  watchdog's feed.
- Logging, the header's layout, and the flashing, soak and performance scripts.
