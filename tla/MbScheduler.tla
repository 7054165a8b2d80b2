----------------------------- MODULE MbScheduler -----------------------------
(***************************************************************************)
(* mb_scheduler.c over the process VM: the process table, the wake-up of   *)
(* sleepers and the round-robin choice of mb_sched_tick, and the two calls *)
(* native code makes between ticks, mb_sched_spawn and mb_sched_send.      *)
(*                                                                         *)
(* One native thread owns the scheduler.  A tick is the action TickRun     *)
(* (the choice) followed by the VM steps of the chosen process until       *)
(* `running` is 0 again; spawns and sends happen between ticks.  The clock *)
(* moves at any time, also between two instructions.                       *)
(***************************************************************************)
EXTENDS MbVm, FiniteSets

CONSTANTS
  NativeCommands,  \* commands native code sends, valid and invalid
  MaxClock         \* bound: the clock stops there

ASSUME SchedulerAssumption ==
  /\ NativeCommands \subseteq Command
  /\ MaxClock \in Nat

VARIABLES
  current,  \* index of the slot the next scan starts at
  count     \* number of spawned processes

vars == <<vmVars, current, count>>

-----------------------------------------------------------------------------
Init ==
  /\ state = [p \in Pids |-> "FREE"]
  /\ program = [p \in Pids |-> NoProgram]
  /\ pc = [p \in Pids |-> 0]
  /\ regs = [p \in Pids |-> [r \in Regs |-> ZeroTerm]]
  /\ mailbox = [p \in Pids |-> EmptyMailbox]
  /\ halted = [p \in Pids |-> FALSE]
  /\ lastError = [p \in Pids |-> MB_OK]
  /\ sleepUntil = [p \in Pids |-> 0]
  /\ reductions = [p \in Pids |-> 0]
  /\ running = 0
  /\ runRc = MB_OK
  /\ clock = 0
  /\ hal = <<>>
  /\ current = 0
  /\ count = 0

-----------------------------------------------------------------------------
(* Native calls.                                                           *)

\* Faulty: the scan for a free slot runs backwards.
SpawnLast(name) ==
  /\ running = 0
  /\ \E p \in Pids :
       /\ state[p] = "FREE"
       /\ \A q \in (p + 1)..MaxProcesses : state[q] # "FREE"
       /\ ProcInit(p, name)
  /\ count' = count + 1
  /\ UNCHANGED <<running, runRc, clock, hal, current>>

\* mb_sched_spawn takes the first free slot; a full table is left alone.
Spawn(name) ==
  /\ running = 0
  /\ \E p \in Pids :
       /\ state[p] = "FREE"
       /\ \A q \in 1..(p - 1) : state[q] # "FREE"
       /\ ProcInit(p, name)
  /\ count' = count + 1
  /\ UNCHANGED <<running, runRc, clock, hal, current>>

\* mb_sched_send; MB_BAD_PID, for a pid that is not live, changes nothing.
SchedSend(q, cmd) ==
  /\ running = 0
  /\ Live(q)
  /\ Deliver(q, cmd)
  /\ UNCHANGED <<program, pc, regs, halted, lastError, sleepUntil, reductions,
                 running, runRc, clock, hal, current, count>>

-----------------------------------------------------------------------------
(* mb_sched_tick.                                                          *)

\* Faulty: a sleeper wakes only after its deadline.
AwakenedLate ==
  [p \in Pids |-> IF state[p] = "SLEEPING" /\ Now > sleepUntil[p]
                  THEN "READY" ELSE state[p]]

\* Faulty: the pass also revives halted processes.
AwakenedHalted ==
  [p \in Pids |-> IF state[p] \in {"SLEEPING", "HALTED"} /\ Now >= sleepUntil[p]
                  THEN "READY" ELSE state[p]]

\* mb_sched_wake_sleepers: the states after the pass.
Awakened ==
  [p \in Pids |-> IF state[p] = "SLEEPING" /\ Now >= sleepUntil[p]
                  THEN "READY" ELSE state[p]]

\* The process the scan looks at i places after `current`.
Scanned(i) == ((current + i) % MaxProcesses) + 1

\* Faulty: every scan starts at the first slot again.
NextCurrentReset(p) == 0

\* Where the scan after one that chose p starts; the slot of p is p - 1.
NextCurrent(p) == p % MaxProcesses

\* The tick finds a READY process and starts its run.
TickRun ==
  /\ running = 0
  /\ state' = Awakened
  /\ \E i \in 0..(MaxProcesses - 1) :
       LET p == Scanned(i)
       IN  /\ Awakened[p] = "READY"
           /\ \A j \in 0..(i - 1) : Awakened[Scanned(j)] # "READY"
           /\ current' = NextCurrent(p)
           /\ reductions' = [reductions EXCEPT ![p] = 0]
           /\ running' = IF halted[p] THEN 0 ELSE p
  /\ runRc' = MB_OK
  /\ UNCHANGED <<program, pc, regs, mailbox, halted, lastError, sleepUntil,
                 clock, hal, count>>

\* No process is READY.
TickIdle ==
  /\ running = 0
  /\ \A p \in Pids : Awakened[p] # "READY"
  /\ runRc' = MB_SCHED_IDLE
  /\ UNCHANGED <<slotVars, running, clock, hal, current, count>>

Run(p) == Step(p) /\ UNCHANGED <<current, count>>

\* A millisecond passes.
ClockTick ==
  /\ clock < MaxClock
  /\ clock' = clock + 1
  /\ UNCHANGED <<slotVars, running, runRc, hal, current, count>>

-----------------------------------------------------------------------------
Tick == TickRun \/ TickIdle

Next ==
  \/ \E name \in DOMAIN Code : Spawn(name)
  \/ \E q \in Pids, cmd \in NativeCommands : SchedSend(q, cmd)
  \/ TickRun
  \/ TickIdle
  \/ \E p \in Pids : Run(p)
  \/ ClockTick

\* The native loop calls mb_sched_tick again and again, and a tick's run
\* goes on until it ends: nothing preempts it.
Fairness == WF_vars(Tick) /\ WF_vars(\E p \in Pids : Run(p))

Spec == Init /\ [][Next]_vars /\ Fairness

-----------------------------------------------------------------------------
(* Invariants.                                                             *)

\* Every variable holds a value of its C type (mb_process_t, mb_scheduler_t).
TypeOK ==
  /\ state \in [Pids -> ProcState]
  /\ program \in [Pids -> DOMAIN Code \cup {NoProgram}]
  /\ pc \in [Pids -> Nat]
  /\ regs \in [Pids -> [Regs -> Term]]
  /\ mailbox \in [Pids -> Mailbox]
  /\ halted \in [Pids -> BOOLEAN]
  /\ lastError \in [Pids -> Status]
  /\ sleepUntil \in [Pids -> 0..(ClockMod - 1)]
  /\ reductions \in [Pids -> 0..(Reductions + 1)]
  /\ running \in Pids \cup {0}
  /\ runRc \in Status
  /\ clock \in Nat
  /\ current \in 0..(MaxProcesses - 1)
  /\ count \in 0..MaxProcesses

\* A process that waits has nothing to receive: the check of the mailbox and
\* the move to WAITING in RECV_CMD, and the push and the wake-up in SEND and
\* mb_sched_send, never leave a command behind a sleeping receiver.
NoLostWakeup ==
  \A p \in Pids : state[p] = "WAITING" => mailbox[p].count = 0

\* Whatever a mailbox holds passes mb_validate_command, so the second
\* validation in RECV_CMD never fires, and head, tail and count agree.
MailboxesSound ==
  \A p \in Pids :
    /\ RingWellFormed(mailbox[p])
    /\ \A i \in 1..mailbox[p].count :
         Contents(mailbox[p])[i] \in ValidCommand

\* The halted flag and the state HALTED, which different lines write, agree;
\* and the process a run is in is READY, so a wake-up or a send during the
\* run never moves the process under the interpreter's feet.
ModesAgree ==
  /\ \A p \in Pids : halted[p] <=> state[p] = "HALTED"
  /\ running # 0 => /\ state[running] = "READY"
                    /\ reductions[running] < Reductions

\* A free slot is as mb_sched_init left it, the live ones come first and
\* count is their number: so a pid is a live process from its spawn on.
TableDense ==
  /\ count = Cardinality({p \in Pids : state[p] # "FREE"})
  /\ \A p \in Pids : state[p] = "FREE" <=> p > count
  /\ \A p \in Pids : state[p] = "FREE" => mailbox[p] = EmptyMailbox

-----------------------------------------------------------------------------
(* Action properties.                                                      *)

\* The step of Isolation.
OthersUntouched ==
  \A p \in Pids :
    (state[p] # "FREE" /\ p # running) =>
      UNCHANGED <<program[p], pc[p], regs[p], halted[p], lastError[p], sleepUntil[p]>>

\* Processes share nothing: a step changes the registers, pc, error and
\* deadline of the running process only, and of another live process at
\* most its mailbox (a push) and its state (a wake-up).
Isolation == [][OthersUntouched]_vars

\* The step of HaltedIsFinal.
HaltedUntouched ==
  \A p \in Pids : state[p] = "HALTED" =>
    state'[p] = "HALTED" /\ regs'[p] = regs[p] /\ pc'[p] = pc[p]

\* HALTED is final and keeps the registers: a message or a passing deadline
\* does not revive a process.
HaltedIsFinal == [][HaltedUntouched]_vars

\* How many other slots a scan looks at before the slot of p.
Distance(p) == (p - 1 - current) % MaxProcesses

\* The step of BoundedWaiting.
ScanComesNearer ==
  \A p \in Pids :
    (TickRun /\ state[p] = "READY" /\ running' # p) => Distance(p)' < Distance(p)

\* Round robin: a tick that leaves a READY process p waiting brings the scan
\* nearer to p, whatever other processes do (fault, yield, be woken); so p
\* runs within MaxProcesses ticks.
BoundedWaiting == [][ScanComesNearer]_vars

\* The step of FaultHasNoEffect.
FaultLeavesNothing ==
  (running # 0 /\ running' = 0 /\ runRc' # MB_OK) =>
    /\ UNCHANGED <<hal, mailbox, state, sleepUntil>>
    /\ lastError'[running] = runRc'
    /\ \A r \in Regs : \/ regs'[running][r] = regs[running][r]
                      \/ /\ runRc' = MB_HEAP_OOM
                         /\ IsHeapRef(regs[running][r])
                         /\ regs'[running][r].tag = regs[running][r].tag

\* An instruction that fails part-way leaves nothing behind: the hardware,
\* the mailboxes and the states are as before, and so are the registers, up
\* to the location of heap terms, which a failed allocation may have moved.
FaultHasNoEffect == [][FaultLeavesNothing]_vars

\* The step of EndOfProgramIsFinal.
EndedKeepsFaulting ==
  \A p \in Pids :
    (state[p] = "READY" /\ pc[p] >= Size(p)) =>
      /\ UNCHANGED <<state[p], pc[p], regs[p]>>
      /\ (running = p /\ running' = 0) => runRc' = MB_EOF

\* A process at the end of its program stays there: nothing halts it, it
\* keeps its turn in the round robin and faults with MB_EOF at each one.
EndOfProgramIsFinal == [][EndedKeepsFaulting]_vars

\* The step of EveryStepCounts.
StepUsesReduction ==
  (running # 0 /\ <<pc, regs>>' # <<pc, regs>>) =>
    (running' = 0 \/ reductions'[running] = reductions[running] + 1)

\* While a run goes on each instruction uses up one reduction, so no tick
\* executes more than Reductions instructions.
EveryStepCounts == [][StepUsesReduction]_vars

-----------------------------------------------------------------------------
(* Liveness.                                                               *)

\* No READY process starves: a process that loops, yields or faults at every
\* turn does not keep another from its turn.
ReadyRuns == \A p \in Pids : state[p] = "READY" ~> running = p

\* Every run ends: a program that never yields is stopped by its budget.
RunEnds == running # 0 ~> running = 0

\* A sleeper whose deadline has come leaves SLEEPING.
SleeperWakes ==
  \A p \in Pids :
    (state[p] = "SLEEPING" /\ Now >= sleepUntil[p]) ~> state[p] # "SLEEPING"

-----------------------------------------------------------------------------
(* The actors that the runtime implements.                                 *)

ModeOf(s) == CASE s = "FREE"     -> "absent"
               [] s = "READY"    -> "runnable"
               [] s = "WAITING"  -> "blocked"
               [] s = "SLEEPING" -> "asleep"
               [] s = "HALTED"   -> "done"

Actors == INSTANCE MbActors WITH
            Commands <- ValidCommand,
            Capacity <- MailboxCapacity,
            mode <- [p \in Pids |-> ModeOf(state[p])],
            box <- [p \in Pids |-> Contents(mailbox[p])]

ImplementsActors == Actors!Spec
=============================================================================
