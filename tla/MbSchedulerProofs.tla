------------------------- MODULE MbSchedulerProofs -------------------------
(***************************************************************************)
(* Theorems about MbScheduler for every number of processes, registers,    *)
(* reductions and mailbox cells and for every set of programs, checked by  *)
(* TLAPS.                                                                  *)
(***************************************************************************)
EXTENDS MbScheduler, MbVmProofs

\* Spawned processes have a program to run.
ProgramLoaded ==
  \A p \in Pids : state[p] # "FREE" => program[p] \in DOMAIN Code

\* The free slots are the ones after the first count.
FreeAfterCount == \A p \in Pids : state[p] = "FREE" <=> p > count

\* The inductive invariant.  Type correctness alone is not inductive: an
\* instruction has bytes to fetch only when the process it belongs to has
\* been spawned, which the state of the running process tells.
IInv == TypeOK /\ ModesAgree /\ ProgramLoaded /\ FreeAfterCount

USE VmAssumption, PayloadAssumption, MailboxAssumption, SchedulerAssumption

-----------------------------------------------------------------------------
(* Instructions.                                                           *)

\* The invariant gives an instruction what it relies on ...
LEMMA MachineSound ==
  ASSUME IInv
  PROVE  MachineOK
<1>1. ASSUME NEW p \in Pids, running = p
      PROVE  state[p] = "READY" /\ ~halted[p] /\ program[p] \in DOMAIN Code
  <2>1. running # 0
    BY <1>1 DEF Pids
  <2> QED BY <1>1, <2>1 DEF IInv, ModesAgree, ProgramLoaded
<1> QED BY <1>1 DEF IInv, TypeOK, MachineOK, RegFiles

\* ... and the budget.
LEMMA RunningFacts ==
  ASSUME IInv, NEW p \in Pids, running = p
  PROVE  /\ state[p] = "READY"
         /\ ~halted[p]
         /\ program[p] \in DOMAIN Code
         /\ pc[p] \in Nat
         /\ Size(p) \in Nat
         /\ reductions[p] \in 0..(Reductions - 1)
         /\ regs \in RegFiles
<1>1. running # 0 /\ reductions[p] \in 0..(Reductions + 1)
  BY DEF Pids, IInv, TypeOK
<1>2. reductions[p] < Reductions
  BY <1>1 DEF IInv, ModesAgree
<1>3. reductions[p] \in 0..(Reductions - 1)
  BY <1>1, <1>2
<1> QED BY <1>3, MachineSound, MachineFacts

\* Whatever the program, an instruction ends in one of the three ways.
LEMMA StepEnds ==
  ASSUME IInv, NEW p \in Pids, Step(p)
  PROVE  running = p /\ (Faulted(p) \/ Counted(p) \/ Left(p))
  BY MachineSound, InstructionEnds

\* The budget has room for one more instruction, and for a yield.
LEMMA BudgetType ==
  ASSUME IInv, NEW p \in Pids, running = p
  PROVE  reductions[p] \in 0..Reductions /\ Reductions \in 0..Reductions
  BY RunningFacts

\* A failing instruction keeps the invariant.
LEMMA FaultedPreserves ==
  ASSUME IInv, NEW p \in Pids, running = p, Faulted(p), UNCHANGED <<current, count>>
  PROVE  IInv'
<1>1. PICK at \in Nat, rc \in Status, newRegs \in RegFiles : FaultWith(p, at, rc, newRegs)
  BY DEF Faulted, RegsOf
<1>2. TypeOK'
  BY <1>1 DEF FaultWith, IInv, TypeOK, RegFiles
<1>3. ModesAgree'
  BY <1>1 DEF FaultWith, IInv, ModesAgree
<1>4. ProgramLoaded' /\ FreeAfterCount'
  BY <1>1 DEF FaultWith, IInv, ProgramLoaded, FreeAfterCount
<1> QED BY <1>2, <1>3, <1>4 DEF IInv

\* So does one after which the process is still READY ...
LEMMA CountedPreserves ==
  ASSUME IInv, NEW p \in Pids, running = p, Counted(p), UNCHANGED <<current, count>>
  PROVE  IInv'
<1>1. PICK used \in 0..Reductions : CountReduction(p, used)
  BY BudgetType DEF Counted
<1>2. PICK at \in Nat : pc' = [pc EXCEPT ![p] = at]
  BY DEF Counted
<1>3. reductions' \in [Pids -> 0..(Reductions + 1)] /\ reductions'[p] = used + 1
  <2>1. used + 1 \in 0..(Reductions + 1)
    OBVIOUS
  <2> QED BY <1>1, <2>1 DEF CountReduction, IInv, TypeOK
<1>4. \/ running' = running /\ runRc' = runRc /\ reductions'[p] < Reductions
      \/ running' = 0 /\ runRc' = MB_OK
  BY <1>1, <1>3 DEF CountReduction
<1>5. TypeOK'
  <2>1. running' \in Pids \cup {0} /\ runRc' \in Status
    BY <1>4 DEF IInv, TypeOK, MB_OK, Status
  <2>2. pc' \in [Pids -> Nat]
    BY <1>2 DEF IInv, TypeOK
  <2>3. regs' \in RegFiles /\ lastError' \in [Pids -> Status]
    BY DEF Counted, RegsOf, IInv, TypeOK
  <2> QED BY <1>3, <2>1, <2>2, <2>3 DEF Counted, IInv, TypeOK, RegFiles
<1>6. ModesAgree'
  <2>1. ASSUME NEW q \in Pids PROVE halted'[q] <=> state'[q] = "HALTED"
    BY DEF Counted, MailStep, IInv, ModesAgree
  <2>2. running' # 0 => state'[running'] = "READY" /\ reductions'[running'] < Reductions
    BY <1>4, RunningFacts DEF Counted, MailStep
  <2> QED BY <2>1, <2>2 DEF ModesAgree
<1>7. ASSUME NEW q \in Pids PROVE state'[q] = "FREE" <=> state[q] = "FREE"
  BY DEF Counted, MailStep
<1>8. ProgramLoaded' /\ FreeAfterCount'
  BY <1>7 DEF Counted, IInv, ProgramLoaded, FreeAfterCount
<1> QED BY <1>5, <1>6, <1>8 DEF IInv

\* ... and one that takes it out of READY.
LEMMA LeftPreserves ==
  ASSUME IInv, NEW p \in Pids, running = p, Left(p), UNCHANGED <<current, count>>
  PROVE  IInv'
<1>1. PICK s \in {"WAITING", "SLEEPING", "HALTED"} :
        LeaveReady(p, s) /\ halted' = [halted EXCEPT ![p] = (s = "HALTED")]
  BY DEF Left
<1>2. state[p] = "READY"
  BY RunningFacts
<1>3. TypeOK'
  <2>1. state' \in [Pids -> ProcState] /\ halted' \in [Pids -> BOOLEAN]
    BY <1>1 DEF LeaveReady, IInv, TypeOK, ProcState
  <2>2. running' \in Pids \cup {0} /\ runRc' \in Status
    BY <1>1 DEF LeaveReady, MB_OK, Status
  <2>3. pc' \in [Pids -> Nat] /\ sleepUntil' \in [Pids -> 0..(ClockMod - 1)]
    BY DEF Left, IInv, TypeOK
  <2> QED BY <1>1, <2>1, <2>2, <2>3 DEF LeaveReady, IInv, TypeOK
<1>4. ModesAgree'
  BY <1>1 DEF LeaveReady, IInv, TypeOK, ModesAgree
<1>5. ASSUME NEW q \in Pids PROVE state'[q] = "FREE" <=> state[q] = "FREE"
  BY <1>1, <1>2 DEF LeaveReady, IInv, TypeOK
<1>6. ProgramLoaded' /\ FreeAfterCount'
  BY <1>1, <1>5 DEF LeaveReady, IInv, ProgramLoaded, FreeAfterCount
<1> QED BY <1>3, <1>4, <1>6 DEF IInv

\* So every instruction keeps the invariant.
LEMMA StepPreserves ==
  ASSUME IInv, NEW p \in Pids, Step(p), UNCHANGED <<current, count>>
  PROVE  IInv'
  BY StepEnds, FaultedPreserves, CountedPreserves, LeftPreserves

-----------------------------------------------------------------------------
(* The native calls, the tick and the clock.                               *)

\* mb_sched_init establishes the invariant.
LEMMA InitEstablishes ==
  ASSUME Init
  PROVE  IInv
<1>1. ZeroTerm \in Term /\ MB_OK \in Status /\ EmptyMailbox \in Mailbox
  BY EmptyMailboxType DEF ZeroTerm, Term, TermTag, MB_OK, Status
<1>2. TypeOK
  BY <1>1 DEF Init, TypeOK, ProcState
<1>3. ModesAgree /\ ProgramLoaded /\ FreeAfterCount
  BY DEF Init, ModesAgree, ProgramLoaded, FreeAfterCount, Pids
<1> QED BY <1>2, <1>3 DEF IInv

\* The first free slot is the one behind the live processes.
LEMMA SpawnTakesNext ==
  ASSUME IInv, NEW name, Spawn(name)
  PROVE  /\ count + 1 \in Pids
         /\ state[count + 1] = "FREE"
         /\ ProcInit(count + 1, name)
<1>1. PICK p \in Pids : /\ state[p] = "FREE"
                        /\ \A q \in 1..(p - 1) : state[q] # "FREE"
                        /\ ProcInit(p, name)
  BY DEF Spawn
<1>2. p = count + 1
  <2>1. p > count /\ count \in 0..MaxProcesses
    BY <1>1 DEF IInv, FreeAfterCount, TypeOK
  <2>2. ASSUME p > count + 1 PROVE FALSE
    <3>1. count + 1 \in Pids /\ count + 1 \in 1..(p - 1)
      BY <2>1, <2>2 DEF Pids
    <3>2. state[count + 1] = "FREE"
      BY <2>1, <3>1 DEF IInv, FreeAfterCount
    <3> QED BY <1>1, <3>1, <3>2
  <2> QED BY <2>1, <2>2 DEF Pids
<1> QED BY <1>1, <1>2

\* mb_sched_spawn keeps it: the first free slot is the one after the last.
LEMMA SpawnPreserves ==
  ASSUME IInv, NEW name \in DOMAIN Code, Spawn(name)
  PROVE  IInv'
<1> DEFINE p == count + 1
<1>1. p \in Pids /\ state[p] = "FREE" /\ ProcInit(p, name)
  BY SpawnTakesNext
<1>2. p = count + 1
  OBVIOUS
<1> HIDE DEF p
<1>3. /\ ZeroTerm \in Term /\ MB_OK \in Status /\ EmptyMailbox \in Mailbox
      /\ "READY" \in ProcState
  BY EmptyMailboxType DEF ZeroTerm, Term, TermTag, MB_OK, Status, ProcState
<1>4. TypeOK'
  <2>1. count' \in 0..MaxProcesses
    BY <1>1, <1>2 DEF Spawn, Pids, IInv, TypeOK
  <2>2. 0 \in 0..(ClockMod - 1) /\ 0 \in 0..(Reductions + 1)
    OBVIOUS
  <2> QED BY <1>1, <1>3, <2>1, <2>2 DEF Spawn, ProcInit, IInv, TypeOK
<1>5. ModesAgree'
  <2>1. ASSUME NEW q \in Pids PROVE halted'[q] <=> state'[q] = "HALTED"
    BY <1>1 DEF ProcInit, IInv, TypeOK, ModesAgree
  <2> QED BY <2>1 DEF Spawn, IInv, TypeOK, ModesAgree
<1>6. ProgramLoaded'
  BY <1>1 DEF ProcInit, IInv, TypeOK, ProgramLoaded
<1>7. FreeAfterCount'
  <2>1. ASSUME NEW q \in Pids PROVE state'[q] = "FREE" <=> q > count + 1
    BY <1>1, <1>2 DEF ProcInit, IInv, TypeOK, FreeAfterCount, Pids
  <2> QED BY <2>1 DEF Spawn, FreeAfterCount
<1> QED BY <1>4, <1>5, <1>6, <1>7 DEF IInv

\* mb_sched_send keeps it.
LEMMA SchedSendPreserves ==
  ASSUME IInv, NEW q \in Pids, NEW cmd \in NativeCommands, SchedSend(q, cmd)
  PROVE  IInv'
<1>1. cmd \in Command /\ Live(q) /\ Deliver(q, cmd)
  BY DEF SchedSend
<1>2. /\ mailbox' \in [Pids -> Mailbox]
      /\ state' \in [Pids -> ProcState]
      /\ \A r \in Pids : MailStep(r)
  BY <1>1, MachineSound, DeliverType
<1>3. TypeOK'
  BY <1>2 DEF SchedSend, IInv, TypeOK
<1>4. ModesAgree'
  BY <1>2 DEF SchedSend, MailStep, IInv, ModesAgree
<1>5. ProgramLoaded' /\ FreeAfterCount'
  BY <1>2 DEF SchedSend, MailStep, IInv, ProgramLoaded, FreeAfterCount
<1> QED BY <1>3, <1>4, <1>5 DEF IInv

\* The slot a scan looks at is a slot.
LEMMA ScannedType ==
  ASSUME current \in 0..(MaxProcesses - 1), NEW i \in 0..(MaxProcesses - 1)
  PROVE  Scanned(i) \in Pids
  BY DEF Scanned, Pids

\* The next scan starts at a slot.
LEMMA NextCurrentType ==
  ASSUME NEW p \in Pids
  PROVE  NextCurrent(p) \in 0..(MaxProcesses - 1)
  BY DEF NextCurrent, Pids

\* A tick that runs a process keeps it (mb_sched_tick).
LEMMA TickRunPreserves ==
  ASSUME IInv, TickRun
  PROVE  IInv'
<1>1. PICK i \in 0..(MaxProcesses - 1) :
        /\ Awakened[Scanned(i)] = "READY"
        /\ current' = NextCurrent(Scanned(i))
        /\ reductions' = [reductions EXCEPT ![Scanned(i)] = 0]
        /\ running' = IF halted[Scanned(i)] THEN 0 ELSE Scanned(i)
  BY DEF TickRun
<1> DEFINE p == Scanned(i)
<1>2. p \in Pids
  BY ScannedType DEF IInv, TypeOK
<1> HIDE DEF p
<1>3. /\ state' = Awakened /\ state'[p] = "READY"
      /\ current' = NextCurrent(p)
      /\ reductions' = [reductions EXCEPT ![p] = 0]
      /\ running' = IF halted[p] THEN 0 ELSE p
  BY <1>1 DEF TickRun, p
<1>4. /\ state' \in [Pids -> ProcState]
      /\ \A q \in Pids : \/ state'[q] = state[q]
                         \/ state[q] = "SLEEPING" /\ state'[q] = "READY"
  BY <1>3 DEF Awakened, IInv, TypeOK, ProcState
<1>5. TypeOK'
  <2>1. current' \in 0..(MaxProcesses - 1)
    BY <1>2, <1>3, NextCurrentType
  <2>2. running' \in Pids \cup {0} /\ runRc' \in Status
    BY <1>2, <1>3 DEF TickRun, MB_OK, Status
  <2>3. reductions' \in [Pids -> 0..(Reductions + 1)]
    BY <1>2, <1>3 DEF IInv, TypeOK
  <2> QED BY <1>4, <2>1, <2>2, <2>3 DEF TickRun, IInv, TypeOK
<1>6. ModesAgree'
  <2>1. \A q \in Pids : halted'[q] <=> state'[q] = "HALTED"
    BY <1>4 DEF TickRun, IInv, ModesAgree
  <2>2. running' # 0 => state'[running'] = "READY" /\ reductions'[running'] < Reductions
    BY <1>2, <1>3 DEF IInv, TypeOK
  <2> QED BY <2>1, <2>2 DEF ModesAgree
<1>7. ProgramLoaded' /\ FreeAfterCount'
  BY <1>4 DEF TickRun, IInv, ProgramLoaded, FreeAfterCount
<1> QED BY <1>5, <1>6, <1>7 DEF IInv

\* An idle tick, the clock and a stutter keep it.
LEMMA QuietPreserves ==
  ASSUME IInv, TickIdle \/ ClockTick \/ UNCHANGED vars
  PROVE  IInv'
<1>1. /\ UNCHANGED <<slotVars, running, current, count>>
      /\ runRc' \in Status /\ clock' \in Nat
  BY DEF TickIdle, ClockTick, vars, vmVars, IInv, TypeOK, MB_SCHED_IDLE, Status
<1>2. TypeOK'
  BY <1>1 DEF slotVars, IInv, TypeOK
<1>3. ModesAgree' /\ ProgramLoaded' /\ FreeAfterCount'
  BY <1>1 DEF slotVars, IInv, ModesAgree, ProgramLoaded, FreeAfterCount
<1> QED BY <1>2, <1>3 DEF IInv

-----------------------------------------------------------------------------
(* Type correctness and the modes of a process.                            *)

\* Every step keeps the invariant.
LEMMA NextPreserves ==
  ASSUME IInv, [Next]_vars
  PROVE  IInv'
<1>1. CASE \E name \in DOMAIN Code : Spawn(name)
  BY <1>1, SpawnPreserves
<1>2. CASE \E q \in Pids, cmd \in NativeCommands : SchedSend(q, cmd)
  BY <1>2, SchedSendPreserves
<1>3. CASE TickRun
  BY <1>3, TickRunPreserves
<1>4. CASE TickIdle \/ ClockTick \/ UNCHANGED vars
  BY <1>4, QuietPreserves
<1>5. CASE \E p \in Pids : Run(p)
  BY <1>5, StepPreserves DEF Run
<1> QED BY <1>1, <1>2, <1>3, <1>4, <1>5 DEF Next

\* The invariant holds throughout.
LEMMA Invariance == Spec => []IInv
<1>1. Init => IInv
  BY InitEstablishes
<1>2. IInv /\ [Next]_vars => IInv'
  BY NextPreserves
<1> QED BY <1>1, <1>2, PTL DEF Spec

\* Every variable keeps a value of its C type, whatever the programs do: an
\* instruction that decodes never writes outside the registers, the pc never
\* becomes negative, and no status is invented.
THEOREM TypeCorrect == Spec => []TypeOK
<1>1. IInv => TypeOK
  BY DEF IInv
<1> QED BY <1>1, Invariance, PTL

\* The halted flag and the state HALTED agree, and the process that a run is
\* in is READY with budget left.
THEOREM ModesAlwaysAgree == Spec => []ModesAgree
<1>1. IInv => ModesAgree
  BY DEF IInv
<1> QED BY <1>1, Invariance, PTL
=============================================================================
