--------------------------- MODULE MbSafetyProofs ---------------------------
(***************************************************************************)
(* The safety properties of MbScheduler as theorems: no wake-up is lost,   *)
(* mailboxes hold valid commands in order, the process table is dense,     *)
(* what a step may never do, and that the scheduler implements the actors  *)
(* of MbActors.  They rest on IInv and on the three ways a step ends, of   *)
(* MbSchedulerProofs.                                                      *)
(***************************************************************************)
EXTENDS MbSchedulerProofs, FiniteSetTheorems

\* The queued commands are in S.
Holds(mb, S) == \A i \in 1..mb.count : Contents(mb)[i] \in S

\* What MailboxesSound says of one mailbox.
Sound(mb) == RingWellFormed(mb) /\ Holds(mb, ValidCommand)

\* A free slot's mailbox is the one mb_sched_init left.
FreeIsEmpty == \A p \in Pids : state[p] = "FREE" => mailbox[p] = EmptyMailbox

\* IInv with what it does not say about mailboxes.
MailInv == NoLostWakeup /\ MailboxesSound /\ FreeIsEmpty

USE VmAssumption, MailboxAssumption, SchedulerAssumption

-----------------------------------------------------------------------------
(* Mailboxes.                                                              *)

\* The mailbox mb_proc_init leaves is sound.
LEMMA EmptySound == Sound(EmptyMailbox)
<1>1. EmptyMailbox.head = 0 /\ EmptyMailbox.tail = 0 /\ EmptyMailbox.count = 0
  BY DEF EmptyMailbox
<1>2. (0 + 0) % MailboxCapacity = 0
  OBVIOUS
<1> QED BY <1>1, <1>2 DEF Sound, Holds, RingWellFormed

\* A pop, and an accepted push of a command of S, leave commands of S.
LEMMA MoveHolds ==
  ASSUME NEW S, NEW mb \in Mailbox, NEW next, RingWellFormed(mb), Holds(mb, S),
         \/ mb.count # 0 /\ next = Popped(mb)
         \/ \E cmd \in Command : /\ PushStatus(mb, cmd) = MB_OK /\ cmd \in S
                               /\ next = Pushed(mb, cmd)
  PROVE  Holds(next, S)
<1>1. Contents(mb) \in Seq(Command) /\ Len(Contents(mb)) = mb.count /\ mb.count \in Nat
  BY ContentsType, MailboxFields
<1>2. CASE mb.count # 0 /\ next = Popped(mb)
  <2>1. next.count = mb.count - 1
    BY <1>2 DEF Popped
  <2>2. ASSUME NEW i \in 1..next.count PROVE Contents(next)[i] \in S
    <3>1. Contents(next) = Tail(Contents(mb)) /\ Contents(mb) # << >>
      BY <1>2, PoppedContents
    <3>2. Tail(Contents(mb))[i] = Contents(mb)[i + 1]
      BY <1>1, <2>1, <3>1, HeadTailProperties
    <3>3. i + 1 \in 1..mb.count
      BY <1>1, <2>1
    <3> QED BY <3>1, <3>2, <3>3 DEF Holds
  <2> QED BY <2>2 DEF Holds
<1>3. CASE \E cmd \in Command : PushStatus(mb, cmd) = MB_OK /\ cmd \in S /\ next = Pushed(mb, cmd)
  <2>1. PICK cmd \in Command : PushStatus(mb, cmd) = MB_OK /\ cmd \in S /\ next = Pushed(mb, cmd)
    BY <1>3
  <2>2. next.count = mb.count + 1
    BY <2>1 DEF Pushed
  <2>3. Contents(next) = Append(Contents(mb), cmd)
    BY <2>1, PushStatusOk, PushedContents
  <2>4. ASSUME NEW i \in 1..next.count PROVE Contents(next)[i] \in S
    <3>1. CASE i = mb.count + 1
      BY <1>1, <2>1, <2>3, <3>1, AppendProperties
    <3>2. CASE i # mb.count + 1
      <4>1. i \in 1..mb.count
        BY <1>1, <2>2, <3>2
      <4>2. Append(Contents(mb), cmd)[i] = Contents(mb)[i]
        BY <1>1, <2>1, <4>1, AppendProperties
      <4> QED BY <2>3, <4>1, <4>2 DEF Holds
    <3> QED BY <3>1, <3>2
  <2> QED BY <2>4 DEF Holds
<1> QED BY <1>2, <1>3

\* A push that is accepted and a pop keep a mailbox sound.
LEMMA MoveSound ==
  ASSUME NEW mb \in Mailbox, NEW next, Sound(mb), RingMoves(mb, next)
  PROVE  Sound(next)
<1>1. RingWellFormed(next)
  BY PoppedWellFormed, PushedWellFormed, PushStatusOk DEF Sound, RingMoves
<1>2. ASSUME NEW cmd \in Command, PushStatus(mb, cmd) = MB_OK
      PROVE  cmd \in ValidCommand
  BY <1>2, PushStatusOk DEF ValidCommand
<1>3. Holds(next, ValidCommand)
  BY <1>2, MoveHolds DEF Sound, RingMoves
<1> QED BY <1>1, <1>3 DEF Sound

\* A step that treats every process as MailStep allows keeps MailInv.
LEMMA MailStepPreserves ==
  ASSUME IInv, MailInv, \A q \in Pids : MailStep(q)
  PROVE  MailInv'
<1>1. ASSUME NEW q \in Pids
      PROVE  /\ state'[q] = "WAITING" => mailbox'[q].count = 0
             /\ Sound(mailbox'[q])
             /\ state'[q] = "FREE" => mailbox'[q] = EmptyMailbox
  <2>1. MailStep(q) /\ mailbox[q] \in Mailbox
    BY DEF IInv, TypeOK
  <2>2. Sound(mailbox[q])
    BY DEF MailInv, MailboxesSound, Sound, Holds
  <2>3. Sound(mailbox'[q])
    BY <2>1, <2>2, MoveSound DEF MailStep
  <2>4. state'[q] = "WAITING" => mailbox'[q].count = 0
    BY <2>1 DEF MailStep, MailInv, NoLostWakeup
  <2>5. state'[q] = "FREE" => mailbox'[q] = EmptyMailbox
    BY <2>1 DEF MailStep, MailInv, FreeIsEmpty
  <2> QED BY <2>3, <2>4, <2>5
<1> QED BY <1>1 DEF MailInv, NoLostWakeup, MailboxesSound, FreeIsEmpty, Sound, Holds

\* An instruction keeps MailInv (mb_proc_step).
LEMMA StepKeepsMail ==
  ASSUME IInv, MailInv, NEW p \in Pids, Step(p)
  PROVE  MailInv'
<1>1. running = p /\ (Faulted(p) \/ Counted(p) \/ Left(p))
  BY StepEnds
<1>2. state[p] = "READY" /\ state \in [Pids -> ProcState]
  BY <1>1, RunningFacts DEF IInv, TypeOK
<1>3. CASE Faulted(p)
  <2>1. UNCHANGED <<state, mailbox>>
    BY <1>3 DEF Faulted, FaultWith
  <2> QED BY <2>1, MailStepPreserves DEF MailStep
<1>4. CASE Counted(p)
  BY <1>4, MailStepPreserves DEF Counted
<1>5. CASE Left(p)
  <2>1. PICK s \in {"WAITING", "SLEEPING", "HALTED"} :
          LeaveReady(p, s) /\ (s = "WAITING" => mailbox[p].count = 0)
    BY <1>5 DEF Left
  <2>2. state' = [state EXCEPT ![p] = s] /\ mailbox' = mailbox
    BY <2>1 DEF LeaveReady
  <2>3. NoLostWakeup'
    BY <1>2, <2>1, <2>2 DEF MailInv, NoLostWakeup
  <2>4. MailboxesSound'
    BY <2>2 DEF MailInv, MailboxesSound
  <2>5. FreeIsEmpty'
    BY <1>2, <2>2 DEF MailInv, FreeIsEmpty
  <2> QED BY <2>3, <2>4, <2>5 DEF MailInv
<1> QED BY <1>1, <1>3, <1>4, <1>5

\* So does a spawn (mb_sched_spawn).
LEMMA SpawnKeepsMail ==
  ASSUME IInv, MailInv, NEW name \in DOMAIN Code, Spawn(name)
  PROVE  MailInv'
<1>1. PICK p \in Pids : ProcInit(p, name)
  BY DEF Spawn
<1>2. /\ state' = [state EXCEPT ![p] = "READY"]
      /\ mailbox' = [mailbox EXCEPT ![p] = EmptyMailbox]
      /\ state \in [Pids -> ProcState] /\ mailbox \in [Pids -> Mailbox]
  BY <1>1 DEF ProcInit, IInv, TypeOK
<1>3. ASSUME NEW q \in Pids
      PROVE  \/ state'[q] = "READY" /\ mailbox'[q] = EmptyMailbox
             \/ state'[q] = state[q] /\ mailbox'[q] = mailbox[q]
  BY <1>2
<1>4. ASSUME NEW q \in Pids PROVE Sound(mailbox'[q])
  BY <1>3, EmptySound DEF MailInv, MailboxesSound, Sound, Holds
<1>5. MailboxesSound'
  BY <1>4 DEF MailboxesSound, Sound, Holds
<1>6. NoLostWakeup' /\ FreeIsEmpty'
  BY <1>3 DEF MailInv, NoLostWakeup, FreeIsEmpty
<1> QED BY <1>5, <1>6 DEF MailInv

\* So does every step.
LEMMA NextKeepsMail ==
  ASSUME IInv, MailInv, [Next]_vars
  PROVE  MailInv'
<1>1. CASE \E name \in DOMAIN Code : Spawn(name)
  BY <1>1, SpawnKeepsMail
<1>2. CASE \E q \in Pids, cmd \in NativeCommands : SchedSend(q, cmd)
  <2>1. PICK q \in Pids, cmd \in NativeCommands : SchedSend(q, cmd)
    BY <1>2
  <2>2. cmd \in Command /\ Live(q) /\ Deliver(q, cmd)
    BY <2>1 DEF SchedSend
  <2>3. \A r \in Pids : MailStep(r)
    BY <2>2, MachineSound, DeliverType
  <2> QED BY <2>3, MailStepPreserves
<1>3. CASE TickRun
  <2>1. state' = Awakened /\ mailbox' = mailbox
    BY <1>3 DEF TickRun
  <2>2. ASSUME NEW q \in Pids PROVE state'[q] = state[q] \/ state'[q] = "READY"
    BY <2>1 DEF Awakened, IInv, TypeOK
  <2> QED BY <2>1, <2>2 DEF MailInv, NoLostWakeup, MailboxesSound, FreeIsEmpty
<1>4. CASE TickIdle \/ ClockTick \/ UNCHANGED vars
  <2>1. UNCHANGED <<state, mailbox>>
    BY <1>4 DEF TickIdle, ClockTick, vars, vmVars, slotVars
  <2> QED BY <2>1 DEF MailInv, NoLostWakeup, MailboxesSound, FreeIsEmpty
<1>5. CASE \E p \in Pids : Run(p)
  BY <1>5, StepKeepsMail DEF Run
<1> QED BY <1>1, <1>2, <1>3, <1>4, <1>5 DEF Next

\* mb_sched_init leaves every mailbox empty.
LEMMA InitEstablishesMail ==
  ASSUME Init
  PROVE  MailInv
<1>1. ASSUME NEW q \in Pids PROVE Sound(mailbox[q])
  BY <1>1, EmptySound DEF Init
<1>2. MailboxesSound
  BY <1>1 DEF MailboxesSound, Sound, Holds
<1>3. NoLostWakeup /\ FreeIsEmpty
  BY DEF Init, NoLostWakeup, FreeIsEmpty
<1> QED BY <1>2, <1>3 DEF MailInv

\* Both invariants hold throughout.
LEMMA MailInvariance == Spec => [](IInv /\ MailInv)
<1>1. Init => MailInv
  BY InitEstablishesMail
<1>2. Init => IInv
  BY InitEstablishes
<1>3. IInv /\ MailInv /\ [Next]_vars => IInv' /\ MailInv'
  BY NextPreserves, NextKeepsMail
<1> QED BY <1>1, <1>2, <1>3, PTL DEF Spec

\* A WAITING process has an empty mailbox: RECV_CMD looks at the mailbox and
\* blocks in one step, and SEND and mb_sched_send push and wake in one step,
\* so no command is ever left behind a receiver that sleeps.
THEOREM NoWakeupIsLost == Spec => []NoLostWakeup
<1>1. MailInv => NoLostWakeup
  BY DEF MailInv
<1> QED BY <1>1, MailInvariance, PTL

\* Every queued command passes mb_validate_command, and head, tail and count
\* of each ring agree, after any sequence of pushes and pops.
THEOREM MailboxesStaySound == Spec => []MailboxesSound
<1>1. MailInv => MailboxesSound
  BY DEF MailInv
<1> QED BY <1>1, MailInvariance, PTL

\* The live processes are the pids 1..count, and a free slot's mailbox is
\* empty: mb_sched_spawn gives out pids in order and nothing frees a slot.
THEOREM TableStaysDense == Spec => []TableDense
<1>1. ASSUME IInv, MailInv PROVE TableDense
  <2>1. \A p \in Pids : state[p] = "FREE" <=> p > count
    BY <1>1 DEF IInv, FreeAfterCount
  <2>2. count \in 0..MaxProcesses
    BY <1>1 DEF IInv, TypeOK
  <2>3. {p \in Pids : state[p] # "FREE"} = 1..count
    BY <2>1, <2>2 DEF Pids
  <2>4. Cardinality(1..count) = count
    <3>1. count \in Int /\ 1 \in Int /\ (1 > count => count = 0)
      BY <2>2
    <3> QED BY <2>2, <3>1, FS_Interval
  <2> QED BY <1>1, <2>1, <2>3, <2>4 DEF TableDense, MailInv, FreeIsEmpty
<1>2. IInv /\ MailInv => TableDense
  BY <1>1
<1> QED BY <1>2, MailInvariance, PTL

-----------------------------------------------------------------------------
(* What a step may never do.                                               *)

\* The running process is the only one whose step can be taken.
LEMMA StepKeepsOthers ==
  ASSUME IInv, NEW r \in Pids, Step(r), NEW p \in Pids, p # r
  PROVE  /\ UNCHANGED <<program[p], pc[p], regs[p], halted[p], lastError[p], sleepUntil[p]>>
         /\ \/ state'[p] = state[p]
            \/ state[p] = "WAITING" /\ state'[p] = "READY"
<1>1. Faulted(r) \/ Counted(r) \/ Left(r)
  BY StepEnds
<1>2. CASE Faulted(r)
  BY <1>2 DEF Faulted, FaultWith, RegsOf, OthersKept, IInv, TypeOK
<1>3. CASE Counted(r)
  BY <1>3 DEF Counted, MailStep, RegsOf, OthersKept, IInv, TypeOK
<1>4. CASE Left(r)
  BY <1>4 DEF Left, LeaveReady, IInv, TypeOK
<1> QED BY <1>1, <1>2, <1>3, <1>4

\* A spawn changes a free slot only.
LEMMA SpawnKeepsLive ==
  ASSUME IInv, NEW name \in DOMAIN Code, Spawn(name), NEW p \in Pids, state[p] # "FREE"
  PROVE  UNCHANGED <<state[p], program[p], pc[p], regs[p], halted[p], lastError[p],
                     sleepUntil[p]>>
<1>1. PICK q \in Pids : state[q] = "FREE" /\ ProcInit(q, name)
  BY DEF Spawn
<1>2. p # q
  BY <1>1
<1> QED BY <1>1, <1>2 DEF ProcInit, IInv, TypeOK

\* Native sends, ticks and the clock leave programs, pcs and registers alone
\* and only wake.
LEMMA NativeKeeps ==
  ASSUME IInv,
         \/ \E q \in Pids, cmd \in NativeCommands : SchedSend(q, cmd)
         \/ TickRun \/ TickIdle \/ ClockTick \/ UNCHANGED vars
  PROVE  /\ UNCHANGED <<program, pc, regs, halted, lastError, sleepUntil>>
         /\ \A p \in Pids : \/ state'[p] = state[p]
                            \/ state[p] \in {"WAITING", "SLEEPING"} /\ state'[p] = "READY"
<1>1. CASE \E q \in Pids, cmd \in NativeCommands : SchedSend(q, cmd)
  <2>1. PICK q \in Pids, cmd \in NativeCommands : SchedSend(q, cmd)
    BY <1>1
  <2>2. \A p \in Pids : MailStep(p)
    BY <2>1, MachineSound, DeliverType DEF SchedSend
  <2> QED BY <2>1, <2>2 DEF SchedSend, MailStep
<1>2. CASE TickRun
  BY <1>2 DEF TickRun, Awakened, IInv, TypeOK
<1>3. CASE TickIdle \/ ClockTick \/ UNCHANGED vars
  BY <1>3 DEF TickIdle, ClockTick, vars, vmVars, slotVars
<1> QED BY <1>1, <1>2, <1>3

\* Processes share nothing but mailboxes.
THEOREM ProcessesAreIsolated == Spec => Isolation
<1>1. ASSUME IInv, [Next]_vars PROVE OthersUntouched
  <2>1. SUFFICES ASSUME NEW p \in Pids, state[p] # "FREE", p # running
                 PROVE  UNCHANGED <<program[p], pc[p], regs[p], halted[p], lastError[p],
                                    sleepUntil[p]>>
    BY DEF OthersUntouched
  <2>2. CASE \E name \in DOMAIN Code : Spawn(name)
    BY <1>1, <2>1, <2>2, SpawnKeepsLive
  <2>3. CASE \E r \in Pids : Run(r)
    <3>1. PICK r \in Pids : Step(r)
      BY <2>3 DEF Run
    <3>2. running = r
      BY <1>1, <3>1, StepEnds
    <3> QED BY <1>1, <2>1, <3>1, <3>2, StepKeepsOthers
  <2>4. CASE \/ \E q \in Pids, cmd \in NativeCommands : SchedSend(q, cmd)
             \/ TickRun \/ TickIdle \/ ClockTick \/ UNCHANGED vars
    BY <1>1, <2>4, NativeKeeps
  <2> QED BY <1>1, <2>2, <2>3, <2>4 DEF Next
<1>2. IInv /\ [Next]_vars => [OthersUntouched]_vars
  BY <1>1
<1> QED BY <1>2, Invariance, PTL DEF Spec, Isolation

\* No send, wake-up or deadline revives a halted process.
THEOREM HaltedStaysHalted == Spec => HaltedIsFinal
<1>1. ASSUME IInv, [Next]_vars PROVE HaltedUntouched
  <2>1. SUFFICES ASSUME NEW p \in Pids, state[p] = "HALTED"
                 PROVE  state'[p] = "HALTED" /\ regs'[p] = regs[p] /\ pc'[p] = pc[p]
    BY DEF HaltedUntouched
  <2>2. CASE \E name \in DOMAIN Code : Spawn(name)
    BY <1>1, <2>1, <2>2, SpawnKeepsLive
  <2>3. CASE \E r \in Pids : Run(r)
    <3>1. PICK r \in Pids : Step(r)
      BY <2>3 DEF Run
    <3>2. p # r
      BY <1>1, <2>1, <3>1, StepEnds, RunningFacts
    <3> QED BY <1>1, <2>1, <3>1, <3>2, StepKeepsOthers
  <2>4. CASE \/ \E q \in Pids, cmd \in NativeCommands : SchedSend(q, cmd)
             \/ TickRun \/ TickIdle \/ ClockTick \/ UNCHANGED vars
    BY <1>1, <2>1, <2>4, NativeKeeps
  <2> QED BY <1>1, <2>2, <2>3, <2>4 DEF Next
<1>2. IInv /\ [Next]_vars => [HaltedUntouched]_vars
  BY <1>1
<1> QED BY <1>2, Invariance, PTL DEF Spec, HaltedIsFinal

\* A tick runs at most Reductions instructions: each one that does not end
\* the run uses one of them.
THEOREM StepsAreCounted == Spec => EveryStepCounts
<1>1. ASSUME IInv, [Next]_vars PROVE StepUsesReduction
  <2>1. SUFFICES ASSUME running # 0, <<pc, regs>>' # <<pc, regs>>
                 PROVE  running' = 0 \/ reductions'[running] = reductions[running] + 1
    BY DEF StepUsesReduction
  <2>2. CASE \E name \in DOMAIN Code : Spawn(name)
    BY <2>1, <2>2 DEF Spawn
  <2>3. CASE \E r \in Pids : Run(r)
    <3>1. PICK r \in Pids : Step(r)
      BY <2>3 DEF Run
    <3>2. running = r /\ (Faulted(r) \/ Counted(r) \/ Left(r))
      BY <1>1, <3>1, StepEnds
    <3>3. CASE Faulted(r) \/ Left(r)
      BY <3>3 DEF Faulted, FaultWith, Left, LeaveReady
    <3>4. CASE Counted(r)
      <4>1. PICK used \in {reductions[r], Reductions} : CountReduction(r, used)
        BY <3>4 DEF Counted
      <4>2. CASE used = reductions[r]
        BY <1>1, <3>2, <4>1, <4>2 DEF CountReduction, IInv, TypeOK
      <4>3. CASE used = Reductions
        <5>1. ~(Reductions + 1 < Reductions)
          OBVIOUS
        <5> QED BY <4>1, <4>3, <5>1 DEF CountReduction
      <4> QED BY <4>1, <4>2, <4>3
    <3> QED BY <3>2, <3>3, <3>4
  <2>4. CASE \/ \E q \in Pids, cmd \in NativeCommands : SchedSend(q, cmd)
             \/ TickRun \/ TickIdle \/ ClockTick \/ UNCHANGED vars
    BY <1>1, <2>1, <2>4, NativeKeeps
  <2> QED BY <1>1, <2>2, <2>3, <2>4 DEF Next
<1>2. IInv /\ [Next]_vars => [StepUsesReduction]_vars
  BY <1>1
<1> QED BY <1>2, Invariance, PTL DEF Spec, EveryStepCounts

\* A faulting instruction has no effect but its error and the pc.
THEOREM FaultsHaveNoEffect == Spec => FaultHasNoEffect
<1>1. ASSUME IInv, [Next]_vars PROVE FaultLeavesNothing
  <2>1. SUFFICES ASSUME running # 0, running' = 0, runRc' # MB_OK
                 PROVE  /\ UNCHANGED <<hal, mailbox, state, sleepUntil>>
                        /\ lastError'[running] = runRc'
                        /\ \A r \in Regs :
                             \/ regs'[running][r] = regs[running][r]
                             \/ /\ runRc' = MB_HEAP_OOM
                                /\ IsHeapRef(regs[running][r])
                                /\ regs'[running][r].tag = regs[running][r].tag
    BY DEF FaultLeavesNothing
  <2>2. \E p \in Pids : Run(p)
    BY <1>1, <2>1 DEF Next, Spawn, SchedSend, TickRun, TickIdle, ClockTick, vars, vmVars
  <2>3. PICK p \in Pids : Step(p)
    BY <2>2 DEF Run
  <2>4. running = p /\ (Faulted(p) \/ Counted(p) \/ Left(p))
    BY <1>1, <2>3, StepEnds
  <2>5. ~Counted(p) /\ ~Left(p)
    BY <2>1 DEF Counted, CountReduction, Left, LeaveReady
  <2>6. PICK at \in Nat, rc \in Status, newRegs \in RegsOf(p) :
          /\ FaultWith(p, at, rc, newRegs)
          /\ newRegs = regs \/ (rc = MB_HEAP_OOM /\ Relocated(p, newRegs))
    BY <2>4, <2>5 DEF Faulted
  <2>7. /\ UNCHANGED <<hal, mailbox, state, sleepUntil>>
        /\ regs' = newRegs /\ runRc' = rc
        /\ lastError' = [lastError EXCEPT ![p] = rc]
    BY <2>6 DEF FaultWith
  <2>8. lastError'[p] = rc
    BY <1>1, <2>7 DEF IInv, TypeOK
  <2> QED BY <2>4, <2>6, <2>7, <2>8 DEF Relocated
<1>2. IInv /\ [Next]_vars => [FaultLeavesNothing]_vars
  BY <1>1
<1> QED BY <1>2, Invariance, PTL DEF Spec, FaultHasNoEffect

\* A process past the end of its program faults with MB_EOF for ever.
THEOREM EndedStaysEnded == Spec => EndOfProgramIsFinal
<1>1. ASSUME IInv, [Next]_vars PROVE EndedKeepsFaulting
  <2>1. SUFFICES ASSUME NEW p \in Pids, state[p] = "READY", pc[p] >= Size(p)
                 PROVE  /\ UNCHANGED <<state[p], pc[p], regs[p]>>
                        /\ (running = p /\ running' = 0) => runRc' = MB_EOF
    BY DEF EndedKeepsFaulting
  <2>2. CASE \E name \in DOMAIN Code : Spawn(name)
    <3>1. running = 0 /\ p # 0
      BY <2>2 DEF Spawn, Pids
    <3> QED BY <1>1, <2>1, <2>2, <3>1, SpawnKeepsLive
  <2>3. CASE \E r \in Pids : Run(r)
    <3>1. PICK r \in Pids : Step(r)
      BY <2>3 DEF Run
    <3>2. running = r
      BY <1>1, <3>1, StepEnds
    <3>3. CASE p # r
      BY <1>1, <2>1, <3>1, <3>2, <3>3, StepKeepsOthers
    <3>4. CASE p = r
      <4>1. ~Fetchable(p, 0)
        BY <1>1, <2>1, <3>2, <3>4, RunningFacts DEF Fetchable
      <4>2. NoOpcode(p)
        BY <3>1, <3>4, <4>1 DEF Step, TruncatedOperands, BadRegister, BadOpcode, Nop,
           ConstI32, Move, Add, Sub, Self, Yield, Jmp, JmpIfZero, CallBifUndecoded,
           CallBif, RecvCmd, RecvCmdBlocks, Send, SleepMs, Halt, MakeTupleUndecoded,
           MakeTuple, Cons, TupleElem, HeadOrTail, ConsWord, Decoded, Executing
      <4>3. FaultWith(p, pc[p], MB_EOF, regs)
        BY <4>2 DEF NoOpcode, Fault
      <4> QED BY <1>1, <4>3 DEF FaultWith, IInv, TypeOK
    <3> QED BY <3>3, <3>4
  <2>4. CASE \/ \E q \in Pids, cmd \in NativeCommands : SchedSend(q, cmd)
             \/ TickRun \/ TickIdle \/ ClockTick \/ UNCHANGED vars
    <3>1. running = p => running' = running
      BY <2>4 DEF SchedSend, TickRun, TickIdle, ClockTick, vars, vmVars, Pids
    <3>2. p # 0
      BY DEF Pids
    <3> QED BY <1>1, <2>1, <2>4, <3>1, <3>2, NativeKeeps
  <2> QED BY <1>1, <2>2, <2>3, <2>4 DEF Next
<1>2. IInv /\ [Next]_vars => [EndedKeepsFaulting]_vars
  BY <1>1
<1> QED BY <1>2, Invariance, PTL DEF Spec, EndOfProgramIsFinal

-----------------------------------------------------------------------------
(* Round robin.                                                            *)

\* Going round n slots from c: slot x is reached after (x - c) % n places,
\* and after a scan that stopped i places on, that many fewer.
LEMMA RoundTrip ==
  ASSUME NEW n \in Nat \ {0}, NEW c \in 0..(n - 1), NEW x \in 0..(n - 1)
  PROVE  /\ (x - c) % n \in 0..(n - 1)
         /\ (c + ((x - c) % n)) % n = x
         /\ \A i \in 0..(n - 1) :
              i < (x - c) % n =>
                (x - ((((c + i) % n) + 1) % n)) % n < (x - c) % n
<1>1. (x - c) % n \in 0..(n - 1)
  OBVIOUS
<1>2. (c + ((x - c) % n)) % n = x
  OBVIOUS
<1>3. ASSUME NEW i \in 0..(n - 1), i < (x - c) % n
      PROVE  (x - ((((c + i) % n) + 1) % n)) % n < (x - c) % n
  BY <1>3
<1> QED BY <1>1, <1>2, <1>3

\* No process is overtaken for ever: a tick that leaves a READY process
\* waiting brings the scan nearer to it.
THEOREM WaitingIsBounded == Spec => BoundedWaiting
<1>1. ASSUME IInv, [Next]_vars PROVE ScanComesNearer
  <2>1. SUFFICES ASSUME NEW p \in Pids, TickRun, state[p] = "READY", running' # p
                 PROVE  Distance(p)' < Distance(p)
    BY DEF ScanComesNearer
  <2> DEFINE d == Distance(p)
             x == p - 1
  <2>2. PICK i \in 0..(MaxProcesses - 1) :
          /\ \A j \in 0..(i - 1) : Awakened[Scanned(j)] # "READY"
          /\ current' = NextCurrent(Scanned(i))
          /\ running' = IF halted[Scanned(i)] THEN 0 ELSE Scanned(i)
    BY <2>1 DEF TickRun
  <2>3. current \in 0..(MaxProcesses - 1) /\ x \in 0..(MaxProcesses - 1) /\ p = x + 1
    BY <1>1 DEF IInv, TypeOK, Pids
  <2>4. d = (x - current) % MaxProcesses
    BY DEF Distance
  <2> HIDE DEF d, x
  <2>11. /\ (x - current) % MaxProcesses \in 0..(MaxProcesses - 1)
         /\ (current + ((x - current) % MaxProcesses)) % MaxProcesses = x
         /\ \A j \in 0..(MaxProcesses - 1) :
              j < (x - current) % MaxProcesses =>
                (x - ((((current + j) % MaxProcesses) + 1) % MaxProcesses)) % MaxProcesses
                  < (x - current) % MaxProcesses
    BY <2>3, RoundTrip
  <2>5. d \in 0..(MaxProcesses - 1) /\ Scanned(d) = p
    <3>1. (current + d) % MaxProcesses = x
      BY <2>3, <2>4, <2>11
    <3> QED BY <2>3, <2>4, <2>11, <3>1 DEF Scanned
  <2>6. Awakened[p] = "READY" /\ ~halted[p]
    BY <1>1, <2>1 DEF Awakened, IInv, ModesAgree
  <2>7. i < d
    <3>1. ~(d < i)
      BY <2>2, <2>5, <2>6
    <3>2. i # d
      BY <2>1, <2>2, <2>5, <2>6
    <3> QED BY <2>5, <3>1, <3>2
  <2>8. current' = (((current + i) % MaxProcesses) + 1) % MaxProcesses
    BY <2>2 DEF NextCurrent, Scanned
  <2>9. (x - ((((current + i) % MaxProcesses) + 1) % MaxProcesses)) % MaxProcesses < d
    BY <2>4, <2>7, <2>11
  <2>10. Distance(p) = d
    BY DEF d
  <2>12. (x - current') % MaxProcesses < d
    <3> DEFINE next == (((current + i) % MaxProcesses) + 1) % MaxProcesses
    <3>1. next \in Int /\ current' = next
      BY <2>3, <2>8
    <3>2. (x - next) % MaxProcesses < d
      BY <2>3, <2>5, <2>9
    <3> HIDE DEF next
    <3> QED BY <2>3, <2>5, <3>1, <3>2
  <2> QED BY <2>10, <2>12 DEF Distance, x
<1>2. IInv /\ [Next]_vars => [ScanComesNearer]_vars
  BY <1>1
<1> QED BY <1>2, Invariance, PTL DEF Spec, BoundedWaiting


-----------------------------------------------------------------------------
(* Well-formed programs.                                                   *)

\* A step keeps every process at an instruction.
LEMMA StepStaysOnInstructions ==
  ASSUME IInv, OnInstructions, NEW r \in Pids, Step(r)
  PROVE  OnInstructions' /\ DecodesWhole
<1>1. running = r /\ ~halted[r] /\ MachineOK
  BY StepEnds, RunningFacts, MachineSound
<1>2. /\ program' = program
      /\ \A q \in Pids : q # r => pc'[q] = pc[q] /\ halted'[q] = halted[q]
  BY StepKeepsOthers, StepEnds DEF Faulted, FaultWith, Counted, Left, LeaveReady
<1>3. ASSUME program[r] \in WellFormed
      PROVE  /\ pc[r] \in StartsOf[program[r]]
             /\ pc'[r] \in StartsOf[program[r]] \/ halted'[r]
             /\ running' = 0 => runRc' \notin DecodingErrors
  <2>1. pc[r] \in StartsOf[program[r]]
    BY <1>1, <1>3 DEF OnInstructions
  <2> QED BY <1>1, <1>3, <2>1, InstructionGoesOn
<1>4. OnInstructions'
  <2>1. SUFFICES ASSUME NEW q \in Pids, program'[q] \in WellFormed, ~halted'[q]
                 PROVE  pc'[q] \in StartsOf[program'[q]]
    BY DEF OnInstructions
  <2>2. CASE q = r
    BY <1>2, <1>3, <2>1, <2>2
  <2>3. CASE q # r
    BY <1>2, <2>1, <2>3 DEF OnInstructions
  <2> QED BY <2>2, <2>3
<1>5. DecodesWhole
  BY <1>1, <1>3 DEF DecodesWhole
<1> QED BY <1>4, <1>5

\* A process starts at the first instruction.
LEMMA SpawnStaysOnInstructions ==
  ASSUME IInv, OnInstructions, NEW name, Spawn(name)
  PROVE  OnInstructions' /\ DecodesWhole
<1>1. PICK q \in Pids :
        /\ program' = [program EXCEPT ![q] = name]
        /\ pc' = [pc EXCEPT ![q] = 0]
        /\ halted' = [halted EXCEPT ![q] = FALSE]
  BY DEF Spawn, ProcInit
<1>2. ASSUME NEW p \in Pids, program'[p] \in WellFormed, ~halted'[p]
      PROVE  pc'[p] \in StartsOf[program'[p]]
  <2>1. CASE p = q
    BY <1>1, <1>2, <2>1, WellFormedFacts DEF IInv, TypeOK
  <2>2. CASE p # q
    BY <1>1, <1>2, <2>2 DEF IInv, TypeOK, OnInstructions
  <2> QED BY <2>1, <2>2
<1>3. DecodesWhole
  BY DEF Spawn, DecodesWhole
<1> QED BY <1>2, <1>3 DEF OnInstructions

\* Every step does.
LEMMA NextStaysOnInstructions ==
  ASSUME IInv, OnInstructions, [Next]_vars
  PROVE  OnInstructions' /\ [DecodesWhole]_vmVars
<1>1. CASE \E name \in DOMAIN Code : Spawn(name)
  BY <1>1, SpawnStaysOnInstructions
<1>2. CASE \E r \in Pids : Run(r)
  BY <1>2, StepStaysOnInstructions DEF Run
<1>3. CASE \/ \E q \in Pids, cmd \in NativeCommands : SchedSend(q, cmd)
           \/ TickRun \/ TickIdle \/ ClockTick \/ UNCHANGED vars
  <2>1. OnInstructions'
    BY <1>3, NativeKeeps DEF OnInstructions
  <2>2. [DecodesWhole]_vmVars
    <3>1. CASE running = 0
      BY <3>1 DEF DecodesWhole
    <3>2. CASE running # 0
      <4>1. ClockTick \/ UNCHANGED vars
        BY <1>3, <3>2 DEF SchedSend, TickRun, TickIdle
      <4>2. running' = running
        BY <4>1 DEF ClockTick, vars, vmVars
      <4>3. program[running] \in WellFormed => pc[running] \in StartsOf[program[running]]
        <5>1. running \in Pids
          BY <3>2 DEF IInv, TypeOK
        <5>2. ~halted[running]
          BY <5>1, RunningFacts
        <5> QED BY <5>1, <5>2 DEF OnInstructions
      <4> QED BY <3>2, <4>2, <4>3 DEF DecodesWhole
    <3> QED BY <3>1, <3>2
  <2> QED BY <2>1, <2>2
<1> QED BY <1>1, <1>2, <1>3 DEF Next

\* Nothing has been executed at first.
LEMMA InitOnInstructions ==
  ASSUME Init
  PROVE  OnInstructions
<1>1. SUFFICES ASSUME NEW p \in Pids, program[p] \in WellFormed
               PROVE  pc[p] \in StartsOf[program[p]]
  BY DEF OnInstructions
<1> QED BY <1>1, WellFormedFacts DEF Init

\* Wherever it is interrupted, a well-formed program goes on at its next
\* instruction, and no instruction of it fails to be fetched or decoded.
THEOREM WellFormedProgramsDecode == Spec => WellFormedDecodes
<1>1. Init => OnInstructions
  BY InitOnInstructions
<1>2. IInv /\ OnInstructions /\ [Next]_vars => OnInstructions' /\ [DecodesWhole]_vmVars
  BY NextStaysOnInstructions
<1> QED BY <1>1, <1>2, Invariance, PTL DEF Spec, WellFormedDecodes

-----------------------------------------------------------------------------
(* The refinement: the scheduler and its virtual machine implement the     *)
(* actors of MbActors.  An actor's mode is its process's state and its     *)
(* inbox is what the ring of its mailbox holds.                            *)

\* The abstract variables.
AbsMode == [p \in Pids |-> ModeOf(state[p])]
AbsBox  == [p \in Pids |-> Contents(mailbox[p])]

\* Modes correspond to states one to one.
LEMMA ModeTable ==
  ASSUME NEW s \in ProcState
  PROVE  /\ ModeOf(s) = "absent" <=> s = "FREE"
         /\ ModeOf(s) = "runnable" <=> s = "READY"
         /\ ModeOf(s) = "blocked" <=> s = "WAITING"
         /\ ModeOf(s) = "asleep" <=> s = "SLEEPING"
         /\ ModeOf(s) = "done" <=> s = "HALTED"
  BY DEF ModeOf, ProcState

\* Changing one process's state changes one actor's mode.
LEMMA ModeOfOne ==
  ASSUME IInv, NEW p \in Pids, NEW s \in ProcState, state' = [state EXCEPT ![p] = s]
  PROVE  AbsMode' = [AbsMode EXCEPT ![p] = ModeOf(s)]
  BY DEF AbsMode, IInv, TypeOK

\* Changing one mailbox changes one inbox.
LEMMA BoxOfOne ==
  ASSUME IInv, NEW p \in Pids, NEW mb, mailbox' = [mailbox EXCEPT ![p] = mb]
  PROVE  AbsBox' = [AbsBox EXCEPT ![p] = Contents(mb)]
  BY DEF AbsBox, IInv, TypeOK

\* An accepted push is a delivery.
LEMMA PushIsDelivery ==
  ASSUME IInv, MailInv, NEW q \in Pids, NEW cmd \in Command, Live(q), Deliver(q, cmd)
  PROVE  Actors!Deliver(q) \/ UNCHANGED <<AbsMode, AbsBox>>
<1>1. /\ mailbox[q] \in Mailbox /\ state[q] \in ProcState
      /\ state \in [Pids -> ProcState] /\ RingWellFormed(mailbox[q])
  BY DEF IInv, TypeOK, MailInv, MailboxesSound
<1>2. CASE PushStatus(mailbox[q], cmd) # MB_OK
  BY <1>2 DEF Deliver, AbsMode, AbsBox
<1>3. CASE PushStatus(mailbox[q], cmd) = MB_OK
  <2> DEFINE box == Contents(mailbox[q])
             s   == IF state[q] = "WAITING" THEN "READY" ELSE state[q]
  <2>1. /\ mailbox' = [mailbox EXCEPT ![q] = Pushed(mailbox[q], cmd)]
        /\ state' = [state EXCEPT ![q] = s]
    BY <1>3 DEF Deliver
  <2>2. mailbox[q].count < MailboxCapacity /\ cmd \in ValidCommand
    BY <1>1, <1>3, PushStatusOk DEF ValidCommand
  <2>3. Contents(Pushed(mailbox[q], cmd)) = Append(box, cmd)
    BY <1>1, <2>2, PushedContents
  <2>4. /\ box \in Seq(Command) /\ Len(box) = mailbox[q].count
        /\ Len(Append(box, cmd)) = Len(box) + 1
        /\ Append(box, cmd)[Len(box) + 1] = cmd
    <3>1. box \in Seq(Command) /\ Len(box) = mailbox[q].count
      BY <1>1, ContentsType
    <3> HIDE DEF box
    <3> QED BY <3>1, AppendProperties
  <2>5. AbsBox' = [AbsBox EXCEPT ![q] = Append(box, cmd)]
    BY <2>1, <2>3, BoxOfOne
  <2>6. AbsMode' = [AbsMode EXCEPT ![q] = ModeOf(s)]
    BY <1>1, <2>1, ModeOfOne DEF ProcState
  <2>7. ModeOf(s) = IF AbsMode[q] = "blocked" THEN "runnable" ELSE AbsMode[q]
    BY <1>1, ModeTable DEF AbsMode, ProcState
  <2>8. /\ AbsBox[q] = box /\ AbsBox'[q] = Append(box, cmd)
        /\ AbsMode[q] # "absent"
    BY <1>1, <2>5, ModeTable DEF AbsBox, AbsMode, Live
  <2> HIDE DEF box, s
  <2>9. /\ AbsMode[q] # "absent"
        /\ Len(AbsBox[q]) < MailboxCapacity
        /\ Len(AbsBox'[q]) = Len(AbsBox[q]) + 1
        /\ AbsBox'[q][Len(AbsBox'[q])] = cmd
    BY <2>2, <2>4, <2>8
  <2>10. AbsBox' = [AbsBox EXCEPT ![q] = Append(AbsBox[q], AbsBox'[q][Len(AbsBox'[q])])]
    BY <2>5, <2>8, <2>9
  <2>11. AbsMode' = [AbsMode EXCEPT ![q] = IF AbsMode[q] = "blocked" THEN "runnable"
                                           ELSE AbsMode[q]]
    BY <2>6, <2>7
  <2>12. AbsBox'[q][Len(AbsBox'[q])] \in ValidCommand
    BY <2>2, <2>9
  <2> QED BY <2>9, <2>10, <2>11, <2>12 DEF Actors!Deliver, AbsMode, AbsBox
<1> QED BY <1>2, <1>3

\* RECV_CMD on a mailbox that is not empty takes the actor's oldest command.
LEMMA RecvIsReceive ==
  ASSUME IInv, NEW p \in Pids, RecvCmd(p)
  PROVE  Actors!Receive(p)
<1>1. running = p /\ mailbox[p] \in Mailbox /\ mailbox[p].count # 0
  BY DEF RecvCmd, Decoded, Executing, IInv, TypeOK
<1>2. state[p] = "READY" /\ state[p] \in ProcState
  BY <1>1, RunningFacts DEF ProcState
<1>3. Contents(mailbox[p]) # << >> /\ Contents(Popped(mailbox[p])) = Tail(Contents(mailbox[p]))
  BY <1>1, PoppedContents
<1>4. AbsBox' = [AbsBox EXCEPT ![p] = Tail(AbsBox[p])]
  <2>1. mailbox' = [mailbox EXCEPT ![p] = Popped(mailbox[p])]
    BY DEF RecvCmd
  <2> QED BY <1>3, <2>1, BoxOfOne DEF AbsBox
<1>5. AbsMode[p] = "runnable" /\ AbsMode' = AbsMode /\ AbsBox[p] # << >>
  BY <1>2, <1>3, ModeTable DEF AbsMode, AbsBox, RecvCmd
<1> QED BY <1>4, <1>5 DEF Actors!Receive, AbsMode, AbsBox

\* The three ways out of the run queue.
LEMMA LeavingIsAbstract ==
  ASSUME IInv, NEW p \in Pids, RecvCmdBlocks(p) \/ SleepMs(p) \/ Halt(p)
  PROVE  Actors!Block(p) \/ Actors!Sleep(p) \/ Actors!Finish(p)
<1>1. running = p /\ mailbox' = mailbox
  BY DEF RecvCmdBlocks, SleepMs, Halt, LeaveReady, Decoded, Executing
<1>2. state[p] = "READY" /\ state[p] \in ProcState
  BY <1>1, RunningFacts DEF ProcState
<1>3. AbsMode[p] = "runnable" /\ AbsBox' = AbsBox
  BY <1>1, <1>2, ModeTable DEF AbsMode, AbsBox
<1>4. ASSUME NEW s \in ProcState, LeaveReady(p, s)
      PROVE  AbsMode' = [AbsMode EXCEPT ![p] = ModeOf(s)]
  BY <1>4, ModeOfOne DEF LeaveReady
<1>5. /\ ModeOf("WAITING") = "blocked" /\ ModeOf("SLEEPING") = "asleep"
      /\ ModeOf("HALTED") = "done"
  BY ModeTable DEF ProcState
<1>6. CASE RecvCmdBlocks(p)
  <2>1. AbsMode' = [AbsMode EXCEPT ![p] = "blocked"]
    BY <1>4, <1>5, <1>6 DEF RecvCmdBlocks, ProcState
  <2>2. AbsBox[p] = << >>
    <3>1. mailbox[p] \in Mailbox /\ mailbox[p].count = 0
      BY <1>6 DEF RecvCmdBlocks, IInv, TypeOK
    <3>2. Contents(mailbox[p]) \in Seq(Command) /\ Len(Contents(mailbox[p])) = 0
      BY <3>1, ContentsType
    <3>3. Contents(mailbox[p]) = << >>
      BY <3>2, EmptySeq
    <3> QED BY <3>3 DEF AbsBox
  <2> QED BY <1>3, <2>1, <2>2 DEF Actors!Block, AbsMode, AbsBox
<1>7. CASE SleepMs(p)
  <2>1. AbsMode' = [AbsMode EXCEPT ![p] = "asleep"]
    BY <1>4, <1>5, <1>7 DEF SleepMs, ProcState
  <2> QED BY <1>3, <2>1 DEF Actors!Sleep, AbsMode, AbsBox
<1>8. CASE Halt(p)
  <2>1. AbsMode' = [AbsMode EXCEPT ![p] = "done"]
    BY <1>4, <1>5, <1>8 DEF Halt, ProcState
  <2> QED BY <1>3, <2>1 DEF Actors!Finish, AbsMode, AbsBox
<1> QED BY <1>6, <1>7, <1>8

\* The remaining instructions touch no mode and no inbox.
LEMMA OtherStepsAreQuiet ==
  ASSUME NEW p \in Pids, Step(p)
  PROVE  \/ UNCHANGED <<state, mailbox>>
         \/ RecvCmd(p) \/ RecvCmdBlocks(p) \/ Send(p) \/ SleepMs(p) \/ Halt(p)
<1>1. ASSUME NEW at, NEW rc, Fault(p, at, rc) PROVE UNCHANGED <<state, mailbox>>
  BY <1>1 DEF Fault, FaultWith
<1>2. ASSUME NEW at, NEW f, NEW used, RetireUsing(p, at, f, used)
      PROVE  UNCHANGED <<state, mailbox>>
  BY <1>2 DEF RetireUsing
<1>3. CASE NoOpcode(p) \/ TruncatedOperands(p) \/ BadRegister(p) \/ BadOpcode(p)
  BY <1>1, <1>3 DEF NoOpcode, TruncatedOperands, BadRegister, BadOpcode
<1>4. CASE \/ Nop(p) \/ ConstI32(p) \/ Move(p) \/ Add(p) \/ Sub(p) \/ Self(p) \/ Yield(p)
  BY <1>2, <1>4 DEF Nop, ConstI32, Move, Add, Sub, Self, Yield, Retire
<1>5. CASE Jmp(p) \/ JmpIfZero(p)
  BY <1>1, <1>2, <1>5 DEF Jmp, JmpIfZero, JumpTo, Retire
<1>6. CASE CallBifUndecoded(p) \/ MakeTupleUndecoded(p)
  BY <1>1, <1>6 DEF CallBifUndecoded, MakeTupleUndecoded, OperandFault
<1>7. CASE CallBif(p)
  BY <1>1, <1>7 DEF CallBif
<1>8. CASE MakeTuple(p) \/ Cons(p)
  BY <1>8 DEF MakeTuple, Cons, Allocate, FaultWith, Retire, RetireUsing
<1>9. CASE TupleElem(p) \/ HeadOrTail(p)
  BY <1>1, <1>2, <1>9 DEF TupleElem, HeadOrTail, ConsWord, Retire
<1> QED BY <1>3, <1>4, <1>5, <1>6, <1>7, <1>8, <1>9 DEF Step

\* A VM step is a step of an actor or invisible (mb_proc_step).
LEMMA StepSimulates ==
  ASSUME IInv, MailInv, NEW p \in Pids, Step(p)
  PROVE  Actors!Next \/ UNCHANGED <<AbsMode, AbsBox>>
<1>1. CASE UNCHANGED <<state, mailbox>>
  BY <1>1 DEF AbsMode, AbsBox
<1>2. CASE RecvCmd(p)
  BY <1>2, RecvIsReceive DEF Actors!Next
<1>3. CASE RecvCmdBlocks(p) \/ SleepMs(p) \/ Halt(p)
  BY <1>3, LeavingIsAbstract DEF Actors!Next
<1>4. CASE Send(p)
  <2> DEFINE q   == PidOf(RegInt(p, 1))
             cmd == SendCommand(p)
  <2>1. CASE ~Live(q)
    <3>1. UNCHANGED <<state, mailbox>>
      BY <1>4, <2>1 DEF Send
    <3> QED BY <3>1 DEF AbsMode, AbsBox
  <2>2. CASE Live(q)
    <3>1. q \in Pids /\ Deliver(q, cmd)
      BY <1>4, <2>2 DEF Send, Live
    <3>2. cmd \in Command
      <4>1. /\ Decoded(p, MB_OP_SEND) /\ MB_OP_SEND \in FixedOps
            /\ OperandBytes(MB_OP_SEND) = 6
            /\ RegisterOperands(MB_OP_SEND) = 1..6
        BY <1>4, OpcodeTable DEF Send
      <4>2. /\ RegInt(p, 2) \in Int /\ RegInt(p, 3) \in Int /\ RegInt(p, 4) \in Int
            /\ RegInt(p, 5) \in Int /\ RegInt(p, 6) \in Int
        BY <4>1, MachineSound, DecodedFacts
      <4> QED BY <4>2 DEF SendCommand, Command
    <3> HIDE DEF q, cmd
    <3> QED BY <2>2, <3>1, <3>2, PushIsDelivery DEF Actors!Next
  <2> QED BY <2>1, <2>2
<1> QED BY <1>1, <1>2, <1>3, <1>4, OtherStepsAreQuiet

\* mb_sched_spawn brings an absent actor to life.
LEMMA SpawnIsSpawn ==
  ASSUME IInv, NEW name \in DOMAIN Code, Spawn(name)
  PROVE  \E p \in Pids : Actors!Spawn(p)
<1>1. PICK p \in Pids : state[p] = "FREE" /\ ProcInit(p, name)
  BY DEF Spawn
<1>2. AbsMode' = [AbsMode EXCEPT ![p] = "runnable"]
  <2>1. ModeOf("READY") = "runnable"
    BY ModeTable DEF ProcState
  <2>2. AbsMode' = [AbsMode EXCEPT ![p] = ModeOf("READY")]
    BY <1>1, ModeOfOne DEF ProcInit, ProcState
  <2> QED BY <2>1, <2>2
<1>3. AbsBox' = [AbsBox EXCEPT ![p] = << >>]
  <2>1. EmptyMailbox \in Mailbox /\ EmptyMailbox.count = 0
    BY EmptyMailboxType DEF EmptyMailbox
  <2>2. Contents(EmptyMailbox) \in Seq(Command) /\ Len(Contents(EmptyMailbox)) = 0
    BY <2>1, ContentsType
  <2>3. Contents(EmptyMailbox) = << >>
    BY <2>2, EmptySeq
  <2>4. AbsBox' = [AbsBox EXCEPT ![p] = Contents(EmptyMailbox)]
    BY <1>1, BoxOfOne DEF ProcInit
  <2> QED BY <2>3, <2>4
<1>4. AbsMode[p] = "absent"
  BY <1>1, ModeTable DEF AbsMode, ProcState
<1> QED BY <1>2, <1>3, <1>4 DEF Actors!Spawn, AbsMode, AbsBox

\* A tick wakes the sleepers whose deadline has come, all at once.
LEMMA TickIsWake ==
  ASSUME IInv, TickRun
  PROVE  Actors!Wake
<1>1. /\ state \in [Pids -> ProcState] /\ mailbox' = mailbox
      /\ \A p \in Pids : \/ state'[p] = state[p]
                         \/ state[p] = "SLEEPING" /\ state'[p] = "READY"
  BY DEF TickRun, Awakened, IInv, TypeOK
<1>2. ModeOf("SLEEPING") = "asleep" /\ ModeOf("READY") = "runnable"
  BY ModeTable DEF ProcState
<1>3. \A p \in Pids : \/ AbsMode'[p] = AbsMode[p]
                      \/ AbsMode[p] = "asleep" /\ AbsMode'[p] = "runnable"
  BY <1>1, <1>2 DEF AbsMode
<1>4. AbsMode' = [p \in Pids |-> AbsMode'[p]] /\ AbsBox' = AbsBox
  BY <1>1 DEF AbsMode, AbsBox
<1> QED BY <1>3, <1>4 DEF Actors!Wake, AbsMode, AbsBox

\* Every step of the scheduler is an actor step or invisible.
LEMMA NextSimulates ==
  ASSUME IInv, MailInv, [Next]_vars
  PROVE  Actors!Next \/ UNCHANGED <<AbsMode, AbsBox>>
<1>1. CASE \E name \in DOMAIN Code : Spawn(name)
  BY <1>1, SpawnIsSpawn DEF Actors!Next
<1>2. CASE \E q \in Pids, cmd \in NativeCommands : SchedSend(q, cmd)
  <2>1. PICK q \in Pids, cmd \in NativeCommands : SchedSend(q, cmd)
    BY <1>2
  <2>2. cmd \in Command /\ Live(q) /\ Deliver(q, cmd)
    BY <2>1 DEF SchedSend
  <2> QED BY <2>2, PushIsDelivery DEF Actors!Next
<1>3. CASE TickRun
  BY <1>3, TickIsWake DEF Actors!Next
<1>4. CASE TickIdle \/ ClockTick \/ UNCHANGED vars
  <2>1. UNCHANGED <<state, mailbox>>
    BY <1>4 DEF TickIdle, ClockTick, vars, vmVars, slotVars
  <2> QED BY <2>1 DEF AbsMode, AbsBox
<1>5. CASE \E p \in Pids : Run(p)
  BY <1>5, StepSimulates DEF Run
<1> QED BY <1>1, <1>2, <1>3, <1>4, <1>5 DEF Next

\* The empty process table is the actors' initial state.
LEMMA InitSimulates ==
  ASSUME Init
  PROVE  Actors!Init
<1>1. ModeOf("FREE") = "absent"
  BY ModeTable DEF ProcState
<1>2. Contents(EmptyMailbox) = << >>
  <2>1. EmptyMailbox \in Mailbox /\ EmptyMailbox.count = 0
    BY EmptyMailboxType DEF EmptyMailbox
  <2>2. Contents(EmptyMailbox) \in Seq(Command) /\ Len(Contents(EmptyMailbox)) = 0
    BY <2>1, ContentsType
  <2> QED BY <2>2, EmptySeq
<1> QED BY <1>1, <1>2 DEF Init, Actors!Init

\* The runtime implements bounded FIFO actors, for any number of processes,
\* any mailbox capacity and any programs: no valid command is lost, duplicated
\* or reordered between its acceptance and its RECV_CMD, a process blocks only
\* on an empty mailbox, a delivery unblocks it, and nothing revives a halted one.
THEOREM RuntimeImplementsActors == Spec => ImplementsActors
<1>1. Init => Actors!Init
  BY InitSimulates
<1>2. IInv /\ MailInv /\ [Next]_vars => [Actors!Next]_(Actors!avars)
  BY NextSimulates DEF Actors!avars, AbsMode, AbsBox
<1> QED BY <1>1, <1>2, MailInvariance, PTL DEF Spec, ImplementsActors, Actors!Spec
=============================================================================
