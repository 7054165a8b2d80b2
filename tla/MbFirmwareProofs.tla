-------------------------- MODULE MbFirmwareProofs --------------------------
(***************************************************************************)
(* The firmware's main loop on its board uses the scheduler as the         *)
(* scheduler allows, so what the other proof modules show of every use     *)
(* holds of the firmware; and whatever the programs do, a PWM channel has  *)
(* the signal that one of them asked for and the telemetry reports depths  *)
(* that a mailbox can have.                                                *)
(***************************************************************************)
EXTENDS MbWindows, MbSafetyProofs

USE VmAssumption, MailboxAssumption, SchedulerAssumption, BootAssumption

-----------------------------------------------------------------------------
(* The loop's steps are the scheduler's.                                   *)

\* No more processes are spawned than the firmware has programs.
Spawned == count <= Len(Boot)

\* A step of main or of the clock is a step of the scheduler or none.
LEMMA BoardNextIsNext ==
  ASSUME IInv, Spawned, [BoardNext]_boardVars
  PROVE  [Next]_vars
<1>1. CASE LoopSpawn
  <2>1. count + 1 \in 1..Len(Boot)
    BY <1>1 DEF LoopSpawn, SpawnNext, Booted, Spawned, IInv, TypeOK
  <2>2. Boot[count + 1] \in DOMAIN Code
    BY <2>1 DEF BootAssumption
  <2> QED BY <1>1, <2>2 DEF LoopSpawn, SpawnNext, Next
<1>2. CASE TelemetryTick
  BY <1>2 DEF TelemetryTick, LoopTick, Tick, Next
<1>3. CASE Sample
  BY <1>3 DEF Sample
<1>4. CASE BoardRun
  BY <1>4 DEF BoardRun, Next
<1>5. CASE LoopClock
  BY <1>5 DEF LoopClock, Next
<1>6. CASE UNCHANGED boardVars
  BY <1>6 DEF boardVars, loopVars
<1> QED BY <1>1, <1>2, <1>3, <1>4, <1>5, <1>6 DEF BoardNext, BoardMain

\* Main spawns the programs one by one and then no more.
LEMMA SpawnedPreserved ==
  ASSUME IInv, Spawned, [BoardNext]_boardVars
  PROVE  Spawned'
<1>1. CASE LoopSpawn
  BY <1>1 DEF LoopSpawn, SpawnNext, Booted, Spawn, Spawned, IInv, TypeOK
<1>2. CASE ~LoopSpawn
  <2>1. UNCHANGED count
    BY <1>2 DEF BoardNext, BoardMain, TelemetryTick, LoopTick, Tick, TickRun, TickIdle,
                Sample, BoardRun, Run, LoopClock, ClockTick, boardVars, loopVars, vars
  <2> QED BY <2>1 DEF Spawned
<1> QED BY <1>1, <1>2

\* What holds of the scheduler under any native code holds in the firmware.
LEMMA FirmwareInvariance ==
  ASSUME NEW devices
  PROVE  BoardSpec(devices) => [](IInv /\ MailInv /\ Spawned)
<1>1. BoardInit(devices) => IInv /\ MailInv /\ Spawned
  BY InitEstablishes, InitEstablishesMail DEF BoardInit, LoopInit, Spawned, Init
<1>2. IInv /\ MailInv /\ Spawned /\ [BoardNext]_boardVars => (IInv /\ MailInv /\ Spawned)'
  BY BoardNextIsNext, SpawnedPreserved, NextPreserves, NextKeepsMail
<1> QED BY <1>1, <1>2, PTL DEF BoardSpec

\* The processes of the firmware are bounded FIFO actors: spawning in main,
\* reading registers and mailboxes for the telemetry, and the board's devices
\* add nothing that the actors cannot do.
THEOREM FirmwareImplementsActors ==
  ASSUME NEW devices
  PROVE  BoardSpec(devices) => ImplementsActors
<1>1. BoardInit(devices) => Actors!Init
  BY InitSimulates DEF BoardInit, LoopInit
<1>2. IInv /\ MailInv /\ Spawned /\ [BoardNext]_boardVars => [Actors!Next]_(Actors!avars)
  BY BoardNextIsNext, NextSimulates DEF Actors!avars, AbsMode, AbsBox
<1> QED BY <1>1, <1>2, FirmwareInvariance, PTL DEF BoardSpec, ImplementsActors, Actors!Spec

\* In the firmware, too, no command is left behind a receiver that waits and
\* every queued command is valid.
THEOREM FirmwareMailboxesSound ==
  ASSUME NEW devices
  PROVE  BoardSpec(devices) => [](NoLostWakeup /\ MailboxesSound)
<1>1. MailInv => NoLostWakeup /\ MailboxesSound
  BY DEF MailInv
<1> QED BY <1>1, FirmwareInvariance, PTL

-----------------------------------------------------------------------------
(* The signals.                                                            *)

\* The calls of the driver's PWM, and the second argument each may have.
PwmBifs == {MB_BIF_PWM_SET_DUTY, MB_BIF_PWM_CONFIG}
PwmArgument(bif) == IF bif = MB_BIF_PWM_SET_DUTY THEN PwmPermille ELSE PwmFrequency

\* A call that reaches the driver has passed mb_call_bif's checks.
LEMMA PwmChecked ==
  ASSUME IInv, NEW p \in Pids, NEW bif \in PwmBifs, Step(p), Calls(p, bif)
  PROVE  RegInt(p, 3) \in PwmChannel /\ RegInt(p, 4) \in PwmArgument(bif)
<1> DEFINE argc == CallBifArgc(p)
           arg  == [i \in 1..argc |-> RegInt(p, i + 2)]
           dst  == argc + 3
           rc   == BifStatus(Byte(p, 1), arg, Byte(p, dst))
<1>1. running = p /\ Byte(p, 0) = MB_OP_CALL_BIF /\ Byte(p, 1) = bif
  BY DEF Calls, Executing
<1>2. p # 0
  BY DEF Pids
<1>3. \A at, st, newRegs : FaultWith(p, at, st, newRegs) => st = MB_OK
  BY <1>1, <1>2 DEF FaultWith, Calls
<1>4. CallBif(p)
  <2>1. ~CallBifUndecoded(p)
    BY <1>3 DEF CallBifUndecoded, OperandFault, Fault, MB_OK, MB_EOF, MB_BAD_ARGC, MB_BAD_REG
  <2>2. /\ Fetchable(p, 0)
        /\ MB_OP_CALL_BIF \notin FixedOps \cup {MB_OP_MAKE_TUPLE}
    BY DEF Calls, Executing, FixedOps, MB_OP_CALL_BIF, MB_OP_NOP, MB_OP_CONST_I32,
           MB_OP_MOVE, MB_OP_ADD, MB_OP_SUB, MB_OP_RECV_CMD, MB_OP_SEND, MB_OP_SELF,
           MB_OP_YIELD, MB_OP_JMP, MB_OP_JMP_IF_ZERO, MB_OP_SLEEP_MS, MB_OP_MAKE_TUPLE,
           MB_OP_TUPLE_ELEM, MB_OP_CONS, MB_OP_HEAD, MB_OP_TAIL, MB_OP_HALT
  <2>3. ~(NoOpcode(p) \/ TruncatedOperands(p) \/ BadRegister(p) \/ BadOpcode(p))
    BY <1>1, <2>2 DEF NoOpcode, TruncatedOperands, BadRegister, BadOpcode, Executing
  <2>4. \A op \in FixedOps : ~Decoded(p, op)
    BY <1>1, <2>2 DEF Decoded, Executing
  <2>5. ~(MakeTupleUndecoded(p) \/ MakeTuple(p))
    BY <1>1, <2>2 DEF MakeTupleUndecoded, MakeTuple, Executing
  <2>6. ~(Nop(p) \/ ConstI32(p) \/ Move(p) \/ Add(p) \/ Sub(p) \/ Self(p) \/ Yield(p))
    BY <2>4, OpcodeTable DEF Nop, ConstI32, Move, Add, Sub, Self, Yield
  <2>7. ~(Jmp(p) \/ JmpIfZero(p) \/ RecvCmd(p) \/ RecvCmdBlocks(p) \/ Send(p))
    BY <2>4, OpcodeTable DEF Jmp, JmpIfZero, RecvCmd, RecvCmdBlocks, Send
  <2>8. ~(SleepMs(p) \/ Halt(p) \/ Cons(p) \/ TupleElem(p) \/ HeadOrTail(p))
    BY <2>4, OpcodeTable DEF SleepMs, Halt, Cons, TupleElem, HeadOrTail, ConsWord
  <2> QED BY <2>1, <2>3, <2>5, <2>6, <2>7, <2>8 DEF Step
<1>5. rc = MB_OK
  BY <1>3, <1>4 DEF CallBif, Fault
<1>6. Len(arg) = BifArgc(bif) /\ BifArgumentsValid(bif, arg)
  <2> HIDE DEF arg
  <2> QED BY <1>1, <1>5
          DEF BifStatus, MB_OK, MB_BAD_REG, MB_BAD_BIF, MB_BAD_ARGC, MB_BAD_ARGUMENT
<1>7. arg[1] \in PwmChannel /\ arg[2] \in PwmArgument(bif)
  <2> HIDE DEF arg
  <2>1. CASE bif = MB_BIF_PWM_SET_DUTY
    <3>1. BifArgumentsValid(MB_BIF_PWM_SET_DUTY, arg)
      BY <1>6, <2>1
    <3>2. arg[1] \in PwmChannel /\ arg[2] \in PwmPermille
      BY <3>1 DEF BifArgumentsValid, MB_BIF_PWM_SET_DUTY, MB_BIF_MONOTONIC_MS,
                  MB_BIF_GPIO_READ, MB_BIF_GPIO_WRITE, MB_BIF_PWM_CONFIG,
                  MB_BIF_I2C_READ_REG, MB_BIF_I2C_WRITE_REG
    <3> QED BY <2>1, <3>2 DEF PwmArgument
  <2>2. CASE bif = MB_BIF_PWM_CONFIG
    <3>1. BifArgumentsValid(MB_BIF_PWM_CONFIG, arg)
      BY <1>6, <2>2
    <3>2. arg[1] \in PwmChannel /\ arg[2] \in PwmFrequency
      BY <3>1 DEF BifArgumentsValid, MB_BIF_PWM_SET_DUTY, MB_BIF_MONOTONIC_MS,
                  MB_BIF_GPIO_READ, MB_BIF_GPIO_WRITE, MB_BIF_PWM_CONFIG,
                  MB_BIF_I2C_READ_REG, MB_BIF_I2C_WRITE_REG
    <3>3. MB_BIF_PWM_CONFIG # MB_BIF_PWM_SET_DUTY
      BY DEF MB_BIF_PWM_CONFIG, MB_BIF_PWM_SET_DUTY
    <3> QED BY <2>2, <3>2, <3>3 DEF PwmArgument
  <2> QED BY <2>1, <2>2 DEF PwmBifs
<1>8. BifArgc(bif) = 2
  BY DEF BifArgc, PwmBifs, MB_BIF_PWM_SET_DUTY, MB_BIF_MONOTONIC_MS, MB_BIF_GPIO_READ,
         MB_BIF_GPIO_WRITE, MB_BIF_PWM_CONFIG, MB_BIF_I2C_READ_REG, MB_BIF_I2C_WRITE_REG
<1>9. argc = 2
  <2>1. Fetchable(p, 2)
    BY <1>4 DEF CallBif
  <2>2. argc \in U8
    BY <1>1, <2>1, MachineSound, RunningByte DEF CallBifArgc
  <2>3. argc \in Nat
    <3> HIDE DEF argc
    <3> QED BY <2>2 DEF U8
  <2>4. Len(arg) = argc
    <3> DEFINE S == {RegInt(p, i + 2) : i \in 1..argc}
    <3>1. arg \in [1..argc -> S]
      OBVIOUS
    <3> HIDE DEF S, arg, argc
    <3> QED BY <2>3, <3>1
  <2> QED BY <1>6, <1>8, <2>4
<1>10. arg[1] = RegInt(p, 3) /\ arg[2] = RegInt(p, 4)
  BY <1>9
<1> QED BY <1>7, <1>10

\* The casts to the driver's types keep what has been checked.
LEMMA CastsKeepChecked ==
  ASSUME NEW p \in Pids, RegInt(p, 3) \in PwmChannel
  PROVE  /\ ChannelArg(p) = RegInt(p, 3)
         /\ RegInt(p, 4) \in PwmPermille => PermilleArg(p) = RegInt(p, 4)
<1>1. \A x \in 0..7 : x % 256 = x
  OBVIOUS
<1>2. ChannelArg(p) = RegInt(p, 3)
  BY <1>1, Zenon DEF ChannelArg, PwmChannel
<1>3. ASSUME RegInt(p, 4) \in PwmPermille
      PROVE  PermilleArg(p) = RegInt(p, 4)
  <2>1. PICK v \in 0..1000 : v = RegInt(p, 4)
    BY <1>3 DEF PwmPermille
  <2>2. PermilleArg(p) = v % 65536
    BY <2>1 DEF PermilleArg
  <2>3. v % 65536 = v
    OBVIOUS
  <2> QED BY <2>1, <2>2, <2>3
<1> QED BY <1>2, <1>3

\* The pulse has the asked share of its period, with nothing lost in dividing.
LEMMA SignalIsExact ==
  ASSUME NEW v \in PwmPermille
  PROVE  /\ Signal(v).period > 0
         /\ Signal(v).pulse * 1000 = Signal(v).period * v
BY DEF Signal, PwmPermille

\* There is a signal for each channel that mb_call_bif lets through.
WireInv == DOMAIN wire = PwmChannel

\* The driver's part of a step.
LEMMA WiredAsAsked ==
  ASSUME IInv, WireInv, NEW p \in Pids, Step(p), wire' = Wired(p),
         NEW c \in PwmChannel, wire'[c] # wire[c]
  PROVE  Asked(p, c)
<1>1. CASE SetsPwm(p, MB_BIF_PWM_SET_DUTY)
  <2>1. RegInt(p, 3) \in PwmChannel /\ RegInt(p, 4) \in PwmPermille
    BY <1>1, PwmChecked DEF SetsPwm, PwmBifs, PwmArgument
  <2>2. ChannelArg(p) = RegInt(p, 3) /\ PermilleArg(p) = RegInt(p, 4)
    BY <2>1, CastsKeepChecked
  <2>3. wire' = [wire EXCEPT ![RegInt(p, 3)] = Signal(RegInt(p, 4))]
    BY <1>1, <2>2 DEF Wired
  <2>4. RegInt(p, 3) = c /\ wire'[c] = Signal(RegInt(p, 4))
    BY <2>3 DEF WireInv
  <2>5. /\ wire'[c].period > 0
        /\ wire'[c].pulse * 1000 = wire'[c].period * RegInt(p, 4)
    BY <2>1, <2>4, SignalIsExact
  <2> QED BY <1>1, <2>1, <2>4, <2>5 DEF Asked, AskedDuty, SetsPwm, Calls
<1>2. CASE ~SetsPwm(p, MB_BIF_PWM_SET_DUTY) /\ SetsPwm(p, MB_BIF_PWM_CONFIG)
  <2>1. RegInt(p, 3) \in PwmChannel /\ RegInt(p, 4) \in PwmFrequency
    BY <1>2, PwmChecked
    DEF SetsPwm, PwmBifs, PwmArgument, MB_BIF_PWM_SET_DUTY, MB_BIF_PWM_CONFIG
  <2>2. wire' = [wire EXCEPT ![RegInt(p, 3)] = Carrier(RegInt(p, 4))]
    BY <1>2, <2>1, CastsKeepChecked DEF Wired
  <2>3. RegInt(p, 3) = c /\ wire'[c] = Carrier(RegInt(p, 4))
    BY <2>2 DEF WireInv
  <2>4. Executing(p, MB_OP_CALL_BIF) /\ Byte(p, 1) = MB_BIF_PWM_CONFIG /\ Returned(p) = 0
    BY <1>2 DEF SetsPwm, Calls
  <2>5. AskedFrequency(p, c)
    BY <2>1, <2>3, <2>4 DEF AskedFrequency
  <2> QED BY <2>3, <2>4, <2>5 DEF Asked
<1>3. CASE ~SetsPwm(p, MB_BIF_PWM_SET_DUTY) /\ ~SetsPwm(p, MB_BIF_PWM_CONFIG)
  BY <1>3 DEF Wired
<1> QED BY <1>1, <1>2, <1>3

\* Whatever bytes the programs are made of and whatever their registers hold,
\* a channel changes only as one of them asked, within the range of the call.
THEOREM SignalsFollowPrograms ==
  ASSUME NEW devices
  PROVE  BoardSpec(devices) => SignalsAsAsked
<1>1. BoardInit(devices) => WireInv
  BY DEF BoardInit, WireInv
<1>2. WireInv /\ [BoardNext]_boardVars => WireInv'
  BY DEF BoardNext, BoardMain, BoardRun, Wired, boardVars, WireInv
<1>3. IInv /\ WireInv /\ [BoardNext]_boardVars => [ChangedAsAsked]_wire
  <2>1. SUFFICES ASSUME IInv, WireInv, BoardNext, NEW c \in PwmChannel, wire'[c] # wire[c]
                 PROVE  \E p \in Pids : Asked(p, c)
    BY DEF ChangedAsAsked, boardVars
  <2>2. BoardRun
    BY <2>1 DEF BoardNext, BoardMain
  <2>3. PICK p \in Pids : Step(p) /\ wire' = Wired(p)
    BY <2>2 DEF BoardRun, Run
  <2> QED BY <2>1, <2>3, WiredAsAsked
<1> QED BY <1>1, <1>2, <1>3, FirmwareInvariance, PTL
        DEF BoardSpec, SignalsAsAsked

-----------------------------------------------------------------------------
(* The telemetry.                                                          *)

\* What the summary prints as a fraction of MB_MAILBOX_CAPACITY.
DepthsReported == /\ maxADepth \in 0..MailboxCapacity
                  /\ maxSDepth \in 0..MailboxCapacity
                  /\ summary.aDepth \in 0..MailboxCapacity
                  /\ summary.sDepth \in 0..MailboxCapacity

\* The loop looks into processes that exist: proc_s and proc_a are set before
\* it begins, and their slots are never given up.
THEOREM ReportsDepths ==
  ASSUME NEW devices
  PROVE  BoardSpec(devices) => []DepthsReported
<1>1. BoardInit(devices) => DepthsReported
  BY DEF BoardInit, LoopInit, DepthsReported, NoSummary, MailboxAssumption
<1>2. IInv /\ DepthsReported /\ [BoardNext]_boardVars => DepthsReported'
  <2>1. SUFFICES ASSUME IInv, DepthsReported, [BoardNext]_boardVars
                 PROVE  DepthsReported'
    OBVIOUS
  <2>2. CASE Sample
    <3>1. ProcS \in Pids /\ ProcA \in Pids
      BY DEF ProcS, ProcA, Pids, BootAssumption, VmAssumption
    <3>2. ASSUME NEW p \in Pids, NEW old \in 0..MailboxCapacity
          PROVE  Peak(old, p) \in 0..MailboxCapacity
      BY <2>1, <3>2 DEF Peak, IInv, TypeOK, Mailbox
    <3>3. /\ Peak(maxADepth, ProcA) \in 0..MailboxCapacity
          /\ Peak(maxSDepth, ProcS) \in 0..MailboxCapacity
      BY <2>1, <3>1, <3>2 DEF DepthsReported
    <3> QED BY <2>1, <2>2, <3>3 DEF Sample, DepthsReported, MailboxAssumption
  <2>3. CASE ~Sample
    <3>1. UNCHANGED <<maxADepth, maxSDepth, summary>>
      BY <2>1, <2>3 DEF BoardNext, BoardMain, LoopSpawn, TelemetryTick, BoardRun, LoopClock,
                        boardVars, loopVars, telemetryVars, reportVars
    <3> QED BY <2>1, <3>1 DEF DepthsReported
  <2> QED BY <2>2, <2>3
<1> QED BY <1>1, <1>2, FirmwareInvariance, PTL DEF BoardSpec


-----------------------------------------------------------------------------
(* Well-formed programs in the firmware.                                   *)

\* The firmware's processes run the programs of the generated header, and
\* stay on their instructions.
LoadedInOrder == \A p \in Pids : p <= count => program[p] = Boot[p]

LEMMA LoadedPreserved ==
  ASSUME IInv, LoadedInOrder, [BoardNext]_boardVars
  PROVE  LoadedInOrder'
<1>1. count \in Nat /\ program \in [Pids -> DOMAIN Code \cup {NoProgram}]
  BY DEF IInv, TypeOK
<1>2. CASE LoopSpawn
  <2>1. ProcInit(count + 1, Boot[count + 1]) /\ count' = count + 1
    BY <1>2, SpawnTakesNext DEF LoopSpawn, SpawnNext, Spawn
  <2>2. program' = [program EXCEPT ![count + 1] = Boot[count + 1]]
    BY <2>1 DEF ProcInit
  <2> QED BY <1>1, <2>1, <2>2 DEF LoadedInOrder, Pids
<1>3. CASE BoardRun
  <2>1. PICK r \in Pids : Step(r) /\ UNCHANGED count
    BY <1>3 DEF BoardRun, Run
  <2>2. UNCHANGED program
    BY <2>1, StepEnds DEF Faulted, FaultWith, Counted, Left, LeaveReady
  <2> QED BY <2>1, <2>2 DEF LoadedInOrder
<1>4. CASE ~LoopSpawn /\ ~BoardRun
  <2>1. UNCHANGED <<count, program>>
    BY <1>4 DEF BoardNext, BoardMain, TelemetryTick, LoopTick, Tick, TickRun, TickIdle,
                Sample, LoopClock, ClockTick, boardVars, loopVars, vars, vmVars, slotVars
  <2> QED BY <2>1 DEF LoadedInOrder
<1> QED BY <1>2, <1>3, <1>4

\* Every step of the firmware's loop keeps what the programs rest on.
LEMMA FirmwareOnInstructions ==
  ASSUME NEW devices
  PROVE  BoardSpec(devices) => []OnInstructions /\ []LoadedInOrder
<1>1. BoardInit(devices) => OnInstructions /\ LoadedInOrder
  <2>1. Init => OnInstructions
    BY InitOnInstructions
  <2> QED BY <2>1 DEF BoardInit, LoopInit, Init, LoadedInOrder, Pids
<1>2. IInv /\ Spawned /\ OnInstructions /\ [BoardNext]_boardVars => OnInstructions'
  BY BoardNextIsNext, NextStaysOnInstructions
<1>3. IInv /\ LoadedInOrder /\ [BoardNext]_boardVars => LoadedInOrder'
  BY LoadedPreserved
<1> QED BY <1>1, <1>2, <1>3, FirmwareInvariance, PTL DEF BoardSpec

\* On the board, too, a well-formed program is executed as it was written.
THEOREM FirmwareDecodes ==
  ASSUME NEW devices
  PROVE  BoardSpec(devices) => WellFormedDecodes
<1>1. IInv /\ Spawned /\ OnInstructions /\ [BoardNext]_boardVars => [DecodesWhole]_vmVars
  BY BoardNextIsNext, NextStaysOnInstructions
<1> QED BY <1>1, FirmwareInvariance, FirmwareOnInstructions, PTL
        DEF BoardSpec, WellFormedDecodes


-----------------------------------------------------------------------------
(* The windows of the telemetry.                                           *)

\* No instruction but RECV_CMD and SEND touches a mailbox.
LEMMA OthersLeaveMail ==
  ASSUME NEW p \in Pids, Step(p), ~RecvCmd(p), ~Send(p)
  PROVE  UNCHANGED mailbox
<1>1. CASE NoOpcode(p) \/ TruncatedOperands(p) \/ BadRegister(p) \/ BadOpcode(p)
  BY <1>1 DEF NoOpcode, TruncatedOperands, BadRegister, BadOpcode, Fault, FaultWith
<1>2. CASE Nop(p) \/ ConstI32(p) \/ Move(p) \/ Add(p) \/ Sub(p) \/ Self(p) \/ Yield(p)
  BY <1>2 DEF Nop, ConstI32, Move, Add, Sub, Self, Yield, Retire, RetireUsing
<1>3. CASE Jmp(p) \/ JmpIfZero(p)
  BY <1>3 DEF Jmp, JmpIfZero, JumpTo, Retire, RetireUsing, Fault, FaultWith
<1>4. CASE CallBifUndecoded(p) \/ MakeTupleUndecoded(p)
  BY <1>4 DEF CallBifUndecoded, MakeTupleUndecoded, OperandFault, Fault, FaultWith
<1>5. CASE CallBif(p)
  BY <1>5 DEF CallBif, Fault, FaultWith
<1>6. CASE RecvCmdBlocks(p) \/ SleepMs(p) \/ Halt(p)
  BY <1>6 DEF RecvCmdBlocks, SleepMs, Halt, LeaveReady
<1>7. CASE MakeTuple(p) \/ Cons(p)
  BY <1>7 DEF MakeTuple, Cons, Allocate, Retire, RetireUsing, FaultWith
<1>8. CASE TupleElem(p) \/ HeadOrTail(p)
  BY <1>8 DEF TupleElem, HeadOrTail, ConsWord, Retire, RetireUsing, Fault, FaultWith
<1> QED BY <1>1, <1>2, <1>3, <1>4, <1>5, <1>6, <1>7, <1>8 DEF Step

\* How many commands a process has waiting.
Waiting(p) == mailbox[p].count

\* Only its owner takes from a mailbox, and only a SEND adds to one.
LEMMA MailboxGrowth ==
  ASSUME IInv, NEW p \in Pids, Step(p), NEW q \in Pids
  PROVE  /\ Waiting(q) \in Nat /\ Waiting(q)' \in Nat
         /\ q # p => Waiting(q)' >= Waiting(q)
         /\ ~Send(p) => Waiting(q)' <= Waiting(q)
<1>1. mailbox \in [Pids -> Mailbox] /\ Waiting(q) \in Nat
  BY MailboxFields DEF IInv, TypeOK, Waiting
<1>2. CASE RecvCmd(p)
  <2>1. mailbox[p].count # 0 /\ mailbox' = [mailbox EXCEPT ![p] = Popped(mailbox[p])]
    BY <1>2 DEF RecvCmd
  <2>2. CASE q = p
    BY <1>1, <2>1, <2>2 DEF Popped, Waiting
  <2>3. CASE q # p
    BY <1>1, <2>1, <2>3 DEF Waiting
  <2>4. ~Send(p)
    BY <1>2 DEF RecvCmd, Send, Decoded, Executing, MB_OP_SEND, MB_OP_RECV_CMD
  <2>5. Waiting(q)' <= Waiting(q)
    BY <1>1, <2>1, <2>2, <2>3 DEF Popped, Waiting
  <2> QED BY <1>1, <2>2, <2>3, <2>4, <2>5
<1>3. CASE Send(p)
  <2>1. \/ UNCHANGED mailbox
        \/ \E r, cmd : mailbox' = [mailbox EXCEPT ![r] = Pushed(mailbox[r], cmd)]
    BY <1>3 DEF Send, Deliver
  <2>2. mailbox'[q] = mailbox[q] \/ \E cmd : mailbox'[q] = Pushed(mailbox[q], cmd)
    BY <1>1, <2>1
  <2>3. \A cmd : Pushed(mailbox[q], cmd).count = mailbox[q].count + 1
    BY DEF Pushed
  <2>4. Waiting(q)' \in {Waiting(q), Waiting(q) + 1}
    BY <2>2, <2>3 DEF Waiting
  <2> QED BY <1>1, <1>3, <2>4
<1>4. CASE ~RecvCmd(p) /\ ~Send(p)
  BY <1>1, <1>4, OthersLeaveMail DEF Waiting
<1> QED BY <1>2, <1>3, <1>4

\* An actuator that sends nothing only takes from its mailbox in its turn.
LEMMA ActuatorOnlyTakes ==
  ASSUME IInv, OnInstructions, LoadedInOrder, ActuatorSendsNothing, Step(ProcA)
  PROVE  Waiting(ProcA)' <= Waiting(ProcA)
<1>1. ProcA \in Pids
  BY DEF ProcA, Pids, BootAssumption
<1>2. running = ProcA /\ ~halted[ProcA] /\ state[ProcA] = "READY"
  BY <1>1, StepEnds, RunningFacts
<1>3. program[ProcA] = Boot[ProcA]
  BY <1>1, <1>2 DEF IInv, TypeOK, FreeAfterCount, LoadedInOrder, Pids
<1>4. pc[ProcA] \in StartsOf[Boot[ProcA]]
  BY <1>1, <1>2, <1>3 DEF OnInstructions, ActuatorSendsNothing
<1>5. Byte(ProcA, 0) # MB_OP_SEND
  BY <1>3, <1>4 DEF ActuatorSendsNothing, Byte, ByteAt
<1>6. ~Send(ProcA)
  BY <1>5 DEF Send, Decoded, Executing
<1> QED BY <1>1, <1>6, MailboxGrowth

\* What holds between the steps of main.  During the actuator's own turn its
\* mailbox does not grow, and during all others it does not shrink, so when
\* main looks, the deepest mailbox since the last look is there to be seen or
\* was before the turn.
WindowInv ==
  /\ rise \in Nat /\ peak \in Nat /\ maxADepth \in Nat
  /\ due \in {"tick", "sample"}
  /\ running # 0 => due = "sample"
  /\ maxADepth <= peak /\ Waiting(ProcA) <= peak
  /\ due = "tick" \/ running = ProcA => rise <= maxADepth
  /\ due = "sample" => rise <= maxADepth \/ rise <= Waiting(ProcA)

\* A turn that main's next look will follow.
LEMMA RunKeepsWindow ==
  ASSUME IInv, OnInstructions, LoadedInOrder, WindowInv, ActuatorSendsNothing,
         BoardRun, Watch
  PROVE  WindowInv'
<1>1. PICK p \in Pids : Step(p)
  BY DEF BoardRun, Run
<1>2. ProcA \in Pids
  BY DEF ProcA, Pids, BootAssumption
<1>3. running = p /\ p # 0 /\ due = "sample"
  BY <1>1, StepEnds DEF WindowInv, Pids
<1>4. running' \in {0, p} /\ due' = due /\ maxADepth' = maxADepth
  <2>1. running' \in {0, running}
    BY <1>1, StepEnds DEF Faulted, FaultWith, Counted, CountReduction, Left, LeaveReady
  <2> QED BY <1>3, <2>1 DEF BoardRun, telemetryVars, reportVars
<1> DEFINE a == Waiting(ProcA)
           b == Waiting(ProcA)'
<1>5. /\ a \in Nat /\ b \in Nat
      /\ p # ProcA => b >= a
      /\ p = ProcA => b <= a
  BY <1>1, <1>2, MailboxGrowth, ActuatorOnlyTakes
<1>6. /\ rise' = IF b > a THEN Deeper(rise, b) ELSE rise
      /\ peak' = Deeper(peak, b)
  BY <1>3, <1>4 DEF Watch, Reports, Waiting
<1>7. /\ rise' \in Nat /\ peak' \in Nat
      /\ maxADepth <= peak' /\ b <= peak'
  BY <1>5, <1>6 DEF Deeper, WindowInv
<1>8. running' = ProcA => rise' <= maxADepth
  <2>1. SUFFICES ASSUME running' = ProcA PROVE rise' <= maxADepth
    OBVIOUS
  <2>2. p = ProcA
    BY <1>2, <1>4, <2>1 DEF Pids
  <2> QED BY <1>3, <1>5, <1>6, <2>2 DEF WindowInv
<1>9. rise' <= maxADepth \/ rise' <= b
  <2>1. CASE p = ProcA
    BY <1>3, <1>5, <1>6, <2>1 DEF WindowInv
  <2>2. CASE p # ProcA
    <3>1. rise <= maxADepth \/ rise <= a
      BY <1>3 DEF WindowInv
    <3> QED BY <1>5, <1>6, <2>2, <3>1 DEF Deeper, WindowInv
  <2> QED BY <2>1, <2>2
<1> QED BY <1>3, <1>4, <1>7, <1>8, <1>9 DEF WindowInv


\* A look of main's.
LEMMA SampleKeepsWindow ==
  ASSUME IInv, WindowInv, Sample, Watch
  PROVE  WindowInv'
<1>1. ProcA \in Pids
  BY DEF ProcA, Pids, BootAssumption
<1>2. Waiting(ProcA)' = Waiting(ProcA) /\ Waiting(ProcA) \in Nat /\ running' = 0
  BY <1>1, MailboxFields DEF Sample, vars, vmVars, slotVars, IInv, TypeOK, Waiting
<1>3. due = "sample" /\ due' = "tick" /\ ProcA # 0
  BY <1>1 DEF Sample, Pids
<1>4. CASE SummaryDue
  <2>1. maxADepth' = 0 /\ rise' = 0 /\ peak' = Waiting(ProcA)
    BY <1>2, <1>3, <1>4 DEF Sample, Watch, Reports, Waiting
  <2> QED BY <1>2, <1>3, <2>1 DEF WindowInv
<1>5. CASE ~SummaryDue
  <2>1. /\ maxADepth' = Peak(maxADepth, ProcA)
        /\ rise' = rise
        /\ peak' = Deeper(peak, Waiting(ProcA))
    BY <1>2, <1>5 DEF Sample, Watch, Reports, Waiting
  <2> QED BY <1>2, <1>3, <2>1 DEF WindowInv, Peak, Deeper, Waiting
<1> QED BY <1>4, <1>5

\* Spawning, a tick and the clock touch no mailbox.
LEMMA QuietKeepsWindow ==
  ASSUME IInv, MailInv, WindowInv,
         \/ (LoopSpawn \/ TelemetryTick) /\ Watch
         \/ LoopClock /\ UNCHANGED histVars
         \/ UNCHANGED windowsVars
  PROVE  WindowInv'
<1>1. ProcA \in Pids /\ Waiting(ProcA) \in Nat
  BY MailboxFields DEF ProcA, Pids, BootAssumption, IInv, TypeOK, Waiting
<1>2. Waiting(ProcA)' = Waiting(ProcA)
  <2>1. CASE LoopSpawn
    <3>1. /\ state[count + 1] = "FREE" /\ count + 1 \in Pids
          /\ mailbox' = [mailbox EXCEPT ![count + 1] = EmptyMailbox]
      BY <2>1, SpawnTakesNext DEF LoopSpawn, SpawnNext, ProcInit
    <3>2. mailbox[count + 1] = EmptyMailbox
      BY <3>1 DEF MailInv, FreeIsEmpty
    <3> QED BY <1>1, <3>1, <3>2 DEF Waiting, IInv, TypeOK
  <2>2. CASE ~LoopSpawn
    <3>1. UNCHANGED mailbox
      BY <2>2 DEF TelemetryTick, LoopTick, Tick, TickRun, TickIdle, LoopClock, ClockTick,
                  windowsVars, boardVars, loopVars, vars, vmVars, slotVars
    <3> QED BY <3>1 DEF Waiting
  <2> QED BY <2>1, <2>2
<1>3. UNCHANGED maxADepth
  BY DEF LoopSpawn, TelemetryTick, LoopClock, telemetryVars, reportVars,
         windowsVars, boardVars, loopVars
<1>4. UNCHANGED rise /\ peak' \in {peak, Deeper(peak, Waiting(ProcA))}
  <2>1. CASE (LoopSpawn \/ TelemetryTick) /\ Watch
    <3>1. ~Reports
      BY <2>1 DEF Reports, LoopSpawn, TelemetryTick, telemetryVars
    <3> QED BY <1>1, <1>2, <2>1, <3>1 DEF Watch, Waiting
  <2>2. CASE UNCHANGED histVars
    BY <2>2 DEF histVars
  <2> QED BY <2>1, <2>2 DEF windowsVars
<1>5. /\ peak' \in Nat /\ maxADepth <= peak' /\ Waiting(ProcA) <= peak'
  BY <1>1, <1>4 DEF WindowInv, Deeper
<1>6. CASE TelemetryTick
  <2>1. due = "tick" /\ due' = "sample"
    BY <1>6 DEF TelemetryTick
  <2> QED BY <1>2, <1>3, <1>4, <1>5, <2>1 DEF WindowInv
<1>7. CASE ~TelemetryTick
  <2>1. UNCHANGED <<due, running>>
    BY <1>7 DEF LoopSpawn, SpawnNext, Spawn, LoopClock, ClockTick, telemetryVars,
                windowsVars, boardVars, loopVars, vars, vmVars
  <2> QED BY <1>2, <1>3, <1>4, <1>5, <2>1 DEF WindowInv
<1> QED BY <1>6, <1>7

\* Main looks at the mailbox once per tick and still reports the deepest it has
\* been in the window: for every flow, however many sensors it has and whatever
\* they do, as long as the actuator's program sends nothing.
THEOREM SamplingMissesNoPeak ==
  ASSUME NEW devices, ActuatorSendsNothing
  PROVE  WindowsSpec(devices) => []SampledPeakIsReached
<1> DEFINE Firm == IInv /\ MailInv /\ OnInstructions /\ LoadedInOrder
<1>1. WindowsSpec(devices) => BoardSpec(devices)
  <2>1. WindowsInit(devices) => BoardInit(devices)
    BY DEF WindowsInit
  <2>2. [WindowsNext]_windowsVars => [BoardNext]_boardVars
    BY DEF WindowsNext, BoardNext, windowsVars
  <2> QED BY <2>1, <2>2, PTL DEF WindowsSpec, BoardSpec
<1>2. WindowsInit(devices) => WindowInv
  <2>1. SUFFICES ASSUME WindowsInit(devices) PROVE WindowInv
    OBVIOUS
  <2>2. ProcA \in Pids
    BY DEF ProcA, Pids, BootAssumption
  <2>3. Waiting(ProcA) = 0
    BY <2>1, <2>2 DEF WindowsInit, BoardInit, LoopInit, Init, EmptyMailbox, Waiting
  <2> QED BY <2>1, <2>3 DEF WindowsInit, BoardInit, LoopInit, Init, HistInit, WindowInv
<1>3. Firm /\ WindowInv /\ [WindowsNext]_windowsVars => WindowInv'
  <2>1. SUFFICES ASSUME Firm, WindowInv, [WindowsNext]_windowsVars
                 PROVE  WindowInv'
    OBVIOUS
  <2>2. CASE BoardRun /\ Watch
    BY <2>1, <2>2, RunKeepsWindow
  <2>3. CASE Sample /\ Watch
    BY <2>1, <2>3, SampleKeepsWindow
  <2>4. CASE \/ (LoopSpawn \/ TelemetryTick) /\ Watch
             \/ LoopClock /\ UNCHANGED histVars
             \/ UNCHANGED windowsVars
    BY <2>1, <2>4, QuietKeepsWindow
  <2> QED BY <2>1, <2>2, <2>3, <2>4 DEF WindowsNext, BoardMain, histVars
<1>4. WindowInv => SampledPeakIsReached
  BY DEF WindowInv, SampledPeakIsReached
<1>5. BoardSpec(devices) => []Firm
  BY FirmwareInvariance, FirmwareOnInstructions, PTL
<1> QED BY <1>1, <1>2, <1>3, <1>4, <1>5, PTL DEF WindowsSpec
=============================================================================
