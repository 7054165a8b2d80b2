-------------------------------- MODULE MbVm --------------------------------
(***************************************************************************)
(* The process virtual machine of mb_vm.c in scheduler mode: one process   *)
(* per pid, one action per opcode of mb_proc_step, and the loop of         *)
(* mb_proc_run, which runs the process `running` instruction by            *)
(* instruction until it faults, stops being READY or has used its          *)
(* reductions.  MbScheduler adds the process table and the tick.           *)
(*                                                                         *)
(* Programs are byte strings: operands are fetched byte by byte, so a      *)
(* truncated instruction and a jump into the middle of one behave as they  *)
(* do in the code.  The heap is abstract here: a term that refers to the   *)
(* heap has an arbitrary location, which a collection may change, and what *)
(* is loaded from the heap is an arbitrary term.                           *)
(***************************************************************************)
EXTENDS MbMailbox

CONSTANTS
  MaxProcesses,   \* MB_MAX_PROCESSES
  RegCount,       \* MB_REG_COUNT
  Reductions,     \* MB_REDUCTIONS
  ClockMod,       \* 2^32: the clock is a uint32_t of milliseconds
  Code,           \* the programs: a function from names to byte strings
  ReadResults,    \* what a BIF that reads hardware puts in its register
  WriteResults,   \* what a BIF that writes hardware puts in its register
  HeapWords,      \* words of one semispace, 0 in a compatibility VM
  HeapCanFill,    \* FALSE when the programs never exhaust their heap
  HeapContents    \* terms that a program may have stored on its heap

ASSUME VmAssumption ==
  /\ MaxProcesses \in Nat \ {0}
  /\ RegCount \in Nat \ {0}
  /\ Reductions \in Nat \ {0}
  /\ ClockMod \in Nat \ {0}
  /\ HeapWords \in Nat
  /\ ReadResults \subseteq Int
  /\ WriteResults \subseteq Int
  /\ HeapCanFill \in BOOLEAN
  /\ HeapContents \subseteq Term

ASSUME CodeAssumption == \A n \in DOMAIN Code : Code[n] \in Seq(U8)

VARIABLES
  state,       \* per pid: mb_proc_state_t
  program,     \* per pid: the name of its program
  pc,          \* per pid: offset of the next byte to fetch
  regs,        \* per pid: the register file
  mailbox,     \* per pid: the ring of MbMailbox
  halted,      \* per pid: the halted flag
  lastError,   \* per pid: last_error
  sleepUntil,  \* per pid: sleep_until_ms
  reductions,  \* per pid: reductions used in the current run
  running,     \* the pid mb_proc_run is running, 0 when there is none
  runRc,       \* what the last run (or idle tick) returned
  clock,       \* milliseconds since boot, without the wrap
  hal          \* the last hardware write: <<bif, arguments>>

slotVars == <<state, program, pc, regs, mailbox, halted, lastError,
              sleepUntil, reductions>>
vmVars == <<slotVars, running, runRc, clock, hal>>

Pids     == 1..MaxProcesses
Regs     == 0..(RegCount - 1)
HeapLocs == 0..(HeapWords - 1)
NoProgram == "no program"
ProcState == {"FREE", "READY", "WAITING", "SLEEPING", "HALTED"}

\* mb_hal_monotonic_ms
Now == clock % ClockMod

-----------------------------------------------------------------------------
(* The instruction set (mb_vm.h).                                          *)

MB_OP_NOP         == 0
MB_OP_CONST_I32   == 1
MB_OP_MOVE        == 2
MB_OP_ADD         == 3
MB_OP_SUB         == 4
MB_OP_CALL_BIF    == 16
MB_OP_RECV_CMD    == 32
MB_OP_SEND        == 33
MB_OP_SELF        == 34
MB_OP_YIELD       == 35
MB_OP_JMP         == 48
MB_OP_JMP_IF_ZERO == 49
MB_OP_SLEEP_MS    == 64
MB_OP_MAKE_TUPLE  == 80
MB_OP_TUPLE_ELEM  == 81
MB_OP_CONS        == 82
MB_OP_HEAD        == 83
MB_OP_TAIL        == 84
MB_OP_HALT        == 255

\* Opcodes whose operands have a fixed length.
FixedOps == {MB_OP_NOP, MB_OP_CONST_I32, MB_OP_MOVE, MB_OP_ADD, MB_OP_SUB,
             MB_OP_RECV_CMD, MB_OP_SEND, MB_OP_SELF, MB_OP_YIELD, MB_OP_JMP,
             MB_OP_JMP_IF_ZERO, MB_OP_SLEEP_MS, MB_OP_TUPLE_ELEM, MB_OP_CONS,
             MB_OP_HEAD, MB_OP_TAIL, MB_OP_HALT}

\* How many operand bytes an opcode of FixedOps has.
OperandBytes(op) ==
  CASE op \in {MB_OP_NOP, MB_OP_YIELD, MB_OP_HALT}                -> 0
    [] op \in {MB_OP_SELF, MB_OP_SLEEP_MS}                        -> 1
    [] op \in {MB_OP_HEAD, MB_OP_TAIL}                            -> 2
    [] op \in {MB_OP_MOVE, MB_OP_ADD, MB_OP_SUB, MB_OP_TUPLE_ELEM,
               MB_OP_CONS}                                        -> 3
    [] op = MB_OP_JMP                                             -> 4
    [] op \in {MB_OP_CONST_I32, MB_OP_RECV_CMD, MB_OP_JMP_IF_ZERO} -> 5
    [] op = MB_OP_SEND                                            -> 6

\* Which of them, counted from 1, name a register.
RegisterOperands(op) ==
  CASE op \in {MB_OP_SELF, MB_OP_SLEEP_MS, MB_OP_CONST_I32,
               MB_OP_JMP_IF_ZERO}                       -> {1}
    [] op \in {MB_OP_HEAD, MB_OP_TAIL, MB_OP_TUPLE_ELEM} -> 1..2
    [] op \in {MB_OP_MOVE, MB_OP_ADD, MB_OP_SUB,
               MB_OP_CONS}                              -> 1..3
    [] op = MB_OP_RECV_CMD                              -> 1..5
    [] op = MB_OP_SEND                                  -> 1..6
    [] OTHER                                            -> {}

-----------------------------------------------------------------------------
(* Fetching.                                                               *)

Size(p) == Len(Code[program[p]])

\* Byte k of the instruction at pc; byte 0 is the opcode.
Byte(p, k) == Code[program[p]][pc[p] + k + 1]

\* The instruction's bytes 0..k are inside the program.
Fetchable(p, k) == pc[p] + k < Size(p)

\* The little-endian int32 of a program at the offset at.
I32At(code, at) ==
  LET top == code[at + 4]
  IN  code[at + 1] + 256 * code[at + 2] + 65536 * code[at + 3]
        + 16777216 * (IF top < 128 THEN top ELSE top - 256)

\* The one at bytes k..k+3 of the instruction.
I32(p, k) == I32At(Code[program[p]], pc[p] + k)

ValidReg(r) == r < RegCount

\* The offset after the whole instruction op.
AfterOperands(p, op) == pc[p] + 1 + OperandBytes(op)

\* The run loop is about to execute opcode op of process p.
Executing(p, op) == /\ running = p
                    /\ ~halted[p]
                    /\ Fetchable(p, 0)
                    /\ Byte(p, 0) = op

\* All operands of op were fetched and every register operand is in range.
Decoded(p, op) == /\ Executing(p, op)
                  /\ Fetchable(p, OperandBytes(op))
                  /\ \A k \in RegisterOperands(op) : ValidReg(Byte(p, k))

\* The value of the register that operand k names, and of that register
\* read as an integer.
RegTerm(p, k) == regs[p][Byte(p, k)]
RegInt(p, k)  == GET_SMALLINT(RegTerm(p, k))

\* The register files after operand k's register of process p is set.
SetReg(p, k, term) == [regs EXCEPT ![p][Byte(p, k)] = term]

-----------------------------------------------------------------------------
(* How a step ends (mb_proc_run).                                          *)

\* Faulty: the loop forgets to count.
CountReductionNever(p, used) ==
  /\ reductions' = [reductions EXCEPT ![p] = used]
  /\ IF used < Reductions
     THEN UNCHANGED <<running, runRc>>
     ELSE running' = 0 /\ runRc' = MB_OK

\* The instruction returned MB_OK and p is still READY: the loop goes round
\* with one more reduction on top of `used`, or the budget is spent.
CountReduction(p, used) ==
  /\ reductions' = [reductions EXCEPT ![p] = used + 1]
  /\ IF used + 1 < Reductions
     THEN UNCHANGED <<running, runRc>>
     ELSE running' = 0 /\ runRc' = MB_OK

\* Faulty: a fault takes the process out of the run queue.
FaultHalts(p, at, rc, newRegs) ==
  /\ pc' = [pc EXCEPT ![p] = at]
  /\ regs' = newRegs
  /\ lastError' = [lastError EXCEPT ![p] = rc]
  /\ state' = [state EXCEPT ![p] = "HALTED"]
  /\ halted' = [halted EXCEPT ![p] = TRUE]
  /\ running' = 0
  /\ runRc' = rc
  /\ UNCHANGED <<program, mailbox, sleepUntil, reductions, clock, hal>>

\* The instruction returned an error: the run ends with it.  The process
\* keeps its state, so it is READY again at its next turn.
FaultWith(p, at, rc, newRegs) ==
  /\ pc' = [pc EXCEPT ![p] = at]
  /\ regs' = newRegs
  /\ lastError' = [lastError EXCEPT ![p] = rc]
  /\ running' = 0
  /\ runRc' = rc
  /\ UNCHANGED <<state, program, mailbox, halted, sleepUntil, reductions,
                 clock, hal>>

Fault(p, at, rc) == FaultWith(p, at, rc, regs)

\* The instruction returned MB_OK having set the pc and registers only.
RetireUsing(p, at, newRegs, used) ==
  /\ pc' = [pc EXCEPT ![p] = at]
  /\ regs' = newRegs
  /\ CountReduction(p, used)
  /\ UNCHANGED <<state, program, mailbox, halted, lastError, sleepUntil,
                 clock, hal>>

Retire(p, at, newRegs) == RetireUsing(p, at, newRegs, reductions[p])

\* The instruction returned MB_OK and took p out of READY: the run is over
\* and the instruction is not counted.
LeaveReady(p, newState) ==
  /\ state' = [state EXCEPT ![p] = newState]
  /\ running' = 0
  /\ runRc' = MB_OK
  /\ UNCHANGED <<program, regs, mailbox, lastError, reductions, clock, hal>>

-----------------------------------------------------------------------------
(* The ways an instruction fails to decode.                                *)

\* Faulty: a process that runs off its program starts again.
NoOpcodeRestarts(p) ==
  /\ running = p /\ ~halted[p]
  /\ ~Fetchable(p, 0)
  /\ Fault(p, 0, MB_EOF)

\* The program counter is at or past the end.
NoOpcode(p) ==
  /\ running = p /\ ~halted[p]
  /\ ~Fetchable(p, 0)
  /\ Fault(p, pc[p], MB_EOF)

\* An operand byte is missing: what there was has been consumed.
TruncatedOperands(p) ==
  \E op \in FixedOps :
    /\ Executing(p, op)
    /\ ~Fetchable(p, OperandBytes(op))
    /\ Fault(p, Size(p), MB_EOF)

\* All operands are there and one names a register that does not exist.
BadRegister(p) ==
  \E op \in FixedOps :
    /\ Executing(p, op)
    /\ Fetchable(p, OperandBytes(op))
    /\ \E k \in RegisterOperands(op) : ~ValidReg(Byte(p, k))
    /\ Fault(p, AfterOperands(p, op), MB_BAD_REG)

BadOpcode(p) ==
  /\ running = p /\ ~halted[p]
  /\ Fetchable(p, 0)
  /\ Byte(p, 0) \notin FixedOps \cup {MB_OP_CALL_BIF, MB_OP_MAKE_TUPLE}
  /\ Fault(p, pc[p] + 1, MB_BAD_OPCODE)

-----------------------------------------------------------------------------
(* Registers and control flow.                                             *)

Nop(p) ==
  /\ Decoded(p, MB_OP_NOP)
  /\ Retire(p, AfterOperands(p, MB_OP_NOP), regs)

ConstI32(p) ==
  /\ Decoded(p, MB_OP_CONST_I32)
  /\ Retire(p, AfterOperands(p, MB_OP_CONST_I32),
            SetReg(p, 1, MAKE_SMALLINT(I32(p, 2))))

\* The third operand of MOVE is fetched and checked but not used.
Move(p) ==
  /\ Decoded(p, MB_OP_MOVE)
  /\ Retire(p, AfterOperands(p, MB_OP_MOVE), SetReg(p, 1, RegTerm(p, 2)))

Add(p) ==
  /\ Decoded(p, MB_OP_ADD)
  /\ Retire(p, AfterOperands(p, MB_OP_ADD),
            SetReg(p, 1, MAKE_SMALLINT(RegInt(p, 2) + RegInt(p, 3))))

Sub(p) ==
  /\ Decoded(p, MB_OP_SUB)
  /\ Retire(p, AfterOperands(p, MB_OP_SUB),
            SetReg(p, 1, MAKE_SMALLINT(RegInt(p, 2) - RegInt(p, 3))))

Self(p) ==
  /\ Decoded(p, MB_OP_SELF)
  /\ Retire(p, AfterOperands(p, MB_OP_SELF), SetReg(p, 1, MAKE_PID(p)))

\* Faulty: a yield that costs one reduction, like any other instruction.
YieldForFree(p) ==
  /\ Decoded(p, MB_OP_YIELD)
  /\ RetireUsing(p, AfterOperands(p, MB_OP_YIELD), regs, -1)

\* The budget is set to spent, and the loop then counts the yield on top.
Yield(p) ==
  /\ Decoded(p, MB_OP_YIELD)
  /\ RetireUsing(p, AfterOperands(p, MB_OP_YIELD), regs, Reductions)

\* Faulty: the offset counts from the jump's own operand.
JumpToShort(p, from, offset) ==
  LET target == from + offset - 4
  IN  IF target < 0 THEN Fault(p, from, MB_EOF)
      ELSE IF target > Size(p) THEN Fault(p, target, MB_EOF)
      ELSE Retire(p, target, regs)

\* A jump by offset from pc `from`.  Before the start of the program it
\* leaves the pc after the jump; past the end it moves the pc there.
JumpTo(p, from, offset) ==
  LET target == from + offset
  IN  IF target < 0 THEN Fault(p, from, MB_EOF)
      ELSE IF target > Size(p) THEN Fault(p, target, MB_EOF)
      ELSE Retire(p, target, regs)

Jmp(p) ==
  /\ Decoded(p, MB_OP_JMP)
  /\ JumpTo(p, AfterOperands(p, MB_OP_JMP), I32(p, 1))

\* Only the tagged small integer 0 counts as zero.
JmpIfZero(p) ==
  /\ Decoded(p, MB_OP_JMP_IF_ZERO)
  /\ LET from == AfterOperands(p, MB_OP_JMP_IF_ZERO)
     IN  IF RegTerm(p, 1) = MAKE_SMALLINT(0)
         THEN JumpTo(p, from, I32(p, 2))
         ELSE Retire(p, from, regs)

-----------------------------------------------------------------------------
(* CALL_BIF: operands are fetched and checked one by one, so an invalid    *)
(* argument register stops the fetch at once.                              *)

MB_BIF_GPIO_WRITE    == 1
MB_BIF_PWM_SET_DUTY  == 2
MB_BIF_I2C_READ_REG  == 3
MB_BIF_MONOTONIC_MS  == 4
MB_BIF_GPIO_READ     == 5
MB_BIF_I2C_WRITE_REG == 6
MB_BIF_PWM_CONFIG    == 7

Bifs      == 1..7
WriteBifs == {MB_BIF_GPIO_WRITE, MB_BIF_PWM_SET_DUTY, MB_BIF_I2C_WRITE_REG,
              MB_BIF_PWM_CONFIG}

BifArgc(bif) ==
  CASE bif = MB_BIF_MONOTONIC_MS                                  -> 0
    [] bif = MB_BIF_GPIO_READ                                     -> 1
    [] bif \in {MB_BIF_GPIO_WRITE, MB_BIF_PWM_SET_DUTY,
                MB_BIF_PWM_CONFIG}                                -> 2
    [] bif = MB_BIF_I2C_READ_REG                                  -> 3
    [] bif = MB_BIF_I2C_WRITE_REG                                 -> 4

BifArgumentsValid(bif, arg) ==
  CASE bif = MB_BIF_MONOTONIC_MS  -> TRUE
    [] bif = MB_BIF_GPIO_WRITE    -> arg[1] \in GpioPin /\ arg[2] \in GpioLevel
    [] bif = MB_BIF_GPIO_READ     -> arg[1] \in GpioPin
    [] bif = MB_BIF_PWM_SET_DUTY  -> arg[1] \in PwmChannel /\ arg[2] \in PwmPermille
    [] bif = MB_BIF_PWM_CONFIG    -> arg[1] \in PwmChannel /\ arg[2] \in PwmFrequency
    [] bif = MB_BIF_I2C_READ_REG  -> /\ arg[1] \in I2cBus /\ arg[2] \in I2cAddr
                                     /\ arg[3] \in U8
    [] bif = MB_BIF_I2C_WRITE_REG -> /\ arg[1] \in I2cBus /\ arg[2] \in I2cAddr
                                     /\ arg[3] \in U8 /\ arg[4] \in U8

\* Faulty: PWM_SET_DUTY leaves its arguments to the driver.
BifStatusNoDuty(bif, arg, dst) ==
  IF ~ValidReg(dst) THEN MB_BAD_REG
  ELSE IF bif \notin Bifs THEN MB_BAD_BIF
  ELSE IF Len(arg) # BifArgc(bif) THEN MB_BAD_ARGC
  ELSE IF bif # MB_BIF_PWM_SET_DUTY /\ ~BifArgumentsValid(bif, arg) THEN MB_BAD_ARGUMENT
  ELSE MB_OK

\* mb_call_bif's checks, in its order.
BifStatus(bif, arg, dst) ==
  IF ~ValidReg(dst) THEN MB_BAD_REG
  ELSE IF bif \notin Bifs THEN MB_BAD_BIF
  ELSE IF Len(arg) # BifArgc(bif) THEN MB_BAD_ARGC
  ELSE IF ~BifArgumentsValid(bif, arg) THEN MB_BAD_ARGUMENT
  ELSE MB_OK

\* The integers a BIF may put in its destination register.
BifResults(bif) == IF bif = MB_BIF_MONOTONIC_MS THEN {Now}
                   ELSE IF bif \in WriteBifs THEN WriteResults
                   ELSE ReadResults

\* Operands first..last of an instruction that checks each register as it
\* fetches it are all there and valid.
OperandsDecoded(p, first, last) ==
  \A k \in first..last : Fetchable(p, k) /\ ValidReg(Byte(p, k))

\* They are not: either one is invalid, or the program ends among them.
OperandFault(p, first, last) ==
  LET bad == {k \in first..last : Fetchable(p, k) /\ ~ValidReg(Byte(p, k))}
  IN  IF bad = {} THEN Fault(p, Size(p), MB_EOF)
      ELSE \E k \in bad : /\ \A j \in bad : k <= j
                          /\ Fault(p, pc[p] + k + 1, MB_BAD_REG)

CallBifArgc(p) == Byte(p, 2)

\* The operands could not all be fetched.
CallBifUndecoded(p) ==
  /\ Executing(p, MB_OP_CALL_BIF)
  /\ \/ /\ ~Fetchable(p, 2)
        /\ Fault(p, Size(p), MB_EOF)
     \/ /\ Fetchable(p, 2)
        /\ CallBifArgc(p) > 8
        /\ Fault(p, pc[p] + 3, MB_BAD_ARGC)
     \/ /\ Fetchable(p, 2)
        /\ CallBifArgc(p) <= 8
        /\ ~( /\ OperandsDecoded(p, 3, CallBifArgc(p) + 2)
              /\ Fetchable(p, CallBifArgc(p) + 3) )
        /\ OperandFault(p, 3, CallBifArgc(p) + 2)

\* mb_call_bif runs: it either refuses the call or reaches the hardware.
CallBif(p) ==
  /\ Executing(p, MB_OP_CALL_BIF)
  /\ Fetchable(p, 2)
  /\ CallBifArgc(p) <= 8
  /\ OperandsDecoded(p, 3, CallBifArgc(p) + 2)
  /\ Fetchable(p, CallBifArgc(p) + 3)
  /\ LET bif   == Byte(p, 1)
         arg   == [i \in 1..CallBifArgc(p) |-> RegInt(p, i + 2)]
         dst   == CallBifArgc(p) + 3
         after == pc[p] + dst + 1
         rc    == BifStatus(bif, arg, Byte(p, dst))
     IN  \/ rc # MB_OK /\ Fault(p, after, rc)
         \/ /\ rc = MB_OK
            /\ \E result \in BifResults(bif) :
                 regs' = SetReg(p, dst, MAKE_SMALLINT(result))
            /\ pc' = [pc EXCEPT ![p] = after]
            /\ lastError' = [lastError EXCEPT ![p] = MB_OK]
            /\ hal' = IF bif \in WriteBifs THEN <<bif, arg>> ELSE hal
            /\ CountReduction(p, reductions[p])
            /\ UNCHANGED <<state, program, mailbox, halted, sleepUntil, clock>>

\* The step of p passes mb_call_bif's checks and calls the driver.
Calls(p, bif) == /\ Executing(p, MB_OP_CALL_BIF)
                 /\ Byte(p, 1) = bif
                 /\ running' = p \/ runRc' = MB_OK

\* What the driver returned, or what it read.
Returned(p) == GET_SMALLINT(regs'[p][Byte(p, CallBifArgc(p) + 3)])

-----------------------------------------------------------------------------
(* Messages.                                                               *)

\* Operands 1..5 of RECV_CMD: the registers that take the five fields.
\* Written in this order, so a repeated register keeps the last.
SetCommandRegs(p, type, a, b, c, d) ==
  [regs EXCEPT ![p] = [@ EXCEPT ![Byte(p, 1)] = MAKE_SMALLINT(type),
                                ![Byte(p, 2)] = MAKE_SMALLINT(a),
                                ![Byte(p, 3)] = MAKE_SMALLINT(b),
                                ![Byte(p, 4)] = MAKE_SMALLINT(c),
                                ![Byte(p, 5)] = MAKE_SMALLINT(d)]]

\* A command is taken and validated once more; one that fails reads as
\* NONE with the reason.
RecvCmd(p) ==
  /\ Decoded(p, MB_OP_RECV_CMD)
  /\ mailbox[p].count # 0
  /\ LET cmd == First(mailbox[p])
         rc  == ValidateCommand(cmd)
     IN  /\ regs' = IF rc = MB_OK
                    THEN SetCommandRegs(p, cmd.type, cmd.a, cmd.b, cmd.c, cmd.d)
                    ELSE SetCommandRegs(p, MB_CMD_NONE, rc, 0, 0, 0)
         /\ lastError' = [lastError EXCEPT ![p] = rc]
  /\ mailbox' = [mailbox EXCEPT ![p] = Popped(@)]
  /\ pc' = [pc EXCEPT ![p] = AfterOperands(p, MB_OP_RECV_CMD)]
  /\ CountReduction(p, reductions[p])
  /\ UNCHANGED <<state, program, halted, sleepUntil, clock, hal>>

\* The mailbox is empty: the pc is put back to the opcode and p waits.
RecvCmdBlocks(p) ==
  /\ Decoded(p, MB_OP_RECV_CMD)
  /\ mailbox[p].count = 0
  /\ LeaveReady(p, "WAITING")
  /\ UNCHANGED <<pc, halted, sleepUntil>>

\* mb_sched_proc finds a process behind the pid.
Live(pid) == pid \in Pids /\ state[pid] # "FREE"

\* The raw int32 of a register becomes a pid by a cast to uint8_t.
PidOf(v) == v % 256

\* The command SEND assembles from the registers of operands 2..6.
SendCommand(p) ==
  [type |-> RegInt(p, 2), a |-> RegInt(p, 3), b |-> RegInt(p, 4),
   c |-> RegInt(p, 5), d |-> RegInt(p, 6)]

\* Faulty: the push does not wake a waiting target.
DeliverAsleep(q, cmd) ==
  IF PushStatus(mailbox[q], cmd) = MB_OK
  THEN /\ mailbox' = [mailbox EXCEPT ![q] = Pushed(@, cmd)]
       /\ UNCHANGED state
  ELSE UNCHANGED <<mailbox, state>>

\* Faulty: the push makes its target READY whatever it was doing.
DeliverWakesAll(q, cmd) ==
  IF PushStatus(mailbox[q], cmd) = MB_OK
  THEN /\ mailbox' = [mailbox EXCEPT ![q] = Pushed(@, cmd)]
       /\ state' = [state EXCEPT ![q] = "READY"]
  ELSE UNCHANGED <<mailbox, state>>

\* A push to process q; an accepted command makes a WAITING q READY.
Deliver(q, cmd) ==
  IF PushStatus(mailbox[q], cmd) = MB_OK
  THEN /\ mailbox' = [mailbox EXCEPT ![q] = Pushed(@, cmd)]
       /\ state' = [state EXCEPT ![q] = IF @ = "WAITING" THEN "READY" ELSE @]
  ELSE UNCHANGED <<mailbox, state>>

\* Faulty: the result is written into the target's registers.
SendWritesTarget(p) ==
  /\ Decoded(p, MB_OP_SEND)
  /\ LET q   == PidOf(RegInt(p, 1))
         cmd == SendCommand(p)
     IN  IF Live(q)
         THEN /\ Deliver(q, cmd)
              /\ regs' = [regs EXCEPT ![q][Byte(p, 1)] =
                                  MAKE_SMALLINT(PushStatus(mailbox[q], cmd))]
         ELSE /\ regs' = SetReg(p, 1, MAKE_SMALLINT(MB_BAD_PID))
              /\ UNCHANGED <<mailbox, state>>
  /\ pc' = [pc EXCEPT ![p] = AfterOperands(p, MB_OP_SEND)]
  /\ CountReduction(p, reductions[p])
  /\ UNCHANGED <<program, halted, lastError, sleepUntil, clock, hal>>

\* The result replaces the pid in the register that held it.
Send(p) ==
  /\ Decoded(p, MB_OP_SEND)
  /\ LET q   == PidOf(RegInt(p, 1))
         cmd == SendCommand(p)
     IN  IF Live(q)
         THEN /\ Deliver(q, cmd)
              /\ regs' = SetReg(p, 1, MAKE_SMALLINT(PushStatus(mailbox[q], cmd)))
         ELSE /\ regs' = SetReg(p, 1, MAKE_SMALLINT(MB_BAD_PID))
              /\ UNCHANGED <<mailbox, state>>
  /\ pc' = [pc EXCEPT ![p] = AfterOperands(p, MB_OP_SEND)]
  /\ CountReduction(p, reductions[p])
  /\ UNCHANGED <<program, halted, lastError, sleepUntil, clock, hal>>

-----------------------------------------------------------------------------
(* Leaving the run queue.                                                  *)

SleepMs(p) ==
  /\ Decoded(p, MB_OP_SLEEP_MS)
  /\ sleepUntil' = [sleepUntil EXCEPT ![p] = (Now + RegInt(p, 1)) % ClockMod]
  /\ pc' = [pc EXCEPT ![p] = AfterOperands(p, MB_OP_SLEEP_MS)]
  /\ LeaveReady(p, "SLEEPING")
  /\ UNCHANGED halted

Halt(p) ==
  /\ Decoded(p, MB_OP_HALT)
  /\ halted' = [halted EXCEPT ![p] = TRUE]
  /\ pc' = [pc EXCEPT ![p] = AfterOperands(p, MB_OP_HALT)]
  /\ LeaveReady(p, "HALTED")
  /\ UNCHANGED sleepUntil

-----------------------------------------------------------------------------
(* Heap instructions.                                                      *)

\* The register files of p after a collection: every heap reference keeps
\* its tag and may have a new location.  Also what no collection leaves.
RelocatedRegs(p) ==
  LET refs == {r \in Regs : IsHeapRef(regs[p][r])}
  IN  {[r \in Regs |-> IF r \in refs THEN [regs[p][r] EXCEPT !.val = loc[r]]
                       ELSE regs[p][r]] : loc \in [refs -> HeapLocs]}

\* An allocation by p: the new object's reference, one of refs, goes to the
\* register of operand 1, or there is no room even after a collection.
Allocate(p, after, refs) ==
  \E file \in RelocatedRegs(p) :
    \/ \E ref \in refs :
         Retire(p, after, [regs EXCEPT ![p] = [file EXCEPT ![Byte(p, 1)] = ref]])
    \/ HeapCanFill /\ FaultWith(p, after, MB_HEAP_OOM, [regs EXCEPT ![p] = file])

MakeTupleArity(p) == Byte(p, 2)

MakeTupleUndecoded(p) ==
  /\ Executing(p, MB_OP_MAKE_TUPLE)
  /\ \/ /\ ~Fetchable(p, 2)
        /\ Fault(p, Size(p), MB_EOF)
     \/ /\ Fetchable(p, 2)
        /\ MakeTupleArity(p) > 16
        /\ Fault(p, pc[p] + 3, MB_BAD_ARITY)
     \/ /\ Fetchable(p, 2)
        /\ MakeTupleArity(p) <= 16
        /\ ~ValidReg(Byte(p, 1))
        /\ Fault(p, pc[p] + 3, MB_BAD_REG)
     \/ /\ Fetchable(p, 2)
        /\ MakeTupleArity(p) <= 16
        /\ ValidReg(Byte(p, 1))
        /\ ~OperandsDecoded(p, 3, MakeTupleArity(p) + 2)
        /\ OperandFault(p, 3, MakeTupleArity(p) + 2)

MakeTuple(p) ==
  /\ Executing(p, MB_OP_MAKE_TUPLE)
  /\ Fetchable(p, 2)
  /\ MakeTupleArity(p) <= 16
  /\ ValidReg(Byte(p, 1))
  /\ OperandsDecoded(p, 3, MakeTupleArity(p) + 2)
  /\ Allocate(p, pc[p] + MakeTupleArity(p) + 3, {MAKE_BOXED(loc) : loc \in HeapLocs})

Cons(p) ==
  /\ Decoded(p, MB_OP_CONS)
  /\ Allocate(p, AfterOperands(p, MB_OP_CONS), {MAKE_CONS(loc) : loc \in HeapLocs})

\* Header and arity are on the heap, so their checks may go either way.
TupleElem(p) ==
  LET after == AfterOperands(p, MB_OP_TUPLE_ELEM)
  IN  /\ Decoded(p, MB_OP_TUPLE_ELEM)
      /\ IF ~IsBoxed(RegTerm(p, 2)) THEN Fault(p, after, MB_BAD_TERM)
         ELSE \/ \E rc \in {MB_BAD_TERM, MB_BAD_ARITY} : Fault(p, after, rc)
              \/ \E t \in HeapContents : Retire(p, after, SetReg(p, 1, t))

\* HEAD and TAIL, which differ in the cell's word they load.
ConsWord(p, op) ==
  LET after == AfterOperands(p, op)
  IN  /\ Decoded(p, op)
      /\ IF ~IsCons(RegTerm(p, 2)) THEN Fault(p, after, MB_BAD_TERM)
         ELSE \E t \in HeapContents : Retire(p, after, SetReg(p, 1, t))

HeadOrTail(p) == ConsWord(p, MB_OP_HEAD) \/ ConsWord(p, MB_OP_TAIL)

-----------------------------------------------------------------------------
\* mb_proc_step of the running process.
Step(p) ==
  \/ NoOpcode(p) \/ TruncatedOperands(p) \/ BadRegister(p) \/ BadOpcode(p)
  \/ Nop(p) \/ ConstI32(p) \/ Move(p) \/ Add(p) \/ Sub(p)
  \/ Self(p) \/ Yield(p) \/ Jmp(p) \/ JmpIfZero(p)
  \/ CallBifUndecoded(p) \/ CallBif(p)
  \/ RecvCmd(p) \/ RecvCmdBlocks(p) \/ Send(p)
  \/ SleepMs(p) \/ Halt(p)
  \/ MakeTupleUndecoded(p) \/ MakeTuple(p) \/ Cons(p)
  \/ TupleElem(p) \/ HeadOrTail(p)

\* mb_proc_init on slot p: everything is zeroed but the program and state.
ProcInit(p, name) ==
  /\ state' = [state EXCEPT ![p] = "READY"]
  /\ program' = [program EXCEPT ![p] = name]
  /\ pc' = [pc EXCEPT ![p] = 0]
  /\ regs' = [regs EXCEPT ![p] = [r \in Regs |-> ZeroTerm]]
  /\ mailbox' = [mailbox EXCEPT ![p] = EmptyMailbox]
  /\ halted' = [halted EXCEPT ![p] = FALSE]
  /\ lastError' = [lastError EXCEPT ![p] = MB_OK]
  /\ sleepUntil' = [sleepUntil EXCEPT ![p] = 0]
  /\ reductions' = [reductions EXCEPT ![p] = 0]
=============================================================================
