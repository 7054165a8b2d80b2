--------------------------- MODULE MCInstructions ---------------------------
(***************************************************************************)
(* Model-checking instance of MbScheduler for programs.  Either one        *)
(* process runs one of a set of programs that between them execute every   *)
(* opcode and fail in every way an instruction can fail (a fault does not  *)
(* stop a process, so one program can hold a series of faults); or up to   *)
(* MaxProcesses processes run the programs of MCScheduler, one of which    *)
(* never yields, and compete for the scheduler.  The driver is the nRF52's *)
(* on a board that has all its devices, or for `signals` none.             *)
(***************************************************************************)
EXTENDS MCScheduler, MbNrf52, MbBytecode, TLC

Compiler == INSTANCE FlowCompiler

Jump(v)     == JmpBy(v)
JumpZ(r, v) == <<MB_OP_JMP_IF_ZERO, r>> \o LE(v)
Bif(b, args, dst) == <<MB_OP_CALL_BIF, b, Len(args)>> \o args \o <<dst>>
Tuple(dst, elems) == <<MB_OP_MAKE_TUPLE, dst, Len(elems)>> \o elems

\* Arithmetic wraps to the payload; a fresh register is not the integer 0.
Arithmetic ==
  Const(0, 5) \o JumpZ(1, 1) \o <<MB_OP_MOVE, 1, 0, 0, MB_OP_ADD, 1, 1, 0,
    MB_OP_SUB, 2, 1, 0, MB_OP_NOP, MB_OP_SUB, 3, 0, 0>>
  \o JumpZ(3, 1) \o <<119, MB_OP_SELF, 2, MB_OP_YIELD, MB_OP_SELF, 9>>
  \o JumpZ(3, -128) \o JumpZ(3, 500) \o <<MB_OP_HALT>>

\* Every BIF, and every reason to refuse one.
BifCalls ==
  Const(0, 1) \o Const(1, 300)
  \o Bif(MB_BIF_GPIO_WRITE, <<0, 0>>, 2) \o Bif(MB_BIF_PWM_SET_DUTY, <<0, 1>>, 2)
  \o Bif(MB_BIF_I2C_READ_REG, <<0, 0, 0>>, 2) \o Bif(MB_BIF_MONOTONIC_MS, <<>>, 2)
  \o Bif(MB_BIF_GPIO_READ, <<0>>, 2) \o Bif(MB_BIF_PWM_CONFIG, <<0, 1>>, 2)
  \o Bif(MB_BIF_I2C_WRITE_REG, <<0, 0, 0, 0>>, 2)
  \o Bif(MB_BIF_PWM_SET_DUTY, <<1, 1>>, 2) \o Bif(MB_BIF_GPIO_READ, <<0, 0>>, 2)
  \o Bif(8, <<>>, 2) \o Bif(MB_BIF_MONOTONIC_MS, <<>>, 9)
  \o <<MB_OP_CALL_BIF, MB_BIF_GPIO_READ, 1, 77, MB_OP_CALL_BIF, 1, 9>>
  \o <<MB_OP_CALL_BIF, MB_BIF_GPIO_WRITE, 2, 0>>

\* The heap instructions; each may also find the heap full.
Heap ==
  Tuple(0, <<1>>) \o <<MB_OP_TUPLE_ELEM, 1, 0, 0, MB_OP_CONS, 2, 1, 3>>
  \o <<MB_OP_HEAD, 1, 2, MB_OP_TAIL, 1, 2, MB_OP_TUPLE_ELEM, 1, 2, 0>>
  \o <<MB_OP_HEAD, 1, 0, MB_OP_TAIL, 1, 3, MB_OP_MAKE_TUPLE, 0, 17>>
  \o <<MB_OP_MAKE_TUPLE, 9, 1, MB_OP_MAKE_TUPLE, 1, 1, 77>>
  \o <<MB_OP_MAKE_TUPLE, 1, 2, 0>>

\* Messages to itself, one invalid and one to nobody, then a loop that
\* receives and sleeps for as long as the command says.
Messages ==
  Const(1, 15) \o Const(2, 6) \o <<MB_OP_SELF, 0, MB_OP_SEND, 0, 3, 3, 3, 1, 3>>
  \o <<MB_OP_SELF, 0, MB_OP_SEND, 0, 2, 3, 3, 3, 3, MB_OP_SEND, 0, 3, 3, 3, 3, 3>>
  \o <<MB_OP_RECV_CMD, 0, 1, 1, 1, 3, MB_OP_SLEEP_MS, 1>> \o Jump(-13)

\* A well-formed program that faults and goes on, branches, and halts.
Careful ==
  Const(0, 300) \o Bif(MB_BIF_GPIO_READ, <<0>>, 1) \o Bif(MB_BIF_GPIO_WRITE, <<2, 2>>, 1)
  \o Tuple(1, <<0, 2>>) \o <<MB_OP_TUPLE_ELEM, 2, 1, 0, MB_OP_HEAD, 3, 0, MB_OP_YIELD>>
  \o JumpZ(2, 1) \o <<MB_OP_HALT, MB_OP_CONS, 2, 2, 2>> \o Jump(-17)

\* PWM calls inside their ranges, at the ranges' ends and outside, among these
\* some that the casts to the driver's types bring back inside: as a uint16_t
\* -65036 and 66036 are 500, as a uint8_t 256 and -256 are channel 0.
Asks(bif, channel, value) == Compiler!const_i32(0, channel)
                             \o Compiler!const_i32(1, value) \o Bif(bif, <<0, 1>>, 2)

Duty(channel, permille) == Asks(MB_BIF_PWM_SET_DUTY, channel, permille)
Frequency(channel, hz)  == Asks(MB_BIF_PWM_CONFIG, channel, hz)

Signals ==
  Frequency(0, 25000) \o Duty(0, -5) \o Duty(0, -65036) \o Duty(0, 66036)
  \o Duty(256, 300) \o Duty(8, 300) \o Duty(0, 700) \o Duty(7, 1000)
  \o Duty(0, 1001) \o Duty(0, 0) \o Frequency(7, 0) \o Frequency(7, -1)
  \o Frequency(-256, 40000) \o Frequency(7, 40001) \o Frequency(7, 40000)
  \o Frequency(0, 1) \o <<MB_OP_HALT>>

Alone ==
  [arithmetic |-> Arithmetic, calls |-> BifCalls, heap |-> Heap,
   messages |-> Messages, careful |-> Careful, signals |-> Signals,
   forward  |-> Jump(1) \o <<MB_OP_NOP>> \o Jump(2),
   shortBif |-> <<MB_OP_CALL_BIF, 1>>, shortTuple |-> <<MB_OP_MAKE_TUPLE, 1>>,
   bad      |-> <<119, MB_OP_HALT>>,
   short    |-> Jump(-6) \o <<MB_OP_CONST_I32, 0, 1>>]

InstructionCode == Alone @@ MCCode

ASSUME SomeAreWellFormed ==
  WellFormed = {"messages", "careful", "signals", "server", "client"}

InstructionReads  == {255, -1}
InstructionWrites == {0, -1}
InstructionHeaps  == {ZeroTerm, MAKE_CONS(0)}

Devices == {"i2c0", "i2c1", "pwm0"}

ProgramsInit == /\ Init
                /\ ready \in {Devices, {}}
                /\ wire = [c \in PwmChannel |-> NoSignal]

\* A program of the instruction set has the runtime to itself.
Allowed == \A p \in Pids : Live(p) =>
             /\ program[p] \in DOMAIN Alone => count = 1
             /\ ready = {} => program[p] = "signals"

ProgramsNext ==
  /\ \/ \E p \in Pids : Run(p) /\ Answered(p) /\ wire' = Wired(p)
     \/ /\ \/ \E name \in DOMAIN Code : Spawn(name)
           \/ \E q \in Pids, cmd \in NativeCommands : SchedSend(q, cmd)
           \/ Tick
           \/ ClockTick
        /\ UNCHANGED wire
  /\ UNCHANGED ready
  /\ Allowed'

programVars == <<vars, ready, wire>>

ProgramsSpec == ProgramsInit /\ [][ProgramsNext]_programVars /\ Fairness
=============================================================================
