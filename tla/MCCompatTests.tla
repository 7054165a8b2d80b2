--------------------------- MODULE MCCompatTests ---------------------------
(***************************************************************************)
(* The native programs that run one machine without a scheduler: the       *)
(* compatibility tests of main_regression_host.c, the demos main_host.c    *)
(* and main_mailbox_host.c, and app_main of the ESP-IDF application.  Each *)
(* is a script of calls with the results it expects.  MCCompat runs them   *)
(* beside native code that calls freely.                                   *)
(***************************************************************************)
EXTENDS MbCompatCalls

Compiler == INSTANCE FlowCompiler
const(r, v) == Compiler!const_i32(r, v)

-----------------------------------------------------------------------------
(* The programs.                                                           *)

recv_empty == <<MB_OP_RECV_CMD, 0, 1, 2, 3, 4, MB_OP_HALT>>

demo_program ==
  const(0, 2) \o const(1, 1) \o <<MB_OP_CALL_BIF, MB_BIF_GPIO_WRITE, 2, 0, 1, 15>>
  \o const(2, 0) \o const(3, 600)
  \o <<MB_OP_CALL_BIF, MB_BIF_PWM_SET_DUTY, 2, 2, 3, 15>>
  \o const(4, 0) \o const(5, 104) \o const(6, 117)
  \o <<MB_OP_CALL_BIF, MB_BIF_I2C_READ_REG, 3, 4, 5, 6, 7>>
  \o const(9, 2) \o <<MB_OP_CALL_BIF, MB_BIF_GPIO_READ, 1, 9, 10>>
  \o const(11, 1000) \o <<MB_OP_CALL_BIF, MB_BIF_PWM_CONFIG, 2, 2, 11, 15>>
  \o const(12, 28) \o <<MB_OP_CALL_BIF, MB_BIF_I2C_WRITE_REG, 4, 4, 5, 6, 12, 15>>
  \o const(8, 50) \o <<MB_OP_SLEEP_MS, 8, MB_OP_HALT>>

\* One test of the command's type, and the jump if it is cmd.
JumpIfType(cmd, offset) ==
  const(5, cmd) \o <<MB_OP_SUB, 6, 0, 5, MB_OP_JMP_IF_ZERO, 6>>
  \o Compiler!i32le(offset)

app_program ==
  <<MB_OP_RECV_CMD, 0, 1, 2, 3, 4>>
  \o JumpIfType(MB_CMD_GPIO_WRITE, 21) \o JumpIfType(MB_CMD_PWM_SET_DUTY, 15)
  \o JumpIfType(MB_CMD_I2C_READ, 9) \o <<MB_OP_HALT>>
  \o <<MB_OP_CALL_BIF, MB_BIF_GPIO_WRITE, 2, 1, 2, 15, MB_OP_HALT>>
  \o <<MB_OP_CALL_BIF, MB_BIF_PWM_SET_DUTY, 2, 1, 2, 15, MB_OP_HALT>>
  \o <<MB_OP_CALL_BIF, MB_BIF_I2C_READ_REG, 3, 1, 2, 3, 7, MB_OP_HALT>>

TestCode == [none |-> <<>>, opcode |-> <<126>>, register |-> const(77, 1),
             recv |-> recv_empty, demo |-> demo_program, app |-> app_program]

-----------------------------------------------------------------------------
(* The scripts.                                                            *)

Push(cmd, rc) == [op |-> "push", cmd |-> cmd, expect |-> rc]
RunVm(n, rc)  == [op |-> "run", limit |-> n, expect |-> rc]
Reg(r, value) == [op |-> "reg", r |-> r, expect |-> value]
Hal(write)    == [op |-> "hal", expect |-> write]

Cmd(type, a, b, c, d) == [type |-> type, a |-> a, b |-> b, c |-> c, d |-> d]
GpioWrite == Cmd(MB_CMD_GPIO_WRITE, 2, 1, 0, 0)

test_invalid_command_rejected == <<Push(Cmd(999, 0, 0, 0, 0), MB_INVALID_COMMAND)>>

test_bad_argument_rejected ==
  <<Push(Cmd(MB_CMD_GPIO_WRITE, 100, 1, 0, 0), MB_BAD_ARGUMENT)>>

test_mailbox_full == [i \in 1..MailboxCapacity |-> Push(GpioWrite, MB_OK)]
                     \o <<Push(GpioWrite, MB_MAILBOX_FULL)>>

test_recv_empty_is_nonfatal ==
  <<RunVm(8, MB_OK), Reg(0, MB_CMD_NONE), Reg(1, MB_MAILBOX_EMPTY)>>

\* What main_host.c and main_mailbox_host.c check and print; the stub prints
\* each write to a device.
host_demo == <<RunVm(1024, MB_OK), Hal(<<MB_BIF_I2C_WRITE_REG, <<0, 104, 117, 28>>>>),
               Reg(7, 29), Reg(10, 0)>>

mailbox_demo ==
  <<Push(Cmd(MB_CMD_I2C_WRITE, 0, 104, 117, 28), MB_OK), RunVm(8, MB_OK),
    Reg(0, MB_CMD_I2C_WRITE), Reg(1, 0), Reg(2, 104), Reg(3, 117), Reg(4, 28),
    Push(Cmd(999, 0, 0, 0, 0), MB_INVALID_COMMAND)>>

app_main == <<Push(GpioWrite, MB_OK), RunVm(128, MB_OK)>>

\* Every script and the program of its machine.
AllScripts ==
  [invalid_command |-> [code |-> "none", calls |-> test_invalid_command_rejected],
   bad_argument    |-> [code |-> "none", calls |-> test_bad_argument_rejected],
   mailbox_full    |-> [code |-> "none", calls |-> test_mailbox_full],
   invalid_opcode  |-> [code |-> "opcode", calls |-> <<RunVm(8, MB_BAD_OPCODE)>>],
   bad_register    |-> [code |-> "register", calls |-> <<RunVm(8, MB_BAD_REG)>>],
   recv_empty      |-> [code |-> "recv", calls |-> test_recv_empty_is_nonfatal],
   host_demo       |-> [code |-> "demo", calls |-> host_demo],
   mailbox_demo    |-> [code |-> "recv", calls |-> mailbox_demo],
   app_main        |-> [code |-> "app", calls |-> app_main]]

-----------------------------------------------------------------------------
VARIABLES
  script,   \* the script that is run, or the name of a way to call freely
  at,       \* the call it is at
  failures  \* how many results were not the expected ones

testVars == <<script, at, failures>>

Scripted == script \in DOMAIN AllScripts
Entry == AllScripts[script].calls[at]

\* The script is at an entry of this kind.
At(op) == /\ Scripted
          /\ at <= Len(AllScripts[script].calls)
          /\ Entry.op = op

\* The entry's result is checked and the script goes on.
Check(result) ==
  /\ at' = at + 1
  /\ failures' = IF result = Entry.expect THEN failures ELSE failures + 1
  /\ UNCHANGED script

TestPush ==
  /\ At("push")
  /\ Check(PushStatus(vm[1].mailbox, Entry.cmd))
  /\ \/ PushCommand(1, Entry.cmd)
     \/ /\ PushStatus(vm[1].mailbox, Entry.cmd) # MB_OK
        /\ UNCHANGED callsVars

TestRun == /\ At("run") /\ CallMachine(1, Entry.limit)
           /\ UNCHANGED testVars

TestReturn == At("run") /\ ReturnToCaller /\ Check(runRc)

TestReg == /\ At("reg")
           /\ Check(GET_SMALLINT(vm[1].regs[Entry.r]))
           /\ UNCHANGED callsVars

TestHal == /\ At("hal")
           /\ Check(hal)
           /\ UNCHANGED callsVars

\* Running a script, up to the instructions of its calls.
TestStep == TestPush \/ TestRun \/ TestReturn \/ TestReg \/ TestHal

-----------------------------------------------------------------------------
\* Each call of the tests and of the host's demos returns what the program
\* checks for, and leaves in the registers and at the driver what it checks
\* for, or what its program and the stub's values make of what it prints.
AsExpected == script # "app_main" => failures = 0

\* The dispatcher of app_main takes the command it is sent and runs to its end
\* (app_main.c checks both calls for MB_OK, and logs "vm failed" otherwise).
DispatcherRuns == script = "app_main" => failures = 0
=============================================================================
