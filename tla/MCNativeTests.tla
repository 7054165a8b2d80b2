---------------------------- MODULE MCNativeTests ----------------------------
(***************************************************************************)
(* The native programs that test the scheduler on the host, over the stub  *)
(* driver: the scheduler tests of main_regression_host.c,                  *)
(* main_multiproc_host.c and main_flow_host.c.  Each is a script of calls  *)
(* with the results it expects.  MCFlow runs them beside the firmware.     *)
(***************************************************************************)
EXTENDS MbFirmware, MbStub, FlowFiles, TLC

const(r, v) == Compiler!const_i32(r, v)

-----------------------------------------------------------------------------
(* The programs.                                                           *)

\* main_multiproc_host.c
prog_sensor ==
  const(0, 0) \o const(1, 104) \o const(2, 117)
  \o <<MB_OP_CALL_BIF, MB_BIF_I2C_READ_REG, 3, 0, 1, 2, 7>>
  \o const(3, 2) \o const(4, 2) \o const(5, 0) \o <<MB_OP_MOVE, 6, 7, 0>>
  \o const(8, 0) \o <<MB_OP_SEND, 3, 4, 5, 6, 8, 8, MB_OP_HALT>>

prog_actuator ==
  <<MB_OP_RECV_CMD, 0, 1, 2, 3, 4>>
  \o <<MB_OP_CALL_BIF, MB_BIF_PWM_SET_DUTY, 2, 1, 2, 5, MB_OP_HALT>>

TestCode ==
  [halt      |-> <<MB_OP_HALT>>,
   recv      |-> <<MB_OP_RECV_CMD, 0, 1, 2, 3, 4, MB_OP_HALT>>,
   self      |-> <<MB_OP_SELF, 0, MB_OP_HALT>>,
   yield     |-> <<MB_OP_YIELD>> \o const(0, 42) \o <<MB_OP_HALT>>,
   prog_a    |-> const(0, 100) \o <<MB_OP_HALT>>,
   prog_b    |-> const(0, 200) \o <<MB_OP_HALT>>,
   sensor    |-> prog_sensor,
   receiver  |-> prog_actuator,
   flow      |-> Compiler!compile_flow(stress_fast_poll).sensors[1],
   drain     |-> Compiler!compile_flow(stress_fast_poll).actuator]

-----------------------------------------------------------------------------
(* The scripts.                                                            *)

SpawnAs(name, pid)  == [op |-> "spawn", name |-> name, expect |-> pid]
SendTo(q, cmd, rc)  == [op |-> "send", pid |-> q, cmd |-> cmd, expect |-> rc]
TickIs(rc)          == [op |-> "tick", expect |-> rc]
TickUntilIdle(n)    == [op |-> "loop", limit |-> n]
StateIs(p, s)       == [op |-> "state", pid |-> p, expect |-> s]
RegIs(p, r, v)      == [op |-> "reg", pid |-> p, r |-> r, expect |-> v]
TermIs(p, r, term)  == [op |-> "term", pid |-> p, r |-> r, expect |-> term]

GpioWrite == [NoneCommand EXCEPT !.type = MB_CMD_GPIO_WRITE, !.a = 2, !.b = 1]

test_sched_spawn_and_halt ==
  <<SpawnAs("halt", 1), TickIs(MB_OK), StateIs(1, "HALTED"), TickIs(MB_SCHED_IDLE)>>

test_sched_full_table ==
  [i \in 1..MaxProcesses |-> SpawnAs("halt", i)] \o <<SpawnAs("halt", 0)>>

test_sched_send_ext ==
  <<SpawnAs("recv", 1), TickIs(MB_OK), StateIs(1, "WAITING"),
    TickIs(MB_SCHED_IDLE), SendTo(1, GpioWrite, MB_OK), StateIs(1, "READY"),
    TickIs(MB_OK), RegIs(1, 0, MB_CMD_GPIO_WRITE), RegIs(1, 1, 2), StateIs(1, "HALTED")>>

test_sched_send_bad_pid == <<SendTo(99, GpioWrite, MB_BAD_PID)>>

test_self_opcode == <<SpawnAs("self", 1), TickIs(MB_OK), TermIs(1, 0, MAKE_PID(1))>>

test_yield_opcode ==
  <<SpawnAs("yield", 1), TickIs(MB_OK), StateIs(1, "READY"),
    TickIs(MB_OK), RegIs(1, 0, 42), StateIs(1, "HALTED")>>

test_two_process_round_robin ==
  <<SpawnAs("prog_a", 1), SpawnAs("prog_b", 2), TickUntilIdle(10),
    RegIs(1, 0, 100), RegIs(2, 0, 200), StateIs(1, "HALTED"), StateIs(2, "HALTED")>>

multiproc ==
  <<SpawnAs("sensor", 1), SpawnAs("receiver", 2), TickUntilIdle(100),
    StateIs(1, "HALTED"), RegIs(1, 7, 29), RegIs(1, 3, MB_OK),
    StateIs(2, "HALTED"), RegIs(2, 0, MB_CMD_PWM_SET_DUTY), RegIs(2, 1, 0),
    RegIs(2, 2, 29), RegIs(2, 5, 0)>>

flow_host ==
  <<SpawnAs("flow", 1), SpawnAs("drain", 2), TickUntilIdle(200),
    RegIs(2, 0, MB_CMD_PWM_SET_DUTY), RegIs(2, 1, 0), RegIs(2, 2, 170)>>

Tests == {test_sched_spawn_and_halt, test_sched_full_table, test_sched_send_ext,
          test_sched_send_bad_pid, test_self_opcode, test_yield_opcode,
          test_two_process_round_robin, multiproc, flow_host}

-----------------------------------------------------------------------------
VARIABLES
  script,   \* what is left of the test, or Firmware
  ticks,    \* of the loop the script is at
  failures  \* how many results were not the expected ones

testVars == <<script, ticks, failures>>

Firmware == <<[op |-> "firmware"]>>
Testing  == script # Firmware
At(op)   == Testing /\ script # <<>> /\ Head(script).op = op
Entry    == Head(script)

Count(failed) == failures' = IF failed THEN failures + 1 ELSE failures

\* The entry's result is checked and the script goes on.
Check(result) == /\ script' = Tail(script)
                 /\ Count(result # Entry.expect)
                 /\ UNCHANGED ticks

\* mb_sched_spawn returns the pid, or MB_PID_NONE if the table is full.
TestSpawn ==
  /\ At("spawn")
  /\ \/ Spawn(Entry.name) /\ Check(count + 1)
     \/ count = MaxProcesses /\ Check(0) /\ UNCHANGED vars
  /\ UNCHANGED telemetryVars

SendStatus(q, cmd) == IF Live(q) THEN PushStatus(mailbox[q], cmd) ELSE MB_BAD_PID

TestSend ==
  /\ At("send")
  /\ Check(SendStatus(Entry.pid, Entry.cmd))
  /\ \/ SchedSend(Entry.pid, Entry.cmd)
     \/ SendStatus(Entry.pid, Entry.cmd) # MB_OK /\ UNCHANGED vars
  /\ UNCHANGED telemetryVars

TestTick ==
  /\ At("tick") \/ At("loop")
  /\ due = "tick" /\ Tick /\ due' = "sample"
  /\ UNCHANGED <<reportVars, testVars>>

TestRun == /\ Testing
           /\ \E p \in Pids : Run(p) /\ StubAnswers(p)
           /\ UNCHANGED <<telemetryVars, testVars>>

\* mb_sched_tick returns: the loops go on until it finds nothing to run.
TestTicked ==
  /\ Testing /\ due = "sample" /\ running = 0
  /\ due' = "tick"
  /\ \/ At("tick") /\ Check(runRc)
     \/ /\ At("loop")
        /\ LET over == runRc = MB_SCHED_IDLE \/ ticks + 1 = Entry.limit
           IN  /\ script' = IF over THEN Tail(script) ELSE script
               /\ ticks' = IF over THEN 0 ELSE ticks + 1
        /\ Count(runRc \notin {MB_OK, MB_SCHED_IDLE})
  /\ UNCHANGED <<vars, reportVars>>

TestLook ==
  /\ \/ At("state") /\ Check(state[Entry.pid])
     \/ At("reg") /\ Check(GET_SMALLINT(regs[Entry.pid][Entry.r]))
     \/ At("term") /\ Check(regs[Entry.pid][Entry.r])
  /\ UNCHANGED loopVars

TestDone == script = <<>> /\ UNCHANGED <<loopVars, testVars>>

TestClock == Testing /\ LoopClock /\ UNCHANGED testVars

TestNext == \/ TestSpawn \/ TestSend \/ TestTick \/ TestRun
            \/ TestTicked \/ TestLook \/ TestDone \/ TestClock

-----------------------------------------------------------------------------
\* Each call of the test programs returns, and leaves in states and
\* registers, what the program checks for, wherever the clock moves.
TestsPass == failures = 0
=============================================================================
