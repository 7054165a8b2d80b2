------------------------------ MODULE MCCompat ------------------------------
(***************************************************************************)
(* Model-checking instance of MbCompat: native code that runs one of the   *)
(* scripts of MCCompatTests, or calls freely, with one machine or with a   *)
(* pair that runs the same program.  More of the history is recorded here: *)
(* what native code did to each machine, and after how many instructions.  *)
(***************************************************************************)
EXTENDS MCCompatTests, MbBytecode, MbStub

CONSTANTS
  FreeLimits,   \* the max_steps of calls made freely
  MaxInputs,    \* bound: native pushes and pops of a machine alone
  MaxExecuted   \* bound: no free call begins that could execute more in all

\* Past MB_REDUCTIONS + 1 a YIELD sets the count of instructions back instead
\* of ending the call; one in a loop of the program can keep it for ever.
ASSUME FreeLimitsAssumption == \A n \in FreeLimits : n <= Budget + 1

\* Receives; adds up what comes and starts again when nothing did.  The
\* status of an empty receive is in r1, that of a real one an argument.
Echo ==
  <<MB_OP_RECV_CMD, 0, 1, 2, 3, 4, MB_OP_JMP_IF_ZERO, 0>> \o Compiler!i32le(-12)
  \o <<MB_OP_ADD, 5, 5, 1, MB_OP_JMP>> \o Compiler!i32le(-21)

\* Each instruction that can succeed.
Straight ==
  Compiler!const_i32(0, 1)
  \o <<MB_OP_SELF, 1, MB_OP_NOP, MB_OP_MOVE, 2, 0, 0, MB_OP_ADD, 1, 0, 0>>
  \o <<MB_OP_SUB, 3, 0, 2, MB_OP_SEND, 4, 0, 1, 2, 3, 4, MB_OP_SLEEP_MS, 2>>
  \o <<MB_OP_CALL_BIF, MB_BIF_GPIO_WRITE, 2, 3, 0, 5, MB_OP_YIELD, MB_OP_HALT>>

\* Each way to fail; a call returns at each, and the next goes on behind it.
Faults ==
  <<119, MB_OP_SELF, 99, MB_OP_CALL_BIF, 1, 9, MB_OP_MAKE_TUPLE, 0, 17>>
  \o <<MB_OP_MAKE_TUPLE, 0, 1, 1, MB_OP_CONS, 0, 1, 2, MB_OP_TUPLE_ELEM, 0, 1, 0>>
  \o <<MB_OP_HEAD, 0, 1, MB_OP_CONST_I32, 0>>

Yielder == <<MB_OP_YIELD, MB_OP_JMP>> \o Compiler!i32le(-6)
Spinner == <<MB_OP_NOP, MB_OP_JMP>> \o Compiler!i32le(-6)

FreeCode == [echo |-> Echo, straight |-> Straight, faults |-> Faults,
             yielder |-> Yielder, spinner |-> Spinner]
MCCode == [n \in DOMAIN FreeCode \cup DOMAIN TestCode |->
             IF n \in DOMAIN FreeCode THEN FreeCode[n] ELSE TestCode[n]]

\* Of the programs that the tests and demos assemble by hand, those written to
\* fail are not well-formed, and the dispatcher of app_main, which is meant to
\* run.
ASSUME OnlyTheDispatcherIsNot ==
  {n \in DOMAIN TestCode : n \notin WellFormed} = {"none", "opcode", "register", "app"}

\* What the stub driver makes of the demo's two reads.
MCReadResults == {0, 29}
MCWriteResults == {0}
MCHeapContents == {}
MCFreeLimits == {0, 1, 3}
MCNativeCommands ==
  {[NoneCommand EXCEPT !.type = MB_CMD_GPIO_WRITE, !.a = pin, !.b = 1] : pin \in {1, 2}}

-----------------------------------------------------------------------------
VARIABLES
  executed,  \* per machine: instructions executed in free calls
  inputs     \* per machine: what native code did, and after how many instructions

histVars == <<executed, inputs>>
MCVars == <<callsVars, testVars, histVars>>

\* The machines that native code calls freely; a pair comes apart with less.
Free == [alone |-> {1}, pair |-> {1, 2}]
Freely(p) == script \in DOMAIN Free /\ p \in Free[script]
InputBound == IF script = "alone" THEN MaxInputs ELSE 1
ExecutedBound == IF script = "alone" THEN MaxExecuted ELSE MaxExecuted - 3

HistInit == /\ CallsInit
            /\ script \in DOMAIN Free \cup DOMAIN AllScripts
            /\ \E name \in DOMAIN FreeCode :
                 program = [p \in Pids |-> IF Scripted THEN AllScripts[script].code
                                           ELSE name]
            /\ at = 1 /\ failures = 0
            /\ executed = [p \in Pids |-> 0]
            /\ inputs = [p \in Pids |-> <<>>]

HistCall(p, n) ==
  /\ Freely(p)
  /\ executed[p] + n <= ExecutedBound
  /\ CallMachine(p, n)
  /\ UNCHANGED <<testVars, histVars>>

HistReturn == /\ \/ ~Scripted /\ ReturnToCaller /\ UNCHANGED testVars
                 \/ TestReturn
              /\ UNCHANGED histVars

\* Only the program that receives is given inputs.
Input(p, what) ==
  /\ Freely(p)
  /\ program[p] = "echo"
  /\ Len(inputs[p]) < InputBound
  /\ inputs' = [inputs EXCEPT ![p] = Append(@, [at |-> executed[p], what |-> what])]
  /\ UNCHANGED <<testVars, executed>>

HistPush(p, cmd) == PushCommand(p, cmd) /\ Input(p, cmd)

HistPop(p) == PopCommand(p) /\ Input(p, NoneCommand)

HistStep(p) ==
  /\ ExecuteOne(p)
  /\ StubAnswers(p)
  /\ executed' = IF Scripted THEN executed
                 ELSE [executed EXCEPT ![p] = IF @ <= MaxExecuted THEN @ + 1 ELSE @]
  /\ UNCHANGED <<testVars, inputs>>

\* The other calls of a script.
HistTest == (TestPush \/ TestReg \/ TestHal \/ TestRun) /\ UNCHANGED histVars

HistTick == script = "alone" /\ Tick /\ UNCHANGED <<testVars, histVars>>

HistNext ==
  \/ \E p \in Pids, n \in FreeLimits : HistCall(p, n)
  \/ HistReturn
  \/ \E p \in Pids, cmd \in NativeCommands : HistPush(p, cmd)
  \/ \E p \in Pids : HistPop(p)
  \/ \E p \in Pids : HistStep(p)
  \/ HistTest
  \/ HistTick

\* A call that has begun goes on: the thread does nothing else.
CompatSpec == /\ HistInit /\ [][HistNext]_MCVars
              /\ WF_MCVars((\E p \in Pids : HistStep(p)) \/ HistReturn)

-----------------------------------------------------------------------------
\* How a program is cut into calls does not show: two machines with the same
\* program that were given the same inputs after the same instructions, and
\* have executed as many, are equal, whatever calls of mb_vm_run and
\* mb_vm_step they got there by.
SlicingIsInvisible ==
  \A p, q \in Pids :
    (/\ Freely(p) /\ Freely(q) /\ active \notin {p, q}
     /\ executed[p] = executed[q]
     /\ inputs[p] = inputs[q]) => vm[p] = vm[q]

\* No call hangs, within FreeLimitsAssumption and in the scripts: an empty
\* mailbox does not block one, a program that loops does not keep it.
CallReturns == active # 0 ~> active = 0
=============================================================================
