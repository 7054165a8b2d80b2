----------------------------- MODULE MCScheduler -----------------------------
(***************************************************************************)
(* Model-checking instance of MbScheduler: small programs that meet at the *)
(* scheduler's hard points.  `server` receives for ever, `client` sends to *)
(* process 1 for ever without yielding, `sleeper` sleeps, faults and       *)
(* halts.  Any mix of them is spawned in any order, and native code sends  *)
(* at any time between ticks.                                              *)
(***************************************************************************)
EXTENDS MbScheduler

\* The four bytes of a small int32.
LE(v) == IF v >= 0 THEN <<v % 256, v \div 256, 0, 0>>
         ELSE <<256 + v, 255, 255, 255>>

Const(r, v) == <<MB_OP_CONST_I32, r>> \o LE(v)
JmpBy(v)    == <<MB_OP_JMP>> \o LE(v)

Server  == <<MB_OP_RECV_CMD, 1, 1, 1, 1, 1>> \o JmpBy(-11)
Client  == Const(0, 1) \o <<MB_OP_SEND, 0, 1, 1, 1, 1, 1>> \o JmpBy(-18)
Sleeper == Const(2, 1) \o <<MB_OP_SLEEP_MS, 2, 119, MB_OP_HALT>>

MCCode == [server |-> Server, client |-> Client, sleeper |-> Sleeper]

\* A valid command no client sends, and one that fails validation.
MCNativeCommands ==
  { [NoneCommand EXCEPT !.a = 1],
    [NoneCommand EXCEPT !.type = MB_CMD_PWM_SET_DUTY, !.b = 1001] }

MCOneCommand == {NoneCommand}

MCReadResults == {0}
MCWriteResults == {0}
MCHeapContents == {ZeroTerm}
=============================================================================
