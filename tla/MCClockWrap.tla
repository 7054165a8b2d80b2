---------------------------- MODULE MCClockWrap ----------------------------
(***************************************************************************)
(* A process that sleeps for a while, on a clock that wraps around as the  *)
(* uint32_t of mb_hal_monotonic_ms does (after 49.7 days).  The variable   *)
(* due remembers the deadline without the wrap.                            *)
(***************************************************************************)
EXTENDS MbMain

Compiler == INSTANCE FlowCompiler

\* Sleeps three milliseconds, again and again.
Napper == Compiler!const_i32(0, 3) \o <<MB_OP_SLEEP_MS, 0, MB_OP_JMP>>
          \o Compiler!i32le(-7)

MCCode == [napper |-> Napper]
MCBoot == <<"napper">>
MCNativeCommands == {}
MCResults == {0}
MCHeapContents == {}

VARIABLE due  \* when each process asked to be woken, in unwrapped time

WrapVars == <<vars, due>>

WrapInit == Init /\ due = [p \in Pids |-> 0]

WrapNext ==
  /\ MainNext
  /\ due' = [p \in Pids |-> IF SleepMs(p) THEN clock + RegInt(p, 1) ELSE due[p]]

WrapSpec == WrapInit /\ [][WrapNext]_WrapVars

\* A sleeper is woken when monotonic time passes the deadline
\* (mb_scheduler.h), and not before.
NotWokenEarly ==
  [][\A p \in Pids :
       (state[p] = "SLEEPING" /\ state'[p] = "READY") => clock >= due[p]]_WrapVars
=============================================================================
