------------------------------- MODULE MbMain -------------------------------
(***************************************************************************)
(* The native main program of the firmware and of the host tests: it       *)
(* spawns a fixed list of programs in order and then calls mb_sched_tick   *)
(* for ever.  Native code sends nothing, so what reaches a mailbox comes   *)
(* from a program.                                                         *)
(***************************************************************************)
EXTENDS MbScheduler

CONSTANT Boot  \* the names of the programs, in the order they are spawned

ASSUME BootAssumption == /\ Boot \in Seq(DOMAIN Code)
                         /\ Len(Boot) \in 1..MaxProcesses

Booted == count = Len(Boot)

SpawnNext == ~Booted /\ Spawn(Boot[count + 1])

\* The tick loop, once every program is spawned.
LoopTick == Booted /\ Tick

MainNext == \/ SpawnNext
            \/ LoopTick
            \/ \E p \in Pids : Run(p)
            \/ ClockTick

MainFairness == /\ WF_vars(SpawnNext)
                /\ WF_vars(LoopTick)
                /\ WF_vars(\E p \in Pids : Run(p))

MainSpec == Init /\ [][MainNext]_vars /\ MainFairness
=============================================================================
