------------------------------ MODULE MbFirmware ------------------------------
(***************************************************************************)
(* The firmware's main loop with its telemetry on the nRF52: the tick's    *)
(* runs call the driver of MbNrf52.                                        *)
(***************************************************************************)
EXTENDS MbTelemetry, MbNrf52

boardVars == <<loopVars, ready, wire>>

BoardInit(devices) == /\ LoopInit
                      /\ ready = devices
                      /\ wire = [c \in PwmChannel |-> NoSignal]

BoardRun ==
  /\ \E p \in Pids : Run(p) /\ Answered(p) /\ wire' = Wired(p)
  /\ UNCHANGED <<telemetryVars, ready>>

\* What main does, in the order of its loop.
BoardMain == \/ (LoopSpawn \/ TelemetryTick \/ Sample) /\ UNCHANGED <<ready, wire>>
             \/ BoardRun

BoardNext == BoardMain \/ (LoopClock /\ UNCHANGED <<ready, wire>>)

BoardSpec(devices) == BoardInit(devices) /\ [][BoardNext]_boardVars
===============================================================================
