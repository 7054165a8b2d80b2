------------------------------- MODULE MbFlow -------------------------------
(***************************************************************************)
(* A compiled flow in the firmware: the programs that main spawns are the  *)
(* ones tools/flow_compile.escript emits for a flow, one per sensor and    *)
(* the actuator's last, on a board whose I2C devices each give readings of *)
(* their own.  What the compiler relies on without checking it, and what   *)
(* the programs are for.                                                   *)
(***************************************************************************)
EXTENDS MbWindows, FlowCompiler

CONSTANTS
  FlowSpec,    \* the flow that the firmware was built for
  DeviceReads  \* per address: what a read that the driver carries out gives

Sensors == DOMAIN FlowSpec.sensors
Channel == FlowSpec.flows[1].to
DeviceOf(i) == FlowSpec.sensors[i].addr

\* A flow that the compiler accepts, spawned in the order of the header; as
\* many registers as its programs name, and payloads that hold its values.
ASSUME FlowAssumption ==
  /\ ValidSpec(FlowSpec)
  /\ 1 \in DOMAIN FlowSpec.flows
  /\ Sensors = 1..(Len(Boot) - 1)
  /\ \A i \in Sensors : Code[Boot[i]] = compile_flow(FlowSpec).sensors[i]
  /\ Code[Boot[ProcA]] = compile_flow(FlowSpec).actuator
  /\ RegCount >= 10
  /\ PayloadHalf > 1000
  /\ \A i \in Sensors :
       DeviceReads[DeviceOf(i)] \subseteq (-PayloadHalf)..(PayloadHalf - 1)

-----------------------------------------------------------------------------
\* A read that the driver carries out gives what its device has.
DevicesAnswer ==
  (running # 0 /\ Calls(running, MB_BIF_I2C_READ_REG)) =>
    Returned(running) \in DeviceReads[RegInt(running, 4)] \cup {-1}

FlowMain == BoardMain /\ DevicesAnswer /\ Watch

FlowLoopNext == FlowMain \/ (LoopClock /\ UNCHANGED <<ready, wire, histVars>>)

FlowLoop(devices) == WindowsInit(devices) /\ [][FlowLoopNext]_windowsVars

-----------------------------------------------------------------------------
\* A compiled flow runs without a fault: the compiler's jumps land on
\* instructions and its operands are what the BIFs accept.
FlowNeverFaults == runRc \in {MB_OK, MB_SCHED_IDLE}

\* The sensor's bus is on the board and ready.
Connected(i) == \/ FlowSpec.sensors[i].bus = 0 /\ "i2c0" \in ready
                \/ FlowSpec.sensors[i].bus = 1 /\ "i2c1" \in ready

\* The signal on the wire carries some sensor's good reading, as permille of
\* its period and on the flow's channel; an error code, also that of a bus
\* that is not there, never reaches the PWM.
OnlyReadingsDriveThePwm ==
  \A c \in PwmChannel :
    wire[c] # NoSignal =>
      /\ c = Channel
      /\ \E i \in Sensors :
           /\ Connected(i)
           /\ \E v \in DeviceReads[DeviceOf(i)] \cap PwmPermille :
                wire[c].pulse * 1000 = wire[c].period * v

\* Two looks at the clock that differ leave different timestamps: it wraps
\* neither as a uint32_t nor in a register's payload, which it does after 37
\* hours.
StampsDiffer == MaxClock < PayloadHalf /\ MaxClock < ClockMod
=============================================================================
