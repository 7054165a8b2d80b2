------------------------------- MODULE MCFlow -------------------------------
(***************************************************************************)
(* Compiled flows on the firmware's main loop, with its telemetry: two     *)
(* sensors that poll a device (one sleeping between polls, one yielding)   *)
(* and the actuator that applies what they send to a PWM channel, on a     *)
(* board with one of its devices missing or none.  A read gives a byte or  *)
(* a negative error code.  The host's test programs of MCNativeTests run   *)
(* on the same scheduler.                                                  *)
(***************************************************************************)
EXTENDS MCNativeTests, MbFlow

MCFlowSpec == [sensors   |-> <<Sensor57(1), Sensor95(0)>>,
               actuators |-> <<[channel |-> 2]>>,
               flows     |-> <<[from |-> 57, to |-> 2]>>,
               policy    |-> Policy]

Programs == Compiler!compile_flow(MCFlowSpec)

MCCode == [sensor1 |-> Programs.sensors[1], sensor2 |-> Programs.sensors[2],
           actuator |-> Programs.actuator] @@ TestCode
MCBoot == <<"sensor1", "sensor2", "actuator">>
\* What the two devices give, by address, and what the stub computes.
MCDeviceReads == (57 :> {7, -5}) @@ (95 :> {200, -5})
MCReadResults == {7, 200, -5, -1, 29, 170}
MCWriteResults == {0, -1}
MCHeapContents == {}
MCNativeCommands == {}

\* The compiler's programs, and those of the tests, have only whole
\* instructions and jump to them; and the actuator sends nothing.
ASSUME AllAreWellFormed == WellFormed = DOMAIN Code /\ ActuatorSendsNothing

\* The clock's bound is far from where its readings would repeat.
ASSUME ClockIsYoung == StampsDiffer

Actuator == Compiler!ActPid(FlowSpec)
Readings == {7, 200}

-----------------------------------------------------------------------------
flowVars == <<boardVars, testVars, histVars>>

Boards == {{"i2c0", "i2c1", "pwm0"}, {"i2c0", "pwm0"}, {"i2c0", "i2c1"}}

FlowInit == /\ \/ script = Firmware /\ \E devices \in Boards : BoardInit(devices)
               \/ script \in Tests /\ BoardInit({})
            /\ ticks = 0 /\ failures = 0
            /\ HistInit

Main == /\ script = Firmware
        /\ FlowMain
        /\ UNCHANGED testVars

FlowNext == \/ Main
            \/ /\ script = Firmware
               /\ LoopClock
               /\ UNCHANGED <<testVars, histVars, ready, wire>>
            \/ TestNext /\ UNCHANGED <<histVars, ready, wire>>

\* Nothing preempts main: its loop goes on, and so does a run it has begun.
FlowFairness == WF_flowVars(Main)

FlowMC == FlowInit /\ [][FlowNext]_flowVars /\ FlowFairness

-----------------------------------------------------------------------------
\* What the firmware spawns comes from the header that is checked in, which is
\* what the compiler emits today for stress_multi_sender.flow, byte for byte.
HeaderIsCurrent ==
  Booted => flow_generated = Compiler!emit_header(stress_multi_sender)

\* What a sensor got into the actuator's mailbox is handed to the driver, and
\* where the driver reports success, it is then on the channel.
DeliveredIsApplied ==
  \A v \in Readings :
    (/\ script = Firmware
     /\ mailbox[Actuator].count > 0
     /\ First(mailbox[Actuator]).b = v)
      ~> (/\ hal = <<MB_BIF_PWM_SET_DUTY, <<Channel, v>>>>
          /\ GET_SMALLINT(regs[Actuator][5]) = 0 => wire[Channel] = Signal(v))

\* Each SEND of a sensor is addressed to the actuator: the sensor goes on
\* reporting its readings (main.c: "Sensor process polls I2C and SENDs to
\* actuator on its own schedule").
SensorsKeepReporting ==
  [][\A s \in Sensors :
       script = Firmware /\ Send(s) => PidOf(RegInt(s, 1)) = Actuator]_vars
=============================================================================
