------------------------------ MODULE FlowFiles ------------------------------
(***************************************************************************)
(* The flows of flows/ and the header that the build takes: the firmware   *)
(* runs programs that compile_flow emits today for stress_multi_sender.    *)
(***************************************************************************)
EXTENDS Integers, Sequences

Compiler == INSTANCE FlowCompiler

Policy == [mailbox_depth |-> 32, watchdog_ms |-> 6000, on_fail |-> "stop_actuator"]

\* The two devices of the board, polled every ms milliseconds, and its motor.
Sensor57(ms) == [bus |-> 1, addr |-> 57, reg |-> 146, poll_ms |-> ms]
Sensor95(ms) == [bus |-> 1, addr |-> 95, reg |-> 15, poll_ms |-> ms]

Flow(sensors) == [sensors   |-> sensors,
                  actuators |-> <<[channel |-> 0]>>,
                  flows     |-> <<[from |-> 57, to |-> 0]>>,
                  policy    |-> Policy]

nano33_sensor_pwm   == Flow(<<Sensor57(200), Sensor95(200)>>)
stress_fast_poll    == Flow(<<Sensor57(1)>>)
stress_multi_sender == Flow(<<Sensor57(0), Sensor95(0), Sensor57(0), Sensor95(0)>>)

os2_flow_sensor_prog_1 ==
  <<1, 0, 1, 0, 0, 0, 1, 1, 57, 0, 0, 0, 1, 2, 146, 0, 0, 0, 1, 3, 5, 0, 0,
    0, 1, 4, 2, 0, 0, 0, 1, 5, 0, 0, 0, 0, 1, 6, 0, 0, 0, 0, 1, 8, 0, 0,
    0, 0, 16, 3, 3, 0, 1, 2, 7, 16, 4, 0, 9, 33, 3, 4, 5, 7, 8, 8, 35, 48,
    232, 255, 255, 255>>

os2_flow_sensor_prog_2 ==
  <<1, 0, 1, 0, 0, 0, 1, 1, 95, 0, 0, 0, 1, 2, 15, 0, 0, 0, 1, 3, 5, 0, 0,
    0, 1, 4, 2, 0, 0, 0, 1, 5, 0, 0, 0, 0, 1, 6, 0, 0, 0, 0, 1, 8, 0, 0,
    0, 0, 16, 3, 3, 0, 1, 2, 7, 16, 4, 0, 9, 33, 3, 4, 5, 7, 8, 8, 35, 48,
    232, 255, 255, 255>>

os2_flow_actuator_prog ==
  <<32, 0, 1, 2, 3, 4, 16, 2, 2, 1, 2, 5, 48, 239, 255, 255, 255>>

\* zephyr_app/src/flow_generated.h
flow_generated ==
  [sensor_count |-> 4, process_count |-> 5, policy |-> Policy,
   programs |-> [sensors  |-> <<os2_flow_sensor_prog_1, os2_flow_sensor_prog_2,
                                os2_flow_sensor_prog_1, os2_flow_sensor_prog_2>>,
                 actuator |-> os2_flow_actuator_prog]]

ASSUME FlowsAreValid ==
  \A f \in {nano33_sensor_pwm, stress_fast_poll, stress_multi_sender} :
    Compiler!ValidSpec(f)
=============================================================================
