---------------------------- MODULE FlowCompiler ----------------------------
(***************************************************************************)
(* tools/flow_compile.escript: from a flow (sensors, actuators and the     *)
(* flows between them) to one program per sensor and one for the actuator. *)
(* Pure operators over byte strings; of the C header that carries them to  *)
(* the firmware, the values, not the layout.                               *)
(***************************************************************************)
EXTENDS Integers, Sequences

OP_CONST_I32     == 1
OP_CALL_BIF      == 16
OP_RECV_CMD      == 32
OP_SEND          == 33
OP_YIELD         == 35
OP_JMP           == 48
OP_SLEEP_MS      == 64
BIF_PWM_SET_DUTY == 2
BIF_I2C_READ_REG == 3
BIF_MONOTONIC_MS == 4
CMD_PWM_SET_DUTY == 2

\* A sensor polls register reg of device addr on bus every poll_ms.
ValidSensor(s) == /\ s.bus \in 0..3
                  /\ s.addr \in 0..127
                  /\ s.reg \in 0..255
                  /\ s.poll_ms \in Nat

ValidActuator(a) == a.channel \in 0..7

\* The flow's ends exist.
ValidFlow(f, sensors, actuators) ==
  /\ \E i \in DOMAIN sensors : sensors[i].addr = f.from
  /\ \E i \in DOMAIN actuators : actuators[i].channel = f.to

\* The policy is only carried to the header: nothing in src/ acts on it.
ValidPolicy(p) == /\ p.mailbox_depth \in Nat \ {0}
                  /\ p.watchdog_ms \in Nat \ {0}
                  /\ p.on_fail \in {"stop_actuator", "hold_last", "ignore"}

ValidSpec(spec) ==
  /\ \A i \in DOMAIN spec.sensors : ValidSensor(spec.sensors[i])
  /\ \A i \in DOMAIN spec.actuators : ValidActuator(spec.actuators[i])
  /\ \A i \in DOMAIN spec.flows :
       ValidFlow(spec.flows[i], spec.sensors, spec.actuators)
  /\ ValidPolicy(spec.policy)

\* Two's complement, least significant byte first.
i32le(v) == <<v % 256, (v \div 256) % 256, (v \div 65536) % 256, (v \div 16777216) % 256>>

const_i32(r, v) == <<OP_CONST_I32, r>> \o i32le(v)

\* Faulty: the sensor's value register is given as the channel.
SensorBodySwapped(poll_ms) ==
  <<OP_CALL_BIF, BIF_I2C_READ_REG, 3, 0, 1, 2, 7>>
  \o <<OP_CALL_BIF, BIF_MONOTONIC_MS, 0, 9>>
  \o <<OP_SEND, 3, 4, 7, 5, 8, 8>>
  \o (IF poll_ms = 0 THEN <<OP_YIELD>> ELSE <<OP_SLEEP_MS, 6>>)

\* Read the sensor into r7, the time into r9, send r7, wait.
SensorBody(poll_ms) ==
  <<OP_CALL_BIF, BIF_I2C_READ_REG, 3, 0, 1, 2, 7>>
  \o <<OP_CALL_BIF, BIF_MONOTONIC_MS, 0, 9>>
  \o <<OP_SEND, 3, 4, 5, 7, 8, 8>>
  \o (IF poll_ms = 0 THEN <<OP_YIELD>> ELSE <<OP_SLEEP_MS, 6>>)

\* Constants once, then the body for ever: the jump goes back over the body
\* and itself, to the first byte after the constants.
compile_sensor(s, pwmCh, actPid) ==
  LET init == const_i32(0, s.bus) \o const_i32(1, s.addr) \o const_i32(2, s.reg)
              \o const_i32(3, actPid) \o const_i32(4, CMD_PWM_SET_DUTY)
              \o const_i32(5, pwmCh) \o const_i32(6, s.poll_ms) \o const_i32(8, 0)
      body == SensorBody(s.poll_ms)
  IN  init \o body \o <<OP_JMP>> \o i32le(-(Len(body) + 5))

\* Faulty: channel and duty are passed to the BIF in the wrong order.
ActuatorSwapped ==
  LET body == <<OP_RECV_CMD, 0, 1, 2, 3, 4>>
              \o <<OP_CALL_BIF, BIF_PWM_SET_DUTY, 2, 2, 1, 5>>
  IN  body \o <<OP_JMP>> \o i32le(-(Len(body) + 5))

\* Receive, set the duty, repeat.
compile_actuator ==
  LET body == <<OP_RECV_CMD, 0, 1, 2, 3, 4>>
              \o <<OP_CALL_BIF, BIF_PWM_SET_DUTY, 2, 1, 2, 5>>
  IN  body \o <<OP_JMP>> \o i32le(-(Len(body) + 5))

\* The actuator is spawned last, so its pid follows the sensors'.  All
\* sensors drive the channel of the first flow.
ActPid(spec) == Len(spec.sensors) + 1

compile_flow(spec) ==
  [sensors  |-> [i \in DOMAIN spec.sensors |->
                   compile_sensor(spec.sensors[i], spec.flows[1].to, ActPid(spec))],
   actuator |-> compile_actuator]

\* The macros and arrays of the C header.
emit_header(spec) ==
  [sensor_count  |-> Len(spec.sensors),
   process_count |-> Len(spec.sensors) + 1,
   policy        |-> spec.policy,
   programs      |-> compile_flow(spec)]
=============================================================================
