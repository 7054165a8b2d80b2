------------------------------- MODULE MbNrf52 -------------------------------
(***************************************************************************)
(* The nRF52 driver (mb_hal_nrf52.c): what it makes of i2c_read_reg and of *)
(* the two PWM calls, with devices that are ready or not.  i2c_write_read, *)
(* pwm_set and device_is_ready are Zephyr's: a transfer on a ready bus     *)
(* gives any of ReadResults, pwm_set on a ready PWM any of WriteResults,   *)
(* and where it gives 0 the channel has the signal.                        *)
(***************************************************************************)
EXTENDS MbVm

\* What the driver returns where it calls nothing of Zephyr's.
ASSUME BoardAssumption == -1 \in ReadResults /\ -1 \in WriteResults

VARIABLES
  ready,  \* the devices that device_is_ready finds
  wire    \* per PWM channel: the signal, as pwm_set left it

NoSignal == [period |-> 0, pulse |-> 0]

\* Faulty: what is not bus 1 and ready is bus 0.
get_i2c_busDefault(bus) ==
  IF bus = 1 /\ "i2c1" \in ready THEN {"i2c1"} ELSE ready \cap {"i2c0"}

\* The device of the bus, if it is there and ready.
get_i2c_bus(bus) == CASE bus = 0 -> ready \cap {"i2c0"}
                      [] bus = 1 -> ready \cap {"i2c1"}
                      [] OTHER   -> {}

i2c_read_reg(bus) == IF get_i2c_bus(bus) = {} THEN {-1} ELSE ReadResults

pwm_set_duty(permille) ==
  IF "pwm0" \notin ready \/ permille > 1000 THEN {-1} ELSE WriteResults

pwm_config(frequency_hz) ==
  IF "pwm0" \notin ready \/ frequency_hz = 0 THEN {-1} ELSE WriteResults

\* Nanoseconds, whatever period PWM_CONFIG has set.
Signal(permille) == [period |-> 20000, pulse |-> (20000 * permille) \div 1000]

Carrier(frequency_hz) == [period |-> 1000000000 \div frequency_hz, pulse |-> 0]

\* The driver's arguments: mb_call_bif casts the program's int32s.
ChannelArg(p) == RegInt(p, 3) % 256
PermilleArg(p) == RegInt(p, 4) % 65536

\* What the driver's answer to p may be, and the channels after the call.
Answered(p) ==
  /\ Calls(p, MB_BIF_I2C_READ_REG) => Returned(p) \in i2c_read_reg(RegInt(p, 3))
  /\ Calls(p, MB_BIF_PWM_SET_DUTY) => Returned(p) \in pwm_set_duty(PermilleArg(p))
  /\ Calls(p, MB_BIF_PWM_CONFIG) => Returned(p) \in pwm_config(RegInt(p, 4))

SetsPwm(p, bif) == Calls(p, bif) /\ Returned(p) = 0

Wired(p) ==
  IF SetsPwm(p, MB_BIF_PWM_SET_DUTY)
  THEN [wire EXCEPT ![ChannelArg(p)] = Signal(PermilleArg(p))]
  ELSE IF SetsPwm(p, MB_BIF_PWM_CONFIG)
  THEN [wire EXCEPT ![ChannelArg(p)] = Carrier(RegInt(p, 4))]
  ELSE wire

-----------------------------------------------------------------------------
\* Process p asks for the signal that channel c has next, with numbers in the
\* range of the call, and is told that it succeeded.
AskedDuty(p, c) ==
  /\ Byte(p, 1) = MB_BIF_PWM_SET_DUTY
  /\ RegInt(p, 4) \in PwmPermille
  /\ wire'[c].period > 0
  /\ wire'[c].pulse * 1000 = wire'[c].period * RegInt(p, 4)

AskedFrequency(p, c) ==
  /\ Byte(p, 1) = MB_BIF_PWM_CONFIG
  /\ RegInt(p, 4) \in PwmFrequency
  /\ wire'[c] = Carrier(RegInt(p, 4))

Asked(p, c) == /\ Executing(p, MB_OP_CALL_BIF)
               /\ RegInt(p, 3) = c
               /\ Returned(p) = 0
               /\ AskedDuty(p, c) \/ AskedFrequency(p, c)

\* The step of SignalsAsAsked.
ChangedAsAsked ==
  \A c \in PwmChannel : wire'[c] # wire[c] => \E p \in Pids : Asked(p, c)

\* A channel's signal changes only when a process asks for it and is told that
\* it succeeded, and it is the one that the process's registers say.  Numbers
\* that are not in the range of the call never get there: not through the cast
\* to the driver's uint16_t, by which 66036 is a duty of 500, and not past the
\* driver's own check (mb_hal.h: "Set PWM duty in permille [0..1000]").
SignalsAsAsked == [][ChangedAsAsked]_wire
=============================================================================
