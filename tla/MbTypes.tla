------------------------------- MODULE MbTypes -------------------------------
(***************************************************************************)
(* The values the mini-BEAM runtime computes with: status codes            *)
(* (mb_errors.h), commands and their validation (mb_types.h, mb_vm.c), and *)
(* tagged terms (mb_term.h).  Everything here is a pure operator.          *)
(***************************************************************************)
EXTENDS Integers

CONSTANT PayloadHalf  \* half the range of a term's payload; 2^27 in mb_term.h

ASSUME PayloadAssumption == PayloadHalf \in Nat \ {0}

-----------------------------------------------------------------------------
(* Status codes, with the numbers mb_errors.h gives them: SEND writes them *)
(* into a register, where a program computes with them.                    *)

MB_OK              == 0
MB_EOF             == 1
MB_BAD_REG         == 2
MB_BAD_OPCODE      == 3
MB_BAD_BIF         == 4
MB_BAD_ARGC        == 5
MB_MAILBOX_EMPTY   == 6
MB_INVALID_COMMAND == 7
MB_BAD_ARGUMENT    == 8
MB_MAILBOX_FULL    == 9
MB_SCHED_IDLE      == 10
MB_BAD_PID         == 11
MB_HEAP_OOM        == 13
MB_BAD_TERM        == 14
MB_BAD_ARITY       == 15

Status == 0..15

-----------------------------------------------------------------------------
(* Commands: a type and four int32 arguments.                              *)

MB_CMD_NONE         == 0
MB_CMD_GPIO_WRITE   == 1
MB_CMD_PWM_SET_DUTY == 2
MB_CMD_I2C_READ     == 3
MB_CMD_GPIO_READ    == 4
MB_CMD_I2C_WRITE    == 5
MB_CMD_PWM_CONFIG   == 6

Command == [type : Int, a : Int, b : Int, c : Int, d : Int]

\* A zeroed mb_command_t.
NoneCommand == [type |-> MB_CMD_NONE, a |-> 0, b |-> 0, c |-> 0, d |-> 0]

GpioPin      == 0..39
GpioLevel    == {0, 1}
PwmChannel   == 0..7
PwmPermille  == 0..1000
PwmFrequency == 1..40000
I2cBus       == 0..3
I2cAddr      == 0..127
U8           == 0..255

ArgumentsValid(cmd) ==
  \/ cmd.type = MB_CMD_NONE
  \/ cmd.type = MB_CMD_GPIO_WRITE   /\ cmd.a \in GpioPin    /\ cmd.b \in GpioLevel
  \/ cmd.type = MB_CMD_GPIO_READ    /\ cmd.a \in GpioPin
  \/ cmd.type = MB_CMD_PWM_SET_DUTY /\ cmd.a \in PwmChannel /\ cmd.b \in PwmPermille
  \/ cmd.type = MB_CMD_PWM_CONFIG   /\ cmd.a \in PwmChannel /\ cmd.b \in PwmFrequency
  \/ cmd.type = MB_CMD_I2C_READ     /\ cmd.a \in I2cBus /\ cmd.b \in I2cAddr
                                    /\ cmd.c \in U8
  \/ cmd.type = MB_CMD_I2C_WRITE    /\ cmd.a \in I2cBus /\ cmd.b \in I2cAddr
                                    /\ cmd.c \in U8 /\ cmd.d \in U8

ValidateCommand(cmd) ==
  IF cmd.type \notin MB_CMD_NONE..MB_CMD_PWM_CONFIG THEN MB_INVALID_COMMAND
  ELSE IF ArgumentsValid(cmd) THEN MB_OK
  ELSE MB_BAD_ARGUMENT

ValidCommand == {cmd \in Command : ValidateCommand(cmd) = MB_OK}

-----------------------------------------------------------------------------
(* Terms: a 4-bit tag and a signed payload.  A zeroed register is the word *)
(* 0, which carries none of the five tags ("raw").                         *)

TermTag == {"raw", "smallint", "atom", "pid", "boxed", "cons"}
Term    == [tag : TermTag, val : Int]
ZeroTerm == [tag |-> "raw", val |-> 0]

\* The payload is what is left of an integer in the word's upper bits.
Payload(v) ==
  LET low == v % (2 * PayloadHalf)
  IN  IF low >= PayloadHalf THEN low - 2 * PayloadHalf ELSE low

MAKE_SMALLINT(v) == [tag |-> "smallint", val |-> Payload(v)]
MAKE_PID(p)      == [tag |-> "pid", val |-> Payload(p)]
MAKE_BOXED(loc)  == [tag |-> "boxed", val |-> loc]
MAKE_CONS(loc)   == [tag |-> "cons", val |-> loc]

\* Reads the payload whatever the tag is.
GET_SMALLINT(t) == t.val

IsBoxed(t)   == t.tag = "boxed"
IsCons(t)    == t.tag = "cons"
IsHeapRef(t) == IsBoxed(t) \/ IsCons(t)
=============================================================================
