------------------------------- MODULE MbStub -------------------------------
(***************************************************************************)
(* The host's stub driver (mb_hal_stub.c): a device register holds its     *)
(* address, its number and its bus, xor'ed, a pin the lowest bit of its    *)
(* number, and every write that mb_call_bif lets through succeeds.         *)
(***************************************************************************)
EXTENDS MbVm, Bitwise

\* What the stub answers to the step of p, if that calls it.
StubAnswers(p) ==
  /\ Calls(p, MB_BIF_I2C_READ_REG) =>
       Returned(p) = (RegInt(p, 4) ^^ RegInt(p, 5)) ^^ RegInt(p, 3)
  /\ Calls(p, MB_BIF_GPIO_READ) => Returned(p) = RegInt(p, 3) & 1
  /\ \A bif \in WriteBifs : Calls(p, bif) => Returned(p) = 0
=============================================================================
