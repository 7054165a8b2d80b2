----------------------------- MODULE MbBytecode -----------------------------
(***************************************************************************)
(* Which programs the process VM decodes as they were written.  mb_vm.c    *)
(* checks a program as it runs, and only the bytes it gets to: nothing     *)
(* tells beforehand that a jump lands on an instruction, or that operands  *)
(* are all there and name registers.  Here is what a program must satisfy  *)
(* so that none of these checks ever fails; compiled flows do (MCFlow).    *)
(***************************************************************************)
EXTENDS MbVm

\* Byte k of the instruction at an offset of a program.
ByteAt(code, at, k) == code[at + k + 1]

\* Bytes up to k of the instruction are inside the program.
Inside(code, at, k) == at + k < Len(code)

\* The instruction's bytes in ks name registers.
NameRegisters(code, at, ks) == \A k \in ks : ValidReg(ByteAt(code, at, k))

\* A whole instruction begins at the offset: a known opcode with all its
\* operands, register numbers in range, and for CALL_BIF the right number of
\* arguments.
Whole(code, at) ==
  /\ at \in 0..(Len(code) - 1)
  /\ LET op    == ByteAt(code, at, 0)
         count == ByteAt(code, at, 2)
     IN  \/ /\ op \in FixedOps
            /\ Inside(code, at, OperandBytes(op))
            /\ NameRegisters(code, at, RegisterOperands(op))
         \/ /\ op = MB_OP_CALL_BIF
            /\ Inside(code, at, 2)
            /\ ByteAt(code, at, 1) \in Bifs
            /\ count = BifArgc(ByteAt(code, at, 1))
            /\ Inside(code, at, count + 3)
            /\ NameRegisters(code, at, 3..(count + 3))
         \/ /\ op = MB_OP_MAKE_TUPLE
            /\ Inside(code, at, 2)
            /\ count <= 16
            /\ Inside(code, at, count + 2)
            /\ NameRegisters(code, at, {1} \cup 3..(count + 2))

\* The offset behind a whole instruction.
Behind(code, at) ==
  LET op == ByteAt(code, at, 0)
  IN  at + 1 + CASE op = MB_OP_CALL_BIF   -> ByteAt(code, at, 2) + 3
                 [] op = MB_OP_MAKE_TUPLE -> ByteAt(code, at, 2) + 2
                 [] OTHER                 -> OperandBytes(op)

\* Where execution may go on after a whole instruction.
Follow(code, at) ==
  LET op == ByteAt(code, at, 0)
  IN  CASE op = MB_OP_HALT        -> {}
        [] op = MB_OP_JMP         -> {Behind(code, at) + I32At(code, at + 1)}
        [] op = MB_OP_JMP_IF_ZERO -> {Behind(code, at),
                                      Behind(code, at) + I32At(code, at + 2)}
        [] OTHER                  -> {Behind(code, at)}

\* The offsets of the instructions, laid end to end from 0, up to the first
\* that is not whole.
Starts(code) ==
  LET from[at \in 0..Len(code)] ==
        IF Whole(code, at) THEN {at} \cup from[Behind(code, at)] ELSE {}
  IN  from[0]

StartsOf == [name \in DOMAIN Code |-> Starts(Code[name])]

\* Each is the beginning of a whole instruction, and execution goes on at
\* one of them.
Closed(code, starts) ==
  /\ 0 \in starts
  /\ \A at \in starts : Whole(code, at) /\ Follow(code, at) \subseteq starts

WellFormed == {name \in DOMAIN Code : Closed(Code[name], StartsOf[name])}

-----------------------------------------------------------------------------
DecodingErrors == {MB_EOF, MB_BAD_OPCODE, MB_BAD_REG, MB_BAD_ARGC, MB_BAD_BIF}

\* A process of a well-formed program that has not halted is at one of the
\* program's instructions, also after a fault and between its turns.
OnInstructions ==
  \A p \in Pids :
    program[p] \in WellFormed /\ ~halted[p] => pc[p] \in StartsOf[program[p]]

\* The step of WellFormedDecodes.
DecodesWhole ==
  (running # 0 /\ program[running] \in WellFormed) =>
    /\ pc[running] \in StartsOf[program[running]]
    /\ running' = 0 => runRc' \notin DecodingErrors

\* A well-formed program is executed instruction by instruction, as written:
\* wherever it faults, waits, sleeps or is interrupted by the end of its
\* budget, it goes on at the next instruction, and mb_proc_step never fails
\* to fetch or decode one (mb_fetch_u8, mb_fetch_i32, mb_valid_reg, the
\* opcode switch, the argument count of mb_call_bif).
WellFormedDecodes == [][DecodesWhole]_vmVars
=============================================================================
