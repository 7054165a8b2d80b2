---------------------------- MODULE MbTermStore ----------------------------
(***************************************************************************)
(* What a process heap promises: registers hold values, built from words,  *)
(* tuples and cons cells, that nothing changes once they are built.  There *)
(* is no memory here, so no collection: an allocation either yields the    *)
(* value or leaves everything as it is.  MbHeap implements this module.    *)
(***************************************************************************)
EXTENDS Naturals, Sequences

CONSTANTS Regs,         \* the registers
          Instructions  \* the instructions the process may execute

VARIABLE val  \* the value in each register

Word(w)        == <<"word", w>>
Tuple(elems)   == <<"tuple", elems>>
ConsCell(h, t) == <<"cons", h, t>>

IsTuple(v) == v[1] = "tuple"
IsCell(v)  == v[1] = "cons"

Init == val = [r \in Regs |-> Word(0)]

\* What instruction ins yields, and when it yields anything.
Yields(ins) ==
  LET arg(k) == val[ins.args[k]]
  IN  CASE ins.op = "CONST"      -> Word(ins.args[1])
        [] ins.op = "MOVE"       -> arg(1)
        [] ins.op = "MAKE_TUPLE" -> Tuple([k \in 1..Len(ins.args) |-> arg(k)])
        [] ins.op = "CONS"       -> ConsCell(arg(1), arg(2))
        [] ins.op = "TUPLE_ELEM" -> arg(1)[2][ins.args[2] + 1]
        [] ins.op = "HEAD"       -> arg(1)[2]
        [] ins.op = "TAIL"       -> arg(1)[3]

Defined(ins) ==
  LET arg == val[ins.args[1]]
  IN  /\ ins.op = "TUPLE_ELEM" => IsTuple(arg) /\ ins.args[2] < Len(arg[2])
      /\ ins.op \in {"HEAD", "TAIL"} => IsCell(arg)

Execute(ins) == /\ Defined(ins)
                /\ val' = [val EXCEPT ![ins.dst] = Yields(ins)]

Next == \E ins \in Instructions : Execute(ins)

Spec == Init /\ [][Next]_val
=============================================================================
