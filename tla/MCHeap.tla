------------------------------- MODULE MCHeap -------------------------------
(***************************************************************************)
(* Model-checking instances of MbHeap.  Registers 0 and 1 hold references, *)
(* register 2 immediates; between them the instructions build lists of     *)
(* lists and tuples, share them, take them apart and drop them.            *)
(***************************************************************************)
EXTENDS MbHeapValues

Ins(op, dst, args) == [op |-> op, dst |-> dst, args |-> args]

SmallInt(v) == 16 * v + 15

Nil == 11

\* Tuples hold immediates only: a program that keeps to this is safe.
MCInstructions ==
  { Ins("CONST", 2, <<SmallInt(1)>>), Ins("MOVE", 0, <<2>>),
    Ins("MAKE_TUPLE", 0, <<2, 2>>),
    Ins("TUPLE_ELEM", 2, <<0, 1>>), Ins("TUPLE_ELEM", 2, <<0, 2>>),
    Ins("CONS", 0, <<0, 1>>), Ins("CONS", 1, <<0, 0>>),
    Ins("HEAD", 0, <<1>>), Ins("TAIL", 1, <<1>>) }

\* A tuple with a reference in it.
MCNested ==
  { Ins("MAKE_TUPLE", 0, <<2>>), Ins("MAKE_TUPLE", 0, <<0>>),
    Ins("CONST", 1, <<Nil>>) }

\* Tuples without elements.
MCEmpty ==
  { Ins("MAKE_TUPLE", 0, <<>>), Ins("MAKE_TUPLE", 1, <<2>>),
    Ins("CONST", 2, <<SmallInt(1)>>) }
=============================================================================
