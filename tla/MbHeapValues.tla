---------------------------- MODULE MbHeapValues ----------------------------
(***************************************************************************)
(* What the words of MbHeap stand for: the refinement mapping to           *)
(* MbTermStore, also in the middle of a collection, and the words that are *)
(* in use.                                                                 *)
(***************************************************************************)
EXTENDS MbHeap, FiniteSets

Endless  == <<"endless">>
Dangling == <<"dangling">>

\* The value of word w, which refers to the active space when new and else
\* to the old one, where a forwarding pointer leads on to the copy.  An
\* acyclic heap needs no more than depth steps.
RECURSIVE Value(_, _, _)
Value(depth, w, new) ==
  LET o == Offset(w)
      space == IF new THEN from ELSE to
      field(k) == Value(depth - 1, Read(space, o + k), new /\ WordIsNew(o + k))
  IN  CASE ~IsRef(w) -> <<"word", w>>
        [] IsRef(w) /\ depth = 0 -> Endless
        [] IsRef(w) /\ depth > 0 /\ ~new /\ Read(to, o) = MovedMarker
             -> Value(depth - 1, MakeRef(Tag(w), Read(to, o + 1)), TRUE)
        [] IsCons(w) /\ depth > 0 /\ (new \/ Read(to, o) # MovedMarker)
             -> <<"cons", field(0), field(1)>>
        [] IsBoxed(w) /\ depth > 0 /\ (new \/ Read(to, o) # MovedMarker)
             -> IF IsTupleHdr(Read(space, o))
                THEN <<"tuple", [k \in 1..TupleArity(Read(space, o)) |-> field(k)]>>
                ELSE Dangling

Store == INSTANCE MbTermStore WITH
           val <- [r \in Regs |-> Value(2 * HeapWords + 2, regs[r], RegIsNew(r))]

\* Every instruction does to the registers' values what it says, and no step
\* of a collection changes one: shared structure, nested structure and a
\* collection that ends in MB_HEAP_OOM included.
ImplementsTermStore == Store!Spec

-----------------------------------------------------------------------------
RECURSIVE Closure(_)
Closure(refs) ==
  LET more == refs \cup {w \in {Read(from, k) : k \in UNION {Extent(from, r) : r \in refs}} :
                           IsRef(w)}
  IN  IF more = refs THEN refs ELSE Closure(more)

LiveWords ==
  UNION {Extent(from, w) : w \in Closure({w \in {regs[r] : r \in Regs} : IsRef(w)})}

\* A collection keeps exactly the words that the registers still reach, each
\* once: so MB_HEAP_OOM means that live data and the new object do not fit.
NothingButLive == Collected => LiveWords = 0..(hp - 1)
=============================================================================
