------------------------------- MODULE MbHeap -------------------------------
(***************************************************************************)
(* The heap of one process (mb_heap.c): two semispaces, a bump allocator   *)
(* and Cheney's copying collector, with the heap instructions of           *)
(* mb_proc_step that use them.  Words are the numbers the C code computes  *)
(* with (mb_term.h), so that a forwarding pointer read as a term means     *)
(* what it means there.                                                    *)
(*                                                                         *)
(* A collection is one call in the code.  Here it takes a step per root    *)
(* and per scanned word, and nothing else happens until it is done.        *)
(***************************************************************************)
EXTENDS Integers, Sequences

CONSTANTS
  HeapWords,     \* MB_HEAP_WORDS
  RegCount,      \* MB_REG_COUNT
  MovedMarker,   \* MB_MOVED_MARKER: it has the tag BOXED, and an offset past the heap
  Instructions   \* the instructions the process may execute

ASSUME HeapAssumption ==
  /\ HeapWords \in Nat \ {0}
  /\ RegCount \in Nat \ {0}
  /\ MovedMarker \in Nat /\ MovedMarker % 16 = 2
  /\ MovedMarker > 16 * (HeapWords + 1)

VARIABLES
  from,     \* the active space; cell HeapWords is the memory after its end
  to,       \* the other space; the old one during a collection
  hp,       \* the next free word of from
  regs,     \* the register file
  phase,    \* "run", or the phase of mb_heap_gc: "roots", "scan"
  scan,     \* the next root, or the next word to scan
  pending,  \* the instruction a collection interrupts, with its element words
  rc        \* what the last instruction returned

vars == <<from, to, hp, regs, phase, scan, pending, rc>>

Regs  == 0..(RegCount - 1)
Cells == 0..(HeapWords - 1)

MB_OK == 0
MB_HEAP_OOM == 13
MB_BAD_TERM == 14
MB_BAD_ARITY == 15

-----------------------------------------------------------------------------
(* Words.                                                                  *)

TagBoxed == 2
TagCons  == 1

Tag(w)         == w % 16
Offset(w)      == w \div 16
MakeRef(t, o)  == 16 * o + t
IsBoxed(w)     == Tag(w) = TagBoxed
IsCons(w)      == Tag(w) = TagCons
IsRef(w)       == IsBoxed(w) \/ IsCons(w)
TupleHdr(n)    == 64 * n
IsTupleHdr(w)  == w % 64 = 0
TupleArity(w)  == w \div 64

\* What the decoder makes of an instruction: registers of the file, elements
\* by their number from 0, and constants that are no references.
ASSUME InstructionAssumption ==
  \A ins \in Instructions :
    /\ ins.dst \in Regs
    /\ \/ ins.op = "CONST" /\ ins.args[1] \in Nat /\ ~IsRef(ins.args[1])
       \/ ins.op \in {"MOVE", "HEAD", "TAIL"} /\ ins.args[1] \in Regs
       \/ ins.op = "TUPLE_ELEM" /\ ins.args[1] \in Regs /\ ins.args[2] \in Nat
       \/ ins.op = "MAKE_TUPLE" /\ ins.args \in Seq(Regs)
       \/ ins.op = "CONS" /\ ins.args \in Seq(Regs) /\ Len(ins.args) = 2

\* A word of a space; memory beyond the modelled word reads as zero.
Read(space, k) == IF k \in DOMAIN space THEN space[k] ELSE 0

\* A space with words written from cell k on.
Written(space, k, words) ==
  [c \in DOMAIN space |-> IF c \in k..(k + Len(words) - 1) THEN words[c - k + 1]
                          ELSE space[c]]

Blank == [c \in 0..HeapWords |-> 0]

NoInstruction == [op |-> "NONE", dst |-> 0, args |-> <<>>]
NothingPending == [ins |-> NoInstruction, words |-> <<>>]

Init == /\ from = Blank
        /\ to = Blank
        /\ hp = 0
        /\ regs = [r \in Regs |-> 0]
        /\ phase = "run"
        /\ scan = 0
        /\ pending = NothingPending
        /\ rc = MB_OK

-----------------------------------------------------------------------------
(* Instructions that need no room.                                         *)

Arg(ins, k) == regs[ins.args[k]]

\* An instruction ends with a result in its register, or with an error.
Yield(ins, word) ==
  /\ regs' = [regs EXCEPT ![ins.dst] = word]
  /\ rc' = MB_OK
  /\ UNCHANGED <<from, to, hp, phase, scan, pending>>

Fail(code) == rc' = code /\ UNCHANGED <<from, to, hp, regs, phase, scan, pending>>

Const(ins) == /\ phase = "run" /\ ins.op = "CONST"
              /\ Yield(ins, ins.args[1])

Move(ins) == /\ phase = "run" /\ ins.op = "MOVE"
             /\ Yield(ins, Arg(ins, 1))

TupleElem(ins) ==
  /\ phase = "run" /\ ins.op = "TUPLE_ELEM"
  /\ LET hdr == Read(from, Offset(Arg(ins, 1)))
     IN  \/ /\ ~IsBoxed(Arg(ins, 1)) \/ ~IsTupleHdr(hdr)
            /\ Fail(MB_BAD_TERM)
         \/ /\ IsBoxed(Arg(ins, 1)) /\ IsTupleHdr(hdr)
            /\ ins.args[2] >= TupleArity(hdr)
            /\ Fail(MB_BAD_ARITY)
         \/ /\ IsBoxed(Arg(ins, 1)) /\ IsTupleHdr(hdr)
            /\ ins.args[2] < TupleArity(hdr)
            /\ Yield(ins, Read(from, Offset(Arg(ins, 1)) + 1 + ins.args[2]))

\* HEAD and TAIL: the words 0 and 1 of a cell.
ConsWord(ins, op, k) ==
  /\ phase = "run" /\ ins.op = op
  /\ \/ ~IsCons(Arg(ins, 1)) /\ Fail(MB_BAD_TERM)
     \/ IsCons(Arg(ins, 1)) /\ Yield(ins, Read(from, Offset(Arg(ins, 1)) + k))

Head_(ins) == ConsWord(ins, "HEAD", 0)
Tail_(ins) == ConsWord(ins, "TAIL", 1)

-----------------------------------------------------------------------------
(* Allocation.                                                             *)

\* Faulty: one word more than there is.
FitsOneMore(n) == hp + n <= HeapWords + 1

\* mb_heap_alloc finds n words.
Fits(n) == hp + n <= HeapWords

\* The words that the instruction's registers hold now.
Operands(ins) == [k \in 1..Len(ins.args) |-> Arg(ins, k)]

\* The object an instruction builds from its operand words.
Object(ins, words) ==
  IF ins.op = "MAKE_TUPLE" THEN <<TupleHdr(Len(words))>> \o words ELSE words

ReferenceTo(ins, o) == MakeRef(IF ins.op = "MAKE_TUPLE" THEN TagBoxed ELSE TagCons, o)

\* mb_heap_make_tuple or mb_heap_cons, with room, then the register.
Place(ins, words) ==
  LET object == Object(ins, words)
  IN  /\ Fits(Len(object))
      /\ from' = Written(from, hp, object)
      /\ hp' = hp + Len(object)
      /\ regs' = [regs EXCEPT ![ins.dst] = ReferenceTo(ins, hp)]
      /\ rc' = MB_OK

Allocate(ins) ==
  /\ phase = "run" /\ ins.op \in {"MAKE_TUPLE", "CONS"}
  /\ Place(ins, Operands(ins))
  /\ UNCHANGED <<to, phase, scan, pending>>

\* There is no room: the spaces change places and the collection starts.
StartCollection(ins) ==
  /\ phase = "run" /\ ins.op \in {"MAKE_TUPLE", "CONS"}
  /\ ~Fits(Len(Object(ins, Operands(ins))))
  /\ from' = to /\ to' = from
  /\ hp' = 0
  /\ phase' = "roots" /\ scan' = 0
  /\ pending' = [ins |-> ins, words |-> Operands(ins)]
  /\ UNCHANGED <<regs, rc>>

-----------------------------------------------------------------------------
(* The collection.                                                         *)

\* What mb_gc_copy_term returns and leaves, when it moves nothing.
Unmoved(w) == [term |-> w, from |-> from, to |-> to, hp |-> hp]

\* And when it copies size words from offset o: the first two words of the
\* original, if it has two, become the marker and the new offset.
Moved(w, o, size) ==
  [term |-> MakeRef(Tag(w), hp),
   from |-> Written(from, hp, [k \in 1..size |-> Read(to, o + k - 1)]),
   to   |-> Written(to, o, <<MovedMarker, hp>>),
   hp   |-> hp + size]

\* Faulty: an object is copied again for every reference to it.
CopyTermAgain(w) ==
  LET o == Offset(w)
      first == Read(to, o)
  IN  CASE IsBoxed(w) /\ IsTupleHdr(first) -> Moved(w, o, 1 + TupleArity(first))
        [] IsCons(w)                       -> Moved(w, o, 2)
        [] OTHER                           -> Unmoved(w)

\* mb_gc_copy_term.
CopyTerm(w) ==
  LET o == Offset(w)
      first == Read(to, o)
  IN  CASE (IsBoxed(w) \/ IsCons(w)) /\ first = MovedMarker
             -> Unmoved(MakeRef(Tag(w), Read(to, o + 1)))
        [] IsBoxed(w) /\ first # MovedMarker /\ IsTupleHdr(first)
             -> Moved(w, o, 1 + TupleArity(first))
        [] IsCons(w) /\ first # MovedMarker
             -> Moved(w, o, 2)
        [] OTHER
             -> Unmoved(w)

\* Every register is a root.
Roots == RegCount

\* Phase 1, one root.
CopyRoot ==
  LET copy == CopyTerm(regs[scan])
  IN  /\ phase = "roots" /\ scan < Roots
      /\ regs' = [regs EXCEPT ![scan] = copy.term]
      /\ from' = copy.from /\ to' = copy.to /\ hp' = copy.hp
      /\ scan' = scan + 1
      /\ UNCHANGED <<phase, pending, rc>>

RootsCopied ==
  /\ phase = "roots" /\ scan = Roots
  /\ phase' = "scan" /\ scan' = 0
  /\ UNCHANGED <<from, to, hp, regs, pending, rc>>

\* Faulty: the scan does not step over the header of a tuple.
ScanWordStuck ==
  LET copy == CopyTerm(Read(from, scan))
  IN  /\ phase = "scan" /\ scan < hp
      /\ from' = Written(copy.from, scan, <<copy.term>>)
      /\ to' = copy.to /\ hp' = copy.hp
      /\ scan' = IF IsTupleHdr(Read(from, scan)) THEN scan ELSE scan + 1
      /\ UNCHANGED <<regs, phase, pending, rc>>

\* Phase 2, one word.  The code takes a tuple with its elements at once; a
\* header is no reference, so going word by word comes to the same.
ScanWord ==
  LET copy == CopyTerm(Read(from, scan))
  IN  /\ phase = "scan" /\ scan < hp
      /\ from' = Written(copy.from, scan, <<copy.term>>)
      /\ to' = copy.to /\ hp' = copy.hp
      /\ scan' = scan + 1
      /\ UNCHANGED <<regs, phase, pending, rc>>

Collected == phase = "scan" /\ scan >= hp

\* Faulty: CONS, too, uses the words it had read.
RetryWordsRead(ins) == pending.words

\* CONS reads its registers again, MAKE_TUPLE uses the words it had read.
RetryWords(ins) == IF ins.op = "CONS" THEN Operands(ins) ELSE pending.words

\* The collection clears the old space and the instruction tries once more.
Retry ==
  LET ins == pending.ins
      words == RetryWords(ins)
  IN  /\ Collected
      /\ to' = [c \in DOMAIN to |-> IF c \in Cells THEN 0 ELSE to[c]]
      /\ phase' = "run" /\ scan' = 0 /\ pending' = NothingPending
      /\ \/ Place(ins, words)
         \/ /\ ~Fits(Len(Object(ins, words)))
            /\ rc' = MB_HEAP_OOM
            /\ UNCHANGED <<from, hp, regs>>

-----------------------------------------------------------------------------
Collect == CopyRoot \/ RootsCopied \/ ScanWord \/ Retry

Next ==
  \/ \E ins \in Instructions :
       \/ Const(ins) \/ Move(ins) \/ TupleElem(ins) \/ Head_(ins) \/ Tail_(ins)
       \/ Allocate(ins) \/ StartCollection(ins)
  \/ CopyRoot
  \/ RootsCopied
  \/ ScanWord
  \/ Retry

\* A collection runs to its end; programs need not go on.
Spec == Init /\ [][Next]_vars /\ WF_vars(Collect)

-----------------------------------------------------------------------------
\* Types; and the allocator and the collector stay within a space, so the
\* word after each is never written.
TypeOK ==
  /\ from \in [0..HeapWords -> Nat] /\ from[HeapWords] = 0
  /\ to \in [0..HeapWords -> Nat] /\ to[HeapWords] = 0
  /\ hp \in 0..HeapWords
  /\ regs \in [Regs -> Nat]
  /\ phase \in {"run", "roots", "scan"}
  /\ scan \in 0..(IF phase = "roots" THEN RegCount ELSE HeapWords)
  /\ pending.ins \in Instructions \cup {NoInstruction}
  /\ pending.words \in Seq(Nat)
  /\ rc \in {MB_OK, MB_HEAP_OOM, MB_BAD_TERM, MB_BAD_ARITY}

\* A collection has already turned the reference in register r, or in word
\* k of the active space, into one to the active space.
RegIsNew(r)  == phase # "roots" \/ r < scan
WordIsNew(k) == phase = "run" \/ (phase = "scan" /\ k < scan)

\* The words of the object in a space that w names.
ObjectSize(space, w) ==
  IF IsCons(w) THEN 2 ELSE 1 + TupleArity(Read(space, Offset(w)))
Extent(space, w) == Offset(w)..(Offset(w) + ObjectSize(space, w) - 1)

\* w names a cell or a tuple below word h of a space.
Names(space, h, w) ==
  /\ Offset(w) + ObjectSize(space, w) <= h
  /\ IsBoxed(w) => IsTupleHdr(Read(space, Offset(w)))

\* The words that refer to the active space.
NewWords == {regs[r] : r \in {r \in Regs : RegIsNew(r)}} \cup
            {Read(from, k) : k \in {k \in 0..(hp - 1) : WordIsNew(k)}}

\* Whenever an instruction starts, every reference in the registers and in the
\* allocated words names a whole object, and no two objects overlap: no
\* forwarding pointer and no pointer into the old space is left behind.
ReferencesSound ==
  phase = "run" =>
    LET refs == {w \in NewWords : IsRef(w)}
    IN  /\ \A w \in refs : Names(from, hp, w)
        /\ \A v, w \in refs : v # w => Extent(from, v) \cap Extent(from, w) = {}

\* Every collection comes to an end, with whatever shape of objects: the
\* scan catches up with the allocation pointer (mb_heap_gc's while loop).
CollectionEnds == phase # "run" ~> phase = "run"
=============================================================================
