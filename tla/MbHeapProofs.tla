---------------------------- MODULE MbHeapProofs ----------------------------
(***************************************************************************)
(* Proofs about the heap of a process, MbHeap, for every size of a space,  *)
(* every number of registers and every program that keeps references out   *)
(* of the tuples for which a collection may have to make room: neither the *)
(* allocator nor the collector leaves its space, and whenever an           *)
(* instruction starts, every reference names a whole object that overlaps  *)
(* no other.                                                               *)
(***************************************************************************)
EXTENDS MbHeap, FiniteSetTheorems, SequenceTheorems, TLAPS

-----------------------------------------------------------------------------
(* Words.  Below, a word is known by its tag and offset only.              *)

\* mb_term.h: what is put together is found again, and two references with
\* the same tag and offset are the same word.
LEMMA References ==
  ASSUME NEW t \in {TagBoxed, TagCons}, NEW o \in Nat
  PROVE  /\ MakeRef(t, o) \in Nat
         /\ Tag(MakeRef(t, o)) = t
         /\ Offset(MakeRef(t, o)) = o
BY DEF MakeRef, Tag, Offset, TagBoxed, TagCons

LEMMA Words ==
  ASSUME NEW w \in Nat
  PROVE  /\ Offset(w) \in Nat /\ Tag(w) \in Nat
         /\ w = MakeRef(Tag(w), Offset(w))
         /\ IsTupleHdr(w) => ~IsRef(w) /\ TupleArity(w) \in Nat
         /\ IsRef(w) => Tag(w) \in {TagBoxed, TagCons}
         /\ ~(IsCons(w) /\ IsBoxed(w))
BY DEF MakeRef, Tag, Offset, TagBoxed, TagCons, IsRef, IsCons, IsBoxed, IsTupleHdr,
       TupleArity

LEMMA TupleHeaders ==
  ASSUME NEW n \in Nat
  PROVE  TupleHdr(n) \in Nat /\ IsTupleHdr(TupleHdr(n)) /\ TupleArity(TupleHdr(n)) = n
BY DEF TupleHdr, IsTupleHdr, TupleArity

\* The marker reads as a reference past the heap, and is no header.
LEMMA Marker ==
  /\ MovedMarker \in Nat /\ IsRef(MovedMarker) /\ ~IsTupleHdr(MovedMarker)
  /\ Offset(MovedMarker) > HeapWords
<1>1. MovedMarker \in Nat /\ MovedMarker % 16 = 2 /\ MovedMarker > 16 * (HeapWords + 1)
      /\ HeapWords \in Nat \ {0}
  BY HeapAssumption
<1>2. ~IsTupleHdr(MovedMarker)
  BY <1>1 DEF IsTupleHdr
<1> QED BY <1>1, <1>2 DEF IsRef, IsBoxed, Tag, TagBoxed, Offset

LEMMA NullWord == 0 \in Nat /\ ~IsRef(0)
BY DEF IsRef, IsBoxed, IsCons, Tag, TagBoxed, TagCons

-----------------------------------------------------------------------------
(* Spaces.                                                                 *)

Space == [0..HeapWords -> Nat]

LEMMA HeapConstants ==
  /\ HeapWords \in Nat \ {0} /\ RegCount \in Nat \ {0}
  /\ Cells = 0..(HeapWords - 1) /\ Regs = 0..(RegCount - 1)
BY HeapAssumption DEF Cells, Regs

LEMMA ReadWord ==
  ASSUME NEW s \in Space, NEW k
  PROVE  /\ Read(s, k) \in Nat
         /\ k \in 0..HeapWords => Read(s, k) = s[k]
         /\ k \notin 0..HeapWords => Read(s, k) = 0
BY DEF Read, Space

\* Writing words changes those cells and no others.
LEMMA WrittenWords ==
  ASSUME NEW s \in Space, NEW k \in Nat, NEW ws \in Seq(Nat), k + Len(ws) <= HeapWords + 1
  PROVE  /\ Written(s, k, ws) \in Space
         /\ \A c \in 0..HeapWords : Read(Written(s, k, ws), c) =
              IF c \in k..(k + Len(ws) - 1) THEN ws[c - k + 1] ELSE Read(s, c)
<1>1. Len(ws) \in Nat /\ \A i \in 1..Len(ws) : ws[i] \in Nat
  BY LenProperties
<1>2. HeapWords \in Nat
  BY HeapConstants
<1>3. \A c \in 0..HeapWords : c \in k..(k + Len(ws) - 1) => c - k + 1 \in 1..Len(ws)
  BY <1>1, <1>2
<1>4. Written(s, k, ws) \in Space
  BY <1>1, <1>3 DEF Written, Space
<1>5. \A c \in 0..HeapWords : Written(s, k, ws)[c] =
              IF c \in k..(k + Len(ws) - 1) THEN ws[c - k + 1] ELSE s[c]
  BY DEF Written, Space
<1> QED BY <1>4, <1>5, ReadWord

LEMMA WrittenOne ==
  ASSUME NEW s \in Space, NEW k \in 0..HeapWords, NEW x \in Nat
  PROVE  /\ Written(s, k, <<x>>) \in Space
         /\ \A c \in 0..HeapWords : Read(Written(s, k, <<x>>), c) =
              IF c = k THEN x ELSE Read(s, c)
<1>1. <<x>> \in Seq(Nat) /\ Len(<<x>>) = 1 /\ <<x>>[1] = x
  OBVIOUS
<1>2. HeapWords \in Nat /\ k \in Nat /\ k + Len(<<x>>) <= HeapWords + 1
  BY <1>1, HeapConstants
<1>3. /\ Written(s, k, <<x>>) \in Space
      /\ \A c \in 0..HeapWords : Read(Written(s, k, <<x>>), c) =
           IF c \in k..(k + Len(<<x>>) - 1) THEN <<x>>[c - k + 1] ELSE Read(s, c)
  BY <1>1, <1>2, WrittenWords
<1>4. ASSUME NEW c \in 0..HeapWords
      PROVE  /\ c \in k..(k + Len(<<x>>) - 1) <=> c = k
             /\ c = k => c - k + 1 = 1
  BY <1>1, <1>2
<1> QED BY <1>1, <1>3, <1>4

-----------------------------------------------------------------------------
(* The invariant.  plain says that tuples hold immediates only, imm is a   *)
(* set of registers that do.                                               *)

\* w names a whole object of a space, below word h, with room for a
\* forwarding pointer.
Whole(plain, s, h, w) ==
  /\ Names(s, h, w)
  /\ ObjectSize(s, w) >= 2
  /\ plain /\ IsBoxed(w) => \A k \in Extent(s, w) : ~IsRef(Read(s, k))

\* So does every reference in W, and the objects do not overlap.
Sound(plain, s, h, W) ==
  /\ \A w \in W : IsRef(w) => Whole(plain, s, h, w)
  /\ \A v, w \in W : IsRef(v) /\ IsRef(w) /\ v # w =>
                       Extent(s, v) \cap Extent(s, w) = {}

\* Where the object that w names has been copied to.
Forward(t, w) == MakeRef(Tag(w), Read(t, Offset(w) + 1))

\* The references in moved have been copied, out of some cells of the old
\* space t, one by one into the words below h of the active space f.
Copies(plain, f, h, t, moved, cells) ==
  /\ Cardinality(cells) = h
  /\ \A w \in moved : /\ IsRef(w)
                      /\ {Offset(w), Offset(w) + 1} \subseteq cells
                      /\ Read(t, Offset(w)) = MovedMarker
  /\ Sound(plain, f, h, {Forward(t, w) : w \in moved})

\* The other references in W still name objects of the old space, in other
\* cells, and W has all that these cells hold.
Originals(plain, t, moved, cells, W) ==
  /\ Sound(plain, t, HeapWords, W \ moved)
  /\ \A w \in W \ moved : IsRef(w) => Extent(t, w) \cap cells = {}
  /\ \A k \in Cells \ cells : Read(t, k) \in W

\* A collection between two words: what is in the spaces.
Midway(plain, f, h, t, moved, cells, W) ==
  /\ f \in Space /\ t \in Space /\ h \in 0..HeapWords
  /\ moved \in SUBSET Nat /\ cells \in SUBSET Cells /\ W \in SUBSET Nat
  /\ Copies(plain, f, h, t, moved, cells)
  /\ Originals(plain, t, moved, cells, W)
  /\ \A k \in h..HeapWords : Read(f, k) = 0
  /\ Read(t, HeapWords) = 0

\* The words that a collection still has to look at.
OldWords == {regs[r] : r \in {r \in Regs : ~RegIsNew(r)}} \cup
            {Read(from, k) : k \in {k \in 0..(hp - 1) : ~WordIsNew(k)}}

Collecting(plain) ==
  \E moved \in SUBSET Nat, cells \in SUBSET Cells, W \in SUBSET Nat :
    /\ Midway(plain, from, hp, to, moved, cells, W)
    /\ OldWords \subseteq W
    /\ \A w \in NewWords : IsRef(w) => \E v \in moved : w = Forward(to, v)

\* All words that refer to the active space once a collection is over.
AllWords == {regs[r] : r \in Regs} \cup {Read(from, k) : k \in 0..(hp - 1)}

Running(plain) ==
  /\ Sound(plain, from, hp, AllWords)
  /\ \A k \in 0..HeapWords : Read(to, k) = 0
  /\ pending = NothingPending /\ scan = 0

\* The instruction that a collection interrupts.
Interrupted(plain) ==
  /\ pending.ins \in Instructions
  /\ pending.ins.op \in {"MAKE_TUPLE", "CONS"}
  /\ Len(pending.words) = Len(pending.ins.args)
  /\ plain /\ pending.ins.op = "MAKE_TUPLE" =>
       \A k \in DOMAIN pending.words : ~IsRef(pending.words[k])

HeapInv(plain, imm) ==
  /\ TypeOK
  /\ \A k \in hp..HeapWords : Read(from, k) = 0
  /\ phase = "run" => Running(plain)
  /\ phase # "run" => Collecting(plain) /\ Interrupted(plain)
  /\ phase = "scan" => scan <= hp
  /\ \A r \in imm : ~IsRef(regs[r])

-----------------------------------------------------------------------------
(* Copying one object.                                                     *)

\* Reading after a copy of size words from cell o.
LEMMA MovedWords ==
  ASSUME NEW w \in Nat, NEW o \in Nat, NEW size \in Nat, size >= 2,
         from \in Space, to \in Space, hp \in Nat,
         o + size <= HeapWords, hp + size <= HeapWords
  PROVE  /\ Moved(w, o, size).term = MakeRef(Tag(w), hp)
         /\ Moved(w, o, size).hp = hp + size
         /\ Moved(w, o, size).from \in Space /\ Moved(w, o, size).to \in Space
         /\ \A k \in 0..HeapWords : Read(Moved(w, o, size).from, k) =
              IF k \in hp..(hp + size - 1) THEN Read(to, o + (k - hp)) ELSE Read(from, k)
         /\ \A k \in 0..HeapWords : Read(Moved(w, o, size).to, k) =
              IF k = o THEN MovedMarker ELSE IF k = o + 1 THEN hp ELSE Read(to, k)
<1> DEFINE ws == [k \in 1..size |-> Read(to, o + k - 1)]
           ps == <<MovedMarker, hp>>
<1>1. HeapWords \in Nat
  BY HeapConstants
<1>2. /\ ws \in Seq(Nat) /\ Len(ws) = size
      /\ \A k \in 1..size : ws[k] = Read(to, o + k - 1)
  <2>1. ws \in [1..size -> Nat]
    BY ReadWord
  <2> QED BY <2>1
<1>3. ps \in Seq(Nat) /\ Len(ps) = 2 /\ ps[1] = MovedMarker /\ ps[2] = hp
  BY Marker
<1>4. /\ Moved(w, o, size).term = MakeRef(Tag(w), hp)
      /\ Moved(w, o, size).hp = hp + size
      /\ Moved(w, o, size).from = Written(from, hp, ws)
      /\ Moved(w, o, size).to = Written(to, o, ps)
  BY DEF Moved
<1> HIDE DEF ws, ps
<1>5. /\ Written(from, hp, ws) \in Space
      /\ \A k \in 0..HeapWords : Read(Written(from, hp, ws), k) =
           IF k \in hp..(hp + size - 1) THEN ws[k - hp + 1] ELSE Read(from, k)
  <2>1. hp + Len(ws) <= HeapWords + 1
    BY <1>1, <1>2
  <2>2. /\ Written(from, hp, ws) \in Space
        /\ \A k \in 0..HeapWords : Read(Written(from, hp, ws), k) =
             IF k \in hp..(hp + Len(ws) - 1) THEN ws[k - hp + 1] ELSE Read(from, k)
    BY <1>2, <2>1, WrittenWords
  <2> QED BY <1>2, <2>2
<1>6. \A k \in 0..HeapWords : k \in hp..(hp + size - 1) =>
        ws[k - hp + 1] = Read(to, o + (k - hp))
  <2> SUFFICES ASSUME NEW k \in 0..HeapWords, k \in hp..(hp + size - 1)
               PROVE  ws[k - hp + 1] = Read(to, o + (k - hp))
    OBVIOUS
  <2>1. k - hp + 1 \in 1..size /\ o + (k - hp + 1) - 1 = o + (k - hp)
    BY <1>1
  <2> QED BY <1>2, <2>1
<1>7. /\ Written(to, o, ps) \in Space
      /\ \A k \in 0..HeapWords : Read(Written(to, o, ps), k) =
           IF k \in o..(o + 2 - 1) THEN ps[k - o + 1] ELSE Read(to, k)
  <2>1. o + Len(ps) <= HeapWords + 1
    BY <1>1, <1>3
  <2>2. /\ Written(to, o, ps) \in Space
        /\ \A k \in 0..HeapWords : Read(Written(to, o, ps), k) =
             IF k \in o..(o + Len(ps) - 1) THEN ps[k - o + 1] ELSE Read(to, k)
    BY <1>3, <2>1, WrittenWords
  <2> QED BY <1>3, <2>2
<1>8. \A k \in 0..HeapWords : Read(Written(to, o, ps), k) =
           IF k = o THEN MovedMarker ELSE IF k = o + 1 THEN hp ELSE Read(to, k)
  BY <1>1, <1>3, <1>7
<1> QED BY <1>4, <1>5, <1>6, <1>7, <1>8

\* A cell and a tuple have a size.
LEMMA SizeIsNat ==
  ASSUME NEW s \in Space, NEW h, NEW w \in Nat, IsRef(w), Names(s, h, w)
  PROVE  ObjectSize(s, w) \in Nat
<1>1. CASE IsCons(w)
  BY <1>1 DEF ObjectSize
<1>2. CASE ~IsCons(w)
  <2>1. IsTupleHdr(Read(s, Offset(w))) /\ Read(s, Offset(w)) \in Nat
    BY <1>2, ReadWord DEF IsRef, Names
  <2>2. TupleArity(Read(s, Offset(w))) \in Nat
    BY <2>1, Words
  <2> QED BY <1>2, <2>2 DEF ObjectSize
<1> QED BY <1>1, <1>2

\* An object is what it was in a space that has the same words there.
LEMMA SameObject ==
  ASSUME NEW plain \in BOOLEAN, NEW s1 \in Space, NEW s2 \in Space,
         NEW h1 \in 0..HeapWords, NEW h2 \in 0..HeapWords, h1 <= h2,
         NEW w \in Nat, IsRef(w), Whole(plain, s1, h1, w),
         \A k \in Extent(s1, w) : Read(s2, k) = Read(s1, k)
  PROVE  /\ Whole(plain, s2, h2, w)
         /\ ObjectSize(s2, w) = ObjectSize(s1, w)
         /\ Extent(s2, w) = Extent(s1, w)
<1>1. /\ Offset(w) \in Nat /\ ObjectSize(s1, w) \in Nat /\ ObjectSize(s1, w) >= 2
      /\ HeapWords \in Nat
  BY SizeIsNat, Words, HeapConstants DEF Whole
<1>2. Offset(w) \in Extent(s1, w)
  BY <1>1 DEF Extent
<1>3. ObjectSize(s2, w) = ObjectSize(s1, w) /\ Extent(s2, w) = Extent(s1, w)
  BY <1>2 DEF ObjectSize, Extent
<1>4. Offset(w) + ObjectSize(s1, w) <= h2
  BY <1>1 DEF Whole, Names
<1> QED BY <1>2, <1>3, <1>4 DEF Whole, Names

\* The extent of a whole object, in numbers.
LEMMA WholeExtent ==
  ASSUME NEW plain \in BOOLEAN, NEW s \in Space, NEW h \in 0..HeapWords,
         NEW w \in Nat, IsRef(w), Whole(plain, s, h, w)
  PROVE  /\ Offset(w) \in Nat /\ ObjectSize(s, w) \in Nat /\ ObjectSize(s, w) >= 2
         /\ Offset(w) + ObjectSize(s, w) <= h
         /\ {Offset(w), Offset(w) + 1} \subseteq Extent(s, w)
         /\ Extent(s, w) \subseteq Cells /\ Extent(s, w) \subseteq 0..(h - 1)
         /\ Cardinality(Extent(s, w)) = ObjectSize(s, w)
<1>1. /\ Offset(w) \in Nat /\ ObjectSize(s, w) \in Nat /\ ObjectSize(s, w) >= 2
      /\ Offset(w) + ObjectSize(s, w) <= h
  BY SizeIsNat, Words DEF Whole, Names
<1>2. Cardinality(Extent(s, w)) = ObjectSize(s, w)
  BY <1>1, FS_Interval DEF Extent
<1> QED BY <1>1, <1>2, HeapConstants DEF Extent

\* A forwarding pointer is read as a reference of the same kind.
LEMMA ForwardIsRef ==
  ASSUME NEW t \in Space, NEW w \in Nat, IsRef(w)
  PROVE  Forward(t, w) \in Nat /\ IsRef(Forward(t, w))
<1>1. Tag(w) \in {TagBoxed, TagCons} /\ Read(t, Offset(w) + 1) \in Nat
  BY Words, ReadWord
<1>2. Forward(t, w) \in Nat /\ Tag(Forward(t, w)) = Tag(w)
  BY <1>1, References DEF Forward
<1> QED BY <1>2 DEF IsRef, IsBoxed, IsCons

\* The marker is found only where an object has been moved.
LEMMA MarkerMeansMoved ==
  ASSUME NEW plain \in BOOLEAN, NEW f, NEW h, NEW t, NEW moved, NEW cells, NEW W,
         Midway(plain, f, h, t, moved, cells, W),
         NEW k \in Cells \ cells
  PROVE  Read(t, k) # MovedMarker
<1>1. HeapWords \in Nat /\ Cells = 0..(HeapWords - 1)
  BY HeapConstants
<1>2. SUFFICES ASSUME MovedMarker \in W PROVE FALSE
  BY DEF Midway, Originals
<1>3. CASE MovedMarker \in moved
  <2>1. Offset(MovedMarker) \in Cells
    BY <1>3 DEF Midway, Copies
  <2> QED BY <1>1, <2>1, Marker
<1>4. CASE MovedMarker \notin moved
  <2>1. Whole(plain, t, HeapWords, MovedMarker)
    BY <1>2, <1>4, Marker DEF Midway, Originals, Sound
  <2> QED BY <1>1, <2>1, Marker, WholeExtent DEF Midway
<1> QED BY <1>3, <1>4

\* What mb_gc_copy_term does with a word that is no reference, with one to a
\* moved object, and with one to an object that is still in place.
LEMMA CopyTermCases ==
  ASSUME NEW plain \in BOOLEAN, NEW moved, NEW cells, NEW W,
         Midway(plain, from, hp, to, moved, cells, W), NEW w \in W
  PROVE  /\ ~IsRef(w) => CopyTerm(w) = Unmoved(w)
         /\ IsRef(w) /\ w \in moved => CopyTerm(w) = Unmoved(Forward(to, w))
         /\ IsRef(w) /\ w \notin moved =>
              CopyTerm(w) = Moved(w, Offset(w), ObjectSize(to, w))
<1>1. CASE ~IsRef(w)
  BY <1>1 DEF CopyTerm, IsRef
<1>2. CASE IsRef(w) /\ w \in moved
  <2>1. Read(to, Offset(w)) = MovedMarker
    BY <1>2 DEF Midway, Copies
  <2>2. IsBoxed(w) \/ IsCons(w)
    BY <1>2 DEF IsRef
  <2> QED BY <1>2, <2>1, <2>2 DEF CopyTerm, Forward
<1>3. CASE IsRef(w) /\ w \notin moved
  <2>1. Whole(plain, to, HeapWords, w) /\ Extent(to, w) \cap cells = {}
    BY <1>3 DEF Midway, Originals, Sound
  <2>2. Offset(w) \in Cells \ cells
    BY <1>3, <2>1, HeapConstants, WholeExtent DEF Midway
  <2>3. Read(to, Offset(w)) # MovedMarker
    BY <2>2, MarkerMeansMoved
  <2>4. ~(IsCons(w) /\ IsBoxed(w))
    BY Words DEF Midway
  <2>5. CASE IsCons(w)
    <3>1. ~IsBoxed(w) /\ ObjectSize(to, w) = 2
      BY <2>4, <2>5 DEF ObjectSize
    <3>2. CopyTerm(w) = Moved(w, Offset(w), 2)
      BY <2>3, <2>5, <3>1 DEF CopyTerm
    <3> QED BY <1>3, <3>1, <3>2
  <2>6. CASE IsBoxed(w)
    <3>1. IsTupleHdr(Read(to, Offset(w)))
      BY <2>1, <2>6 DEF Whole, Names
    <3>2. ~IsCons(w) /\ ObjectSize(to, w) = 1 + TupleArity(Read(to, Offset(w)))
      BY <2>4, <2>6 DEF ObjectSize
    <3>3. CopyTerm(w) = Moved(w, Offset(w), 1 + TupleArity(Read(to, Offset(w))))
      BY <2>3, <2>6, <3>1, <3>2 DEF CopyTerm
    <3> QED BY <1>3, <3>2, <3>3
  <2> QED BY <1>3, <2>5, <2>6 DEF IsRef
<1> QED BY <1>1, <1>2, <1>3

\* The copy fits: the cells that objects were copied out of are as many as
\* the words in use, and the object is in other cells.
LEMMA CopyFits ==
  ASSUME NEW plain \in BOOLEAN, NEW f, NEW h, NEW t, NEW moved, NEW cells, NEW W,
         Midway(plain, f, h, t, moved, cells, W),
         NEW w \in W, IsRef(w), w \notin moved
  PROVE  /\ Whole(plain, t, HeapWords, w) /\ Extent(t, w) \cap cells = {}
         /\ cells \cup Extent(t, w) \in SUBSET Cells
         /\ Cardinality(cells \cup Extent(t, w)) = h + ObjectSize(t, w)
         /\ h + ObjectSize(t, w) <= HeapWords
<1>1. Whole(plain, t, HeapWords, w) /\ Extent(t, w) \cap cells = {}
  BY DEF Midway, Originals, Sound
<1>2. /\ Extent(t, w) \subseteq Cells /\ ObjectSize(t, w) \in Nat
      /\ Cardinality(Extent(t, w)) = ObjectSize(t, w)
  BY <1>1, HeapConstants, WholeExtent DEF Midway
<1>3. IsFiniteSet(Cells) /\ Cardinality(Cells) = HeapWords
  <2>1. 0 \in Int /\ HeapWords - 1 \in Int /\ ~(0 > HeapWords - 1)
        /\ (HeapWords - 1) - 0 + 1 = HeapWords
    BY HeapConstants
  <2> QED BY <2>1, FS_Interval, HeapConstants
<1>4. /\ cells \in SUBSET Cells /\ Cardinality(cells) = h
      /\ cells \cup Extent(t, w) \in SUBSET Cells
  BY <1>2 DEF Midway, Copies
<1>5. IsFiniteSet(cells) /\ IsFiniteSet(Extent(t, w))
  BY <1>2, <1>3, <1>4, FS_Subset
<1>6. Cardinality(cells \cup Extent(t, w)) = h + ObjectSize(t, w) - Cardinality({})
  <2>1. cells \cap Extent(t, w) = {}
    BY <1>1
  <2> QED BY <1>2, <1>4, <1>5, <2>1, FS_Union
<1>7. Cardinality({}) = 0
  BY FS_EmptySet
<1>8. Cardinality(cells \cup Extent(t, w)) <= HeapWords
  BY <1>3, <1>4, FS_Subset
<1> QED BY <1>1, <1>2, <1>4, <1>6, <1>7, <1>8 DEF Midway

\* An object is copied whole and keeps the spaces as a collection needs them.
LEMMA CopyObject ==
  ASSUME NEW plain \in BOOLEAN, NEW moved, NEW cells, NEW W,
         Midway(plain, from, hp, to, moved, cells, W),
         NEW w \in W, IsRef(w), w \notin moved,
         NEW c, c = Moved(w, Offset(w), ObjectSize(to, w))
  PROVE  /\ Midway(plain, c.from, c.hp, c.to, moved \cup {w},
                   cells \cup Extent(to, w), W)
         /\ c.term = Forward(c.to, w)
         /\ \A v \in moved : Forward(c.to, v) = Forward(to, v)
         /\ hp <= c.hp
         /\ \A k \in 0..(hp - 1) : Read(c.from, k) = Read(from, k)
         /\ \A k \in hp..(c.hp - 1) : Read(c.from, k) \in W
<1> DEFINE o == Offset(w)
           size == ObjectSize(to, w)
           nw == MakeRef(Tag(w), hp)
           moved2 == moved \cup {w}
           cells2 == cells \cup Extent(to, w)
<1>1. /\ Whole(plain, to, HeapWords, w) /\ Extent(to, w) \cap cells = {}
      /\ cells2 \in SUBSET Cells /\ Cardinality(cells2) = hp + size
      /\ hp + size <= HeapWords
  BY CopyFits
<1>2. /\ from \in Space /\ to \in Space /\ hp \in 0..HeapWords /\ HeapWords \in Nat
      /\ hp \in Nat /\ moved \in SUBSET Nat /\ W \in SUBSET Nat /\ w \in Nat
      /\ cells \in SUBSET Cells /\ Cells = 0..(HeapWords - 1)
  BY HeapConstants DEF Midway
<1>3. /\ o \in Nat /\ size \in Nat /\ size >= 2 /\ o + size <= HeapWords
      /\ {o, o + 1} \subseteq Extent(to, w)
      /\ Extent(to, w) = o..(o + size - 1)
  BY <1>1, <1>2, WholeExtent DEF Extent
<1>4. /\ c.term = nw /\ c.hp = hp + size
      /\ c.from \in Space /\ c.to \in Space
      /\ \A k \in 0..HeapWords : Read(c.from, k) =
           IF k \in hp..(hp + size - 1) THEN Read(to, o + (k - hp)) ELSE Read(from, k)
      /\ \A k \in 0..HeapWords : Read(c.to, k) =
           IF k = o THEN MovedMarker ELSE IF k = o + 1 THEN hp ELSE Read(to, k)
  <2> HIDE DEF o, size
  <2>1. c = Moved(w, o, size)
    BY DEF o, size
  <2>2. /\ w \in Nat /\ o \in Nat /\ size \in Nat /\ size >= 2 /\ hp \in Nat
        /\ from \in Space /\ to \in Space
        /\ o + size <= HeapWords /\ hp + size <= HeapWords
    BY <1>1, <1>2, <1>3
  <2> QED BY <2>1, <2>2, MovedWords
<1> HIDE DEF o, size, nw
<1>5. /\ nw \in Nat /\ Tag(nw) = Tag(w) /\ Offset(nw) = hp
      /\ IsRef(nw) /\ (IsBoxed(nw) <=> IsBoxed(w)) /\ (IsCons(nw) <=> IsCons(w))
  <2>1. Tag(w) \in {TagBoxed, TagCons}
    BY <1>2, Words
  <2>2. nw \in Nat /\ Tag(nw) = Tag(w) /\ Offset(nw) = hp
    BY <1>2, <2>1, References DEF nw
  <2> QED BY <2>2 DEF IsRef, IsBoxed, IsCons
<1>6. /\ \A k \in 0..(hp - 1) : Read(c.from, k) = Read(from, k)
      /\ \A k \in hp..(c.hp - 1) : Read(c.from, k) \in W
      /\ \A k \in c.hp..HeapWords : Read(c.from, k) = 0
  <2>1. \A k \in 0..(hp - 1) : k \in 0..HeapWords /\ k \notin hp..(hp + size - 1)
    BY <1>2, <1>3
  <2>2. ASSUME NEW k \in hp..(hp + size - 1) PROVE Read(c.from, k) \in W
    <3>1. k \in 0..HeapWords /\ o + (k - hp) \in o..(o + size - 1)
      BY <1>1, <1>2, <1>3
    <3>2. o + (k - hp) \in Cells \ cells
      BY <1>1, <1>3, <3>1
    <3> QED BY <1>4, <3>1, <3>2 DEF Midway, Originals
  <2>3. \A k \in (hp + size)..HeapWords :
          k \in 0..HeapWords /\ k \notin hp..(hp + size - 1) /\ k \in hp..HeapWords
    BY <1>2, <1>3
  <2>4. \A k \in 0..(hp - 1) : Read(c.from, k) = Read(from, k)
    BY <1>4, <2>1
  <2>5. \A k \in (hp + size)..HeapWords : Read(c.from, k) = 0
    BY <1>4, <2>3 DEF Midway
  <2>6. c.hp = hp + size
    BY <1>4
  <2>7. \A k \in hp..(c.hp - 1) : Read(c.from, k) \in W
    <3>1. hp..(c.hp - 1) = hp..(hp + size - 1)
      BY <1>2, <1>3, <2>6
    <3> QED BY <2>2, <3>1, Zenon
  <2>8. \A k \in c.hp..HeapWords : Read(c.from, k) = 0
    BY <2>5, <2>6
  <2> QED BY <2>4, <2>7, <2>8
<1>7. \A k \in 0..HeapWords : k \notin {o, o + 1} => Read(c.to, k) = Read(to, k)
  BY <1>4
<1>8. ASSUME NEW v \in moved
      PROVE  /\ IsRef(v) /\ {Offset(v), Offset(v) + 1} \subseteq cells
             /\ Read(c.to, Offset(v)) = MovedMarker
             /\ Forward(c.to, v) = Forward(to, v)
  <2>1. /\ IsRef(v) /\ {Offset(v), Offset(v) + 1} \subseteq cells
        /\ Read(to, Offset(v)) = MovedMarker
    BY DEF Midway, Copies
  <2>2. \A k \in cells : k \in 0..HeapWords /\ k \notin {o, o + 1}
    BY <1>1, <1>2, <1>3
  <2> QED BY <1>7, <2>1, <2>2 DEF Forward
<1>9. /\ Read(c.to, o) = MovedMarker
      /\ Forward(c.to, w) = nw
  <2>1. o \in 0..HeapWords /\ o + 1 \in 0..HeapWords /\ o + 1 # o
    BY <1>2, <1>3
  <2>2. Read(c.to, o) = MovedMarker /\ Read(c.to, o + 1) = hp
    BY <1>4, <2>1
  <2> QED BY <2>2 DEF Forward, nw, o
<1>10. Whole(plain, c.from, c.hp, nw) /\ Extent(c.from, nw) = hp..(hp + size - 1)
  <2>1. Read(c.from, hp) = Read(to, o)
    <3>1. hp \in 0..HeapWords /\ hp \in hp..(hp + size - 1) /\ o + (hp - hp) = o
      BY <1>2, <1>3
    <3> QED BY <1>4, <3>1
  <2>2. ObjectSize(c.from, nw) = size
    BY <1>5, <2>1 DEF ObjectSize, size, o
  <2>3. Extent(c.from, nw) = hp..(hp + size - 1)
    BY <1>5, <2>2 DEF Extent
  <2>4. Names(c.from, c.hp, nw)
    <3>1. Offset(nw) + ObjectSize(c.from, nw) <= c.hp
      BY <1>2, <1>3, <1>4, <1>5, <2>2
    <3>2. IsBoxed(w) => IsTupleHdr(Read(to, o))
      BY <1>1 DEF Whole, Names, o
    <3> QED BY <1>5, <2>1, <3>1, <3>2 DEF Names
  <2>5. ASSUME plain, IsBoxed(nw), NEW k \in Extent(c.from, nw)
        PROVE  ~IsRef(Read(c.from, k))
    <3>1. /\ k \in 0..HeapWords /\ k \in hp..(hp + size - 1)
          /\ o + (k - hp) \in o..(o + size - 1)
      BY <1>1, <1>2, <1>3, <2>3, <2>5
    <3>2. \A i \in Extent(to, w) : ~IsRef(Read(to, i))
      BY <1>1, <1>5, <2>5 DEF Whole
    <3> QED BY <1>3, <1>4, <3>1, <3>2
  <2> QED BY <1>3, <2>2, <2>3, <2>4, <2>5 DEF Whole
<1>11. ASSUME NEW v \in moved
       PROVE  /\ Whole(plain, c.from, c.hp, Forward(to, v))
              /\ Extent(c.from, Forward(to, v)) = Extent(from, Forward(to, v))
              /\ Extent(from, Forward(to, v)) \subseteq 0..(hp - 1)
  <2> DEFINE x == Forward(to, v)
  <2>1. x \in Nat /\ IsRef(x)
    BY <1>2, ForwardIsRef DEF Midway, Copies
  <2>2. Whole(plain, from, hp, x)
    BY <2>1 DEF Midway, Copies, Sound
  <2>3. Extent(from, x) \subseteq 0..(hp - 1)
    BY <1>2, <2>1, <2>2, WholeExtent
  <2>4. c.hp \in 0..HeapWords /\ hp <= c.hp
    BY <1>1, <1>2, <1>3, <1>4
  <2> QED BY <1>2, <1>4, <1>6, <2>1, <2>2, <2>3, <2>4, SameObject
<1>12. Copies(plain, c.from, c.hp, c.to, moved2, cells2)
  <2>1. \A v \in moved2 : /\ IsRef(v)
                          /\ {Offset(v), Offset(v) + 1} \subseteq cells2
                          /\ Read(c.to, Offset(v)) = MovedMarker
    BY <1>3, <1>8, <1>9 DEF o
  <2>2. {Forward(c.to, v) : v \in moved2} = {Forward(to, v) : v \in moved} \cup {nw}
    BY <1>8, <1>9
  <2>3. Sound(plain, c.from, c.hp, {Forward(to, v) : v \in moved} \cup {nw})
    <3>1. \A v \in moved : Extent(c.from, Forward(to, v)) \cap Extent(c.from, nw) = {}
      <4>1. (0..(hp - 1)) \cap (hp..(hp + size - 1)) = {}
        BY <1>2, <1>3
      <4> QED BY <1>10, <1>11, <4>1
    <3>2. \A u, v \in moved : Forward(to, u) # Forward(to, v) /\ IsRef(Forward(to, u))
            /\ IsRef(Forward(to, v)) =>
            Extent(c.from, Forward(to, u)) \cap Extent(c.from, Forward(to, v)) = {}
      BY <1>11 DEF Midway, Copies, Sound
    <3>3. ASSUME NEW x \in {Forward(to, v) : v \in moved} \cup {nw},
                 NEW y \in {Forward(to, v) : v \in moved} \cup {nw},
                 IsRef(x), IsRef(y), x # y
          PROVE  Extent(c.from, x) \cap Extent(c.from, y) = {}
      <4>1. CASE x = nw
        BY <3>1, <3>3, <4>1
      <4>2. CASE y = nw
        BY <3>1, <3>3, <4>2
      <4>3. CASE x # nw /\ y # nw
        BY <3>2, <3>3, <4>3
      <4> QED BY <4>1, <4>2, <4>3
    <3>4. \A x \in {Forward(to, v) : v \in moved} \cup {nw} : Whole(plain, c.from, c.hp, x)
      BY <1>10, <1>11
    <3> QED BY <3>3, <3>4 DEF Sound
  <2> QED BY <1>1, <1>4, <2>1, <2>2, <2>3 DEF Copies
<1>13. Originals(plain, c.to, moved2, cells2, W)
  <2>1. ASSUME NEW v \in W \ moved2, IsRef(v)
        PROVE  /\ Whole(plain, c.to, HeapWords, v)
               /\ Extent(c.to, v) = Extent(to, v)
               /\ Extent(to, v) \cap cells2 = {}
    <3>1. Whole(plain, to, HeapWords, v) /\ Extent(to, v) \cap cells = {}
      BY <2>1 DEF Midway, Originals, Sound
    <3>2. Extent(to, v) \cap Extent(to, w) = {}
      BY <2>1 DEF Midway, Originals, Sound
    <3>3. v \in Nat /\ HeapWords \in 0..HeapWords /\ HeapWords <= HeapWords
      BY <1>2
    <3>4. Extent(to, v) \subseteq Cells
      BY <1>2, <2>1, <3>1, <3>3, WholeExtent
    <3>5. \A k \in Extent(to, v) : Read(c.to, k) = Read(to, k)
      BY <1>2, <1>3, <1>7, <3>2, <3>4
    <3> QED BY <1>2, <1>4, <2>1, <3>1, <3>2, <3>3, <3>5, SameObject
  <2>2. ASSUME NEW k \in Cells \ cells2 PROVE Read(c.to, k) \in W
    BY <1>2, <1>3, <1>7 DEF Midway, Originals
  <2>3. \A u, v \in W \ moved2 : IsRef(u) /\ IsRef(v) /\ u # v =>
          Extent(to, u) \cap Extent(to, v) = {}
    BY DEF Midway, Originals, Sound
  <2> QED BY <2>1, <2>2, <2>3 DEF Originals, Sound
<1>14. Read(c.to, HeapWords) = 0
  <2>1. HeapWords \in 0..HeapWords /\ HeapWords \notin {o, o + 1}
    BY <1>2, <1>3
  <2> QED BY <1>7, <2>1 DEF Midway
<1>15. c.hp \in 0..HeapWords /\ hp <= c.hp
  BY <1>1, <1>2, <1>3, <1>4
<1>16. moved2 \in SUBSET Nat
  BY <1>2
<1> QED BY <1>1, <1>2, <1>4, <1>6, <1>8, <1>9, <1>12, <1>13, <1>14, <1>15, <1>16
        DEF Midway

\* What mb_gc_copy_term comes to for any word that is still to be looked at.
LEMMA CopyWord ==
  ASSUME NEW plain \in BOOLEAN, NEW moved, NEW cells, NEW W,
         Midway(plain, from, hp, to, moved, cells, W),
         NEW w \in W, NEW c, c = CopyTerm(w)
  PROVE  \E moved2 \in SUBSET Nat, cells2 \in SUBSET Cells :
           /\ Midway(plain, c.from, c.hp, c.to, moved2, cells2, W)
           /\ moved \subseteq moved2
           /\ \A v \in moved : Forward(c.to, v) = Forward(to, v)
           /\ IsRef(w) => IsRef(c.term) /\ \E v \in moved2 : c.term = Forward(c.to, v)
           /\ ~IsRef(w) => c.term = w
           /\ c.term \in Nat /\ hp <= c.hp
           /\ \A k \in 0..(hp - 1) : Read(c.from, k) = Read(from, k)
           /\ \A k \in hp..(c.hp - 1) : Read(c.from, k) \in W
<1>1. /\ moved \in SUBSET Nat /\ cells \in SUBSET Cells /\ w \in Nat /\ to \in Space
      /\ hp \in Nat
  BY HeapConstants DEF Midway
<1>2. hp..(hp - 1) = {} /\ hp <= hp
  BY <1>1
<1>3. CASE ~IsRef(w)
  <2>1. c.term = w /\ c.from = from /\ c.to = to /\ c.hp = hp
    BY <1>3, CopyTermCases DEF Unmoved
  <2> QED BY <1>1, <1>2, <1>3, <2>1
<1>4. CASE IsRef(w) /\ w \in moved
  <2>1. c.term = Forward(to, w) /\ c.from = from /\ c.to = to /\ c.hp = hp
    BY <1>4, CopyTermCases DEF Unmoved
  <2>2. IsRef(c.term) /\ c.term \in Nat
    BY <1>1, <1>4, <2>1, ForwardIsRef
  <2> QED BY <1>1, <1>2, <1>4, <2>1, <2>2
<1>5. CASE IsRef(w) /\ w \notin moved
  <2> DEFINE moved2 == moved \cup {w}
             cells2 == cells \cup Extent(to, w)
  <2>1. c = Moved(w, Offset(w), ObjectSize(to, w))
    BY <1>5, CopyTermCases
  <2>2. /\ Midway(plain, c.from, c.hp, c.to, moved2, cells2, W)
        /\ c.term = Forward(c.to, w)
        /\ \A v \in moved : Forward(c.to, v) = Forward(to, v)
        /\ hp <= c.hp
        /\ \A k \in 0..(hp - 1) : Read(c.from, k) = Read(from, k)
        /\ \A k \in hp..(c.hp - 1) : Read(c.from, k) \in W
    BY <1>5, <2>1, CopyObject
  <2>3. moved2 \in SUBSET Nat /\ cells2 \in SUBSET Cells /\ c.to \in Space
    BY <2>2 DEF Midway
  <2>4. IsRef(c.term) /\ c.term \in Nat
    BY <1>1, <1>5, <2>2, <2>3, ForwardIsRef
  <2>5. moved \subseteq moved2 /\ w \in moved2
    OBVIOUS
  <2> HIDE DEF moved2, cells2
  <2> QED BY <1>5, <2>2, <2>3, <2>4, <2>5
<1> QED BY <1>3, <1>4, <1>5

\* Overwriting a reference with another leaves every object an object; so
\* does writing a word that is there already.
LEMMA RewrittenObject ==
  ASSUME NEW plain \in BOOLEAN, NEW f \in Space, NEW h \in 0..HeapWords,
         NEW s \in 0..(h - 1), NEW x \in Nat,
         \/ IsRef(Read(f, s))
         \/ x = Read(f, s),
         NEW w \in Nat, IsRef(w), Whole(plain, f, h, w),
         NEW g, g = Written(f, s, <<x>>)
  PROVE  Whole(plain, g, h, w) /\ Extent(g, w) = Extent(f, w)
<1>1. h \in Nat /\ HeapWords \in Nat /\ s \in Nat /\ s <= HeapWords
  BY HeapConstants
<1>2. /\ g \in Space
      /\ \A k \in 0..HeapWords : Read(g, k) = IF k = s THEN x ELSE Read(f, k)
  BY <1>1, WrittenOne
<1>3. CASE x = Read(f, s)
  <2>1. \A k \in Extent(f, w) : Read(g, k) = Read(f, k)
    <3>1. Extent(f, w) \subseteq 0..HeapWords
      BY <1>1, WholeExtent
    <3> QED BY <1>2, <1>3, <3>1
  <2> QED BY <1>1, <1>2, <2>1, SameObject
<1>4. CASE IsRef(Read(f, s))
  <2>1. Read(f, s) \in Nat /\ ~IsTupleHdr(Read(f, s))
    BY <1>4, Words, ReadWord
  <2>2. /\ Offset(w) \in 0..HeapWords /\ Extent(f, w) \subseteq 0..HeapWords
    BY <1>1, WholeExtent
  <2>3. IsBoxed(w) => Offset(w) # s
    BY <2>1 DEF Whole, Names
  <2>4. IsBoxed(w) => Read(g, Offset(w)) = Read(f, Offset(w))
    BY <1>2, <2>2, <2>3
  <2>5. ObjectSize(g, w) = ObjectSize(f, w)
    BY <2>4 DEF ObjectSize, IsRef
  <2>6. Extent(g, w) = Extent(f, w)
    BY <2>5 DEF Extent
  <2>7. ASSUME plain, IsBoxed(w), NEW k \in Extent(g, w) PROVE ~IsRef(Read(g, k))
    <3>1. k # s /\ ~IsRef(Read(f, k))
      BY <1>4, <2>6, <2>7 DEF Whole
    <3> QED BY <1>2, <2>2, <2>6, <3>1
  <2> QED BY <2>4, <2>5, <2>6, <2>7 DEF Whole, Names
<1> QED BY <1>3, <1>4

-----------------------------------------------------------------------------
(* The steps of a collection.                                              *)

LEMMA MidwayTypes ==
  ASSUME NEW plain, NEW f, NEW h, NEW t, NEW moved, NEW cells, NEW W,
         Midway(plain, f, h, t, moved, cells, W)
  PROVE  /\ f \in Space /\ f[HeapWords] = 0 /\ h \in 0..HeapWords
         /\ t \in Space /\ t[HeapWords] = 0
         /\ moved \in SUBSET Nat /\ cells \in SUBSET Cells /\ W \in SUBSET Nat
         /\ \A k \in h..HeapWords : Read(f, k) = 0
<1>1. HeapWords \in 0..HeapWords /\ HeapWords \in h..HeapWords
  BY HeapConstants DEF Midway
<1> QED BY <1>1, ReadWord DEF Midway

LEMMA CopyRootStep ==
  ASSUME NEW plain \in BOOLEAN, NEW imm \in SUBSET Regs, HeapInv(plain, imm), CopyRoot
  PROVE  HeapInv(plain, imm)'
<1> DEFINE w == regs[scan]
           c == CopyTerm(w)
<1>1. /\ phase = "roots" /\ scan \in Regs /\ scan \in Nat
      /\ regs' = [regs EXCEPT ![scan] = c.term]
      /\ from' = c.from /\ to' = c.to /\ hp' = c.hp /\ scan' = scan + 1
      /\ UNCHANGED <<phase, pending, rc>>
  BY HeapConstants DEF CopyRoot, Roots, HeapInv, TypeOK
<1>2. /\ TypeOK /\ Collecting(plain) /\ Interrupted(plain)
      /\ \A r \in imm : ~IsRef(regs[r])
  BY <1>1 DEF HeapInv
<1>3. PICK moved \in SUBSET Nat, cells \in SUBSET Cells, W \in SUBSET Nat :
        /\ Midway(plain, from, hp, to, moved, cells, W)
        /\ OldWords \subseteq W
        /\ \A x \in NewWords : IsRef(x) => \E v \in moved : x = Forward(to, v)
  BY <1>2 DEF Collecting
<1>4. w \in W
  BY <1>1, <1>3 DEF OldWords, RegIsNew
<1> HIDE DEF w, c
<1>5. c = CopyTerm(w)
  BY DEF c
<1>6. PICK moved2 \in SUBSET Nat, cells2 \in SUBSET Cells :
        /\ Midway(plain, c.from, c.hp, c.to, moved2, cells2, W)
        /\ moved \subseteq moved2
        /\ \A v \in moved : Forward(c.to, v) = Forward(to, v)
        /\ IsRef(w) => IsRef(c.term) /\ \E v \in moved2 : c.term = Forward(c.to, v)
        /\ ~IsRef(w) => c.term = w
        /\ c.term \in Nat /\ hp <= c.hp
        /\ \A k \in 0..(hp - 1) : Read(c.from, k) = Read(from, k)
        /\ \A k \in hp..(c.hp - 1) : Read(c.from, k) \in W
  BY <1>3, <1>4, <1>5, CopyWord
<1>7. Midway(plain, from, hp, to, moved2, cells2, W)'
  BY <1>1, <1>6 DEF Midway, Copies, Originals, Sound, Whole, Names, Extent, ObjectSize,
     Forward, Read
<1>8. TypeOK'
  <2>1. /\ from' \in Space /\ from'[HeapWords] = 0 /\ hp' \in 0..HeapWords
        /\ to' \in Space /\ to'[HeapWords] = 0
    BY <1>1, <1>6, MidwayTypes
  <2>2. regs' \in [Regs -> Nat]
    BY <1>1, <1>2, <1>6 DEF TypeOK
  <2>3. scan' \in 0..RegCount
    BY <1>1, HeapConstants
  <2> QED BY <1>1, <1>2, <2>1, <2>2, <2>3 DEF TypeOK, Space
<1>9. OldWords' \subseteq W
  <2>1. ASSUME NEW r \in Regs, ~(r < scan + 1) PROVE regs'[r] \in W
    <3>1. ~(r < scan) /\ r # scan
      BY <1>1, <2>1, HeapConstants
    <3> QED BY <1>1, <1>2, <1>3, <3>1 DEF OldWords, RegIsNew, TypeOK
  <2>2. ASSUME NEW k \in 0..(c.hp - 1) PROVE Read(c.from, k) \in W
    <3>1. CASE k \in 0..(hp - 1)
      BY <1>1, <1>3, <1>6, <3>1 DEF OldWords, WordIsNew
    <3>2. k \in 0..(hp - 1) \/ k \in hp..(c.hp - 1)
      BY <1>2, <1>6, HeapConstants, MidwayTypes DEF TypeOK
    <3> QED BY <1>6, <3>1, <3>2
  <2> QED BY <1>1, <2>1, <2>2 DEF OldWords, RegIsNew, WordIsNew
<1>10. \A x \in NewWords' : IsRef(x) => \E v \in moved2 : x = Forward(to', v)
  <2> SUFFICES ASSUME NEW x \in NewWords', IsRef(x)
               PROVE  \E v \in moved2 : x = Forward(c.to, v)
    BY <1>1
  <2>1. PICK r \in Regs : r < scan + 1 /\ x = regs'[r]
    BY <1>1 DEF NewWords, RegIsNew, WordIsNew
  <2>2. CASE r = scan
    BY <1>1, <1>2, <1>6, <2>1, <2>2 DEF TypeOK
  <2>3. CASE r # scan
    <3>1. r < scan /\ x = regs[r]
      BY <1>1, <1>2, <2>1, <2>3, HeapConstants DEF TypeOK
    <3>2. x \in NewWords
      BY <1>1, <3>1 DEF NewWords, RegIsNew
    <3> QED BY <1>3, <1>6, <3>2
  <2> QED BY <2>2, <2>3
<1>11. Collecting(plain)'
  BY <1>7, <1>9, <1>10 DEF Collecting
<1>12. Interrupted(plain)'
  BY <1>1, <1>2 DEF Interrupted
<1>13. \A r \in imm : ~IsRef(regs'[r])
  <2> SUFFICES ASSUME NEW r \in imm PROVE ~IsRef(regs'[r])
    OBVIOUS
  <2>1. CASE r = scan
    BY <1>1, <1>2, <1>6, <2>1 DEF TypeOK, w
  <2>2. CASE r # scan
    BY <1>1, <1>2, <2>2 DEF TypeOK
  <2> QED BY <2>1, <2>2
<1>14. \A k \in hp'..HeapWords : Read(from, k)' = 0
  BY <1>7 DEF Midway
<1> QED BY <1>1, <1>8, <1>11, <1>12, <1>13, <1>14 DEF HeapInv

LEMMA RootsCopiedStep ==
  ASSUME NEW plain \in BOOLEAN, NEW imm \in SUBSET Regs, HeapInv(plain, imm), RootsCopied
  PROVE  HeapInv(plain, imm)'
<1>1. /\ phase = "roots" /\ scan = RegCount /\ phase' = "scan" /\ scan' = 0
      /\ UNCHANGED <<from, to, hp, regs, pending, rc>>
  BY DEF RootsCopied, Roots
<1>2. /\ TypeOK /\ Collecting(plain) /\ Interrupted(plain)
      /\ \A r \in imm : ~IsRef(regs[r])
  BY <1>1 DEF HeapInv
<1>3. PICK moved \in SUBSET Nat, cells \in SUBSET Cells, W \in SUBSET Nat :
        /\ Midway(plain, from, hp, to, moved, cells, W)
        /\ OldWords \subseteq W
        /\ \A x \in NewWords : IsRef(x) => \E v \in moved : x = Forward(to, v)
  BY <1>2 DEF Collecting
<1>4. Midway(plain, from, hp, to, moved, cells, W)'
  BY <1>1, <1>3 DEF Midway, Copies, Originals, Sound, Whole, Names, Extent, ObjectSize,
     Forward, Read
<1>5. OldWords' \subseteq OldWords
  BY <1>1 DEF OldWords, RegIsNew, WordIsNew, Read
<1>6. NewWords' \subseteq NewWords
  <2>1. \A r \in Regs : r < scan
    BY <1>1, HeapConstants
  <2>2. \A k \in 0..(hp - 1) : ~(k < 0)
    BY HeapConstants
  <2> QED BY <1>1, <2>1, <2>2 DEF NewWords, RegIsNew, WordIsNew, Read
<1>7. Collecting(plain)'
  <2>1. \A v : Forward(to', v) = Forward(to, v)
    BY <1>1 DEF Forward, Read
  <2> QED BY <1>1, <1>3, <1>4, <1>5, <1>6 DEF Collecting
<1>8. TypeOK'
  BY <1>1, <1>2, HeapConstants DEF TypeOK
<1>9. 0 <= hp
  BY <1>2, HeapConstants DEF TypeOK
<1> QED BY <1>1, <1>2, <1>7, <1>8, <1>9 DEF HeapInv, Interrupted, Read

\* The word that is scanned takes the place of the old one in the copy.
LEMMA RewrittenCopies ==
  ASSUME NEW plain \in BOOLEAN, NEW f, NEW h, NEW t, NEW moved, NEW cells, NEW W,
         Midway(plain, f, h, t, moved, cells, W),
         NEW s \in 0..(h - 1), NEW x \in Nat, IsRef(Read(f, s)) \/ x = Read(f, s),
         NEW g, g = Written(f, s, <<x>>)
  PROVE  /\ Midway(plain, g, h, t, moved, cells, W)
         /\ \A k \in 0..HeapWords : Read(g, k) = IF k = s THEN x ELSE Read(f, k)
<1>1. /\ f \in Space /\ t \in Space /\ h \in 0..HeapWords /\ HeapWords \in Nat
      /\ moved \in SUBSET Nat /\ s \in 0..HeapWords
  BY HeapConstants DEF Midway
<1>2. /\ g \in Space
      /\ \A k \in 0..HeapWords : Read(g, k) = IF k = s THEN x ELSE Read(f, k)
  BY <1>1, WrittenOne
<1>3. \A k \in h..HeapWords : Read(g, k) = 0
  BY <1>1, <1>2 DEF Midway
<1>4. ASSUME NEW v \in moved
      PROVE  /\ Whole(plain, g, h, Forward(t, v))
             /\ Extent(g, Forward(t, v)) = Extent(f, Forward(t, v))
  <2>1. Forward(t, v) \in Nat /\ IsRef(Forward(t, v))
    BY <1>1, ForwardIsRef DEF Midway, Copies
  <2>2. Whole(plain, f, h, Forward(t, v))
    BY <2>1 DEF Midway, Copies, Sound
  <2> QED BY <1>1, <2>1, <2>2, RewrittenObject
<1>5. Sound(plain, g, h, {Forward(t, v) : v \in moved})
  BY <1>4 DEF Midway, Copies, Sound
<1> QED BY <1>1, <1>2, <1>3, <1>5 DEF Midway, Copies

LEMMA ScanWordStep ==
  ASSUME NEW plain \in BOOLEAN, NEW imm \in SUBSET Regs, HeapInv(plain, imm), ScanWord
  PROVE  HeapInv(plain, imm)'
<1> DEFINE w == Read(from, scan)
           c == CopyTerm(w)
           g == Written(c.from, scan, <<c.term>>)
<1>1. /\ phase = "scan" /\ scan < hp /\ scan' = scan + 1
      /\ from' = g /\ to' = c.to /\ hp' = c.hp
      /\ UNCHANGED <<regs, phase, pending, rc>>
  BY DEF ScanWord
<1>2. /\ TypeOK /\ Collecting(plain) /\ Interrupted(plain)
      /\ \A r \in imm : ~IsRef(regs[r])
  BY <1>1 DEF HeapInv
<1>3. PICK moved \in SUBSET Nat, cells \in SUBSET Cells, W \in SUBSET Nat :
        /\ Midway(plain, from, hp, to, moved, cells, W)
        /\ OldWords \subseteq W
        /\ \A x \in NewWords : IsRef(x) => \E v \in moved : x = Forward(to, v)
  BY <1>2 DEF Collecting
<1>4. /\ scan \in 0..(hp - 1) /\ scan \in Nat /\ hp \in 0..HeapWords /\ HeapWords \in Nat
  BY <1>1, <1>2, HeapConstants DEF TypeOK
<1>5. w \in W
  BY <1>1, <1>3, <1>4 DEF OldWords, WordIsNew
<1> HIDE DEF w, c, g
<1>6. c = CopyTerm(w)
  BY DEF c
<1>7. PICK moved2 \in SUBSET Nat, cells2 \in SUBSET Cells :
        /\ Midway(plain, c.from, c.hp, c.to, moved2, cells2, W)
        /\ moved \subseteq moved2
        /\ \A v \in moved : Forward(c.to, v) = Forward(to, v)
        /\ IsRef(w) => IsRef(c.term) /\ \E v \in moved2 : c.term = Forward(c.to, v)
        /\ ~IsRef(w) => c.term = w
        /\ c.term \in Nat /\ hp <= c.hp
        /\ \A k \in 0..(hp - 1) : Read(c.from, k) = Read(from, k)
        /\ \A k \in hp..(c.hp - 1) : Read(c.from, k) \in W
  BY <1>3, <1>5, <1>6, CopyWord
<1>8. c.hp \in 0..HeapWords /\ scan \in 0..(c.hp - 1) /\ Read(c.from, scan) = w
  BY <1>4, <1>7, MidwayTypes DEF w
<1>9. /\ Midway(plain, g, c.hp, c.to, moved2, cells2, W)
      /\ \A k \in 0..HeapWords : Read(g, k) = IF k = scan THEN c.term ELSE Read(c.from, k)
  BY <1>7, <1>8, RewrittenCopies DEF g
<1>10. Midway(plain, from, hp, to, moved2, cells2, W)'
  BY <1>1, <1>9 DEF Midway, Copies, Originals, Sound, Whole, Names, Extent, ObjectSize,
     Forward, Read
<1>11. TypeOK'
  <2>1. /\ from' \in Space /\ from'[HeapWords] = 0 /\ hp' \in 0..HeapWords
        /\ to' \in Space /\ to'[HeapWords] = 0
    BY <1>1, <1>9, MidwayTypes
  <2>2. scan' \in 0..HeapWords
    BY <1>1, <1>4
  <2> QED BY <1>1, <1>2, <2>1, <2>2 DEF TypeOK, Space
<1>12. OldWords' \subseteq W
  <2>1. ASSUME NEW k \in 0..(c.hp - 1), ~(k < scan + 1) PROVE Read(g, k) \in W
    <3>1. k \in 0..HeapWords /\ k # scan /\ ~(k < scan)
      BY <1>4, <1>8, <2>1
    <3>2. Read(g, k) = Read(c.from, k)
      BY <1>9, <3>1
    <3>3. CASE k \in 0..(hp - 1)
      BY <1>1, <1>3, <1>7, <3>1, <3>2, <3>3 DEF OldWords, WordIsNew
    <3>4. k \in 0..(hp - 1) \/ k \in hp..(c.hp - 1)
      BY <1>4, <1>8
    <3> QED BY <1>7, <3>2, <3>3, <3>4
  <2> QED BY <1>1, <2>1 DEF OldWords, RegIsNew, WordIsNew
<1>13. \A x \in NewWords' : IsRef(x) => \E v \in moved2 : x = Forward(to', v)
  <2> SUFFICES ASSUME NEW x \in NewWords', IsRef(x)
               PROVE  \E v \in moved2 : x = Forward(c.to, v)
    BY <1>1
  <2>1. CASE \E r \in Regs : x = regs[r]
    BY <1>1, <1>3, <1>7, <2>1 DEF NewWords, RegIsNew
  <2>2. ASSUME NEW k \in 0..(c.hp - 1), k < scan + 1, x = Read(g, k)
        PROVE  \E v \in moved2 : x = Forward(c.to, v)
    <3>1. CASE k = scan
      <4>1. x = c.term
        BY <1>4, <1>8, <1>9, <2>2, <3>1
      <4> QED BY <1>7, <4>1
    <3>2. CASE k # scan
      <4>1. k \in 0..HeapWords /\ k < scan /\ k \in 0..(hp - 1)
        BY <1>4, <1>8, <2>2, <3>2
      <4>2. x = Read(from, k)
        BY <1>7, <1>9, <2>2, <3>2, <4>1
      <4>3. x \in NewWords
        BY <1>1, <4>1, <4>2 DEF NewWords, WordIsNew
      <4> QED BY <1>3, <1>7, <4>3
    <3> QED BY <3>1, <3>2
  <2> QED BY <1>1, <2>1, <2>2 DEF NewWords, RegIsNew, WordIsNew
<1>14. Collecting(plain)'
  BY <1>10, <1>12, <1>13 DEF Collecting
<1>15. Interrupted(plain)'
  BY <1>1, <1>2 DEF Interrupted
<1>16. \A k \in hp'..HeapWords : Read(from, k)' = 0
  BY <1>10 DEF Midway
<1>17. scan' <= hp'
  BY <1>1, <1>4, <1>7, <1>8
<1> QED BY <1>1, <1>2, <1>11, <1>14, <1>15, <1>16, <1>17 DEF HeapInv

-----------------------------------------------------------------------------
(* Allocation.                                                             *)

\* No tuple is made without elements: its one word has no room for the two of
\* a forwarding pointer.
TuplesHaveElements ==
  \A ins \in Instructions : ins.op = "MAKE_TUPLE" => ins.args # <<>>

\* The words of a new object.
LEMMA ObjectWords ==
  ASSUME TuplesHaveElements,
         NEW ins \in Instructions, ins.op \in {"MAKE_TUPLE", "CONS"},
         NEW words \in Seq(Nat), Len(words) = Len(ins.args),
         NEW obj, obj = Object(ins, words)
  PROVE  /\ obj \in Seq(Nat) /\ Len(obj) \in Nat /\ Len(obj) >= 2
         /\ \A i \in 1..Len(obj) : ~IsRef(obj[i]) \/ \E k \in DOMAIN words : obj[i] = words[k]
         /\ ins.op = "MAKE_TUPLE" =>
              IsTupleHdr(obj[1]) /\ Len(obj) = 1 + TupleArity(obj[1])
         /\ ins.op = "CONS" => Len(obj) = 2
<1>1. /\ Len(words) \in Nat /\ DOMAIN words = 1..Len(words)
      /\ \A k \in 1..Len(words) : words[k] \in Nat
  BY LenProperties
<1>2. CASE ins.op = "CONS"
  <2>1. obj = words /\ Len(words) = 2
    BY <1>2, InstructionAssumption DEF Object
  <2>2. \A i \in 1..Len(obj) : \E k \in DOMAIN words : obj[i] = words[k]
    BY <1>1, <2>1
  <2>3. ins.op # "MAKE_TUPLE"
    BY <1>2
  <2>4. obj \in Seq(Nat) /\ Len(obj) = 2
    BY <2>1
  <2> QED BY <2>2, <2>3, <2>4
<1>3. CASE ins.op = "MAKE_TUPLE"
  <2> DEFINE hdr == TupleHdr(Len(words))
  <2>1. hdr \in Nat /\ IsTupleHdr(hdr) /\ TupleArity(hdr) = Len(words) /\ ~IsRef(hdr)
    BY <1>1, TupleHeaders, Words
  <2> HIDE DEF hdr
  <2>2. <<hdr>> \in Seq(Nat) /\ Len(<<hdr>>) = 1 /\ <<hdr>>[1] = hdr
    BY <2>1
  <2>3. obj = <<hdr>> \o words
    BY <1>3 DEF Object, hdr
  <2>4. /\ obj \in Seq(Nat) /\ Len(obj) = 1 + Len(words)
        /\ \A i \in 1..(1 + Len(words)) :
             obj[i] = IF i <= 1 THEN <<hdr>>[i] ELSE words[i - 1]
    BY <1>1, <2>2, <2>3, ConcatProperties
  <2>5. obj[1] = hdr
    BY <1>1, <2>2, <2>4
  <2>6. Len(words) # 0
    <3>1. ins.args \in Seq(Regs) /\ ins.args # <<>>
      BY <1>3, InstructionAssumption DEF TuplesHaveElements
    <3> QED BY <3>1, EmptySeq
  <2>7. ASSUME NEW i \in 1..Len(obj)
        PROVE  ~IsRef(obj[i]) \/ \E k \in DOMAIN words : obj[i] = words[k]
    <3>1. CASE i = 1
      BY <2>1, <2>5, <3>1
    <3>2. CASE i # 1
      <4>1. i - 1 \in DOMAIN words /\ obj[i] = words[i - 1]
        BY <1>1, <2>4, <3>2
      <4> QED BY <4>1
    <3> QED BY <3>1, <3>2
  <2>8. Len(obj) \in Nat /\ Len(obj) >= 2
    BY <1>1, <2>4, <2>6
  <2>9. IsTupleHdr(obj[1]) /\ Len(obj) = 1 + TupleArity(obj[1])
    BY <2>1, <2>4, <2>5
  <2>10. ins.op # "CONS"
    BY <1>3
  <2>11. obj \in Seq(Nat)
    BY <2>4
  <2> QED BY <2>7, <2>8, <2>9, <2>10, <2>11
<1> QED BY <1>2, <1>3

\* What mb_heap_make_tuple and mb_heap_cons leave when there is room.
LEMMA PlaceStep ==
  ASSUME NEW plain \in BOOLEAN, NEW imm \in SUBSET Regs, TuplesHaveElements,
         NEW ins \in Instructions, ins.op \in {"MAKE_TUPLE", "CONS"}, ins.dst \notin imm,
         NEW words \in Seq(Nat), Len(words) = Len(ins.args),
         \A k \in DOMAIN words : IsRef(words[k]) => words[k] \in AllWords,
         plain /\ ins.op = "MAKE_TUPLE" => \A k \in DOMAIN words : ~IsRef(words[k]),
         from \in Space, hp \in 0..HeapWords, regs \in [Regs -> Nat],
         \A k \in hp..HeapWords : Read(from, k) = 0,
         Sound(plain, from, hp, AllWords),
         \A r \in imm : ~IsRef(regs[r]),
         Place(ins, words)
  PROVE  /\ from' \in Space /\ from'[HeapWords] = 0
         /\ hp' \in 0..HeapWords /\ regs' \in [Regs -> Nat] /\ rc' = MB_OK
         /\ \A k \in hp'..HeapWords : Read(from', k) = 0
         /\ Sound(plain, from', hp', AllWords')
         /\ \A r \in imm : ~IsRef(regs'[r])
<1> DEFINE obj == Object(ins, words)
           n == Len(obj)
           nw == ReferenceTo(ins, hp)
<1>1. /\ obj \in Seq(Nat) /\ n \in Nat /\ n >= 2
      /\ \A i \in 1..n : ~IsRef(obj[i]) \/ \E k \in DOMAIN words : obj[i] = words[k]
      /\ ins.op = "MAKE_TUPLE" => IsTupleHdr(obj[1]) /\ n = 1 + TupleArity(obj[1])
      /\ ins.op = "CONS" => n = 2
  BY ObjectWords
<1>2. /\ hp + n <= HeapWords /\ from' = Written(from, hp, obj) /\ hp' = hp + n
      /\ regs' = [regs EXCEPT ![ins.dst] = nw] /\ rc' = MB_OK
  BY DEF Place, Fits
<1>3. /\ hp \in Nat /\ HeapWords \in Nat /\ ins.dst \in Regs
      /\ HeapWords \in hp..HeapWords
  BY HeapConstants, InstructionAssumption
<1>4. /\ nw \in Nat /\ Offset(nw) = hp /\ IsRef(nw)
      /\ IsBoxed(nw) => ins.op = "MAKE_TUPLE"
      /\ ~IsCons(nw) => ins.op = "MAKE_TUPLE"
      /\ IsCons(nw) => ins.op = "CONS"
  <2> DEFINE t == IF ins.op = "MAKE_TUPLE" THEN TagBoxed ELSE TagCons
  <2>1. t \in {TagBoxed, TagCons} /\ nw = MakeRef(t, hp)
    BY DEF ReferenceTo
  <2>2. nw \in Nat /\ Offset(nw) = hp /\ Tag(nw) = t
    BY <1>3, <2>1, References
  <2> QED BY <2>1, <2>2 DEF IsRef, IsBoxed, IsCons, TagBoxed, TagCons
<1> HIDE DEF obj, n, nw
<1>5. /\ from' \in Space
      /\ \A k \in 0..HeapWords : Read(from', k) =
           IF k \in hp..(hp + n - 1) THEN obj[k - hp + 1] ELSE Read(from, k)
  <2>1. hp + n <= HeapWords + 1 /\ n = Len(obj)
    BY <1>1, <1>2, <1>3 DEF n
  <2>2. /\ Written(from, hp, obj) \in Space
        /\ \A k \in 0..HeapWords : Read(Written(from, hp, obj), k) =
             IF k \in hp..(hp + Len(obj) - 1) THEN obj[k - hp + 1] ELSE Read(from, k)
    BY <1>1, <1>3, <2>1, WrittenWords
  <2> QED BY <1>2, <2>1, <2>2
<1>6. \A k \in hp'..HeapWords : Read(from', k) = 0
  <2>1. \A k \in (hp + n)..HeapWords :
          k \in 0..HeapWords /\ k \notin hp..(hp + n - 1) /\ k \in hp..HeapWords
    BY <1>1, <1>3
  <2> QED BY <1>2, <1>5, <2>1
<1>7. hp' \in 0..HeapWords /\ hp <= hp' /\ HeapWords \in hp'..HeapWords
  BY <1>1, <1>2, <1>3
<1>8. \A k \in 0..(hp - 1) : Read(from', k) = Read(from, k)
  <2>1. \A k \in 0..(hp - 1) : k \in 0..HeapWords /\ k \notin hp..(hp + n - 1)
    BY <1>3
  <2> QED BY <1>5, <2>1
<1>9. ASSUME NEW w \in AllWords, IsRef(w)
      PROVE  /\ Whole(plain, from', hp', w)
             /\ Extent(from', w) = Extent(from, w)
             /\ Extent(from, w) \subseteq 0..(hp - 1)
  <2>1. Whole(plain, from, hp, w)
    BY <1>9 DEF Sound
  <2>2. w \in Nat
    BY ReadWord DEF AllWords
  <2>3. Extent(from, w) \subseteq 0..(hp - 1)
    BY <1>9, <2>1, <2>2, WholeExtent
  <2> QED BY <1>5, <1>7, <1>8, <1>9, <2>1, <2>2, <2>3, SameObject
<1>10. Whole(plain, from', hp', nw) /\ Extent(from', nw) = hp..(hp + n - 1)
  <2>1. Read(from', hp) = obj[1]
    <3>1. hp \in 0..HeapWords /\ hp \in hp..(hp + n - 1) /\ hp - hp + 1 = 1
      BY <1>1, <1>3
    <3> QED BY <1>5, <3>1
  <2>2. ObjectSize(from', nw) = n
    BY <1>1, <1>4, <2>1 DEF ObjectSize
  <2>3. Extent(from', nw) = hp..(hp + n - 1)
    BY <1>4, <2>2 DEF Extent
  <2>4. Names(from', hp', nw)
    <3>1. Offset(nw) + ObjectSize(from', nw) <= hp'
      BY <1>1, <1>2, <1>3, <1>4, <2>2
    <3> QED BY <1>1, <1>4, <2>1, <3>1 DEF Names
  <2>5. ASSUME plain, IsBoxed(nw), NEW k \in Extent(from', nw)
        PROVE  ~IsRef(Read(from', k))
    <3>1. k \in hp..(hp + n - 1) /\ k \in 0..HeapWords /\ k - hp + 1 \in 1..n
      BY <1>1, <1>2, <1>3, <2>3
    <3>2. Read(from', k) = obj[k - hp + 1]
      BY <1>5, <3>1
    <3>3. \A j \in DOMAIN words : ~IsRef(words[j])
      BY <1>4, <2>5
    <3> QED BY <1>1, <3>1, <3>2, <3>3
  <2> QED BY <1>1, <2>2, <2>3, <2>4, <2>5 DEF Whole
<1>11. ASSUME NEW x \in AllWords', IsRef(x) PROVE x \in AllWords \cup {nw}
  <2>1. CASE \E r \in Regs : x = regs'[r]
    BY <1>2, <1>3, <2>1 DEF AllWords
  <2>2. ASSUME NEW k \in 0..(hp' - 1), x = Read(from', k) PROVE x \in AllWords
    <3>1. CASE k \in 0..(hp - 1)
      BY <1>8, <2>2, <3>1 DEF AllWords
    <3>2. CASE k \in hp..(hp + n - 1)
      <4>1. k \in 0..HeapWords /\ k - hp + 1 \in 1..n
        BY <1>1, <1>2, <1>3, <3>2
      <4>2. x = obj[k - hp + 1]
        BY <1>5, <2>2, <3>2, <4>1
      <4> QED BY <1>1, <1>11, <4>1, <4>2
    <3>3. k \in 0..(hp - 1) \/ k \in hp..(hp + n - 1)
      BY <1>1, <1>2, <1>3
    <3> QED BY <3>1, <3>2, <3>3
  <2>3. (\E r \in Regs : x = regs'[r]) \/ (\E k \in 0..(hp' - 1) : x = Read(from', k))
    BY DEF AllWords
  <2> QED BY <2>1, <2>2, <2>3
<1>12. Sound(plain, from', hp', AllWords')
  <2>1. \A x \in AllWords' : IsRef(x) => Whole(plain, from', hp', x)
    BY <1>9, <1>10, <1>11
  <2>2. ASSUME NEW x \in AllWords', NEW y \in AllWords', IsRef(x), IsRef(y), x # y
        PROVE  Extent(from', x) \cap Extent(from', y) = {}
    <3>1. (0..(hp - 1)) \cap (hp..(hp + n - 1)) = {}
      BY <1>1, <1>3
    <3>2. CASE x \in AllWords /\ y \in AllWords
      BY <1>9, <2>2, <3>2 DEF Sound
    <3>3. CASE x = nw
      BY <1>9, <1>10, <1>11, <2>2, <3>1, <3>3
    <3>4. CASE y = nw
      BY <1>9, <1>10, <1>11, <2>2, <3>1, <3>4
    <3> QED BY <1>11, <2>2, <3>2, <3>3, <3>4
  <2> QED BY <2>1, <2>2 DEF Sound
<1>13. from'[HeapWords] = 0
  BY <1>3, <1>5, <1>6, <1>7, ReadWord
<1>14. regs' \in [Regs -> Nat] /\ \A r \in imm : ~IsRef(regs'[r])
  BY <1>2, <1>3, <1>4
<1> QED BY <1>2, <1>5, <1>6, <1>7, <1>12, <1>13, <1>14

-----------------------------------------------------------------------------
(* What programs keep to.                                                  *)

\* The registers in imm are given immediates only, and tuples are made of
\* registers in imm only.
ImmediatesOnly(imm) ==
  \A ins \in Instructions :
    /\ ins.op = "MAKE_TUPLE" => \A k \in DOMAIN ins.args : ins.args[k] \in imm
    /\ ins.dst \in imm => \/ ins.op \in {"CONST", "TUPLE_ELEM"}
                          \/ ins.op = "MOVE" /\ ins.args[1] \in imm

\* No collection interrupts a MAKE_TUPLE that has read a reference: when it
\* goes on, it uses the words it read.
NoStaleOperands ==
  phase # "run" /\ pending.ins.op = "MAKE_TUPLE" =>
    \A k \in DOMAIN pending.words : ~IsRef(pending.words[k])

\* Either the program keeps references out of tuples, or nothing is said of
\* tuples and of registers.
Discipline(plain, imm) ==
  /\ TuplesHaveElements
  /\ IF plain THEN ImmediatesOnly(imm) ELSE imm = {}

\* An allocation does not go to a register of immediates.
LEMMA AllocationDst ==
  ASSUME NEW plain \in BOOLEAN, NEW imm, Discipline(plain, imm),
         NEW ins \in Instructions, ins.op \in {"MAKE_TUPLE", "CONS", "HEAD", "TAIL"}
  PROVE  ins.dst \notin imm
BY DEF Discipline, ImmediatesOnly

\* The words of an instruction's registers.
LEMMA OperandWords ==
  ASSUME TypeOK, NEW ins \in Instructions, ins.op \in {"MAKE_TUPLE", "CONS"}
  PROVE  /\ Operands(ins) \in Seq(Nat) /\ Len(Operands(ins)) = Len(ins.args)
         /\ \A k \in DOMAIN Operands(ins) : /\ k \in DOMAIN ins.args
                                            /\ ins.args[k] \in Regs
                                            /\ Operands(ins)[k] = regs[ins.args[k]]
                                            /\ Operands(ins)[k] \in AllWords
<1> DEFINE args == ins.args
<1>1. args \in Seq(Regs)
  BY InstructionAssumption
<1> HIDE DEF args
<1>2. Len(args) \in Nat /\ DOMAIN args = 1..Len(args) /\ \A k \in 1..Len(args) : args[k] \in Regs
  BY <1>1, LenProperties
<1> DEFINE ops == [k \in 1..Len(args) |-> regs[args[k]]]
<1>3. Operands(ins) = ops
  BY DEF Operands, Arg, args
<1>4. ops \in [1..Len(args) -> Nat]
  BY <1>2 DEF TypeOK
<1>5. ops \in Seq(Nat) /\ Len(ops) = Len(args) /\ DOMAIN ops = 1..Len(args)
  BY <1>2, <1>4
<1>6. ASSUME NEW k \in 1..Len(args) PROVE ops[k] = regs[args[k]] /\ ops[k] \in AllWords
  BY <1>2 DEF AllWords
<1> HIDE DEF ops
<1> QED BY <1>2, <1>3, <1>5, <1>6 DEF args

-----------------------------------------------------------------------------
(* The end of a collection, and allocation without one.                    *)

\* When everything is copied, the active space has all that is referred to.
LEMMA CollectedSound ==
  ASSUME NEW plain \in BOOLEAN, NEW imm \in SUBSET Regs, HeapInv(plain, imm), Collected
  PROVE  Sound(plain, from, hp, AllWords)
<1>1. /\ phase = "scan" /\ scan >= hp /\ Collecting(plain) /\ scan \in Nat /\ hp \in Nat
  BY HeapConstants DEF Collected, HeapInv, TypeOK
<1>2. PICK moved \in SUBSET Nat, cells \in SUBSET Cells, W \in SUBSET Nat :
        /\ Midway(plain, from, hp, to, moved, cells, W)
        /\ \A x \in NewWords : IsRef(x) => \E v \in moved : x = Forward(to, v)
  BY <1>1 DEF Collecting
<1>3. AllWords \subseteq NewWords
  <2>1. \A k \in 0..(hp - 1) : k < scan
    BY <1>1
  <2> QED BY <1>1, <2>1 DEF AllWords, NewWords, RegIsNew, WordIsNew
<1>4. \A x \in AllWords : IsRef(x) => x \in {Forward(to, v) : v \in moved}
  BY <1>2, <1>3
<1>5. Sound(plain, from, hp, {Forward(to, v) : v \in moved})
  BY <1>2 DEF Midway, Copies
<1> QED BY <1>4, <1>5 DEF Sound

LEMMA RetryStep ==
  ASSUME NEW plain \in BOOLEAN, NEW imm \in SUBSET Regs, HeapInv(plain, imm),
         Discipline(plain, imm), NoStaleOperands, Retry
  PROVE  HeapInv(plain, imm)'
<1> DEFINE ins == pending.ins
           words == RetryWords(ins)
<1>1. /\ Collected /\ TypeOK /\ Interrupted(plain) /\ phase = "scan"
      /\ \A k \in hp..HeapWords : Read(from, k) = 0
      /\ \A r \in imm : ~IsRef(regs[r])
  BY DEF Retry, Collected, HeapInv
<1>2. Sound(plain, from, hp, AllWords)
  BY <1>1, CollectedSound
<1>3. /\ ins \in Instructions /\ ins.op \in {"MAKE_TUPLE", "CONS"}
      /\ ins.dst \notin imm
  BY <1>1, AllocationDst DEF Interrupted
<1>4. /\ words \in Seq(Nat) /\ Len(words) = Len(ins.args)
      /\ \A k \in DOMAIN words : IsRef(words[k]) => words[k] \in AllWords
      /\ ins.op = "MAKE_TUPLE" => \A k \in DOMAIN words : ~IsRef(words[k])
  <2>1. CASE ins.op = "CONS"
    <3>1. words = Operands(ins)
      BY <2>1 DEF RetryWords
    <3>2. ins.op # "MAKE_TUPLE"
      BY <2>1
    <3> QED BY <1>1, <1>3, <3>1, <3>2, OperandWords
  <2>2. CASE ins.op # "CONS"
    <3>1. words = pending.words
      BY <2>2 DEF RetryWords
    <3>2. \A k \in DOMAIN pending.words : ~IsRef(pending.words[k])
      BY <1>1, <1>3, <2>2 DEF NoStaleOperands
    <3> QED BY <1>1, <3>1, <3>2 DEF TypeOK, Interrupted
  <2> QED BY <2>1, <2>2
<1> HIDE DEF ins, words
<1>5. /\ to' = [c \in DOMAIN to |-> IF c \in Cells THEN 0 ELSE to[c]]
      /\ phase' = "run" /\ scan' = 0 /\ pending' = NothingPending
      /\ \/ Place(ins, words)
         \/ rc' = MB_HEAP_OOM /\ UNCHANGED <<from, hp, regs>>
  BY DEF Retry, ins, words
<1>6. from \in Space /\ hp \in 0..HeapWords /\ regs \in [Regs -> Nat] /\ from[HeapWords] = 0
  BY <1>1 DEF TypeOK, Space
<1>7. /\ from' \in Space /\ from'[HeapWords] = 0
      /\ hp' \in 0..HeapWords /\ regs' \in [Regs -> Nat]
      /\ rc' \in {MB_OK, MB_HEAP_OOM}
      /\ \A k \in hp'..HeapWords : Read(from', k) = 0
      /\ Sound(plain, from', hp', AllWords')
      /\ \A r \in imm : ~IsRef(regs'[r])
  <2>1. CASE Place(ins, words)
    BY <1>1, <1>2, <1>3, <1>4, <1>6, <2>1, PlaceStep DEF Discipline
  <2>2. CASE UNCHANGED <<from, hp, regs>> /\ rc' = MB_HEAP_OOM
    <3>1. AllWords' = AllWords
      BY <2>2 DEF AllWords, Read
    <3> QED BY <1>1, <1>2, <1>6, <2>2, <3>1
  <2> QED BY <1>5, <2>1, <2>2
<1>8. to' \in Space /\ \A k \in 0..HeapWords : Read(to', k) = 0
  <2>1. to \in Space /\ to[HeapWords] = 0 /\ DOMAIN to = 0..HeapWords
    BY <1>1 DEF TypeOK, Space
  <2>2. \A k \in 0..HeapWords : to'[k] = 0
    BY <1>5, <2>1, HeapConstants
  <2>3. to' \in Space
    BY <1>5, <2>1 DEF Space
  <2> QED BY <2>2, <2>3, ReadWord
<1>9. TypeOK'
  <2>1. to'[HeapWords] = 0
    BY <1>8, HeapConstants, ReadWord
  <2>2. pending'.ins \in Instructions \cup {NoInstruction} /\ pending'.words \in Seq(Nat)
    BY <1>5 DEF NothingPending
  <2>3. scan' \in 0..HeapWords
    BY <1>5, HeapConstants
  <2> QED BY <1>5, <1>7, <1>8, <2>1, <2>2, <2>3 DEF TypeOK, Space
<1>10. Running(plain)'
  BY <1>5, <1>7, <1>8 DEF Running, Sound, Whole, Names, Extent, ObjectSize, Read
<1> QED BY <1>5, <1>7, <1>9, <1>10 DEF HeapInv, Read

LEMMA AllocateStep ==
  ASSUME NEW plain \in BOOLEAN, NEW imm \in SUBSET Regs, HeapInv(plain, imm),
         Discipline(plain, imm), NEW ins \in Instructions, Allocate(ins)
  PROVE  HeapInv(plain, imm)'
<1> DEFINE words == Operands(ins)
<1>1. /\ phase = "run" /\ ins.op \in {"MAKE_TUPLE", "CONS"} /\ Place(ins, words)
      /\ UNCHANGED <<to, phase, scan, pending>>
  BY DEF Allocate
<1>2. /\ TypeOK /\ Running(plain)
      /\ \A k \in hp..HeapWords : Read(from, k) = 0
      /\ \A r \in imm : ~IsRef(regs[r])
  BY <1>1 DEF HeapInv
<1>3. /\ words \in Seq(Nat) /\ Len(words) = Len(ins.args)
      /\ \A k \in DOMAIN words : words[k] \in AllWords
      /\ \A k \in DOMAIN words : k \in DOMAIN ins.args /\ words[k] = regs[ins.args[k]]
  BY <1>1, <1>2, OperandWords
<1> HIDE DEF words
<1>4. plain /\ ins.op = "MAKE_TUPLE" => \A k \in DOMAIN words : ~IsRef(words[k])
  BY <1>2, <1>3 DEF Discipline, ImmediatesOnly
<1>5. from \in Space /\ hp \in 0..HeapWords /\ regs \in [Regs -> Nat]
  BY <1>2 DEF TypeOK, Space
<1>6. /\ from' \in Space /\ from'[HeapWords] = 0
      /\ hp' \in 0..HeapWords /\ regs' \in [Regs -> Nat] /\ rc' = MB_OK
      /\ \A k \in hp'..HeapWords : Read(from', k) = 0
      /\ Sound(plain, from', hp', AllWords')
      /\ \A r \in imm : ~IsRef(regs'[r])
  BY <1>1, <1>2, <1>3, <1>4, <1>5, AllocationDst, PlaceStep DEF Discipline, Running
<1>7. TypeOK'
  BY <1>1, <1>2, <1>6 DEF TypeOK, Space
<1>8. Running(plain)'
  BY <1>1, <1>2, <1>6 DEF Running, Sound, Whole, Names, Extent, ObjectSize, Read
<1> QED BY <1>1, <1>6, <1>7, <1>8 DEF HeapInv, Read

\* The collection starts with nothing moved.
LEMMA StartCollectionStep ==
  ASSUME NEW plain \in BOOLEAN, NEW imm \in SUBSET Regs, HeapInv(plain, imm),
         Discipline(plain, imm), NEW ins \in Instructions, StartCollection(ins)
  PROVE  HeapInv(plain, imm)'
<1> DEFINE words == Operands(ins)
<1>1. /\ phase = "run" /\ ins.op \in {"MAKE_TUPLE", "CONS"}
      /\ from' = to /\ to' = from /\ hp' = 0 /\ phase' = "roots" /\ scan' = 0
      /\ pending' = [ins |-> ins, words |-> words]
      /\ UNCHANGED <<regs, rc>>
  BY DEF StartCollection
<1>2. /\ TypeOK /\ Running(plain)
      /\ \A k \in hp..HeapWords : Read(from, k) = 0
      /\ \A r \in imm : ~IsRef(regs[r])
  BY <1>1 DEF HeapInv
<1>3. /\ words \in Seq(Nat) /\ Len(words) = Len(ins.args)
      /\ \A k \in DOMAIN words : k \in DOMAIN ins.args /\ words[k] = regs[ins.args[k]]
  BY <1>1, <1>2, OperandWords
<1> HIDE DEF words
<1>4. /\ from \in Space /\ to \in Space /\ hp \in 0..HeapWords /\ regs \in [Regs -> Nat]
      /\ from[HeapWords] = 0 /\ to[HeapWords] = 0 /\ HeapWords \in Nat
  BY <1>2, HeapConstants DEF TypeOK, Space
<1>5. PICK W \in SUBSET Nat : W = AllWords \cup {0}
  BY <1>4, ReadWord DEF AllWords
<1>6. Originals(plain, from, {}, {}, W)
  <2>1. ASSUME NEW w \in W, IsRef(w)
        PROVE  w \in AllWords /\ Whole(plain, from, HeapWords, w)
    <3>1. w \in AllWords /\ w \in Nat
      BY <1>4, <1>5, <2>1, NullWord
    <3>2. Whole(plain, from, hp, w)
      BY <1>2, <2>1, <3>1 DEF Running, Sound
    <3>3. HeapWords \in 0..HeapWords /\ hp <= HeapWords
      BY <1>4
    <3> QED BY <1>4, <2>1, <3>1, <3>2, <3>3, SameObject
  <2>2. ASSUME NEW k \in Cells PROVE Read(from, k) \in W
    <3>1. CASE k \in 0..(hp - 1)
      BY <1>5, <3>1 DEF AllWords
    <3>2. CASE k \notin 0..(hp - 1)
      <4>1. k \in hp..HeapWords
        BY <1>4, <3>2, HeapConstants
      <4> QED BY <1>2, <1>5, <4>1
    <3> QED BY <3>1, <3>2
  <2>3. Sound(plain, from, HeapWords, W)
    BY <1>2, <2>1 DEF Running, Sound
  <2>4. W \ {} = W /\ Cells \ {} = Cells
    OBVIOUS
  <2> QED BY <2>2, <2>3, <2>4 DEF Originals
<1>7. Copies(plain, to, 0, from, {}, {})
  BY FS_EmptySet DEF Copies, Sound
<1>8. Midway(plain, to, 0, from, {}, {}, W)
  <2>1. Read(from, HeapWords) = 0 /\ 0 \in 0..HeapWords
    BY <1>4, ReadWord
  <2> QED BY <1>2, <1>4, <1>5, <1>6, <1>7, <2>1 DEF Midway, Running
<1>9. OldWords' \subseteq W
  <2>1. 0..(0 - 1) = {}
    OBVIOUS
  <2> QED BY <1>1, <1>5, <2>1 DEF OldWords, AllWords
<1>10. NewWords' = {}
  <2>1. \A r \in Regs : ~(r < 0)
    BY HeapConstants
  <2> QED BY <1>1, <2>1 DEF NewWords, RegIsNew, WordIsNew
<1>11. Midway(plain, from, hp, to, {}, {}, W)'
  BY <1>1, <1>8 DEF Midway, Copies, Originals, Sound, Whole, Names, Extent, ObjectSize,
     Forward, Read
<1>12. Collecting(plain)'
  <2>1. {} \in SUBSET Nat /\ {} \in SUBSET Cells
    OBVIOUS
  <2>2. \A w \in NewWords' : IsRef(w) => \E v \in {} : w = Forward(to', v)
    BY <1>10
  <2> QED BY <1>5, <1>9, <1>11, <2>1, <2>2 DEF Collecting
<1>13. Interrupted(plain)'
  <2>1. plain /\ ins.op = "MAKE_TUPLE" => \A k \in DOMAIN words : ~IsRef(words[k])
    BY <1>2, <1>3 DEF Discipline, ImmediatesOnly
  <2> QED BY <1>1, <1>3, <2>1 DEF Interrupted
<1>14. TypeOK'
  <2>1. scan' \in 0..RegCount /\ hp' \in 0..HeapWords
    BY <1>1, HeapConstants
  <2>2. pending'.ins \in Instructions \cup {NoInstruction} /\ pending'.words \in Seq(Nat)
    BY <1>1, <1>3
  <2> QED BY <1>1, <1>2, <2>1, <2>2 DEF TypeOK
<1>15. \A k \in hp'..HeapWords : Read(from', k) = 0
  BY <1>1, <1>2 DEF Running
<1> QED BY <1>1, <1>2, <1>12, <1>13, <1>14, <1>15 DEF HeapInv, Read

-----------------------------------------------------------------------------
(* Instructions that need no room.                                         *)

LEMMA YieldStep ==
  ASSUME NEW plain \in BOOLEAN, NEW imm \in SUBSET Regs, HeapInv(plain, imm),
         NEW ins \in Instructions, phase = "run",
         NEW word \in Nat, IsRef(word) => word \in AllWords,
         ins.dst \in imm => ~IsRef(word),
         Yield(ins, word)
  PROVE  HeapInv(plain, imm)'
<1>1. /\ regs' = [regs EXCEPT ![ins.dst] = word] /\ rc' = MB_OK
      /\ UNCHANGED <<from, to, hp, phase, scan, pending>>
  BY DEF Yield
<1>2. /\ TypeOK /\ Running(plain) /\ regs \in [Regs -> Nat]
      /\ \A k \in hp..HeapWords : Read(from, k) = 0
      /\ \A r \in imm : ~IsRef(regs[r])
  BY DEF HeapInv, TypeOK
<1>3. TypeOK'
  <2>1. regs' \in [Regs -> Nat]
    BY <1>1, <1>2
  <2> QED BY <1>1, <1>2, <2>1 DEF TypeOK
<1>4. \A x \in AllWords' : IsRef(x) => x \in AllWords
  BY <1>1, <1>2 DEF AllWords, Read
<1>5. Running(plain)'
  BY <1>1, <1>2, <1>4 DEF Running, Sound, Whole, Names, Extent, ObjectSize, Read
<1>6. \A r \in imm : ~IsRef(regs'[r])
  BY <1>1, <1>2
<1> QED BY <1>1, <1>2, <1>3, <1>5, <1>6 DEF HeapInv, Read

LEMMA FailStep ==
  ASSUME NEW plain \in BOOLEAN, NEW imm \in SUBSET Regs, HeapInv(plain, imm),
         NEW code \in {MB_BAD_TERM, MB_BAD_ARITY}, phase = "run", Fail(code)
  PROVE  HeapInv(plain, imm)'
<1>1. rc' = code /\ UNCHANGED <<from, to, hp, regs, phase, scan, pending>>
  BY DEF Fail
<1>2. TypeOK'
  BY <1>1 DEF HeapInv, TypeOK
<1>3. Running(plain)'
  BY <1>1 DEF HeapInv, Running, AllWords, Sound, Whole, Names, Extent, ObjectSize, Read
<1> QED BY <1>1, <1>2, <1>3 DEF HeapInv, Read

\* An element of a tuple is a word of its object.
LEMMA TupleElemStep ==
  ASSUME NEW plain \in BOOLEAN, NEW imm \in SUBSET Regs, HeapInv(plain, imm),
         Discipline(plain, imm), NEW ins \in Instructions, TupleElem(ins)
  PROVE  HeapInv(plain, imm)'
<1> DEFINE t == Arg(ins, 1)
           hdr == Read(from, Offset(t))
           i == ins.args[2]
           word == Read(from, Offset(t) + 1 + i)
<1>1. /\ phase = "run" /\ ins.op = "TUPLE_ELEM"
      /\ ins.args[1] \in Regs /\ i \in Nat
  BY InstructionAssumption DEF TupleElem
<1>2. /\ TypeOK /\ Sound(plain, from, hp, AllWords)
      /\ from \in Space /\ hp \in 0..HeapWords /\ hp \in Nat
  <2>1. TypeOK /\ Running(plain)
    BY <1>1 DEF HeapInv
  <2>2. Sound(plain, from, hp, AllWords)
    BY <2>1 DEF Running
  <2>3. from \in Space /\ hp \in 0..HeapWords
    BY <2>1 DEF TypeOK, Space
  <2>4. hp \in Nat
    BY <2>3, HeapConstants
  <2> QED BY <2>1, <2>2, <2>3, <2>4
<1>3. t \in AllWords /\ t \in Nat
  BY <1>1, <1>2 DEF Arg, AllWords, TypeOK
<1>4. CASE Fail(MB_BAD_TERM) \/ Fail(MB_BAD_ARITY)
  BY <1>1, <1>4, FailStep
<1>5. CASE IsBoxed(t) /\ IsTupleHdr(hdr) /\ i < TupleArity(hdr) /\ Yield(ins, word)
  <2>1. IsRef(t) /\ ~IsCons(t)
    BY <1>3, <1>5, Words DEF IsRef
  <2>2. Whole(plain, from, hp, t)
    BY <1>2, <1>3, <2>1 DEF Sound
  <2>3. ObjectSize(from, t) = 1 + TupleArity(hdr) /\ TupleArity(hdr) \in Nat
    BY <1>2, <1>5, <2>1, ReadWord, Words DEF ObjectSize
  <2>4. Offset(t) + 1 + i \in Extent(from, t) /\ Offset(t) + 1 + i \in 0..(hp - 1)
    <3>1. /\ Offset(t) \in Nat /\ ObjectSize(from, t) \in Nat
          /\ Offset(t) + ObjectSize(from, t) <= hp
      BY <1>2, <1>3, <2>1, <2>2, WholeExtent
    <3>2. i \in Nat /\ i + 1 < ObjectSize(from, t)
      BY <1>1, <1>5, <2>3
    <3> HIDE DEF t, i
    <3> QED BY <1>2, <3>1, <3>2 DEF Extent
  <2>5. word \in AllWords /\ word \in Nat
    BY <1>2, <2>4, ReadWord DEF AllWords
  <2>6. plain => ~IsRef(word)
    BY <1>5, <2>2, <2>4 DEF Whole
  <2>7. ins.dst \in imm => ~IsRef(word)
    BY <2>6 DEF Discipline
  <2> QED BY <1>1, <1>5, <2>5, <2>7, YieldStep
<1> QED BY <1>4, <1>5 DEF TupleElem

\* The words of a cell, which HEAD and TAIL read.
LEMMA ConsWordStep ==
  ASSUME NEW plain \in BOOLEAN, NEW imm \in SUBSET Regs, HeapInv(plain, imm),
         Discipline(plain, imm), NEW ins \in Instructions,
         NEW op \in {"HEAD", "TAIL"}, NEW k \in 0..1, ConsWord(ins, op, k)
  PROVE  HeapInv(plain, imm)'
<1> DEFINE t == Arg(ins, 1)
           word == Read(from, Offset(t) + k)
<1>1. /\ phase = "run" /\ ins.op \in {"HEAD", "TAIL"} /\ ins.args[1] \in Regs
  BY InstructionAssumption DEF ConsWord
<1>2. /\ TypeOK /\ Sound(plain, from, hp, AllWords)
      /\ from \in Space /\ hp \in 0..HeapWords /\ hp \in Nat
  BY <1>1, HeapConstants DEF HeapInv, TypeOK, Space, Running
<1>3. t \in AllWords /\ t \in Nat
  BY <1>1, <1>2 DEF Arg, AllWords, TypeOK
<1>4. CASE Fail(MB_BAD_TERM)
  BY <1>1, <1>4, FailStep
<1>5. CASE IsCons(t) /\ Yield(ins, word)
  <2>1. IsRef(t)
    BY <1>5 DEF IsRef
  <2>2. Whole(plain, from, hp, t) /\ ObjectSize(from, t) = 2
    BY <1>2, <1>3, <1>5, <2>1 DEF Sound, ObjectSize
  <2>3. Offset(t) + k \in 0..(hp - 1)
    BY <1>2, <1>3, <2>1, <2>2, WholeExtent
  <2>4. word \in AllWords /\ word \in Nat
    BY <1>2, <2>3, ReadWord DEF AllWords
  <2>5. ins.dst \notin imm
    BY <1>1, AllocationDst
  <2> QED BY <1>1, <1>5, <2>4, <2>5, YieldStep
<1> QED BY <1>4, <1>5 DEF ConsWord

LEMMA ConstStep ==
  ASSUME NEW plain \in BOOLEAN, NEW imm \in SUBSET Regs, HeapInv(plain, imm),
         NEW ins \in Instructions, Const(ins)
  PROVE  HeapInv(plain, imm)'
<1>1. phase = "run" /\ ins.args[1] \in Nat /\ ~IsRef(ins.args[1]) /\ Yield(ins, ins.args[1])
  BY InstructionAssumption DEF Const
<1> QED BY <1>1, YieldStep

LEMMA MoveStep ==
  ASSUME NEW plain \in BOOLEAN, NEW imm \in SUBSET Regs, HeapInv(plain, imm),
         Discipline(plain, imm), NEW ins \in Instructions, Move(ins)
  PROVE  HeapInv(plain, imm)'
<1> DEFINE word == regs[ins.args[1]]
<1>1. /\ phase = "run" /\ ins.op = "MOVE" /\ ins.args[1] \in Regs /\ Yield(ins, word)
  BY InstructionAssumption DEF Move, Arg
<1>2. word \in AllWords /\ word \in Nat
  BY <1>1 DEF HeapInv, TypeOK, AllWords
<1>3. ins.dst \in imm => ~IsRef(word)
  BY <1>1 DEF HeapInv, Discipline, ImmediatesOnly
<1> QED BY <1>1, <1>2, <1>3, YieldStep

-----------------------------------------------------------------------------
(* The theorems.                                                           *)

LEMMA InitHeapInv ==
  ASSUME NEW plain \in BOOLEAN, NEW imm \in SUBSET Regs, Init
  PROVE  HeapInv(plain, imm)
<1>1. Blank \in Space /\ Blank[HeapWords] = 0 /\ \A k \in 0..HeapWords : Read(Blank, k) = 0
  BY HeapConstants DEF Blank, Space, Read
<1>2. TypeOK
  <2>1. hp \in 0..HeapWords /\ scan \in 0..HeapWords /\ regs \in [Regs -> Nat]
    BY HeapConstants DEF Init
  <2>2. pending.ins = NoInstruction /\ pending.words \in Seq(Nat)
    BY DEF Init, NothingPending
  <2> QED BY <1>1, <2>1, <2>2 DEF Init, TypeOK, Space
<1>3. \A x \in AllWords : ~IsRef(x)
  <2>1. 0..(0 - 1) = {}
    OBVIOUS
  <2> QED BY <2>1, NullWord DEF Init, AllWords
<1>4. \A r \in imm : ~IsRef(regs[r])
  BY NullWord DEF Init
<1> QED BY <1>1, <1>2, <1>3, <1>4 DEF Init, HeapInv, Running, Sound

LEMMA HeapInvStep ==
  ASSUME NEW plain \in BOOLEAN, NEW imm \in SUBSET Regs, Discipline(plain, imm),
         HeapInv(plain, imm), NoStaleOperands, [Next]_vars
  PROVE  HeapInv(plain, imm)'
<1>1. CASE \E ins \in Instructions :
             \/ Const(ins) \/ Move(ins) \/ TupleElem(ins) \/ Head_(ins) \/ Tail_(ins)
             \/ Allocate(ins) \/ StartCollection(ins)
  <2>1. PICK ins \in Instructions :
             \/ Const(ins) \/ Move(ins) \/ TupleElem(ins) \/ Head_(ins) \/ Tail_(ins)
             \/ Allocate(ins) \/ StartCollection(ins)
    BY <1>1
  <2>2. CASE Head_(ins) \/ Tail_(ins)
    BY <2>2, ConsWordStep DEF Head_, Tail_
  <2> QED BY <2>1, <2>2, ConstStep, MoveStep, TupleElemStep, AllocateStep,
             StartCollectionStep
<1>2. CASE CopyRoot
  BY <1>2, CopyRootStep
<1>3. CASE RootsCopied
  BY <1>3, RootsCopiedStep
<1>4. CASE ScanWord
  BY <1>4, ScanWordStep
<1>5. CASE Retry
  BY <1>5, RetryStep
<1>6. CASE UNCHANGED vars
  <2>1. UNCHANGED <<from, to, hp, regs, phase, scan, pending, rc>>
    BY <1>6 DEF vars
  <2>2. TypeOK'
    BY <2>1 DEF HeapInv, TypeOK
  <2>3. ASSUME phase = "run" PROVE Running(plain)'
    BY <2>1, <2>3 DEF HeapInv, Running, AllWords, Sound, Whole, Names, Extent, ObjectSize,
       Read
  <2>4. ASSUME phase # "run" PROVE Collecting(plain)'
    <3>1. PICK moved \in SUBSET Nat, cells \in SUBSET Cells, W \in SUBSET Nat :
            /\ Midway(plain, from, hp, to, moved, cells, W)
            /\ OldWords \subseteq W
            /\ \A x \in NewWords : IsRef(x) => \E v \in moved : x = Forward(to, v)
      BY <2>4 DEF HeapInv, Collecting
    <3>2. Midway(plain, from, hp, to, moved, cells, W)'
      BY <2>1, <3>1 DEF Midway, Copies, Originals, Sound, Whole, Names, Extent, ObjectSize,
         Forward, Read
    <3>3. OldWords' = OldWords /\ NewWords' = NewWords
      BY <2>1 DEF OldWords, NewWords, RegIsNew, WordIsNew
    <3>4. \A x \in NewWords' : IsRef(x) => \E v \in moved : x = Forward(to', v)
      BY <2>1, <3>1, <3>3
    <3> QED BY <3>1, <3>2, <3>3, <3>4 DEF Collecting
  <2>5. phase # "run" => Interrupted(plain)'
    BY <2>1 DEF HeapInv, Interrupted
  <2> QED BY <2>1, <2>2, <2>3, <2>4, <2>5 DEF HeapInv, Read
<1> QED BY <1>1, <1>2, <1>3, <1>4, <1>5, <1>6 DEF Next

LEMMA HeapInvSound ==
  ASSUME NEW plain \in BOOLEAN, NEW imm \in SUBSET Regs, HeapInv(plain, imm)
  PROVE  TypeOK /\ ReferencesSound /\ (plain => NoStaleOperands)
<1>1. ASSUME phase = "run" PROVE NewWords = AllWords
  BY <1>1 DEF NewWords, AllWords, RegIsNew, WordIsNew
<1>2. ReferencesSound
  BY <1>1 DEF ReferencesSound, HeapInv, Running, Sound, Whole
<1>3. plain => NoStaleOperands
  BY DEF NoStaleOperands, HeapInv, Interrupted
<1> QED BY <1>2, <1>3 DEF HeapInv

\* However large the heap and whatever the program, as long as no collection
\* interrupts a MAKE_TUPLE that has read a reference: no allocation and no
\* copy leaves its space (mb_heap_alloc, mb_gc_copy_term).
THEOREM HeapStaysInside ==
  ASSUME TuplesHaveElements
  PROVE  Spec /\ []NoStaleOperands => []TypeOK
<1>1. Discipline(FALSE, {})
  BY DEF Discipline
<1>2. Init => HeapInv(FALSE, {})
  <2>1. FALSE \in BOOLEAN /\ {} \in SUBSET Regs
    OBVIOUS
  <2> QED BY <2>1, InitHeapInv
<1>3. HeapInv(FALSE, {}) /\ NoStaleOperands /\ [Next]_vars => HeapInv(FALSE, {})'
  BY <1>1, HeapInvStep
<1>4. HeapInv(FALSE, {}) => TypeOK
  BY HeapInvSound
<1> QED BY <1>2, <1>3, <1>4, PTL DEF Spec

\* And every reference an instruction can follow names a whole object that
\* overlaps no other: the collection leaves no pointer into the old space.
THEOREM ReferencesStaySound ==
  ASSUME TuplesHaveElements
  PROVE  Spec /\ []NoStaleOperands => []ReferencesSound
<1>1. Discipline(FALSE, {})
  BY DEF Discipline
<1>2. Init => HeapInv(FALSE, {})
  <2>1. FALSE \in BOOLEAN /\ {} \in SUBSET Regs
    OBVIOUS
  <2> QED BY <2>1, InitHeapInv
<1>3. HeapInv(FALSE, {}) /\ NoStaleOperands /\ [Next]_vars => HeapInv(FALSE, {})'
  BY <1>1, HeapInvStep
<1>4. HeapInv(FALSE, {}) => ReferencesSound
  BY HeapInvSound
<1> QED BY <1>2, <1>3, <1>4, PTL DEF Spec

\* A program that makes its tuples of registers to which it gives immediates
\* only meets the condition by itself, so both hold of each of its runs.
THEOREM ImmediateTuplesAreSafe ==
  ASSUME TuplesHaveElements, NEW imm \in SUBSET Regs, ImmediatesOnly(imm)
  PROVE  Spec => [](TypeOK /\ ReferencesSound /\ NoStaleOperands)
<1>1. Discipline(TRUE, imm)
  BY DEF Discipline
<1>2. Init => HeapInv(TRUE, imm)
  BY InitHeapInv
<1>3. HeapInv(TRUE, imm) => TypeOK /\ ReferencesSound /\ NoStaleOperands
  BY HeapInvSound
<1>4. HeapInv(TRUE, imm) /\ [Next]_vars => HeapInv(TRUE, imm)'
  BY <1>1, <1>3, HeapInvStep
<1> QED BY <1>2, <1>3, <1>4, PTL DEF Spec
=============================================================================
