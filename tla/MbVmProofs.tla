----------------------------- MODULE MbVmProofs -----------------------------
(***************************************************************************)
(* Lemmas about the mailbox ring and the process VM, for every capacity,   *)
(* number of registers and processes, and whatever bytes a program has:    *)
(* what a push and a pop do to the queue of commands that the ring stands  *)
(* for, and the three ways in which every instruction ends.  The scheduler *)
(* and the compatibility layer build their proofs on them.                 *)
(***************************************************************************)
EXTENDS MbBytecode, SequenceTheorems, TLAPS

-----------------------------------------------------------------------------
(* The ring.                                                               *)

\* Walking the ring: from head h, cell i of the queue is (h + i - 1) % n.
LEMMA RingWalk ==
  ASSUME NEW n \in Nat \ {0}, NEW h \in 0..(n - 1)
  PROVE  /\ (h + 1 - 1) % n = h
         /\ \A c \in 0..(n - 1) : (((h + c) % n) + 1) % n = (h + (c + 1)) % n
         /\ \A c \in 1..n : (((h + 1) % n) + (c - 1)) % n = (h + c) % n
         /\ \A i \in 1..n : (h + i - 1) % n \in 0..(n - 1)
         /\ \A c \in 0..(n - 1), i \in 1..n :
              i \in 1..(c + 1) => ((h + i - 1) % n = (h + c) % n <=> i = c + 1)
         /\ \A i \in 1..(n - 1) : (((h + 1) % n) + i - 1) % n = (h + (i + 1) - 1) % n
<1>1. (h + 1 - 1) % n = h
  OBVIOUS
<1>2. ASSUME NEW c \in 0..(n - 1) PROVE (((h + c) % n) + 1) % n = (h + (c + 1)) % n
  OBVIOUS
<1>3. ASSUME NEW c \in 1..n PROVE (((h + 1) % n) + (c - 1)) % n = (h + c) % n
  OBVIOUS
<1>4. \A i \in 1..n : (h + i - 1) % n \in 0..(n - 1)
  OBVIOUS
<1>5. ASSUME NEW c \in 0..(n - 1), NEW i \in 1..n, i \in 1..(c + 1)
      PROVE  (h + i - 1) % n = (h + c) % n <=> i = c + 1
  OBVIOUS
<1>6. ASSUME NEW i \in 1..(n - 1)
      PROVE  (((h + 1) % n) + i - 1) % n = (h + (i + 1) - 1) % n
  OBVIOUS
<1> QED BY <1>1, <1>2, <1>3, <1>4, <1>5, <1>6

USE MailboxAssumption

\* A push of a command that fits gives a mailbox.
LEMMA PushedType ==
  ASSUME NEW mb \in Mailbox, NEW cmd \in Command, mb.count < MailboxCapacity
  PROVE  Pushed(mb, cmd) \in Mailbox
<1>1. NextCell(mb.tail) \in Cells
  BY DEF NextCell, Cells, Mailbox
<1>2. [mb.items EXCEPT ![mb.tail] = cmd] \in [Cells -> Command]
  BY DEF Mailbox
<1> QED BY <1>1, <1>2 DEF Pushed, Mailbox

\* So does a pop from a mailbox that is not empty.
LEMMA PoppedType ==
  ASSUME NEW mb \in Mailbox, mb.count # 0
  PROVE  Popped(mb) \in Mailbox /\ First(mb) \in Command
<1>1. NextCell(mb.head) \in Cells
  BY DEF NextCell, Cells, Mailbox
<1> QED BY <1>1 DEF Popped, First, Mailbox

\* An accepted command is a valid one (mb_mailbox_push_raw validates).
LEMMA PushStatusOk ==
  ASSUME NEW mb \in Mailbox, NEW cmd, PushStatus(mb, cmd) = MB_OK
  PROVE  mb.count < MailboxCapacity /\ ValidateCommand(cmd) = MB_OK
<1>1. ValidateCommand(cmd) = MB_OK
  BY DEF PushStatus
<1>2. mb.count < MailboxCapacity
  BY DEF PushStatus, MB_MAILBOX_FULL, MB_OK, Mailbox
<1> QED BY <1>1, <1>2

\* The fields of a mailbox.
LEMMA MailboxFields ==
  ASSUME NEW mb \in Mailbox
  PROVE  /\ mb.head \in 0..(MailboxCapacity - 1)
         /\ mb.count \in 0..MailboxCapacity
         /\ mb.items \in [Cells -> Command]
  BY DEF Mailbox, Cells

\* Head, tail and count agree after a push ...
LEMMA PushedWellFormed ==
  ASSUME NEW mb \in Mailbox, NEW cmd, RingWellFormed(mb),
         mb.count < MailboxCapacity
  PROVE  RingWellFormed(Pushed(mb, cmd))
<1>1. mb.head \in 0..(MailboxCapacity - 1) /\ mb.count \in 0..(MailboxCapacity - 1)
  BY MailboxFields
<1>2. mb.tail = (mb.head + mb.count) % MailboxCapacity
  BY DEF RingWellFormed
<1>3. (((mb.head + mb.count) % MailboxCapacity) + 1) % MailboxCapacity
        = (mb.head + (mb.count + 1)) % MailboxCapacity
  BY <1>1, RingWalk
<1> QED BY <1>2, <1>3 DEF RingWellFormed, Pushed, NextCell

\* ... and after a pop.
LEMMA PoppedWellFormed ==
  ASSUME NEW mb \in Mailbox, RingWellFormed(mb), mb.count # 0
  PROVE  RingWellFormed(Popped(mb))
<1>1. mb.head \in 0..(MailboxCapacity - 1) /\ mb.count \in 1..MailboxCapacity
  BY MailboxFields
<1>2. mb.tail = (mb.head + mb.count) % MailboxCapacity
  BY DEF RingWellFormed
<1>3. (((mb.head + 1) % MailboxCapacity) + (mb.count - 1)) % MailboxCapacity
        = (mb.head + mb.count) % MailboxCapacity
  BY <1>1, RingWalk
<1> QED BY <1>2, <1>3 DEF RingWellFormed, Popped, NextCell

\* The queue as a sequence, and where its commands are.
LEMMA ContentsType ==
  ASSUME NEW mb \in Mailbox
  PROVE  /\ Contents(mb) \in Seq(Command)
         /\ Len(Contents(mb)) = mb.count
         /\ DOMAIN Contents(mb) = 1..mb.count
         /\ \A i \in 1..mb.count :
              Contents(mb)[i] = mb.items[(mb.head + i - 1) % MailboxCapacity]
<1>1. ASSUME NEW i \in 1..mb.count
      PROVE  mb.items[(mb.head + i - 1) % MailboxCapacity] \in Command
  <2>1. i \in 1..MailboxCapacity
    BY MailboxFields
  <2>2. (mb.head + i - 1) % MailboxCapacity \in Cells
    BY <2>1, MailboxFields, RingWalk DEF Cells
  <2> QED BY <2>2, MailboxFields
<1>2. Contents(mb) \in [1..mb.count -> Command]
  BY <1>1 DEF Contents
<1>3. mb.count \in Nat
  BY MailboxFields
<1>4. Contents(mb) \in Seq(Command) /\ Len(Contents(mb)) = mb.count
  BY <1>2, <1>3
<1> QED BY <1>2, <1>4 DEF Contents

\* The queue after a push: the new command comes last.
LEMMA PushedContents ==
  ASSUME NEW mb \in Mailbox, NEW cmd \in Command, RingWellFormed(mb),
         mb.count < MailboxCapacity
  PROVE  Contents(Pushed(mb, cmd)) = Append(Contents(mb), cmd)
<1> DEFINE c    == mb.count
           next == Pushed(mb, cmd)
           q    == Contents(mb)
<1>1. /\ c \in 0..(MailboxCapacity - 1) /\ mb.items \in [Cells -> Command]
      /\ mb.head \in 0..(MailboxCapacity - 1)
      /\ mb.tail = (mb.head + c) % MailboxCapacity /\ mb.tail \in Cells
  BY MailboxFields DEF RingWellFormed, Mailbox
<1>2. /\ next.head = mb.head /\ next.count = c + 1
      /\ next.items = [mb.items EXCEPT ![mb.tail] = cmd]
  BY DEF Pushed
<1>3. /\ q \in Seq(Command) /\ Len(q) = c
      /\ Contents(next) \in Seq(Command) /\ Len(Contents(next)) = c + 1
  BY <1>2, PushedType, ContentsType
<1>4. ASSUME NEW i \in 1..(c + 1)
      PROVE  Contents(next)[i] = Append(q, cmd)[i]
  <2> DEFINE cell == (mb.head + i - 1) % MailboxCapacity
  <2>1. i \in 1..MailboxCapacity
    BY <1>1
  <2>2. cell \in Cells
    BY <1>1, <2>1, RingWalk DEF Cells
  <2>3. cell = (mb.head + c) % MailboxCapacity <=> i = c + 1
    <3>1. \A j \in 1..MailboxCapacity :
            j \in 1..(c + 1) => ((mb.head + j - 1) % MailboxCapacity
                                   = (mb.head + c) % MailboxCapacity <=> j = c + 1)
      <4>1. \A d \in 0..(MailboxCapacity - 1), j \in 1..MailboxCapacity :
              j \in 1..(d + 1) => ((mb.head + j - 1) % MailboxCapacity
                                     = (mb.head + d) % MailboxCapacity <=> j = d + 1)
        BY <1>1, RingWalk
      <4> QED BY <1>1, <4>1
    <3> QED BY <2>1, <3>1
  <2>4. Contents(next)[i] = next.items[cell]
    <3>1. next \in Mailbox /\ i \in 1..next.count
      BY <1>1, <1>2, PushedType
    <3>2. Contents(next)[i] = next.items[(next.head + i - 1) % MailboxCapacity]
      BY <3>1, ContentsType
    <3> QED BY <1>2, <3>2
  <2>5. CASE i = c + 1
    <3>1. cell = mb.tail
      BY <1>1, <2>3, <2>5
    <3>2. Append(q, cmd)[c + 1] = cmd
      BY <1>3, AppendProperties
    <3> QED BY <1>1, <1>2, <2>4, <2>5, <3>1, <3>2
  <2>6. CASE i # c + 1
    <3>1. i \in 1..mb.count /\ cell # mb.tail
      BY <1>1, <2>3, <2>6
    <3>2. q[i] = mb.items[cell]
      BY <3>1, ContentsType
    <3>3. Append(q, cmd)[i] = q[i]
      BY <1>3, <3>1, AppendProperties
    <3> QED BY <1>1, <1>2, <2>2, <2>4, <3>1, <3>2, <3>3
  <2> QED BY <2>5, <2>6
<1>5. Append(q, cmd) \in Seq(Command) /\ Len(Append(q, cmd)) = c + 1
  BY <1>3, AppendProperties
<1> HIDE DEF c, next, q
<1>6. Contents(next) = Append(q, cmd)
  BY <1>3, <1>4, <1>5, SeqEqual
<1> QED BY <1>6 DEF next, q

\* The queue before a pop: First is its head, and the rest is what remains.
LEMMA PoppedContents ==
  ASSUME NEW mb \in Mailbox, mb.count # 0
  PROVE  /\ Contents(mb) # << >>
         /\ First(mb) = Head(Contents(mb))
         /\ Contents(Popped(mb)) = Tail(Contents(mb))
<1> DEFINE c    == mb.count
           next == Popped(mb)
           q    == Contents(mb)
<1>1. c \in 1..MailboxCapacity /\ mb.head \in 0..(MailboxCapacity - 1)
  BY MailboxFields
<1>2. q \in Seq(Command) /\ Len(q) = c
  BY ContentsType
<1>3. next.head = (mb.head + 1) % MailboxCapacity /\ next.count = c - 1 /\ next.items = mb.items
  BY DEF Popped, NextCell
<1>4. First(mb) = q[1]
  <2>1. (mb.head + 1 - 1) % MailboxCapacity = mb.head
    BY <1>1, RingWalk
  <2>2. 1 \in 1..mb.count
    BY <1>1
  <2>3. q[1] = mb.items[(mb.head + 1 - 1) % MailboxCapacity]
    BY <2>2, ContentsType
  <2> QED BY <2>1, <2>3 DEF First
<1>5. /\ Contents(next) \in Seq(Command) /\ Len(Contents(next)) = c - 1
  BY <1>3, PoppedType, ContentsType
<1>6. q # << >>
  BY <1>1, <1>2
<1>7. /\ Head(q) = q[1] /\ Tail(q) \in Seq(Command) /\ Len(Tail(q)) = c - 1
      /\ \A i \in 1..(c - 1) : Tail(q)[i] = q[i + 1]
  BY <1>2, <1>6, HeadTailProperties
<1>8. ASSUME NEW i \in 1..(c - 1)
      PROVE  Contents(next)[i] = q[i + 1]
  <2>1. i + 1 \in 1..mb.count /\ i \in 1..(MailboxCapacity - 1)
    BY <1>1
  <2>2. q[i + 1] = mb.items[(mb.head + (i + 1) - 1) % MailboxCapacity]
    BY <2>1, ContentsType
  <2>3. (((mb.head + 1) % MailboxCapacity) + i - 1) % MailboxCapacity
          = (mb.head + (i + 1) - 1) % MailboxCapacity
    BY <1>1, <2>1, RingWalk
  <2>4. Contents(next)[i] = next.items[(next.head + i - 1) % MailboxCapacity]
    <3>1. next \in Mailbox /\ i \in 1..next.count
      BY <1>3, PoppedType
    <3> QED BY <3>1, ContentsType
  <2> QED BY <1>3, <2>2, <2>3, <2>4
<1> HIDE DEF c, next, q
<1>9. Contents(next) = Tail(q)
  BY <1>5, <1>7, <1>8, SeqEqual
<1> QED BY <1>4, <1>6, <1>7, <1>9 DEF next, q

\* An empty mailbox is a mailbox.
LEMMA EmptyMailboxType == EmptyMailbox \in Mailbox
<1>1. NoneCommand \in Command /\ 0 \in Cells
  BY DEF NoneCommand, Command, MB_CMD_NONE, Cells
<1> QED BY <1>1 DEF EmptyMailbox, Mailbox

USE VmAssumption, PayloadAssumption, MailboxAssumption

-----------------------------------------------------------------------------
(* Values.                                                                 *)

\* A small integer made of any integer is a term (MB_MAKE_SMALLINT).
LEMMA SmallintType ==
  ASSUME NEW v \in Int
  PROVE  MAKE_SMALLINT(v) \in Term /\ MAKE_PID(v) \in Term
  BY DEF MAKE_SMALLINT, MAKE_PID, Payload, Term, TermTag

\* Validation returns a status (mb_validate_command).
LEMMA ValidateType ==
  ASSUME NEW cmd
  PROVE  ValidateCommand(cmd) \in Status
  BY DEF ValidateCommand, Status, MB_INVALID_COMMAND, MB_OK, MB_BAD_ARGUMENT

\* What a push returns is a status.
LEMMA PushStatusType ==
  ASSUME NEW mb, NEW cmd
  PROVE  PushStatus(mb, cmd) \in Status
  BY ValidateType DEF PushStatus, Status, MB_MAILBOX_FULL, MB_OK

-----------------------------------------------------------------------------
(* Fetching.                                                               *)

\* The byte of an instruction that is inside the program is a byte.
LEMMA ByteType ==
  ASSUME NEW p \in Pids, program[p] \in DOMAIN Code, pc[p] \in Nat,
         NEW k \in Nat, Fetchable(p, k)
  PROVE  Byte(p, k) \in U8
  BY CodeAssumption DEF Byte, Fetchable, Size

\* A program has a length (code_size).
LEMMA SizeType ==
  ASSUME NEW p \in Pids, program[p] \in DOMAIN Code
  PROVE  Size(p) \in Nat
  BY CodeAssumption DEF Size

\* Bytes before a fetchable one are fetchable.
LEMMA FetchableBefore ==
  ASSUME NEW p \in Pids, program[p] \in DOMAIN Code, pc[p] \in Nat,
         NEW k \in Nat, NEW j \in 0..k, Fetchable(p, k)
  PROVE  Fetchable(p, j)
  BY SizeType DEF Fetchable

\* The little-endian integer is an integer.
LEMMA I32Type ==
  ASSUME NEW p \in Pids, program[p] \in DOMAIN Code, pc[p] \in Nat,
         NEW k \in Nat, Fetchable(p, k + 3)
  PROVE  I32(p, k) \in Int
<1>1. \A j \in 0..3 : Byte(p, k + j) \in U8
  <2>1. SUFFICES ASSUME NEW j \in 0..3
                 PROVE  Byte(p, k + j) \in U8
    OBVIOUS
  <2>2. k + j \in Nat /\ Fetchable(p, k + j)
    BY SizeType DEF Fetchable
  <2> QED BY <2>2, ByteType
<1>2. Byte(p, k) \in Int
  <2>1. k + 0 = k
    OBVIOUS
  <2> QED BY <1>1, <2>1 DEF U8
<1>3. /\ Byte(p, k + 1) \in Int
      /\ Byte(p, k + 2) \in Int
      /\ Byte(p, k + 3) \in Int
  BY <1>1 DEF U8
<1>4. I32(p, k) = Byte(p, k) + 256 * Byte(p, k + 1) + 65536 * Byte(p, k + 2)
                    + 16777216 * (IF Byte(p, k + 3) < 128 THEN Byte(p, k + 3)
                                  ELSE Byte(p, k + 3) - 256)
  <2>1. /\ pc[p] + k + 1 + 1 = pc[p] + k + 2
        /\ pc[p] + (k + 1) + 1 = pc[p] + k + 2
        /\ pc[p] + (k + 2) + 1 = pc[p] + k + 3
        /\ pc[p] + (k + 3) + 1 = pc[p] + k + 4
    OBVIOUS
  <2> QED BY <2>1 DEF I32, I32At, Byte
<1> QED BY <1>2, <1>3, <1>4

\* Every operand count is small.
LEMMA OperandBytesType ==
  ASSUME NEW op \in FixedOps
  PROVE  OperandBytes(op) \in 0..6
  BY DEF FixedOps, OperandBytes, MB_OP_NOP, MB_OP_CONST_I32, MB_OP_MOVE,
         MB_OP_ADD, MB_OP_SUB, MB_OP_RECV_CMD, MB_OP_SEND, MB_OP_SELF,
         MB_OP_YIELD, MB_OP_JMP, MB_OP_JMP_IF_ZERO, MB_OP_SLEEP_MS,
         MB_OP_TUPLE_ELEM, MB_OP_CONS, MB_OP_HEAD, MB_OP_TAIL, MB_OP_HALT

-----------------------------------------------------------------------------
(* The running process.                                                    *)

RegFiles == [Pids -> [Regs -> Term]]

\* What an instruction relies on: the variables have their types, and the
\* process that is run is READY and has a program.
MachineOK ==
  /\ state \in [Pids -> ProcState]
  /\ pc \in [Pids -> Nat]
  /\ regs \in RegFiles
  /\ mailbox \in [Pids -> Mailbox]
  /\ halted \in [Pids -> BOOLEAN]
  /\ lastError \in [Pids -> Status]
  /\ sleepUntil \in [Pids -> 0..(ClockMod - 1)]
  /\ clock \in Nat
  /\ \A p \in Pids : running = p => /\ state[p] = "READY" /\ ~halted[p]
                                  /\ program[p] \in DOMAIN Code

\* What that says of the process a run is in.
LEMMA MachineFacts ==
  ASSUME MachineOK, NEW p \in Pids, running = p
  PROVE  /\ state[p] = "READY"
         /\ ~halted[p]
         /\ program[p] \in DOMAIN Code
         /\ pc[p] \in Nat
         /\ Size(p) \in Nat
         /\ regs \in RegFiles
<1>1. program[p] \in DOMAIN Code
  BY DEF MachineOK
<1> QED BY <1>1, SizeType DEF MachineOK

\* What a decoded instruction may rely on: its bytes are bytes, its register
\* operands name registers, which hold terms.
LEMMA DecodedFacts ==
  ASSUME MachineOK, NEW p \in Pids, NEW op \in FixedOps, Decoded(p, op)
  PROVE  /\ running = p
         /\ \A j \in 0..OperandBytes(op) : Fetchable(p, j) /\ Byte(p, j) \in U8
         /\ \A k \in RegisterOperands(op) \cap 0..OperandBytes(op) :
              Byte(p, k) \in Regs /\ RegTerm(p, k) \in Term /\ RegInt(p, k) \in Int
         /\ AfterOperands(p, op) \in Nat
<1>1. running = p /\ Fetchable(p, OperandBytes(op))
  BY DEF Decoded, Executing
<1>2. /\ program[p] \in DOMAIN Code
      /\ pc[p] \in Nat
      /\ regs \in RegFiles
  BY <1>1, MachineFacts
<1>3. OperandBytes(op) \in Nat
  BY OperandBytesType
<1>4. ASSUME NEW j \in 0..OperandBytes(op)
      PROVE  Fetchable(p, j) /\ Byte(p, j) \in U8
  <2>1. j \in Nat
    BY <1>3
  <2>2. Fetchable(p, j)
    BY <1>1, <1>2, <1>3, FetchableBefore
  <2> QED BY <1>2, <2>1, <2>2, ByteType
<1>5. ASSUME NEW k \in RegisterOperands(op) \cap 0..OperandBytes(op)
      PROVE  Byte(p, k) \in Regs /\ RegTerm(p, k) \in Term /\ RegInt(p, k) \in Int
  <2>1. Byte(p, k) \in U8
    BY <1>4
  <2>2. Byte(p, k) \in Regs
    BY <2>1 DEF Decoded, ValidReg, Regs, U8
  <2>3. RegTerm(p, k) \in Term
    BY <1>2, <2>2 DEF RegTerm, RegFiles
  <2>4. RegInt(p, k) \in Int
    BY <2>3 DEF RegInt, GET_SMALLINT, Term
  <2> QED BY <2>2, <2>3, <2>4
<1>6. AfterOperands(p, op) \in Nat
  BY <1>2, <1>3 DEF AfterOperands
<1> QED BY <1>1, <1>4, <1>5, <1>6

\* The other processes' registers are as they were.
OthersKept(p, newRegs) == \A q \in Pids \ {p} : newRegs[q] = regs[q]

\* The register files a step of p may leave.
RegsOf(p) == {f \in RegFiles : OthersKept(p, f)}

\* Leaving the registers alone, and setting one, leaves such files.
LEMMA SetRegType ==
  ASSUME regs \in RegFiles, NEW p \in Pids
  PROVE  /\ regs \in RegsOf(p)
         /\ \A k, t : (Byte(p, k) \in Regs /\ t \in Term) => SetReg(p, k, t) \in RegsOf(p)
         /\ \A file \in [Regs -> Term] : [regs EXCEPT ![p] = file] \in RegsOf(p)
<1>1. ASSUME NEW file \in [Regs -> Term] PROVE [regs EXCEPT ![p] = file] \in RegsOf(p)
  BY DEF RegFiles, RegsOf, OthersKept
<1>2. ASSUME NEW k, NEW t, Byte(p, k) \in Regs, t \in Term PROVE SetReg(p, k, t) \in RegsOf(p)
  BY <1>2 DEF SetReg, RegFiles, RegsOf, OthersKept
<1>3. regs \in RegsOf(p)
  BY DEF RegsOf, OthersKept
<1> QED BY <1>1, <1>2, <1>3

-----------------------------------------------------------------------------
(* The three ways a step ends, and that each keeps the invariant.          *)

\* What a collection may do to the registers of p.
Relocated(p, newRegs) ==
  \A r \in Regs : \/ newRegs[p][r] = regs[p][r]
                  \/ /\ IsHeapRef(regs[p][r])
                     /\ newRegs[p][r].tag = regs[p][r].tag

\* The instruction failed: only a full heap may have moved the registers.
Faulted(p) ==
  \E at \in Nat, rc \in Status, newRegs \in RegsOf(p) :
    /\ FaultWith(p, at, rc, newRegs)
    /\ newRegs = regs \/ (rc = MB_HEAP_OOM /\ Relocated(p, newRegs))

\* A mailbox loses its first command or gets one that was accepted.
RingMoves(mb, next) ==
  \/ mb.count # 0 /\ next = Popped(mb)
  \/ \E cmd \in Command : PushStatus(mb, cmd) = MB_OK /\ next = Pushed(mb, cmd)

\* What a step may do to the mailbox and the state of a process: a mailbox
\* that changes belongs to a live process that is not left waiting, and
\* nothing but a wake-up changes the state.
MailStep(q) ==
  /\ \/ mailbox'[q] = mailbox[q]
     \/ /\ state[q] # "FREE" /\ state'[q] # "WAITING"
        /\ RingMoves(mailbox[q], mailbox'[q])
  /\ \/ state'[q] = state[q]
     \/ state[q] = "WAITING" /\ state'[q] = "READY"

\* The instruction succeeded and p is still READY.
Counted(p) ==
  /\ \E used \in {reductions[p], Reductions} : CountReduction(p, used)
  /\ \E at \in Nat : pc' = [pc EXCEPT ![p] = at]
  /\ regs' \in RegsOf(p)
  /\ mailbox' \in [Pids -> Mailbox]
  /\ state' \in [Pids -> ProcState]
  /\ \A q \in Pids : MailStep(q)
  /\ \E rc \in Status : lastError' = [lastError EXCEPT ![p] = rc]
  /\ UNCHANGED <<program, halted, sleepUntil, clock>>

\* The instruction took p out of READY, to wait only on an empty mailbox.
Left(p) ==
  /\ \E s \in {"WAITING", "SLEEPING", "HALTED"} :
       /\ LeaveReady(p, s)
       /\ halted' = [halted EXCEPT ![p] = (s = "HALTED")]
       /\ s = "WAITING" => mailbox[p].count = 0
  /\ \E at \in Nat : pc' = [pc EXCEPT ![p] = at]
  /\ \E t \in 0..(ClockMod - 1) : sleepUntil' = [sleepUntil EXCEPT ![p] = t]

-----------------------------------------------------------------------------
(* Every instruction ends in one of the three ways.                        *)

\* An instruction that sets registers and pc only is counted.
LEMMA RetireCounts ==
  ASSUME MachineOK, NEW p \in Pids, running = p, NEW at \in Nat,
         NEW newRegs \in RegsOf(p), NEW used \in {reductions[p], Reductions},
         RetireUsing(p, at, newRegs, used)
  PROVE  Counted(p)
<1>1. /\ CountReduction(p, used)
      /\ pc' = [pc EXCEPT ![p] = at]
      /\ regs' \in RegsOf(p)
      /\ UNCHANGED <<state, program, mailbox, halted, lastError, sleepUntil, clock>>
  BY DEF RetireUsing
<1>2. /\ mailbox' \in [Pids -> Mailbox]
      /\ state' \in [Pids -> ProcState]
      /\ \A q \in Pids : MailStep(q)
  BY <1>1 DEF MachineOK, MailStep
<1>3. \E rc \in Status : lastError' = [lastError EXCEPT ![p] = rc]
  <2>1. lastError[p] \in Status /\ lastError' = [lastError EXCEPT ![p] = lastError[p]]
    BY <1>1 DEF MachineOK
  <2> QED BY <2>1
<1> QED BY <1>1, <1>2, <1>3 DEF Counted

\* A fault that leaves the registers alone is a fault.
LEMMA FaultFaults ==
  ASSUME MachineOK, NEW p \in Pids, NEW at \in Nat, NEW rc \in Status, Fault(p, at, rc)
  PROVE  Faulted(p)
<1>1. regs \in RegsOf(p)
  BY SetRegType DEF MachineOK
<1> QED BY <1>1 DEF Fault, Faulted

\* The instruction's operands, spelled out per opcode (mb_vm.c).
LEMMA OpcodeTable ==
  /\ \A op \in {MB_OP_NOP, MB_OP_YIELD, MB_OP_HALT} :
       op \in FixedOps /\ OperandBytes(op) = 0 /\ RegisterOperands(op) = {}
  /\ \A op \in {MB_OP_SELF, MB_OP_SLEEP_MS} :
       op \in FixedOps /\ OperandBytes(op) = 1 /\ RegisterOperands(op) = {1}
  /\ \A op \in {MB_OP_HEAD, MB_OP_TAIL} :
       op \in FixedOps /\ OperandBytes(op) = 2 /\ RegisterOperands(op) = 1..2
  /\ \A op \in {MB_OP_MOVE, MB_OP_ADD, MB_OP_SUB, MB_OP_CONS} :
       op \in FixedOps /\ OperandBytes(op) = 3 /\ RegisterOperands(op) = 1..3
  /\ MB_OP_TUPLE_ELEM \in FixedOps /\ OperandBytes(MB_OP_TUPLE_ELEM) = 3
       /\ RegisterOperands(MB_OP_TUPLE_ELEM) = 1..2
  /\ MB_OP_JMP \in FixedOps /\ OperandBytes(MB_OP_JMP) = 4
       /\ RegisterOperands(MB_OP_JMP) = {}
  /\ \A op \in {MB_OP_CONST_I32, MB_OP_JMP_IF_ZERO} :
       op \in FixedOps /\ OperandBytes(op) = 5 /\ RegisterOperands(op) = {1}
  /\ MB_OP_RECV_CMD \in FixedOps /\ OperandBytes(MB_OP_RECV_CMD) = 5
       /\ RegisterOperands(MB_OP_RECV_CMD) = 1..5
  /\ MB_OP_SEND \in FixedOps /\ OperandBytes(MB_OP_SEND) = 6
       /\ RegisterOperands(MB_OP_SEND) = 1..6
  BY DEF FixedOps, OperandBytes, RegisterOperands, MB_OP_NOP, MB_OP_CONST_I32,
         MB_OP_MOVE, MB_OP_ADD, MB_OP_SUB, MB_OP_RECV_CMD, MB_OP_SEND, MB_OP_SELF,
         MB_OP_YIELD, MB_OP_JMP, MB_OP_JMP_IF_ZERO, MB_OP_SLEEP_MS,
         MB_OP_TUPLE_ELEM, MB_OP_CONS, MB_OP_HEAD, MB_OP_TAIL, MB_OP_HALT

\* The ways an instruction with fixed operands, or no instruction, fails.
LEMMA DecodingFaults ==
  ASSUME MachineOK, NEW p \in Pids,
         NoOpcode(p) \/ TruncatedOperands(p) \/ BadRegister(p) \/ BadOpcode(p)
  PROVE  Faulted(p)
<1>1. running = p
  BY DEF NoOpcode, TruncatedOperands, BadRegister, BadOpcode, Executing
<1>2. pc[p] \in Nat /\ Size(p) \in Nat
  BY <1>1, MachineFacts
<1>3. {MB_EOF, MB_BAD_REG, MB_BAD_OPCODE} \subseteq Status
  BY DEF Status, MB_EOF, MB_BAD_REG, MB_BAD_OPCODE
<1>4. CASE NoOpcode(p)
  BY <1>2, <1>3, <1>4, FaultFaults DEF NoOpcode
<1>5. CASE TruncatedOperands(p)
  BY <1>2, <1>3, <1>5, FaultFaults DEF TruncatedOperands
<1>6. CASE BadRegister(p)
  <2>1. PICK op \in FixedOps : Fault(p, AfterOperands(p, op), MB_BAD_REG)
    BY <1>6 DEF BadRegister
  <2>2. AfterOperands(p, op) \in Nat
    BY <1>2, OperandBytesType DEF AfterOperands
  <2> QED BY <1>3, <2>1, <2>2, FaultFaults
<1>7. CASE BadOpcode(p)
  <2>1. pc[p] + 1 \in Nat
    BY <1>2
  <2> QED BY <1>3, <1>7, <2>1, FaultFaults DEF BadOpcode
<1> QED BY <1>4, <1>5, <1>6, <1>7

\* Instructions that set at most one register from registers and constants.
LEMMA RegisterOpsCount ==
  ASSUME MachineOK, NEW p \in Pids,
         Nop(p) \/ ConstI32(p) \/ Move(p) \/ Add(p) \/ Sub(p) \/ Self(p) \/ Yield(p)
  PROVE  Counted(p)
<1>0. running = p
  BY DEF Nop, ConstI32, Move, Add, Sub, Self, Yield, Decoded, Executing
<1>1. regs \in RegFiles /\ regs \in RegsOf(p)
  BY <1>0, MachineFacts, SetRegType
<1>2. CASE Nop(p)
  <2>1. Decoded(p, MB_OP_NOP) /\ MB_OP_NOP \in FixedOps
    BY <1>2, OpcodeTable DEF Nop
  <2>2. AfterOperands(p, MB_OP_NOP) \in Nat
    BY <2>1, DecodedFacts
  <2> QED BY <1>0, <1>1, <1>2, <2>2, RetireCounts DEF Nop, Retire
<1>3. CASE Yield(p)
  <2>1. Decoded(p, MB_OP_YIELD) /\ MB_OP_YIELD \in FixedOps
    BY <1>3, OpcodeTable DEF Yield
  <2>2. AfterOperands(p, MB_OP_YIELD) \in Nat
    BY <2>1, DecodedFacts
  <2> QED BY <1>0, <1>1, <1>3, <2>2, RetireCounts DEF Yield
<1>4. CASE ConstI32(p)
  <2>1. /\ Decoded(p, MB_OP_CONST_I32)
        /\ MB_OP_CONST_I32 \in FixedOps
        /\ OperandBytes(MB_OP_CONST_I32) = 5
        /\ RegisterOperands(MB_OP_CONST_I32) = {1}
    BY <1>4, OpcodeTable DEF ConstI32
  <2>2. /\ AfterOperands(p, MB_OP_CONST_I32) \in Nat
        /\ Byte(p, 1) \in Regs
        /\ Fetchable(p, 2 + 3)
    BY <2>1, DecodedFacts
  <2>3. I32(p, 2) \in Int
    BY <1>0, <2>2, MachineFacts, I32Type
  <2>4. SetReg(p, 1, MAKE_SMALLINT(I32(p, 2))) \in RegsOf(p)
    BY <1>1, <2>2, <2>3, SmallintType, SetRegType
  <2> QED BY <1>0, <1>1, <1>4, <2>2, <2>4, RetireCounts DEF ConstI32, Retire
<1>5. CASE Move(p)
  <2>1. /\ Decoded(p, MB_OP_MOVE)
        /\ MB_OP_MOVE \in FixedOps
        /\ OperandBytes(MB_OP_MOVE) = 3
        /\ RegisterOperands(MB_OP_MOVE) = 1..3
    BY <1>5, OpcodeTable DEF Move
  <2>2. /\ AfterOperands(p, MB_OP_MOVE) \in Nat
        /\ Byte(p, 1) \in Regs
        /\ RegTerm(p, 2) \in Term
    BY <2>1, DecodedFacts
  <2>3. SetReg(p, 1, RegTerm(p, 2)) \in RegsOf(p)
    BY <1>1, <2>2, SetRegType
  <2> QED BY <1>0, <1>1, <1>5, <2>2, <2>3, RetireCounts DEF Move, Retire
<1>6. CASE Add(p) \/ Sub(p)
  <2>1. ASSUME NEW op \in {MB_OP_ADD, MB_OP_SUB}, Decoded(p, op)
        PROVE  /\ AfterOperands(p, op) \in Nat
               /\ Byte(p, 1) \in Regs
               /\ RegInt(p, 2) \in Int /\ RegInt(p, 3) \in Int
    <3>1. op \in FixedOps /\ OperandBytes(op) = 3 /\ RegisterOperands(op) = 1..3
      BY OpcodeTable
    <3> QED BY <2>1, <3>1, DecodedFacts
  <2>2. CASE Add(p)
    <3>1. /\ AfterOperands(p, MB_OP_ADD) \in Nat
          /\ Byte(p, 1) \in Regs
          /\ RegInt(p, 2) + RegInt(p, 3) \in Int
      BY <2>1, <2>2 DEF Add
    <3>2. SetReg(p, 1, MAKE_SMALLINT(RegInt(p, 2) + RegInt(p, 3))) \in RegsOf(p)
      BY <1>1, <3>1, SmallintType, SetRegType
    <3> QED BY <1>0, <1>1, <2>2, <3>1, <3>2, RetireCounts DEF Add, Retire
  <2>3. CASE Sub(p)
    <3>1. /\ AfterOperands(p, MB_OP_SUB) \in Nat
          /\ Byte(p, 1) \in Regs
          /\ RegInt(p, 2) - RegInt(p, 3) \in Int
      BY <2>1, <2>3 DEF Sub
    <3>2. SetReg(p, 1, MAKE_SMALLINT(RegInt(p, 2) - RegInt(p, 3))) \in RegsOf(p)
      BY <1>1, <3>1, SmallintType, SetRegType
    <3> QED BY <1>0, <1>1, <2>3, <3>1, <3>2, RetireCounts DEF Sub, Retire
  <2> QED BY <1>6, <2>2, <2>3
<1>7. CASE Self(p)
  <2>1. /\ Decoded(p, MB_OP_SELF)
        /\ MB_OP_SELF \in FixedOps
        /\ OperandBytes(MB_OP_SELF) = 1
        /\ RegisterOperands(MB_OP_SELF) = {1}
    BY <1>7, OpcodeTable DEF Self
  <2>2. AfterOperands(p, MB_OP_SELF) \in Nat /\ Byte(p, 1) \in Regs
    BY <2>1, DecodedFacts
  <2>3. SetReg(p, 1, MAKE_PID(p)) \in RegsOf(p)
    <3>1. p \in Int
      BY DEF Pids
    <3> QED BY <1>1, <2>2, <3>1, SmallintType, SetRegType
  <2> QED BY <1>0, <1>1, <1>7, <2>2, <2>3, RetireCounts DEF Self, Retire
<1> QED BY <1>2, <1>3, <1>4, <1>5, <1>6, <1>7

\* A jump is counted or fails.
LEMMA JumpToEnds ==
  ASSUME MachineOK, NEW p \in Pids, running = p, NEW from \in Nat, NEW offset \in Int,
         JumpTo(p, from, offset)
  PROVE  Counted(p) \/ Faulted(p)
<1>1. MB_EOF \in Status
  BY DEF Status, MB_EOF
<1>2. regs \in RegsOf(p) /\ Size(p) \in Nat
  BY MachineFacts, SetRegType
<1>3. CASE from + offset < 0
  BY <1>1, <1>3, FaultFaults DEF JumpTo
<1>4. CASE ~(from + offset < 0) /\ from + offset > Size(p)
  <2>1. from + offset \in Nat /\ Fault(p, from + offset, MB_EOF)
    BY <1>4 DEF JumpTo
  <2> QED BY <1>1, <2>1, FaultFaults
<1>5. CASE ~(from + offset < 0) /\ ~(from + offset > Size(p))
  <2>1. from + offset \in Nat /\ Retire(p, from + offset, regs)
    BY <1>5 DEF JumpTo
  <2> QED BY <1>2, <2>1, RetireCounts DEF Retire
<1> QED BY <1>3, <1>4, <1>5

\* JMP and JMP_IF_ZERO.
LEMMA JumpsEnd ==
  ASSUME MachineOK, NEW p \in Pids, Jmp(p) \/ JmpIfZero(p)
  PROVE  Counted(p) \/ Faulted(p)
<1>0. running = p
  BY DEF Jmp, JmpIfZero, Decoded, Executing
<1>1. CASE Jmp(p)
  <2>1. /\ Decoded(p, MB_OP_JMP) /\ MB_OP_JMP \in FixedOps
        /\ OperandBytes(MB_OP_JMP) = 4
    BY <1>1, OpcodeTable DEF Jmp
  <2>2. AfterOperands(p, MB_OP_JMP) \in Nat /\ Fetchable(p, 1 + 3)
    BY <2>1, DecodedFacts
  <2>3. I32(p, 1) \in Int
    BY <1>0, <2>2, MachineFacts, I32Type
  <2> QED BY <1>0, <1>1, <2>2, <2>3, JumpToEnds DEF Jmp
<1>2. CASE JmpIfZero(p)
  <2>1. /\ Decoded(p, MB_OP_JMP_IF_ZERO) /\ MB_OP_JMP_IF_ZERO \in FixedOps
        /\ OperandBytes(MB_OP_JMP_IF_ZERO) = 5
    BY <1>2, OpcodeTable DEF JmpIfZero
  <2>2. AfterOperands(p, MB_OP_JMP_IF_ZERO) \in Nat /\ Fetchable(p, 2 + 3)
    BY <2>1, DecodedFacts
  <2>3. I32(p, 2) \in Int
    BY <1>0, <2>2, MachineFacts, I32Type
  <2>4. regs \in RegsOf(p)
    BY <1>0, MachineFacts, SetRegType
  <2>5. CASE RegTerm(p, 1) = MAKE_SMALLINT(0)
    BY <1>0, <1>2, <2>2, <2>3, <2>5, JumpToEnds DEF JmpIfZero
  <2>6. CASE RegTerm(p, 1) # MAKE_SMALLINT(0)
    BY <1>0, <1>2, <2>2, <2>4, <2>6, RetireCounts DEF JmpIfZero, Retire
  <2> QED BY <2>5, <2>6
<1> QED BY <1>1, <1>2

\* A byte of an instruction of the running process.
LEMMA RunningByte ==
  ASSUME MachineOK, NEW p \in Pids, running = p, NEW k \in Nat, Fetchable(p, k)
  PROVE  Byte(p, k) \in U8
  BY MachineFacts, ByteType

\* A byte that names a valid register names one of the model's registers.
LEMMA ValidRegType ==
  ASSUME NEW r \in U8, ValidReg(r)
  PROVE  r \in Regs
  BY DEF ValidReg, Regs, U8

\* Fetching operands one by one fails with a fault.
LEMMA OperandFaultFaults ==
  ASSUME MachineOK, NEW p \in Pids, running = p, NEW first \in Nat, NEW last \in Int,
         OperandFault(p, first, last)
  PROVE  Faulted(p)
<1> DEFINE bad == {k \in first..last : Fetchable(p, k) /\ ~ValidReg(Byte(p, k))}
<1>1. /\ MB_EOF \in Status /\ MB_BAD_REG \in Status
      /\ pc[p] \in Nat /\ Size(p) \in Nat
  BY MachineFacts DEF Status, MB_EOF, MB_BAD_REG
<1>2. \/ Fault(p, Size(p), MB_EOF)
      \/ \E k \in first..last : Fault(p, pc[p] + k + 1, MB_BAD_REG)
  BY DEF OperandFault
<1>3. ASSUME NEW k \in first..last, Fault(p, pc[p] + k + 1, MB_BAD_REG)
      PROVE  Faulted(p)
  <2>1. pc[p] + k + 1 \in Nat
    BY <1>1
  <2> QED BY <1>1, <1>3, <2>1, FaultFaults
<1> QED BY <1>1, <1>2, <1>3, FaultFaults

\* CALL_BIF whose operands cannot all be fetched.
LEMMA CallBifUndecodedFaults ==
  ASSUME MachineOK, NEW p \in Pids, CallBifUndecoded(p)
  PROVE  Faulted(p)
<1>0. running = p
  BY DEF CallBifUndecoded, Executing
<1>1. /\ MB_EOF \in Status /\ MB_BAD_ARGC \in Status
      /\ pc[p] + 3 \in Nat /\ Size(p) \in Nat
  BY <1>0, MachineFacts DEF Status, MB_EOF, MB_BAD_ARGC
<1>2. Fetchable(p, 2) => CallBifArgc(p) \in 0..255
  BY <1>0, RunningByte DEF CallBifArgc, U8
<1>3. CASE ~Fetchable(p, 2)
  BY <1>1, <1>3, FaultFaults DEF CallBifUndecoded
<1>4. CASE Fetchable(p, 2) /\ CallBifArgc(p) > 8
  <2>1. Fault(p, pc[p] + 3, MB_BAD_ARGC)
    BY <1>2, <1>4 DEF CallBifUndecoded
  <2> QED BY <1>1, <2>1, FaultFaults
<1>5. CASE Fetchable(p, 2) /\ ~(CallBifArgc(p) > 8)
  <2>1. OperandFault(p, 3, CallBifArgc(p) + 2)
    BY <1>5 DEF CallBifUndecoded
  <2>2. CallBifArgc(p) + 2 \in Int
    BY <1>2, <1>5
  <2> QED BY <1>0, <2>1, <2>2, OperandFaultFaults
<1> QED BY <1>3, <1>4, <1>5

\* The clock the program sees fits its 32 bits (mb_hal_monotonic_ms).
LEMMA NowType ==
  ASSUME clock \in Nat
  PROVE  Now \in 0..(ClockMod - 1)
  BY DEF Now

\* CALL_BIF: refused with a fault, or done and counted (mb_call_bif).
LEMMA CallBifEnds ==
  ASSUME MachineOK, NEW p \in Pids, CallBif(p)
  PROVE  Counted(p) \/ Faulted(p)
<1> DEFINE argc == CallBifArgc(p)
           bif  == Byte(p, 1)
           dst  == argc + 3
           arg  == [i \in 1..argc |-> RegInt(p, i + 2)]
           rc   == BifStatus(bif, arg, Byte(p, dst))
<1>0. running = p
  BY DEF CallBif, Executing
<1>1. argc \in Nat /\ dst \in Nat
  <2>1. Fetchable(p, 2)
    BY DEF CallBif
  <2>2. argc \in U8
    BY <1>0, <2>1, RunningByte DEF CallBifArgc
  <2> QED BY <2>2 DEF U8
<1>2. Byte(p, dst) \in U8
  BY <1>0, <1>1, RunningByte DEF CallBif
<1>3. pc[p] + dst + 1 \in Nat
  BY <1>0, <1>1, MachineFacts
<1>4. rc \in Status
  BY DEF BifStatus, Status, MB_BAD_REG, MB_BAD_BIF, MB_BAD_ARGC, MB_BAD_ARGUMENT, MB_OK
<1>5. CASE rc # MB_OK /\ Fault(p, pc[p] + dst + 1, rc)
  BY <1>3, <1>4, <1>5, FaultFaults
<1>6. CASE /\ rc = MB_OK
           /\ \E result \in BifResults(bif) : regs' = SetReg(p, dst, MAKE_SMALLINT(result))
           /\ pc' = [pc EXCEPT ![p] = pc[p] + dst + 1]
           /\ lastError' = [lastError EXCEPT ![p] = MB_OK]
           /\ CountReduction(p, reductions[p])
           /\ UNCHANGED <<state, program, mailbox, halted, sleepUntil, clock>>
  <2>1. PICK result \in BifResults(bif) : regs' = SetReg(p, dst, MAKE_SMALLINT(result))
    BY <1>6
  <2>2. result \in Int
    <3>1. clock \in Nat
      BY DEF MachineOK
    <3>2. Now \in Int
      BY <3>1, NowType
    <3> HIDE DEF bif
    <3> QED BY <2>1, <3>2 DEF BifResults
  <2>3. Byte(p, dst) \in Regs
    <3>1. ValidReg(Byte(p, dst))
      BY <1>6 DEF BifStatus, MB_OK, MB_BAD_REG
    <3> QED BY <1>2, <3>1, ValidRegType
  <2>4. regs' \in RegsOf(p)
    BY <1>0, <2>1, <2>2, <2>3, MachineFacts, SmallintType, SetRegType
  <2>5. /\ mailbox' \in [Pids -> Mailbox]
        /\ state' \in [Pids -> ProcState]
        /\ \A q \in Pids : MailStep(q)
    BY <1>6 DEF MachineOK, MailStep
  <2>6. \E st \in Status : lastError' = [lastError EXCEPT ![p] = st]
    BY <1>6 DEF MB_OK, Status
  <2> QED BY <1>3, <1>6, <2>4, <2>5, <2>6 DEF Counted
<1> QED BY <1>5, <1>6 DEF CallBif

-----------------------------------------------------------------------------
(* Messages.                                                               *)

\* The registers after a command has been put into five of them.
LEMMA SetCommandRegsType ==
  ASSUME regs \in RegFiles, NEW p \in Pids,
         Byte(p, 1) \in Regs, Byte(p, 2) \in Regs, Byte(p, 3) \in Regs,
         Byte(p, 4) \in Regs, Byte(p, 5) \in Regs,
         NEW type \in Int, NEW a \in Int, NEW b \in Int, NEW c \in Int, NEW d \in Int
  PROVE  SetCommandRegs(p, type, a, b, c, d) \in RegsOf(p)
<1> DEFINE file == [regs[p] EXCEPT ![Byte(p, 1)] = MAKE_SMALLINT(type),
                                   ![Byte(p, 2)] = MAKE_SMALLINT(a),
                                   ![Byte(p, 3)] = MAKE_SMALLINT(b),
                                   ![Byte(p, 4)] = MAKE_SMALLINT(c),
                                   ![Byte(p, 5)] = MAKE_SMALLINT(d)]
<1>1. /\ MAKE_SMALLINT(type) \in Term /\ MAKE_SMALLINT(a) \in Term
      /\ MAKE_SMALLINT(b) \in Term /\ MAKE_SMALLINT(c) \in Term
      /\ MAKE_SMALLINT(d) \in Term
  BY SmallintType
<1>2. regs[p] \in [Regs -> Term]
  BY DEF RegFiles
<1>3. file \in [Regs -> Term]
  BY <1>1, <1>2
<1>4. SetCommandRegs(p, type, a, b, c, d) = [regs EXCEPT ![p] = file]
  BY DEF SetCommandRegs, RegFiles
<1> HIDE DEF file
<1> QED BY <1>3, <1>4, SetRegType

\* RECV_CMD with a command in the mailbox.
LEMMA RecvCmdCounts ==
  ASSUME MachineOK, NEW p \in Pids, RecvCmd(p)
  PROVE  Counted(p)
<1> DEFINE cmd == First(mailbox[p])
           rc  == ValidateCommand(cmd)
<1>0. running = p
  BY DEF RecvCmd, Decoded, Executing
<1>1. /\ Decoded(p, MB_OP_RECV_CMD) /\ MB_OP_RECV_CMD \in FixedOps
      /\ OperandBytes(MB_OP_RECV_CMD) = 5
      /\ RegisterOperands(MB_OP_RECV_CMD) = 1..5
  BY OpcodeTable DEF RecvCmd
<1>2. /\ AfterOperands(p, MB_OP_RECV_CMD) \in Nat
      /\ Byte(p, 1) \in Regs /\ Byte(p, 2) \in Regs /\ Byte(p, 3) \in Regs
      /\ Byte(p, 4) \in Regs /\ Byte(p, 5) \in Regs
  BY <1>1, DecodedFacts
<1>3. mailbox \in [Pids -> Mailbox] /\ regs \in RegFiles /\ rc \in Status
  BY ValidateType DEF MachineOK
<1>4. Popped(mailbox[p]) \in Mailbox /\ cmd \in Command
  BY <1>3, PoppedType DEF RecvCmd
<1>5. ASSUME NEW type \in Int, NEW a \in Int, NEW b \in Int, NEW c \in Int, NEW d \in Int
      PROVE  SetCommandRegs(p, type, a, b, c, d) \in RegsOf(p)
  BY <1>2, <1>3, SetCommandRegsType
<1>6. regs' \in RegsOf(p)
  <2>1. /\ cmd.type \in Int /\ cmd.a \in Int /\ cmd.b \in Int
        /\ cmd.c \in Int /\ cmd.d \in Int
    BY <1>4 DEF Command
  <2>2. MB_CMD_NONE \in Int /\ rc \in Int
    BY <1>3 DEF MB_CMD_NONE, Status
  <2>3. \/ regs' = SetCommandRegs(p, cmd.type, cmd.a, cmd.b, cmd.c, cmd.d)
        \/ regs' = SetCommandRegs(p, MB_CMD_NONE, rc, 0, 0, 0)
    BY DEF RecvCmd
  <2> HIDE DEF cmd, rc
  <2> QED BY <1>5, <2>1, <2>2, <2>3
<1>7. /\ mailbox' \in [Pids -> Mailbox]
      /\ \E st \in Status : lastError' = [lastError EXCEPT ![p] = st]
  BY <1>3, <1>4 DEF RecvCmd, MachineOK
<1>8. /\ state' \in [Pids -> ProcState]
      /\ \A q \in Pids : MailStep(q)
  <2>1. state' = state /\ mailbox[p].count # 0
        /\ mailbox' = [mailbox EXCEPT ![p] = Popped(mailbox[p])]
    BY DEF RecvCmd
  <2>2. state[p] = "READY" /\ state \in [Pids -> ProcState]
    BY <1>0, MachineFacts DEF MachineOK
  <2>3. \A q \in Pids : q # p => mailbox'[q] = mailbox[q]
    BY <1>3, <2>1
  <2>4. RingMoves(mailbox[p], mailbox'[p])
    BY <1>3, <2>1 DEF RingMoves
  <2> QED BY <2>1, <2>2, <2>3, <2>4 DEF MailStep
<1>9. \E used \in {reductions[p], Reductions} : CountReduction(p, used)
  BY DEF RecvCmd
<1> QED BY <1>2, <1>6, <1>7, <1>8, <1>9 DEF Counted, RecvCmd

\* A push changes the receiver's mailbox and wakes it if it was waiting.
LEMMA DeliverType ==
  ASSUME MachineOK, NEW q \in Pids, NEW cmd \in Command, Live(q), Deliver(q, cmd)
  PROVE  /\ mailbox' \in [Pids -> Mailbox]
         /\ state' \in [Pids -> ProcState]
         /\ \A r \in Pids : MailStep(r)
<1>1. mailbox \in [Pids -> Mailbox] /\ state \in [Pids -> ProcState]
  BY DEF MachineOK
<1>2. CASE PushStatus(mailbox[q], cmd) = MB_OK
  <2>1. Pushed(mailbox[q], cmd) \in Mailbox
    BY <1>1, <1>2, PushStatusOk, PushedType
  <2>2. /\ mailbox' = [mailbox EXCEPT ![q] = Pushed(mailbox[q], cmd)]
        /\ state' = [state EXCEPT ![q] = IF state[q] = "WAITING" THEN "READY" ELSE state[q]]
    BY <1>2 DEF Deliver
  <2>3. RingMoves(mailbox[q], mailbox'[q])
    BY <1>1, <1>2, <2>2 DEF RingMoves
  <2>4. \A r \in Pids : r # q => mailbox'[r] = mailbox[r] /\ state'[r] = state[r]
    BY <1>1, <2>2
  <2>5. MailStep(q)
    BY <1>1, <2>2, <2>3 DEF MailStep, Live
  <2>6. \A r \in Pids : MailStep(r)
    BY <2>4, <2>5 DEF MailStep
  <2> QED BY <1>1, <2>1, <2>2, <2>6 DEF ProcState
<1>3. CASE PushStatus(mailbox[q], cmd) # MB_OK
  BY <1>1, <1>3 DEF Deliver, MailStep
<1> QED BY <1>2, <1>3

\* SEND, to a live pid or to none.
LEMMA SendCounts ==
  ASSUME MachineOK, NEW p \in Pids, Send(p)
  PROVE  Counted(p)
<1> DEFINE q   == PidOf(RegInt(p, 1))
           cmd == SendCommand(p)
<1>0. running = p
  BY DEF Send, Decoded, Executing
<1>1. /\ Decoded(p, MB_OP_SEND) /\ MB_OP_SEND \in FixedOps
      /\ OperandBytes(MB_OP_SEND) = 6
      /\ RegisterOperands(MB_OP_SEND) = 1..6
  BY OpcodeTable DEF Send
<1>2. /\ AfterOperands(p, MB_OP_SEND) \in Nat
      /\ Byte(p, 1) \in Regs
      /\ RegInt(p, 2) \in Int /\ RegInt(p, 3) \in Int /\ RegInt(p, 4) \in Int
      /\ RegInt(p, 5) \in Int /\ RegInt(p, 6) \in Int
  BY <1>1, DecodedFacts
<1>3. cmd \in Command
  BY <1>2 DEF SendCommand, Command
<1>4. regs \in RegFiles
  BY <1>0, MachineFacts
<1>5. regs' \in RegsOf(p)
  <2>1. ASSUME NEW v \in Int PROVE SetReg(p, 1, MAKE_SMALLINT(v)) \in RegsOf(p)
    BY <1>2, <1>4, SmallintType, SetRegType
  <2>2. PushStatus(mailbox[q], cmd) \in Int /\ MB_BAD_PID \in Int
    BY PushStatusType DEF Status, MB_BAD_PID
  <2>3. \/ regs' = SetReg(p, 1, MAKE_SMALLINT(PushStatus(mailbox[q], cmd)))
        \/ regs' = SetReg(p, 1, MAKE_SMALLINT(MB_BAD_PID))
    BY DEF Send
  <2> HIDE DEF q, cmd
  <2> QED BY <2>1, <2>2, <2>3
<1>6. /\ mailbox' \in [Pids -> Mailbox]
      /\ state' \in [Pids -> ProcState]
      /\ \A r \in Pids : MailStep(r)
  <2>1. CASE Live(q)
    <3>1. q \in Pids /\ Deliver(q, cmd)
      BY <2>1 DEF Send, Live
    <3> HIDE DEF q, cmd
    <3> QED BY <1>3, <2>1, <3>1, DeliverType
  <2>2. CASE ~Live(q)
    BY <2>2 DEF Send, MachineOK, MailStep
  <2> QED BY <2>1, <2>2
<1>7. \E rc \in Status : lastError' = [lastError EXCEPT ![p] = rc]
  <2>1. lastError[p] \in Status /\ lastError' = [lastError EXCEPT ![p] = lastError[p]]
    BY DEF Send, MachineOK
  <2> QED BY <2>1
<1>8. \E used \in {reductions[p], Reductions} : CountReduction(p, used)
  BY DEF Send
<1>9. \E at \in Nat : pc' = [pc EXCEPT ![p] = at]
  BY <1>2 DEF Send
<1>10. UNCHANGED <<program, halted, sleepUntil, clock>>
  BY DEF Send
<1> QED BY <1>5, <1>6, <1>7, <1>8, <1>9, <1>10 DEF Counted

-----------------------------------------------------------------------------
(* Leaving the run queue.                                                  *)

\* RECV_CMD on an empty mailbox, SLEEP_MS and HALT.
LEMMA LeavingLeaves ==
  ASSUME MachineOK, NEW p \in Pids, RecvCmdBlocks(p) \/ SleepMs(p) \/ Halt(p)
  PROVE  Left(p)
<1>0. running = p
  BY DEF RecvCmdBlocks, SleepMs, Halt, Decoded, Executing
<1>1. /\ pc \in [Pids -> Nat] /\ sleepUntil \in [Pids -> 0..(ClockMod - 1)]
      /\ halted \in [Pids -> BOOLEAN] /\ clock \in Nat /\ ~halted[p]
  BY <1>0, MachineFacts DEF MachineOK
<1>5. /\ pc' = pc => \E at \in Nat : pc' = [pc EXCEPT ![p] = at]
      /\ sleepUntil' = sleepUntil =>
           \E t \in 0..(ClockMod - 1) : sleepUntil' = [sleepUntil EXCEPT ![p] = t]
  <2>1. pc[p] \in Nat /\ pc = [pc EXCEPT ![p] = pc[p]]
    BY <1>1
  <2>2. /\ sleepUntil[p] \in 0..(ClockMod - 1)
        /\ sleepUntil = [sleepUntil EXCEPT ![p] = sleepUntil[p]]
    BY <1>1
  <2> QED BY <2>1, <2>2
<1>2. CASE RecvCmdBlocks(p)
  <2>1. halted' = [halted EXCEPT ![p] = ("WAITING" = "HALTED")]
    <3>1. halted' = halted /\ halted[p] = FALSE
      BY <1>1, <1>2 DEF RecvCmdBlocks
    <3> QED BY <1>1, <3>1
  <2> QED BY <1>2, <1>5, <2>1 DEF RecvCmdBlocks, Left
<1>3. CASE SleepMs(p)
  <2>1. /\ Decoded(p, MB_OP_SLEEP_MS) /\ MB_OP_SLEEP_MS \in FixedOps
        /\ OperandBytes(MB_OP_SLEEP_MS) = 1
        /\ RegisterOperands(MB_OP_SLEEP_MS) = {1}
    BY <1>3, OpcodeTable DEF SleepMs
  <2>2. AfterOperands(p, MB_OP_SLEEP_MS) \in Nat /\ RegInt(p, 1) \in Int
    BY <2>1, DecodedFacts
  <2>3. (Now + RegInt(p, 1)) % ClockMod \in 0..(ClockMod - 1)
    <3>1. Now + RegInt(p, 1) \in Int
      BY <1>1, <2>2, NowType
    <3> QED BY <3>1
  <2>4. halted' = [halted EXCEPT ![p] = ("SLEEPING" = "HALTED")]
    <3>1. halted' = halted /\ halted[p] = FALSE
      BY <1>1, <1>3 DEF SleepMs
    <3> QED BY <1>1, <3>1
  <2>5. \E at \in Nat : pc' = [pc EXCEPT ![p] = at]
    BY <1>3, <2>2 DEF SleepMs
  <2>6. \E t \in 0..(ClockMod - 1) : sleepUntil' = [sleepUntil EXCEPT ![p] = t]
    BY <1>3, <2>3 DEF SleepMs
  <2> QED BY <1>3, <2>4, <2>5, <2>6 DEF SleepMs, Left
<1>4. CASE Halt(p)
  <2>1. Decoded(p, MB_OP_HALT) /\ MB_OP_HALT \in FixedOps
    BY <1>4, OpcodeTable DEF Halt
  <2>2. AfterOperands(p, MB_OP_HALT) \in Nat
    BY <2>1, DecodedFacts
  <2>3. \E at \in Nat : pc' = [pc EXCEPT ![p] = at]
    BY <1>4, <2>2 DEF Halt
  <2>4. halted' = [halted EXCEPT ![p] = ("HALTED" = "HALTED")]
    BY <1>4 DEF Halt
  <2>5. LeaveReady(p, "HALTED") /\ sleepUntil' = sleepUntil
    BY <1>4 DEF Halt
  <2> QED BY <1>5, <2>3, <2>4, <2>5 DEF Left
<1> QED BY <1>2, <1>3, <1>4

-----------------------------------------------------------------------------
(* Heap instructions.                                                      *)

\* A collection leaves terms in the registers, with the tags they had.
LEMMA RelocatedType ==
  ASSUME MachineOK, NEW p \in Pids, NEW file \in RelocatedRegs(p)
  PROVE  /\ file \in [Regs -> Term]
         /\ \A r \in Regs : \/ file[r] = regs[p][r]
                            \/ IsHeapRef(regs[p][r]) /\ file[r].tag = regs[p][r].tag
<1> DEFINE refs == {r \in Regs : IsHeapRef(regs[p][r])}
<1>1. regs[p] \in [Regs -> Term]
  BY DEF MachineOK, RegFiles
<1>2. PICK loc \in [refs -> HeapLocs] :
        file = [r \in Regs |-> IF r \in refs THEN [regs[p][r] EXCEPT !.val = loc[r]]
                               ELSE regs[p][r]]
  BY DEF RelocatedRegs
<1>3. ASSUME NEW r \in Regs, r \in refs
      PROVE  /\ [regs[p][r] EXCEPT !.val = loc[r]] \in Term
             /\ [regs[p][r] EXCEPT !.val = loc[r]].tag = regs[p][r].tag
             /\ IsHeapRef(regs[p][r])
  <2>1. loc[r] \in Int
    BY <1>2, <1>3 DEF HeapLocs
  <2> QED BY <1>1, <1>3, <2>1 DEF Term
<1> HIDE DEF refs
<1> QED BY <1>1, <1>2, <1>3

\* A reference to any location is a term.
LEMMA ReferenceType ==
  ASSUME NEW loc \in HeapLocs
  PROVE  MAKE_BOXED(loc) \in Term /\ MAKE_CONS(loc) \in Term
  BY DEF MAKE_BOXED, MAKE_CONS, Term, TermTag, HeapLocs

\* How an allocation ends, whichever term it makes.
LEMMA AllocationEnds ==
  ASSUME MachineOK, NEW p \in Pids, running = p, NEW at \in Nat,
         Byte(p, 1) \in Regs, NEW file \in RelocatedRegs(p),
         \/ \E t \in Term :
              Retire(p, at, [regs EXCEPT ![p] = [file EXCEPT ![Byte(p, 1)] = t]])
         \/ FaultWith(p, at, MB_HEAP_OOM, [regs EXCEPT ![p] = file])
  PROVE  Counted(p) \/ Faulted(p)
<1>1. file \in [Regs -> Term] /\ regs \in RegFiles
  BY RelocatedType, MachineFacts
<1>2. CASE \E t \in Term :
             Retire(p, at, [regs EXCEPT ![p] = [file EXCEPT ![Byte(p, 1)] = t]])
  <2>1. PICK t \in Term :
          Retire(p, at, [regs EXCEPT ![p] = [file EXCEPT ![Byte(p, 1)] = t]])
    BY <1>2
  <2>2. [regs EXCEPT ![p] = [file EXCEPT ![Byte(p, 1)] = t]] \in RegsOf(p)
    <3>1. [file EXCEPT ![Byte(p, 1)] = t] \in [Regs -> Term]
      BY <1>1
    <3> QED BY <1>1, <3>1, SetRegType
  <2> QED BY <2>1, <2>2, RetireCounts DEF Retire
<1>3. CASE FaultWith(p, at, MB_HEAP_OOM, [regs EXCEPT ![p] = file])
  <2>1. [regs EXCEPT ![p] = file] \in RegsOf(p)
    BY <1>1, SetRegType
  <2>2. MB_HEAP_OOM \in Status
    BY DEF Status, MB_HEAP_OOM
  <2>3. Relocated(p, [regs EXCEPT ![p] = file])
    <3>1. [regs EXCEPT ![p] = file][p] = file
      BY <1>1 DEF RegFiles
    <3> QED BY <3>1, RelocatedType DEF Relocated
  <2> QED BY <1>3, <2>1, <2>2, <2>3 DEF Faulted
<1> QED BY <1>2, <1>3

\* MAKE_TUPLE whose operands cannot all be fetched.
LEMMA MakeTupleUndecodedFaults ==
  ASSUME MachineOK, NEW p \in Pids, MakeTupleUndecoded(p)
  PROVE  Faulted(p)
<1>0. running = p
  BY DEF MakeTupleUndecoded, Executing
<1>1. /\ {MB_EOF, MB_BAD_ARITY, MB_BAD_REG} \subseteq Status
      /\ pc[p] + 3 \in Nat /\ Size(p) \in Nat
  BY <1>0, MachineFacts DEF Status, MB_EOF, MB_BAD_ARITY, MB_BAD_REG
<1>2. \/ Fault(p, Size(p), MB_EOF)
      \/ Fault(p, pc[p] + 3, MB_BAD_ARITY)
      \/ Fault(p, pc[p] + 3, MB_BAD_REG)
      \/ Fetchable(p, 2) /\ OperandFault(p, 3, MakeTupleArity(p) + 2)
  BY DEF MakeTupleUndecoded
<1>3. CASE Fetchable(p, 2) /\ OperandFault(p, 3, MakeTupleArity(p) + 2)
  <2>1. MakeTupleArity(p) \in U8
    BY <1>0, <1>3, RunningByte DEF MakeTupleArity
  <2>2. MakeTupleArity(p) + 2 \in Int
    BY <2>1 DEF U8
  <2> QED BY <1>0, <1>3, <2>2, OperandFaultFaults
<1> QED BY <1>1, <1>2, <1>3, FaultFaults

\* MAKE_TUPLE: the tuple's reference in a register, or no room.
LEMMA MakeTupleEnds ==
  ASSUME MachineOK, NEW p \in Pids, MakeTuple(p)
  PROVE  Counted(p) \/ Faulted(p)
<1> DEFINE after == pc[p] + MakeTupleArity(p) + 3
<1>0. running = p /\ Fetchable(p, 2) /\ ValidReg(Byte(p, 1))
  BY DEF MakeTuple, Executing
<1>1. program[p] \in DOMAIN Code /\ pc[p] \in Nat
  BY <1>0, MachineFacts
<1>2. after \in Nat
  <2>1. MakeTupleArity(p) \in U8
    BY <1>0, RunningByte DEF MakeTupleArity
  <2> QED BY <1>1, <2>1 DEF U8
<1>3. Byte(p, 1) \in Regs
  <2>1. Fetchable(p, 1)
    BY <1>0, <1>1, FetchableBefore
  <2>2. Byte(p, 1) \in U8
    BY <1>0, <2>1, RunningByte
  <2> QED BY <1>0, <2>2, ValidRegType
<1>4. PICK file \in RelocatedRegs(p) :
        \/ \E ref \in {MAKE_BOXED(loc) : loc \in HeapLocs} :
             Retire(p, after, [regs EXCEPT ![p] = [file EXCEPT ![Byte(p, 1)] = ref]])
        \/ FaultWith(p, after, MB_HEAP_OOM, [regs EXCEPT ![p] = file])
  BY DEF MakeTuple, Allocate
<1>5. \/ \E t \in Term :
           Retire(p, after, [regs EXCEPT ![p] = [file EXCEPT ![Byte(p, 1)] = t]])
      \/ FaultWith(p, after, MB_HEAP_OOM, [regs EXCEPT ![p] = file])
  BY <1>4, ReferenceType
<1> HIDE DEF after
<1> QED BY <1>0, <1>2, <1>3, <1>5, AllocationEnds

\* CONS, likewise.
LEMMA ConsEnds ==
  ASSUME MachineOK, NEW p \in Pids, Cons(p)
  PROVE  Counted(p) \/ Faulted(p)
<1> DEFINE after == AfterOperands(p, MB_OP_CONS)
<1>1. /\ Decoded(p, MB_OP_CONS) /\ MB_OP_CONS \in FixedOps
      /\ OperandBytes(MB_OP_CONS) = 3 /\ RegisterOperands(MB_OP_CONS) = 1..3
  BY OpcodeTable DEF Cons
<1>2. running = p /\ after \in Nat /\ Byte(p, 1) \in Regs
  BY <1>1, DecodedFacts
<1>3. PICK file \in RelocatedRegs(p) :
        \/ \E ref \in {MAKE_CONS(loc) : loc \in HeapLocs} :
             Retire(p, after, [regs EXCEPT ![p] = [file EXCEPT ![Byte(p, 1)] = ref]])
        \/ FaultWith(p, after, MB_HEAP_OOM, [regs EXCEPT ![p] = file])
  BY DEF Cons, Allocate
<1>4. \/ \E t \in Term :
           Retire(p, after, [regs EXCEPT ![p] = [file EXCEPT ![Byte(p, 1)] = t]])
      \/ FaultWith(p, after, MB_HEAP_OOM, [regs EXCEPT ![p] = file])
  BY <1>3, ReferenceType
<1> HIDE DEF after
<1> QED BY <1>2, <1>4, AllocationEnds

\* TUPLE_ELEM, HEAD and TAIL load a term or fail.
LEMMA LoadsEnd ==
  ASSUME MachineOK, NEW p \in Pids, TupleElem(p) \/ HeadOrTail(p)
  PROVE  Counted(p) \/ Faulted(p)
<1>1. PICK op \in {MB_OP_TUPLE_ELEM, MB_OP_HEAD, MB_OP_TAIL} :
        /\ Decoded(p, op)
        /\ \/ \E rc \in {MB_BAD_TERM, MB_BAD_ARITY} : Fault(p, AfterOperands(p, op), rc)
           \/ \E t \in HeapContents :
                Retire(p, AfterOperands(p, op), SetReg(p, 1, t))
  BY DEF TupleElem, HeadOrTail, ConsWord
<1>2. /\ op \in FixedOps /\ OperandBytes(op) \in 2..3
      /\ RegisterOperands(op) = 1..2
  BY OpcodeTable
<1>3. running = p /\ AfterOperands(p, op) \in Nat /\ Byte(p, 1) \in Regs
  BY <1>1, <1>2, DecodedFacts
<1>4. CASE \E rc \in {MB_BAD_TERM, MB_BAD_ARITY} : Fault(p, AfterOperands(p, op), rc)
  <2>1. {MB_BAD_TERM, MB_BAD_ARITY} \subseteq Status
    BY DEF Status, MB_BAD_TERM, MB_BAD_ARITY
  <2> QED BY <1>3, <1>4, <2>1, FaultFaults
<1>5. CASE \E t \in HeapContents : Retire(p, AfterOperands(p, op), SetReg(p, 1, t))
  <2>1. PICK t \in HeapContents : Retire(p, AfterOperands(p, op), SetReg(p, 1, t))
    BY <1>5
  <2>2. SetReg(p, 1, t) \in RegsOf(p)
    BY <1>3, MachineFacts, SetRegType
  <2> QED BY <1>3, <2>1, <2>2, RetireCounts DEF Retire
<1> QED BY <1>1, <1>4, <1>5

-----------------------------------------------------------------------------
(* The step.                                                               *)

\* Whatever the program, an instruction ends in one of the three ways.
LEMMA InstructionEnds ==
  ASSUME MachineOK, NEW p \in Pids, Step(p)
  PROVE  running = p /\ (Faulted(p) \/ Counted(p) \/ Left(p))
<1>1. running = p
  BY DEF Step, NoOpcode, TruncatedOperands, BadRegister, BadOpcode, Nop, ConstI32,
         Move, Add, Sub, Self, Yield, Jmp, JmpIfZero, CallBifUndecoded, CallBif,
         RecvCmd, RecvCmdBlocks, Send, SleepMs, Halt, MakeTupleUndecoded, MakeTuple,
         Cons, TupleElem, HeadOrTail, ConsWord, Decoded, Executing
<1> QED BY <1>1, DecodingFaults, RegisterOpsCount, JumpsEnd, CallBifUndecodedFaults,
           CallBifEnds, RecvCmdCounts, SendCounts, LeavingLeaves,
           MakeTupleUndecodedFaults, MakeTupleEnds, ConsEnds, LoadsEnd DEF Step


-----------------------------------------------------------------------------
(* Well-formed programs.                                                   *)

\* The program and the offset of the instruction that p is at.
Text(p) == Code[program[p]]

\* The step goes on behind the instruction, at its jump's target, or at the
\* instruction again, unless it halts p; and decoding is not what ends a run.
GoesOn(p) ==
  /\ pc'[p] \in Follow(Text(p), pc[p]) \cup {pc[p]} \/ halted'[p]
  /\ running' = 0 => runRc' \notin DecodingErrors

\* No two opcodes are the same where it matters.
LEMMA OpcodesDiffer ==
  /\ MB_OP_CALL_BIF \notin FixedOps /\ MB_OP_MAKE_TUPLE \notin FixedOps
  /\ MB_OP_CALL_BIF # MB_OP_MAKE_TUPLE
  /\ \A op \in {MB_OP_CALL_BIF, MB_OP_MAKE_TUPLE} :
       op \notin {MB_OP_HALT, MB_OP_JMP, MB_OP_JMP_IF_ZERO}
  /\ \A op \in {MB_OP_NOP, MB_OP_CONST_I32, MB_OP_MOVE, MB_OP_ADD, MB_OP_SUB,
                MB_OP_RECV_CMD, MB_OP_SEND, MB_OP_SELF, MB_OP_YIELD, MB_OP_SLEEP_MS,
                MB_OP_TUPLE_ELEM, MB_OP_CONS, MB_OP_HEAD, MB_OP_TAIL} :
       op \in FixedOps \ {MB_OP_HALT, MB_OP_JMP, MB_OP_JMP_IF_ZERO}
  /\ {MB_OP_HALT, MB_OP_JMP, MB_OP_JMP_IF_ZERO} \subseteq FixedOps
  /\ MB_OP_JMP # MB_OP_HALT /\ MB_OP_JMP_IF_ZERO # MB_OP_HALT
  /\ MB_OP_JMP_IF_ZERO # MB_OP_JMP
  BY DEF FixedOps, MB_OP_NOP, MB_OP_CONST_I32, MB_OP_MOVE, MB_OP_ADD, MB_OP_SUB,
     MB_OP_CALL_BIF, MB_OP_RECV_CMD, MB_OP_SEND, MB_OP_SELF, MB_OP_YIELD, MB_OP_JMP,
     MB_OP_JMP_IF_ZERO, MB_OP_SLEEP_MS, MB_OP_MAKE_TUPLE, MB_OP_TUPLE_ELEM, MB_OP_CONS,
     MB_OP_HEAD, MB_OP_TAIL, MB_OP_HALT

\* Not every error is a decoding error.
LEMMA OtherErrors ==
  {MB_OK, MB_BAD_ARGUMENT, MB_BAD_TERM, MB_BAD_ARITY, MB_HEAP_OOM} \cap DecodingErrors = {}
  BY DEF DecodingErrors, MB_OK, MB_BAD_ARGUMENT, MB_BAD_TERM, MB_BAD_ARITY, MB_HEAP_OOM,
     MB_EOF, MB_BAD_OPCODE, MB_BAD_REG, MB_BAD_ARGC, MB_BAD_BIF

\* Behind an instruction with fixed operands is where its decoding ends.
LEMMA FixedFollow ==
  ASSUME NEW p \in Pids, NEW op \in FixedOps, Decoded(p, op)
  PROVE  /\ op \notin {MB_OP_HALT, MB_OP_JMP, MB_OP_JMP_IF_ZERO} =>
              Follow(Text(p), pc[p]) = {AfterOperands(p, op)}
         /\ op = MB_OP_JMP =>
              Follow(Text(p), pc[p]) = {AfterOperands(p, op) + I32(p, 1)}
         /\ op = MB_OP_JMP_IF_ZERO =>
              Follow(Text(p), pc[p]) = {AfterOperands(p, op), AfterOperands(p, op) + I32(p, 2)}
<1>1. ByteAt(Text(p), pc[p], 0) = op
  BY DEF Decoded, Executing, Byte, ByteAt, Text
<1>2. Behind(Text(p), pc[p]) = AfterOperands(p, op)
  BY <1>1, OpcodesDiffer DEF Behind, AfterOperands
<1> QED BY <1>1, <1>2, OpcodesDiffer DEF Follow, I32, Text

\* Where CALL_BIF and MAKE_TUPLE end.
LEMMA VariableFollow ==
  ASSUME NEW p \in Pids, pc[p] \in Nat
  PROVE  /\ Byte(p, 0) = MB_OP_CALL_BIF /\ CallBifArgc(p) \in Nat =>
              Follow(Text(p), pc[p]) = {pc[p] + (CallBifArgc(p) + 3) + 1}
         /\ Byte(p, 0) = MB_OP_MAKE_TUPLE /\ MakeTupleArity(p) \in Nat =>
              Follow(Text(p), pc[p]) = {pc[p] + MakeTupleArity(p) + 3}
<1>1. /\ ByteAt(Text(p), pc[p], 0) = Byte(p, 0)
      /\ ByteAt(Text(p), pc[p], 2) = CallBifArgc(p)
      /\ ByteAt(Text(p), pc[p], 2) = MakeTupleArity(p)
  BY DEF Byte, ByteAt, Text, CallBifArgc, MakeTupleArity
<1>2. ASSUME Byte(p, 0) = MB_OP_CALL_BIF, CallBifArgc(p) \in Nat
      PROVE  Follow(Text(p), pc[p]) = {pc[p] + (CallBifArgc(p) + 3) + 1}
  <2>1. Behind(Text(p), pc[p]) = pc[p] + 1 + (CallBifArgc(p) + 3)
    BY <1>1, <1>2, OpcodesDiffer DEF Behind
  <2>2. Follow(Text(p), pc[p]) = {Behind(Text(p), pc[p])}
    BY <1>1, <1>2, OpcodesDiffer DEF Follow
  <2>3. pc[p] + 1 + (CallBifArgc(p) + 3) = pc[p] + (CallBifArgc(p) + 3) + 1
    BY <1>2
  <2> QED BY <2>1, <2>2, <2>3
<1>3. ASSUME Byte(p, 0) = MB_OP_MAKE_TUPLE, MakeTupleArity(p) \in Nat
      PROVE  Follow(Text(p), pc[p]) = {pc[p] + MakeTupleArity(p) + 3}
  <2>1. Behind(Text(p), pc[p]) = pc[p] + 1 + (MakeTupleArity(p) + 2)
    BY <1>1, <1>3, OpcodesDiffer DEF Behind
  <2>2. Follow(Text(p), pc[p]) = {Behind(Text(p), pc[p])}
    BY <1>1, <1>3, OpcodesDiffer DEF Follow
  <2>3. pc[p] + 1 + (MakeTupleArity(p) + 2) = pc[p] + MakeTupleArity(p) + 3
    BY <1>3
  <2> QED BY <2>1, <2>2, <2>3
<1> QED BY <1>2, <1>3

\* An instruction that ends at one of the offsets that follow, and not with a
\* decoding error.
LEMMA EndsGoOn ==
  ASSUME MachineOK, NEW p \in Pids, NEW at \in Follow(Text(p), pc[p]),
         pc' = [pc EXCEPT ![p] = at],
         running' = 0 =>
           runRc' \in {MB_OK, MB_BAD_ARGUMENT, MB_BAD_TERM, MB_BAD_ARITY, MB_HEAP_OOM}
  PROVE  GoesOn(p)
<1>1. pc'[p] = at
  BY DEF MachineOK
<1> QED BY <1>1, OtherErrors DEF GoesOn

\* In particular one that retires or faults there.
LEMMA RetiresGoOn ==
  ASSUME MachineOK, NEW p \in Pids, running = p, NEW at \in Follow(Text(p), pc[p]),
         NEW rc \in {MB_OK, MB_BAD_ARGUMENT, MB_BAD_TERM, MB_BAD_ARITY, MB_HEAP_OOM},
         NEW newRegs, NEW used,
         RetireUsing(p, at, newRegs, used) \/ FaultWith(p, at, rc, newRegs)
  PROVE  GoesOn(p)
<1>1. pc' = [pc EXCEPT ![p] = at]
  BY DEF RetireUsing, FaultWith
<1>2. running' = 0 => runRc' \in {MB_OK, rc}
  BY DEF RetireUsing, CountReduction, FaultWith, Pids
<1> QED BY <1>1, <1>2, EndsGoOn

\* What it means for the running process to be at a whole instruction.
LEMMA WholeFacts ==
  ASSUME MachineOK, NEW p \in Pids, running = p, Whole(Text(p), pc[p])
  PROVE  /\ Fetchable(p, 0)
         /\ \/ /\ Byte(p, 0) \in FixedOps
               /\ Fetchable(p, OperandBytes(Byte(p, 0)))
               /\ \A k \in RegisterOperands(Byte(p, 0)) : ValidReg(Byte(p, k))
            \/ /\ Byte(p, 0) = MB_OP_CALL_BIF
               /\ Fetchable(p, 2) /\ Byte(p, 1) \in Bifs
               /\ CallBifArgc(p) = BifArgc(Byte(p, 1)) /\ CallBifArgc(p) \in 0..4
               /\ OperandsDecoded(p, 3, CallBifArgc(p) + 2)
               /\ Fetchable(p, CallBifArgc(p) + 3)
               /\ ValidReg(Byte(p, CallBifArgc(p) + 3))
            \/ /\ Byte(p, 0) = MB_OP_MAKE_TUPLE
               /\ Fetchable(p, 2) /\ MakeTupleArity(p) <= 16
               /\ ValidReg(Byte(p, 1))
               /\ OperandsDecoded(p, 3, MakeTupleArity(p) + 2)
<1>1. /\ program[p] \in DOMAIN Code /\ pc[p] \in Nat /\ Size(p) \in Nat
      /\ Size(p) = Len(Text(p))
  BY MachineFacts DEF Size, Text
<1>2. /\ \A k : ByteAt(Text(p), pc[p], k) = Byte(p, k)
      /\ \A k : Inside(Text(p), pc[p], k) <=> Fetchable(p, k)
      /\ \A ks : NameRegisters(Text(p), pc[p], ks) <=> \A k \in ks : ValidReg(Byte(p, k))
  BY <1>1 DEF ByteAt, Inside, Fetchable, NameRegisters, Byte, Text
<1>3. Fetchable(p, 0)
  BY <1>1 DEF Whole, Fetchable
<1>4. CASE /\ Byte(p, 0) \in FixedOps
           /\ Inside(Text(p), pc[p], OperandBytes(Byte(p, 0)))
           /\ NameRegisters(Text(p), pc[p], RegisterOperands(Byte(p, 0)))
  BY <1>2, <1>3, <1>4
<1> DEFINE argc == CallBifArgc(p)
           arity == MakeTupleArity(p)
<1>5. CASE /\ Byte(p, 0) = MB_OP_CALL_BIF
           /\ Inside(Text(p), pc[p], 2)
           /\ Byte(p, 1) \in Bifs /\ argc = BifArgc(Byte(p, 1))
           /\ Inside(Text(p), pc[p], argc + 3)
           /\ NameRegisters(Text(p), pc[p], 3..(argc + 3))
  <2>1. argc \in 0..4
    BY <1>5 DEF Bifs, BifArgc, MB_BIF_PWM_SET_DUTY, MB_BIF_MONOTONIC_MS,
       MB_BIF_GPIO_READ, MB_BIF_GPIO_WRITE, MB_BIF_PWM_CONFIG, MB_BIF_I2C_READ_REG,
       MB_BIF_I2C_WRITE_REG
  <2> HIDE DEF argc
  <2>2. Fetchable(p, 2) /\ Fetchable(p, argc + 3)
    BY <1>2, <1>5
  <2>3. \A k \in 3..(argc + 3) : ValidReg(Byte(p, k))
    <3>1. NameRegisters(Text(p), pc[p], 3..(argc + 3))
      BY <1>5
    <3> QED BY <1>2, <3>1
  <2>4. \A k \in 3..(argc + 2) : Fetchable(p, k) /\ ValidReg(Byte(p, k))
    BY <1>1, <2>1, <2>2, <2>3 DEF Fetchable
  <2>5. ValidReg(Byte(p, argc + 3))
    BY <2>1, <2>3
  <2> QED BY <1>3, <1>5, <2>1, <2>2, <2>4, <2>5 DEF OperandsDecoded, argc
<1>6. CASE /\ Byte(p, 0) = MB_OP_MAKE_TUPLE
           /\ Inside(Text(p), pc[p], 2)
           /\ arity <= 16
           /\ Inside(Text(p), pc[p], arity + 2)
           /\ NameRegisters(Text(p), pc[p], {1} \cup 3..(arity + 2))
  <2>1. Fetchable(p, 2) /\ Fetchable(p, arity + 2)
    BY <1>2, <1>6
  <2>2. arity \in Nat
    BY <2>1, RunningByte DEF MakeTupleArity, U8
  <2> HIDE DEF arity
  <2>3. \A k \in {1} \cup 3..(arity + 2) : ValidReg(Byte(p, k))
    BY <1>2, <1>6
  <2>4. \A k \in 3..(arity + 2) : Fetchable(p, k) /\ ValidReg(Byte(p, k))
    BY <1>1, <2>1, <2>2, <2>3 DEF Fetchable
  <2> QED BY <1>3, <1>6, <2>1, <2>3, <2>4 DEF OperandsDecoded, arity
<1>7. \/ /\ Byte(p, 0) \in FixedOps
         /\ Inside(Text(p), pc[p], OperandBytes(Byte(p, 0)))
         /\ NameRegisters(Text(p), pc[p], RegisterOperands(Byte(p, 0)))
      \/ /\ Byte(p, 0) = MB_OP_CALL_BIF
         /\ Inside(Text(p), pc[p], 2)
         /\ Byte(p, 1) \in Bifs /\ argc = BifArgc(Byte(p, 1))
         /\ Inside(Text(p), pc[p], argc + 3)
         /\ NameRegisters(Text(p), pc[p], 3..(argc + 3))
      \/ /\ Byte(p, 0) = MB_OP_MAKE_TUPLE
         /\ Inside(Text(p), pc[p], 2)
         /\ arity <= 16
         /\ Inside(Text(p), pc[p], arity + 2)
         /\ NameRegisters(Text(p), pc[p], {1} \cup 3..(arity + 2))
  <2>1. argc = Byte(p, 2) /\ arity = Byte(p, 2)
    BY DEF CallBifArgc, MakeTupleArity
  <2> QED BY <1>2, <2>1 DEF Whole
<1> QED BY <1>4, <1>5, <1>6, <1>7

\* At a whole instruction, fetching and decoding succeed.
LEMMA WholeDecodes ==
  ASSUME MachineOK, NEW p \in Pids, running = p, Whole(Text(p), pc[p])
  PROVE  /\ ~(NoOpcode(p) \/ TruncatedOperands(p) \/ BadRegister(p) \/ BadOpcode(p))
         /\ ~(CallBifUndecoded(p) \/ MakeTupleUndecoded(p))
<1>1. /\ Byte(p, 0) \in FixedOps \cup {MB_OP_CALL_BIF, MB_OP_MAKE_TUPLE}
      /\ Fetchable(p, 0)
  BY WholeFacts
<1>2. ~(NoOpcode(p) \/ BadOpcode(p))
  BY <1>1 DEF NoOpcode, BadOpcode
<1>3. ~(TruncatedOperands(p) \/ BadRegister(p))
  <2>1. \A op \in FixedOps : Executing(p, op) => Fetchable(p, OperandBytes(op))
                               /\ \A k \in RegisterOperands(op) : ValidReg(Byte(p, k))
    BY WholeFacts, OpcodesDiffer DEF Executing
  <2> QED BY <2>1 DEF TruncatedOperands, BadRegister
<1>4. ~CallBifUndecoded(p)
  <2>1. Executing(p, MB_OP_CALL_BIF) =>
          /\ Fetchable(p, 2) /\ CallBifArgc(p) \in 0..4
          /\ OperandsDecoded(p, 3, CallBifArgc(p) + 2)
          /\ Fetchable(p, CallBifArgc(p) + 3)
    BY WholeFacts, OpcodesDiffer DEF Executing
  <2> QED BY <2>1 DEF CallBifUndecoded
<1>5. ~MakeTupleUndecoded(p)
  <2>1. Executing(p, MB_OP_MAKE_TUPLE) =>
          /\ Fetchable(p, 2) /\ MakeTupleArity(p) <= 16 /\ ValidReg(Byte(p, 1))
          /\ OperandsDecoded(p, 3, MakeTupleArity(p) + 2)
    BY WholeFacts, OpcodesDiffer DEF Executing
  <2>2. MakeTupleArity(p) <= 16 /\ Fetchable(p, 2) => ~(MakeTupleArity(p) > 16)
    BY RunningByte DEF MakeTupleArity, U8
  <2> QED BY <2>1, <2>2 DEF MakeTupleUndecoded
<1> QED BY <1>2, <1>3, <1>4, <1>5


\* At a whole instruction the step is the action of its opcode.
LEMMA OpcodeActs ==
  ASSUME MachineOK, NEW p \in Pids, running = p, Whole(Text(p), pc[p]), Step(p)
  PROVE  /\ Byte(p, 0) = MB_OP_CONST_I32 => ConstI32(p)
         /\ Byte(p, 0) = MB_OP_JMP => Jmp(p)
         /\ Byte(p, 0) = MB_OP_YIELD => Yield(p)
         /\ Byte(p, 0) = MB_OP_CALL_BIF => CallBif(p)
         /\ Byte(p, 0) = MB_OP_RECV_CMD => RecvCmd(p) \/ RecvCmdBlocks(p)
         /\ Byte(p, 0) = MB_OP_SEND => Send(p)
         /\ Byte(p, 0) = MB_OP_SLEEP_MS => SleepMs(p)
<1> DEFINE op == Byte(p, 0)
<1>1. ~(NoOpcode(p) \/ TruncatedOperands(p) \/ BadRegister(p) \/ BadOpcode(p)
        \/ CallBifUndecoded(p) \/ MakeTupleUndecoded(p))
  BY WholeDecodes
<1>2. /\ Nop(p) => op = MB_OP_NOP
      /\ ConstI32(p) => op = MB_OP_CONST_I32
      /\ Move(p) => op = MB_OP_MOVE
      /\ Add(p) => op = MB_OP_ADD
      /\ Sub(p) => op = MB_OP_SUB
      /\ Self(p) => op = MB_OP_SELF
      /\ Yield(p) => op = MB_OP_YIELD
      /\ Jmp(p) => op = MB_OP_JMP
      /\ JmpIfZero(p) => op = MB_OP_JMP_IF_ZERO
      /\ CallBif(p) => op = MB_OP_CALL_BIF
  BY DEF Nop, ConstI32, Move, Add, Sub, Self, Yield, Jmp, JmpIfZero, CallBif, Decoded,
         Executing
<1>3. /\ RecvCmd(p) => op = MB_OP_RECV_CMD
      /\ RecvCmdBlocks(p) => op = MB_OP_RECV_CMD
      /\ Send(p) => op = MB_OP_SEND
      /\ SleepMs(p) => op = MB_OP_SLEEP_MS
      /\ Halt(p) => op = MB_OP_HALT
      /\ MakeTuple(p) => op = MB_OP_MAKE_TUPLE
      /\ Cons(p) => op = MB_OP_CONS
      /\ TupleElem(p) => op = MB_OP_TUPLE_ELEM
      /\ HeadOrTail(p) => op \in {MB_OP_HEAD, MB_OP_TAIL}
  BY DEF RecvCmd, RecvCmdBlocks, Send, SleepMs, Halt, MakeTuple, Cons, TupleElem,
         HeadOrTail, ConsWord, Decoded, Executing
<1> HIDE DEF op
<1>4. \/ Nop(p) /\ op = MB_OP_NOP
      \/ ConstI32(p) /\ op = MB_OP_CONST_I32
      \/ Move(p) /\ op = MB_OP_MOVE
      \/ Add(p) /\ op = MB_OP_ADD
      \/ Sub(p) /\ op = MB_OP_SUB
      \/ Self(p) /\ op = MB_OP_SELF
      \/ Yield(p) /\ op = MB_OP_YIELD
      \/ Jmp(p) /\ op = MB_OP_JMP
      \/ JmpIfZero(p) /\ op = MB_OP_JMP_IF_ZERO
      \/ CallBif(p) /\ op = MB_OP_CALL_BIF
      \/ (RecvCmd(p) \/ RecvCmdBlocks(p)) /\ op = MB_OP_RECV_CMD
      \/ Send(p) /\ op = MB_OP_SEND
      \/ SleepMs(p) /\ op = MB_OP_SLEEP_MS
      \/ Halt(p) /\ op = MB_OP_HALT
      \/ op \in {MB_OP_MAKE_TUPLE, MB_OP_CONS, MB_OP_TUPLE_ELEM, MB_OP_HEAD, MB_OP_TAIL}
  BY <1>1, <1>2, <1>3 DEF Step
<1> QED
  BY <1>4 DEF op, MB_OP_NOP, MB_OP_CONST_I32, MB_OP_MOVE, MB_OP_ADD, MB_OP_SUB,
     MB_OP_CALL_BIF, MB_OP_RECV_CMD, MB_OP_SEND, MB_OP_SELF, MB_OP_YIELD, MB_OP_JMP,
     MB_OP_JMP_IF_ZERO, MB_OP_SLEEP_MS, MB_OP_MAKE_TUPLE, MB_OP_TUPLE_ELEM, MB_OP_CONS,
     MB_OP_HEAD, MB_OP_TAIL, MB_OP_HALT

\* Instructions of fixed length that are neither jumps nor HALT.
LEMMA PlainGoesOn ==
  ASSUME MachineOK, NEW p \in Pids,
         NEW op \in FixedOps \ {MB_OP_HALT, MB_OP_JMP, MB_OP_JMP_IF_ZERO}, Decoded(p, op),
         NEW rc \in {MB_OK, MB_BAD_ARGUMENT, MB_BAD_TERM, MB_BAD_ARITY, MB_HEAP_OOM},
         NEW newRegs, NEW used,
         \/ RetireUsing(p, AfterOperands(p, op), newRegs, used)
         \/ FaultWith(p, AfterOperands(p, op), rc, newRegs)
  PROVE  GoesOn(p)
<1>1. running = p
  BY DEF Decoded, Executing
<1>2. AfterOperands(p, op) \in Follow(Text(p), pc[p])
  BY FixedFollow
<1> QED BY <1>1, <1>2, RetiresGoOn

\* A jump among the program's instructions reaches its target.
LEMMA JumpGoesOn ==
  ASSUME MachineOK, NEW p \in Pids, running = p, NEW from, NEW offset,
         from + offset \in Follow(Text(p), pc[p]),
         Follow(Text(p), pc[p]) \subseteq 0..(Size(p) - 1),
         JumpTo(p, from, offset)
  PROVE  GoesOn(p)
<1> DEFINE target == from + offset
<1>1. target \in 0..(Size(p) - 1) /\ Size(p) \in Nat
  BY MachineFacts
<1>2. Retire(p, target, regs)
  <2> HIDE DEF target
  <2>1. ~(target < 0) /\ ~(target > Size(p))
    BY <1>1
  <2> QED BY <2>1 DEF JumpTo, target
<1> QED BY <1>2, RetiresGoOn DEF Retire

\* The step at a whole instruction, opcode by opcode.
LEMMA RegisterOpsGoOn ==
  ASSUME MachineOK, NEW p \in Pids,
         Nop(p) \/ ConstI32(p) \/ Move(p) \/ Add(p) \/ Sub(p) \/ Self(p) \/ Yield(p)
  PROVE  GoesOn(p)
<1>1. PICK op \in {MB_OP_NOP, MB_OP_CONST_I32, MB_OP_MOVE, MB_OP_ADD, MB_OP_SUB,
                   MB_OP_SELF, MB_OP_YIELD} :
        /\ Decoded(p, op)
        /\ \E newRegs, used : RetireUsing(p, AfterOperands(p, op), newRegs, used)
  BY DEF Nop, ConstI32, Move, Add, Sub, Self, Yield, Retire
<1>2. op \in FixedOps \ {MB_OP_HALT, MB_OP_JMP, MB_OP_JMP_IF_ZERO}
  BY OpcodesDiffer
<1> QED BY <1>1, <1>2, PlainGoesOn

LEMMA JumpsGoOn ==
  ASSUME MachineOK, NEW p \in Pids, Follow(Text(p), pc[p]) \subseteq 0..(Size(p) - 1),
         Jmp(p) \/ JmpIfZero(p)
  PROVE  GoesOn(p)
<1>1. CASE Jmp(p)
  <2>1. running = p /\ Decoded(p, MB_OP_JMP)
    BY <1>1 DEF Jmp, Decoded, Executing
  <2>2. AfterOperands(p, MB_OP_JMP) + I32(p, 1) \in Follow(Text(p), pc[p])
    BY <2>1, FixedFollow, OpcodesDiffer
  <2> QED BY <1>1, <2>1, <2>2, JumpGoesOn DEF Jmp
<1>2. CASE JmpIfZero(p)
  <2> DEFINE from == AfterOperands(p, MB_OP_JMP_IF_ZERO)
  <2>1. running = p /\ Decoded(p, MB_OP_JMP_IF_ZERO)
    BY <1>2 DEF JmpIfZero, Decoded, Executing
  <2>2. {from, from + I32(p, 2)} \subseteq Follow(Text(p), pc[p])
    BY <2>1, FixedFollow, OpcodesDiffer
  <2>3. JumpTo(p, from, I32(p, 2)) \/ Retire(p, from, regs)
    BY <1>2 DEF JmpIfZero
  <2> HIDE DEF from
  <2> QED BY <2>1, <2>2, <2>3, JumpGoesOn, RetiresGoOn DEF Retire
<1> QED BY <1>1, <1>2

LEMMA CallBifGoesOn ==
  ASSUME MachineOK, NEW p \in Pids, Whole(Text(p), pc[p]), CallBif(p)
  PROVE  GoesOn(p)
<1> DEFINE argc == CallBifArgc(p)
           arg  == [i \in 1..argc |-> RegInt(p, i + 2)]
           rc   == BifStatus(Byte(p, 1), arg, Byte(p, argc + 3))
<1>1. running = p /\ Byte(p, 0) = MB_OP_CALL_BIF /\ pc[p] \in Nat
  BY MachineFacts DEF CallBif, Executing
<1>2. /\ Byte(p, 1) \in Bifs /\ argc = BifArgc(Byte(p, 1)) /\ argc \in 0..4
      /\ ValidReg(Byte(p, argc + 3))
  BY <1>1, WholeFacts, OpcodesDiffer
<1>3. pc[p] + (argc + 3) + 1 \in Follow(Text(p), pc[p])
  <2>1. argc \in Nat
    BY <1>2
  <2> QED BY <1>1, <2>1, VariableFollow
<1>4. rc \in {MB_OK, MB_BAD_ARGUMENT}
  <2>1. Len(arg) = argc
    <3> DEFINE S == {RegInt(p, i + 2) : i \in 1..argc}
    <3>1. argc \in Nat
      BY <1>2
    <3>2. arg \in [1..argc -> S]
      OBVIOUS
    <3>3. arg \in Seq(S)
      <4> HIDE DEF S, arg
      <4> QED BY <3>1, <3>2, SeqDef
    <3>4. DOMAIN arg = 1..argc
      OBVIOUS
    <3> HIDE DEF S, arg
    <3> QED BY <3>1, <3>3, <3>4, LenProperties
  <2> HIDE DEF arg, argc
  <2> QED BY <1>2, <2>1 DEF BifStatus
<1>5. /\ pc' = [pc EXCEPT ![p] = pc[p] + (argc + 3) + 1]
      /\ running' = 0 => runRc' \in {MB_OK, rc}
  BY <1>1 DEF CallBif, Fault, FaultWith, CountReduction, Pids
<1> HIDE DEF rc
<1> QED BY <1>3, <1>4, <1>5, EndsGoOn


LEMMA MessagesGoOn ==
  ASSUME MachineOK, NEW p \in Pids,
         RecvCmd(p) \/ RecvCmdBlocks(p) \/ Send(p) \/ SleepMs(p) \/ Halt(p)
  PROVE  GoesOn(p)
<1>1. CASE RecvCmd(p) \/ Send(p) \/ SleepMs(p)
  <2>1. PICK op \in {MB_OP_RECV_CMD, MB_OP_SEND, MB_OP_SLEEP_MS} :
          /\ Decoded(p, op)
          /\ pc' = [pc EXCEPT ![p] = AfterOperands(p, op)]
          /\ running' = 0 => runRc' = MB_OK
    <3>1. running = p
      BY <1>1 DEF RecvCmd, Send, SleepMs, Decoded, Executing
    <3> QED BY <1>1, <3>1 DEF RecvCmd, Send, SleepMs, CountReduction, LeaveReady, Pids
  <2>2. op \in FixedOps \ {MB_OP_HALT, MB_OP_JMP, MB_OP_JMP_IF_ZERO}
    BY OpcodesDiffer
  <2>3. AfterOperands(p, op) \in Follow(Text(p), pc[p])
    BY <2>1, <2>2, FixedFollow
  <2> QED BY <2>1, <2>3, EndsGoOn
<1>2. CASE RecvCmdBlocks(p)
  <2>1. pc' = pc /\ runRc' = MB_OK
    BY <1>2 DEF RecvCmdBlocks, LeaveReady
  <2> QED BY <2>1, OtherErrors DEF GoesOn
<1>3. CASE Halt(p)
  <2>1. halted'[p] /\ runRc' = MB_OK
    BY <1>3 DEF Halt, LeaveReady, MachineOK
  <2> QED BY <2>1, OtherErrors DEF GoesOn
<1> QED BY <1>1, <1>2, <1>3

LEMMA HeapOpsGoOn ==
  ASSUME MachineOK, NEW p \in Pids, MakeTuple(p) \/ Cons(p) \/ TupleElem(p) \/ HeadOrTail(p)
  PROVE  GoesOn(p)
<1>1. CASE MakeTuple(p)
  <2> DEFINE after == pc[p] + MakeTupleArity(p) + 3
  <2>1. /\ running = p /\ Byte(p, 0) = MB_OP_MAKE_TUPLE
        /\ Fetchable(p, 2) /\ pc[p] \in Nat
    BY <1>1, MachineFacts DEF MakeTuple, Executing
  <2>2. MakeTupleArity(p) \in Nat
    BY <2>1, RunningByte DEF MakeTupleArity, U8
  <2>3. after \in Follow(Text(p), pc[p])
    BY <2>1, <2>2, VariableFollow
  <2>4. \E newRegs : Retire(p, after, newRegs) \/ FaultWith(p, after, MB_HEAP_OOM, newRegs)
    BY <1>1 DEF MakeTuple, Allocate
  <2> HIDE DEF after
  <2> QED BY <2>1, <2>3, <2>4, RetiresGoOn DEF Retire
<1>2. CASE Cons(p)
  <2>1. Decoded(p, MB_OP_CONS)
    BY <1>2 DEF Cons
  <2>2. MB_OP_CONS \in FixedOps \ {MB_OP_HALT, MB_OP_JMP, MB_OP_JMP_IF_ZERO}
    BY OpcodesDiffer
  <2>3. \E newRegs : \/ Retire(p, AfterOperands(p, MB_OP_CONS), newRegs)
                     \/ FaultWith(p, AfterOperands(p, MB_OP_CONS), MB_HEAP_OOM, newRegs)
    BY <1>2 DEF Cons, Allocate
  <2> QED BY <2>1, <2>2, <2>3, PlainGoesOn DEF Retire
<1>3. CASE TupleElem(p) \/ HeadOrTail(p)
  <2>1. PICK op \in {MB_OP_TUPLE_ELEM, MB_OP_HEAD, MB_OP_TAIL} :
          /\ Decoded(p, op)
          /\ \/ \E rc \in {MB_BAD_TERM, MB_BAD_ARITY} : Fault(p, AfterOperands(p, op), rc)
             \/ \E t \in HeapContents : Retire(p, AfterOperands(p, op), SetReg(p, 1, t))
    BY <1>3 DEF TupleElem, HeadOrTail, ConsWord
  <2>2. op \in FixedOps \ {MB_OP_HALT, MB_OP_JMP, MB_OP_JMP_IF_ZERO}
    BY OpcodesDiffer
  <2>3. \E newRegs : \E rc \in {MB_BAD_TERM, MB_BAD_ARITY} :
          \/ Retire(p, AfterOperands(p, op), newRegs)
          \/ FaultWith(p, AfterOperands(p, op), rc, newRegs)
    BY <2>1 DEF Fault
  <2> QED BY <2>1, <2>2, <2>3, PlainGoesOn DEF Retire
<1> QED BY <1>1, <1>2, <1>3

LEMMA WholeGoesOn ==
  ASSUME MachineOK, NEW p \in Pids, Whole(Text(p), pc[p]),
         Follow(Text(p), pc[p]) \subseteq 0..(Size(p) - 1), Step(p)
  PROVE  GoesOn(p)
<1>1. running = p
  BY InstructionEnds
<1> QED BY <1>1, WholeDecodes, RegisterOpsGoOn, JumpsGoOn, CallBifGoesOn,
           MessagesGoOn, HeapOpsGoOn DEF Step

\* Code, StartsOf and WellFormed as far as the proofs need them.
LEMMA WellFormedFacts ==
  ASSUME NEW name \in WellFormed
  PROVE  /\ name \in DOMAIN Code
         /\ 0 \in StartsOf[name]
         /\ \A at \in StartsOf[name] :
              /\ Whole(Code[name], at)
              /\ Follow(Code[name], at) \subseteq StartsOf[name]
              /\ at \in 0..(Len(Code[name]) - 1)
  BY DEF WellFormed, Closed, Whole

\* A step of a process that is at an instruction of its well-formed program.
LEMMA InstructionGoesOn ==
  ASSUME MachineOK, NEW p \in Pids, running = p, program[p] \in WellFormed,
         pc[p] \in StartsOf[program[p]], Step(p)
  PROVE  /\ pc'[p] \in StartsOf[program[p]] \/ halted'[p]
         /\ running' = 0 => runRc' \notin DecodingErrors
<1>1. /\ Whole(Text(p), pc[p])
      /\ Follow(Text(p), pc[p]) \subseteq StartsOf[program[p]]
      /\ StartsOf[program[p]] \subseteq 0..(Size(p) - 1)
  BY WellFormedFacts DEF Text, Size
<1>2. GoesOn(p)
  BY <1>1, WholeGoesOn
<1> QED BY <1>1, <1>2 DEF GoesOn
=============================================================================
