--------------------------- MODULE MbCompatProofs ---------------------------
(***************************************************************************)
(* Theorems about the compatibility layer, for every number of machines,   *)
(* every program and every sequence of native calls: what an instruction   *)
(* of a call may write, how many a call executes, and that every command   *)
(* goes through a machine's mailbox once, though calls work on a copy.     *)
(***************************************************************************)
EXTENDS MbCompatCalls, MbVmProofs

USE VmAssumption, PayloadAssumption, MailboxAssumption, CompatAssumption

\* The process that a call interprets counts towards Reductions, with as many
\* instructions to go as max_steps allows.  Past MB_REDUCTIONS + 1 a YIELD
\* breaks this.
WithinBudget ==
  limit <= Budget + 1 =>
    /\ slice <= limit
    /\ running # 0 => /\ slice < limit
                      /\ reductions[running] = Start(limit) + slice

\* The rings of the machines and of the copy are sound.
RingsSound ==
  /\ \A p \in Pids : RingWellFormed(vm[p].mailbox)
  /\ active # 0 => RingWellFormed(mailbox[active])

\* The inductive invariant.
CompatInv ==
  /\ TypeOK /\ MachineOK
  /\ program \in [Pids -> DOMAIN Code]
  /\ reductions \in [Pids -> Int]
  /\ slice \in Nat
  /\ pushed \in [Pids -> Seq(Command)] /\ taken \in [Pids -> Seq(Command)]
  /\ WithinBudget
  /\ RingsSound
  /\ EachCommandOnce

-----------------------------------------------------------------------------
(* What an instruction does to its process.                                *)

\* The types are kept and nothing beyond the process is touched; either the
\* call goes on, or the process is done.
Stepped(p) ==
  /\ running = p
  /\ running' \in {0, p} /\ runRc' \in Status
  /\ pc' \in [Pids -> Nat] /\ regs' \in RegFiles /\ clock' \in Nat
  /\ mailbox' \in [Pids -> Mailbox] /\ lastError' \in [Pids -> Status]
  /\ state' \in [Pids -> ProcState] /\ halted' \in [Pids -> BOOLEAN]
  /\ sleepUntil' \in [Pids -> 0..(ClockMod - 1)]
  /\ running' # 0 => state'[p] = state[p] /\ halted' = halted
  /\ program' = program

LEMMA EndsAreSteps ==
  ASSUME CompatInv, NEW p \in Pids, running = p, Faulted(p) \/ Counted(p) \/ Left(p)
  PROVE  Stepped(p)
<1>1. MachineOK /\ TypeOK /\ MB_OK \in Status
  BY DEF CompatInv, MB_OK, Status
<1>2. CASE Faulted(p)
  <2>1. PICK at \in Nat, rc \in Status, newRegs \in RegFiles : FaultWith(p, at, rc, newRegs)
    BY <1>2 DEF Faulted, RegsOf
  <2> QED BY <1>1, <2>1 DEF FaultWith, MachineOK, Stepped
<1>3. CASE Counted(p)
  <2>1. running' \in {0, p} /\ runRc' \in Status
    BY <1>1, <1>3 DEF Counted, CountReduction, TypeOK
  <2>2. state'[p] = state[p]
    BY <1>1, <1>3 DEF Counted, MailStep, MachineOK
  <2> QED BY <1>1, <1>3, <2>1, <2>2 DEF Counted, RegsOf, MachineOK, Stepped
<1>4. CASE Left(p)
  <2>1. PICK s \in {"WAITING", "SLEEPING", "HALTED"} :
          LeaveReady(p, s) /\ halted' = [halted EXCEPT ![p] = (s = "HALTED")]
    BY <1>4 DEF Left
  <2>2. state' \in [Pids -> ProcState] /\ halted' \in [Pids -> BOOLEAN]
    BY <1>1, <2>1 DEF LeaveReady, MachineOK, ProcState
  <2>3. pc' \in [Pids -> Nat] /\ sleepUntil' \in [Pids -> 0..(ClockMod - 1)]
    BY <1>1, <1>4 DEF Left, MachineOK
  <2> QED BY <1>1, <1>4, <2>1, <2>2, <2>3 DEF Left, LeaveReady, MachineOK, Stepped
<1> QED BY <1>2, <1>3, <1>4

\* A receive from an empty mailbox goes on.
LEMMA CompatRecvEmptyCounts ==
  ASSUME CompatInv, NEW p \in Pids, CompatRecvEmpty(p)
  PROVE  Counted(p)
<1>1. /\ MachineOK
      /\ Decoded(p, MB_OP_RECV_CMD) /\ MB_OP_RECV_CMD \in FixedOps
      /\ OperandBytes(MB_OP_RECV_CMD) = 5
      /\ RegisterOperands(MB_OP_RECV_CMD) = 1..5
  BY OpcodeTable DEF CompatRecvEmpty, CompatInv
<1>2. /\ AfterOperands(p, MB_OP_RECV_CMD) \in Nat
      /\ Byte(p, 1) \in Regs /\ Byte(p, 2) \in Regs /\ Byte(p, 3) \in Regs
      /\ Byte(p, 4) \in Regs /\ Byte(p, 5) \in Regs
  BY <1>1, DecodedFacts
<1>3. regs' \in RegsOf(p)
  <2>1. MB_CMD_NONE \in Int /\ MB_MAILBOX_EMPTY \in Int /\ 0 \in Int
    BY DEF MB_CMD_NONE, MB_MAILBOX_EMPTY
  <2>2. regs \in RegFiles
    BY <1>1 DEF MachineOK
  <2> QED BY <1>2, <2>1, <2>2, SetCommandRegsType DEF CompatRecvEmpty
<1>4. /\ mailbox' \in [Pids -> Mailbox] /\ state' \in [Pids -> ProcState]
      /\ \A q \in Pids : MailStep(q)
  BY <1>1 DEF CompatRecvEmpty, MachineOK, MailStep
<1>5. MB_MAILBOX_EMPTY \in Status
  BY DEF MB_MAILBOX_EMPTY, Status
<1> QED BY <1>2, <1>3, <1>4, <1>5 DEF CompatRecvEmpty, Counted

\* SEND is refused, and SELF knows no pid.
LEMMA CompatSendSelfCount ==
  ASSUME CompatInv, NEW p \in Pids, CompatSend(p) \/ CompatSelf(p)
  PROVE  Counted(p)
<1>1. MachineOK /\ running = p /\ regs \in RegFiles
  BY DEF CompatInv, MachineOK, CompatSend, CompatSelf, Decoded, Executing
<1>2. CASE CompatSend(p)
  <2>1. /\ Decoded(p, MB_OP_SEND) /\ MB_OP_SEND \in FixedOps
        /\ OperandBytes(MB_OP_SEND) = 6 /\ RegisterOperands(MB_OP_SEND) = 1..6
    BY <1>2, OpcodeTable DEF CompatSend
  <2>2. AfterOperands(p, MB_OP_SEND) \in Nat /\ Byte(p, 1) \in Regs
    BY <1>1, <2>1, DecodedFacts
  <2>3. MB_BAD_ARGUMENT \in Int
    BY DEF MB_BAD_ARGUMENT
  <2>4. SetReg(p, 1, MAKE_SMALLINT(MB_BAD_ARGUMENT)) \in RegsOf(p)
    BY <1>1, <2>2, <2>3, SmallintType, SetRegType
  <2> QED BY <1>1, <1>2, <2>2, <2>4, RetireCounts DEF CompatSend, Retire
<1>3. CASE CompatSelf(p)
  <2>1. /\ Decoded(p, MB_OP_SELF) /\ MB_OP_SELF \in FixedOps
        /\ OperandBytes(MB_OP_SELF) = 1 /\ RegisterOperands(MB_OP_SELF) = {1}
    BY <1>3, OpcodeTable DEF CompatSelf
  <2>2. AfterOperands(p, MB_OP_SELF) \in Nat /\ Byte(p, 1) \in Regs
    BY <1>1, <2>1, DecodedFacts
  <2>3. SetReg(p, 1, MAKE_PID(0)) \in RegsOf(p)
    BY <1>1, <2>2, SmallintType, SetRegType
  <2> QED BY <1>1, <1>3, <2>2, <2>3, RetireCounts DEF CompatSelf, Retire
<1> QED BY <1>2, <1>3


\* Used in both: an instruction that is counted may end the call.
LEMMA CountingEnds ==
  ASSUME CompatInv, NEW p \in Pids, running = p, NEW used, CountReduction(p, used)
  PROVE  running' \in {0, p} /\ runRc' \in Status
  BY DEF CompatInv, TypeOK, CountReduction, MB_OK, Status

\* YIELD uses the budget up, SLEEP_MS delays the caller.
LEMMA CompatYieldSleepStep ==
  ASSUME CompatInv, NEW p \in Pids, CompatYield(p) \/ CompatSleepMs(p)
  PROVE  Stepped(p)
<1>1. MachineOK /\ TypeOK /\ running = p
  BY DEF CompatInv, CompatYield, CompatSleepMs, Decoded, Executing
<1>2. CASE CompatYield(p)
  <2>1. AfterOperands(p, MB_OP_YIELD) \in Nat
    BY <1>1, <1>2, OpcodeTable, DecodedFacts DEF CompatYield
  <2>2. running' \in {0, p} /\ runRc' \in Status
    BY <1>1, <1>2, CountingEnds DEF CompatYield, RetireUsing
  <2> QED BY <1>1, <1>2, <2>1, <2>2 DEF CompatYield, RetireUsing, MachineOK, Stepped
<1>3. CASE CompatSleepMs(p)
  <2>1. /\ Decoded(p, MB_OP_SLEEP_MS) /\ MB_OP_SLEEP_MS \in FixedOps
        /\ OperandBytes(MB_OP_SLEEP_MS) = 1
        /\ RegisterOperands(MB_OP_SLEEP_MS) = {1}
    BY <1>3, OpcodeTable DEF CompatSleepMs
  <2>2. AfterOperands(p, MB_OP_SLEEP_MS) \in Nat /\ RegInt(p, 1) \in Int
    BY <1>1, <2>1, DecodedFacts
  <2>3. clock' \in Nat
    <3>1. clock \in Nat /\ RegInt(p, 1) % ClockMod \in 0..(ClockMod - 1)
      BY <1>1, <2>2 DEF MachineOK
    <3> QED BY <1>3, <3>1 DEF CompatSleepMs
  <2>4. running' \in {0, p} /\ runRc' \in Status
    BY <1>1, <1>3, CountingEnds DEF CompatSleepMs
  <2> QED BY <1>1, <1>3, <2>2, <2>3, <2>4 DEF CompatSleepMs, MachineOK, Stepped
<1> QED BY <1>2, <1>3

\* Whatever the program.
LEMMA CompatStepTypes ==
  ASSUME CompatInv, NEW p \in Pids, CompatStep(p)
  PROVE  Stepped(p) /\ UNCHANGED <<vm, active, limit>>
<1>1. MachineOK
  BY DEF CompatInv
<1>2. CASE CompatYield(p) \/ CompatSleepMs(p)
  BY <1>2, CompatYieldSleepStep DEF CompatStep
<1>3. CASE CompatRecvEmpty(p) \/ CompatSend(p) \/ CompatSelf(p)
  <2>1. running = p
    BY <1>3 DEF CompatRecvEmpty, CompatSend, CompatSelf, Decoded, Executing
  <2> QED BY <1>3, <2>1, CompatRecvEmptyCounts, CompatSendSelfCount, EndsAreSteps
          DEF CompatStep
<1>4. CASE Step(p)
  BY <1>1, <1>4, InstructionEnds, EndsAreSteps DEF CompatStep
<1> QED BY <1>2, <1>3, <1>4 DEF CompatStep, Step

\* What it does to the mailbox: nothing but take the first command.
LEMMA CompatStepMail ==
  ASSUME NEW p \in Pids, CompatStep(p)
  PROVE  \/ mailbox' = mailbox
         \/ /\ mailbox[p].count # 0
            /\ mailbox' = [mailbox EXCEPT ![p] = Popped(mailbox[p])]
  BY DEF CompatStep, NoOpcode, TruncatedOperands, BadRegister, BadOpcode, Nop, ConstI32,
     Move, Add, Sub, CompatSelf, CompatYield, Jmp, JmpIfZero, JumpTo, CallBifUndecoded,
     CallBif, RecvCmd, CompatRecvEmpty, CompatSend, CompatSleepMs, Halt, LeaveReady,
     MakeTupleUndecoded, MakeTuple, Cons, TupleElem, HeadOrTail, ConsWord, Allocate,
     OperandFault, Fault, FaultWith, Retire, RetireUsing

\* What it does to the reductions: the call ends, or counts one more, or
\* counts a YIELD.
LEMMA CompatStepCounts ==
  ASSUME NEW p \in Pids, CompatStep(p)
  PROVE  \/ running' = 0 /\ reductions' = reductions
         \/ CountReduction(p, reductions[p])
         \/ CountReduction(p, Start(limit) + Budget)
  BY DEF CompatStep, NoOpcode, TruncatedOperands, BadRegister, BadOpcode, Nop, ConstI32,
     Move, Add, Sub, CompatSelf, CompatYield, Jmp, JmpIfZero, JumpTo, CallBifUndecoded,
     CallBif, RecvCmd, CompatRecvEmpty, CompatSend, CompatSleepMs, Halt, LeaveReady,
     MakeTupleUndecoded, MakeTuple, Cons, TupleElem, HeadOrTail, ConsWord, Allocate,
     OperandFault, Fault, FaultWith, Retire, RetireUsing

-----------------------------------------------------------------------------
(* Queues.                                                                 *)

\* Moving the head of q to the end of s, and adding to the end of both.
LEMMA QueueMoves ==
  ASSUME NEW S, NEW s \in Seq(S), NEW q \in Seq(S)
  PROVE  /\ q # << >> => Append(s, Head(q)) \o Tail(q) = s \o q
         /\ \A x \in S : Append(s \o q, x) = s \o Append(q, x)
<1>1. ASSUME q # << >> PROVE Append(s, Head(q)) \o Tail(q) = s \o q
  <2>1. /\ Head(q) \in S /\ Head(q) = q[1] /\ Tail(q) \in Seq(S)
        /\ Len(q) \in Nat /\ Len(q) # 0 /\ Len(Tail(q)) = Len(q) - 1
        /\ \A i \in 1..Len(Tail(q)) : Tail(q)[i] = q[i + 1]
    BY <1>1, HeadTailProperties, EmptySeq, LenProperties
  <2>2. /\ <<Head(q)>> \in Seq(S)
        /\ Append(s, Head(q)) = s \o <<Head(q)>>
    BY <2>1, AppendIsConcat
  <2>3. <<Head(q)>> \o Tail(q) = q
    BY <2>1, <2>2
  <2>4. (s \o <<Head(q)>>) \o Tail(q) = s \o (<<Head(q)>> \o Tail(q))
    BY <2>1, <2>2, ConcatAssociative
  <2> QED BY <2>2, <2>3, <2>4
<1>2. ASSUME NEW x \in S PROVE Append(s \o q, x) = s \o Append(q, x)
  <2>1. s \o q \in Seq(S) /\ <<x>> \in Seq(S)
    BY ConcatProperties
  <2>2. Append(s \o q, x) = (s \o q) \o <<x>> /\ Append(q, x) = q \o <<x>>
    BY <2>1, AppendIsConcat
  <2> QED BY <2>1, <2>2, ConcatAssociative
<1> QED BY <1>1, <1>2


-----------------------------------------------------------------------------
(* Every step keeps the invariant.                                         *)

LEMMA InitEstablishes ==
  ASSUME CallsInit
  PROVE  CompatInv
<1>1. /\ ZeroTerm \in Term /\ MB_OK \in Status /\ EmptyMailbox \in Mailbox
      /\ RingWellFormed(EmptyMailbox) /\ EmptyMailbox.count = 0
  BY EmptyMailboxType DEF ZeroTerm, Term, TermTag, MB_OK, Status, EmptyMailbox,
     RingWellFormed
<1>2. 0 \in 0..(ClockMod - 1) /\ 0 \notin Pids
  BY DEF Pids
<1>3. TypeOK
  BY <1>1 DEF CallsInit, Init, TypeOK, Machine
<1>4. MachineOK
  BY <1>1, <1>2 DEF CallsInit, Init, MachineOK, RegFiles, ProcState
<1>5. WithinBudget /\ RingsSound
  BY <1>1 DEF CallsInit, Init, WithinBudget, RingsSound
<1>6. EachCommandOnce
  <2>1. Contents(EmptyMailbox) \in Seq(Command) /\ Len(Contents(EmptyMailbox)) = 0
    BY <1>1, ContentsType
  <2>2. Contents(EmptyMailbox) = << >> /\ << >> \o Contents(EmptyMailbox) = << >>
    BY <2>1, EmptySeq, ConcatEmptySeq
  <2>3. \A p \in Pids : Box(p) = EmptyMailbox
    BY <1>2 DEF CallsInit, Init, Box
  <2> QED BY <2>2, <2>3 DEF CallsInit, EachCommandOnce
<1> QED BY <1>3, <1>4, <1>5, <1>6 DEF CallsInit, Init, CompatInv

\* A call copies the machine to the process ...
LEMMA CallPreserves ==
  ASSUME CompatInv, NEW p \in Pids, NEW n \in 0..Reductions, CallMachine(p, n)
  PROVE  CompatInv'
<1>1. /\ TypeOK /\ MachineOK /\ vm[p] \in Machine /\ p # 0
      /\ slice' = 0 /\ active' = p /\ limit' = n /\ UNCHANGED <<vm, program, pushed, taken>>
      /\ mailbox' = [mailbox EXCEPT ![p] = vm[p].mailbox]
      /\ running' = IF vm[p].halted \/ n = 0 THEN 0 ELSE p
  BY DEF CompatInv, CallMachine, Call, TypeOK, Pids
<1>2. /\ vm[p].pc \in Nat /\ vm[p].regs \in [Regs -> Term] /\ vm[p].mailbox \in Mailbox
      /\ vm[p].halted \in BOOLEAN /\ vm[p].lastError \in Status
  BY <1>1 DEF Machine
<1>3. /\ pc' \in [Pids -> Nat] /\ pc'[p] = vm[p].pc
      /\ regs' \in RegFiles /\ regs'[p] = vm[p].regs
      /\ mailbox' \in [Pids -> Mailbox] /\ mailbox'[p] = vm[p].mailbox
      /\ halted' \in [Pids -> BOOLEAN] /\ halted'[p] = vm[p].halted
      /\ lastError' \in [Pids -> Status] /\ lastError'[p] = vm[p].lastError
  BY <1>1, <1>2 DEF CallMachine, Call, MachineOK, RegFiles
<1>4. TypeOK'
  BY <1>1, <1>2, <1>3 DEF CallMachine, Call, TypeOK, Stored, Machine, MB_OK, Status
<1>5. MachineOK'
  <2>1. /\ state' \in [Pids -> ProcState]
        /\ ~vm[p].halted => state'[p] = "READY"
    BY <1>1 DEF CallMachine, Call, MachineOK, ProcState
  <2>2. UNCHANGED <<sleepUntil, clock>>
    BY DEF CallMachine, Call
  <2>3. ASSUME NEW q \in Pids, running' = q
        PROVE  state'[q] = "READY" /\ ~halted'[q] /\ program'[q] \in DOMAIN Code
    <3>1. q = p /\ ~vm[p].halted
      BY <1>1, <2>3 DEF Pids
    <3> QED BY <1>1, <1>3, <2>1, <3>1 DEF CompatInv
  <2> QED BY <1>1, <1>3, <2>1, <2>2, <2>3 DEF MachineOK
<1>6. reductions' \in [Pids -> Int] /\ reductions'[p] = Start(n)
  BY DEF CompatInv, CallMachine, Call, Start
<1>7. WithinBudget'
  <2>1. Start(n) + 0 = Start(n) /\ n \in Nat /\ (n # 0 => 0 < n)
    BY DEF Start
  <2> QED BY <1>1, <1>6, <2>1 DEF WithinBudget, Start
<1>8. RingsSound'
  BY <1>1, <1>3 DEF CompatInv, RingsSound
<1>9. EachCommandOnce'
  <2>1. active = 0
    BY DEF CallMachine, Call
  <2>2. \A q \in Pids : Box(q)' = Box(q)
    BY <1>1, <1>3, <2>1 DEF Box, Pids
  <2> QED BY <1>1, <2>2 DEF CompatInv, EachCommandOnce, Contents
<1> QED BY <1>1, <1>4, <1>5, <1>6, <1>7, <1>8, <1>9 DEF CompatInv

\* ... and back.
LEMMA ReturnPreserves ==
  ASSUME CompatInv, ReturnToCaller
  PROVE  CompatInv'
<1>1. /\ TypeOK /\ MachineOK /\ active \in Pids /\ running = 0
      /\ vm' = [vm EXCEPT ![active] = Stored(active)] /\ active' = 0
      /\ UNCHANGED <<vmVars, limit, slice, pushed, taken>>
  BY DEF CompatInv, TypeOK, ReturnToCaller, Return
<1>2. UNCHANGED <<state, program, pc, regs, mailbox, halted, lastError, sleepUntil,
                  reductions, running, runRc, clock, hal>>
  BY <1>1 DEF vmVars, slotVars
<1>3. Stored(active) \in Machine /\ Stored(active).mailbox = mailbox[active]
  BY <1>1 DEF TypeOK, Stored, Pids
<1>4. vm' \in [Pids -> Machine] /\ vm'[active].mailbox = mailbox[active]
      /\ \A q \in Pids : q # active => vm'[q] = vm[q]
  BY <1>1, <1>3 DEF TypeOK
<1>5. TypeOK' /\ MachineOK'
  BY <1>1, <1>2, <1>4 DEF TypeOK, MachineOK
<1>6. WithinBudget' /\ RingsSound'
  BY <1>1, <1>2, <1>4 DEF CompatInv, WithinBudget, RingsSound, Start, Pids
<1>7. EachCommandOnce'
  <2>1. \A q \in Pids : Box(q)' = Box(q)
    BY <1>1, <1>2, <1>4 DEF Box, Pids
  <2> QED BY <1>1, <2>1 DEF CompatInv, EachCommandOnce, Contents
<1> QED BY <1>1, <1>2, <1>5, <1>6, <1>7 DEF CompatInv

\* The two mailbox calls change the mailbox of a machine between calls.
LEMMA MailboxCallPreserves ==
  ASSUME CompatInv, NEW p \in Pids, NEW mb \in Mailbox, RingWellFormed(mb),
         active = 0, vm' = [vm EXCEPT ![p].mailbox = mb],
         UNCHANGED <<vmVars, active, limit, slice>>,
         pushed' \in [Pids -> Seq(Command)], taken' \in [Pids -> Seq(Command)],
         \A q \in Pids : q # p => pushed'[q] = pushed[q] /\ taken'[q] = taken[q],
         pushed'[p] = taken'[p] \o Contents(mb)
  PROVE  CompatInv'
<1>1. UNCHANGED <<state, program, pc, regs, mailbox, halted, lastError, sleepUntil,
                  reductions, running, runRc, clock, hal>>
  BY DEF vmVars, slotVars
<1>2. /\ vm' \in [Pids -> Machine] /\ vm'[p].mailbox = mb
      /\ \A q \in Pids : q # p => vm'[q] = vm[q]
  <2>1. vm \in [Pids -> Machine]
    BY DEF CompatInv, TypeOK
  <2>2. [vm[p] EXCEPT !.mailbox = mb] \in Machine
    BY <2>1 DEF Machine
  <2>3. vm' = [vm EXCEPT ![p] = [vm[p] EXCEPT !.mailbox = mb]]
    BY <2>1
  <2>4. [vm[p] EXCEPT !.mailbox = mb].mailbox = mb
    BY <2>1 DEF Machine
  <2> QED BY <2>1, <2>2, <2>3, <2>4
<1>3. TypeOK' /\ MachineOK'
  BY <1>1, <1>2 DEF CompatInv, TypeOK, MachineOK
<1>4. WithinBudget' /\ RingsSound'
  BY <1>1, <1>2 DEF CompatInv, WithinBudget, RingsSound, Start, RingWellFormed
<1>5. EachCommandOnce'
  <2>1. \A q \in Pids : Box(q) = vm[q].mailbox /\ Box(q)' = vm'[q].mailbox
    BY DEF Box, Pids
  <2>2. ASSUME NEW q \in Pids PROVE pushed'[q] = taken'[q] \o Contents(Box(q)')
    <3>1. CASE q = p
      BY <1>2, <2>1, <3>1
    <3>2. CASE q # p
      <4>1. Box(q)' = Box(q) /\ pushed[q] = taken[q] \o Contents(Box(q))
        BY <1>2, <2>1, <3>2 DEF CompatInv, EachCommandOnce
      <4> QED BY <3>2, <4>1
    <3> QED BY <3>1, <3>2
  <2> QED BY <2>2 DEF EachCommandOnce, Contents
<1> QED BY <1>1, <1>3, <1>4, <1>5 DEF CompatInv


\* Between calls every machine has its own mailbox.
LEMMA IdleMachineFacts ==
  ASSUME CompatInv, active = 0, NEW p \in Pids
  PROVE  /\ vm[p].mailbox \in Mailbox /\ RingWellFormed(vm[p].mailbox)
         /\ pushed \in [Pids -> Seq(Command)] /\ taken \in [Pids -> Seq(Command)]
         /\ pushed[p] = taken[p] \o Contents(vm[p].mailbox)
<1>1. vm[p].mailbox \in Mailbox
  <2>1. vm[p] \in Machine
    BY DEF CompatInv, TypeOK
  <2> QED BY <2>1 DEF Machine
<1>2. Box(p) = vm[p].mailbox
  BY DEF Box, Pids
<1>3. RingWellFormed(vm[p].mailbox)
  BY DEF CompatInv, RingsSound
<1>4. pushed[p] = taken[p] \o Contents(vm[p].mailbox)
  BY <1>2 DEF CompatInv, EachCommandOnce
<1> QED BY <1>1, <1>3, <1>4 DEF CompatInv

LEMMA PushPreserves ==
  ASSUME CompatInv, NEW p \in Pids, NEW cmd \in Command, PushCommand(p, cmd)
  PROVE  CompatInv'
<1> DEFINE old == vm[p].mailbox
           mb  == Pushed(old, cmd)
<1>1. /\ active = 0 /\ PushStatus(old, cmd) = MB_OK
      /\ vm' = [vm EXCEPT ![p].mailbox = mb]
      /\ UNCHANGED <<vmVars, active, limit>>
  BY DEF PushCommand, MailboxPush
<1>2. /\ pushed' = [pushed EXCEPT ![p] = Append(@, cmd)]
      /\ UNCHANGED <<slice, taken>>
  BY DEF PushCommand
<1>3. /\ old \in Mailbox /\ RingWellFormed(old)
      /\ pushed \in [Pids -> Seq(Command)] /\ taken \in [Pids -> Seq(Command)]
      /\ pushed[p] = taken[p] \o Contents(old)
  BY <1>1, IdleMachineFacts
<1>4. old.count < MailboxCapacity
  BY <1>1, <1>3, PushStatusOk
<1>5. mb \in Mailbox /\ RingWellFormed(mb) /\ Contents(mb) = Append(Contents(old), cmd)
  BY <1>3, <1>4, PushedType, PushedWellFormed, PushedContents
<1>6. pushed'[p] = taken'[p] \o Contents(mb)
  <2>1. pushed'[p] = Append(taken[p] \o Contents(old), cmd)
    BY <1>2, <1>3
  <2>2. Contents(old) \in Seq(Command) /\ taken[p] \in Seq(Command)
    BY <1>3, ContentsType
  <2>3. Append(taken[p] \o Contents(old), cmd) = taken[p] \o Append(Contents(old), cmd)
    <3> DEFINE s == taken[p]
               q == Contents(old)
    <3>1. s \in Seq(Command) /\ q \in Seq(Command)
      BY <2>2
    <3> HIDE DEF s, q
    <3>2. \A x \in Command : Append(s \o q, x) = s \o Append(q, x)
      BY <3>1, QueueMoves
    <3> QED BY <3>2 DEF s, q
  <2> QED BY <1>2, <1>5, <2>1, <2>3
<1>7. /\ pushed' \in [Pids -> Seq(Command)] /\ taken' \in [Pids -> Seq(Command)]
      /\ \A q \in Pids : q # p => pushed'[q] = pushed[q] /\ taken'[q] = taken[q]
  <2>1. Append(pushed[p], cmd) \in Seq(Command)
    BY <1>3, AppendProperties
  <2> QED BY <1>2, <1>3, <2>1
<1> HIDE DEF mb
<1> QED BY <1>1, <1>2, <1>5, <1>6, <1>7, MailboxCallPreserves

\* Taking the first command: what was taken and what is queued is still all.
LEMMA TakeKeepsAll ==
  ASSUME NEW p \in Pids, NEW mb \in Mailbox, mb.count # 0, Take(p, mb),
         taken \in [Pids -> Seq(Command)]
  PROVE  /\ taken' \in [Pids -> Seq(Command)]
         /\ \A q \in Pids : q # p => taken'[q] = taken[q]
         /\ taken'[p] \o Contents(Popped(mb)) = taken[p] \o Contents(mb)
<1>1. /\ Contents(mb) \in Seq(Command) /\ Contents(mb) # << >>
      /\ First(mb) = Head(Contents(mb)) /\ Contents(Popped(mb)) = Tail(Contents(mb))
      /\ First(mb) \in Command
  BY ContentsType, PoppedContents, PoppedType
<1>2. Append(taken[p], First(mb)) \in Seq(Command)
  BY <1>1, AppendProperties
<1>3. /\ taken' \in [Pids -> Seq(Command)] /\ taken'[p] = Append(taken[p], First(mb))
      /\ \A q \in Pids : q # p => taken'[q] = taken[q]
  BY <1>2 DEF Take
<1>4. Append(taken[p], Head(Contents(mb))) \o Tail(Contents(mb))
        = taken[p] \o Contents(mb)
  BY <1>1, QueueMoves
<1> QED BY <1>1, <1>3, <1>4

LEMMA PopPreserves ==
  ASSUME CompatInv, NEW p \in Pids, PopCommand(p)
  PROVE  CompatInv'
<1> DEFINE old == vm[p].mailbox
           mb  == Popped(old)
<1>1. /\ active = 0 /\ old.count # 0
      /\ vm' = [vm EXCEPT ![p].mailbox = mb]
      /\ UNCHANGED <<vmVars, active, limit>>
  BY DEF PopCommand, MailboxPop
<1>2. Take(p, old) /\ UNCHANGED <<slice, pushed>>
  BY DEF PopCommand
<1>3. /\ old \in Mailbox /\ RingWellFormed(old)
      /\ pushed \in [Pids -> Seq(Command)] /\ taken \in [Pids -> Seq(Command)]
      /\ pushed[p] = taken[p] \o Contents(old)
  BY <1>1, IdleMachineFacts
<1>4. mb \in Mailbox /\ RingWellFormed(mb)
  BY <1>1, <1>3, PoppedType, PoppedWellFormed
<1>5. /\ taken' \in [Pids -> Seq(Command)]
      /\ \A q \in Pids : q # p => taken'[q] = taken[q]
      /\ taken'[p] \o Contents(mb) = taken[p] \o Contents(old)
  BY <1>1, <1>2, <1>3, TakeKeepsAll
<1>6. /\ pushed' \in [Pids -> Seq(Command)]
      /\ \A q \in Pids : q # p => pushed'[q] = pushed[q] /\ taken'[q] = taken[q]
      /\ pushed'[p] = taken'[p] \o Contents(mb)
  BY <1>2, <1>3, <1>5
<1> HIDE DEF mb
<1> QED BY <1>1, <1>2, <1>4, <1>5, <1>6, MailboxCallPreserves

\* The count of instructions and the reductions go up together.
LEMMA ExecuteKeepsBudget ==
  ASSUME CompatInv, NEW p \in Pids, ExecuteOne(p), Stepped(p), limit' = limit
  PROVE  WithinBudget' /\ reductions' \in [Pids -> Int] /\ slice' \in Nat
<1>1. /\ running = p /\ p # 0 /\ limit \in 0..Reductions /\ slice \in Nat
      /\ reductions \in [Pids -> Int] /\ CompatStep(p)
      /\ slice' = IF slice <= limit THEN slice + 1 ELSE slice
  <2>1. running = p /\ p # 0
    BY DEF Stepped, Pids
  <2>2. limit \in 0..Reductions /\ slice \in Nat /\ reductions \in [Pids -> Int]
    BY DEF CompatInv, TypeOK
  <2> QED BY <2>1, <2>2 DEF ExecuteOne
<1>2. \/ running' = 0 /\ reductions' = reductions
      \/ CountReduction(p, reductions[p])
      \/ CountReduction(p, Start(limit) + Budget)
  BY <1>1, CompatStepCounts
<1>3. reductions' \in [Pids -> Int] /\ slice' \in Nat
  BY <1>1, <1>2 DEF CountReduction, Start
<1>4. ASSUME limit <= Budget + 1
      PROVE  slice' <= limit /\ (running' # 0 => /\ slice' < limit
                                                /\ reductions'[p] = Start(limit) + slice')
  <2>1. slice < limit /\ reductions[p] = Start(limit) + slice
    BY <1>1, <1>4 DEF CompatInv, WithinBudget
  <2>2. slice' = slice + 1 /\ slice' <= limit
    BY <1>1, <2>1
  <2>3. CASE CountReduction(p, reductions[p])
    BY <1>1, <2>1, <2>2, <2>3 DEF CountReduction, Start
  <2>4. CASE CountReduction(p, Start(limit) + Budget)
    BY <1>1, <1>4, <2>2, <2>4 DEF CountReduction, Start
  <2> QED BY <1>2, <2>2, <2>3, <2>4
<1>5. running' \in {0, p}
  BY DEF Stepped
<1> QED BY <1>1, <1>3, <1>4, <1>5 DEF WithinBudget, Start

\* A command leaves the copy of the mailbox when it is taken, and only then.
LEMMA ExecuteKeepsCommands ==
  ASSUME CompatInv, NEW p \in Pids, ExecuteOne(p), Stepped(p),
         UNCHANGED <<vm, active>>
  PROVE  /\ RingsSound' /\ EachCommandOnce'
         /\ pushed' \in [Pids -> Seq(Command)] /\ taken' \in [Pids -> Seq(Command)]
<1> DEFINE old == mailbox[p]
<1>1. /\ active = p /\ p # 0 /\ CompatStep(p) /\ pushed' = pushed
      /\ mailbox \in [Pids -> Mailbox] /\ old \in Mailbox /\ RingWellFormed(old)
      /\ pushed \in [Pids -> Seq(Command)] /\ taken \in [Pids -> Seq(Command)]
      /\ IF mailbox'[p].count < old.count THEN Take(p, old) ELSE UNCHANGED taken
  <2>1. p # 0 /\ active = p
    <3>1. running = p /\ p # 0
      BY DEF Stepped, Pids
    <3>2. running \in {0, active}
      BY DEF CompatInv, TypeOK
    <3> QED BY <3>1, <3>2
  <2>2. mailbox \in [Pids -> Mailbox]
    BY DEF CompatInv, MachineOK
  <2>3. RingWellFormed(old)
    BY <2>1 DEF CompatInv, RingsSound
  <2> QED BY <2>1, <2>2, <2>3 DEF CompatInv, ExecuteOne
<1>2. \A q \in Pids : /\ Box(q) = IF q = p THEN mailbox[p] ELSE vm[q].mailbox
                      /\ Box(q)' = IF q = p THEN mailbox'[p] ELSE vm[q].mailbox
  BY <1>1 DEF Box
<1>3. \A q \in Pids : pushed[q] = taken[q] \o Contents(Box(q))
  BY DEF CompatInv, EachCommandOnce
<1>4. old.count \in Nat
  BY <1>1 DEF Mailbox
<1>5. /\ RingWellFormed(mailbox'[p])
      /\ taken' \in [Pids -> Seq(Command)]
      /\ \A q \in Pids : q # p => taken'[q] = taken[q]
      /\ taken'[p] \o Contents(mailbox'[p]) = taken[p] \o Contents(old)
  <2>1. CASE mailbox' = mailbox
    <3>1. ~(mailbox'[p].count < old.count)
      BY <1>4, <2>1
    <3>2. taken' = taken
      BY <1>1, <3>1
    <3> QED BY <1>1, <2>1, <3>2
  <2>2. CASE old.count # 0 /\ mailbox' = [mailbox EXCEPT ![p] = Popped(old)]
    <3>1. mailbox'[p] = Popped(old) /\ Popped(old).count = old.count - 1
      BY <1>1, <2>2 DEF Popped
    <3>2. Take(p, old)
      BY <1>1, <1>4, <3>1
    <3>3. RingWellFormed(Popped(old))
      BY <1>1, <2>2, PoppedWellFormed
    <3> QED BY <1>1, <2>2, <3>1, <3>2, <3>3, TakeKeepsAll
  <2> QED BY <1>1, <2>1, <2>2, CompatStepMail
<1>6. RingsSound'
  BY <1>1, <1>5 DEF CompatInv, RingsSound, RingWellFormed
<1>7. EachCommandOnce'
  <2>1. \A q \in Pids : Contents(Box(q)') = Contents(Box(q))' /\ pushed'[q] = pushed[q]
    BY <1>1 DEF Contents
  <2>2. \A q \in Pids : pushed'[q] = taken'[q] \o Contents(Box(q)')
    BY <1>2, <1>3, <1>5, <2>1
  <2> QED BY <2>1, <2>2 DEF EachCommandOnce
<1> QED BY <1>1, <1>5, <1>6, <1>7

LEMMA ExecutePreserves ==
  ASSUME CompatInv, NEW p \in Pids, ExecuteOne(p)
  PROVE  CompatInv'
<1>1. Stepped(p) /\ UNCHANGED <<vm, active, limit>>
  BY CompatStepTypes DEF ExecuteOne
<1>2. /\ TypeOK /\ MachineOK /\ running = p /\ active = p
      /\ program \in [Pids -> DOMAIN Code] /\ p # 0
  <2>1. running = p /\ p # 0
    BY <1>1 DEF Stepped, Pids
  <2>2. running \in {0, active}
    BY DEF CompatInv, TypeOK
  <2>3. active = p
    BY <2>1, <2>2
  <2> QED BY <2>1, <2>3 DEF CompatInv
<1>3. /\ pc' \in [Pids -> Nat] /\ regs' \in RegFiles /\ mailbox' \in [Pids -> Mailbox]
      /\ lastError' \in [Pids -> Status] /\ halted' \in [Pids -> BOOLEAN]
      /\ running' \in {0, p} /\ runRc' \in Status /\ program' = program
      /\ state' \in [Pids -> ProcState] /\ clock' \in Nat
      /\ sleepUntil' \in [Pids -> 0..(ClockMod - 1)]
      /\ running' # 0 => state'[p] = state[p] /\ halted' = halted
  BY <1>1 DEF Stepped
<1>4. TypeOK'
  BY <1>1, <1>2, <1>3 DEF TypeOK, Stored, Machine, RegFiles
<1>5. MachineOK'
  <2>1. ASSUME NEW q \in Pids, running' = q
        PROVE  state'[q] = "READY" /\ ~halted'[q] /\ program'[q] \in DOMAIN Code
    <3>1. q = p /\ running' # 0
      BY <1>3, <2>1 DEF Pids
    <3>2. state[p] = "READY" /\ ~halted[p] /\ program[p] \in DOMAIN Code
      BY <1>2 DEF MachineOK
    <3> QED BY <1>3, <3>1, <3>2
  <2> QED BY <1>3, <2>1 DEF MachineOK
<1>6. WithinBudget' /\ reductions' \in [Pids -> Int] /\ slice' \in Nat
  BY <1>1, ExecuteKeepsBudget
<1>7. /\ RingsSound' /\ EachCommandOnce'
      /\ pushed' \in [Pids -> Seq(Command)] /\ taken' \in [Pids -> Seq(Command)]
  BY <1>1, ExecuteKeepsCommands
<1> QED BY <1>2, <1>3, <1>4, <1>5, <1>6, <1>7 DEF CompatInv

\* Time passes at any moment.
LEMMA TickPreserves ==
  ASSUME CompatInv, Tick
  PROVE  CompatInv'
<1>1. /\ clock' = clock + 1
      /\ UNCHANGED <<state, program, pc, regs, mailbox, halted, lastError, sleepUntil,
                     reductions, running, runRc, vm, active, limit, slice, pushed, taken>>
  BY DEF Tick, ClockTick, slotVars
<1>2. TypeOK' /\ MachineOK'
  BY <1>1 DEF CompatInv, TypeOK, MachineOK, Stored
<1>3. WithinBudget' /\ RingsSound' /\ EachCommandOnce'
  BY <1>1 DEF CompatInv, WithinBudget, RingsSound, EachCommandOnce, Box, Start, Contents,
     RingWellFormed
<1> QED BY <1>1, <1>2, <1>3 DEF CompatInv

LEMMA CallsNextPreserves ==
  ASSUME CompatInv, [CallsNext]_callsVars
  PROVE  CompatInv'
<1>1. ASSUME NEW p \in Pids, NEW n \in 0..Reductions, CallMachine(p, n) PROVE CompatInv'
  BY <1>1, CallPreserves
<1>2. CASE ReturnToCaller
  BY <1>2, ReturnPreserves
<1>3. ASSUME NEW p \in Pids, NEW cmd \in Command, PushCommand(p, cmd) PROVE CompatInv'
  BY <1>3, PushPreserves
<1>4. ASSUME NEW p \in Pids, PopCommand(p) PROVE CompatInv'
  BY <1>4, PopPreserves
<1>5. ASSUME NEW p \in Pids, ExecuteOne(p) PROVE CompatInv'
  BY <1>5, ExecutePreserves
<1>6. CASE Tick
  BY <1>6, TickPreserves
<1>7. CASE UNCHANGED callsVars
  <2>1. UNCHANGED <<state, program, pc, regs, mailbox, halted, lastError, sleepUntil, clock,
                    reductions, running, runRc, vm, active, limit, slice, pushed, taken>>
    BY <1>7 DEF callsVars, compatVars, vmVars, slotVars
  <2>2. TypeOK' /\ MachineOK'
    BY <2>1 DEF CompatInv, TypeOK, MachineOK, Stored
  <2>3. WithinBudget' /\ RingsSound' /\ EachCommandOnce'
    BY <2>1 DEF CompatInv, WithinBudget, RingsSound, EachCommandOnce, Box, Start,
       Contents, RingWellFormed
  <2> QED BY <2>1, <2>2, <2>3 DEF CompatInv
<1> QED BY <1>1, <1>2, <1>3, <1>4, <1>5, <1>6, <1>7 DEF CallsNext

LEMMA Invariance == CallsSpec => []CompatInv
<1>1. CallsInit => CompatInv
  BY InitEstablishes
<1>2. CompatInv /\ [CallsNext]_callsVars => CompatInv'
  BY CallsNextPreserves
<1> QED BY <1>1, <1>2, PTL DEF CallsSpec

-----------------------------------------------------------------------------
(* The theorems.                                                           *)

\* Whatever the program: no instruction of a call writes outside the registers
\* of the copied process, no mailbox is overfilled, and what mb_proc_to_vm
\* copies back is a machine (mb_vm_run, mb_vm_mailbox_push).
THEOREM TypeCorrect == CallsSpec => []TypeOK
<1>1. CompatInv => TypeOK
  BY DEF CompatInv
<1> QED BY <1>1, Invariance, PTL

\* Whatever the program and however native code mixes its calls: every command
\* it pushed is taken once and in order, by RECV_CMD in the copied mailbox
\* (mb_vm_to_proc, mb_proc_to_vm) or by mb_vm_mailbox_pop in the machine's own.
THEOREM CommandsGoThroughOnce == CallsSpec => []EachCommandOnce
<1>1. CompatInv => EachCommandOnce
  BY DEF CompatInv
<1> QED BY <1>1, Invariance, PTL

\* mb_vm_run(vm, max_steps) executes at most max_steps instructions, one that
\* yields included, if max_steps is not beyond MB_REDUCTIONS + 1: mb_vm_step
\* executes at most one.
THEOREM CallsAreBounded == CallsSpec => []AtMostMaxSteps
<1>1. CompatInv => AtMostMaxSteps
  BY DEF CompatInv, WithinBudget, AtMostMaxSteps
<1> QED BY <1>1, Invariance, PTL


-----------------------------------------------------------------------------
(* Well-formed programs.                                                   *)

\* The instructions that differ without a scheduler go on, too.
LEMMA CompatOpsGoOn ==
  ASSUME CompatInv, NEW p \in Pids,
         \/ CompatSelf(p) \/ CompatYield(p) \/ CompatRecvEmpty(p)
         \/ CompatSend(p) \/ CompatSleepMs(p)
  PROVE  GoesOn(p)
<1>1. PICK op \in {MB_OP_SELF, MB_OP_YIELD, MB_OP_RECV_CMD, MB_OP_SEND, MB_OP_SLEEP_MS} :
        /\ Decoded(p, op)
        /\ pc' = [pc EXCEPT ![p] = AfterOperands(p, op)]
        /\ \E used : CountReduction(p, used)
  BY DEF CompatSelf, CompatYield, CompatRecvEmpty, CompatSend, CompatSleepMs, Retire,
         RetireUsing
<1>2. op \in FixedOps \ {MB_OP_HALT, MB_OP_JMP, MB_OP_JMP_IF_ZERO}
  BY OpcodesDiffer
<1>3. AfterOperands(p, op) \in Follow(Text(p), pc[p])
  BY <1>1, <1>2, FixedFollow
<1>4. running' = 0 => runRc' = MB_OK
  <2>1. running = p /\ p # 0
    BY <1>1 DEF Decoded, Executing, Pids
  <2> QED BY <1>1, <2>1 DEF CountReduction
<1>5. MachineOK
  BY DEF CompatInv
<1> QED BY <1>1, <1>3, <1>4, <1>5, EndsGoOn

\* The other copies stay where they are.
LEMMA CompatStepOthers ==
  ASSUME MachineOK, NEW p \in Pids, CompatStep(p), NEW q \in Pids, q # p
  PROVE  pc'[q] = pc[q] /\ halted'[q] = halted[q]
<1>1. /\ UNCHANGED pc \/ \E at : pc' = [pc EXCEPT ![p] = at]
      /\ UNCHANGED halted \/ halted' = [halted EXCEPT ![p] = TRUE]
  BY DEF CompatStep, NoOpcode, TruncatedOperands, BadRegister, BadOpcode, Nop, ConstI32,
     Move, Add, Sub, CompatSelf, CompatYield, Jmp, JmpIfZero, JumpTo, CallBifUndecoded,
     CallBif, RecvCmd, CompatRecvEmpty, CompatSend, CompatSleepMs, Halt, LeaveReady,
     MakeTupleUndecoded, MakeTuple, Cons, TupleElem, HeadOrTail, ConsWord, Allocate,
     OperandFault, Fault, FaultWith, Retire, RetireUsing
<1> QED BY <1>1 DEF MachineOK

\* A step of a call that is at an instruction of its machine's program.
LEMMA CompatGoesOn ==
  ASSUME CompatInv, NEW p \in Pids, program[p] \in WellFormed,
         pc[p] \in StartsOf[program[p]], CompatStep(p)
  PROVE  /\ pc'[p] \in StartsOf[program[p]] \/ halted'[p]
         /\ running' = 0 => runRc' \notin DecodingErrors
<1>1. running = p /\ MachineOK
  BY CompatStepTypes DEF CompatInv, Stepped
<1>2. /\ Whole(Text(p), pc[p])
      /\ Follow(Text(p), pc[p]) \subseteq StartsOf[program[p]]
      /\ StartsOf[program[p]] \subseteq 0..(Size(p) - 1)
  BY WellFormedFacts DEF Text, Size
<1>3. GoesOn(p)
  <2>1. CASE \/ CompatSelf(p) \/ CompatYield(p) \/ CompatRecvEmpty(p)
             \/ CompatSend(p) \/ CompatSleepMs(p)
    BY <2>1, CompatOpsGoOn
  <2>2. CASE Step(p)
    BY <1>1, <1>2, <2>2, WholeGoesOn
  <2> QED BY <2>1, <2>2 DEF CompatStep, Step
<1> QED BY <1>2, <1>3 DEF GoesOn

\* The machines are at instructions of their programs, and so are the copies.
MachinesOnInstructions ==
  /\ OnInstructions
  /\ \A p \in Pids :
       program[p] \in WellFormed /\ ~vm[p].halted => vm[p].pc \in StartsOf[program[p]]

LEMMA CallsStayOnInstructions ==
  ASSUME CompatInv, MachinesOnInstructions, [CallsNext]_callsVars
  PROVE  MachinesOnInstructions' /\ [DecodesWhole]_vmVars
<1>1. /\ MachineOK /\ vm \in [Pids -> Machine]
      /\ program \in [Pids -> DOMAIN Code]
  BY DEF CompatInv, TypeOK
<1>2. CASE \E p \in Pids : ExecuteOne(p)
  <2>1. PICK p \in Pids : CompatStep(p)
    BY <1>2 DEF ExecuteOne
  <2>2. /\ running = p /\ ~halted[p] /\ program' = program /\ vm' = vm
        /\ \A q \in Pids : q # p => pc'[q] = pc[q] /\ halted'[q] = halted[q]
    BY <1>1, <2>1, CompatStepTypes, CompatStepOthers DEF Stepped, MachineOK, CompatStep
  <2>3. ASSUME program[p] \in WellFormed
        PROVE  /\ pc[p] \in StartsOf[program[p]]
               /\ pc'[p] \in StartsOf[program[p]] \/ halted'[p]
               /\ running' = 0 => runRc' \notin DecodingErrors
    <3>1. pc[p] \in StartsOf[program[p]]
      BY <2>2, <2>3 DEF MachinesOnInstructions, OnInstructions
    <3> QED BY <2>1, <2>3, <3>1, CompatGoesOn
  <2>4. ASSUME NEW q \in Pids, program'[q] \in WellFormed, ~halted'[q]
        PROVE  pc'[q] \in StartsOf[program'[q]]
    <3>1. CASE q = p
      BY <2>2, <2>3, <2>4, <3>1
    <3>2. CASE q # p
      BY <2>2, <2>4, <3>2 DEF MachinesOnInstructions, OnInstructions
    <3> QED BY <3>1, <3>2
  <2>5. DecodesWhole
    BY <2>2, <2>3 DEF DecodesWhole
  <2> QED BY <2>2, <2>4, <2>5 DEF MachinesOnInstructions, OnInstructions
<1>3. CASE \E p \in Pids, n \in 0..Reductions : CallMachine(p, n)
  <2>1. PICK p \in Pids, n \in 0..Reductions : Call(p, n)
    BY <1>3 DEF CallMachine
  <2>2. /\ pc' = [pc EXCEPT ![p] = vm[p].pc] /\ halted' = [halted EXCEPT ![p] = vm[p].halted]
        /\ UNCHANGED <<program, vm>>
    BY <2>1 DEF Call
  <2>3. MachinesOnInstructions'
    BY <1>1, <2>2 DEF MachinesOnInstructions, OnInstructions, MachineOK
  <2>4. running = 0
    BY <2>1 DEF Call, CompatInv, TypeOK
  <2> QED BY <2>3, <2>4 DEF DecodesWhole
<1>4. CASE ReturnToCaller
  <2>1. /\ active \in Pids /\ vm' = [vm EXCEPT ![active] = Stored(active)]
        /\ UNCHANGED <<pc, halted, program, vmVars>>
    BY <1>4 DEF ReturnToCaller, Return, CompatInv, TypeOK, vmVars, slotVars
  <2>2. MachinesOnInstructions'
    BY <1>1, <2>1 DEF MachinesOnInstructions, OnInstructions, Stored
  <2> QED BY <2>1, <2>2
<1>5. CASE \/ \E p \in Pids, cmd \in Command : PushCommand(p, cmd)
           \/ \E p \in Pids : PopCommand(p)
  <2>1. PICK p \in Pids : \E mb : vm' = [vm EXCEPT ![p] = [vm[p] EXCEPT !.mailbox = mb]]
    BY <1>5 DEF PushCommand, PopCommand, MailboxPush, MailboxPop
  <2>2. UNCHANGED <<pc, halted, program, vmVars>>
    BY <1>5 DEF PushCommand, PopCommand, MailboxPush, MailboxPop, vmVars, slotVars
  <2>3. \A q \in Pids : vm'[q].pc = vm[q].pc /\ vm'[q].halted = vm[q].halted
    BY <1>1, <2>1 DEF Machine
  <2> QED BY <2>2, <2>3 DEF MachinesOnInstructions, OnInstructions
<1>6. CASE Tick \/ UNCHANGED callsVars
  <2>1. UNCHANGED <<pc, halted, program, vm, running>>
    BY <1>6 DEF Tick, ClockTick, callsVars, compatVars, vmVars, slotVars
  <2>2. MachinesOnInstructions'
    BY <2>1 DEF MachinesOnInstructions, OnInstructions
  <2>3. DecodesWhole
    <3>1. SUFFICES ASSUME running # 0, program[running] \in WellFormed
                   PROVE  pc[running] \in StartsOf[program[running]]
      BY <2>1 DEF DecodesWhole
    <3>2. running \in Pids
      BY <3>1 DEF CompatInv, TypeOK
    <3> QED BY <1>1, <3>1, <3>2 DEF MachinesOnInstructions, OnInstructions, MachineOK
  <2> QED BY <2>2, <2>3
<1> QED BY <1>2, <1>3, <1>4, <1>5, <1>6 DEF CallsNext

\* However native code cuts the execution of a well-formed program into calls,
\* each call goes on at the instruction where the last one ended, and none
\* returns an error of fetching or decoding.
THEOREM CallsDecode == CallsSpec => WellFormedDecodes
<1>1. CallsInit => MachinesOnInstructions
  BY WellFormedFacts DEF CallsInit, Init, MachinesOnInstructions, OnInstructions
<1>2. CompatInv /\ MachinesOnInstructions /\ [CallsNext]_callsVars =>
        MachinesOnInstructions' /\ [DecodesWhole]_vmVars
  BY CallsStayOnInstructions
<1> QED BY <1>1, <1>2, Invariance, PTL DEF CallsSpec, WellFormedDecodes
=============================================================================
