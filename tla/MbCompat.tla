------------------------------ MODULE MbCompat ------------------------------
(***************************************************************************)
(* The compatibility layer of mb_vm.c: virtual machines (mb_vm_t) without  *)
(* a scheduler.  A native call copies the machine into a process on the    *)
(* stack, interprets that process with the instructions of MbVm, and       *)
(* copies it back.  Instructions that need a scheduler do something else   *)
(* here: RECV_CMD does not block, SEND is refused, SLEEP_MS delays the     *)
(* caller, and the process has no heap.                                    *)
(*                                                                         *)
(* Machine p is interpreted as process p of MbVm, whose variables are the  *)
(* local copy: they mean nothing outside a call.                           *)
(***************************************************************************)
EXTENDS MbVm

CONSTANTS
  Budget,         \* MB_REDUCTIONS; MbVm's Reductions is the largest max_steps
                  \* that native code passes to mb_vm_run
  NativeCommands, \* commands native code pushes, valid and invalid
  MaxClock        \* bound: the clock stops there

\* The zeroed local process has a heap of capacity 0.
ASSUME CompatAssumption ==
  /\ Budget \in Nat \ {0}
  /\ NativeCommands \subseteq Command
  /\ MaxClock \in Nat
  /\ HeapWords = 0 /\ HeapCanFill /\ HeapContents = {}

VARIABLES
  vm,      \* per machine, 1..MaxProcesses: the fields of mb_vm_t
  active,  \* the machine a native call is at work on, 0 when there is none
  limit    \* the max_steps of that call

compatVars == <<vmVars, vm, active, limit>>

-----------------------------------------------------------------------------
(* Native calls.                                                           *)

\* mb_vm_init of every machine with some program.
Init ==
  /\ state = [p \in Pids |-> "READY"]
  /\ program \in [Pids -> DOMAIN Code]
  /\ pc = [p \in Pids |-> 0]
  /\ regs = [p \in Pids |-> [r \in Regs |-> ZeroTerm]]
  /\ mailbox = [p \in Pids |-> EmptyMailbox]
  /\ halted = [p \in Pids |-> FALSE]
  /\ lastError = [p \in Pids |-> MB_OK]
  /\ sleepUntil = [p \in Pids |-> 0]
  /\ reductions = [p \in Pids |-> 0]
  /\ running = 0
  /\ runRc = MB_OK
  /\ clock = 0
  /\ hal = <<>>
  /\ vm = [p \in Pids |->
             [pc |-> 0, regs |-> [r \in Regs |-> ZeroTerm],
              mailbox |-> EmptyMailbox, halted |-> FALSE, lastError |-> MB_OK]]
  /\ active = 0
  /\ limit = Reductions

\* Reductions are counted from here, so that a call with max_steps n, too,
\* ends at MbVm's Reductions.
Start(n) == Reductions - n

\* mb_vm_run with max_steps n begins: mb_vm_to_proc, then the process runs
\* unless it has halted or may not.  mb_vm_step is the call with one step.
Call(p, n) ==
  /\ active = 0
  /\ active' = p
  /\ limit' = n
  /\ state' = [state EXCEPT ![p] = IF vm[p].halted THEN "HALTED" ELSE "READY"]
  /\ pc' = [pc EXCEPT ![p] = vm[p].pc]
  /\ regs' = [regs EXCEPT ![p] = vm[p].regs]
  /\ mailbox' = [mailbox EXCEPT ![p] = vm[p].mailbox]
  /\ halted' = [halted EXCEPT ![p] = vm[p].halted]
  /\ lastError' = [lastError EXCEPT ![p] = vm[p].lastError]
  /\ reductions' = [reductions EXCEPT ![p] = Start(n)]
  /\ running' = IF vm[p].halted \/ n = 0 THEN 0 ELSE p
  /\ runRc' = MB_OK
  /\ UNCHANGED <<program, sleepUntil, clock, hal, vm>>

\* Faulty: the mailbox is not copied back.
StoredNoMailbox(p) ==
  [vm[p] EXCEPT !.pc = pc[p], !.regs = regs[p], !.halted = halted[p],
                !.lastError = lastError[p]]

\* Faulty: the pc is not copied back after an error.
StoredPcIfOk(p) ==
  [pc |-> IF lastError[p] = MB_OK THEN pc[p] ELSE vm[p].pc, regs |-> regs[p],
   mailbox |-> mailbox[p], halted |-> halted[p], lastError |-> lastError[p]]

\* mb_proc_to_vm.
Stored(p) ==
  [pc |-> pc[p], regs |-> regs[p], mailbox |-> mailbox[p],
   halted |-> halted[p], lastError |-> lastError[p]]

\* The interpreter is done and the call returns runRc.
Return ==
  /\ active # 0
  /\ running = 0
  /\ vm' = [vm EXCEPT ![active] = Stored(active)]
  /\ active' = 0
  /\ UNCHANGED <<vmVars, limit>>

\* An accepted mb_vm_mailbox_push; a refused one changes nothing.
MailboxPush(p, cmd) ==
  /\ active = 0
  /\ PushStatus(vm[p].mailbox, cmd) = MB_OK
  /\ vm' = [vm EXCEPT ![p].mailbox = Pushed(@, cmd)]
  /\ UNCHANGED <<vmVars, active, limit>>

\* mb_vm_mailbox_pop of a mailbox with something in it.
MailboxPop(p) ==
  /\ active = 0
  /\ vm[p].mailbox.count # 0
  /\ vm' = [vm EXCEPT ![p].mailbox = Popped(@)]
  /\ UNCHANGED <<vmVars, active, limit>>

-----------------------------------------------------------------------------
(* The instructions that differ without a scheduler.                       *)

\* Faulty: an empty mailbox is an error.
CompatRecvEmptyFails(p) ==
  /\ Decoded(p, MB_OP_RECV_CMD)
  /\ mailbox[p].count = 0
  /\ Fault(p, AfterOperands(p, MB_OP_RECV_CMD), MB_MAILBOX_EMPTY)

\* An empty mailbox reads as the command NONE with the reason.
CompatRecvEmpty(p) ==
  /\ Decoded(p, MB_OP_RECV_CMD)
  /\ mailbox[p].count = 0
  /\ regs' = SetCommandRegs(p, MB_CMD_NONE, MB_MAILBOX_EMPTY, 0, 0, 0)
  /\ lastError' = [lastError EXCEPT ![p] = MB_MAILBOX_EMPTY]
  /\ pc' = [pc EXCEPT ![p] = AfterOperands(p, MB_OP_RECV_CMD)]
  /\ CountReduction(p, reductions[p])
  /\ UNCHANGED <<state, program, mailbox, halted, sleepUntil, clock, hal>>

CompatSend(p) ==
  /\ Decoded(p, MB_OP_SEND)
  /\ Retire(p, AfterOperands(p, MB_OP_SEND),
            SetReg(p, 1, MAKE_SMALLINT(MB_BAD_ARGUMENT)))

\* The pid is MB_PID_NONE.
CompatSelf(p) ==
  /\ Decoded(p, MB_OP_SELF)
  /\ Retire(p, AfterOperands(p, MB_OP_SELF), SetReg(p, 1, MAKE_PID(0)))

\* Faulty: one reduction like any other instruction.
CompatYieldForFree(p) ==
  /\ Decoded(p, MB_OP_YIELD)
  /\ RetireUsing(p, AfterOperands(p, MB_OP_YIELD), regs, Start(limit) - 1)

\* The reductions are set to MB_REDUCTIONS, whatever max_steps is.
CompatYield(p) ==
  /\ Decoded(p, MB_OP_YIELD)
  /\ RetireUsing(p, AfterOperands(p, MB_OP_YIELD), regs, Start(limit) + Budget)

\* mb_hal_delay_ms: the caller waits until the time is over.
CompatSleepMs(p) ==
  /\ Decoded(p, MB_OP_SLEEP_MS)
  /\ clock' = clock + (RegInt(p, 1) % ClockMod)
  /\ pc' = [pc EXCEPT ![p] = AfterOperands(p, MB_OP_SLEEP_MS)]
  /\ CountReduction(p, reductions[p])
  /\ UNCHANGED <<state, program, regs, mailbox, halted, lastError, sleepUntil,
                 hal>>

\* mb_proc_step without a scheduler.
CompatStep(p) ==
  /\ \/ NoOpcode(p) \/ TruncatedOperands(p) \/ BadRegister(p) \/ BadOpcode(p)
     \/ Nop(p) \/ ConstI32(p) \/ Move(p) \/ Add(p) \/ Sub(p)
     \/ CompatSelf(p) \/ CompatYield(p) \/ Jmp(p) \/ JmpIfZero(p)
     \/ CallBifUndecoded(p) \/ CallBif(p)
     \/ RecvCmd(p) \/ CompatRecvEmpty(p) \/ CompatSend(p)
     \/ CompatSleepMs(p) \/ Halt(p)
     \/ MakeTupleUndecoded(p) \/ MakeTuple(p) \/ Cons(p)
     \/ TupleElem(p) \/ HeadOrTail(p)
  /\ UNCHANGED <<vm, active, limit>>

ClockTick ==
  /\ clock < MaxClock
  /\ clock' = clock + 1
  /\ UNCHANGED <<slotVars, running, runRc, hal, vm, active, limit>>

-----------------------------------------------------------------------------
Machine == [pc : Nat, regs : [Regs -> Term], mailbox : Mailbox,
            halted : BOOLEAN, lastError : Status]

\* Types: whatever the program, no instruction of a call writes outside the
\* registers of its machine, and no mailbox is overfilled.
TypeOK ==
  /\ vm \in [Pids -> Machine]
  /\ active \in Pids \cup {0}
  /\ running \in {0, active}
  /\ limit \in 0..Reductions
  /\ active # 0 => Stored(active) \in Machine
  /\ runRc \in Status
=============================================================================
