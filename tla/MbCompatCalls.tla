---------------------------- MODULE MbCompatCalls ----------------------------
(***************************************************************************)
(* Native code at the compatibility layer: it makes one call after the     *)
(* other, of mb_vm_run, mb_vm_step and the two mailbox calls, with         *)
(* whatever arguments.  The history records what a call has executed, and  *)
(* the commands that went into and out of each machine.                    *)
(***************************************************************************)
EXTENDS MbCompat

VARIABLES
  slice,   \* instructions executed in the current call, cut at limit + 1
  pushed,  \* per machine: the commands native code pushed, in order
  taken    \* per machine: the commands that left its mailbox, in order

callsVars == <<compatVars, slice, pushed, taken>>

CallsInit == /\ Init
             /\ slice = 0
             /\ pushed = [p \in Pids |-> <<>>]
             /\ taken = [p \in Pids |-> <<>>]

CallMachine(p, n) == /\ Call(p, n)
                     /\ slice' = 0
                     /\ UNCHANGED <<pushed, taken>>

ReturnToCaller == Return /\ UNCHANGED <<slice, pushed, taken>>

PushCommand(p, cmd) == /\ MailboxPush(p, cmd)
                       /\ pushed' = [pushed EXCEPT ![p] = Append(@, cmd)]
                       /\ UNCHANGED <<slice, taken>>

\* The command that is taken is first in line.
Take(p, mb) == taken' = [taken EXCEPT ![p] = Append(@, First(mb))]

PopCommand(p) == /\ MailboxPop(p)
                 /\ Take(p, vm[p].mailbox)
                 /\ UNCHANGED <<slice, pushed>>

ExecuteOne(p) ==
  /\ CompatStep(p)
  /\ slice' = IF slice <= limit THEN slice + 1 ELSE slice
  /\ IF mailbox'[p].count < mailbox[p].count THEN Take(p, mailbox[p])
     ELSE UNCHANGED taken
  /\ UNCHANGED pushed

Tick == ClockTick /\ UNCHANGED <<slice, pushed, taken>>

CallsNext ==
  \/ \E p \in Pids, n \in 0..Reductions : CallMachine(p, n)
  \/ ReturnToCaller
  \/ \E p \in Pids, cmd \in Command : PushCommand(p, cmd)
  \/ \E p \in Pids : PopCommand(p)
  \/ \E p \in Pids : ExecuteOne(p)
  \/ Tick

CallsSpec == CallsInit /\ [][CallsNext]_callsVars

-----------------------------------------------------------------------------
\* The mailbox of machine p, wherever it is.
Box(p) == IF active = p THEN mailbox[p] ELSE vm[p].mailbox

\* Every command is taken once and in order, by RECV_CMD or by native code:
\* the mailbox that a call copies in and out neither loses what was taken
\* from it nor brings it back.
EachCommandOnce == \A p \in Pids : pushed[p] = taken[p] \o Contents(Box(p))

\* A call executes at most max_steps instructions ("Execute up to max_steps
\* VM instructions", mb_vm.h), and mb_vm_step at most one; as long as the
\* budget of MB_REDUCTIONS that YIELD exhausts is not less than max_steps.
AtMostMaxSteps == limit <= Budget + 1 => slice <= limit
=============================================================================
