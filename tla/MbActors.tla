------------------------------ MODULE MbActors ------------------------------
(***************************************************************************)
(* What the process runtime promises, with no bytecode, no registers, no   *)
(* ring and no scan order: a fixed set of actors, each with a bounded FIFO *)
(* inbox and a mode.  A command enters an inbox only when it is valid and  *)
(* there is room, leaves it from the front, and is never lost, duplicated  *)
(* or reordered; an actor blocks only on an empty inbox and every delivery *)
(* unblocks it; an actor that is done stays done.  MbScheduler implements  *)
(* this module (MbScheduler!Actors).                                       *)
(***************************************************************************)
EXTENDS Naturals, Sequences

CONSTANTS Pids,      \* the process identifiers
          Commands,  \* the commands that pass validation
          Capacity   \* how many commands an inbox holds

VARIABLES mode,  \* what each actor is doing
          box    \* each actor's inbox, oldest command first

avars == <<mode, box>>

Mode == {"absent", "runnable", "blocked", "asleep", "done"}

Init == /\ mode = [p \in Pids |-> "absent"]
        /\ box = [p \in Pids |-> <<>>]

\* An absent actor comes to life with an empty inbox.
Spawn(p) == /\ mode[p] = "absent"
            /\ mode' = [mode EXCEPT ![p] = "runnable"]
            /\ box' = [box EXCEPT ![p] = <<>>]

\* Some valid command joins the back of p's inbox and p, if blocked, wakes.
Deliver(p) ==
  /\ mode[p] # "absent"
  /\ Len(box[p]) < Capacity
  /\ Len(box'[p]) = Len(box[p]) + 1
  /\ LET cmd == box'[p][Len(box'[p])]
     IN  /\ cmd \in Commands
         /\ box' = [box EXCEPT ![p] = Append(@, cmd)]
  /\ mode' = [mode EXCEPT ![p] = IF @ = "blocked" THEN "runnable" ELSE @]

\* p takes the oldest command.
Receive(p) == /\ mode[p] = "runnable"
              /\ box[p] # <<>>
              /\ box' = [box EXCEPT ![p] = Tail(@)]
              /\ UNCHANGED mode

\* p asks for a command and there is none.
Block(p) == /\ mode[p] = "runnable"
            /\ box[p] = <<>>
            /\ mode' = [mode EXCEPT ![p] = "blocked"]
            /\ UNCHANGED box

Sleep(p) == /\ mode[p] = "runnable"
            /\ mode' = [mode EXCEPT ![p] = "asleep"]
            /\ UNCHANGED box

Finish(p) == /\ mode[p] = "runnable"
             /\ mode' = [mode EXCEPT ![p] = "done"]
             /\ UNCHANGED box

\* The clock wakes some of the sleepers together.
Wake == /\ \A p \in Pids : \/ mode'[p] = mode[p]
                           \/ mode[p] = "asleep" /\ mode'[p] = "runnable"
        /\ mode' = [p \in Pids |-> mode'[p]]
        /\ UNCHANGED box

Next == \/ \E p \in Pids : \/ Spawn(p) \/ Deliver(p) \/ Receive(p)
                           \/ Block(p) \/ Sleep(p) \/ Finish(p)
        \/ Wake

Spec == Init /\ [][Next]_avars
=============================================================================
