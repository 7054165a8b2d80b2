------------------------------ MODULE MbMailbox ------------------------------
(***************************************************************************)
(* mb_mailbox_t: a ring of MailboxCapacity commands with a head, a tail    *)
(* and a count (mb_types.h), and the push and pop of mb_vm.c.  A mailbox   *)
(* is a value here; the modules that keep mailboxes hold one per process.  *)
(***************************************************************************)
EXTENDS MbTypes, Sequences

CONSTANT MailboxCapacity

ASSUME MailboxAssumption == MailboxCapacity \in Nat \ {0}

Cells == 0..(MailboxCapacity - 1)

Mailbox == [items : [Cells -> Command],
            head  : Cells,
            tail  : Cells,
            count : 0..MailboxCapacity]

EmptyMailbox == [items |-> [i \in Cells |-> NoneCommand],
                 head |-> 0, tail |-> 0, count |-> 0]

\* The cell after cell i.
NextCell(i) == (i + 1) % MailboxCapacity

-----------------------------------------------------------------------------
(* mb_mailbox_push_raw: what it returns, and the mailbox after a push that *)
(* returned MB_OK.  Any other return leaves the mailbox as it was.         *)

\* Faulty: the bound test lets one command too many in.
PushStatusOffByOne(mb, cmd) ==
  IF ValidateCommand(cmd) # MB_OK THEN ValidateCommand(cmd)
  ELSE IF mb.count > MailboxCapacity THEN MB_MAILBOX_FULL
  ELSE MB_OK

\* Faulty: the command is queued without validation.
PushStatusUnchecked(mb, cmd) ==
  IF mb.count >= MailboxCapacity THEN MB_MAILBOX_FULL ELSE MB_OK

PushStatus(mb, cmd) ==
  IF ValidateCommand(cmd) # MB_OK THEN ValidateCommand(cmd)
  ELSE IF mb.count >= MailboxCapacity THEN MB_MAILBOX_FULL
  ELSE MB_OK

Pushed(mb, cmd) ==
  [items |-> [mb.items EXCEPT ![mb.tail] = cmd],
   head  |-> mb.head,
   tail  |-> NextCell(mb.tail),
   count |-> mb.count + 1]

-----------------------------------------------------------------------------
(* mb_mailbox_pop_raw, on a mailbox that is not empty.                     *)

First(mb) == mb.items[mb.head]

\* Faulty: the head is left where it was.
PoppedInPlace(mb) == [mb EXCEPT !.count = @ - 1]

Popped(mb) ==
  [items |-> mb.items, head |-> NextCell(mb.head), tail |-> mb.tail,
   count |-> mb.count - 1]

-----------------------------------------------------------------------------
(* What the ring stands for: the queued commands, oldest first.            *)

Contents(mb) ==
  [i \in 1..mb.count |-> mb.items[(mb.head + i - 1) % MailboxCapacity]]

\* Tail and head are count cells apart, so push and pop never meet wrongly.
RingWellFormed(mb) == mb.tail = (mb.head + mb.count) % MailboxCapacity
=============================================================================
