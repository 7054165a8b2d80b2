\* Two slots, budget of three reductions, mailboxes of three commands.
CONSTANTS
  PayloadHalf = 134217728
  MailboxCapacity = 3
  MaxProcesses = 2
  RegCount = 3
  Reductions = 3
  ClockMod = 16
  HeapCanFill = FALSE
  HeapWords = 1
  MaxClock = 3
  Code <- MCCode
  ReadResults <- MCReadResults
  WriteResults <- MCWriteResults
  HeapContents <- MCHeapContents
  NativeCommands <- MCNativeCommands

SPECIFICATION Spec

INVARIANTS
  TypeOK
  NoLostWakeup
  MailboxesSound
  ModesAgree
  TableDense

PROPERTIES
  Isolation
  HaltedIsFinal
  ImplementsActors

CHECK_DEADLOCK TRUE
