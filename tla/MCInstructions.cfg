\* Three slots, budget of two reductions, mailboxes of one command.
CONSTANTS
  PayloadHalf = 134217728
  MailboxCapacity = 1
  MaxProcesses = 3
  RegCount = 4
  Reductions = 2
  ClockMod = 16
  HeapCanFill = TRUE
  HeapWords = 2
  MaxClock = 1
  Code <- InstructionCode
  ReadResults <- InstructionReads
  WriteResults <- InstructionWrites
  HeapContents <- InstructionHeaps
  NativeCommands <- MCOneCommand

SPECIFICATION ProgramsSpec

PROPERTIES
  FaultHasNoEffect
  EndOfProgramIsFinal
  EveryStepCounts
  WellFormedDecodes
  SignalsAsAsked
  BoundedWaiting
  ReadyRuns
  RunEnds
  SleeperWakes
