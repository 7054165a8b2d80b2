\* The instance of MCCompat, for the application's dispatcher.
CONSTANTS
  PayloadHalf = 134217728
  MailboxCapacity = 2
  MaxProcesses = 2
  RegCount = 16
  Budget = 64
  Reductions = 1024
  HeapWords = 0
  HeapCanFill = TRUE
  ClockMod = 1000
  MaxClock = 1
  MaxInputs = 3
  MaxExecuted = 10
  FreeLimits <- MCFreeLimits
  Code <- MCCode
  ReadResults <- MCReadResults
  WriteResults <- MCWriteResults
  HeapContents <- MCHeapContents
  NativeCommands <- MCNativeCommands

SPECIFICATION CompatSpec

INVARIANTS
  DispatcherRuns

\* Native code may stop calling.
CHECK_DEADLOCK FALSE
