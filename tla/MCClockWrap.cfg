\* The clock wraps after 8 ms and is followed through its second round.
CONSTANTS
  PayloadHalf = 64
  MailboxCapacity = 1
  MaxProcesses = 1
  RegCount = 1
  Reductions = 4
  ClockMod = 8
  HeapCanFill = FALSE
  HeapWords = 1
  MaxClock = 16
  Code <- MCCode
  Boot <- MCBoot
  ReadResults <- MCResults
  WriteResults <- MCResults
  HeapContents <- MCHeapContents
  NativeCommands <- MCNativeCommands

SPECIFICATION WrapSpec

PROPERTIES
  NotWokenEarly
