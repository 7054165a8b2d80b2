\* Two sensors and an actuator; the code's budget and registers.
CONSTANTS
  PayloadHalf = 134217728
  MailboxCapacity = 2
  MaxProcesses = 4
  RegCount = 16
  Reductions = 64
  ClockMod = 16
  HeapCanFill = FALSE
  HeapWords = 1
  MaxClock = 2
  StatsPeriod = 2
  Code <- MCCode
  Boot <- MCBoot
  FlowSpec <- MCFlowSpec
  DeviceReads <- MCDeviceReads
  ReadResults <- MCReadResults
  WriteResults <- MCWriteResults
  HeapContents <- MCHeapContents
  NativeCommands <- MCNativeCommands

SPECIFICATION FlowMC

PROPERTIES
  SensorsKeepReporting
