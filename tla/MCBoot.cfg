\* A board with one of the two buses.
CONSTANTS
  Bus <- MCBus
  Expected <- MCExpected
  Replies <- MCReplies
  ReadyBuses = {1}
  MaxTargets = 2
  ProbeTimeout = 10
  WdtTimeout = 120
  SettleTime = 1
  CounterMod = 3

SPECIFICATION Spec

INVARIANTS
  TypeOK
  OneProbeAtATime
  ScanFindsAnswers

PROPERTIES
  BootsTellApart
  BootReachesLoop
  HangsEndInReset
