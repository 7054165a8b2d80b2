\* A board with both buses.
CONSTANTS
  Bus <- MCBus
  Expected <- MCExpected
  Replies <- MCReplies
  ReadyBuses = {0, 1}
  MaxTargets = 2
  ProbeTimeout = 10
  WdtTimeout = 120
  SettleTime = 1
  CounterMod = 3

SPECIFICATION Spec

PROPERTIES
  BootReachesLoop
