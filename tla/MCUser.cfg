SPECIFICATION USpec
CONSTANTS
  NR_TASKS = 1
  NR_PROCS = 3
  priority <- MCPriority
  MaxDebt = 2
  Bits = 8
  Delayers = {3}
  msg <- MCMsg
  milli_sec <- MCMilliSec
  HZ = 2
  Second = 4
  MaxElapsed = 24
INVARIANTS
  TypeOK
  RoundInv
  DelayInTime
  PrintedAsFormatted
PROPERTIES
  RoundRobinOrder
  DelayLongEnough
  DelayReturns
