SPECIFICATION Spec
CONSTANTS
  NR_TASKS = 1
  NR_PROCS = 3
  priority <- MCPriority
  MaxDebt = 2
PROPERTIES
  RefillAtZero
