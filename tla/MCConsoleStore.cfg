SPECIFICATION Spec
CONSTANTS
  NR_CONSOLES = 2
  SCR_WIDTH = 2
  SCR_SIZE = 6
  v_mem_limit = 9
  UserChars = {"other", "newline"}
  boot_cursor = 3
  UsedCons = {1}
INVARIANTS
  StoresInside
