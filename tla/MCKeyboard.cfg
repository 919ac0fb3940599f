SPECIFICATION Spec
CONSTANTS
  KB_IN_BYTES = 2
  Key = {"a", "1", "KP_7", "KP_EN", "SHIFT_L", "ALT_R", "CAPS_LOCK",
         "NUM_LOCK", "HOME", "PRTSCRN", "PAUSE"}
  MaxHeld = 2
  MaxSent = 2
INVARIANTS
  KeysAsTyped
  NothingPending
  WaitEnds
