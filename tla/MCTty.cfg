SPECIFICATION FairSpec
CONSTANTS
  NR_CONSOLES = 2
  TTY_IN_BYTES = 2
  Char = {"x"}
  MaxKeys = 2
INVARIANTS
  TypeOK
  QueueShort
PROPERTIES
  EchoedAsTyped
  KeysRead
