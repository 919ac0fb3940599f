SPECIFICATION RingFairSpec
CONSTANTS
  KB_IN_BYTES = 3
  Byte = {a, b}
  NoByte = NoByte
INVARIANTS
  RingTypeOK
  RingInv
PROPERTIES
  ImplementsByteQueue
  KeysServed
