SPECIFICATION LedsSpec
CONSTANTS
  LED_CODE = 237
  KB_ACK = 250
  Scan = {30, 31}
  MaxSent = 2
  Nothing = 999
INVARIANTS
  AckRead
