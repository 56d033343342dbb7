SPECIFICATION Spec
CONSTANTS
  TickModulus = 8
  Waits <- MCWaits
  MaxClock = 14
  MaxFired = 5
  Byte = {0, 1}
  Size = 4
  BlockBytes = 8
  LengthBytes = 2
  BitsPerByte = 4
  Message <- MCMessage
  Digit = 2
  Keys <- MCKeys
  WordBits = 4
  ByteBits = 2
  NumWords = 3
  Omega = 7
  Order = 4057
  Operands <- MCOperands
INVARIANTS TimerOnTime RingTypeOK NeverUninitialised
           DigestIsStandard KeyIsDecoded ArithmeticExact InverseLoop
PROPERTIES DelayIsWhole IsByteQueue WaitingIsTaken InverseShrinks
