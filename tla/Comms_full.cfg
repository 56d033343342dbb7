SPECIFICATION Spec
CONSTANTS
  Payload = 2
  CrcBytes = 2
  BufferSize = 10
  RetByte = 7
  AckByte = 6
  PadByte = 255
  GarbledByte = 99
  Replies = {2}
  Window = 2
  MaxSent = 2
  MaxFaults = 0
CHECK_DEADLOCK FALSE
INVARIANTS BreakpointMeansFull
