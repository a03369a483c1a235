CONSTANTS
  Start = 7
  End = 1
  Other = 2
  BufferSize = 6
  RingSize = 6
  MaxFrames = 3
  Stamps <- MCStamps
  Payloads <- MCPayloads
SPECIFICATION SpecSerial
INVARIANTS TypeOKSerial Exact
 
CHECK_DEADLOCK FALSE
