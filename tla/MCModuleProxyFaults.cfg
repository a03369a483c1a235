CONSTANTS
  MaxCode = 1
  ambient1 = ambient1
  ambient2 = ambient2
  storage1 = storage1
  Packet <- MCOneCode
  FrameSize <- MCFrameSize
  CodeOf <- MCCodeOf
  Overhead = 2
  BufferSize = 5
  Faults = {"short_write", "create_fails", "no_begin"}
  MaxFile = 10
  NoPacket = NoPacket
  Garbled = Garbled
SPECIFICATION Spec
INVARIANT DamageVisible
