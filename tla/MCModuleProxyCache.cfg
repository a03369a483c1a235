CONSTANTS
  MaxCode = 2
  ambient1 = ambient1
  ambient2 = ambient2
  storage1 = storage1
  Packet <- MCPacket
  FrameSize <- MCSameSize
  CodeOf <- MCCodeOf
  Overhead = 2
  BufferSize = 5
  Faults = {}
  MaxFile = 6
  NoPacket = NoPacket
  Garbled = Garbled
SPECIFICATION Spec
INVARIANTS TypeOK 
 
