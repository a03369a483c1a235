CONSTANTS
  MaxPort = 2
  small = small
  big = big
  huge = huge
  Packet <- MCPacket
  FrameSize <- MCFrameSize
  Overhead = 2
  BufferSize = 5
  Rooms <- MCRooms
  PortLists <- MCPortLists
  Faults <- MCNoFaults
  MaxFile <- MCFile
  NoPacket = NoPacket
  Garbled = Garbled
SPECIFICATION Spec
INVARIANTS TypeOK OffsetsOrdered HeadReadable
PROPERTY FifoSpec
