CONSTANTS
  MaxPort = 2
  small = small
  big = big
  huge = huge
  Packet <- MCPacket
  FrameSize <- MCFrameSize
  Overhead = 2
  BufferSize = 5
  Rooms <- MCRooms
  PortLists <- MCPortLists
  Faults <- MCFaults
  MaxFile <- MCFaultyFile
  NoPacket = NoPacket
  Garbled = Garbled
SPECIFICATION Spec
INVARIANT DamageVisible
