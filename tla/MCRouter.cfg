CONSTANTS
  Serial = Serial
  Iridium = Iridium
  Gsm = Gsm
  Nothing = Nothing
  i1 = i1
  i2 = i2
  g1 = g1
  g2 = g2
  s1 = s1
  Inbound <- MCInbound
  Size <- MCSize
  Foreign <- MCForeign
  Broken <- MCBroken
  Reports = {report}
  Capacity = 3
  FrameCapacity = 2
  MaxFaults = 2
SPECIFICATION Spec
INVARIANTS TypeOK Accounted RelayedEverywhere   
 
