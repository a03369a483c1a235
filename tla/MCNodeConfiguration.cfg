CONSTANTS
  address = address
  modes = modes
  sbd = sbd
  gsm = gsm
  Key <- MCKey
  Address = address
  KeyOrder <- MCKeyOrder
  Value = {0, 1, 2}
  Absent = Absent
  Default <- MCDefault
  Stored <- MCStored
  Commands <- MCCommands
  Faults = {"read", "write"}
  NoConfig = NoConfig
SPECIFICATION Spec
INVARIANTS TypeOK AcknowledgedInForce AddressKnown
