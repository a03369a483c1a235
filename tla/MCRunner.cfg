CONSTANTS
  serial = serial
  sbd = sbd
  gsm = gsm
  PortOrder <- MCTwoPorts
  DevicePort = serial
  BackendPorts = {gsm}
  Requests = {"get", "set", "own"}
  Ids = {0, 7}
  DeviceIds = {0}
  Reports = 1
  ReportGap = 6
  Faults = {"send", "link", "store", "reset"}
  DevicePrompt = FALSE
  MaxRetries = 2
  MaxArrivals = 2
  MaxOutstanding = 2
  MaxQueue = 2
  NoModule = NoModule
  AutoId = AutoId
SPECIFICATION Spec
INVARIANTS TypeOK OwnAttempts
 
