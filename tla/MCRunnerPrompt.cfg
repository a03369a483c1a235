CONSTANTS
  serial = serial
  sbd = sbd
  gsm = gsm
  PortOrder <- MCTwoPorts
  DevicePort = serial
  BackendPorts = {gsm}
  Requests <- MCRequests
  Ids = {0}
  DeviceIds = {0}
  Reports = 2
  ReportGap = 4
  Faults = {"reset"}
  DevicePrompt = TRUE
  MaxRetries = 3
  MaxArrivals = 3
  MaxOutstanding = 3
  MaxQueue = 8
  NoModule = NoModule
  AutoId = AutoId
SPECIFICATION Spec
INVARIANTS PromptAnswered 
