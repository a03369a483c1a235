CONSTANTS
  Roots = {root}
  Key = key
  Cert = cert
  ModemRetries = 1
  MqttRetries = 1
  WatchdogTimeout = 4
  ErrorTimeout = 1
  MaxFaults = 2
  Interval <- MCInterval
  SleepingTask = 1
  LoopInterval = 2
  Wrap = 20
  SetupTimes <- MCSetupTimes
  MaxBusy = 4
  StackLimit = 2
SPECIFICATION Spec
INVARIANTS TypeOK UpMeansReady IdleIsFed Punctual
PROPERTY ComesBack
CHECK_DEADLOCK FALSE
