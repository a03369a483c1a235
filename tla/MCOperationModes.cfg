CONSTANTS
  launching = launching
  working = working
  recovering = recovering
  sbd = sbd
  gsm = gsm
  Port <- MCPorts
  ModeId <- MCModes
  Configs <- MCAll
  DefaultMode = launching
  NoMode = NoMode
  NoEntry = NoEntry
  RunsPerMinute = 4
  MaxJump = 3
  MaxPeriod = 2
  MaxDuration = 3
SPECIFICATION Spec
INVARIANTS TypeOK 
PROPERTIES ModeLasts 
