\* Two clients of the daemon; every application unit over every pair of media, frames
\* from elsewhere, and the control packets.
SPECIFICATION MCSpec
CHECK_DEADLOCK FALSE
CONSTANTS
  Kinds = {"BUSMONITOR_TS", "T_GROUP", "T_CONNECTION"}
  Groups = {5}
  DeviceAddr = 9
  NAddrs = {1, 2}
  TpduSrc = {0}
  GoesOn = FALSE
  MayStop = TRUE
  SernoCount = 2
  MaxConn = 2
  MaxReq = 3
  MaxBus = 3
  MaxOps = 4
  Octet <- MCOctet
  Word <- MCWord
  Data <- MCData
  Addr <- MCAddr
  Chan <- MCChan
  Ip <- MCIp
  Port <- MCPort
  Station = 4611
  Foreign <- MCForeign
  Overheard <- MCOverheard
  Describe <- MCDescribe
  Hosts <- MCHosts
  MaxHops = 2
INVARIANTS
  Registered
  NoStaleAnswer
  ConnOnce
  UnitArrives
  FrameKept
  ControlUnderstood
