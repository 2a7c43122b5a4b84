SPECIFICATION SystemSpec
CONSTANTS
  a1 = a1
  ports = ports
  remote = remote
  Addr <- MCAddr
  Inode <- MCInode
  Pid <- MCPid
  InodeReuse = FALSE
  Backend = "netlink"
  V6 <- None
  PortPair <- MCPorts
  PortsOf <- SamePorts
  HiddenPid <- None
  DumpMayFail = FALSE
  WalkMayFail = FALSE
  RemoteOf <- OneRemote
  CfgWindow = 10
  CfgMinSamples = 3
  CfgCvNum = 1
  CvDen = 4
  Cooldown = 2
  MaxClock = 5
  MaxLog = 3
INVARIANTS
  BeaconNeedsSockets
CHECK_DEADLOCK FALSE
