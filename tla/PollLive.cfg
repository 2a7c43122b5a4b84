SPECIFICATION FairSpec
CONSTANTS
  a1 = a1
  a2 = a2
  ports = ports
  Addr <- MCAddr2
  Inode <- MCInode1
  Pid <- MCPid2
  InodeReuse = TRUE
  Backend = "proc"
  V6 <- AllV6
  PortPair <- MCPorts
  PortsOf <- SamePorts
  HiddenPid <- MCHidden
  DumpMayFail = FALSE
  WalkMayFail = TRUE
PROPERTIES
  ImplementsFeed
  CancelCloses
  ShownEventually
  GoneEventually
