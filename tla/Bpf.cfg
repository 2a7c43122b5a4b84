SPECIFICATION FairSpec
CONSTANTS
  a1 = a1
  cpu1 = cpu1
  cpu2 = cpu2
  ports = ports
  Addr <- MCAddr
  Inode <- MCInode
  Pid <- MCPid
  InodeReuse = TRUE
  V6 <- None
  PortPair <- MCPorts
  PortsOf <- SamePorts
  HiddenPid <- None
  DumpMayFail = FALSE
  WalkMayFail = TRUE
  Cpu <- TwoCpus
  RingCap = 1
INVARIANTS
  TypeOK
  InodeConnSound
  NothingLeaked
PROPERTIES
  ImplementsFeed
  CancelReleases
  OpenIsKnown
  GoneIsForgotten
