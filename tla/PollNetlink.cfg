SPECIFICATION Spec
CONSTANTS
  a1 = a1
  a2 = a2
  ports = ports
  Addr <- MCAddr1
  Inode <- MCInode2
  Pid <- MCPid2
  InodeReuse = FALSE
  Backend = "netlink"
  V6 <- None
  PortPair <- MCPorts
  PortsOf <- SamePorts
  HiddenPid <- None
  DumpMayFail = FALSE
  WalkMayFail = TRUE
INVARIANTS
  TypeOK
  ViewMatchesKnown
  ClosedMeansGone
  AttributedToHolder
PROPERTIES
  NoGapOnRekey
  ImplementsFeed
CHECK_DEADLOCK FALSE
