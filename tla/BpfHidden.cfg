SPECIFICATION Spec
CONSTANTS
  a1 = a1
  cpu1 = cpu1
  cpu2 = cpu2
  ports = ports
  Addr <- MCAddr
  Inode <- MCInode
  Pid <- MCPid
  InodeReuse = TRUE
  V6 <- None
  PortPair <- MCPorts
  PortsOf <- SamePorts
  HiddenPid <- MCHidden
  DumpMayFail = FALSE
  WalkMayFail = FALSE
  Cpu <- OneCpu
  RingCap = 1
INVARIANTS
  ConnectHasPid
