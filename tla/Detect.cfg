SPECIFICATION DetectSpec
CONSTANTS
  here1 = here1
  here2 = here2
  there = there
  bad = bad
  Conn <- MCConn
  BadPort <- MCBadPort
  BadIP <- MCBadIP
  BeaconKey <- BeaconKeys
  CfgWindow = 4
  CfgMinSamples = 3
  CfgCvNum = 1
  CvDen = 4
  Cooldown = 2
  MaxClock = 5
  MaxLog = 5
  MaxEvents = 5
INVARIANTS
  TypeOK
  HistoryIsWindow
  BeaconsAlert
  AnnouncedOnce
  CooldownHeld
PROPERTIES
  ImplementsBeaconRule
