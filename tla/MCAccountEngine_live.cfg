SPECIFICATION FairSpec
CONSTANTS
  MaxHead = 2
  MaxWant = 1
  MaxFaults = 1
  MaxActs = 2
  MaxSaves = 0
  MaxCrashes = 0
  Gates = {"line"}
PROPERTIES
  CaughtUp
  LiveIsStreaming
CHECK_DEADLOCK FALSE
