SPECIFICATION FairSpec
CONSTANTS
  MaxHead = 1
  MaxWant = 0
  MaxFaults = 1
  MaxActs = 0
  MaxSaves = 1
  MaxCrashes = 0
  Gates = {"worker"}
PROPERTIES
  LiveIsStreaming
CHECK_DEADLOCK FALSE
