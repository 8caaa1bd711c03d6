SPECIFICATION Spec
CONSTANTS
  MaxHead = 3
  MaxWant = 1
  MaxFaults = 1
  MaxActs = 1
  MaxSaves = 1
  MaxCrashes = 1
  Gates = {"worker"}
INVARIANTS
  TypeOK
  NoGap
  AckAfterData
  OneWriter
PROPERTIES
  ImplementsDelivery
CHECK_DEADLOCK FALSE
