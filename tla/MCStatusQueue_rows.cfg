SPECIFICATION FairSpec
CONSTANTS
  Threads = {t1}
  Dwell = 1
  Activities = {"send.message"}
  EngineStates = {"Live","Offline","Error"}
  MaxEvents = 1
  MaxFails = 2
  MaxClears = 1
  MaxSyncs = 1
  MaxMid = 1
  Phases <- OnePhase
  t1 = t1
INVARIANTS PaintedCurrent StaleRowsGone
PROPERTIES DwellKept RowsAdvance WorkerFailureSeen
CHECK_DEADLOCK FALSE
