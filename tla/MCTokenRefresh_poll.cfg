SPECIFICATION Spec
CONSTANTS
  None = None
  Mixes <- OnlyPoll
  MaxLogins = 2
  MaxIssue = 1
  MaxIds = 1
  MaxSeq = 0
  MaxFaults = 0
  MaxCrashes = 0
INVARIANTS
  SyncStateIsolation
