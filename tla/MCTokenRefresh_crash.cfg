SPECIFICATION Spec
CONSTANTS
  None = None
  Mixes <- EachThread
  MaxLogins = 2
  MaxIssue = 3
  MaxIds = 2
  MaxSeq = 1
  MaxFaults = 1
  MaxCrashes = 1
INVARIANTS
  TypeOK
  CredentialIsolation
  Recoverable
  NoRollback
  NoSpentReuse
