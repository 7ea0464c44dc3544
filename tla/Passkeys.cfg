SPECIFICATION Spec
CONSTANTS
  Device = {hardware, synced}
  Counting = {hardware}
  Lifetime = 1
  SessionLife = 1
  MaxChallenges = 3
  MaxAccounts = 2
  MaxTime = 2
INVARIANTS
  TypeOK
  OneSessionPerChallenge
  CountersGoUp
  RequestsAreOwn
CHECK_DEADLOCK FALSE
