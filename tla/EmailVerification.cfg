SPECIFICATION Spec
CONSTANTS
  a1 = a1
  a2 = a2
  d1 = d1
  d2 = d2
  Account = {a1, a2}
  Email = {home, work}
  NoEmail = NoEmail
  Digits = {d1, d2}
  MaxAttempts = 2
  Lifetime = 1
  Never = Never
  MaxCodes = 2
  MaxGuesses = 3
  MaxTime = 2
INVARIANTS
  TypeOK
  GuessLimit
  VerifiedByOwnCode
PROPERTIES
  MailOnlyToHolder
SYMMETRY Interchangeable
CHECK_DEADLOCK FALSE
