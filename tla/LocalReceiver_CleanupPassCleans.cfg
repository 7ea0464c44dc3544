SPECIFICATION Spec
CONSTANTS
  MaxSessions = 1
  MaxFiles = 1
  MaxTime = 2
  Quote = {q1}
  Sizes = {0, 2, 3}
  Limits <- MCLimits
PROPERTY CleanupPassCleans
CHECK_DEADLOCK FALSE
