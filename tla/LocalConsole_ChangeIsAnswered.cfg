SPECIFICATION MCSpec
CONSTANTS
  Token = {c1, c2}
  Lifetime = 2
  WindowLife = 2
  Task = {t1, t2}
  Scenario = {s1, s2}
  Provider = {railway, self_hosted}
  railway = railway
  yearly = yearly
  Entry <- MCEntry
  Frequency = {one_time, yearly}
  OneTime = one_time
  MaxItems = 2
  MaxNotes = 1
  MaxReceipts = 1
INVARIANTS
  ChangeIsAnswered
