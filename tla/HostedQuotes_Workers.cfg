SPECIFICATION Spec
CONSTANTS
  Worker = {w1, w2}
  q1 = q1
  dev = dev
  text = text
  Text = {text}
  Form <- MCForm
  Quote = {q1}
  Account = {a}
  VerifiedAccount = {a}
  NoAccount = NoAccount
  TrustedDevice = {dev}
  Envelope <- MCPairAndForged
  Genuine <- MCPair
INVARIANTS
  TypeOK
  OnlyGenuineTracked
  ReviewIsExplained
  ExactLocationStays
PROPERTIES
  AppliedOnce
SYMMETRY Interchangeable
