SPECIFICATION ConsoleSpec
CONSTANTS
  Worker = {w1}
  q1 = q1
  dev = dev
  text = text
  Text = {text}
  Form <- MCForm
  Quote = {q1}
  Account = {a, b}
  VerifiedAccount = {a}
  NoAccount = NoAccount
  TrustedDevice = {dev}
  Envelope <- MCEnvelope
  Genuine <- MCSigned
INVARIANTS
  LogIsTrue
  ToldIsTrue
PROPERTIES
  EditsStand
  KeepsContract
