SPECIFICATION MCSpec
CONSTANTS
  Worker = {w1, w2}
  Quote = {q1, q2}
  Account = {a, b}
  NoAccount = NoAccount
  NoQuote = NoQuote
  VerifiedAccount = {a}
  video = video
  Pdf = pdf
  Kind = {pdf, video}
  OtherKind = OtherKind
  Undeclared = Undeclared
  Limit <- MCLimit
  MaxFiles = 2
  MaxTotal = 2
  MaxUploads = 3
  Local = local
  Buffer = buffer
  Drive = drive
  Provider = {local, buffer, drive}
  NoProvider = NoProvider
  FallbackChoice = {drive}
  ContentType = {image, film}
  ReceiverTypes = {image}
  ReceiverMax = 1
  BrokerMax = 1
  TTL = 0
  MaxSessions = 2
  MaxReceipts = 2
  MaxTime = 1
SYMMETRY Interchangeable
INVARIANTS
  UploadsTypeOK
  ShownIsStored
  OvershootBounded
  TypeOK
  EveryReceiptWasInvited
  OwnersSeeSessions
  LogIsTrue
PROPERTIES
  KeepsContract
CHECK_DEADLOCK FALSE
