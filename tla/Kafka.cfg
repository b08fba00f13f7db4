CONSTANTS
  Members = {m1, m2}
  NoMember = NoMember
  NoMessage = NoMessage
  Partitions = {p1}
  MaxOffset = 2
  MaxRetries = 1
  DLQEnabled = TRUE
  Redactor = "working"
  DecodeErrorsToDLQ = TRUE
  Undecodable <- FirstMessages
  NonJSON <- FirstMessages
  MaxFaults = 2
SPECIFICATION Spec
INVARIANT CommittedAreSettled
INVARIANT NoOvertaking
PROPERTY ImplementsLog
PROPERTY ShutdownReturns
PROPERTY EveryMessageSettled
