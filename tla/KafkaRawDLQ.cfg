CONSTANTS
  Members = {m1}
  NoMember = NoMember
  NoMessage = NoMessage
  Partitions = {p1}
  MaxOffset = 2
  MaxRetries = 1
  DLQEnabled = TRUE
  Redactor = "none"
  DecodeErrorsToDLQ = FALSE
  Undecodable <- NoMessages
  NonJSON <- FirstMessages
  MaxFaults = 0
SPECIFICATION FairSpec
PROPERTY ExhaustedReachDLQ
