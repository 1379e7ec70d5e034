\* A receive at the end of the stream.
SPECIFICATION Spec
CONSTANTS
  Radix = 3
  DatagramSize = 6
  Messages <- TwoMessages
  Cap = 4
  SendBlocking = TRUE
  RecvBlocking = TRUE
  SplitSend = FALSE
  SplitArrival = FALSE
  KeepsError = FALSE
  Resets = 0
  Wanted = 3
  Connections = 1
  FreshPacket = FALSE
INVARIANTS DoneDelivers
CHECK_DEADLOCK FALSE
