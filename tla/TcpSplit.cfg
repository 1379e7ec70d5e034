\* Packets sent and received in pieces.
SPECIFICATION FairSpec
CONSTANTS
  Radix = 3
  DatagramSize = 6
  Messages <- TwoMessages
  Cap = 4
  SendBlocking = FALSE
  RecvBlocking = FALSE
  SplitSend = TRUE
  SplitArrival = TRUE
  KeepsError = TRUE
  Resets = 1
  Wanted = 3
  Connections = 2
  FreshPacket = FALSE
INVARIANTS TypeOK SendPlace ReceivePlace OtherResultsTrue
PROPERTIES SendComesBack Framed IsLossyChannel
CHECK_DEADLOCK FALSE
