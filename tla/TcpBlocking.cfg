\* Blocking sockets, a connection that stays up.
SPECIFICATION FairSpec
CONSTANTS
  Radix = 3
  DatagramSize = 6
  Messages <- ManyMessages
  Cap = 12
  SendBlocking = TRUE
  RecvBlocking = TRUE
  SplitSend = FALSE
  SplitArrival = FALSE
  KeepsError = TRUE
  Resets = 0
  Wanted = 9
  Connections = 1
  FreshPacket = FALSE
PROPERTIES IsReliableChannel
