\* A first ::send that would block.
SPECIFICATION Spec
CONSTANTS
  Radix = 3
  DatagramSize = 6
  Messages <- TwoMessages
  Cap = 4
  SendBlocking = FALSE
  RecvBlocking = FALSE
  SplitSend = FALSE
  SplitArrival = FALSE
  KeepsError = FALSE
  Resets = 0
  Wanted = 3
  Connections = 1
  FreshPacket = FALSE
INVARIANTS DoneMeansSent
CHECK_DEADLOCK FALSE
