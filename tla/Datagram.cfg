\* A connected and an unconnected UDP socket, and strangers.
SPECIFICATION Spec
CONSTANTS
  a = a
  b = b
  NoPeer = NoPeer
  Ends = {a, b}
  Radix = 3
  DatagramSize = 9
  PortRadix = 3
  InetHosts <- Hosts4
  Inet6Hosts <- Hosts6
  At <- AtEach
  Peer <- PeerEach
  Payloads <- TwoPayloads
  Forged <- AllForged
  Answers <- AllAnswers
  HostName <- TheName
  MaxNative = 5
  MaxInFlight = 2
  KeepsError = TRUE
INVARIANTS TypeOK NamesApart
PROPERTIES IsDatagramService ResultsTrue
VIEW View
