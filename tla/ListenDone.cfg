\* The objects of SocketLifecycle.cfg, and what listen() answers.
SPECIFICATION Spec
VIEW View
SYMMETRY Symmetric
CONSTANTS
  Sockets = {a, b}
  Handles = {h1, h2, h3}
  Peers = {p1, p2}
  NoHandle = NoHandle
  NoAddress = NoAddress
  Hollow = Hollow
  Own = Own
PROPERTIES ListenDone
