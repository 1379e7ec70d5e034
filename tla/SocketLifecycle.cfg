\* Two objects that bind, connect, listen, accept into each other and move.
SPECIFICATION Spec
VIEW View
SYMMETRY Symmetric
CONSTANTS
  Sockets = {a, b}
  Handles = {h1, h2, h3}
  Peers = {p1, p2}
  NoHandle = NoHandle
  NoAddress = NoAddress
  Hollow = Hollow
  Own = Own
INVARIANTS TypeOK HandlesOwned ConnectedTrue ModeAgrees AddressesCurrent
PROPERTIES AnswersTrue
