\* Every pair of programs, messages and modes.
SPECIFICATION FairSpec
CONSTANTS
  a = a
  b = b
  Ends = {a, b}
  Messages <- ThreeLengths
  Scripts <- AllScripts
  Cap = 2
INVARIANTS TypeOK StreamWhole TrueMeansAll NeitherReturns NobodyStuck
PROPERTIES TurnsRunOut ExchangeEnds
CHECK_DEADLOCK FALSE
