\* Two packets, written and read from front to back.
SPECIFICATION StreamSpec
VIEW View
SYMMETRY Symmetric
CONSTANTS
  Radix = 3
  DatagramSize = 6
  Packets = {p, q}
  WriteData <- ShortBytes
  Strings <- FewTexts
  ReadSizes <- Sizes
  Seeks <- SomeSeeks
  ResizeSizes <- SomeSizes
  LengthFirst = {TRUE, FALSE}
  MaxReadPos = 8
PROPERTIES IsByteQueue
