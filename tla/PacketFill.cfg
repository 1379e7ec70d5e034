\* A value that fills the packet to its last byte.
SPECIFICATION Spec
VIEW View
CONSTANTS
  Radix = 3
  DatagramSize = 6
  Packets = {p}
  WriteData <- Bytes
  Strings <- FewTexts
  ReadSizes <- Sizes
  Seeks <- SomeSeeks
  ResizeSizes <- SomeSizes
  LengthFirst = {TRUE, FALSE}
  MaxReadPos = 8
PROPERTIES FittingWriteReported
