\* Two packets, every call.
SPECIFICATION Spec
VIEW View
SYMMETRY Symmetric
CONSTRAINT OneSmall
CONSTANTS
  Radix = 3
  DatagramSize = 5
  Packets = {p, q}
  WriteData <- ShortBytes
  Strings <- FewTexts
  ReadSizes <- Sizes
  Seeks <- SomeSeeks
  ResizeSizes <- SomeSizes
  LengthFirst = {TRUE, FALSE}
  MaxReadPos = 7
INVARIANTS TypeOK HeaderTracksSize WriteCursorInBuffer AllSound
PROPERTIES CursorsMoveByReturn EarlierBytesKept ClearRecovers
