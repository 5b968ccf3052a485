\* Blocks of three bytes, a word and a half, on a card that may grow to two.
CONSTANTS
  Byte = {0, 1}
  Width = 2
  Address = {0, 1}
  BlockSize = {0, 3}
  Words <- McWords
  Cards <- McCards
  CardLimit = 6
SPECIFICATION SdiSpec
INVARIANT BuffersBacked
PROPERTY CardSpec
