CONSTANTS
  BufferSize = 5
  HeaderSize = 1
  MaxMessageSize = 3
  KeySize = 2
  MaxBacklog = 4
  CharKeys = {k}
  ShiftKeys = {lshift, rshift}
  ArrowKeys = {up}
  OtherKeys = {ctrl}
  Ids <- MCIds
  EmptyId = EmptyId
SYMMETRY MCSymmetry
SPECIFICATION KeyboardSpec
INVARIANTS
  DecoderFollowsKeyboard
PROPERTIES
  WriterNeverReachesReader
  KeysInOrder
