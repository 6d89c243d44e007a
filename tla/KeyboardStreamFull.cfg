CONSTANTS
  BufferSize = 11
  HeaderSize = 2
  MaxMessageSize = 4
  KeySize = 3
  MaxBacklog = 22
  CharKeys = {k}
  ShiftKeys = {}
  ArrowKeys = {}
  OtherKeys = {}
  Ids <- MCIds
  EmptyId = EmptyId
SPECIFICATION KeyboardSpec
PROPERTIES
  WriterNeverReachesReader
