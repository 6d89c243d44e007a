CONSTANTS
  a = a
  b = b
  BufferSize = 7
  HeaderSize = 2
  MaxMessageSize = 5
  Ids <- MCIds
  EmptyId = EmptyId
  Lengths <- MCLengths
SPECIFICATION Spec
INVARIANTS
  TypeOK
  HeadsOrdered
  NextMessagePublished
  LiveMessagesIntact
PROPERTIES
  ImplementsChannel
  RoomAgain
