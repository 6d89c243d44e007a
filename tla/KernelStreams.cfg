CONSTANTS
  MaxProcesses = 2
  Capacity = 4
SPECIFICATION Spec
INVARIANTS
  StdoutPointerDelivered
  OnlyFilledHandled
  KeyboardCapturedOnce
  NoTwoDropsInARow
PROPERTIES
  CaptureIsAnswered
