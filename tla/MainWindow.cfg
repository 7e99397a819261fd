SPECIFICATION Spec
CONSTANTS
  Addresses = {home, office}
  UnknownAddress = unknown
  PortModulus = 3
  DefaultPort = 2
  MaxTyped = 4
  None = none
INVARIANTS
  WindowTypeOK
  RunningOffersStop
  PaintedQrIsCurrent
PROPERTIES
  ClosingStopsReceiver
\* The program ends when its window is closed.
CHECK_DEADLOCK FALSE
