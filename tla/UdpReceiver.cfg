SPECIFICATION Spec
CONSTANTS
  HalfModulus = 2
  CounterModulus = 2
  Neutral = neutral
  Inputs = {neutral}
  FailsafeTimeout = 0
  MaxElapsed = 1
  RecvTimeout = 1
  Clients = {phone}
  NoIp = noIp
  DriverMayReject = TRUE
INVARIANTS
  ReceiverTypeOK
  RunsAllOrNothing
  ConnectedHasClient
  AcceptedStatesReachGamepad
PROPERTIES
  StatesInOrder
  CallsReturn
  SilenceIsNoticed
