SPECIFICATION ManagerSpec
CONSTANTS
  HalfModulus = 2
  CounterModulus = 1
  Neutral = neutral
  Inputs = {neutral, left, right}
  FailsafeTimeout = 3
  MaxElapsed = 9
  RecvTimeout = 5
  Clients = {phone}
  NoIp = noIp
  DriverMayReject = FALSE
INVARIANTS
  ReleasedWhenFailsafeIsDue
