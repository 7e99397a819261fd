SPECIFICATION RestartSpec
CONSTANTS
  HalfModulus = 8
  CounterModulus = 12
  Neutral = neutral
  Inputs = {neutral, held}
  FailsafeTimeout = 0
  MaxElapsed = 1
  MaxPackets = 4
PROPERTIES
  NewestArrivalAccepted
