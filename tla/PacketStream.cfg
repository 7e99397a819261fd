SPECIFICATION Spec
CONSTANTS
  HalfModulus = 3
  CounterModulus = 12
  Neutral = neutral
  Inputs = {neutral, held, other}
  FailsafeTimeout = 0
  MaxElapsed = 1
  MaxPackets = 4
INVARIANTS
  TypeOK
  EverySequenceNumberCounted
PROPERTIES
  NewestStateWins
