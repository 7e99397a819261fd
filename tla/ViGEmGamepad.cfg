SPECIFICATION Spec
CONSTANTS
  Handles = {h1, h2, h3}
  Null = null
  DriverMayFail = TRUE
INVARIANTS
  GamepadTypeOK
  HandlesAreLive
  ReportsGoToPluggedController
  HeldOnlyWhileStarted
  MockLeavesNothingBehind
\* With the mock in its place the gamepad is gone and does nothing more.
CHECK_DEADLOCK FALSE
