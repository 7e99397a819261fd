SPECIFICATION Spec
CONSTANTS
  Handles = {h1, h2, h3}
  Null = null
  DriverMayFail = FALSE
INVARIANT OneController
