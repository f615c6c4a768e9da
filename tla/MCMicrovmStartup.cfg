SPECIFICATION Spec
CONSTANTS
  Runs = {r1}
PROPERTIES
  StartupBounded
CHECK_DEADLOCK FALSE
