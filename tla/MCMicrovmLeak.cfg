SPECIFICATION Spec
CONSTANTS
  Runs = {r1}
INVARIANTS
  TerminatedBeforeReturn
CHECK_DEADLOCK FALSE
