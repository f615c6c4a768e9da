SPECIFICATION TaskSpec
CONSTANTS
  Runs = {r1}
  Chosen = r1
  x = x
  y = y
  Empty <- MCEmpty
  Nil = Nil
  Data <- MCData
  Stdout = 2
  Stderr = 1
  Second = 1
  defaultActionTimeout = 0
  Timeouts = {1}
  Names <- MCNames
  Paths <- MCPaths
  Inputs <- MCInputs
  Roots <- MCRoots
  Commands <- MCCommands
  Changes <- MCChanges
INVARIANTS
  VmTypeOK
  TeardownAttempted
  OkMeansFinished
  CanceledMeansCancelled
  ResultIsFetchable
PROPERTIES
  OneTaskPerMicrovm
  CancelledRunReturns
  AnsweredRunReturns
CHECK_DEADLOCK FALSE
