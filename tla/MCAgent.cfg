SPECIFICATION Spec
CONSTANTS
  x = x
  y = y
  Empty <- MCEmpty
  Nil = Nil
  Data <- MCData
  Stdout = 2
  Stderr = 1
  Second = 2
  defaultActionTimeout = 2
  Timeouts = {1, 2}
  Names <- MCNames
  Paths <- MCPaths
  Inputs <- MCInputs
  Roots <- MCRoots
  Commands <- MCCommands
  Changes <- MCChanges
INVARIANTS
  AgentTypeOK
  InputsInPlace
  ExitCodeIsTrue
  ResultIsStored
  OutputsAreWhatIsThere
PROPERTIES
  LimitedTaskAnswered
CHECK_DEADLOCK FALSE
