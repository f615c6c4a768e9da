SPECIFICATION ExecSpec
CONSTANTS
  Names = {n1}
  Calls = {c1, c2}
  Nil = Nil
  Client = Client
  theAction = theAction
  notCached = notCached
  theCommand = theCommand
  Actions = {theAction}
  Commands = {theCommand}
  CommandOf <- MCCommandOf
  DoNotCache = {}
  Updates <- MCUpdates
  Terminal <- TerminalMessages
ACTION_CONSTRAINT StoresFilledFirst
INVARIANTS
  CanceledOnlyIfAsked
PROPERTIES
  StagesInOrder
  ManagerSafety
  OperationsComplete
  CallsReturn
CHECK_DEADLOCK FALSE
