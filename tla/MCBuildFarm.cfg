SPECIFICATION FarmSpec
CONSTANTS
  Names = {n1}
  Calls = {c1}
  Nil = Nil
  Client = Client
  theAction = theAction
  theCommand = theCommand
  Actions = {theAction}
  Commands = {theCommand}
  CommandOf <- MCCommandOf
  DoNotCache = {}
  Updates <- MCUpdates
  Terminal <- TerminalMessages
INVARIANTS
  EndedHasRun
PROPERTIES
  FarmImplementsExecution
  CancelledOperationEnds
CHECK_DEADLOCK FALSE
