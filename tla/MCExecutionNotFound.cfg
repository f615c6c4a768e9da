SPECIFICATION ExecSafetySpec
CONSTANTS
  Names = {n1}
  Calls = {c1}
  Nil = Nil
  Client = Client
  theAction = theAction
  notCached = notCached
  theCommand = theCommand
  Actions = {theAction, notCached}
  Commands = {theCommand}
  CommandOf <- MCCommandOf
  DoNotCache = {notCached}
  Updates <- MCUpdates
  Terminal <- TerminalMessages
PROPERTIES
  NotFoundIsAbsent
CHECK_DEADLOCK FALSE
