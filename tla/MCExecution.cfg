SPECIFICATION ExecSafetySpec
CONSTANTS
  Names = {n1, n2}
  Calls = {c1, c2}
  Nil = Nil
  Client = Client
  theAction = theAction
  notCached = notCached
  theCommand = theCommand
  Actions = {theAction, notCached}
  Commands = {theCommand}
  CommandOf <- MCCommandOf
  DoNotCache = {notCached}
  Updates <- MCUpdates
  Terminal <- TerminalMessages
CONSTRAINT NobodyFollows
SYMMETRY Symmetry
INVARIANTS
  ExecTypeOK
  CacheHoldsSuccesses
  CachedResponseSound
CHECK_DEADLOCK FALSE
