SPECIFICATION Spec
CONSTANTS
  Names = {n1}
  Calls = {c1, c2}
  Nil = Nil
  cached = cached
  executing = executing
  succeeded = succeeded
  failed = failed
  Updates <- MCUpdates
  Terminal <- MCTerminal
INVARIANTS
  TypeOK
  NoLostWakeup
  OkMeansTerminal
  NotFoundMeansRemoved
PROPERTIES
  DoneIsFinal
  TerminalDelivered
  StreamsImplementWatch
CHECK_DEADLOCK FALSE
