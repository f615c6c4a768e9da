---------------------------- MODULE MCExecution -----------------------------
(* Executions of an action whose results may be cached, and of one whose   *)
(* results may not.                                                        *)
EXTENDS Execution, TLC

CONSTANTS theAction, notCached, theCommand

MCUpdates == ProgressMessages \cup TerminalMessages
MCCommandOf == [a \in Actions |-> theCommand]

\* Bound of the run with two operations: the streams of the two Executes stay at
\* their first snapshot, and no client has a name by which to cancel or delete an
\* operation.
NobodyFollows ==
  /\ \A c \in Calls : pc[c] \in {"idle", "snapshot", "Unavailable"} /\ ~gone[c]
  /\ known = {}

\* Bound of the run with two calls, on what clients do and nothing else: they fill
\* the stores before there is an operation, whose lookup they do not skip, and
\* at most one of them leaves.
StoresFilledFirst ==
  /\ issued' # {} => Actions \cup Commands \subseteq cas
  /\ issued # {} /\ run' = run => ac' = ac
  /\ \A n \in Names : ~skip'[n]
  /\ Cardinality({c \in Calls : gone'[c]}) <= 1

Symmetry == Permutations(Names) \cup Permutations(Calls)

=============================================================================
