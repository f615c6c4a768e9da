---------------------------- MODULE MCBuildFarm -----------------------------
(* One operation, whose result may be cached, and its MicroVM.             *)
EXTENDS BuildFarm

CONSTANTS theAction, theCommand

MCUpdates == ProgressMessages \cup TerminalMessages
MCCommandOf == [a \in Actions |-> theCommand]

=============================================================================
