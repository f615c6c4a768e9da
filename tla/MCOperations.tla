---------------------------- MODULE MCOperations ----------------------------
(* One operation that publishes up to two progress updates and one of two  *)
(* terminal ones, followed by two calls. Entries share nothing but the     *)
(* manager's map: Execution is checked with two of them.                   *)
EXTENDS Operations

CONSTANTS cached, executing, succeeded, failed

MCUpdates == {cached, executing, succeeded, failed}
MCTerminal == {succeeded, failed}

=============================================================================
