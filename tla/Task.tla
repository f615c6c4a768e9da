-------------------------------- MODULE Task ---------------------------------
(***************************************************************************)
(* internal/task, the contract of Run and the agent in its MicroVM: what   *)
(* dispatch sends is the task of handleExecute, whose answer is what       *)
(* runTask has returned. The agent is there as long as the MicroVM is, and *)
(* the bucket outlives both. It is that of one Run, any of them.           *)
(***************************************************************************)
EXTENDS Microvm

CONSTANTS
  Chosen,  \* the Run whose agent is looked at
  Names, Stdout, Stderr, Paths, Data, Empty, Inputs, Roots, Commands,
  Timeouts, Second, defaultActionTimeout, Changes, Nil

VARIABLES store, trees, command, root, seconds, agentPc, todo, disk,
          ctxErr, killed, exit, left, built, result

A == INSTANCE Agent WITH pc <- agentPc

ASSUME TaskAssumption == Chosen \in Runs /\ A!AgentAssumption /\ A!NodesAssumption

agentVars == <<store, trees, command, root, seconds, agentPc, todo, disk,
               ctxErr, killed, exit, left, built, result>>
allVars == <<vars, agentVars>>

TaskInit == Init /\ A!Init

-----------------------------------------------------------------------------
\* Faulty Answer: an answer is an answer, whatever error is in it.
AnswerAnything ==
  job[Chosen] = "running" /\ job'[Chosen] \in {"finished", "failed"} => agentPc \in A!Answered

\* handleExecute answers when runTask has returned: with its result, or else with
\* its error or that of the result's encoding.
Answer ==
  job[Chosen] = "running" =>
    /\ job'[Chosen] = "finished" => agentPc = "done"
    /\ job'[Chosen] = "failed" => agentPc \in A!Answered

\* Run, the Lambda API, the MicroVM and the agent's answer.
RunStep == Next /\ Answer /\ UNCHANGED agentVars

\* runTask and its command: they end with the MicroVM, at any point. The
\* connection to Run may break before.
AgentStep ==
  /\ job[Chosen] = "running"
  /\ A!Run \/ A!Expire \/ A!HangUp \/ A!Kill \/ A!Change \/ A!Exit
  /\ UNCHANGED vars

OthersPut == A!Others /\ UNCHANGED vars

TaskNext == RunStep \/ AgentStep \/ OthersPut

TaskSafetySpec == TaskInit /\ [][TaskNext]_allVars

\* As in Microvm: nobody promises that the agent goes on.
TaskSpec == TaskSafetySpec /\ Fairness

-----------------------------------------------------------------------------
(* Properties *)

\* The agent has a result, with an exit code that is the command's, and all that it
\* names is in the bucket.
Completed == agentPc = "done" /\ A!ResultIsStored /\ A!ExitCodeIsTrue

\* A result that Run returns is one that the agent has completed, though the MicroVM
\* is gone by then and may have ended in the middle of any step: neither an upload
\* that is cut short nor an error ever becomes a result (executor.go:171-206,
\* main.go:70-80).
ResultIsFetchable == outcome[Chosen] = "ok" => Completed

=============================================================================
