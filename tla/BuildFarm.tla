----------------------------- MODULE BuildFarm ------------------------------
(***************************************************************************)
(* The server and its MicroVMs together: exec.Run in runAction             *)
(* (execution.go:109) is the Run of internal/microvm/executor.go. Its      *)
(* context is the operation's, its deadlines and its teardown die with the *)
(* server process, and the MicroVM outlives both.                          *)
(***************************************************************************)
EXTENDS Execution

VARIABLES vmPc, id, expired, tried, outcome, vm, agent, job

farmVars == <<vmPc, id, expired, tried, outcome, vm, agent, job>>
everything == <<allVars, farmVars>>

\* The Run of an operation goes by its name; it begins when runAction calls it.
Vm == INSTANCE Microvm WITH Runs <- Names, ctx <- cancelled, pc <- vmPc

FarmInit ==
  /\ ExecInit
  /\ Vm!Init

-----------------------------------------------------------------------------
(* The steps of the server *)

\* Every step of the server but the return of exec.Run; only the end of the
\* process moves a runAction that is in it.
ServerStep ==
  /\ ExecNext
  /\ \A n \in Names : run[n] = "exec" => run'[n] \in {"exec", "done"}
  /\ UNCHANGED farmVars

\* runAction outside exec.Run.
RunActionElsewhere(n) ==
  /\ run[n] # "exec"
  /\ RunAction(n)
  /\ UNCHANGED farmVars

\* The goroutine of runAction is inside exec.Run.
InRun(n) == run[n] = "exec" /\ UNCHANGED allVars

RunRequests(n) == InRun(n) /\ Vm!Answered(n)
RunAlone(n) == InRun(n) /\ Vm!Alone(n)
RunExpires(n) == InRun(n) /\ Vm!Expire(n)

\* Faulty RunDelivers: whatever error a cancelled operation ends with is its
\* cancellation.
RunDeliversAsAsked(n) ==
  /\ run[n] = "exec"
  /\ vmPc[n] = "returned"
  /\ \/ outcome[n] = "ok" /\ Finish(n, Completed([exit |-> 0, by |-> n], FALSE))
     \/ outcome[n] \in {"error", "canceled"} /\ Finish(n, Failed("Canceled"))
  /\ UNCHANGED farmVars

\* exec.Run has returned: runAction goes by its result, or by its error.
RunDelivers(n) ==
  /\ run[n] = "exec"
  /\ vmPc[n] = "returned"
  /\ \/ /\ outcome[n] = "ok"
        /\ \E e \in {0, 1} :
             /\ Goto(n, IF action[n] \notin DoNotCache /\ e = 0 THEN "put" ELSE "complete")
             /\ response' = [response EXCEPT ![n] = Completed([exit |-> e, by |-> n], FALSE)]
        /\ UNCHANGED <<opVars, cas, ac, action, skip, asked>>
     \/ outcome[n] = "error" /\ Finish(n, Failed("Internal"))
     \/ outcome[n] = "canceled" /\ Finish(n, Failed("Canceled"))
  /\ UNCHANGED farmVars

-----------------------------------------------------------------------------
(* The cloud *)

\* A MicroVM goes on whether or not its Run, or the server, is still there.
CloudStep(n) ==
  /\ Vm!Boot(n) \/ Vm!AgentListens(n) \/ Vm!AgentAnswers(n) \/ Vm!VmEnds(n)
  /\ UNCHANGED allVars

FarmNext ==
  \/ ServerStep
  \/ \E n \in Names : RunRequests(n) \/ RunAlone(n) \/ RunExpires(n) \/ RunDelivers(n)
  \/ \E n \in Names : CloudStep(n)

FarmSafetySpec == FarmInit /\ [][FarmNext]_everything

\* The server's goroutines run and its timers fire, as in ExecSpec and in
\* Microvm's Spec. Nobody outside it promises anything.
FarmSpec ==
  /\ FarmSafetySpec
  /\ \A c \in Calls : WF_everything(Step(c) /\ UNCHANGED <<execVars, farmVars>>)
  /\ \A n \in Names :
       /\ WF_everything(RunActionElsewhere(n))
       /\ WF_everything(RunDelivers(n))
       /\ WF_everything(RunAlone(n))
       /\ WF_everything(RunExpires(n))

-----------------------------------------------------------------------------
(* Properties *)

\* The Run of executor.go keeps the promise that runAction relies on: with it in
\* place, the server takes no step that Execution does not allow. An error wraps
\* context.Canceled for cancelled operations alone (execution.go:110-116).
FarmImplementsExecution == ExecSafetySpec

\* When an operation's end is published, its Run has asked to terminate the
\* MicroVM that it knew of (executor.go:125-132), and a result that is new comes
\* from a task that was finished there; so does every result that an execution
\* has left in the Action Cache (execution.go:121).
EndedHasRun ==
  /\ \A n \in Names : done[n] =>
       /\ id[n] => tried[n]
       /\ latest[n].result # Nil /\ ~latest[n].cached => job[n] = "finished"
  /\ \A a \in Actions : ac[a] # Nil /\ ac[a].by \in Names => job[ac[a].by] = "finished"

\* A client that cancels an operation sees it end, even if the MicroVM, its agent
\* and the Lambda API never answer again, unless the server process ends first.
CancelledOperationEnds ==
  \A n \in Names : n \in asked ~> done[n] \/ n \notin entries

=============================================================================
