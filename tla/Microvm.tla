------------------------------ MODULE Microvm -------------------------------
(***************************************************************************)
(* internal/microvm/executor.go: Run executes one action in a MicroVM of   *)
(* its own, which it launches, waits for, hands the task to, and ends.     *)
(*                                                                         *)
(* Each request is one step, its answer: until the answer comes the        *)
(* request is pending, and nothing says that it ever comes. The Lambda     *)
(* MicroVMs API and the executor-agent are as Run sees them.               *)
(***************************************************************************)
CONSTANT Runs  \* the calls of Run: they share nothing

VARIABLES
  ctx,       \* whether the context of each Run is cancelled
  pc,        \* the request or the sleep it is in
  id,        \* whether it has been told its MicroVM's identifier
  expired,   \* whether the deadline of the wait it is in has passed
  tried,     \* whether it has asked to terminate its MicroVM
  outcome,   \* what it returns: "ok", "error" or "canceled"
  vm,        \* its MicroVM; every state before RUNNING is "pending"
  agent,     \* whether the agent in it answers
  job        \* the task that the agent was given

runVars == <<pc, id, expired, tried, outcome>>
vmVars == <<vm, agent, job>>
vars == <<ctx, runVars, vmVars>>

Requests == {"launch", "getvm", "token", "health", "dispatch", "await"}
Waits == {"getvm", "sleepVm", "health", "sleepHealth"}

Init ==
  /\ ctx = [r \in Runs |-> FALSE]
  /\ pc = [r \in Runs |-> "launch"]
  /\ id = [r \in Runs |-> FALSE]
  /\ expired = [r \in Runs |-> FALSE]
  /\ tried = [r \in Runs |-> FALSE]
  /\ outcome = [r \in Runs |-> "none"]
  /\ vm = [r \in Runs |-> "none"]
  /\ agent = [r \in Runs |-> FALSE]
  /\ job = [r \in Runs |-> "none"]

-----------------------------------------------------------------------------
(* Where Run goes next *)

Goto(r, label) ==
  /\ pc' = [pc EXCEPT ![r] = label]
  /\ UNCHANGED <<ctx, id, expired, tried, outcome>>

\* waitRunning and waitHealthy each start with a deadline of their own.
StartWait(r, label) ==
  /\ pc' = [pc EXCEPT ![r] = label]
  /\ expired' = [expired EXCEPT ![r] = FALSE]

\* return: the deferred teardown runs if it has been set up.
Leave(r, o) ==
  /\ outcome' = [outcome EXCEPT ![r] = o]
  /\ pc' = [pc EXCEPT ![r] = IF id[r] THEN "terminate" ELSE "returned"]
  /\ UNCHANGED <<ctx, id, expired, tried>>

\* Faulty Fail: the teardown is left to the last return.
FailAtOnce(r) ==
  /\ outcome' = [outcome EXCEPT ![r] = "error"]
  /\ pc' = [pc EXCEPT ![r] = "returned"]
  /\ UNCHANGED <<ctx, id, expired, tried, vmVars>>

Fail(r) == Leave(r, "error") /\ UNCHANGED vmVars

\* Faulty Again: the deadline is never looked at.
AgainForever(r, label) == Goto(r, label) /\ UNCHANGED vmVars

\* Faulty Again: the deadline cancels the context that the requests are given.
AgainCancelling(r, label) ==
  /\ IF expired[r] THEN Leave(r, "canceled") ELSE Goto(r, label)
  /\ UNCHANGED vmVars

\* One more turn of a wait, unless its deadline has passed: it sleeps first, and
\* sleep returns at once if the context is cancelled already.
Again(r, label) ==
  /\ \/ expired[r] /\ Leave(r, "error")
     \/ ~expired[r] /\ ctx[r] /\ Leave(r, "canceled")
     \/ ~expired[r] /\ ~ctx[r] /\ Goto(r, label)
  /\ UNCHANGED vmVars

-----------------------------------------------------------------------------
(* The requests that are answered *)

\* Faulty Launch: the teardown is set up only for a MicroVM that is running.
LaunchUntracked(r) ==
  /\ pc[r] = "launch"
  /\ \E s \in {"pending", "running"} :
       /\ vm' = [vm EXCEPT ![r] = s]
       /\ id' = [id EXCEPT ![r] = s = "running"]
       /\ StartWait(r, IF s = "running" THEN "token" ELSE "getvm")
  /\ UNCHANGED <<ctx, tried, outcome, agent, job>>

\* RunMicrovm: it can also fail after the MicroVM was made.
Launch(r) ==
  /\ pc[r] = "launch"
  /\ \/ \E s \in {"pending", "running"} :
          /\ vm' = [vm EXCEPT ![r] = s]
          /\ id' = [id EXCEPT ![r] = TRUE]
          /\ StartWait(r, IF s = "running" THEN "token" ELSE "getvm")
          /\ UNCHANGED <<ctx, tried, outcome>>
     \/ \E s \in {"none", "pending"} :
          /\ vm' = [vm EXCEPT ![r] = s]
          /\ Leave(r, "error")
  /\ UNCHANGED <<agent, job>>

GetMicrovm(r) ==
  /\ pc[r] = "getvm"
  /\ \/ vm[r] = "running" /\ Goto(r, "token") /\ UNCHANGED vmVars
     \/ vm[r] = "pending" /\ Again(r, "sleepVm")
     \/ Fail(r)

CreateMicrovmAuthToken(r) ==
  /\ pc[r] = "token"
  /\ \/ StartWait(r, "health") /\ UNCHANGED <<ctx, id, tried, outcome, vmVars>>
     \/ Fail(r)

\* Every answer but 200 is tried again, and so is no answer.
Health(r) ==
  /\ pc[r] = "health"
  /\ \/ agent[r] /\ Goto(r, "dispatch") /\ UNCHANGED vmVars
     \/ Again(r, "sleepHealth")

\* The task reaches the agent, or the connection fails.
Dispatch(r) ==
  /\ pc[r] = "dispatch"
  /\ \/ /\ agent[r]
        /\ job' = [job EXCEPT ![r] = "running"]
        /\ Goto(r, "await")
        /\ UNCHANGED <<vm, agent>>
     \/ Fail(r)

\* Faulty Await: a broken connection makes Run send the task again.
AwaitOrResend(r) ==
  /\ pc[r] = "await"
  /\ \/ job[r] = "finished" /\ Leave(r, "ok") /\ UNCHANGED vmVars
     \/ Goto(r, "dispatch") /\ UNCHANGED vmVars

\* Faulty Await: only the connection is looked at, not the agent's status.
AwaitAnything(r) ==
  /\ pc[r] = "await"
  /\ \/ job[r] \in {"finished", "failed"} /\ Leave(r, "ok") /\ UNCHANGED vmVars
     \/ Fail(r)

\* The agent's answer, or any failure to get one that can be decoded.
Await(r) ==
  /\ pc[r] = "await"
  /\ \/ job[r] = "finished" /\ Leave(r, "ok") /\ UNCHANGED vmVars
     \/ Fail(r)

Answered(r) ==
  \/ Launch(r) \/ GetMicrovm(r) \/ CreateMicrovmAuthToken(r)
  \/ Health(r) \/ Dispatch(r) \/ Await(r)

-----------------------------------------------------------------------------
(* What Run does whether or not anyone answers *)

\* sleep, of a context that was not cancelled when it began: when both channels are
\* ready, select takes either.
Sleep(r, label, next) ==
  /\ pc[r] = label
  /\ \/ Goto(r, next)
     \/ ctx[r] /\ Leave(r, "canceled")
  /\ UNCHANGED vmVars

\* Faulty Interrupt: the health check's request is made without the context.
InterruptOutsideHealth(r) ==
  /\ ctx[r]
  /\ pc[r] \in Requests \ {"health"}
  /\ Leave(r, "canceled")
  /\ UNCHANGED vmVars

\* A cancelled context ends the pending request. RunMicrovm may have made the
\* MicroVM, waitHealthy sees one more failure, and a task's answer that is cut
\* short does not decode.
Interrupt(r) ==
  /\ ctx[r]
  /\ \/ /\ pc[r] = "launch"
        /\ \E s \in {"none", "pending"} : vm' = [vm EXCEPT ![r] = s]
        /\ Leave(r, "canceled")
        /\ UNCHANGED <<agent, job>>
     \/ pc[r] = "health" /\ Again(r, "sleepHealth")
     \/ /\ pc[r] \in {"getvm", "token", "dispatch", "await"}
        /\ Leave(r, "canceled")
        /\ UNCHANGED vmVars
     \/ pc[r] = "await" /\ Fail(r)

\* The deferred TerminateMicrovm has 30 seconds of its own, and its error is
\* ignored.
Terminate(r) ==
  /\ pc[r] = "terminate"
  /\ tried' = [tried EXCEPT ![r] = TRUE]
  /\ pc' = [pc EXCEPT ![r] = "returned"]
  /\ \/ /\ vm' = [vm EXCEPT ![r] = "terminated"]
        /\ agent' = [agent EXCEPT ![r] = FALSE]
        /\ job' = [job EXCEPT ![r] = IF @ = "running" THEN "killed" ELSE @]
     \/ UNCHANGED vmVars
  /\ UNCHANGED <<ctx, id, expired, outcome>>

Alone(r) ==
  \/ Sleep(r, "sleepVm", "getvm")
  \/ Sleep(r, "sleepHealth", "health")
  \/ Interrupt(r)
  \/ Terminate(r)

-----------------------------------------------------------------------------
(* Time, the operation that is executed, the MicroVM and its agent *)

Expire(r) ==
  /\ pc[r] \in Waits
  /\ ~expired[r]
  /\ expired' = [expired EXCEPT ![r] = TRUE]
  /\ UNCHANGED <<ctx, pc, id, tried, outcome, vmVars>>

Cancel(r) ==
  /\ ~ctx[r]
  /\ ctx' = [ctx EXCEPT ![r] = TRUE]
  /\ UNCHANGED <<runVars, vmVars>>

Boot(r) ==
  /\ vm[r] = "pending"
  /\ vm' = [vm EXCEPT ![r] = "running"]
  /\ UNCHANGED <<ctx, runVars, agent, job>>

AgentListens(r) ==
  /\ vm[r] = "running"
  /\ ~agent[r]
  /\ agent' = [agent EXCEPT ![r] = TRUE]
  /\ UNCHANGED <<ctx, runVars, vm, job>>

\* handleExecute answers with a result, or with an error.
AgentAnswers(r) ==
  /\ agent[r]
  /\ job[r] = "running"
  /\ \E j \in {"finished", "failed"} : job' = [job EXCEPT ![r] = j]
  /\ UNCHANGED <<ctx, runVars, vm, agent>>

\* MaximumDurationInSeconds has passed, or the MicroVM breaks.
VmEnds(r) ==
  /\ vm[r] \in {"pending", "running"}
  /\ vm' = [vm EXCEPT ![r] = "terminated"]
  /\ agent' = [agent EXCEPT ![r] = FALSE]
  /\ job' = [job EXCEPT ![r] = IF @ = "running" THEN "killed" ELSE @]
  /\ UNCHANGED <<ctx, runVars>>

Next ==
  \E r \in Runs :
    \/ Answered(r) \/ Alone(r)
    \/ Expire(r) \/ Cancel(r)
    \/ Boot(r) \/ AgentListens(r) \/ AgentAnswers(r) \/ VmEnds(r)

\* The goroutine of Run is scheduled, its timers fire, and a cancelled context
\* ends what waits on it. Nobody promises to answer.
Fairness ==
  \A r \in Runs :
    /\ WF_vars(Sleep(r, "sleepVm", "getvm"))
    /\ WF_vars(Sleep(r, "sleepHealth", "health"))
    /\ WF_vars(Interrupt(r))
    /\ WF_vars(Terminate(r))
    /\ WF_vars(Expire(r))

Spec == Init /\ [][Next]_vars /\ Fairness

-----------------------------------------------------------------------------
(* Properties *)

\* The shape of the state: Run knows its MicroVM from the launch on, waits only
\* on what it knows, and has an outcome when it is on its way out.
VmTypeOK ==
  /\ ctx \in [Runs -> BOOLEAN]
  /\ pc \in [Runs -> Requests \cup Waits \cup {"terminate", "returned"}]
  /\ id \in [Runs -> BOOLEAN]
  /\ expired \in [Runs -> BOOLEAN]
  /\ tried \in [Runs -> BOOLEAN]
  /\ outcome \in [Runs -> {"none", "ok", "error", "canceled"}]
  /\ vm \in [Runs -> {"none", "pending", "running", "terminated"}]
  /\ agent \in [Runs -> BOOLEAN]
  /\ job \in [Runs -> {"none", "running", "finished", "failed", "killed"}]
  /\ \A r \in Runs :
       /\ pc[r] \notin {"launch", "returned"} => id[r]
       /\ outcome[r] = "none" <=> pc[r] \notin {"terminate", "returned"}
       /\ agent[r] => vm[r] = "running"

\* A MicroVM whose launch Run has seen is never left without an attempt to
\* terminate it, whichever return is taken (the defer of executor.go:125-132).
TeardownAttempted ==
  \A r \in Runs : pc[r] = "returned" /\ id[r] => tried[r]

\* A result comes from a task that the agent has finished, in this Run's MicroVM.
OkMeansFinished ==
  \A r \in Runs : outcome[r] = "ok" => id[r] /\ job[r] = "finished"

\* A MicroVM is given one task in its life, and none after its Run is leaving.
OneTaskPerMicrovm ==
  [][\A r \in Runs :
       job'[r] # job[r] /\ job'[r] = "running" =>
         job[r] = "none" /\ outcome[r] = "none" /\ vm[r] = "running"]_vars

\* The error wraps context.Canceled only if the operation was cancelled: Run's
\* own deadlines are reported as what they are.
CanceledMeansCancelled ==
  \A r \in Runs : outcome[r] = "canceled" => ctx[r]

\* A cancelled Run returns even when nobody answers it any more.
CancelledRunReturns ==
  \A r \in Runs : ctx[r] ~> pc[r] = "returned"

\* If every request is answered, or fails, every Run returns.
AnsweredRunReturns ==
  (\A r \in Runs : WF_vars(Answered(r))) => \A r \in Runs : <>(pc[r] = "returned")

\* "The MicroVM is always terminated before Run returns." (executor.go:98-99)
TerminatedBeforeReturn ==
  \A r \in Runs : pc[r] = "returned" => vm[r] \in {"none", "terminated"}

\* "StartupTimeout bounds how long we wait for a MicroVM to reach RUNNING and for
\* its agent to become healthy." (executor.go:58-59)
StartupBounded ==
  \A r \in Runs : pc[r] \in Waits /\ expired[r] ~> pc[r] \notin Waits

=============================================================================
