-------------------------- MODULE BuildFarm_proofs --------------------------
(***************************************************************************)
(* Theorems about the server and its MicroVMs together, for any number of  *)
(* operations: each part, seen alone, is a behaviour of its own module, so *)
(* that what is proved there holds of both, and what a client is told is   *)
(* what happened in a MicroVM.                                             *)
(***************************************************************************)
EXTENDS BuildFarm, Execution_proofs

VmP == INSTANCE Microvm_proofs WITH Runs <- Names, ctx <- cancelled, pc <- vmPc

\* A message with a result of its own comes from a finished task.
Finished(n, u) == u.result # Nil /\ ~u.cached => job[n] = "finished"

\* Run begins with its operation's EXECUTING stage, and has been torn down by the
\* time that a response of it is there to be published.
FarmOK ==
  /\ \A n \in Names :
       /\ run[n] \in {"none", "start", "lookup", "fetch", "executing"} =>
            vmPc[n] = "launch" /\ ~id[n]
       /\ done[n] => run[n] \in {"exit", "done"}
       /\ run[n] \in {"put", "complete"} => (id[n] => tried[n]) /\ Finished(n, response[n])
  /\ EndedHasRun

FarmInv == ExecInv /\ VmP!IndInv /\ FarmOK

-----------------------------------------------------------------------------
(* The parts of the composition *)

\* Microvm's definitions are the same whichever instance they are reached through.
LEMMA SameVm ==
  /\ Vm!Init <=> VmP!Init
  /\ \A n \in Names :
       /\ Vm!Answered(n) <=> VmP!Answered(n)
       /\ Vm!Alone(n) <=> VmP!Alone(n)
       /\ Vm!Expire(n) <=> VmP!Expire(n)
       /\ Vm!Boot(n) <=> VmP!Boot(n)
       /\ Vm!AgentListens(n) <=> VmP!AgentListens(n)
       /\ Vm!AgentAnswers(n) <=> VmP!AgentAnswers(n)
       /\ Vm!VmEnds(n) <=> VmP!VmEnds(n)
<1>1. /\ Vm!Init <=> VmP!Init
      BY DEF Vm!Init, VmP!Init, VmP!vars
<1> SUFFICES ASSUME NEW n \in Names
             PROVE  /\ Vm!Answered(n) <=> VmP!Answered(n)
                    /\ Vm!Alone(n) <=> VmP!Alone(n)
                    /\ Vm!Expire(n) <=> VmP!Expire(n)
                    /\ Vm!Boot(n) <=> VmP!Boot(n)
                    /\ Vm!AgentListens(n) <=> VmP!AgentListens(n)
                    /\ Vm!AgentAnswers(n) <=> VmP!AgentAnswers(n)
                    /\ Vm!VmEnds(n) <=> VmP!VmEnds(n)
  BY <1>1
<1>2. Vm!Answered(n) <=> VmP!Answered(n)
  BY DEF Vm!Answered, Vm!Launch, Vm!GetMicrovm, Vm!CreateMicrovmAuthToken, Vm!Health,
         Vm!Dispatch, Vm!Await, Vm!Again, Vm!Fail, Vm!Leave, Vm!Goto, Vm!StartWait,
         Vm!vmVars, VmP!Answered, VmP!Launch, VmP!GetMicrovm, VmP!CreateMicrovmAuthToken,
         VmP!Health, VmP!Dispatch, VmP!Await, VmP!Again, VmP!Fail, VmP!Leave, VmP!Goto,
         VmP!StartWait, VmP!vmVars
<1>3. Vm!Alone(n) <=> VmP!Alone(n)
  BY DEF Vm!Alone, Vm!Sleep, Vm!Interrupt, Vm!Terminate, Vm!Again, Vm!Fail, Vm!Leave,
         Vm!Goto, Vm!vmVars, VmP!Alone, VmP!Sleep, VmP!Interrupt, VmP!Terminate,
         VmP!Again, VmP!Fail, VmP!Leave, VmP!Goto, VmP!vmVars
<1>4. /\ Vm!Expire(n) <=> VmP!Expire(n)
      /\ Vm!Boot(n) <=> VmP!Boot(n)
      /\ Vm!AgentListens(n) <=> VmP!AgentListens(n)
  BY DEF Vm!Expire, Vm!Boot, Vm!AgentListens, Vm!Waits, Vm!runVars, Vm!vmVars,
         VmP!Expire, VmP!Boot, VmP!AgentListens, VmP!Waits, VmP!runVars, VmP!vmVars
<1>5. /\ Vm!AgentAnswers(n) <=> VmP!AgentAnswers(n)
      /\ Vm!VmEnds(n) <=> VmP!VmEnds(n)
  BY DEF Vm!AgentAnswers, Vm!VmEnds, Vm!runVars, VmP!AgentAnswers, VmP!VmEnds, VmP!runVars
<1> QED
  BY <1>2, <1>3, <1>4, <1>5

\* A step of a Run, of its deadlines or of its MicroVM, and nothing else.
VmStep(n) ==
  \/ VmP!Answered(n) \/ VmP!Alone(n) \/ VmP!Expire(n)
  \/ VmP!Boot(n) \/ VmP!AgentListens(n) \/ VmP!AgentAnswers(n) \/ VmP!VmEnds(n)

\* The steps of the farm: the server's, exec.Run's and what it returns, the cloud's.
LEMMA FarmSteps ==
  ASSUME [FarmNext]_everything
  PROVE  \/ ServerStep
         \/ \E n \in Names : RunDelivers(n)
         \/ \E n \in Names :
              /\ VmStep(n)
              /\ run[n] = "exec" \/ UNCHANGED <<vmPc, id, tried>>
              /\ UNCHANGED allVars
         \/ UNCHANGED everything
<1>1. ASSUME NEW n \in Names, RunRequests(n) \/ RunAlone(n) \/ RunExpires(n)
      PROVE  VmStep(n) /\ run[n] = "exec" /\ UNCHANGED allVars
  BY <1>1, SameVm DEF RunRequests, RunAlone, RunExpires, InRun, VmStep
<1>2. ASSUME NEW n \in Names, CloudStep(n)
      PROVE  VmStep(n) /\ UNCHANGED <<vmPc, id, tried>> /\ UNCHANGED allVars
  <2>1. VmStep(n) /\ UNCHANGED allVars
    BY <1>2, SameVm DEF CloudStep, VmStep
  <2>2. UNCHANGED <<vmPc, id, tried>>
    BY <1>2 DEF CloudStep, Vm!Boot, Vm!AgentListens, Vm!AgentAnswers, Vm!VmEnds, Vm!runVars
  <2> QED
    BY <2>1, <2>2
<1> QED
  BY <1>1, <1>2 DEF FarmNext

\* The cancellation of an operation is the only thing that the server does to a Run.
LEMMA ServerOnlyCancels ==
  ASSUME RunOK, TypeOK, [ExecNext]_allVars, UNCHANGED farmVars
  PROVE  [VmP!Next]_VmP!vars
<1>1. [Next]_opVars
  BY ExecStepIsManagerStep
<1>2. UNCHANGED VmP!runVars /\ UNCHANGED VmP!vmVars
  BY DEF farmVars, VmP!runVars, VmP!vmVars
<1>3. ASSUME NEW n \in Names, cancelled' = [cancelled EXCEPT ![n] = TRUE]
      PROVE  [VmP!Next]_VmP!vars
  <2>1. CASE ~cancelled[n]
    BY <1>2, <1>3, <2>1 DEF VmP!Next, VmP!Cancel
  <2>2. CASE cancelled[n]
    <3>1. UNCHANGED cancelled
      BY <1>3, <2>2 DEF TypeOK
    <3> QED
      BY <1>2, <3>1 DEF VmP!vars
  <2> QED
    BY <2>1, <2>2
<1>4. ASSUME NEW n \in Names, CancelOperation(n) \/ Release(n)
      PROVE  [VmP!Next]_VmP!vars
  BY <1>3, <1>4 DEF CancelOperation, Release
<1>5. CASE UNCHANGED cancelled
  BY <1>2, <1>5 DEF VmP!vars
<1>6. ASSUME NEW c \in Calls, Step(c) \/ Disconnect(c) PROVE UNCHANGED cancelled
  BY <1>6 DEF Step, Snapshot, Send, Abandon, Wake, Return, Disconnect
<1>7. ASSUME NEW c \in Calls,
             \/ \E n \in Names : Start(c, n)
             \/ \E code \in Refusals : Reject(c, code)
             \/ \E n \in Names, k \in Kinds : Lookup(c, k, n)
      PROVE  UNCHANGED cancelled
  BY <1>7 DEF Start, Reject, Lookup
<1>8. ASSUME NEW n \in Names, DeleteOperation(n) \/ \E u \in Updates : Publish(n, u)
      PROVE  UNCHANGED cancelled
  BY <1>8 DEF DeleteOperation, Publish
<1>9. CASE ListOperations \/ Crash \/ UNCHANGED opVars
  BY <1>5, <1>9 DEF ListOperations, Crash, opVars
<1> QED
  BY <1>1, <1>4, <1>5, <1>6, <1>7, <1>8, <1>9 DEF Next

\* A step of the farm is a step of its Runs and their MicroVMs.
LEMMA FarmStepIsVmStep ==
  ASSUME RunOK, TypeOK, [FarmNext]_everything
  PROVE  [VmP!Next]_VmP!vars
<1>1. CASE ServerStep
  BY <1>1, ServerOnlyCancels DEF ServerStep
<1>2. ASSUME NEW n \in Names, RunDelivers(n) PROVE UNCHANGED VmP!vars
  BY <1>2 DEF RunDelivers, Finish, opVars, farmVars, VmP!vars, VmP!runVars, VmP!vmVars
<1>3. ASSUME NEW n \in Names, VmStep(n) PROVE VmP!Next
  BY <1>3 DEF VmStep, VmP!Next
<1>4. CASE UNCHANGED everything
  BY <1>4 DEF everything, allVars, opVars, farmVars, VmP!vars, VmP!runVars, VmP!vmVars
<1> QED
  BY <1>1, <1>2, <1>3, <1>4, FarmSteps

\* What exec.Run returns is what Execution lets it return.
LEMMA DeliveryIsReturn ==
  ASSUME VmP!IndInv, NEW n \in Names, RunDelivers(n)
  PROVE  RunReturns(n)
<1>1. outcome[n] = "canceled" => cancelled[n]
  BY DEF VmP!IndInv, VmP!CanceledMeansCancelled
<1> QED
  BY <1>1 DEF RunDelivers, RunReturns

\* A step of the farm is a step of its server.
LEMMA FarmStepIsExecStep ==
  ASSUME VmP!IndInv, [FarmNext]_everything
  PROVE  [ExecNext]_allVars
<1>1. ASSUME NEW n \in Names, RunDelivers(n) PROVE ExecNext
  BY <1>1, DeliveryIsReturn DEF RunAction, ExecNext
<1> QED
  BY <1>1, FarmSteps DEF ServerStep, everything

-----------------------------------------------------------------------------
(* What clients are told *)

\* Results, and how operations end, rest on finished tasks, and those stay so.
LEMMA ServerMovesNothing ==
  ASSUME FarmInv, [VmP!Next]_VmP!vars, UNCHANGED <<vmPc, id, tried>>,
         UNCHANGED <<done, latest, run, response, ac>>
  PROVE  FarmOK'
<1>1. ASSUME NEW n \in Names, job[n] = "finished" PROVE job'[n] = "finished"
  BY <1>1, VmP!FinishedStays DEF FarmInv
<1> QED
  BY <1>1 DEF FarmInv, FarmOK, EndedHasRun, Finished

\* A step of a Run disturbs what is told of its own operation only, which has not
\* ended.
LEMMA VmStepKeeps ==
  ASSUME FarmInv, NEW n \in Names, VmStep(n), UNCHANGED allVars,
         run[n] = "exec" \/ UNCHANGED <<vmPc, id, tried>>
  PROVE  FarmOK'
<1>1. UNCHANGED <<done, latest, run, response, ac>>
  BY DEF allVars, opVars, entryVars, execVars
<1>2. [VmP!Next]_VmP!vars
  BY DEF VmStep, VmP!Next
<1>3. CASE UNCHANGED <<vmPc, id, tried>>
  BY <1>1, <1>2, <1>3, ServerMovesNothing
<1>4. CASE run[n] = "exec"
  <2>1. VmP!VmTypeOK
    BY DEF FarmInv, VmP!IndInv
  <2>2. ASSUME NEW m \in Names, m # n
        PROVE  vmPc'[m] = vmPc[m] /\ id'[m] = id[m] /\ tried'[m] = tried[m]
    BY <2>1, <2>2, VmP!OthersSame DEF VmStep
  <2>3. ASSUME NEW m \in Names, job[m] = "finished" PROVE job'[m] = "finished"
    BY <1>2, <2>3, VmP!FinishedStays DEF FarmInv
  <2>4. ~done[n]
    BY <1>4 DEF FarmInv, FarmOK
  <2> QED
    BY <1>1, <1>4, <2>2, <2>3, <2>4 DEF FarmInv, FarmOK, EndedHasRun, Finished
<1> QED
  BY <1>3, <1>4

\* exec.Run has asked to terminate its MicroVM before it returns, and its result is
\* the agent's.
LEMMA RunDeliversKeeps ==
  ASSUME FarmInv, NEW n \in Names, RunDelivers(n)
  PROVE  FarmOK'
<1>1. /\ run[n] = "exec"
      /\ run' = [run EXCEPT ![n] = run'[n]] /\ run'[n] \in {"put", "complete"}
      /\ UNCHANGED <<opVars, ac, farmVars>>
      /\ response' = [response EXCEPT ![n] = response'[n]]
      /\ response'[n].result # Nil => outcome[n] = "ok"
  <2>1. run \in [Names -> RunLabels] /\ response \in [Names -> TerminalMessages \cup {Nil}]
    BY DEF FarmInv, ExecInv, RunOK
  <2>2. ASSUME NEW code, Finish(n, Failed(code))
        PROVE  /\ run' = [run EXCEPT ![n] = run'[n]] /\ run'[n] \in {"put", "complete"}
               /\ UNCHANGED <<opVars, ac>>
               /\ response' = [response EXCEPT ![n] = response'[n]]
               /\ response'[n].result = Nil
    BY <2>1, <2>2 DEF Finish, Goto, Failed
  <2> QED
    BY <2>1, <2>2 DEF RunDelivers, Goto
<1>2. id[n] => tried[n]
  BY DEF RunDelivers, FarmInv, VmP!IndInv, VmP!TeardownAttempted
<1>3. response'[n].result # Nil => job[n] = "finished"
  BY <1>1 DEF FarmInv, VmP!IndInv, VmP!OkMeansFinished
<1>4. ~done[n]
  BY <1>1 DEF FarmInv, FarmOK
<1>5. UNCHANGED <<done, latest, ac, vmPc, id, tried, job>>
  BY <1>1 DEF opVars, entryVars, farmVars
<1> QED
  BY <1>1, <1>2, <1>3, <1>4, <1>5 DEF FarmInv, ExecInv, RunOK, FarmOK, EndedHasRun, Finished

\* runAction publishes the response it has, caches no result but a finished task's,
\* and answers from the cache without a MicroVM.
LEMMA RunActionKeeps ==
  ASSUME FarmInv, NEW n \in Names, RunActionElsewhere(n)
  PROVE  FarmOK'
<1>1. /\ run \in [Names -> RunLabels] /\ response \in [Names -> TerminalMessages \cup {Nil}]
      /\ done \in [Names -> BOOLEAN] /\ latest \in [Names -> Message]
  BY DEF FarmInv, ExecInv, RunOK, TypeOK
<1>2. UNCHANGED <<vmPc, id, tried, job>>
  BY DEF RunActionElsewhere, farmVars
<1>3. run[n] # "exec" /\ RunAction(n)
  BY DEF RunActionElsewhere
<1>4. ASSUME NEW u, NEW label, Finish(n, u), u.result = Nil \/ u.cached, ~id[n], ~done[n]
      PROVE  FarmOK'
  <2>1. UNCHANGED <<done, latest, ac>>
    BY <1>4 DEF Finish, opVars, entryVars
  <2>2. run' = [run EXCEPT ![n] = "complete"] /\ response' = [response EXCEPT ![n] = u]
    BY <1>4 DEF Finish, Goto
  <2> QED
    BY <1>1, <1>2, <1>4, <2>1, <2>2 DEF FarmInv, FarmOK, EndedHasRun, Finished
<1>5. ASSUME NEW label \in {"fetch", "executing"}, Continue(n, label), ~done[n],
             vmPc[n] = "launch", ~id[n]
      PROVE  FarmOK'
  <2>1. UNCHANGED <<done, latest, ac, response>>
    BY <1>5 DEF Continue, opVars, entryVars
  <2>2. run' = [run EXCEPT ![n] = label]
    BY <1>5 DEF Continue, Goto
  <2> QED
    BY <1>1, <1>2, <1>5, <2>1, <2>2 DEF FarmInv, FarmOK, EndedHasRun, Finished
<1>6. ASSUME NEW stage \in {"CACHE_CHECK", "EXECUTING"}, NEW label \in RunLabels,
             RunPublish(n, Progress(stage), label), ~done[n],
             label \in {"lookup", "fetch"} => vmPc[n] = "launch" /\ ~id[n],
             label \in {"lookup", "fetch", "exec"}
      PROVE  FarmOK'
  <2>1. Progress(stage) \notin Terminal
    BY <1>6, MessagesAreUpdates, ExecutionAssumption DEF ProgressMessages
  <2>2. /\ done' = [done EXCEPT ![n] = Progress(stage) \in Terminal]
        /\ latest' = [latest EXCEPT ![n] = Progress(stage)]
    BY <1>6 DEF RunPublish, publish
  <2>3. run' = [run EXCEPT ![n] = label] /\ UNCHANGED <<ac, response>>
    BY <1>6 DEF RunPublish, Goto
  <2>4. ~done'[n] /\ \A m \in Names : m # n => done'[m] = done[m] /\ latest'[m] = latest[m]
    BY <1>1, <2>1, <2>2
  <2> QED
    BY <1>1, <1>2, <1>6, <2>3, <2>4 DEF FarmInv, FarmOK, EndedHasRun, Finished
<1>7. CASE PublishCacheCheck(n)
  BY <1>6, <1>7 DEF PublishCacheCheck, FarmInv, FarmOK, RunLabels
<1>8. CASE LookupResult(n)
  BY <1>4, <1>5, <1>8 DEF LookupResult, Completed, FarmInv, FarmOK
<1>9. CASE FetchCommand(n)
  BY <1>4, <1>5, <1>9 DEF FetchCommand, Failed, FarmInv, FarmOK
<1>10. CASE PublishExecuting(n)
  BY <1>6, <1>10 DEF PublishExecuting, FarmInv, FarmOK, RunLabels
<1>11. CASE PutResult(n)
  <2>1. run[n] = "put" /\ run' = [run EXCEPT ![n] = "complete"]
    BY <1>11 DEF PutResult, Goto
  <2>2. UNCHANGED <<done, latest, response>>
    BY <1>11 DEF PutResult, opVars, entryVars
  <2>3. ac' = [ac EXCEPT ![action[n]] = response[n].result] \/ UNCHANGED ac
    BY <1>11 DEF PutResult
  <2>4. /\ response[n].result = [exit |-> 0, by |-> n]
        /\ ~response[n].cached
        /\ action[n] \in Actions /\ ac \in [Actions -> Results \cup {Nil}]
        /\ response[n].result # Nil
    <3>1. response[n] = Completed([exit |-> 0, by |-> n], FALSE)
      BY <2>1 DEF FarmInv, ExecInv, CacheOK
    <3>2. [exit |-> 0, by |-> n] \in Results
      BY DEF Results
    <3> QED
      BY <2>1, <3>1, <3>2, ExecutionAssumption DEF Completed, FarmInv, ExecInv, CacheOK
  <2>5. job[n] = "finished"
    BY <2>1, <2>4 DEF FarmInv, FarmOK, Finished
  <2>6. \A a \in Actions : ac'[a] # Nil /\ ac'[a].by \in Names => job[ac'[a].by] = "finished"
    BY <2>3, <2>4, <2>5 DEF FarmInv, FarmOK, EndedHasRun
  <2> QED
    BY <1>1, <1>2, <2>1, <2>2, <2>6 DEF FarmInv, FarmOK, EndedHasRun, Finished
<1>12. CASE PublishResponse(n)
  <2>1. run[n] = "complete" /\ run' = [run EXCEPT ![n] = "exit"] /\ ~done[n]
    BY <1>12 DEF PublishResponse, RunPublish, Goto, FarmInv, FarmOK
  <2>2. latest' = [latest EXCEPT ![n] = response[n]] /\ UNCHANGED <<ac, response>>
    BY <1>12, <2>1 DEF PublishResponse, RunPublish, publish
  <2>3. \A m \in Names : m # n => done'[m] = done[m]
    BY <1>1, <1>12, <2>1 DEF PublishResponse, RunPublish, publish
  <2>4. (id[n] => tried[n]) /\ Finished(n, response[n])
    BY <2>1 DEF FarmInv, FarmOK
  <2> QED
    BY <1>1, <1>2, <2>1, <2>2, <2>3, <2>4 DEF FarmInv, FarmOK, EndedHasRun, Finished
<1>13. CASE RunExit(n)
  <2>1. run[n] = "exit" /\ run' = [run EXCEPT ![n] = "done"]
    BY <1>13 DEF RunExit, Goto
  <2>2. UNCHANGED <<done, latest, ac, response>>
    BY <1>13 DEF RunExit, Release, entryVars
  <2> QED
    BY <1>1, <1>2, <2>1, <2>2 DEF FarmInv, FarmOK, EndedHasRun, Finished
<1> QED
  BY <1>3, <1>7, <1>8, <1>9, <1>10, <1>11, <1>12, <1>13 DEF RunAction, RunReturns

\* The other steps of the server: a new operation, a result that a client uploads,
\* the end of the process, and what has nothing to do with executions.
LEMMA ServerKeeps ==
  ASSUME FarmInv, ServerStep
  PROVE  FarmOK'
<1>1. UNCHANGED <<vmPc, id, tried, job>>
  BY DEF ServerStep, farmVars
<1>2. ASSUME NEW n \in Names, RunAction(n) PROVE FarmOK'
  <2>1. run[n] # "exec"
    BY <1>2 DEF ServerStep, RunAction, PublishCacheCheck, LookupResult, FetchCommand,
                PublishExecuting, PutResult, PublishResponse, RunExit, RunReturns, Finish,
                Goto, FarmInv, ExecInv, RunOK
  <2> QED
    BY <1>2, <2>1, RunActionKeeps DEF RunActionElsewhere, ServerStep
<1>3. ASSUME NEW c \in Calls, NEW a \in Actions, NEW s \in BOOLEAN, Execute(c, a, s)
      PROVE  FarmOK'
  <2>1. PICK n \in Names : n \notin issued /\ run' = [run EXCEPT ![n] = "start"]
    BY <1>3 DEF Execute, Start, New
  <2>2. run[n] = "none" /\ run \in [Names -> RunLabels]
    BY <2>1 DEF FarmInv, ExecInv, RunOK
  <2>3. UNCHANGED <<done, latest, ac, response>>
    BY <1>3 DEF Execute, Start, entryVars
  <2> QED
    BY <1>1, <2>1, <2>2, <2>3 DEF FarmInv, FarmOK, EndedHasRun, Finished
<1>4. ASSUME NEW a \in Actions, NEW e \in {0, 1}, UpdateActionResult(a, e)
      PROVE  FarmOK'
  <2>1. UNCHANGED <<done, latest, run, response>>
    BY <1>4 DEF UpdateActionResult, opVars, entryVars
  <2>2. ac' = [ac EXCEPT ![a] = [exit |-> e, by |-> Client]] /\ ac \in [Actions -> Results \cup {Nil}]
    BY <1>4 DEF UpdateActionResult, FarmInv, ExecInv, CacheOK
  <2>3. \A b \in Actions : ac'[b] # Nil /\ ac'[b].by \in Names => job[ac'[b].by] = "finished"
    BY <2>2, ExecutionAssumption DEF FarmInv, FarmOK, EndedHasRun
  <2> QED
    BY <1>1, <2>1, <2>3 DEF FarmInv, FarmOK, EndedHasRun, Finished
<1>5. CASE ExecCrash
  <2>1. UNCHANGED <<done, latest, ac, response>>
    BY <1>5 DEF ExecCrash, Crash, entryVars
  <2>2. \A n \in Names : run'[n] = "done" \/ run'[n] = run[n]
    BY <1>5 DEF ExecCrash
  <2> QED
    BY <1>1, <2>1, <2>2 DEF FarmInv, FarmOK, EndedHasRun, Finished
<1>6. ASSUME \/ \E c \in Calls, a \in Actions : ExecuteRejected(c, a)
             \/ \E n \in Names : ExecCancel(n)
             \/ \E c \in Calls : ExecDisconnect(c)
             \/ \E c \in Calls : Step(c) /\ UNCHANGED execVars
             \/ \E c \in Calls, n \in Names, k \in Kinds :
                  Lookup(c, k, n) /\ UNCHANGED execVars
             \/ \E n \in Names : DeleteOperation(n) /\ UNCHANGED execVars
             \/ ListOperations /\ UNCHANGED execVars
             \/ \E b \in Actions \cup Commands : Upload(b)
      PROVE  FarmOK'
  <2>1. UNCHANGED <<done, latest, run, response, ac>>
    BY <1>6 DEF ExecuteRejected, Reject, ExecCancel, CancelOperation, ExecDisconnect,
       Disconnect, Step, Snapshot, Send, Abandon, Wake, Return, Lookup, DeleteOperation,
       ListOperations, Upload, opVars, entryVars, execVars
  <2> QED
    BY <1>1, <2>1 DEF FarmInv, FarmOK, EndedHasRun, Finished
<1> QED
  BY <1>2, <1>3, <1>4, <1>5, <1>6 DEF ServerStep, ExecNext

-----------------------------------------------------------------------------
(* The theorems *)

\* No operation has begun, and no MicroVM.
LEMMA FarmInitInv == FarmInit => FarmInv
<1> SUFFICES ASSUME FarmInit PROVE FarmInv
  OBVIOUS
<1>1. ExecInv /\ VmP!IndInv
  BY ExecInitInv, VmP!InitIndInv, SameVm DEF FarmInit
<1>2. \A n \in Names : vmPc[n] = "launch" /\ ~id[n]
  BY DEF FarmInit, Vm!Init
<1>3. /\ run = [n \in Names |-> "none"] /\ done = [n \in Names |-> FALSE]
      /\ ac = [a \in Actions |-> Nil]
  BY DEF FarmInit, ExecInit, Init
<1> QED
  BY <1>1, <1>2, <1>3 DEF FarmInv, FarmOK, EndedHasRun

\* The invariant is inductive.
LEMMA FarmNextInv == FarmInv /\ [FarmNext]_everything => FarmInv'
<1> SUFFICES ASSUME FarmInv, [FarmNext]_everything PROVE FarmInv'
  OBVIOUS
<1>1. RunOK /\ TypeOK
  BY DEF FarmInv, ExecInv
<1>2. ExecInv'
  BY FarmStepIsExecStep, ExecNextInv DEF FarmInv
<1>3. [VmP!Next]_VmP!vars
  BY <1>1, FarmStepIsVmStep
<1>4. VmP!IndInv'
  BY <1>3, VmP!NextKeeps DEF FarmInv
<1>5. CASE UNCHANGED everything
  <2>1. UNCHANGED <<vmPc, id, tried, done, latest, run, response, ac>>
    BY <1>5 DEF everything, allVars, opVars, entryVars, execVars, farmVars
  <2> QED
    BY <1>2, <1>3, <1>4, <2>1, ServerMovesNothing DEF FarmInv
<1> QED
  BY <1>2, <1>4, <1>5, FarmSteps, ServerKeeps, RunDeliversKeeps, VmStepKeeps DEF FarmInv

\* It holds throughout.
LEMMA AlwaysFarmInv == FarmSafetySpec => []FarmInv
BY FarmInitInv, FarmNextInv, PTL DEF FarmSafetySpec

\* With executor.go's Run in the place of the Runner, the server is a behaviour of
\* Execution, and has every safety property that is proved of it.
THEOREM FarmRefinesExecution == FarmSafetySpec => FarmImplementsExecution
<1>1. FarmInit => ExecInit
  BY DEF FarmInit
<1>2. FarmInv /\ [FarmNext]_everything => [ExecNext]_allVars
  BY FarmStepIsExecStep DEF FarmInv
<1> QED
  BY AlwaysFarmInv, <1>1, <1>2, PTL
  DEF FarmSafetySpec, FarmImplementsExecution, ExecSafetySpec

\* Its Runs are those of Microvm, however the server cancels, deletes or ends, so
\* that a MicroVM is given one task in its life.
THEOREM FarmGivesTaskOnce == FarmSafetySpec => VmP!OneTaskPerMicrovm
<1>1. FarmInit => VmP!Init
  BY SameVm DEF FarmInit
<1>2. FarmInv /\ [FarmNext]_everything => [VmP!Next]_VmP!vars
  BY FarmStepIsVmStep DEF FarmInv, ExecInv
<1>3. VmP!Init /\ [][VmP!Next]_VmP!vars => VmP!OneTaskPerMicrovm
  BY VmP!TaskIsGivenOnce
<1> QED
  BY AlwaysFarmInv, <1>1, <1>2, <1>3, PTL DEF FarmSafetySpec

\* What a client is told of an operation's end, and what it finds in the Action
\* Cache, is what an agent has finished; and the MicroVM has been told to go.
THEOREM FarmTellsWhatRan == FarmSafetySpec => []EndedHasRun
<1>1. FarmInv => EndedHasRun
  BY DEF FarmInv, FarmOK
<1> QED
  BY AlwaysFarmInv, <1>1, PTL

-----------------------------------------------------------------------------
(* The server, its MicroVMs, and the agent in one of them *)

CONSTANTS Chosen, FileNames, Stdout, Stderr, Paths, Data, Empty, Inputs, Roots,
          TaskCommands, Timeouts, Second, defaultActionTimeout, Changes
VARIABLES store, trees, command, root, seconds, agentPc, todo, disk,
          ctxErr, killed, exit, left, built, result

\* The agent in the MicroVM of the operation Chosen, which is any of them.
TaskP == INSTANCE Task_proofs WITH
  Runs <- Names, ctx <- cancelled, pc <- vmPc, Names <- FileNames, Commands <- TaskCommands

wholeVars == <<everything, TaskP!agentVars>>

\* Run returns the agent's ActionResult as it is (executor.go:201-205), and so does
\* runAction, which looks at its exit code (execution.go:109-131).
PassesResult ==
  run[Chosen] = "exec" /\ run'[Chosen] \in {"put", "complete"} /\ response'[Chosen].result # Nil =>
    (response'[Chosen].result.exit = 0 <=> result.exit = 0)

\* A behaviour of the farm, in which the Run of Chosen and its agent are those of Task.
WholeSpec == FarmSafetySpec /\ TaskP!TaskSafetySpec /\ [][PassesResult]_wholeVars

\* What is in the Action Cache, on its way there, or given to those who follow.
Said(r) ==
  \/ \E a \in Actions : ac[a] = r
  \/ \E n \in Names : run[n] \in {"put", "complete"} /\ response[n].result = r
  \/ \E n \in Names : done[n] /\ latest[n].result = r

\* A result of Chosen that the server holds is that of its agent's finished task.
SaidIsResult ==
  \A r \in Results : Said(r) /\ r.by = Chosen =>
    job[Chosen] = "finished" /\ (r.exit = 0 <=> result.exit = 0)

\* Whoever is given a result of Chosen, from the operation or through the Action
\* Cache in any later one, is given what its agent completed: all that it names is
\* in the bucket, and exit code 0 says that the command ended so, unkilled.
ResultsAreTheCommands ==
  \A r \in Results : Said(r) /\ r.by = Chosen =>
    TaskP!Completed /\ (r.exit = 0 => exit = 0 /\ ~killed)

\* The server makes no result: it holds what a client has uploaded, what exec.Run
\* returns, and what it has held before.
LEMMA SaysNothingNew ==
  ASSUME FarmInv, [FarmNext]_everything, NEW r \in Results, Said(r)', r.by # Client
  PROVE  Said(r) \/ \E n \in Names : RunDelivers(n) /\ response'[n].result = r
<1>1. /\ run \in [Names -> RunLabels] /\ response \in [Names -> TerminalMessages \cup {Nil}]
      /\ done \in [Names -> BOOLEAN] /\ latest \in [Names -> Message]
      /\ ac \in [Actions -> Results \cup {Nil}]
      /\ r # Nil
  BY ExecutionAssumption DEF FarmInv, ExecInv, RunOK, CacheOK, TypeOK
<1>2. CASE UNCHANGED <<done, latest, run, response, ac>>
  BY <1>2 DEF Said
<1>3. ASSUME NEW n \in Names, RunDelivers(n)
      PROVE  Said(r) \/ response'[n].result = r
  <2>1. UNCHANGED <<done, latest, ac>> /\ \A m \in Names : m # n =>
           run'[m] = run[m] /\ response'[m] = response[m]
    BY <1>1, <1>3 DEF RunDelivers, Finish, Goto, opVars, entryVars
  <2> QED
    BY <2>1 DEF Said
<1>4. ASSUME NEW n \in Names, NEW u, Finish(n, u), u.result = Nil \/ \E a \in Actions : u.result = ac[a]
      PROVE  Said(r)
  <2>1. UNCHANGED <<done, latest, ac>> /\ \A m \in Names : m # n =>
           run'[m] = run[m] /\ response'[m] = response[m]
    BY <1>1, <1>4 DEF Finish, Goto, opVars, entryVars
  <2>2. response'[n] = u
    BY <1>1, <1>4 DEF Finish
  <2> QED
    BY <1>1, <1>4, <2>1, <2>2 DEF Said
<1>5. ASSUME NEW n \in Names, run'[n] \notin {"put", "complete"},
             \A m \in Names : m # n => run'[m] = run[m],
             UNCHANGED <<done, latest, ac, response>>
      PROVE  Said(r)
  BY <1>5 DEF Said
<1>6. ASSUME NEW n \in Names, PublishCacheCheck(n) \/ PublishExecuting(n)
      PROVE  Said(r)
  <2>1. PICK stage \in {"CACHE_CHECK", "EXECUTING"}, label \in {"lookup", "fetch", "exec"} :
          RunPublish(n, Progress(stage), label)
    BY <1>6 DEF PublishCacheCheck, PublishExecuting
  <2>2. Progress(stage) \notin Terminal
    BY <2>1, MessagesAreUpdates, ExecutionAssumption DEF ProgressMessages
  <2>3. /\ UNCHANGED <<ac, response>>
        /\ ~done[n] => ~done'[n]
        /\ done[n] => UNCHANGED <<done, latest>>
        /\ run'[n] = label
        /\ \A m \in Names : m # n =>
             run'[m] = run[m] /\ done'[m] = done[m] /\ latest'[m] = latest[m]
    BY <1>1, <2>1, <2>2 DEF RunPublish, publish, Goto, entryVars
  <2> QED
    BY <2>1, <2>3 DEF Said
<1>7. ASSUME NEW n \in Names, LookupResult(n) PROVE Said(r)
  <2>1. action[n] \in Actions
    BY <1>7 DEF LookupResult, FarmInv, ExecInv, CacheOK
  <2>2. CASE Finish(n, Completed(ac[action[n]], TRUE))
    BY <1>4, <2>1, <2>2 DEF Completed
  <2>3. CASE Continue(n, "fetch")
    BY <1>1, <1>5, <2>3 DEF Continue, Goto, opVars, entryVars
  <2> QED
    BY <1>7, <2>2, <2>3 DEF LookupResult
<1>8. ASSUME NEW n \in Names, FetchCommand(n) PROVE Said(r)
  <2>1. ASSUME NEW code, Finish(n, Failed(code)) PROVE Said(r)
    BY <1>4, <2>1 DEF Failed
  <2>2. CASE Continue(n, "executing")
    BY <1>1, <1>5, <2>2 DEF Continue, Goto, opVars, entryVars
  <2> QED
    BY <1>8, <2>1, <2>2 DEF FetchCommand
<1>9. ASSUME NEW n \in Names, PutResult(n) PROVE Said(r)
  <2>1. /\ run[n] = "put" /\ UNCHANGED <<done, latest, response>>
        /\ \A m \in Names : m # n => run'[m] = run[m]
        /\ ac' = [ac EXCEPT ![action[n]] = response[n].result] \/ UNCHANGED ac
    BY <1>1, <1>9 DEF PutResult, Goto, opVars, entryVars
  <2> QED
    BY <1>1, <2>1 DEF Said
<1>10. ASSUME NEW n \in Names, PublishResponse(n) PROVE Said(r)
  <2>1. /\ run[n] = "complete" /\ run'[n] = "exit" /\ UNCHANGED <<ac, response>>
        /\ latest'[n] = response[n] \/ UNCHANGED <<done, latest>>
        /\ \A m \in Names : m # n =>
             run'[m] = run[m] /\ done'[m] = done[m] /\ latest'[m] = latest[m]
    BY <1>1, <1>10 DEF PublishResponse, RunPublish, publish, Goto, entryVars
  <2> QED
    BY <2>1 DEF Said
<1>11. ASSUME NEW n \in Names, RunExit(n) PROVE Said(r)
  BY <1>1, <1>5, <1>11 DEF RunExit, Release, Goto, entryVars
<1>12. ASSUME NEW n \in Names, RunAction(n), ServerStep PROVE Said(r)
  <2>1. run[n] # "exec"
    BY <1>12 DEF ServerStep, RunAction, PublishCacheCheck, LookupResult, FetchCommand,
                PublishExecuting, PutResult, PublishResponse, RunExit, RunReturns, Finish,
                Goto, FarmInv, ExecInv, RunOK
  <2> QED
    BY <1>6, <1>7, <1>8, <1>9, <1>10, <1>11, <1>12, <2>1 DEF RunAction, RunReturns
<1>13. ASSUME NEW c \in Calls, NEW a \in Actions, NEW s \in BOOLEAN, Execute(c, a, s)
       PROVE  Said(r)
  <2>1. PICK n \in Names : run' = [run EXCEPT ![n] = "start"]
    BY <1>13 DEF Execute
  <2> QED
    BY <1>1, <1>5, <1>13, <2>1 DEF Execute, Start, entryVars
<1>14. ASSUME NEW a \in Actions, NEW e \in {0, 1}, UpdateActionResult(a, e)
       PROVE  Said(r)
  <2>1. UNCHANGED <<done, latest, run, response>>
    BY <1>14 DEF UpdateActionResult, opVars, entryVars
  <2>2. \A b \in Actions : ac'[b] = ac[b] \/ ac'[b].by = Client
    BY <1>1, <1>14 DEF UpdateActionResult
  <2> QED
    BY <2>1, <2>2 DEF Said
<1>15. CASE ExecCrash
  <2>1. UNCHANGED <<done, latest, ac, response>>
    BY <1>15 DEF ExecCrash, Crash, entryVars
  <2>2. \A n \in Names : run'[n] = "done" \/ run'[n] = run[n]
    BY <1>15 DEF ExecCrash
  <2> QED
    BY <2>1, <2>2 DEF Said
<1>16. ASSUME \/ \E c \in Calls, a \in Actions : ExecuteRejected(c, a)
              \/ \E n \in Names : ExecCancel(n)
              \/ \E c \in Calls : ExecDisconnect(c)
              \/ \E c \in Calls : Step(c) /\ UNCHANGED execVars
              \/ \E c \in Calls, n \in Names, k \in Kinds :
                   Lookup(c, k, n) /\ UNCHANGED execVars
              \/ \E n \in Names : DeleteOperation(n) /\ UNCHANGED execVars
              \/ ListOperations /\ UNCHANGED execVars
              \/ \E b \in Actions \cup Commands : Upload(b)
       PROVE  UNCHANGED <<done, latest, run, response, ac>>
  BY <1>16 DEF ExecuteRejected, Reject, ExecCancel, CancelOperation, ExecDisconnect,
     Disconnect, Step, Snapshot, Send, Abandon, Wake, Return, Lookup, DeleteOperation,
     ListOperations, Upload, opVars, entryVars, execVars
<1>17. CASE ServerStep
  BY <1>2, <1>12, <1>13, <1>14, <1>15, <1>16, <1>17 DEF ServerStep, ExecNext
<1>18. UNCHANGED allVars => UNCHANGED <<done, latest, run, response, ac>>
  BY DEF allVars, opVars, entryVars, execVars
<1> QED
  BY <1>2, <1>3, <1>17, <1>18, FarmSteps DEF everything

\* A finished task stays so, and the agent no longer changes its result.
LEMMA ResultStays ==
  ASSUME FarmInv, [FarmNext]_everything, [TaskP!TaskNext]_TaskP!allVars,
         Chosen \in Names, job[Chosen] = "finished"
  PROVE  job'[Chosen] = "finished" /\ UNCHANGED result
<1>1. [VmP!Next]_VmP!vars
  BY FarmStepIsVmStep DEF FarmInv, ExecInv
<1>2. job'[Chosen] = "finished"
  BY <1>1, VmP!FinishedStays DEF FarmInv
<1>3. UNCHANGED result
  BY DEF TaskP!TaskNext, TaskP!RunStep, TaskP!AgentStep, TaskP!OthersPut, TaskP!A!Others,
         TaskP!agentVars, TaskP!allVars
<1> QED
  BY <1>2, <1>3

\* What exec.Run returns for Chosen is its agent's result, and nothing else that the
\* server does makes one of it.
LEMMA SaidIsResultKeeps ==
  ASSUME FarmInv, SaidIsResult, [FarmNext]_everything, [TaskP!TaskNext]_TaskP!allVars,
         [PassesResult]_wholeVars, Chosen \in Names
  PROVE  SaidIsResult'
<1> SUFFICES ASSUME NEW r \in Results, Said(r)', r.by = Chosen
             PROVE  job'[Chosen] = "finished" /\ (r.exit = 0 <=> result'.exit = 0)
  BY DEF SaidIsResult
<1>1. r.by # Client /\ r # Nil
  BY ExecutionAssumption
<1>2. CASE Said(r)
  BY <1>2, ResultStays DEF SaidIsResult
<1>3. ASSUME NEW n \in Names, RunDelivers(n), response'[n].result = r
      PROVE  job'[Chosen] = "finished" /\ (r.exit = 0 <=> result'.exit = 0)
  <2>1. /\ run[n] = "exec" /\ run'[n] \in {"put", "complete"}
        /\ outcome[n] = "ok"
        /\ \E e \in {0, 1} : r = [exit |-> e, by |-> n]
    <3>1. run \in [Names -> RunLabels] /\ response \in [Names -> TerminalMessages \cup {Nil}]
      BY DEF FarmInv, ExecInv, RunOK
    <3>2. ASSUME NEW code, Finish(n, Failed(code)) PROVE response'[n].result = Nil
      BY <3>1, <3>2 DEF Finish, Failed
    <3>3. PICK e \in {0, 1} :
            /\ outcome[n] = "ok"
            /\ Goto(n, IF action[n] \notin DoNotCache /\ e = 0 THEN "put" ELSE "complete")
            /\ response' = [response EXCEPT ![n] = Completed([exit |-> e, by |-> n], FALSE)]
      BY <1>1, <1>3, <3>2 DEF RunDelivers
    <3> QED
      BY <1>3, <3>1, <3>3 DEF RunDelivers, Goto, Completed
  <2>2. n = Chosen
    BY <2>1
  <2>3. job[Chosen] = "finished"
    BY <2>1, <2>2 DEF FarmInv, VmP!IndInv, VmP!OkMeansFinished
  <2>4. run' # run
    BY <2>1
  <2>5. PassesResult
    BY <2>4 DEF wholeVars, everything, allVars, execVars
  <2> QED
    BY <1>1, <1>3, <2>1, <2>2, <2>3, <2>5, ResultStays DEF PassesResult
<1> QED
  BY <1>1, <1>2, <1>3, SaysNothingNew

\* From the client's call to the file system of the MicroVM: the result that anyone
\* is given of an execution, new or cached, is what the agent made of the command,
\* and can be fetched, whatever fails or ends in between.
THEOREM ResultsAreTrueThroughout ==
  ASSUME TaskP!TaskAssumption
  PROVE  WholeSpec => []ResultsAreTheCommands
<1>1. Chosen \in Names
  BY DEF TaskP!TaskAssumption
<1>2. FarmInit => SaidIsResult
  <2>1. ASSUME FarmInit, NEW r \in Results PROVE ~Said(r)
    BY <2>1, ExecutionAssumption DEF FarmInit, ExecInit, Init, Said
  <2> QED
    BY <2>1 DEF SaidIsResult
<1>3. FarmInv /\ SaidIsResult /\ [FarmNext]_everything /\ [TaskP!TaskNext]_TaskP!allVars
        /\ [PassesResult]_wholeVars => SaidIsResult'
  BY <1>1, SaidIsResultKeeps
<1>4. WholeSpec => []SaidIsResult
  BY <1>2, <1>3, AlwaysFarmInv, PTL DEF WholeSpec, FarmSafetySpec, TaskP!TaskSafetySpec
<1>5. TaskP!TaskSafetySpec => [](job[Chosen] = "finished" => TaskP!Completed)
  BY TaskP!FinishedIsComplete, PTL
<1>6. SaidIsResult /\ (job[Chosen] = "finished" => TaskP!Completed) => ResultsAreTheCommands
  <2> SUFFICES ASSUME SaidIsResult, job[Chosen] = "finished" => TaskP!Completed,
                      NEW r \in Results, Said(r), r.by = Chosen
               PROVE  TaskP!Completed /\ (r.exit = 0 => exit = 0 /\ ~killed)
    BY DEF ResultsAreTheCommands
  <2>1. TaskP!Completed /\ (r.exit = 0 <=> result.exit = 0)
    BY DEF SaidIsResult
  <2>2. result.exit = 0 => exit = 0 /\ ~killed
    BY <2>1 DEF TaskP!Completed, TaskP!A!ExitCodeIsTrue
  <2> QED
    BY <2>1, <2>2
<1> QED
  BY <1>4, <1>5, <1>6, PTL DEF WholeSpec

=============================================================================
