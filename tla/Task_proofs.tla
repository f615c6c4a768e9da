------------------------------ MODULE Task_proofs -----------------------------
(***************************************************************************)
(* Theorems about Task, for any number of Runs, any command and any tree:  *)
(* each part is a behaviour of its own module, so that what is proved of   *)
(* Run and of the agent holds of both together, and what Run returns is    *)
(* what the agent has made and stored (ResultsAreFetchable).               *)
(***************************************************************************)
EXTENDS Task, Microvm_proofs

AgentP == INSTANCE Agent_proofs WITH pc <- agentPc

-----------------------------------------------------------------------------
(* The agent of Agent_proofs *)

\* What is assumed of the constants is the same.
LEMMA SameAssumptions == AgentP!AgentAssumption /\ AgentP!NodesAssumption
<1>1. AgentP!AgentAssumption
  BY TaskAssumption
  DEF A!AgentAssumption, A!SE!Front, A!IsFiniteSet,
      AgentP!AgentAssumption, AgentP!SE!Front, AgentP!IsFiniteSet
<1>2. AgentP!NodesAssumption
  BY TaskAssumption
  DEF A!NodesAssumption, A!IsDirectory, A!Unmarshal, A!Kinds, A!Nothing, A!Directory,
      A!Node, AgentP!NodesAssumption, AgentP!IsDirectory, AgentP!Unmarshal,
      AgentP!Kinds, AgentP!Nothing, AgentP!Directory, AgentP!Node
<1> QED
  BY <1>1, <1>2

\* Agent's definitions are the same whichever instance they are reached through.
LEMMA SameAgent ==
  /\ A!Init <=> AgentP!Init
  /\ A!Run \/ A!Expire \/ A!HangUp \/ A!Kill \/ A!Change \/ A!Exit \/ A!Others
       => AgentP!Next
  /\ UNCHANGED A!vars => UNCHANGED AgentP!vars
  /\ A!ResultIsStored <=> AgentP!ResultIsStored
  /\ A!ExitCodeIsTrue <=> AgentP!ExitCodeIsTrue
<1>1. /\ A!Init <=> AgentP!Init
  BY DEF A!Init, A!Node, A!Nothing, A!Nowhere, A!TimeoutSeconds, A!Uploads,
      AgentP!Init, AgentP!Node, AgentP!Nothing, AgentP!Nowhere,
      AgentP!TimeoutSeconds, AgentP!Uploads
<1>2. /\ A!Receive <=> AgentP!Receive
      /\ A!Fetch <=> AgentP!Fetch
  BY DEF A!Cardinality, A!Children, A!Contains, A!Directory, A!Fetch,
      A!IsDirectory, A!Item, A!Named, A!Node, A!Receive, A!SE!Front, A!SE!Last,
      A!Symlinks, A!Unmarshal, A!procVars, A!taskVars, AgentP!Cardinality,
      AgentP!Children, AgentP!Contains, AgentP!Directory, AgentP!Fetch,
      AgentP!IsDirectory, AgentP!Item, AgentP!Named, AgentP!Node,
      AgentP!Receive, AgentP!SE!Front, AgentP!SE!Last, AgentP!Symlinks,
      AgentP!Unmarshal, AgentP!procVars, AgentP!taskVars
<1>3. /\ A!Prepare <=> AgentP!Prepare
      /\ A!Start <=> AgentP!Start
      /\ A!Change <=> AgentP!Change
  BY DEF A!Change, A!Creatable, A!Created, A!Is, A!Node, A!Nothing, A!Prepare,
      A!SE!Front, A!SE!IsPrefix, A!SE!IsStrictPrefix, A!Start, A!procVars,
      A!taskVars, AgentP!Change, AgentP!Creatable, AgentP!Created, AgentP!Is,
      AgentP!Node, AgentP!Nothing, AgentP!Prepare, AgentP!SE!Front,
      AgentP!SE!IsPrefix, AgentP!SE!IsStrictPrefix, AgentP!Start,
      AgentP!procVars, AgentP!taskVars
<1>4. /\ A!Fails <=> AgentP!Fails
      /\ A!Failed <=> AgentP!Failed
      /\ A!Done <=> AgentP!Done
  BY DEF A!Done, A!Failed, A!Fails, A!Node, A!Nothing, A!Nowhere, A!Return,
      A!procVars, A!taskVars, AgentP!Done, AgentP!Failed, AgentP!Fails,
      AgentP!Node, AgentP!Nothing, AgentP!Nowhere, AgentP!Return,
      AgentP!procVars, AgentP!taskVars
<1>5. /\ A!Expire <=> AgentP!Expire
      /\ A!HangUp <=> AgentP!HangUp
      /\ A!Kill <=> AgentP!Kill
      /\ A!Exit <=> AgentP!Exit
      /\ A!Others <=> AgentP!Others
  BY DEF A!Exit, A!Expire, A!HangUp, A!Kill, A!Others, A!Uploads, A!procVars,
      A!taskVars, AgentP!Exit, AgentP!Expire, AgentP!HangUp, AgentP!Kill,
      AgentP!Others, AgentP!Uploads, AgentP!procVars, AgentP!taskVars
<1>6. /\ A!AttachStdout <=> AgentP!AttachStdout
      /\ A!AttachStderr <=> AgentP!AttachStderr
  BY DEF A!AttachStderr, A!AttachStdout, A!Is, A!Item, A!Node, A!Nothing, A!Put,
      A!outputPaths, A!procVars, A!taskVars, AgentP!AttachStderr,
      AgentP!AttachStdout, AgentP!Is, AgentP!Item, AgentP!Node, AgentP!Nothing,
      AgentP!Put, AgentP!outputPaths, AgentP!procVars, AgentP!taskVars
<1>7. /\ A!CaptureOutput <=> AgentP!CaptureOutput
      /\ A!CaptureEntry <=> AgentP!CaptureEntry
  BY DEF A!CaptureEntry, A!CaptureOutput, A!Captured, A!Cardinality, A!Directory,
      A!Doing, A!Here, A!Is, A!Item, A!Named, A!Node, A!Nothing, A!Nowhere,
      A!Put, A!Record, A!SE!IsPrefix, A!SE!IsStrictPrefix, A!procVars,
      A!taskVars, AgentP!CaptureEntry, AgentP!CaptureOutput, AgentP!Captured,
      AgentP!Cardinality, AgentP!Directory, AgentP!Doing, AgentP!Here,
      AgentP!Is, AgentP!Item, AgentP!Named, AgentP!Node, AgentP!Nothing,
      AgentP!Nowhere, AgentP!Put, AgentP!Record, AgentP!SE!IsPrefix,
      AgentP!SE!IsStrictPrefix, AgentP!procVars, AgentP!taskVars
<1>8. /\ A!CloseDirectory <=> AgentP!CloseDirectory
      /\ A!PutTree <=> AgentP!PutTree
  BY DEF A!CloseDirectory, A!Doing, A!Here, A!IsBuilt, A!Marshal, A!Message,
      A!Node, A!Put, A!PutTree, A!Record, A!Unmarshal, A!descendants,
      A!procVars, A!taskVars, AgentP!CloseDirectory, AgentP!Doing, AgentP!Here,
      AgentP!IsBuilt, AgentP!Marshal, AgentP!Message, AgentP!Node, AgentP!Put,
      AgentP!PutTree, AgentP!Record, AgentP!Unmarshal, AgentP!descendants,
      AgentP!procVars, AgentP!taskVars
<1>9. A!vars = AgentP!vars /\ A!vars' = AgentP!vars'
  BY DEF A!procVars, A!taskVars, A!vars, AgentP!procVars, AgentP!taskVars,
      AgentP!vars
<1>10. /\ A!ResultIsStored <=> AgentP!ResultIsStored
       /\ A!ExitCodeIsTrue <=> AgentP!ExitCodeIsTrue
  BY DEF A!Contains, A!ExitCodeIsTrue, A!Marshal, A!ResultIsStored, A!Unmarshal,
      AgentP!Contains, AgentP!ExitCodeIsTrue, AgentP!Marshal,
      AgentP!ResultIsStored, AgentP!Unmarshal
<1>11. A!Run => AgentP!Run
  BY <1>2, <1>3, <1>4, <1>6, <1>7, <1>8 DEF A!Run, A!Capture, AgentP!Run, AgentP!Capture
<1> QED
  BY <1>1, <1>3, <1>5, <1>9, <1>10, <1>11 DEF AgentP!Next

-----------------------------------------------------------------------------
(* The parts of the composition *)

\* A step of both is a step of the agent, which sees Run's only in the bucket.
LEMMA TaskStepIsAgentStep == [TaskNext]_allVars => [AgentP!Next]_AgentP!vars
<1>1. UNCHANGED agentVars => UNCHANGED A!vars
  BY DEF agentVars, A!vars, A!taskVars, A!procVars
<1> QED
  BY <1>1, SameAgent DEF TaskNext, RunStep, AgentStep, OthersPut, allVars

\* And a step of Run, its MicroVM and what is in it.
LEMMA TaskStepIsRunStep == [TaskNext]_allVars => [Next]_vars
BY DEF TaskNext, RunStep, AgentStep, OthersPut, allVars

\* A task is finished by an answer alone.
LEMMA FinishedFromRunning ==
  ASSUME IndInv, [Next]_vars, NEW r \in Runs, job'[r] = "finished"
  PROVE  job[r] \in {"running", "finished"}
<1>1. job \in [Runs -> {"none", "running", "finished", "failed", "killed"}]
  BY DEF IndInv, VmTypeOK
<1>2. ASSUME NEW q \in Runs, Dispatch(q) \/ Terminate(q) \/ AgentAnswers(q) \/ VmEnds(q)
      PROVE  job[r] \in {"running", "finished"}
  BY <1>1, <1>2 DEF Dispatch, Terminate, AgentAnswers, VmEnds, Fail, vmVars
<1>3. ASSUME NEW q \in Runs,
             Launch(q) \/ GetMicrovm(q) \/ CreateMicrovmAuthToken(q) \/ Health(q) \/ Await(q)
      PROVE  UNCHANGED job
  BY <1>3 DEF Launch, GetMicrovm, CreateMicrovmAuthToken, Health, Await, Again, Fail, vmVars
<1>4. ASSUME NEW q \in Runs, Alone(q), ~Terminate(q)
      PROVE  UNCHANGED job
  BY <1>4 DEF Alone, Sleep, Interrupt, Again, Fail, vmVars
<1>5. ASSUME NEW q \in Runs, Expire(q) \/ Cancel(q) \/ Boot(q) \/ AgentListens(q)
      PROVE  UNCHANGED job
  BY <1>5 DEF Expire, Cancel, Boot, AgentListens, vmVars
<1>6. UNCHANGED vars => UNCHANGED job
  BY DEF vars, vmVars
<1> QED
  BY <1>2, <1>3, <1>4, <1>5, <1>6 DEF Next, Answered

\* A task that is finished has been answered with a result.
FinishedIsDone == job[Chosen] = "finished" => agentPc = "done"

\* The answer is a result when runTask has returned one, and the agent is over then.
LEMMA FinishedIsDoneKeeps ==
  ASSUME IndInv, FinishedIsDone, [TaskNext]_allVars
  PROVE  FinishedIsDone'
<1>1. Chosen \in Runs
  BY TaskAssumption
<1> SUFFICES ASSUME job'[Chosen] = "finished" PROVE agentPc' = "done"
  BY DEF FinishedIsDone
<1>2. job[Chosen] \in {"running", "finished"}
  BY <1>1, TaskStepIsRunStep, FinishedFromRunning
<1>3. CASE RunStep
  <2>1. agentPc = "done"
    BY <1>2, <1>3 DEF RunStep, Answer, FinishedIsDone
  <2> QED
    BY <1>3, <2>1 DEF RunStep, agentVars
<1>4. CASE AgentStep
  <2>1. job'[Chosen] = "running"
    BY <1>4 DEF AgentStep, vars, vmVars
  <2> QED
    BY <2>1
<1>5. CASE OthersPut \/ UNCHANGED allVars
  <2>1. UNCHANGED <<job, agentPc>>
    BY <1>5 DEF OthersPut, A!Others, allVars, agentVars, vars, vmVars
  <2> QED
    BY <2>1 DEF FinishedIsDone
<1> QED
  BY <1>3, <1>4, <1>5 DEF TaskNext

\* A finished task is complete, at any time after.
LEMMA FinishedIsComplete ==
  TaskSafetySpec => []IndInv /\ [](job[Chosen] = "finished" => Completed)
<1>1. TaskSafetySpec => []IndInv
  <2>1. TaskInit => IndInv
    BY InitIndInv DEF TaskInit
  <2>2. IndInv /\ [TaskNext]_allVars => IndInv'
    BY TaskStepIsRunStep, NextKeeps
  <2> QED
    BY <2>1, <2>2, PTL DEF TaskSafetySpec
<1>2. TaskSafetySpec => []FinishedIsDone
  <2>1. TaskInit => FinishedIsDone
    BY TaskAssumption DEF TaskInit, Init, FinishedIsDone
  <2> QED
    BY <1>1, <2>1, FinishedIsDoneKeeps, PTL DEF TaskSafetySpec
<1>3. TaskSafetySpec => AgentP!SafetySpec
  <2>1. TaskInit => AgentP!Init
    BY SameAgent DEF TaskInit
  <2> QED
    BY <2>1, TaskStepIsAgentStep, PTL DEF TaskSafetySpec, AgentP!SafetySpec
<1>4. AgentP!SafetySpec => []AgentP!ResultIsStored
  BY SameAssumptions, AgentP!ResultsAreStored
<1>5. AgentP!SafetySpec => []AgentP!ExitCodeIsTrue
  BY SameAssumptions, AgentP!ExitCodeMeansIt
<1>6. FinishedIsDone /\ AgentP!ResultIsStored /\ AgentP!ExitCodeIsTrue
        => (job[Chosen] = "finished" => Completed)
  BY SameAgent DEF FinishedIsDone, Completed
<1> QED
  BY <1>1, <1>2, <1>3, <1>4, <1>5, <1>6, PTL

-----------------------------------------------------------------------------
(* The theorem *)

\* What Run returns is what the agent has completed and stored, for any task and
\* wherever the MicroVM, the connection or either program breaks off
\* (executor.go:171-206, main.go:70-80).
THEOREM ResultsAreFetchable == TaskSafetySpec => []ResultIsFetchable
<1>1. IndInv /\ (job[Chosen] = "finished" => Completed) => ResultIsFetchable
  BY TaskAssumption DEF IndInv, OkMeansFinished, ResultIsFetchable
<1> QED
  BY FinishedIsComplete, <1>1, PTL

=============================================================================
