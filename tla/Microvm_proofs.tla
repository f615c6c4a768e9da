--------------------------- MODULE Microvm_proofs ---------------------------
(***************************************************************************)
(* Theorems about Microvm, for any number of Runs: what has been torn      *)
(* down, what a result comes from and what a MicroVM is given.             *)
(***************************************************************************)
EXTENDS Microvm, TLAPS

\* A Run launches one MicroVM, and its one dispatch hands out the task.
JobOK ==
  \A r \in Runs :
    /\ pc[r] = "launch" => vm[r] = "none" /\ ~id[r]
    /\ pc[r] \in {"launch", "getvm", "sleepVm", "token", "health", "sleepHealth",
                  "dispatch"} =>
         job[r] = "none"

IndInv ==
  VmTypeOK /\ JobOK /\ TeardownAttempted /\ OkMeansFinished /\ CanceledMeansCancelled

-----------------------------------------------------------------------------
(* The invariant *)

\* No Run has begun: nothing is known, tried or answered.
LEMMA InitIndInv == Init => IndInv
BY DEF Init, IndInv, VmTypeOK, JobOK, TeardownAttempted, OkMeansFinished,
       CanceledMeansCancelled, Requests, Waits

\* Run goes from one request or sleep to another, and no task is handed out.
LEMMA GotoKeeps ==
  ASSUME IndInv, NEW r \in Runs,
         pc[r] \in {"getvm", "sleepVm", "token", "health", "sleepHealth"},
         NEW label \in {"getvm", "sleepVm", "token", "health", "sleepHealth", "dispatch"},
         Goto(r, label), UNCHANGED vmVars
  PROVE  IndInv'
BY DEF IndInv, VmTypeOK, JobOK, TeardownAttempted, OkMeansFinished,
       CanceledMeansCancelled, Requests, Waits, Goto, vmVars

\* A return is sound if its outcome is, whether or not a teardown has been set up.
LEMMA LeaveKeeps ==
  ASSUME IndInv, NEW r \in Runs, pc[r] \in Requests \cup Waits,
         NEW o \in {"ok", "error", "canceled"},
         o = "ok" => pc[r] # "launch" /\ job[r] = "finished",
         o = "canceled" => ctx[r],
         Leave(r, o), UNCHANGED vmVars
  PROVE  IndInv'
BY DEF IndInv, VmTypeOK, JobOK, TeardownAttempted, OkMeansFinished,
       CanceledMeansCancelled, Requests, Waits, Leave, vmVars

\* A launch that fails may have made a MicroVM, of which Run knows nothing.
LEMMA LaunchFailsKeeps ==
  ASSUME IndInv, NEW r \in Runs, pc[r] = "launch",
         NEW s \in {"none", "pending"}, vm' = [vm EXCEPT ![r] = s],
         NEW o \in {"error", "canceled"}, o = "canceled" => ctx[r],
         Leave(r, o), UNCHANGED <<agent, job>>
  PROVE  IndInv'
BY DEF IndInv, VmTypeOK, JobOK, TeardownAttempted, OkMeansFinished,
       CanceledMeansCancelled, Requests, Waits, Leave

\* One more turn of a wait, or its end.
LEMMA AgainKeeps ==
  ASSUME IndInv, NEW r \in Runs, pc[r] \in {"getvm", "health"},
         NEW label \in {"sleepVm", "sleepHealth"}, Again(r, label)
  PROVE  IndInv'
<1>1. CASE Leave(r, "error") /\ UNCHANGED vmVars
  BY <1>1, LeaveKeeps DEF Requests
<1>2. CASE ctx[r] /\ Leave(r, "canceled") /\ UNCHANGED vmVars
  BY <1>2, LeaveKeeps DEF Requests
<1>3. CASE Goto(r, label) /\ UNCHANGED vmVars
  BY <1>3, GotoKeeps
<1> QED
  BY <1>1, <1>2, <1>3 DEF Again

\* The requests that are answered.
LEMMA AnsweredKeeps ==
  ASSUME IndInv, NEW r \in Runs, Answered(r)
  PROVE  IndInv'
<1>1. CASE Launch(r)
  <2>1. ASSUME NEW s \in {"pending", "running"},
               vm' = [vm EXCEPT ![r] = s], id' = [id EXCEPT ![r] = TRUE],
               StartWait(r, IF s = "running" THEN "token" ELSE "getvm"),
               UNCHANGED <<ctx, tried, outcome>>, UNCHANGED <<agent, job>>
        PROVE  IndInv'
    BY <1>1, <2>1 DEF Launch, IndInv, VmTypeOK, JobOK, TeardownAttempted, OkMeansFinished,
                      CanceledMeansCancelled, Requests, Waits, StartWait
  <2> QED
    BY <1>1, <2>1, LaunchFailsKeeps DEF Launch
<1>2. CASE GetMicrovm(r)
  BY <1>2, GotoKeeps, AgainKeeps, LeaveKeeps DEF GetMicrovm, Fail, Requests
<1>3. CASE CreateMicrovmAuthToken(r)
  <2>1. CASE StartWait(r, "health") /\ UNCHANGED <<ctx, id, tried, outcome, vmVars>>
    BY <1>3, <2>1 DEF CreateMicrovmAuthToken, IndInv, VmTypeOK, JobOK, TeardownAttempted,
                      OkMeansFinished, CanceledMeansCancelled, Requests, Waits, StartWait,
                      vmVars
  <2>2. CASE Fail(r)
    BY <1>3, <2>2, LeaveKeeps DEF CreateMicrovmAuthToken, Fail, Requests
  <2> QED
    BY <1>3, <2>1, <2>2 DEF CreateMicrovmAuthToken
<1>4. CASE Health(r)
  BY <1>4, GotoKeeps, AgainKeeps DEF Health
<1>5. CASE Dispatch(r)
  <2>1. CASE Fail(r)
    BY <1>5, <2>1, LeaveKeeps DEF Dispatch, Fail, Requests
  <2>2. CASE ~Fail(r)
    BY <1>5, <2>2 DEF Dispatch, Goto, IndInv, VmTypeOK, JobOK, TeardownAttempted,
                      OkMeansFinished, CanceledMeansCancelled, Requests, Waits
  <2> QED
    BY <2>1, <2>2
<1>6. CASE Await(r)
  BY <1>6, LeaveKeeps DEF Await, Fail, Requests
<1> QED
  BY <1>1, <1>2, <1>3, <1>4, <1>5, <1>6 DEF Answered

\* What Run does without an answer.
LEMMA AloneKeeps ==
  ASSUME IndInv, NEW r \in Runs, Alone(r)
  PROVE  IndInv'
<1>1. CASE Sleep(r, "sleepVm", "getvm") \/ Sleep(r, "sleepHealth", "health")
  BY <1>1, GotoKeeps, LeaveKeeps DEF Sleep, Waits
<1>2. CASE Interrupt(r)
  <2>1. CASE pc[r] = "launch"
    BY <1>2, <2>1, LaunchFailsKeeps DEF Interrupt
  <2>2. CASE pc[r] = "health"
    BY <1>2, <2>2, AgainKeeps DEF Interrupt
  <2>3. CASE pc[r] \in {"getvm", "token", "dispatch", "await"}
    BY <1>2, <2>3, LeaveKeeps DEF Interrupt, Fail, Requests
  <2> QED
    BY <1>2, <2>1, <2>2, <2>3 DEF Interrupt
<1>3. CASE Terminate(r)
  <2>1. pc'[r] = "returned" /\ tried'[r] /\ outcome[r] # "none" /\ id' = id
    BY <1>3 DEF Terminate, IndInv, VmTypeOK
  <2>2. CASE UNCHANGED vmVars
    BY <1>3, <2>1, <2>2 DEF Terminate, IndInv, VmTypeOK, JobOK, TeardownAttempted,
                            OkMeansFinished, CanceledMeansCancelled, Requests, Waits, vmVars
  <2>3. CASE ~UNCHANGED vmVars
    <3>1. /\ pc' = [pc EXCEPT ![r] = "returned"]
          /\ tried' = [tried EXCEPT ![r] = TRUE]
          /\ vm' = [vm EXCEPT ![r] = "terminated"]
          /\ agent' = [agent EXCEPT ![r] = FALSE]
          /\ job' = [job EXCEPT ![r] = IF job[r] = "running" THEN "killed" ELSE job[r]]
          /\ UNCHANGED <<ctx, id, expired, outcome>>
      BY <1>3, <2>3 DEF Terminate
    <3>2. VmTypeOK'
      BY <2>1, <3>1 DEF IndInv, VmTypeOK
    <3>3. JobOK' /\ TeardownAttempted' /\ OkMeansFinished' /\ CanceledMeansCancelled'
      BY <2>1, <3>1 DEF IndInv, VmTypeOK, JobOK, TeardownAttempted, OkMeansFinished,
                        CanceledMeansCancelled
    <3> QED
      BY <3>2, <3>3 DEF IndInv
  <2> QED
    BY <2>2, <2>3
<1> QED
  BY <1>1, <1>2, <1>3 DEF Alone

\* Deadlines and cancellations, the MicroVM and its agent: none of them takes a
\* finished task back.
LEMMA OutsideKeeps ==
  ASSUME IndInv, NEW r \in Runs,
         Expire(r) \/ Cancel(r) \/ Boot(r) \/ AgentListens(r) \/ AgentAnswers(r) \/ VmEnds(r)
  PROVE  IndInv'
<1>1. CASE Expire(r)
  BY <1>1 DEF Expire, IndInv, VmTypeOK, JobOK, TeardownAttempted, OkMeansFinished,
              CanceledMeansCancelled, vmVars
<1>2. CASE Cancel(r)
  BY <1>2 DEF Cancel, IndInv, VmTypeOK, JobOK, TeardownAttempted, OkMeansFinished,
              CanceledMeansCancelled, runVars, vmVars
<1>3. CASE Boot(r)
  BY <1>3 DEF Boot, IndInv, VmTypeOK, JobOK, TeardownAttempted, OkMeansFinished,
              CanceledMeansCancelled, runVars
<1>4. CASE AgentListens(r)
  BY <1>4 DEF AgentListens, IndInv, VmTypeOK, JobOK, TeardownAttempted, OkMeansFinished,
              CanceledMeansCancelled, runVars
<1>5. CASE AgentAnswers(r)
  BY <1>5 DEF AgentAnswers, IndInv, VmTypeOK, JobOK, TeardownAttempted, OkMeansFinished,
              CanceledMeansCancelled, runVars
<1>6. CASE VmEnds(r)
  BY <1>6 DEF VmEnds, IndInv, VmTypeOK, JobOK, TeardownAttempted, OkMeansFinished,
              CanceledMeansCancelled, runVars
<1> QED
  BY <1>1, <1>2, <1>3, <1>4, <1>5, <1>6

\* The invariant is inductive.
LEMMA NextKeeps == IndInv /\ [Next]_vars => IndInv'
<1> SUFFICES ASSUME IndInv, [Next]_vars PROVE IndInv'
  OBVIOUS
<1>1. CASE Next
  BY <1>1, AnsweredKeeps, AloneKeeps, OutsideKeeps DEF Next
<1>2. CASE UNCHANGED vars
  BY <1>2 DEF vars, runVars, vmVars, IndInv, VmTypeOK, JobOK, TeardownAttempted,
              OkMeansFinished, CanceledMeansCancelled
<1> QED
  BY <1>1, <1>2

\* No behaviour leaves it, fairness or not.
LEMMA SpecIsSafe == Init /\ [][Next]_vars => []IndInv
BY InitIndInv, NextKeeps, PTL

\* What the agent has finished stays finished: no Run hands out a second task.
LEMMA FinishedStays ==
  ASSUME IndInv, [Next]_vars, NEW r \in Runs, job[r] = "finished"
  PROVE  job'[r] = "finished"
<1>1. CASE UNCHANGED job
  BY <1>1
<1>2. ASSUME NEW q \in Runs, Dispatch(q), ~Fail(q) PROVE job'[r] = "finished"
  BY <1>2 DEF Dispatch, IndInv, VmTypeOK, JobOK
<1>3. ASSUME NEW q \in Runs, Terminate(q) \/ AgentAnswers(q) \/ VmEnds(q)
      PROVE  job'[r] = "finished"
  BY <1>3 DEF Terminate, AgentAnswers, VmEnds, IndInv, VmTypeOK, vmVars
<1>4. ASSUME NEW q \in Runs,
             \/ Launch(q) \/ GetMicrovm(q) \/ CreateMicrovmAuthToken(q) \/ Health(q)
             \/ (Dispatch(q) /\ Fail(q)) \/ Await(q)
      PROVE  UNCHANGED job
  BY <1>4 DEF Launch, GetMicrovm, CreateMicrovmAuthToken, Health, Await, Again, Fail, vmVars
<1>5. ASSUME NEW q \in Runs, Alone(q), ~Terminate(q) PROVE UNCHANGED job
  BY <1>5 DEF Alone, Sleep, Interrupt, Again, Fail, vmVars
<1>6. ASSUME NEW q \in Runs, Expire(q) \/ Cancel(q) \/ Boot(q) \/ AgentListens(q)
      PROVE  UNCHANGED job
  BY <1>6 DEF Expire, Cancel, Boot, AgentListens, vmVars
<1>7. UNCHANGED vars => UNCHANGED job
  BY DEF vars, vmVars
<1> QED
  BY <1>1, <1>2, <1>3, <1>4, <1>5, <1>6, <1>7 DEF Next, Answered

\* No step of one Run, of its deadlines or of its MicroVM is another's.
LEMMA OthersSame ==
  ASSUME VmTypeOK, NEW r \in Runs, NEW q \in Runs, q # r,
         \/ Answered(r) \/ Alone(r) \/ Expire(r)
         \/ Boot(r) \/ AgentListens(r) \/ AgentAnswers(r) \/ VmEnds(r)
  PROVE  pc'[q] = pc[q] /\ id'[q] = id[q] /\ tried'[q] = tried[q]
<1>1. ASSUME NEW o, Leave(r, o)
      PROVE  pc'[q] = pc[q] /\ id'[q] = id[q] /\ tried'[q] = tried[q]
  BY <1>1 DEF Leave, VmTypeOK
<1>2. ASSUME NEW label, Goto(r, label)
      PROVE  pc'[q] = pc[q] /\ id'[q] = id[q] /\ tried'[q] = tried[q]
  BY <1>2 DEF Goto, VmTypeOK
<1>3. ASSUME NEW label, StartWait(r, label), UNCHANGED tried,
             \/ UNCHANGED id
             \/ id' = [id EXCEPT ![r] = TRUE]
      PROVE  pc'[q] = pc[q] /\ id'[q] = id[q] /\ tried'[q] = tried[q]
  BY <1>3 DEF StartWait, VmTypeOK
<1>4. CASE Answered(r)
  BY <1>1, <1>2, <1>3, <1>4 DEF Answered, Launch, GetMicrovm, CreateMicrovmAuthToken,
                                Health, Dispatch, Await, Again, Fail
<1>5. CASE Terminate(r)
  BY <1>5 DEF Terminate, VmTypeOK
<1>6. CASE Alone(r) /\ ~Terminate(r)
  BY <1>1, <1>2, <1>6 DEF Alone, Sleep, Interrupt, Again, Fail
<1>7. CASE Expire(r) \/ Boot(r) \/ AgentListens(r) \/ AgentAnswers(r) \/ VmEnds(r)
  BY <1>7 DEF Expire, Boot, AgentListens, AgentAnswers, VmEnds, runVars
<1> QED
  BY <1>4, <1>5, <1>6, <1>7

-----------------------------------------------------------------------------
(* The theorems *)

\* The shape of the state: Run waits only on a MicroVM that it knows.
THEOREM VmTypeCorrect == Init /\ [][Next]_vars => []VmTypeOK
<1>1. IndInv => VmTypeOK
  BY DEF IndInv
<1> QED
  BY SpecIsSafe, <1>1, PTL

\* Whichever return Run takes, and whatever fails before it, the MicroVM whose
\* launch it has seen is asked to terminate: the defer of executor.go:125-132.
THEOREM TeardownIsAttempted == Init /\ [][Next]_vars => []TeardownAttempted
<1>1. IndInv => TeardownAttempted
  BY DEF IndInv
<1> QED
  BY SpecIsSafe, <1>1, PTL

\* A result comes from a task that the agent finished: dispatch makes none up.
THEOREM OkIsFinished == Init /\ [][Next]_vars => []OkMeansFinished
<1>1. IndInv => OkMeansFinished
  BY DEF IndInv
<1> QED
  BY SpecIsSafe, <1>1, PTL

\* Only a cancelled operation makes Run report context.Canceled.
THEOREM CanceledIsCancelled == Init /\ [][Next]_vars => []CanceledMeansCancelled
<1>1. IndInv => CanceledMeansCancelled
  BY DEF IndInv
<1> QED
  BY SpecIsSafe, <1>1, PTL

\* A MicroVM is given one task in its life, and none once its Run is leaving:
\* dispatch is never repeated.
THEOREM TaskIsGivenOnce == Init /\ [][Next]_vars => OneTaskPerMicrovm
<1> DEFINE Once(r) == job'[r] # job[r] /\ job'[r] = "running" =>
                        job[r] = "none" /\ outcome[r] = "none" /\ vm[r] = "running"
<1>1. ASSUME IndInv, [Next]_vars, NEW r \in Runs PROVE Once(r)
  <2>1. CASE UNCHANGED job
    BY <2>1
  <2>2. ASSUME NEW q \in Runs, Dispatch(q) PROVE Once(r)
    BY <1>1, <2>2 DEF Dispatch, Fail, IndInv, VmTypeOK, JobOK, vmVars
  <2>3. ASSUME NEW q \in Runs, Terminate(q) \/ AgentAnswers(q) \/ VmEnds(q) PROVE Once(r)
    BY <1>1, <2>3 DEF Terminate, AgentAnswers, VmEnds, IndInv, VmTypeOK, vmVars
  <2>4. ASSUME NEW q \in Runs,
               Launch(q) \/ GetMicrovm(q) \/ CreateMicrovmAuthToken(q) \/ Health(q) \/ Await(q)
        PROVE  UNCHANGED job
    BY <2>4 DEF Launch, GetMicrovm, CreateMicrovmAuthToken, Health, Await, Again, Fail, vmVars
  <2>5. ASSUME NEW q \in Runs, Alone(q), ~Terminate(q)
        PROVE  UNCHANGED job
    BY <2>5 DEF Alone, Sleep, Interrupt, Again, Fail, vmVars
  <2>6. ASSUME NEW q \in Runs, Expire(q) \/ Cancel(q) \/ Boot(q) \/ AgentListens(q)
        PROVE  UNCHANGED job
    BY <2>6 DEF Expire, Cancel, Boot, AgentListens, vmVars
  <2>7. UNCHANGED vars => UNCHANGED job
    BY DEF vars, vmVars
  <2> QED
    BY <1>1, <2>1, <2>2, <2>3, <2>4, <2>5, <2>6, <2>7 DEF Next, Answered
<1>2. IndInv /\ [Next]_vars => [\A r \in Runs : Once(r)]_vars
  BY <1>1
<1> QED
  BY SpecIsSafe, <1>2, PTL DEF OneTaskPerMicrovm

=============================================================================
