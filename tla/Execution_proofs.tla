-------------------------- MODULE Execution_proofs --------------------------
(***************************************************************************)
(* Theorems about Execution: its steps are steps of the manager, so that   *)
(* what is proved of Operations holds of every execution; and what the     *)
(* Action Cache is given.                                                  *)
(***************************************************************************)
EXTENDS Execution, Operations_proofs

\* Where runAction is tells what it has published, and that its entry is there.
RunOK ==
  /\ run \in [Names -> RunLabels]
  /\ response \in [Names -> TerminalMessages \cup {Nil}]
  /\ \A n \in Names :
       /\ run[n] \notin {"none", "done"} => n \in entries
       /\ run[n] = "none" <=> n \notin issued
       /\ run[n] \in {"none", "start"} => published[n] = {}
       /\ run[n] \in {"lookup", "fetch", "executing"} =>
            published[n] \subseteq {Progress("CACHE_CHECK")}
       /\ run[n] \in {"exec", "put", "complete"} => published[n] \subseteq ProgressMessages
       /\ run[n] \in {"put", "complete"} => response[n] \in TerminalMessages

\* A result that is about to be put into the cache, or is in it, is the success of
\* an execution of its action, or a client's.
CacheOK ==
  /\ action \in [Names -> Actions \cup {Nil}]
  /\ ac \in [Actions -> Results \cup {Nil}]
  /\ \A n \in Names : run[n] # "none" => action[n] \in Actions
  /\ \A n \in Names : run[n] = "put" =>
       /\ response[n] = Completed([exit |-> 0, by |-> n], FALSE)
       /\ action[n] \notin DoNotCache
  /\ \A a \in Actions : ac[a] # Nil /\ ac[a].by \in Names => ac[a].by \in issued

ExecInv == TypeOK /\ RunOK /\ CacheOK /\ CacheHoldsSuccesses

-----------------------------------------------------------------------------
(* The messages *)

\* The messages of runAction are updates, of the two kinds that the manager knows.
LEMMA MessagesAreUpdates ==
  /\ Progress("CACHE_CHECK") \in ProgressMessages
  /\ Progress("EXECUTING") \in ProgressMessages
  /\ ProgressMessages \subseteq Updates
  /\ TerminalMessages \subseteq Updates
  /\ Progress("CACHE_CHECK") # Progress("EXECUTING")
  /\ ProgressMessages \cap TerminalMessages = {}
  /\ Nil \notin TerminalMessages
<1>1. \A u \in ProgressMessages : u.stage # "COMPLETED"
  BY DEF ProgressMessages, Progress
<1>2. \A u \in TerminalMessages : u.stage = "COMPLETED"
  BY DEF TerminalMessages, Completed, Failed
<1>3. Progress("CACHE_CHECK").stage # Progress("EXECUTING").stage
  BY DEF Progress
<1>4. TerminalMessages \subseteq Updates /\ ProgressMessages \subseteq Updates
  BY ExecutionAssumption
<1> QED
  BY <1>1, <1>2, <1>3, <1>4, UpdatesAssumption DEF ProgressMessages

\* Every result, cached or not, can be the answer of an operation.
LEMMA CompletedIsTerminal ==
  ASSUME NEW r \in Results, NEW hit \in BOOLEAN
  PROVE  Completed(r, hit) \in TerminalMessages
BY DEF TerminalMessages

\* A client's result and an execution's are told apart by who made them.
LEMMA ResultsOfExecutions ==
  ASSUME NEW n \in Names, NEW e \in {0, 1}
  PROVE  /\ [exit |-> e, by |-> n] \in Results
         /\ [exit |-> e, by |-> Client] \in Results
         /\ \A hit \in BOOLEAN : Completed([exit |-> e, by |-> n], hit) \in TerminalMessages
BY DEF Results, TerminalMessages

-----------------------------------------------------------------------------
(* The manager *)

\* Every step of an execution is a step of the manager, or leaves it alone.
LEMMA ExecStepIsManagerStep == RunOK /\ [ExecNext]_allVars => [Next]_opVars
<1> SUFFICES ASSUME RunOK, [ExecNext]_allVars PROVE [Next]_opVars
  OBVIOUS
<1>1. ASSUME NEW c \in Calls, NEW a \in Actions, NEW s \in BOOLEAN, Execute(c, a, s)
      PROVE  Next
  BY <1>1 DEF Execute, Next
<1>2. ASSUME NEW c \in Calls, NEW a \in Actions, ExecuteRejected(c, a) PROVE Next
  BY <1>2 DEF ExecuteRejected, Next, Refusals
<1>3. ASSUME NEW n \in Names, RunAction(n) PROVE [Next]_opVars
  <2>1. ASSUME NEW u \in Updates, NEW label, RunPublish(n, u, label),
               u \notin published[n], n \in entries
        PROVE  Next
    BY <2>1 DEF RunPublish, Publish, Next
  <2>2. CASE PublishCacheCheck(n)
    BY <2>1, <2>2, MessagesAreUpdates DEF PublishCacheCheck, RunOK
  <2>3. CASE PublishExecuting(n)
    BY <2>1, <2>3, MessagesAreUpdates DEF PublishExecuting, RunOK
  <2>4. CASE PublishResponse(n)
    BY <2>1, <2>4, MessagesAreUpdates DEF PublishResponse, RunOK
  <2>5. CASE RunExit(n)
    BY <2>5 DEF RunExit, Next
  <2>6. CASE LookupResult(n) \/ FetchCommand(n) \/ RunReturns(n) \/ PutResult(n)
    BY <2>6 DEF LookupResult, FetchCommand, RunReturns, PutResult, Finish, Continue
  <2> QED
    BY <1>3, <2>2, <2>3, <2>4, <2>5, <2>6 DEF RunAction
<1>4. ASSUME NEW n \in Names, ExecCancel(n) PROVE Next
  BY <1>4 DEF ExecCancel, Next
<1>5. ASSUME NEW c \in Calls, ExecDisconnect(c) \/ Step(c) PROVE Next
  BY <1>5 DEF ExecDisconnect, Next
<1>6. ASSUME NEW c \in Calls, NEW n \in Names, NEW k \in Kinds, Lookup(c, k, n) PROVE Next
  BY <1>6 DEF Next
<1>7. ASSUME NEW n \in Names, DeleteOperation(n) PROVE Next
  BY <1>7 DEF Next
<1>8. CASE ListOperations \/ ExecCrash
  BY <1>8 DEF ExecCrash, Next
<1>9. ASSUME NEW b, Upload(b) PROVE UNCHANGED opVars
  BY <1>9 DEF Upload
<1>10. ASSUME NEW a \in Actions, NEW e \in {0, 1}, UpdateActionResult(a, e)
       PROVE  UNCHANGED opVars
  BY <1>10 DEF UpdateActionResult
<1>11. CASE UNCHANGED allVars
  BY <1>11 DEF allVars
<1> QED
  BY <1>1, <1>2, <1>3, <1>4, <1>5, <1>6, <1>7, <1>8, <1>9, <1>10, <1>11 DEF ExecNext

-----------------------------------------------------------------------------
(* runAction *)

\* Before any operation there is nothing to publish and nothing in the cache.
LEMMA ExecInitInv == ExecInit => ExecInv
<1> SUFFICES ASSUME ExecInit PROVE ExecInv
  OBVIOUS
<1>1. TypeOK
  BY InitIndInv DEF ExecInit, IndInv
<1>2. RunOK
  BY DEF ExecInit, Init, RunOK, RunLabels
<1>3. CacheOK /\ CacheHoldsSuccesses
  BY DEF ExecInit, CacheOK, CacheHoldsSuccesses
<1> QED
  BY <1>1, <1>2, <1>3 DEF ExecInv

\* publish adds one update to what its own operation has published, or none.
LEMMA PublishAdds ==
  ASSUME TypeOK, NEW n \in Names, NEW u, publish(n, u)
  PROVE  /\ published'[n] \subseteq published[n] \cup {u}
         /\ \A m \in Names \ {n} : published'[m] = published[m]
BY DEF publish, entryVars, TypeOK

\* A step of runAction finds its operation where the next step expects it.
LEMMA RunActionRunOK ==
  ASSUME TypeOK, RunOK, CacheOK, NEW n \in Names, RunAction(n)
  PROVE  RunOK'
<1> USE MessagesAreUpdates
<1>1. ASSUME NEW u, NEW label \in RunLabels, RunPublish(n, u, label)
      PROVE  /\ UNCHANGED <<response, entries, issued>>
             /\ run' = [run EXCEPT ![n] = label]
             /\ published'[n] \subseteq published[n] \cup {u}
             /\ \A m \in Names \ {n} : published'[m] = published[m]
  BY <1>1, PublishAdds DEF RunPublish, Goto
<1>2. CASE PublishCacheCheck(n)
  <2>1. PICK label \in {"lookup", "fetch"} : RunPublish(n, Progress("CACHE_CHECK"), label)
    BY <1>2 DEF PublishCacheCheck
  <2>2. run[n] = "start" /\ published[n] = {} /\ label \in RunLabels
    BY <1>2, <2>1 DEF PublishCacheCheck, RunOK, RunLabels
  <2>3. /\ UNCHANGED <<response, entries, issued>>
        /\ run' = [run EXCEPT ![n] = label]
        /\ published'[n] \subseteq {Progress("CACHE_CHECK")}
        /\ \A m \in Names \ {n} : published'[m] = published[m]
    BY <1>1, <2>1, <2>2
  <2> QED
    BY <2>1, <2>2, <2>3 DEF RunOK, RunLabels
<1>3. CASE PublishExecuting(n)
  BY <1>1, <1>3 DEF PublishExecuting, RunOK, RunLabels
<1>4. CASE PublishResponse(n)
  BY <1>1, <1>4 DEF PublishResponse, RunOK, RunLabels
<1>5. CASE RunExit(n)
  BY <1>5 DEF RunExit, Release, Goto, RunOK, RunLabels, entryVars
<1>6. ASSUME NEW u \in TerminalMessages, Finish(n, u),
             run[n] \in {"lookup", "fetch", "exec"}
      PROVE  RunOK'
  BY <1>6 DEF Finish, Goto, RunOK, RunLabels, opVars, entryVars
<1>7. CASE LookupResult(n)
  <2>1. ac[action[n]] # Nil => Completed(ac[action[n]], TRUE) \in TerminalMessages
    <3>1. action[n] \in Actions
      BY <1>7 DEF LookupResult, CacheOK
    <3>2. ac[action[n]] # Nil => ac[action[n]] \in Results
      BY <3>1 DEF CacheOK
    <3> QED
      BY <3>2, CompletedIsTerminal
  <2>2. CASE Continue(n, "fetch")
    BY <1>7, <2>2 DEF LookupResult, Continue, Goto, RunOK, RunLabels, opVars, entryVars
  <2> QED
    BY <1>6, <1>7, <2>1, <2>2 DEF LookupResult
<1>8. CASE FetchCommand(n)
  <2>1. /\ Failed("Internal") \in TerminalMessages
        /\ Failed("FailedPrecondition") \in TerminalMessages
    BY DEF TerminalMessages, Failures
  <2>2. CASE Continue(n, "executing")
    BY <1>8, <2>2 DEF FetchCommand, Continue, Goto, RunOK, RunLabels, opVars, entryVars
  <2> QED
    BY <1>6, <1>8, <2>1, <2>2 DEF FetchCommand
<1>9. CASE RunReturns(n)
  <2>1. Failed("Internal") \in TerminalMessages /\ Failed("Canceled") \in TerminalMessages
    BY DEF TerminalMessages, Failures
  <2>2. ASSUME NEW e \in {0, 1}, NEW label \in {"put", "complete"}, run[n] = "exec",
               Goto(n, label), UNCHANGED opVars,
               response' = [response EXCEPT ![n] = Completed([exit |-> e, by |-> n], FALSE)]
        PROVE  RunOK'
    BY <2>2, ResultsOfExecutions DEF Goto, RunOK, RunLabels, opVars, entryVars
  <2> QED
    BY <1>6, <1>9, <2>1, <2>2 DEF RunReturns
<1>10. CASE PutResult(n)
  BY <1>10 DEF PutResult, Goto, RunOK, RunLabels, opVars, entryVars
<1> QED
  BY <1>2, <1>3, <1>4, <1>5, <1>7, <1>8, <1>9, <1>10 DEF RunAction

\* A step of runAction caches no result but a success of its own action.
LEMMA RunActionCacheOK ==
  ASSUME TypeOK, RunOK, CacheOK, CacheHoldsSuccesses, NEW n \in Names, RunAction(n)
  PROVE  CacheOK' /\ CacheHoldsSuccesses'
<1>1. action' = action /\ issued' = issued
  BY DEF RunAction, PublishCacheCheck, LookupResult, FetchCommand, PublishExecuting,
     RunReturns, PutResult, PublishResponse, RunExit, RunPublish, Finish, Continue,
     Release, opVars
<1>2. CASE PutResult(n)
  <2>1. /\ response[n] = Completed([exit |-> 0, by |-> n], FALSE)
        /\ action[n] \in Actions \ DoNotCache /\ n \in issued
    BY <1>2 DEF PutResult, CacheOK, RunOK
  <2> DEFINE r == [exit |-> 0, by |-> n]
  <2>2. r \in Results /\ r.exit = 0 /\ r.by = n
    BY ResultsOfExecutions
  <2>3. response[n].result = r
    BY <2>1 DEF Completed
  <2> HIDE DEF r
  <2>4. /\ run' = [run EXCEPT ![n] = "complete"] /\ UNCHANGED response
        /\ ac' = ac \/ ac' = [ac EXCEPT ![action[n]] = r]
    BY <1>2, <2>3 DEF PutResult, Goto
  <2>5. /\ ac' \in [Actions -> Results \cup {Nil}]
        /\ \A a \in Actions : ac'[a] = ac[a] \/ (a = action[n] /\ ac'[a] = r)
    BY <2>1, <2>2, <2>4 DEF CacheOK
  <2>6. \A m \in Names : run'[m] = run[m] \/ (m = n /\ run'[m] = "complete" /\ run[m] # "none")
    BY <1>2, <2>4 DEF PutResult, RunOK
  <2>7. CacheOK'
    <3>1. \A a \in Actions : ac'[a] # Nil /\ ac'[a].by \in Names => ac'[a].by \in issued
      BY <2>1, <2>2, <2>5 DEF CacheOK
    <3> QED
      BY <1>1, <2>4, <2>5, <2>6, <3>1 DEF CacheOK
  <2>8. CacheHoldsSuccesses'
    BY <1>1, <2>1, <2>2, <2>5 DEF CacheHoldsSuccesses
  <2> QED
    BY <2>7, <2>8
<1>3. CASE RunReturns(n)
  <2>1. /\ ac' = ac
        /\ \A m \in Names \ {n} : run'[m] = run[m] /\ response'[m] = response[m]
        /\ run[n] # "none"
        /\ run'[n] = "put" =>
             /\ response'[n] = Completed([exit |-> 0, by |-> n], FALSE)
             /\ action[n] \notin DoNotCache
    BY <1>3 DEF RunReturns, Goto, Finish, RunOK
  <2> QED
    BY <1>1, <2>1 DEF CacheOK, CacheHoldsSuccesses
<1>4. ASSUME ac' = ac, run[n] # "none", run'[n] # "put",
             \A m \in Names \ {n} : run'[m] = run[m] /\ response'[m] = response[m]
      PROVE  CacheOK' /\ CacheHoldsSuccesses'
  BY <1>1, <1>4 DEF CacheOK, CacheHoldsSuccesses
<1>5. CASE LookupResult(n) \/ FetchCommand(n)
  BY <1>4, <1>5 DEF LookupResult, FetchCommand, Finish, Continue, Goto, RunOK
<1>6. CASE PublishCacheCheck(n) \/ PublishExecuting(n) \/ PublishResponse(n) \/ RunExit(n)
  BY <1>4, <1>6 DEF PublishCacheCheck, PublishExecuting, PublishResponse, RunExit,
     RunPublish, Goto, RunOK
<1> QED
  BY <1>2, <1>3, <1>5, <1>6 DEF RunAction

-----------------------------------------------------------------------------
(* The other steps *)

\* Execute gives a new operation an action and a runAction that has done nothing.
LEMMA ExecuteInv ==
  ASSUME ExecInv, NEW c \in Calls, NEW a \in Actions, NEW s \in BOOLEAN, Execute(c, a, s)
  PROVE  RunOK' /\ CacheOK' /\ CacheHoldsSuccesses'
<1>1. PICK n \in Names :
        /\ Start(c, n)
        /\ action' = [action EXCEPT ![n] = a]
        /\ run' = [run EXCEPT ![n] = "start"]
        /\ UNCHANGED <<ac, response>>
  BY DEF Execute
<1>2. /\ n \notin issued /\ issued' = issued \cup {n}
      /\ entries' = entries \cup {n} /\ published' = published
  BY <1>1 DEF Start, New, entryVars
<1>3. RunOK'
  BY <1>1, <1>2 DEF ExecInv, RunOK, RunLabels
<1>4. /\ action'[n] = a /\ run'[n] = "start"
      /\ \A m \in Names \ {n} : action'[m] = action[m] /\ run'[m] = run[m]
      /\ action' \in [Names -> Actions \cup {Nil}]
  BY <1>1 DEF ExecInv, CacheOK, RunOK
<1>5. CacheOK'
  BY <1>1, <1>2, <1>4 DEF ExecInv, CacheOK
<1>6. \A b \in Actions : ac[b] # Nil /\ ac[b].by \in Names => ac[b].by # n
  BY <1>2 DEF ExecInv, CacheOK
<1>7. CacheHoldsSuccesses'
  BY <1>1, <1>4, <1>6 DEF ExecInv, CacheHoldsSuccesses
<1> QED
  BY <1>3, <1>5, <1>7

\* No other step moves an action, a runAction or what it caches, but for a client's
\* own result and the end of the process.
LEMMA OtherExecInv ==
  ASSUME ExecInv,
         \/ \E c \in Calls, a \in Actions : ExecuteRejected(c, a)
         \/ \E n \in Names : ExecCancel(n)
         \/ \E c \in Calls : ExecDisconnect(c)
         \/ \E c \in Calls : Step(c) /\ UNCHANGED execVars
         \/ \E c \in Calls, n \in Names, k \in Kinds : Lookup(c, k, n) /\ UNCHANGED execVars
         \/ \E n \in Names : DeleteOperation(n) /\ UNCHANGED execVars
         \/ ListOperations /\ UNCHANGED execVars
         \/ \E b \in Actions \cup Commands : Upload(b)
         \/ UNCHANGED allVars
  PROVE  RunOK' /\ CacheOK' /\ CacheHoldsSuccesses'
<1>1. UNCHANGED <<issued, entries, published, run, response, action, ac>>
  BY DEF ExecuteRejected, Reject, ExecCancel, CancelOperation, ExecDisconnect, Disconnect,
     Step, Snapshot, Send, Abandon, Wake, Return, Lookup, DeleteOperation,
     ListOperations, Upload, opVars, entryVars, execVars, allVars
<1> QED
  BY <1>1 DEF ExecInv, RunOK, CacheOK, CacheHoldsSuccesses

\* The invariant is inductive.
LEMMA ExecNextInv == ExecInv /\ [ExecNext]_allVars => ExecInv'
<1> SUFFICES ASSUME ExecInv, [ExecNext]_allVars PROVE ExecInv'
  OBVIOUS
<1>1. TypeOK'
  BY ExecStepIsManagerStep, NextTypeOK DEF ExecInv
<1> SUFFICES RunOK' /\ CacheOK' /\ CacheHoldsSuccesses'
  BY <1>1 DEF ExecInv
<1>2. ASSUME NEW n \in Names, RunAction(n)
      PROVE  RunOK' /\ CacheOK' /\ CacheHoldsSuccesses'
  BY <1>2, RunActionRunOK, RunActionCacheOK DEF ExecInv
<1>3. ASSUME NEW a \in Actions, NEW e \in {0, 1}, UpdateActionResult(a, e)
      PROVE  RunOK' /\ CacheOK' /\ CacheHoldsSuccesses'
  <2>1. /\ ac' = [ac EXCEPT ![a] = [exit |-> e, by |-> Client]]
        /\ [exit |-> e, by |-> Client] \in Results
        /\ UNCHANGED <<issued, entries, published, run, response, action>>
    BY <1>3 DEF UpdateActionResult, opVars, entryVars, Results
  <2>2. RunOK'
    BY <2>1 DEF ExecInv, RunOK
  <2>3. CacheOK' /\ CacheHoldsSuccesses'
    BY <2>1, ExecutionAssumption DEF ExecInv, CacheOK, CacheHoldsSuccesses
  <2> QED
    BY <2>2, <2>3
<1>4. CASE ExecCrash
  <2>1. /\ run' = [n \in Names |-> IF n \in entries THEN "done" ELSE run[n]]
        /\ entries' = {}
        /\ UNCHANGED <<issued, published, response, action, ac>>
    BY <1>4 DEF ExecCrash, Crash, entryVars
  <2>2. entries \subseteq issued
    BY DEF ExecInv, TypeOK
  <2>3. RunOK'
    <3>1. run' \in [Names -> RunLabels] /\ response' \in [Names -> TerminalMessages \cup {Nil}]
      <4>1. "done" \in RunLabels
        BY DEF RunLabels
      <4> QED
        BY <2>1, <4>1 DEF ExecInv, RunOK
    <3>2. ASSUME NEW n \in Names
          PROVE  \/ n \in issued /\ run'[n] = "done"
                 \/ run'[n] = run[n] /\ run[n] \in {"none", "done"}
      BY <2>1, <2>2 DEF ExecInv, RunOK
    <3> QED
      BY <2>1, <3>1, <3>2 DEF ExecInv, RunOK
  <2>4. CacheOK'
    <3>1. \A n \in Names : run'[n] = "done" \/ run'[n] = run[n]
      BY <2>1
    <3>2. \A n \in Names : run'[n] # "none" => run[n] # "none"
      BY <2>1, <2>2 DEF ExecInv, RunOK
    <3> QED
      BY <2>1, <3>1, <3>2 DEF ExecInv, CacheOK
  <2>5. CacheHoldsSuccesses'
    BY <2>1 DEF ExecInv, CacheHoldsSuccesses
  <2> QED
    BY <2>3, <2>4, <2>5
<1> QED
  BY <1>2, <1>3, <1>4, ExecuteInv, OtherExecInv DEF ExecNext

-----------------------------------------------------------------------------
(* What clients are told *)

\* A response from the cache is one that its operation may have.
CacheAnswer(n, u) ==
  u.cached =>
    /\ ~skip[n]
    /\ action[n] \notin DoNotCache
    /\ u.result.by \in Names =>
         /\ u.result.by \in issued \ {n}
         /\ u.result.exit = 0
         /\ action[u.result.by] = action[n]

\* A cancellation that reaches an execution was asked for, a lookup is allowed, a
\* result in the cache is of an execution that is over, and what is published, or
\* about to be, follows from these.
ClientOK ==
  /\ cas \subseteq Actions \cup Commands
  /\ skip \in [Names -> BOOLEAN]
  /\ asked \subseteq Names
  /\ \A a \in Actions : ac[a] # Nil /\ ac[a].by \in Names =>
       run[ac[a].by] \in {"complete", "exit", "done"}
  /\ \A n \in Names :
       /\ cancelled[n] /\ run[n] # "done" => n \in asked
       /\ run[n] = "lookup" => ~skip[n] /\ action[n] \notin DoNotCache
       /\ run[n] \in {"put", "complete"} =>
            /\ response[n] = Failed("Canceled") => n \in asked
            /\ CacheAnswer(n, response[n])
       /\ latest[n] \in TerminalMessages =>
            /\ run[n] \in {"exit", "done"}
            /\ latest[n] = Failed("Canceled") => n \in asked
            /\ CacheAnswer(n, latest[n])

ClientInv == ExecInv /\ ClientOK

\* There is nothing to tell before there is an operation.
LEMMA ExecInitClient == ExecInit => ClientOK
<1> SUFFICES ASSUME ExecInit PROVE ClientOK
  OBVIOUS
<1>1. \A n \in Names : latest[n] \notin TerminalMessages
  BY MessagesAreUpdates DEF ExecInit, Init
<1> QED
  BY <1>1 DEF ExecInit, Init, ClientOK

\* runAction turns to its response, which is sound if this one is.
LEMMA FinishKeeps ==
  ASSUME ClientInv, NEW n \in Names, NEW u \in TerminalMessages, NEW label \in {"put", "complete"},
         run' = [run EXCEPT ![n] = label], response' = [response EXCEPT ![n] = u],
         UNCHANGED <<opVars, cas, ac, action, skip, asked>>,
         run[n] \in {"lookup", "fetch", "exec"},
         u = Failed("Canceled") => n \in asked,
         CacheAnswer(n, u)
  PROVE  ClientOK'
<1>1. UNCHANGED <<cas, ac, action, skip, asked, cancelled, latest, issued>>
  BY DEF opVars, entryVars
<1>2. run \in [Names -> RunLabels] /\ response \in [Names -> TerminalMessages \cup {Nil}]
  BY DEF ClientInv, ExecInv, RunOK
<1> QED
  BY <1>1, <1>2 DEF ClientInv, ClientOK, CacheAnswer

\* runAction goes on to what it needs no response for.
LEMMA ContinueKeeps ==
  ASSUME ClientInv, NEW n \in Names, NEW label \in {"fetch", "executing"}, Continue(n, label),
         run[n] \in {"lookup", "fetch"}
  PROVE  ClientOK'
<1>1. UNCHANGED <<cas, ac, action, skip, asked, cancelled, latest, issued, response>>
  BY DEF Continue, opVars, entryVars
<1>2. run \in [Names -> RunLabels] /\ run' = [run EXCEPT ![n] = label]
  BY DEF ClientInv, ExecInv, RunOK, Continue, Goto
<1> QED
  BY <1>1, <1>2 DEF ClientInv, ClientOK, CacheAnswer

\* runAction publishes a stage, which is no response.
LEMMA ProgressKeeps ==
  ASSUME ClientInv, NEW n \in Names, NEW u \in ProgressMessages,
         NEW label \in {"lookup", "fetch", "exec"}, RunPublish(n, u, label),
         run[n] \in {"start", "executing"},
         label = "lookup" => MayLookup(n)
  PROVE  ClientOK'
<1>1. UNCHANGED <<cas, ac, action, skip, asked, cancelled, issued, response>>
  BY DEF RunPublish
<1>2. run \in [Names -> RunLabels] /\ run' = [run EXCEPT ![n] = label]
  BY DEF ClientInv, ExecInv, RunOK, RunPublish, Goto
<1>3. latest \in [Names -> Message]
  BY DEF ClientInv, ExecInv, TypeOK
<1>4. latest' = [latest EXCEPT ![n] = u] \/ UNCHANGED latest
  BY DEF RunPublish, publish, entryVars
<1>5. u \notin TerminalMessages
  BY MessagesAreUpdates
<1>6. \A m \in Names : latest'[m] \in TerminalMessages =>
        latest[m] = latest'[m] /\ m # n
  BY <1>3, <1>4, <1>5 DEF ClientInv, ClientOK
<1> QED
  BY <1>1, <1>2, <1>6 DEF ClientInv, ClientOK, CacheAnswer, MayLookup

\* Every step of runAction.
LEMMA RunActionClient ==
  ASSUME ClientInv, NEW n \in Names, RunAction(n)
  PROVE  ClientOK'
<1>1. /\ run \in [Names -> RunLabels] /\ response \in [Names -> TerminalMessages \cup {Nil}]
      /\ action \in [Names -> Actions \cup {Nil}] /\ ac \in [Actions -> Results \cup {Nil}]
      /\ run[n] # "none" => action[n] \in Actions
      /\ latest \in [Names -> Message]
  BY DEF ClientInv, ExecInv, RunOK, CacheOK, TypeOK
<1>2. CASE PublishCacheCheck(n)
  BY <1>2, ProgressKeeps, MessagesAreUpdates DEF PublishCacheCheck
<1>3. CASE LookupResult(n)
  <2>1. CASE Continue(n, "fetch")
    BY <1>3, <2>1, ContinueKeeps DEF LookupResult
  <2>2. CASE ac[action[n]] # Nil /\ Finish(n, Completed(ac[action[n]], TRUE))
    <3> DEFINE u == Completed(ac[action[n]], TRUE)
    <3>1. run[n] = "lookup" /\ action[n] \in Actions /\ ac[action[n]] \in Results
      BY <1>1, <1>3, <2>2 DEF LookupResult
    <3>2. /\ u \in TerminalMessages
          /\ u.cached /\ u.result = ac[action[n]]
          /\ u # Failed("Canceled")
      BY <3>1, CompletedIsTerminal DEF Completed, Failed
    <3>3. CacheAnswer(n, u)
      <4> DEFINE hit == ac[action[n]]
      <4>1. ~skip[n] /\ action[n] \notin DoNotCache
        BY <3>1 DEF ClientInv, ClientOK
      <4>2. hit # Nil
        BY <2>2
      <4>3. ASSUME hit.by \in Names
            PROVE  hit.by \in issued \ {n} /\ hit.exit = 0 /\ action[hit.by] = action[n]
        <5>1. hit.by \in issued
          BY <3>1, <4>2, <4>3 DEF ClientInv, ExecInv, CacheOK
        <5>2. run[hit.by] \in {"complete", "exit", "done"}
          BY <3>1, <4>2, <4>3 DEF ClientInv, ClientOK
        <5>3. hit.exit = 0 /\ action[hit.by] = action[n]
          BY <3>1, <4>2, <4>3 DEF ClientInv, ExecInv, CacheHoldsSuccesses
        <5> QED
          BY <3>1, <5>1, <5>2, <5>3
      <4> QED
        BY <3>2, <4>1, <4>3 DEF CacheAnswer
    <3>4. /\ run' = [run EXCEPT ![n] = "complete"] /\ response' = [response EXCEPT ![n] = u]
          /\ UNCHANGED <<opVars, cas, ac, action, skip, asked>>
      BY <2>2 DEF Finish, Goto
    <3> HIDE DEF u
    <3> QED
      BY <3>1, <3>2, <3>3, <3>4, FinishKeeps
  <2> QED
    BY <1>3, <2>1, <2>2 DEF LookupResult
<1>4. ASSUME NEW code \in Failures, Finish(n, Failed(code)), run[n] \in {"fetch", "exec"},
             code = "Canceled" => n \in asked
      PROVE  ClientOK'
  <2> DEFINE u == Failed(code)
  <2>1. u \in TerminalMessages /\ ~u.cached /\ (u = Failed("Canceled") => n \in asked)
    <3>1. u \in TerminalMessages
      BY DEF TerminalMessages
    <3>2. ~u.cached /\ u.code = code
      BY DEF Failed
    <3>3. Failed("Canceled").code = "Canceled"
      BY DEF Failed
    <3> QED
      BY <1>4, <3>1, <3>2, <3>3
  <2>2. CacheAnswer(n, u)
    BY <2>1 DEF CacheAnswer
  <2>3. /\ run' = [run EXCEPT ![n] = "complete"] /\ response' = [response EXCEPT ![n] = u]
        /\ UNCHANGED <<opVars, cas, ac, action, skip, asked>>
    BY <1>4 DEF Finish, Goto
  <2> HIDE DEF u
  <2> QED
    BY <1>4, <2>1, <2>2, <2>3, FinishKeeps
<1>5. CASE FetchCommand(n)
  BY <1>4, <1>5, ContinueKeeps DEF FetchCommand, Failures
<1>6. CASE PublishExecuting(n)
  BY <1>6, ProgressKeeps, MessagesAreUpdates DEF PublishExecuting
<1>7. CASE RunReturns(n)
  <2>1. run[n] = "exec" /\ (cancelled[n] => n \in asked)
    BY <1>7 DEF RunReturns, ClientInv, ClientOK
  <2>2. ASSUME NEW e \in {0, 1}, NEW label \in {"put", "complete"}, Goto(n, label),
               response' = [response EXCEPT ![n] = Completed([exit |-> e, by |-> n], FALSE)],
               UNCHANGED <<opVars, cas, ac, action, skip, asked>>
        PROVE  ClientOK'
    <3> DEFINE u == Completed([exit |-> e, by |-> n], FALSE)
    <3>1. /\ u \in TerminalMessages
          /\ ~u.cached
          /\ u # Failed("Canceled")
      BY CompletedIsTerminal DEF Completed, Failed, Results
    <3>2. CacheAnswer(n, u)
      BY <3>1 DEF CacheAnswer
    <3>3. run' = [run EXCEPT ![n] = label] /\ response' = [response EXCEPT ![n] = u]
      BY <2>2 DEF Goto
    <3> HIDE DEF u
    <3> QED
      BY <2>1, <2>2, <3>1, <3>2, <3>3, FinishKeeps
  <2> QED
    BY <1>4, <1>7, <2>1, <2>2 DEF RunReturns, Failures
<1>8. CASE PutResult(n)
  <2>1. run[n] = "put" /\ run' = [run EXCEPT ![n] = "complete"]
    BY <1>8 DEF PutResult, Goto
  <2>2. UNCHANGED <<cas, action, skip, asked, cancelled, latest, issued, response>>
    BY <1>8 DEF PutResult, opVars, entryVars
  <2>3. ac' = [ac EXCEPT ![action[n]] = response[n].result] \/ UNCHANGED ac
    BY <1>8 DEF PutResult
  <2>4. response[n].result.by = n
    <3>1. response[n] = Completed([exit |-> 0, by |-> n], FALSE)
      BY <2>1 DEF ClientInv, ExecInv, CacheOK
    <3> QED
      BY <3>1 DEF Completed
  <2>5. \A a \in Actions : ac'[a] # Nil /\ ac'[a].by \in Names =>
          run'[ac'[a].by] \in {"complete", "exit", "done"}
    BY <1>1, <2>1, <2>3, <2>4 DEF ClientInv, ClientOK
  <2> QED
    BY <1>1, <2>1, <2>2, <2>5 DEF ClientInv, ClientOK, CacheAnswer
<1>9. CASE PublishResponse(n)
  <2>1. run[n] = "complete" /\ run' = [run EXCEPT ![n] = "exit"]
    BY <1>9 DEF PublishResponse, RunPublish, Goto
  <2>2. UNCHANGED <<cas, ac, action, skip, asked, cancelled, issued, response>>
    BY <1>9 DEF PublishResponse, RunPublish
  <2>3. latest' = [latest EXCEPT ![n] = response[n]] \/ UNCHANGED latest
    BY <1>9 DEF PublishResponse, RunPublish, publish, entryVars
  <2>4. \A m \in Names : latest'[m] = latest[m] \/ (m = n /\ latest'[m] = response[n])
    BY <1>1, <2>3
  <2> QED
    BY <1>1, <2>1, <2>2, <2>4 DEF ClientInv, ClientOK, CacheAnswer
<1>10. CASE RunExit(n)
  <2>1. run[n] = "exit" /\ run' = [run EXCEPT ![n] = "done"]
    BY <1>10 DEF RunExit, Goto
  <2>2. /\ UNCHANGED <<cas, ac, action, skip, asked, issued, response, latest>>
        /\ cancelled' = [cancelled EXCEPT ![n] = TRUE]
    BY <1>10 DEF RunExit, Release, entryVars
  <2>3. cancelled \in [Names -> BOOLEAN]
    BY DEF ClientInv, ExecInv, TypeOK
  <2> QED
    BY <1>1, <2>1, <2>2, <2>3 DEF ClientInv, ClientOK, CacheAnswer
<1> QED
  BY <1>2, <1>3, <1>5, <1>6, <1>7, <1>8, <1>9, <1>10 DEF RunAction

\* The other steps: a new operation, a client's own result, a client's cancellation,
\* the end of the process, and those that touch nothing of an execution.
LEMMA OtherClient ==
  ASSUME ClientInv, [ExecNext]_allVars, ~\E n \in Names : RunAction(n)
  PROVE  ClientOK'
<1>1. ASSUME NEW c \in Calls, NEW a \in Actions, NEW s \in BOOLEAN, Execute(c, a, s)
      PROVE  ClientOK'
  <2>1. PICK n \in Names :
          /\ n \notin issued /\ issued' = issued \cup {n}
          /\ run' = [run EXCEPT ![n] = "start"]
          /\ action' = [action EXCEPT ![n] = a] /\ skip' = [skip EXCEPT ![n] = s]
    BY <1>1 DEF Execute, Start, New
  <2>2. UNCHANGED <<cas, ac, asked, cancelled, response, latest>>
    BY <1>1 DEF Execute, Start, entryVars
  <2>3. /\ run[n] = "none" /\ run \in [Names -> RunLabels]
        /\ action \in [Names -> Actions \cup {Nil}] /\ skip \in [Names -> BOOLEAN]
    BY <2>1 DEF ClientInv, ClientOK, ExecInv, RunOK, CacheOK
  <2>4. ASSUME NEW m \in Names, NEW u, m # n, CacheAnswer(m, u) PROVE CacheAnswer(m, u)'
    BY <2>1, <2>3, <2>4 DEF CacheAnswer
  <2> QED
    BY <2>1, <2>2, <2>3, <2>4 DEF ClientInv, ClientOK
<1>2. ASSUME NEW a \in Actions, NEW e \in {0, 1}, UpdateActionResult(a, e)
      PROVE  ClientOK'
  <2>1. /\ ac' = [ac EXCEPT ![a] = [exit |-> e, by |-> Client]]
        /\ UNCHANGED <<cas, asked, cancelled, response, latest, run, action, skip, issued>>
        /\ ac \in [Actions -> Results \cup {Nil}]
    BY <1>2 DEF UpdateActionResult, opVars, entryVars, ClientInv, ExecInv, CacheOK
  <2>2. \A b \in Actions : ac'[b] # Nil /\ ac'[b].by \in Names => ac'[b] = ac[b]
    BY <2>1, ExecutionAssumption
  <2> QED
    BY <2>1, <2>2 DEF ClientInv, ClientOK, CacheAnswer
<1>3. ASSUME NEW n \in Names, ExecCancel(n) PROVE ClientOK'
  <2>1. /\ cancelled' = [cancelled EXCEPT ![n] = TRUE] /\ asked' = asked \cup {n}
        /\ UNCHANGED <<cas, ac, response, latest, run, action, skip, issued>>
        /\ cancelled \in [Names -> BOOLEAN]
    BY <1>3 DEF ExecCancel, CancelOperation, entryVars, ClientInv, ExecInv, TypeOK
  <2> QED
    BY <2>1 DEF ClientInv, ClientOK, CacheAnswer
<1>4. CASE ExecCrash
  <2>1. /\ run' = [n \in Names |-> IF n \in entries THEN "done" ELSE run[n]]
        /\ UNCHANGED <<cas, ac, asked, cancelled, response, latest, action, skip, issued>>
    BY <1>4 DEF ExecCrash, Crash, entryVars
  <2>2. \A n \in Names : run'[n] = "done" \/ run'[n] = run[n]
    BY <2>1
  <2> QED
    BY <2>1, <2>2 DEF ClientInv, ClientOK, CacheAnswer
<1>5. ASSUME NEW b \in Actions \cup Commands, Upload(b) PROVE ClientOK'
  <2>1. /\ cas' = cas \cup {b}
        /\ UNCHANGED <<ac, asked, cancelled, response, latest, run, action, skip, issued>>
    BY <1>5 DEF Upload, opVars, entryVars
  <2> QED
    BY <2>1 DEF ClientInv, ClientOK, CacheAnswer
<1>6. ASSUME \/ \E c \in Calls, a \in Actions : ExecuteRejected(c, a)
             \/ \E c \in Calls : ExecDisconnect(c)
             \/ \E c \in Calls : Step(c) /\ UNCHANGED execVars
             \/ \E c \in Calls, n \in Names, k \in Kinds :
                  Lookup(c, k, n) /\ UNCHANGED execVars
             \/ \E n \in Names : DeleteOperation(n) /\ UNCHANGED execVars
             \/ ListOperations /\ UNCHANGED execVars
             \/ UNCHANGED allVars
      PROVE  ClientOK'
  <2>1. UNCHANGED <<cas, ac, asked, cancelled, response, latest, run, action, skip, issued>>
    BY <1>6 DEF ExecuteRejected, Reject, ExecDisconnect, Disconnect, Step, Snapshot, Send,
       Abandon, Wake, Return, Lookup, DeleteOperation, ListOperations, opVars, entryVars,
       execVars, allVars
  <2> QED
    BY <2>1 DEF ClientInv, ClientOK, CacheAnswer
<1> QED
  BY <1>1, <1>2, <1>3, <1>4, <1>5, <1>6 DEF ExecNext

\* The invariant is inductive, and holds throughout.
LEMMA AlwaysClientInv == ExecSafetySpec => []ClientInv
<1>1. ExecInit => ClientInv
  BY ExecInitInv, ExecInitClient DEF ClientInv
<1>2. ClientInv /\ [ExecNext]_allVars => ClientInv'
  BY ExecNextInv, RunActionClient, OtherClient DEF ClientInv
<1> QED
  BY <1>1, <1>2, PTL DEF ExecSafetySpec

-----------------------------------------------------------------------------
(* The theorems *)

\* The invariant holds throughout.
LEMMA AlwaysExecInv == ExecSafetySpec => []ExecInv
BY ExecInitInv, ExecNextInv, PTL DEF ExecSafetySpec

\* Execute and runAction use the manager as it is meant to be used: an execution is
\* a behaviour of Operations, and has every property that is proved of it.
THEOREM ExecutionUsesManager == ExecSafetySpec => ManagerSafety
<1>1. ExecInit => Init
  BY DEF ExecInit
<1>2. ExecInv /\ [ExecNext]_allVars => [Next]_opVars
  BY ExecStepIsManagerStep DEF ExecInv
<1> QED
  BY AlwaysExecInv, <1>1, <1>2, PTL DEF ExecSafetySpec, ManagerSafety, SafetySpec

\* Nothing but the success of a cacheable action gets from an execution into the
\* Action Cache, whatever clients upload, cancel, or leave.
THEOREM CacheIsSound == ExecSafetySpec => []CacheHoldsSuccesses
<1>1. ExecInv => CacheHoldsSuccesses
  BY DEF ExecInv
<1> QED
  BY AlwaysExecInv, <1>1, PTL

\* A client that waits for an execution has missed no update of it.
THEOREM ExecutionLosesNoWakeup == ExecSafetySpec => []NoLostWakeup
BY ExecutionUsesManager, NoWakeupIsLost, PTL DEF ManagerSafety

\* The shape of the state: every operation has one runAction, whose entry is there
\* for as long as it runs.
THEOREM ExecTypeCorrect == ExecSafetySpec => []ExecTypeOK
<1>1. ClientInv => ExecTypeOK
  BY MessagesAreUpdates DEF ClientInv, ClientOK, ExecInv, RunOK, CacheOK, ExecTypeOK
<1> QED
  BY AlwaysClientInv, <1>1, PTL

\* No client is given a cached result that it had excluded, or one of another
\* action or of a failure, unless a client uploaded it.
THEOREM CachedIsSound == ExecSafetySpec => []CachedResponseSound
<1>1. ClientInv => CachedResponseSound
  BY DEF ClientInv, ClientOK, CachedResponseSound, CacheAnswer
<1> QED
  BY AlwaysClientInv, <1>1, PTL

\* No stream that breaks, operation that is deleted or context that is released
\* makes an operation end as Canceled: only CancelOperation does.
THEOREM CanceledIsAsked == ExecSafetySpec => []CanceledOnlyIfAsked
<1>1. Failed("Canceled") \in TerminalMessages
  BY DEF TerminalMessages, Failures
<1>2. ClientInv => CanceledOnlyIfAsked
  BY <1>1 DEF ClientInv, ClientOK, CanceledOnlyIfAsked
<1> QED
  BY AlwaysClientInv, <1>2, PTL

\* A client of an execution is a watcher as Watch describes it.
THEOREM ExecutionRefinesWatch == ExecSafetySpec => W!SafetySpec
BY ExecutionUsesManager, StreamsRefineWatch, PTL DEF ManagerSafety

-----------------------------------------------------------------------------
(* The stages that a client sees *)

\* The update is the operation's latest, or of an earlier stage.
Behind(u, n) == u = latest[n] \/ StageRank(u) < StageRank(latest[n])

\* A stream has sent, and is about to send, nothing that is ahead of its operation;
\* what it is about to send is ahead of what it has sent. The other calls send once.
CallStage(c) ==
  /\ pc[c] \in Running =>
       IF kind[c] = "stream" THEN Behind(sent[c], name[c]) ELSE sent[c] = Nil
  /\ pc[c] = "send" =>
       Behind(snap[c].op, name[c]) /\ StageRank(sent[c]) < StageRank(snap[c].op)

StagesOK ==
  /\ \A n \in Names : latest[n] \in published[n] \cup {Nil}
  /\ \A c \in Calls : CallStage(c)

\* An operation's latest update is only replaced by one of a later stage.
LatestRises ==
  \A n \in Names : latest'[n] = latest[n] \/ StageRank(latest[n]) < StageRank(latest'[n])

\* Ranks are numbers, and only the absence of an update has the lowest.
LEMMA RankBounds ==
  ASSUME NEW u
  PROVE  StageRank(u) \in 0..3 /\ (StageRank(u) = 0 <=> u = Nil)
<1>1. u = Nil => StageRank(u) = 0
  BY DEF StageRank
<1>2. u # Nil => StageRank(u) \in 1..3
  BY DEF StageRank
<1> QED
  BY <1>1, <1>2

\* The ranks of the messages.
LEMMA RankOfMessages ==
  /\ StageRank(Progress("CACHE_CHECK")) = 1
  /\ StageRank(Progress("EXECUTING")) = 2
  /\ \A u \in TerminalMessages : StageRank(u) = 3
<1>1. ASSUME NEW u, u # Nil
      PROVE  /\ u.stage = "CACHE_CHECK" => StageRank(u) = 1
             /\ u.stage = "EXECUTING" => StageRank(u) = 2
             /\ u.stage = "COMPLETED" => StageRank(u) = 3
  BY <1>1 DEF StageRank
<1>2. \A u \in ProgressMessages \cup TerminalMessages : u # Nil
  BY MessagesAreUpdates, UpdatesAssumption
<1>3. /\ Progress("CACHE_CHECK").stage = "CACHE_CHECK"
      /\ Progress("EXECUTING").stage = "EXECUTING"
      /\ \A u \in TerminalMessages : u.stage = "COMPLETED"
  BY DEF Progress, TerminalMessages, Completed, Failed
<1> HIDE DEF StageRank
<1> QED
  BY <1>1, <1>2, <1>3, MessagesAreUpdates

\* runAction publishes its stages in order.
LEMMA ExecRises ==
  ASSUME ExecInv, StagesOK, [ExecNext]_allVars
  PROVE  LatestRises
<1> USE RankOfMessages, RankBounds
<1>1. ASSUME NEW n \in Names, NEW u, NEW label, RunPublish(n, u, label),
             StageRank(latest[n]) < StageRank(u)
      PROVE  LatestRises
  <2>1. latest' = latest \/ latest' = [latest EXCEPT ![n] = u]
    BY <1>1 DEF RunPublish, publish, entryVars
  <2>2. latest \in [Names -> Message]
    BY DEF ExecInv, TypeOK
  <2> QED
    BY <1>1, <2>1, <2>2 DEF LatestRises
<1>2. ASSUME NEW n \in Names, RunAction(n) PROVE LatestRises
  <2>1. latest[n] \in published[n] \cup {Nil}
    BY DEF StagesOK
  <2>2. CASE PublishCacheCheck(n)
    <3>1. latest[n] = Nil
      BY <2>1, <2>2 DEF PublishCacheCheck, ExecInv, RunOK
    <3> QED
      BY <1>1, <2>2, <3>1 DEF PublishCacheCheck
  <2>3. CASE PublishExecuting(n)
    <3>1. latest[n] \in {Nil, Progress("CACHE_CHECK")}
      BY <2>1, <2>3 DEF PublishExecuting, ExecInv, RunOK
    <3>2. StageRank(latest[n]) <= 1
      BY <3>1
    <3> QED
      BY <1>1, <2>3, <3>2 DEF PublishExecuting
  <2>4. CASE PublishResponse(n)
    <3>1. latest[n] \in ProgressMessages \cup {Nil} /\ response[n] \in TerminalMessages
      BY <2>1, <2>4 DEF PublishResponse, ExecInv, RunOK
    <3>2. StageRank(latest[n]) <= 2
      BY <3>1 DEF ProgressMessages
    <3> QED
      BY <1>1, <2>4, <3>1, <3>2 DEF PublishResponse
  <2>5. CASE RunExit(n)
    BY <2>5 DEF RunExit, Release, entryVars, LatestRises
  <2>6. CASE LookupResult(n) \/ FetchCommand(n) \/ RunReturns(n) \/ PutResult(n)
    BY <2>6 DEF LookupResult, FetchCommand, RunReturns, PutResult, Finish, Continue,
       opVars, entryVars, LatestRises
  <2> QED
    BY <1>2, <2>2, <2>3, <2>4, <2>5, <2>6 DEF RunAction
<1>3. ASSUME ~\E n \in Names : RunAction(n) PROVE latest' = latest
  BY <1>3 DEF ExecNext, Execute, Start, ExecuteRejected, Reject, ExecCancel,
     CancelOperation, ExecDisconnect, Disconnect, Step, Snapshot, Send, Abandon, Wake,
     Return, Lookup, DeleteOperation, ListOperations, Upload, UpdateActionResult,
     ExecCrash, Crash, opVars, entryVars, allVars
<1> QED
  BY <1>2, <1>3 DEF LatestRises

\* Only publish changes what an entry has been given, and it is the latest then.
LEMMA LatestIsPublished ==
  ASSUME TypeOK, [Next]_opVars, NEW n \in Names, latest[n] \in published[n] \cup {Nil}
  PROVE  latest'[n] \in published'[n] \cup {Nil}
<1>1. ASSUME NEW m \in Names, NEW u \in Updates, Publish(m, u)
      PROVE  latest'[n] \in published'[n] \cup {Nil}
  BY <1>1 DEF Publish, publish, entryVars, TypeOK
<1>2. ASSUME ~\E m \in Names, u \in Updates : Publish(m, u)
      PROVE  UNCHANGED <<latest, published>>
  BY <1>2 DEF Next, Step, Snapshot, Send, Abandon, Wake, Return, Disconnect, Start,
     Reject, Lookup, DeleteOperation, CancelOperation, Release, ListOperations,
     Crash, entryVars, opVars
<1> QED
  BY <1>1, <1>2

\* What a call has been given is replaced by something of a later stage.
SentRises(c) == sent'[c] # sent[c] => StageRank(sent[c]) < StageRank(sent'[c])

\* The step is not the call's own, but may wake it or end it.
Elsewhere(c) ==
  /\ kind'[c] = kind[c] /\ name'[c] = name[c] /\ sent'[c] = sent[c] /\ snap'[c] = snap[c]
  /\ \/ pc'[c] = pc[c]
     \/ pc'[c] = "snapshot" /\ pc[c] = "select"
     \/ pc'[c] \notin Running

\* It leaves the call behind its operation.
LEMMA ElsewhereKeeps ==
  ASSUME IndInv, StagesOK, LatestRises, NEW c \in Calls, Elsewhere(c)
  PROVE  CallStage(c)' /\ SentRises(c)
<1>1. pc[c] \in Running => name[c] \in Names
  BY DEF IndInv, CallOK
<1>2. ASSUME NEW u, pc[c] \in Running, Behind(u, name[c])
      PROVE  u = latest'[name[c]] \/ StageRank(u) < StageRank(latest'[name[c]])
  <2> USE RankBounds
  <2> HIDE DEF StageRank
  <2> QED
    BY <1>1, <1>2 DEF Behind, LatestRises
<1>3. CallStage(c)
  BY DEF StagesOK
<1>4. CallStage(c)'
  BY <1>2, <1>3 DEF Elsewhere, CallStage, Behind, Running
<1> QED
  BY <1>4 DEF Elsewhere, SentRises

\* What a snapshot finds is the operation's latest update, of a later stage than
\* what the call has sent unless it is the same.
LEMMA SnapshotKeepsStage ==
  ASSUME IndInv, StagesOK, NEW c \in Calls, Snapshot(c)
  PROVE  CallStage(c)' /\ SentRises(c)
<1> DEFINE n == name[c]
           s == snapshot(n)
<1>1. /\ pc[c] = "snapshot" /\ n \in Names /\ s.op = latest[n]
      /\ s.done => s.op \in Terminal
      /\ UNCHANGED <<latest, kind, name>>
      /\ snap' = [snap EXCEPT ![c] = s]
      /\ StreamSnapshot(c, s) \/ WaitSnapshot(c, s) \/ GetSnapshot(c, s)
  BY DEF Snapshot, IndInv, CallOK, EntryOK, Running, entryVars, snapshot
<1>2. CallStage(c)
  BY DEF StagesOK
<1> HIDE DEF s
<1>3. snap'[c] = s
  BY <1>1 DEF IndInv, TypeOK
<1>4. /\ s.op # Nil => StageRank(Nil) < StageRank(s.op)
      /\ s.op \in Terminal => s.op # Nil
  BY RankBounds, UpdatesAssumption
<1>5. CASE StreamSnapshot(c, s)
  <2>1. /\ kind[c] = "stream" /\ sent' = sent /\ Behind(sent[c], n)
        /\ pc'[c] = IF s.op \in {Nil, sent[c]} THEN "select" ELSE "send"
    BY <1>1, <1>2, <1>5 DEF StreamSnapshot, CallStage, Running, IndInv, TypeOK
  <2>2. pc'[c] = "send" => StageRank(sent[c]) < StageRank(s.op)
    BY <1>1, <2>1 DEF Behind
  <2> QED
    BY <1>1, <1>3, <2>1, <2>2 DEF CallStage, SentRises, Behind
<1>6. CASE WaitSnapshot(c, s)
  <2>1. /\ kind[c] = "wait" /\ sent[c] = Nil
        /\ \/ pc'[c] = "OK" /\ s.op \in Terminal /\ sent'[c] = s.op
           \/ pc'[c] = "select" /\ sent' = sent
    BY <1>1, <1>2, <1>6 DEF WaitSnapshot, Answer, CallStage, Running, IndInv, TypeOK
  <2> QED
    BY <1>1, <1>4, <2>1 DEF CallStage, SentRises, Running
<1>7. CASE GetSnapshot(c, s)
  <2>1. /\ kind[c] = "get" /\ sent[c] = Nil
        /\ \/ pc'[c] = "OK" /\ s.op # Nil /\ sent'[c] = s.op
           \/ pc'[c] = "NotFound" /\ sent' = sent
    BY <1>1, <1>2, <1>7 DEF GetSnapshot, Answer, CallStage, Running, IndInv, TypeOK
  <2> QED
    BY <1>1, <1>4, <2>1 DEF CallStage, SentRises, Running
<1> QED
  BY <1>1, <1>5, <1>6, <1>7

\* A send catches up with the snapshot.
LEMMA SendKeepsStage ==
  ASSUME IndInv, StagesOK, NEW c \in Calls, Send(c)
  PROVE  CallStage(c)' /\ SentRises(c)
<1>1. /\ pc[c] = "send" /\ kind[c] = "stream" /\ CallStage(c)
      /\ UNCHANGED <<latest, kind, name, snap>>
      /\ sent'[c] = snap[c].op
      /\ pc'[c] \in {"OK", "select"}
  BY DEF Send, Answer, StagesOK, IndInv, SnapshotOK, TypeOK, entryVars
<1>2. Behind(snap[c].op, name[c]) /\ StageRank(sent[c]) < StageRank(snap[c].op)
  BY <1>1 DEF CallStage
<1> QED
  BY <1>1, <1>2 DEF CallStage, SentRises, Behind

\* A call begins with nothing sent.
LEMMA BeginKeepsStage ==
  ASSUME IndInv, NEW c \in Calls,
         \/ \E n \in Names : Start(c, n)
         \/ \E code \in Refusals : Reject(c, code)
         \/ \E n \in Names, k \in Kinds : Lookup(c, k, n)
  PROVE  CallStage(c)' /\ SentRises(c)
<1>1. sent[c] = Nil /\ sent' = sent
  BY DEF Start, Reject, Refuse, Lookup, Follow, IndInv, CallOK
<1>2. pc'[c] \in {"snapshot", "NotFound"} \cup Refusals
  BY DEF Start, Reject, Refuse, Lookup, Follow, IndInv, TypeOK
<1>3. Nil = latest'[name'[c]] \/ StageRank(Nil) < StageRank(latest'[name'[c]])
  BY RankBounds
<1> QED
  BY <1>1, <1>2, <1>3 DEF CallStage, SentRises, Behind, Refusals

\* Every step of the manager keeps its streams behind their operations, in order.
LEMMA CallsKeepStages ==
  ASSUME IndInv, StagesOK, LatestRises, [Next]_opVars
  PROVE  StagesOK' /\ \A c \in Calls : SentRises(c)
<1>1. TypeOK
  BY DEF IndInv
<1>2. \A n \in Names : latest'[n] \in published'[n] \cup {Nil}
  BY <1>1, LatestIsPublished DEF StagesOK
<1>3. ASSUME NEW c \in Calls PROVE CallStage(c)' /\ SentRises(c)
  <2>1. CASE Elsewhere(c)
    BY <2>1, ElsewhereKeeps
  <2>2. CASE Quiet
    BY <2>1, <2>2 DEF Quiet, Elsewhere, Running
  <2>3. ASSUME NEW n \in Names, NEW u \in Updates, Publish(n, u)
        PROVE  Elsewhere(c)
    BY <2>3 DEF Publish, callVars, Elsewhere
  <2>4. ASSUME NEW d \in Calls,
               \/ Snapshot(d) \/ Send(d)
               \/ \E n \in Names : Start(d, n)
               \/ \E code \in Refusals : Reject(d, code)
               \/ \E n \in Names, k \in Kinds : Lookup(d, k, n)
        PROVE  CallStage(c)' /\ SentRises(c)
    <3>1. CASE d = c
      BY <2>4, <3>1, SnapshotKeepsStage, SendKeepsStage, BeginKeepsStage
    <3>2. CASE d # c
      <4>1. Elsewhere(c)
        BY <1>1, <2>4, <3>2 DEF Snapshot, StreamSnapshot, WaitSnapshot, GetSnapshot, Answer,
           Send, Start, Reject, Refuse, Lookup, Follow, TypeOK, Elsewhere
      <4> QED
        BY <2>1, <4>1
    <3> QED
      BY <3>1, <3>2
  <2> QED
    BY <1>1, <2>1, <2>2, <2>3, <2>4, OthersAreQuiet DEF Next, Step
<1> QED
  BY <1>2, <1>3 DEF StagesOK

\* A client sees the stages in order, each at most once, however late it comes,
\* however slowly it reads and whatever it misses.
THEOREM StagesAreInOrder == ExecSafetySpec => StagesInOrder
<1>1. ExecInit => StagesOK
  BY DEF ExecInit, Init, StagesOK, CallStage, Running
<1>2. IndInv /\ ExecInv /\ StagesOK /\ [ExecNext]_allVars =>
        StagesOK' /\ \A c \in Calls : SentRises(c)
  BY ExecStepIsManagerStep, ExecRises, CallsKeepStages DEF ExecInv
<1>3. (\A c \in Calls : SentRises(c)) =>
        [\A c \in Calls :
           sent'[c] # sent[c] => StageRank(sent[c]) < StageRank(sent'[c])]_allVars
  BY DEF SentRises
<1>4. ExecSafetySpec => []IndInv
  BY ExecutionUsesManager, AlwaysIndInv, PTL DEF ManagerSafety
<1> QED
  BY <1>1, <1>2, <1>3, <1>4, AlwaysExecInv, PTL DEF ExecSafetySpec, StagesInOrder

=============================================================================
