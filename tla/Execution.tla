----------------------------- MODULE Execution ------------------------------
(***************************************************************************)
(* internal/server/execution.go and actioncache.go: Execute, the goroutine *)
(* runAction that it leaves behind for each operation, and the Action      *)
(* Cache that the two services share. runAction is the publisher that      *)
(* Operations leaves open.                                                 *)
(*                                                                         *)
(* A call of the store is one step: it takes effect, or fails, whatever    *)
(* the state of its context (S3Store fails once that is cancelled,         *)
(* MemStore never looks at it), and what it reads may fail to decode. The  *)
(* Runner is the interface of server.go: what it can return, nothing else. *)
(* There is one, and digests are well-formed: Execute and the Action Cache *)
(* turn other requests away at once.                                       *)
(***************************************************************************)
EXTENDS Operations, FiniteSets

CONSTANTS
  Actions,     \* action digests
  Commands,    \* command digests
  CommandOf,   \* the command of each action
  DoNotCache,  \* the actions with do_not_cache set
  Client       \* the author of an ActionResult that a client has uploaded

VARIABLES
  cas,         \* the blobs in the Content Addressable Store
  ac,          \* the Action Cache
  action,      \* the action of each operation
  skip,        \* its skip_cache_lookup
  run,         \* where its runAction is
  response,    \* the Operation message that runAction will publish at the end
  asked        \* history: the operations that a client has cancelled

execVars == <<cas, ac, action, skip, run, response, asked>>
allVars == <<opVars, execVars>>

\* An ActionResult is told apart by its exit code and by who produced it.
Results == [exit: {0, 1}, by: Names \cup {Client}]

\* operation(), completed() and failed().
Progress(stage) == [stage |-> stage, code |-> "OK", cached |-> FALSE, result |-> Nil]
Completed(r, hit) == [stage |-> "COMPLETED", code |-> "OK", cached |-> hit, result |-> r]
Failed(code) == [stage |-> "COMPLETED", code |-> code, cached |-> FALSE, result |-> Nil]

Failures == {"FailedPrecondition", "Internal", "Canceled"}
ProgressMessages == {Progress(s) : s \in {"CACHE_CHECK", "EXECUTING"}}
TerminalMessages ==
  {Completed(r, hit) : r \in Results, hit \in BOOLEAN} \cup {Failed(code) : code \in Failures}

ASSUME ExecutionAssumption ==
  /\ CommandOf \in [Actions -> Commands]
  /\ DoNotCache \subseteq Actions
  /\ Client \notin Names
  /\ Nil \notin Results \cup Actions
  /\ Terminal = TerminalMessages
  /\ Updates = ProgressMessages \cup TerminalMessages

ExecInit ==
  /\ Init
  /\ cas = {}
  /\ ac = [a \in Actions |-> Nil]
  /\ action = [n \in Names |-> Nil]
  /\ skip = [n \in Names |-> FALSE]
  /\ run = [n \in Names |-> "none"]
  /\ response = [n \in Names |-> Nil]
  /\ asked = {}

-----------------------------------------------------------------------------
(* Execute *)

\* fetchAction reads and decodes the action within the call, which fails before
\* there is an operation if that fails.
ExecuteRejected(c, a) ==
  /\ \/ a \notin cas /\ Reject(c, "FailedPrecondition")
     \/ Reject(c, "Internal")
  /\ UNCHANGED execVars

\* Faulty Execute: the operation is registered and nothing runs it.
ExecuteWithoutRun(c, a, s) ==
  /\ a \in cas
  /\ \E n \in Names :
       /\ Start(c, n)
       /\ action' = [action EXCEPT ![n] = a]
       /\ skip' = [skip EXCEPT ![n] = s]
  /\ UNCHANGED <<cas, ac, run, response, asked>>

Execute(c, a, s) ==
  /\ a \in cas
  /\ \E n \in Names :
       /\ Start(c, n)
       /\ action' = [action EXCEPT ![n] = a]
       /\ skip' = [skip EXCEPT ![n] = s]
       /\ run' = [run EXCEPT ![n] = "start"]
  /\ UNCHANGED <<cas, ac, response, asked>>

-----------------------------------------------------------------------------
(* runAction, from one call of the store, the Runner or publish to the next *)

Goto(n, label) == run' = [run EXCEPT ![n] = label]

RunPublish(n, u, label) ==
  /\ publish(n, u)
  /\ Goto(n, label)
  /\ UNCHANGED <<issued, entries, registered, cancelled, known, callVars,
                 cas, ac, action, skip, response, asked>>

Finish(n, u) ==
  /\ Goto(n, "complete")
  /\ response' = [response EXCEPT ![n] = u]
  /\ UNCHANGED <<opVars, cas, ac, action, skip, asked>>

Continue(n, label) ==
  /\ Goto(n, label)
  /\ UNCHANGED <<opVars, cas, ac, action, skip, response, asked>>

\* Faulty MayLookup: do_not_cache only stops results from being stored.
MayLookupUnlessSkipped(n) == ~skip[n]

MayLookup(n) == ~skip[n] /\ action[n] \notin DoNotCache

PublishCacheCheck(n) ==
  /\ run[n] = "start"
  /\ RunPublish(n, Progress("CACHE_CHECK"), IF MayLookup(n) THEN "lookup" ELSE "fetch")

\* Any error of GetActionResult is a miss, not only NotFound.
LookupResult(n) ==
  /\ run[n] = "lookup"
  /\ \/ ac[action[n]] # Nil /\ Finish(n, Completed(ac[action[n]], TRUE))
     \/ Continue(n, "fetch")

\* Any error of Get is FailedPrecondition, not only NotFound.
FetchCommand(n) ==
  /\ run[n] = "fetch"
  /\ LET cmd == CommandOf[action[n]]
     IN  \/ cmd \in cas /\ Continue(n, "executing")
         \/ cmd \in cas /\ Finish(n, Failed("Internal"))
         \/ Finish(n, Failed("FailedPrecondition"))

PublishExecuting(n) ==
  /\ run[n] = "executing"
  /\ RunPublish(n, Progress("EXECUTING"), "exec")

\* Faulty RunReturns: what a failed command leaves is put into the cache.
RunReturnsCachingAll(n) ==
  /\ run[n] = "exec"
  /\ \E e \in {0, 1} :
       /\ Goto(n, IF action[n] \notin DoNotCache THEN "put" ELSE "complete")
       /\ response' = [response EXCEPT ![n] = Completed([exit |-> e, by |-> n], FALSE)]
       /\ UNCHANGED <<opVars, cas, ac, action, skip, asked>>

\* Faulty RunReturns: do_not_cache only keeps results from being looked up.
RunReturnsCachingForbidden(n) ==
  /\ run[n] = "exec"
  /\ \E e \in {0, 1} :
       /\ Goto(n, IF e = 0 THEN "put" ELSE "complete")
       /\ response' = [response EXCEPT ![n] = Completed([exit |-> e, by |-> n], FALSE)]
       /\ UNCHANGED <<opVars, cas, ac, action, skip, asked>>

\* Faulty RunReturns: an infrastructure error starts the operation over.
RunReturnsRetrying(n) ==
  /\ run[n] = "exec"
  /\ \/ Finish(n, Completed([exit |-> 0, by |-> n], FALSE))
     \/ Continue(n, "start")

\* Faulty RunReturns: the error for a cancelled operation is not published.
RunReturnsSilently(n) ==
  /\ run[n] = "exec"
  /\ \/ Finish(n, Completed([exit |-> 0, by |-> n], FALSE))
     \/ cancelled[n] /\ Continue(n, "exit")

\* exec.Run returns an ActionResult or an error. The error wraps
\* context.Canceled only if the context is cancelled, and need not even then.
RunReturns(n) ==
  /\ run[n] = "exec"
  /\ \/ \E e \in {0, 1} :
          /\ Goto(n, IF action[n] \notin DoNotCache /\ e = 0 THEN "put" ELSE "complete")
          /\ response' = [response EXCEPT ![n] = Completed([exit |-> e, by |-> n], FALSE)]
          /\ UNCHANGED <<opVars, cas, ac, action, skip, asked>>
     \/ Finish(n, Failed("Internal"))
     \/ cancelled[n] /\ Finish(n, Failed("Canceled"))

\* Faulty PutResult: a cache that cannot be written fails the operation.
PutResultOrFail(n) ==
  /\ run[n] = "put"
  /\ \/ ac' = [ac EXCEPT ![action[n]] = response[n].result] /\ UNCHANGED response
     \/ response' = [response EXCEPT ![n] = Failed("Internal")] /\ UNCHANGED ac
  /\ Goto(n, "complete")
  /\ UNCHANGED <<opVars, cas, action, skip, asked>>

\* Caching is best-effort: the response is the same if it fails.
PutResult(n) ==
  /\ run[n] = "put"
  /\ \/ ac' = [ac EXCEPT ![action[n]] = response[n].result]
     \/ UNCHANGED ac
  /\ Goto(n, "complete")
  /\ UNCHANGED <<opVars, cas, action, skip, response, asked>>

PublishResponse(n) ==
  /\ run[n] = "complete"
  /\ RunPublish(n, response[n], "exit")

RunExit(n) ==
  /\ run[n] = "exit"
  /\ Release(n)
  /\ Goto(n, "done")
  /\ UNCHANGED <<cas, ac, action, skip, response, asked>>

RunAction(n) ==
  \/ PublishCacheCheck(n) \/ LookupResult(n) \/ FetchCommand(n) \/ PublishExecuting(n)
  \/ RunReturns(n) \/ PutResult(n) \/ PublishResponse(n) \/ RunExit(n)

-----------------------------------------------------------------------------
(* Clients, and the end of the process *)

\* A client puts a blob into the CAS (see cas_service.go).
Upload(b) ==
  /\ b \notin cas
  /\ cas' = cas \cup {b}
  /\ UNCHANGED <<opVars, ac, action, skip, run, response, asked>>

UpdateActionResult(a, e) ==
  /\ ac' = [ac EXCEPT ![a] = [exit |-> e, by |-> Client]]
  /\ UNCHANGED <<opVars, cas, action, skip, run, response, asked>>

ExecCancel(n) ==
  /\ CancelOperation(n)
  /\ asked' = asked \cup {n}
  /\ UNCHANGED <<cas, ac, action, skip, run, response>>

\* Faulty ExecDisconnect: runAction is given the context of the client's stream.
DisconnectCancels(c) ==
  /\ pc[c] \in Running
  /\ ~gone[c]
  /\ gone' = [gone EXCEPT ![c] = TRUE]
  /\ cancelled' = [cancelled EXCEPT ![name[c]] = TRUE]
  /\ UNCHANGED <<issued, entries, registered, entryVars, known, kind, pc, name,
                 snap, sent, execVars>>

ExecDisconnect(c) == Disconnect(c) /\ UNCHANGED execVars

\* The goroutines end with the process; the bucket stays.
ExecCrash ==
  /\ Crash
  /\ run' = [n \in Names |-> IF n \in entries THEN "done" ELSE run[n]]
  /\ UNCHANGED <<cas, ac, action, skip, response, asked>>

ExecNext ==
  \/ \E c \in Calls, a \in Actions, s \in BOOLEAN : Execute(c, a, s)
  \/ \E c \in Calls, a \in Actions : ExecuteRejected(c, a)
  \/ \E n \in Names : RunAction(n) \/ ExecCancel(n)
  \/ \E c \in Calls : ExecDisconnect(c)
  \/ \E c \in Calls : Step(c) /\ UNCHANGED execVars
  \/ \E c \in Calls, n \in Names, k \in Kinds :
       Lookup(c, k, n) /\ UNCHANGED execVars
  \/ \E n \in Names : DeleteOperation(n) /\ UNCHANGED execVars
  \/ ListOperations /\ UNCHANGED execVars
  \/ \E b \in Actions \cup Commands : Upload(b)
  \/ \E a \in Actions, e \in {0, 1} : UpdateActionResult(a, e)
  \/ ExecCrash

ExecSafetySpec == ExecInit /\ [][ExecNext]_allVars

\* Goroutines run when they can. That exec.Run returns is the Runner's promise;
\* Microvm says on what it rests.
ExecSpec ==
  /\ ExecSafetySpec
  /\ \A c \in Calls : WF_allVars(Step(c) /\ UNCHANGED execVars)
  /\ \A n \in Names : WF_allVars(RunAction(n))

-----------------------------------------------------------------------------
(* Properties *)

RunLabels == {"none", "start", "lookup", "fetch", "executing", "exec", "put",
              "complete", "exit", "done"}

\* The shape of the state. A runAction that runs has its entry in memory, and one
\* that is to store or publish its response has one.
ExecTypeOK ==
  /\ TypeOK
  /\ cas \subseteq Actions \cup Commands
  /\ ac \in [Actions -> Results \cup {Nil}]
  /\ action \in [Names -> Actions \cup {Nil}]
  /\ skip \in [Names -> BOOLEAN]
  /\ run \in [Names -> RunLabels]
  /\ response \in [Names -> TerminalMessages \cup {Nil}]
  /\ asked \subseteq Names
  /\ \A n \in Names :
       /\ run[n] = "none" <=> n \notin issued
       /\ run[n] # "none" => action[n] \in Actions
       /\ run[n] \notin {"none", "done"} => n \in entries
       /\ run[n] \in {"put", "complete"} => response[n] # Nil

\* What an execution leaves in the Action Cache is the result of a command that
\* succeeded, of the action it is filed under, which allows it.
CacheHoldsSuccesses ==
  \A a \in Actions :
    ac[a] # Nil /\ ac[a].by \in Names =>
      /\ ac[a].exit = 0
      /\ action[ac[a].by] = a
      /\ a \notin DoNotCache

\* A client that is given a cached result asked for one, and got a success of the
\* same action from another operation, or what a client had uploaded.
CachedResponseSound ==
  \A n \in Names :
    LET u == latest[n]
    IN  u \in TerminalMessages /\ u.cached =>
          /\ ~skip[n]
          /\ action[n] \notin DoNotCache
          /\ u.result.by \in Names =>
               u.result.by # n /\ u.result.exit = 0 /\ action[u.result.by] = action[n]

\* An operation ends as Canceled only if a client cancelled it by name. Neither
\* Execute's stream nor any other call takes the action down with it: runAction
\* has a context of its own.
CanceledOnlyIfAsked ==
  \A n \in Names : latest[n] = Failed("Canceled") => n \in asked

StageRank(u) ==
  IF u = Nil THEN 0
  ELSE CASE u.stage = "CACHE_CHECK" -> 1 [] u.stage = "EXECUTING" -> 2 [] OTHER -> 3

\* A client that follows an operation sees its stages in order, each at most
\* once: CACHE_CHECK, EXECUTING, COMPLETED.
StagesInOrder ==
  [][\A c \in Calls :
       sent'[c] # sent[c] => StageRank(sent[c]) < StageRank(sent'[c])]_allVars

\* The manager under Execute and runAction takes no step but its own.
ManagerSafety == SafetySpec

\* Every operation completes, cancelled or not, and whoever is watching, unless
\* the process ends first; and one whose result is worth caching ends with that
\* result, whether the cache can be written or not.
OperationsComplete ==
  \A n \in Names :
    /\ n \in entries ~> done[n] \/ n \notin entries
    /\ run[n] = "put"
         ~> latest[n] = Completed([exit |-> 0, by |-> n], FALSE) \/ n \notin entries

\* Every call is answered.
CallsReturn == \A c \in Calls : pc[c] \in Running ~> pc[c] \in Returned

\* The failure "command ... not found" (execution.go:92-93) is reported with
\* FAILED_PRECONDITION, which tells the client to upload what it says is absent.
NotFoundIsAbsent ==
  [][\A n \in Names :
       run[n] = "fetch" /\ response'[n] = Failed("FailedPrecondition") =>
         CommandOf[action[n]] \notin cas]_allVars

=============================================================================
