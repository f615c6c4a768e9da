# A TLA+ development of aws-build-farm

`aws-build-farm` serves the Remote Execution API: clients upload blobs to a
Content Addressable Store (CAS) in an S3 bucket, ask for actions to be executed,
and follow each execution as a long-running operation. Every action runs in a
Lambda MicroVM of its own, in which an executor agent fetches the inputs, runs
the command and stores the outputs. This directory holds TLA+ modules for the
parts of it where concurrency and failure decide, the TLC configurations that
check them on small instances, and proofs that TLAPS checks for every instance.

    tlc -workers 2 -config MCOperations.cfg MCOperations    # one run
    tlapm Operations_proofs.tla                             # one proof module

## The system

| Part | Source | State | Operations |
|---|---|---|---|
| OperationManager, Operations service | `internal/server/operations.go` | `ops`: name to `opEntry`; of each entry `latest`, `done`, `changed`, `cancel` | `New`, `lookup`, `publish`, `snapshot`, `stream`; GetOperation, ListOperations, DeleteOperation, CancelOperation, WaitOperation |
| Execution service | `internal/server/execution.go` | one `runAction` goroutine for each operation | Execute, WaitExecution |
| Action Cache service | `internal/server/actioncache.go` | the `ac/` keys of the bucket | GetActionResult, UpdateActionResult |
| CAS and ByteStream services | `internal/server/cas_service.go` | goroutines of FindMissingBlobs, temporary file of Write | FindMissingBlobs, BatchUpdateBlobs, BatchReadBlobs, GetTree; Read, Write, QueryWriteStatus |
| Store | `internal/cas` | the bucket (`S3Store`), or two maps (`MemStore`) | Contains, Get, Reader, Put, PutStream, GetActionResult, PutActionResult |
| Digest | `internal/digest` | none | FromBytes, IsEmpty, Validate |
| MicroVM executor | `internal/microvm/executor.go` | one `Run` for each execution, one MicroVM for each `Run` | Run: launch, wait for RUNNING, token, wait for health, dispatch, terminate |
| Executor agent | `cmd/executor-agent` | a working directory for each task | `/health`, `/v1/execute` |
| casfs | `internal/casfs` | none: trees on disk and in the CAS | Materialize, CaptureFile, CaptureDirectory |
| Task contract | `internal/task` | none | the JSON between executor and agent |
| Capabilities, wiring, command | `internal/server/server.go`, `cmd/buildfarm-server` | constants | GetCapabilities, `run` |

How they interact. Execute reads the action from the store, registers an
operation and starts `runAction`, which owns the operation: it looks into the
Action Cache, reads the command, calls the Runner, writes the Action Cache and
publishes an update at each stage. Any number of calls follow an operation by
waiting for the entry's `changed` channel. CancelOperation cancels the context
of `runAction`, which reaches the Runner's requests. The agent and the server
share nothing but the bucket and one HTTP request.

What is hard. A follower must not sleep through an update that arrives between
its snapshot and its `select`; outcomes must be final, and every follower must
learn them; clients come and go, delete and cancel at any time, and the process
may end, which loses the operations and keeps the bucket; two executions of an
action race on one cache entry; each of the executor's five requests can fail,
hang, or take effect without an answer, and the MicroVM must still be torn
down; an upload can be cut short, repeated or written twice at a time.
`PROJECT.json` lists these hazards one by one, each at its line, with the
properties that watch it.

What makes each part correct:

- *OperationManager*: no lost wake-up; a final outcome; every follower returns
  with it; names that clients were told stay good until a deletion or a restart.
- *Execution and Action Cache*: stages in order and one end to each operation;
  CANCELLED only on request; every operation ends; the cache holds successes of
  the action they are filed under; a cached result only where one is allowed.
- *Executor*: a teardown on every path; a task delivered at most once; a result
  only from a task that finished; a return after a cancellation.
- *CAS service*: all-or-nothing uploads; answers about presence that a client
  can rely on; no stuck request.
- *Agent and casfs*: a command starts in the whole input tree; a result names
  only blobs that are stored and says what is there; exit codes that mean what
  they say; a timeout that is kept.
- *All together*: a client is told what happened in a MicroVM, and can stop it.

## The modules

    Watch                     what streams promise (abstract)
      ^ refined by
    Operations                operations.go, with any publisher
      ^ refined by, and extended by
    Execution                 execution.go, actioncache.go: the publisher, with
      ^ refined by, and         any Runner
      | extended by
    BuildFarm                 Execution with Microvm as its Runner
      | has an instance of
    Microvm                   executor.go, one Run and its MicroVM
      ^ extended by
    Task                      ... a Run of it with its agent (internal/task)
      | has an instance of
    Agent                     cmd/executor-agent and casfs: what runs in a MicroVM
    CasService                cas_service.go over a store: the unary calls, Write
      ^ extended by
    CasReads                  ... Read and GetTree, and the Store's Reader

    Operations_proofs, Execution_proofs, Microvm_proofs, BuildFarm_proofs,
    CasReads_proofs (of CasService too), Agent_proofs, Task_proofs
    Basics                    lemmas about numbers, finite sets and sequences
    MCOperations, MCExecution, MCMicrovm, MCTask, MCBuildFarm, MCCasService,
    MCCasReads, MCAgent

### Operations

Each critical section under `opEntry.mu` or `OperationManager.mu` is one step.
`entries` are the `opEntry` structures in memory and `registered` the keys of the
manager's map: DeleteOperation takes away the second only, as in the code, where
streams and `runAction` keep their pointer. An update stands for the
`*lrpb.Operation` allocated for it, because `stream` compares pointers. A channel
is a number, a closed channel a member of `closed`, and `close(e.changed)`
followed by `make` is one step of `publish`.

A call (`kind`: stream, wait or get) is at `snapshot`, `send` or `select`, or has
returned a gRPC code. `Snapshot` is `e.snapshot()` with the test that follows it,
`Send` is `stream.Send` up to the `select`, `Wake` the receipt on `changed`,
`Abandon` the two ways in which a departed client ends a call. Whether `select`
prefers one ready case is left open, as in Go. `Publish` lets whoever holds the
entry publish anything, a second terminal update included, so that what is
checked here does not rest on `runAction`'s good behaviour. `Release` is
`defer cancel()`. `Crash` is the end of the process: nothing is persisted.

Names are fresh UUIDs. `known` records the names that clients have been told,
by an update, an answer or a list: clients look up only these, which is how a
program comes to hold a name.

### Watch

The promise of the streams alone: a watcher sees a subsequence of the updates in
order, never one twice in a row, ends on its own only with the terminal update,
and is not left behind. Under the refinement mapping of `Operations`, what a
watcher has seen is what its last snapshot returned; snapshots that find nothing
new, wake-ups and everything that the other calls do are stutters.

### Execution

Adds to `Operations` the bucket (`cas`, `ac`), and of each operation its action,
`skip_cache_lookup`, where its `runAction` is (`run`) and the message it will end
with (`response`). The steps of `runAction` end at each call of the store, of
the Runner or of `publish`. The store takes effect at once or fails; S3Store
fails when the context is cancelled and MemStore does not look at it, so that
either may happen. Every error that the code folds together is folded together
here: any error of the cache lookup is a miss, any error of the command's read
is FAILED_PRECONDITION. The Runner returns a result, an error, or, if the
operation's context is cancelled, an error that wraps `context.Canceled`.

`ExecNext` uses `Start`, `Reject`, `Release`, `publish` and the calls of
`Operations` as they are. `ManagerSafety` states that nothing else of `Execution`
disturbs the manager.

### Microvm

One `Run`: where it is (`pc`), whether it knows its MicroVM (`id`, from when the
`defer` is set up), whether the deadline of the wait it is in has passed, whether
it has tried to terminate, and what it returns. Beside it the context, the
MicroVM, the agent and the task, which change on their own: the MicroVM boots or
ends, the agent comes up and answers, the operation is cancelled. A request is
one step when it is answered (`Answered`); `Interrupt` is a request that a
cancelled context ends. RunMicrovm may have made a MicroVM when it reports an
error, and TerminateMicrovm may fail. TERMINATING and TERMINATED are one state
and every state before RUNNING another, since `waitRunning` tells no more apart.

### CasService

A blob is a sequence of chunks and stands for its own hash; the store is keyed by
hash alone. `FindSpawn` is the loop with its semaphore, `FindContains` one
goroutine, `FindReturn` is `wg.Wait()` and the answer. `UpdateOne` is `putOne`,
`ReadOne` one round of BatchReadBlobs. `Recv` takes a chunk with any offset,
`RecvEnd` a stream that ends or breaks, `Commit` the size check and `PutStream`.
What a client sends need not be what its digest names: `putOne` checks size and
hash of each entry, Write the size alone. `HonestClients` says that the clients of
Write hash what they send; only what the store *holds* depends on it (`StoreSound`
and what the streams of `CasReads` show), and no statement about presence does.
A malformed digest in a list is one that no data have: `putOne` refuses its entry
and goes on, and FindMissingBlobs and BatchReadBlobs, which do not validate, look
it up like any other, as GetTree does.
An error of the store leaves open whether it took effect. S3 is strongly
consistent and an object is replaced as a whole, which the code relies on.

### CasReads

The two calls that stream, beside those of `CasService` and over the same store.
A `Read` is at `reader` until `Store.Reader` has answered, and at `body` while
what is left of the slice is sent, in pieces of any size up to the buffer's.
`byteRange` is the part of an object that the header of `cas.go:191` names, where
the last position counts; at and after the end S3 refuses the range and MemStore
has no bytes, and `Reader` allows either. `GetTree` is at `queue`: `Visit` takes
the next directory, adds its subdirectories to the queue and sends the page when
it is full, `EndOfTree` sends the last one. A store that fails, a body that
breaks, a message that does not decode and a client that leaves are
`StreamFails`. Other calls add blobs while a stream is under way.

### Agent

One task from `handleExecute`'s request to its answer. A digest is the blob
itself; a Directory message is a function from names to nodes, so that a tree is
a value and its files' contents can be compared with what is on disk. Names are
numbers because Directory messages and `os.ReadDir` have an order; one name is
refused by `checkName`.

`todo` is the call stack of the two recursions. `Materialize` (`Fetch`) makes one
request to the store at a time, for a file or for a directory, which comes with
its symlinks. `captureOutputs` (`CaptureOutput`), `buildDirectory`
(`CaptureEntry`, `CloseDirectory`) and the rest of `CaptureDirectory` (`PutTree`)
look at one path at a time, and an entry carries what `ReadDir` has seen of it
(`e.IsDir()`), since by then something else may be there. The top of an output
directory carries nothing: CaptureDirectory hands it to `os.ReadDir` without
another look, which follows a symlink that has taken its place (to nothing: symlinks
dangle here) and fails on a file. `Fails` stands for
every error return of `runTask` before the answer; the working directory is
removed by each of them, as by `Done`.

The command is a process that may write and remove what `Changes` lists, may end
with any exit code at any time, and may leave processes behind (`left`) that go
on changing the working directory until it is removed. `Expire` is the deadline
of `runCtx` and `HangUp` the end of the request's context; `Kill` is os/exec's
watcher of it. The order of errors in `cmd.Wait` is that of os/exec: a status
other than 0 is an ExitError, which `runTask` takes first; a command that exits
with 0 after it has been killed returns the context's error, which makes 124 or
an error of it. A command that dies of its deadline's kill is of the first kind: its
answer is -1, and not 124, and the client sees a failure either way.

The bucket is everyone's: `Others` is a client, or another agent, that stores a
blob while the task runs, which may be one that this task misses or is about to
store itself.

`TimeoutSeconds` is computed where it is in the code, by `Run`, from the action's
timeout or `defaultActionTimeout`: in fractions of a second, divided and
truncated.

### Task

The contract of `internal/task`: `Microvm` with an instance of `Agent` in the
MicroVM of one of its Runs, `Chosen`. `AgentStep` is a step of the agent, which it
takes only while its task is running: with the MicroVM it ends, at any point. `Answer` is what `handleExecute` adds to `Microvm`'s `AgentAnswers`:
a task is finished only when `runTask` has returned a result, and failed when it
has returned an error, or a result that could not be encoded. What `Run` knows of
the agent is this answer, and what the agent leaves behind is the bucket
(`OthersPut`, which goes on without either).

### BuildFarm

`Execution` with an instance of `Microvm` in the place of its Runner: an
operation's `Run` has the operation's name, and its context is the one that
CancelOperation cancels and `runAction` cancels on its way out. While `runAction`
is at `exec`, it is inside `Run`, whose steps are the executor's;
`RunDelivers` is the return of `exec.Run` with what `runAction` makes of its
result or its error. `ServerStep` is everything else that the server does, its
end included: then `Run` stops where it is, its deferred teardown never runs, and
the MicroVM goes on (`CloudStep`) and may finish a task that nobody waits for.

The contents of results are left to `Task`: here a MicroVM's task is running, has
finished with a result or failed, or was killed. `BuildFarm_proofs` puts the two
together: `WholeSpec` is a behaviour of both at once, over the same Runs, in which
`runAction` passes on the agent's result (`PassesResult`). It is the subject of
one theorem and of no run, since the states of the two multiply beyond what a run
can visit; each part has a run of its own. `CasService` is not composed with the rest:
it shares with it the store, in which a hash that has an object never loses it, so
that what is stored when the agent answers is there when a client reads it. It
need not be the same object: a client of Write that does not hash what it sends
can put other bytes of the same size under the same hash (`cas_changed`).

## The runs

| Run | Instance | Question |
|---|---|---|
| `operations` | 1 operation, 4 updates (2 of them terminal), 2 calls | does the manager keep its promises whatever its publisher, its clients and the process do? |
| `execution` | 2 operations, 2 calls, 2 actions, one of them `do_not_cache`, symmetry | can two executions and the clients spoil the Action Cache, or what is given from it? |
| `execution_one` | 1 operation, 2 calls, 1 action | does an execution go through its stages, end, serve whoever joins it, and use the manager as `Operations` says? |
| `microvm` | 1 `Run`, and its agent with a directory of 1 file that is input and output | does `Run` tear down, deliver once, and return, whatever fails, and is what it returns what the agent has done? |
| `cas_service` | 2 calls and a stream, 3 blobs (of 0, 1 and 2 chunks), 2 places in the semaphore, pages of 2 directories | can clients rely on what they are told about the store, and on what is streamed to them? |
| `agent` | 1 task: 2 input roots, 3 commands, 7 changes, time limits of 0 and 1 second | does the agent run what it was given, and say what came of it? |
| `buildfarm` | 1 operation, 1 call, 1 `Run` | does what a client is told hold of the MicroVM behind it, and does a cancellation reach it? |

Bounds. Every call is made at most once and every update published at most once,
which bounds all counters. One operation is enough for `operations`, since
entries share only the manager's map; two calls are one that is served while the
other is overtaken. Two executions are what a race on one cache entry takes, and
two actions are one that may be cached and one that may not; both executions may
be of either. `execution` has the constraint `NobodyFollows`: the two streams stay
at their first snapshot and no client leaves, deletes, gets, waits or cancels, for
none of these touches the cache or the response; skipped lookups, uploads, cache
updates and crashes are there at any time. `execution_one` has the rest: Execute's
stream beside one WaitExecution, WaitOperation or GetOperation that joins early or
late, cancellation, deletion, ListOperations, a client that leaves and a crash. Its
constraint `StoresFilledFirst` is on clients alone: they upload, and update the
cache, before there is an operation, whose lookup they do not skip, and at most one
of the two leaves. All of these are steps that nobody has to take, so that liveness
is checked on whole behaviours. Runs of the executor share
nothing but the bucket, so that a second one would only multiply the states;
what others put there, `Others` does. The agent of `microvm` has one file in one
directory, which a process may change: enough for a result that names a tree, and
for each of its uploads to be the one at which the MicroVM ends. `microvm_leak`
and `microvm_startup` are about `Run` alone (`MCMicrovm`). In `cas_service`
the longest request names four digests, two of them of one hash and one of the empty
blob, over a semaphore of two, so that goroutines wait for each other; a blob of
two chunks has a chunk that can be lost, repeated or out of order; two calls are
a writer and a reader, or two writers of one blob. The constraint `TwoCalls`
admits two unary calls, or one of them and the stream. It cuts off the start of
a third call and nothing that is under way, so that liveness is checked on whole
behaviours: a call that does not start is one that no client makes. The
directory of two chunks names one directory twice and the empty one, and the
first of these names the empty one again: a tree of six, in pages of two, with a
directory that is named before it is stored. The ranges are the whole, the rest,
a part, one that begins at the end and one that reaches past it. Two entries of the
requests are ones that `putOne` must refuse: `Missized` has data of another size
than its digest, `Mistaken` data of the right size and another hash. The clients of
Write of this run hash what they send (`HonestClients`); those of `cas_changed`
need not.

In `agent` the tree has an executable file, an empty file, a symlink and two
directories, one in the other, and one root has a name that is refused. The
commands ask for the outputs by the new field and by the deprecated ones, a
directory and a file in it, in the root and in a subdirectory of it; one has no
arguments. The changes replace the symlink by a file, a file by one of other
contents and mode, remove a file, put a file where an (emptied) directory was,
write to `.stdout` and remove `.stderr`; whether an output is a file, a symlink,
a directory or missing, and whether it changes while it is captured, is thereby
open. Time is not counted: the deadline may pass at any point of the command. A
timeout is half a second or one, and the limit 0 or 1. One operation is enough
for `buildfarm`, as Runs share nothing and the races of two operations on the
Action Cache are those of `execution`; the proofs are for any number.

No run checks for deadlock, as all of these systems may come to rest: calls are
finite in number, and a client need not make one.

Fairness. A goroutine runs when it can: `Step`, `RunAction`, `Handle` and the
agent's `Run` are weakly fair. Clients owe nothing: they need not call, leave,
read or send; the calls that stream are therefore not fair. Nor
does anyone owe the executor an answer: in `Microvm` only `Run`'s own timers and
the effect of a cancelled context are fair. `AnsweredRunReturns` states what
follows from answers as an implication, and `Execution` takes the outcome of it,
that the Runner returns, as part of `RunAction`'s fairness. `BuildFarm` takes
nothing of the kind: `CancelledOperationEnds` holds by the server's goroutines
and timers alone. In `Agent` the deadline's timer, os/exec's watcher and the end
of a process that has been killed are fair; a command that is not killed need
never end. Weak fairness is
enough: a goroutine that waits for a closed channel stays enabled.

The properties, beside one invariant of shape for each module:

- `NoLostWakeup`: a call that is blocked on an open channel has missed nothing.
  `OkMeansTerminal`, `DoneIsFinal`: the outcome that one follower is given is the
  outcome that all are given. `NotFoundMeansRemoved`: NotFound is never a race
  with the first update. `TerminalDelivered`, `StreamsImplementWatch`: followers
  are served, and streams keep the promise of `Watch`.
- `CacheHoldsSuccesses`, `CachedResponseSound`: the cache and what clients are
  given from it. `CanceledOnlyIfAsked`: a client that leaves takes no operation
  with it. `StagesInOrder`: of Execute's stream and of one that joins late.
  `OperationsComplete`: every operation ends, and one whose result is to be cached
  ends with that result though the cache cannot be written. `CallsReturn`.
- `TeardownAttempted`, `OkMeansFinished`, `CanceledMeansCancelled`,
  `OneTaskPerMicrovm` (of deliveries that start a task: one more to an agent that is
  running it already would not be told apart); `CancelledRunReturns` without anybody's answer and
  `AnsweredRunReturns` with them. `ResultIsFetchable`: what `Run` returns is a
  result that the agent has completed, with all that it names in the bucket, though
  the MicroVM is gone by then.
- `StoreSound`, `FindMissingSound`, `AcknowledgedIsStored`, `NotFoundWasAbsent`,
  `UnaryCallsReturn`; `ReadIsSlice` and `TreeIsComplete`: a stream that returns OK
  has sent exactly the slice or the tree that was asked for, and one that is cut
  short a beginning of it, from which a client can go on.
- `InputsInPlace`: the command never starts in a part of its input tree.
  `ExitCodeIsTrue`: 0 is of a command that ended well before any kill, 124 of one
  that ran into its deadline, whichever of exit, deadline, kill and hang-up came
  first. `ResultIsStored`: what a result names, down to the last file of an
  output directory, is stored, and the Tree and the directories say the same,
  also while processes go on changing them. `OutputsAreWhatIsThere`: a result of
  outputs that nobody changes any more is what is on disk, with modes, symlinks
  and empty directories. `LimitedTaskAnswered`.
- `FarmImplementsExecution`: Microvm's `Run` is a Runner as `Execution` takes it to
  be. `EndedHasRun`: an end that a client can see has its teardown behind it, and
  a new result its task. `CancelledOperationEnds`.

The definitions named "Faulty ..." in the modules are variants of the code with a
plausible mistake. None is part of a specification: each shows that a property is
not empty, by violating it when it takes the place of the definition below it.

## Disagreements found

Five runs state what a comment or a message of the code says, and find it
violated by what the code does.

- `execution_not_found` (`NotFoundIsAbsent`): any error of the command's read is
  reported as "command ... not found" with FAILED_PRECONDITION
  (`execution.go:90-93`). A cancellation or a failure of S3 at that point asks the
  client to upload a blob that is there.
- `microvm_leak` (`TerminatedBeforeReturn`): "The MicroVM is always terminated
  before Run returns" (`executor.go:98-99`). It asks once and ignores the error,
  and a launch without an answer is never torn down; such a MicroVM lives until
  its maximum duration.
- `microvm_startup` (`StartupBounded`): "StartupTimeout bounds how long we wait"
  (`executor.go:58-59`). It is looked at between requests only, and requests have
  no timeout of their own.
- `cas_changed` (`ReadMatchesDigest`): "two blobs with the same hash necessarily
  have the same size and contents" (`cas.go:10-11`). Write checks the size and
  not the hash, unlike BatchUpdateBlobs, so that a file that changes between
  hashing and upload is stored under the hash of what it was.
- `agent_timeout` (`TimeoutBounds`): "TimeoutSeconds bounds command execution. Zero
  means the server default" (`task.go:31`). The agent takes zero for no limit
  (`main.go:115`), and `Run` sends zero for a timeout below a second
  (`executor.go:167`): the shortest timeouts are no timeouts.

## What is proved

Every invariant and every action property that a passing run checks is a theorem,
and so is the safety part of every refinement. The proofs are for every set of
names, calls, updates, actions, blobs and trees, under the assumptions that the
modules state of their constants, and none rests on fairness.

`Operations_proofs`: `TypeCorrect`, `NoWakeupIsLost`, `OkIsTerminal`,
`NotFoundIsRemoved`, `DoneStays`, `StreamsRefineWatch`. None of the invariants but the first is
inductive alone. `IndInv` adds:

- `EntryOK`: an entry is done exactly when its latest update is terminal, its
  closed channels are all those before the current one, and a name that clients
  know has an update;
- `SnapshotOK`: at `send` and `select`, a snapshot whose channel is the current
  one holds the entry's current update, and one that is done holds it for good; a
  call at `select` is not done and, if it streams, has sent what it holds. This
  is where the single critical section matters, and with `EntryOK` it gives
  `NoLostWakeup`;
- `CallOK`: a stream that runs has sent no terminal update, and a call that gets
  follows an operation that has one update at least.

Each action has one step of the proof; `Execution`'s publisher needs none, for
`Publish` already allows everything. `StreamsRefineWatch` maps each step to one of
`Watch` or to a stutter. It needs the invariant twice: a snapshot that finds a new
update must be of one that the stream has not taken, and a stream that ends on its
own must have taken the terminal one.

`Execution_proofs`: `ExecutionUsesManager` (every step of `ExecNext` is a step of
`Operations` or a stutter), from which `ExecutionLosesNoWakeup` follows without
looking at `Operations` again; and `CacheIsSound`. The refinement is not a matter
of form alone: `Publish` demands a fresh update, and `runAction`'s are fresh only
because each label publishes its own stage, which the invariant `RunOK` records.
`CacheOK` says that a result on its way into the cache, at the label `put`, is a
success of its own action. `CachedIsSound` and `CanceledIsAsked` add what each
client has been sent (`ClientOK`), and `ExecTypeCorrect` the shape of it all.
`ExecutionRefinesWatch` composes the two refinements. For
`StagesAreInOrder`, what a call is about to send may be older than the operation's
latest update, which may be replaced between snapshot and send. `StagesOK`
says that what a call holds and what it has sent are each the latest update or of
an earlier stage, and ordered among themselves; `LatestRises`, that `runAction`
replaces an update only by one of a later stage, is where its labels come in.

`Microvm_proofs`: `VmTypeCorrect`, `TeardownIsAttempted`, `OkIsFinished`,
`CanceledIsCancelled`, `TaskIsGivenOnce`. They hold without any fairness. The
conjunction of the invariants is inductive with `JobOK`: a Run that has not been
through its dispatch has handed out no task, and one that is launching has no
MicroVM. `TeardownIsAttempted` does not say that the MicroVM is gone:
`TerminatedBeforeReturn` does, and does not hold.

`BuildFarm_proofs`: `FarmRefinesExecution`, `FarmGivesTaskOnce`,
`FarmTellsWhatRan`. The argument is compositional. `FarmStepIsExecStep` maps every
step to a step of `Execution` or a stutter, where the invariant of `Microvm` that
an outcome `canceled` has a cancelled context is what lets `RunDelivers` be
`RunReturns`; `FarmStepIsVmStep` maps it to a step of `Microvm` (a cancellation is
its `Cancel`) or a stutter. Both parts' inductive invariants are then preserved
by their own lemmas, without another look at their actions (`VmP` is
`Microvm_proofs` under the composition's substitution). What is new is `FarmOK`,
which ties the two: a Run is at its beginning until its operation has published
EXECUTING, and has been torn down when a response of it is there to be published.

`ResultsAreTrueThroughout` goes all the way: a result that is given to a follower of
its operation, or comes out of the Action Cache in any later one, is what the agent
made of the command. All that it names is in the bucket, and exit code 0 is of a
command that ended so, unkilled. `SaysNothingNew` has the server's side, an
operation at a time: every result that it holds, in the cache, in a response or in
an update, it has held before, unless a client has uploaded it or exec.Run has just
returned it. `SaidIsResult` ties those to the agent: the task of such a result is
finished, and its exit code says what the agent's says; it stays so, because an
agent that has answered changes nothing (`ResultStays`). The rest is
`FinishedIsComplete` of `Task_proofs`.

`Task_proofs`: `ResultsAreFetchable`. Each step of the composition is one of `Microvm`
(`TaskStepIsRunStep`) and one of `Agent` (`TaskStepIsAgentStep`), or a stutter, so
that both have their invariants without another proof (`AgentP` is `Agent_proofs`
under the substitution, and `SameAgent` says that it speaks of the same agent).
Between the two is `FinishedIsDone`: a task that is finished was answered by an
agent with a result. It is inductive because only a running task is answered
(`FinishedFromRunning`), and an agent whose task is not running stands still.

`CasReads_proofs`, of `CasService`: `AcknowledgedStays`, `FindMissingIsSound`,
`NotFoundIsAbsence` and `CasTypeCorrect`, whatever clients send; and `StoreIsSound`,
under the hypothesis `HonestClients`, that the clients of Write send the data that
their digest names. The code does not enforce it: Write checks the size and not the
hash, and the run `cas_changed` shows that it cannot be dropped. It is a hypothesis
on Write alone: the entries of BatchUpdateBlobs may have any data, of which
`UpdateOneKeeps` needs `putOne`'s two checks. Its one use is in `CommitIsSound`: by
`WriteOK` whatever has arrived is a beginning of the client's data, so that with the
declared size it is all of it, and if the client has hashed it, it is the blob. The
statements about presence rest on no step's taking a hash out of the store (the
lemma `StoreGrows`, which does not look at what is stored) and on `AnswerOK`, which
says of each answer given so far what it stands for, and of FindMissingBlobs,
whose goroutines end in any order, that every digest it is past is held by one of
them or has been looked up, unless one has failed.

`CasReads_proofs`, of `CasReads`: `ReadsAreSlices`, `TreesAreComplete`, under
`HonestClients` too: an object that is there must be what its digest names (the lemma
`HasItsBlob`), or there would be no slice or tree to speak of. `StreamsOnlyRead`
carries over what is proved of `CasService`, which the run `cas_service` checks
with a stream beside the calls. The invariant of a Read (`ReadIs`) is an equation:
what has been sent, followed by what is left of the body, is the slice. That of
GetTree (`TreeIs`) is one as well: the directory asked for, followed by all that
is named by the directories taken so far, is those directories followed by the
queue. The directories taken are those sent and those of the page; were only the
ones sent in it, the equation would not survive `Visit`, and were the page not
emptied, it would be false. `ByteRangeIsSlice` is about the header of `cas.go:191`:
first and last position, the last one included, name offset and limit, in every
case of an end before, at or after the limit's.

`Agent_proofs`: `ExitCodeMeansIt`, `AgentTypeCorrect`, `InputsAreInPlace`,
`ResultsAreStored`, `OutputsAreTrue`.

- `ExitInv` says that a command has no exit code before it ends, and that the
  check of the deadline is reached only by one that ended with 0 or was never
  started, so that it cannot hide a failure.
- `FetchOK`: what is on Materialize's stack is named by the input tree, no item of
  it is below another, nothing is on disk at or below an item, and everywhere else
  the disk is the tree. The stack is empty at the end, and the disk is the tree.
- `CaptureInv`: directories that are built name just what is built below them
  (`IsWhole`), an open directory has each of its names built or on the stack
  (`CloseOK`), all that is built or open is below the output whose Tree is next
  (`TreeOK`), and everything built is stored. Then a Tree that is put is closed
  under its children, though processes change the disk between any two looks. That
  nothing is above what is open (`OpenOK`) is what makes the recursion of
  `buildDirectory` one that ends with the output itself.
- `OutputInv`, of a command that has left no process: what is built is a copy of
  what is there, a directory's message has the names that are there, and each
  output is in the result or still on the stack.

`Basics` has what these need of numbers, finite sets and sequences, by an
induction over a set of numbers. The trees are of any depth, and the paths, the
queues and the messages of any length. It takes from the constants what
`AgentAssumption`, `NodesAssumption` and `ReadsAssumption` state: that the paths
are closed under their parents, that a message of a Directory names nodes of the
three kinds, that names are finite in number, that the blob of no bytes is the
empty message, and that offsets and limits are not negative.

Model-checked only: liveness (`TerminalDelivered`, `OperationsComplete`,
`CallsReturn`, `CancelledRunReturns`, `AnsweredRunReturns`, `UnaryCallsReturn`,
`LimitedTaskAnswered`, `CancelledOperationEnds`, and the fairness of `Watch` in
`StreamsImplementWatch`), which rests on fairness and is out of the prover's reach;
and the five disagreements, which are counterexamples.

## Not modelled

Left out for good:

- parsing of resource names, which turns a Read, Write or QueryWriteStatus away
  before it does anything, and the syntax of digests (`digest.Validate`), which Execute
  and the Action Cache check first. FindMissingBlobs, BatchReadBlobs and GetTree do
  not check it, and `putOne` answers for its entry (see CasService);
- Capabilities, flags, AWS configuration, `buildEnv`, the request parameters of
  the Lambda API, timestamps: constants and formatting without a state. The
  command ends with its listener, and handles no shutdown;
- how `ops` grows, since no limit is stated anywhere, and what lifecycle rules of
  the bucket may remove, which is outside the code;
- offsets and limits of a Read that are negative, which `cas_service.go:172` lets
  through: `cas.go:192-195` takes them as absent or makes a malformed range of them, and
  `memstore.go:64` panics at a negative offset; and those whose sum leaves int64, of
  which S3 sees a malformed range (`cas.go:198`);
- a Directory message that names a file, a symlink or a directory twice, for which
  `casfs.go:57,66,75` do not look: messages are functions from names;
- what changes between `Lstat` and the `ReadFile` or `Readlink` of the same path
  (`main.go:184`; `casfs.go:84,137,143,157`): the two are one step of `CaptureOutput`
  and `CaptureEntry`, so that the mode and the contents of a file are of one moment.
  What changes between `ReadDir` and either is modelled;
- in `Agent`: what a symlink in the input tree leads to, when `.stdout`, the
  command's directory or an output path goes through one (symlinks dangle); a
  FIFO among the outputs, on which `os.ReadFile` waits (`casfs.go:157`); inputs
  that are named `.stdout` or `.stderr` and are truncated by `os.Create`
  (`main.go:127`), which `Created` has and the trees of `MCAgent` do not.

What could follow: `CasService`'s calls over the store of `Task`, for a client that
asks FindMissingBlobs for the outputs of the result it was given.
