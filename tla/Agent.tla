-------------------------------- MODULE Agent --------------------------------
(***************************************************************************)
(* cmd/executor-agent: runTask, which fetches an action's input tree, runs *)
(* the command and uploads what it leaves behind, with the trees of        *)
(* internal/casfs, the task of internal/task and os/exec's Cmd.            *)
(*                                                                         *)
(* A blob stands for its own digest. A node is a file, a symlink or a      *)
(* directory, [is, data, exec]; its data is a digest, or the symlink's     *)
(* target. A Directory message, whose entries are sorted by name, is a     *)
(* function from their names to nodes. The working directory is one from   *)
(* paths to nodes, in which a directory has no data. Symlinks dangle. A    *)
(* request to the store takes effect at once or fails; an upload that      *)
(* fails and takes effect leaves a blob that nothing names.                *)
(***************************************************************************)
EXTENDS Integers, Sequences, FiniteSets
SE == INSTANCE SequencesExt

CONSTANTS
  Names,           \* what checkName accepts: numbers, for their order
  Stdout, Stderr,  \* the names ".stdout" and ".stderr"
  Paths,           \* the paths in use, as sequences of names
  Data,            \* contents of files, and targets
  Empty,           \* the content of zero length, which is also a message's
  Inputs,          \* the blobs that clients, and other agents, upload
  Roots,           \* those that actions name as their input root
  Commands,        \* [arguments, dir, output_paths, output_files, output_directories]
  Timeouts,        \* what actions name as their timeout, in fractions of a second
  Second,          \* the fractions in a second
  defaultActionTimeout,
  Changes,         \* what a process may do: [path, node]
  Nil              \* nothing

ASSUME AgentAssumption ==
  /\ {Stdout, Stderr} \subseteq Names /\ Names \subseteq Nat
  /\ Paths \subseteq Seq(Names)
  /\ {<<>>, <<Stdout>>, <<Stderr>>} \subseteq Paths
  /\ \A p \in Paths : p # <<>> => SE!Front(p) \in Paths
  /\ IsFiniteSet(Names)
  /\ Empty \in Data /\ Empty = <<>>
  /\ Nil \notin Data \cup Int \cup {"deadline", "canceled"}
  /\ Roots \subseteq Inputs
  /\ \A c \in Commands : \A out \in {c.output_paths, c.output_files, c.output_directories} :
       out \in Seq(Seq(Names)) /\ c.dir \in Paths /\ \A i \in DOMAIN out : c.dir \o out[i] \in Paths
  /\ Second \in Nat \ {0} /\ Timeouts \subseteq Nat /\ defaultActionTimeout \in Nat

VARIABLES
  store,    \* the CAS: files and Directory messages,
  trees,    \* and Tree messages
  command, root, seconds,  \* the ExecuteTask
  pc,       \* where runTask is; "done" and "error" are handleExecute's answers
  todo,     \* the call stack of Materialize, or of captureOutputs
  disk,     \* the working directory
  ctxErr,   \* runCtx.Err(): "deadline", "canceled" or Nil
  killed,   \* whether os/exec has killed the command
  exit,     \* the command's own exit code, -1 if a signal ended it
  left,     \* whether it has left processes behind
  built,    \* buildDirectory: what has been captured of each path
  result    \* the ActionResult

taskVars == <<command, root, seconds>>
procVars == <<ctxErr, killed, exit, left>>
vars == <<store, trees, taskVars, pc, todo, disk, procVars, built, result>>

\* int64(timeout / time.Second), of the action's timeout or the server's default.
TimeoutSeconds(t) == (IF t = Nil THEN defaultActionTimeout ELSE t) \div Second

Node(is, data, exec) == [is |-> is, data |-> data, exec |-> exec]
Item(is, path, node) == [is |-> is, path |-> path, node |-> node]
Directory == Node("dir", Nil, FALSE)
Nothing == Node("none", Nil, FALSE)
Nowhere == [p \in Paths |-> Nothing]
Is(p, is) == disk[p].is = is
Uploads == Inputs \ {Empty}

Init ==
  /\ store \in SUBSET Uploads
  /\ trees = {}
  /\ command \in Commands
  /\ root \in Roots
  /\ \E t \in Timeouts \cup {Nil} : seconds = TimeoutSeconds(t)
  /\ pc = "received"
  /\ todo = <<>>
  /\ disk = Nowhere
  /\ ctxErr = Nil
  /\ killed = FALSE
  /\ exit = Nil
  /\ left = FALSE
  /\ built = Nowhere
  /\ result = [exit |-> Nil, stdout |-> Nil, stderr |-> Nil,
               files |-> {}, symlinks |-> {}, directories |-> {}]

-----------------------------------------------------------------------------
(* The store and its messages *)

Contains(d) == d = Empty \/ d \in store

\* Faulty Put: an error of the upload is dropped.
PutUnchecked(d) == store' \in {store, IF d = Empty THEN store ELSE store \cup {d}}

Put(d) == store' = IF d = Empty THEN store ELSE store \cup {d}

\* The Directory without entries has no bytes: its digest is that of no content.
Marshal(m) == IF DOMAIN m = {} THEN Empty ELSE m
IsDirectory(d) == d = Empty \/ d \notin Data
Unmarshal(d) == IF d = Empty THEN <<>> ELSE d

\* The bucket is everyone's: others put what they will while the task runs.
Others ==
  /\ \E d \in Uploads \ store : store' = store \cup {d}
  /\ UNCHANGED <<trees, taskVars, pc, todo, disk, procVars, built, result>>

\* The kinds of node that a message can name, and that a process can make.
Kinds == {"file", "link", "dir"}
ASSUME NodesAssumption ==
  /\ \A d \in Inputs : IsDirectory(d) =>
       \A n \in DOMAIN Unmarshal(d) : Unmarshal(d)[n].is \in Kinds /\ Unmarshal(d)[n].exec \in BOOLEAN
  /\ \A c \in Changes :
       /\ c.path \in Paths
       /\ c.node \in {Nothing, Directory} \/ (c.node.is \in {"file", "link"} /\ c.node.exec \in BOOLEAN)

\* runTask returns, and the working directory is removed.
Return(answer) ==
  /\ pc' = answer
  /\ todo' = <<>>
  /\ disk' = Nowhere
  /\ UNCHANGED <<store, trees, taskVars, procVars, built, result>>

\* What may fail: the store, the file system, the decoding of a message. What
\* cannot go on fails too: a blob or a file that is not there, an invalid name,
\* a command without arguments.
Fails ==
  /\ pc \in {"received", "materialize", "stdout", "stderr", "capture"}
  /\ Return("error")

-----------------------------------------------------------------------------
(* Materialize *)

Receive ==
  /\ pc = "received"
  /\ command.arguments
  /\ pc' = "materialize"
  /\ todo' = <<Item("dir", <<>>, Node("dir", root, FALSE))>>
  /\ UNCHANGED <<store, trees, taskVars, disk, procVars, built, result>>

Named(S) ==
  CHOOSE l \in [1..Cardinality(S) -> S] : \A i, j \in DOMAIN l : i < j => l[i] < l[j]

\* What is left of a directory: its files, and then its subdirectories.
Children(p, m, is) ==
  LET l == Named({n \in DOMAIN m : m[n].is = is})
  IN  [i \in DOMAIN l |-> Item(is, Append(p, l[i]), m[l[i]])]

\* Faulty Symlinks: a directory's symlinks are not created.
NoSymlinks(p, m) == {}

\* The symlinks of a directory: they need nothing of the store.
Symlinks(p, m) ==
  {q \in Paths : q # <<>> /\ SE!Front(q) = p /\ SE!Last(q) \in DOMAIN m /\ m[SE!Last(q)].is = "link"}

\* One request to the store: for a file, or for a directory, which comes with its
\* symlinks. A file that was created before an invalid name leaves no trace.
Fetch ==
  /\ pc = "materialize" /\ todo # <<>>
  /\ LET p == Head(todo).path
         node == Head(todo).node
         m == Unmarshal(node.data)
     IN  /\ Contains(node.data)
         /\ \/ /\ node.is = "file"
               /\ disk' = [disk EXCEPT ![p] = node]
               /\ todo' = Tail(todo)
            \/ /\ node.is = "dir" /\ IsDirectory(node.data)
               /\ DOMAIN m \subseteq Names
               /\ disk' = [q \in Paths |-> IF q = p THEN Directory
                                           ELSE IF q \in Symlinks(p, m) THEN m[SE!Last(q)]
                                           ELSE disk[q]]
               /\ todo' = Children(p, m, "file") \o Children(p, m, "dir") \o Tail(todo)
  /\ UNCHANGED <<store, trees, taskVars, pc, procVars, built, result>>

-----------------------------------------------------------------------------
(* The command *)

\* os.Create: a file of that name is truncated; a symlink, which is followed, is
\* left out.
Creatable(p) == Is(p, "none") \/ Is(p, "file")
Created(p) == Node("file", Empty, disk[p].exec)

\* Faulty Prepare: the command need not wait for the whole tree.
PrepareEarly ==
  /\ pc = "materialize" /\ Is(command.dir, "dir")
  /\ disk' = [disk EXCEPT ![<<Stdout>>] = Created(<<Stdout>>), ![<<Stderr>>] = Created(<<Stderr>>)]
  /\ pc' = "start"
  /\ UNCHANGED <<store, trees, taskVars, todo, procVars, built, result>>

\* The timer is armed, and the files for the command's output are created.
Prepare ==
  /\ pc = "materialize" /\ todo = <<>>
  /\ Creatable(<<Stdout>>) /\ Creatable(<<Stderr>>)
  /\ disk' = [disk EXCEPT ![<<Stdout>>] = Created(<<Stdout>>), ![<<Stderr>>] = Created(<<Stderr>>)]
  /\ pc' = "start"
  /\ UNCHANGED <<store, trees, taskVars, todo, procVars, built, result>>

Expire ==
  /\ pc \in {"start", "run", "failed"} /\ seconds > 0 /\ ctxErr = Nil
  /\ ctxErr' = "deadline"
  /\ UNCHANGED <<store, trees, taskVars, pc, todo, disk, killed, exit, left, built, result>>

\* The server gives up the request; what is under way then mostly fails.
HangUp ==
  /\ pc \notin {"done", "error"} /\ ctxErr = Nil
  /\ ctxErr' = "canceled"
  /\ UNCHANGED <<store, trees, taskVars, pc, todo, disk, killed, exit, left, built, result>>

\* Start: not when the context is done, nor without the directory or the program.
Start ==
  /\ pc = "start"
  /\ \/ pc' = "run" /\ ctxErr = Nil /\ Is(command.dir, "dir")
     \/ pc' = "failed"
  /\ UNCHANGED <<store, trees, taskVars, todo, disk, procVars, built, result>>

\* The command, or a process that it has left, writes or removes something; what
\* it does to a directory's place it has emptied before.
Change ==
  /\ pc = "run" \/ (left /\ pc \notin {"done", "error"})
  /\ \E c \in Changes :
       /\ c.path # <<>> /\ Is(SE!Front(c.path), "dir")
       /\ \A q \in Paths : SE!IsStrictPrefix(c.path, q) => disk[q] = Nothing
       /\ disk' = [disk EXCEPT ![c.path] = c.node]
  /\ UNCHANGED <<store, trees, taskVars, pc, todo, procVars, built, result>>

\* Faulty Kill: the command is started without the context.
KillNever == FALSE /\ UNCHANGED vars

\* os/exec watches the context.
Kill ==
  /\ pc = "run" /\ ctxErr # Nil /\ ~killed
  /\ killed' = TRUE
  /\ UNCHANGED <<store, trees, taskVars, pc, todo, disk, ctxErr, exit, left, built, result>>

\* Faulty Exit: Wait's own error is all that counts, not the watcher's.
ExitUnwatched ==
  /\ pc = "run"
  /\ exit' \in {0, 1, -1}
  /\ left' \in BOOLEAN
  /\ pc' = "stdout"
  /\ result' = [result EXCEPT !.exit = exit']
  /\ UNCHANGED <<store, trees, taskVars, todo, disk, ctxErr, killed, built>>

\* The command ends, of itself or of a signal, and Wait prefers its error to the
\* context's: one that exits with 0 when it has been killed has failed.
Exit ==
  /\ pc = "run"
  /\ exit' \in {0, 1, -1}
  /\ left' \in BOOLEAN
  /\ IF exit' = 0 /\ killed
       THEN pc' = "failed" /\ UNCHANGED result
       ELSE pc' = "stdout" /\ result' = [result EXCEPT !.exit = exit']
  /\ UNCHANGED <<store, trees, taskVars, todo, disk, ctxErr, killed, built>>

\* cmd.Run has returned an error that is no ExitError.
Failed ==
  /\ pc = "failed"
  /\ IF ctxErr = "deadline"
       THEN /\ pc' = "stdout"
            /\ result' = [result EXCEPT !.exit = 124]
            /\ UNCHANGED <<store, trees, taskVars, todo, disk, procVars, built>>
       ELSE Return("error")

-----------------------------------------------------------------------------
(* captureOutputs *)

AttachStdout ==
  /\ pc = "stdout"
  /\ Is(<<Stdout>>, "file")
  /\ Put(disk[<<Stdout>>].data)
  /\ result' = [result EXCEPT !.stdout = disk[<<Stdout>>].data]
  /\ pc' = "stderr"
  /\ UNCHANGED <<trees, taskVars, todo, disk, procVars, built>>

outputPaths ==
  IF command.output_paths # <<>> THEN command.output_paths
  ELSE command.output_files \o command.output_directories

AttachStderr ==
  /\ pc = "stderr"
  /\ Is(<<Stderr>>, "file")
  /\ Put(disk[<<Stderr>>].data)
  /\ result' = [result EXCEPT !.stderr = disk[<<Stderr>>].data]
  /\ pc' = "capture"
  /\ todo' = [i \in DOMAIN outputPaths |-> Item("output", command.dir \o outputPaths[i], Nothing)]
  /\ UNCHANGED <<trees, taskVars, disk, procVars, built>>

\* What captureOutputs or buildDirectory does next, at a path: the item is an
\* output, or a directory's entry with the node that ReadDir has seen, or the
\* message of a directory ("close") or an output's Tree that remains to be put. The
\* output itself has no such node: a symlink in its place, ReadDir follows.
Doing(is) == pc = "capture" /\ todo # <<>> /\ Head(todo).is = is
Here == Head(todo).path

Record(field, x) == result' = [result EXCEPT ![field] = @ \cup {x}]

\* Faulty Captured: a file's mode is lost.
CapturedPlain(node) == [path |-> Here, data |-> node.data, exec |-> FALSE]

Captured(node) == [path |-> Here, data |-> node.data, exec |-> node.exec]

\* What captureOutputs does of an output path. One that is missing is left out,
\* but not when what should be its directory is a file: Lstat's ENOTDIR.
CaptureOutput ==
  /\ Doing("output")
  /\ \/ /\ Is(Here, "none")
        /\ \A q \in Paths : SE!IsStrictPrefix(q, Here) => ~Is(q, "file")
        /\ todo' = Tail(todo)
        /\ UNCHANGED <<store, built, result>>
     \/ /\ Is(Here, "link")
        /\ Record("symlinks", Captured(disk[Here]))
        /\ todo' = Tail(todo)
        /\ UNCHANGED <<store, built>>
     \/ /\ Is(Here, "file")
        /\ Put(disk[Here].data)
        /\ Record("files", Captured(disk[Here]))
        /\ todo' = Tail(todo)
        /\ UNCHANGED built
     \/ /\ Is(Here, "dir")
        /\ built' = Nowhere
        /\ todo' = <<Item("entry", Here, Nothing), Item("tree", Here, Nothing)>> \o Tail(todo)
        /\ UNCHANGED <<store, result>>
  /\ UNCHANGED <<trees, taskVars, pc, disk, procVars>>

\* What buildDirectory does of an entry, by what ReadDir has seen and what is there
\* by now: a file is uploaded, a directory is read.
CaptureEntry ==
  /\ Doing("entry")
  /\ LET seen == Head(todo).node
         names == {n \in Names : Append(Here, n) \in Paths /\ disk[Append(Here, n)] # Nothing}
         entries == [i \in DOMAIN Named(names) |->
                       LET p == Append(Here, Named(names)[i]) IN Item("entry", p, disk[p])]
     IN  \/ /\ Is(Here, "link") /\ seen # Nothing
            /\ built' = [built EXCEPT ![Here] = disk[Here]]
            /\ todo' = Tail(todo)
            /\ UNCHANGED store
         \/ /\ Is(Here, "file") /\ seen \notin {Nothing, Directory}
            /\ Put(disk[Here].data)
            /\ built' = [built EXCEPT ![Here] = disk[Here]]
            /\ todo' = Tail(todo)
         \/ /\ Is(Here, "dir") /\ seen \in {Nothing, Directory}
            /\ todo' = entries \o <<Item("close", Here, Node("dir", names, FALSE))>> \o Tail(todo)
            /\ UNCHANGED <<store, built>>
  /\ UNCHANGED <<trees, taskVars, pc, disk, procVars, result>>

\* The end of buildDirectory: all entries are captured.
CloseDirectory ==
  /\ Doing("close")
  /\ LET m == [n \in Head(todo).node.data |-> built[Append(Here, n)]]
     IN  /\ Put(Marshal(m))
         /\ built' = [built EXCEPT ![Here] = Node("dir", Marshal(m), FALSE)]
  /\ todo' = Tail(todo)
  /\ UNCHANGED <<trees, taskVars, pc, disk, procVars, result>>

Message(p) == Unmarshal(built[p].data)
IsBuilt(p) == built[p].is = "dir"

descendants(p) == {Message(q) : q \in {r \in Paths : IsBuilt(r) /\ r # p}}

\* The end of CaptureDirectory.
PutTree ==
  /\ Doing("tree")
  /\ LET tree == [root |-> Message(Here), children |-> descendants(Here)]
     IN  /\ trees' = trees \cup {tree}
         /\ Record("directories", [path |-> Here, tree |-> tree, data |-> built[Here].data])
  /\ todo' = Tail(todo)
  /\ UNCHANGED <<store, taskVars, pc, disk, procVars, built>>

Done == pc = "capture" /\ todo = <<>> /\ Return("done")

-----------------------------------------------------------------------------
Capture == CaptureOutput \/ CaptureEntry \/ CloseDirectory \/ PutTree

Run ==
  \/ Receive \/ Fetch \/ Fails \/ Prepare \/ Start \/ Failed
  \/ AttachStdout \/ AttachStderr \/ Capture \/ Done

Next == Run \/ Expire \/ HangUp \/ Kill \/ Change \/ Exit \/ Others

SafetySpec == Init /\ [][Next]_vars

\* The agent runs when it can, the timer of runCtx fires, and a process that has
\* been killed ends; one that has not owes nothing.
Spec ==
  /\ SafetySpec
  /\ WF_vars(Run) /\ WF_vars(Kill) /\ WF_vars(Expire)
  /\ WF_vars(killed /\ Exit)

-----------------------------------------------------------------------------
(* Properties *)

Answered == {"done", "error"}

IsNode(x) == x.is \in {"none"} \cup Kinds /\ x.exec \in BOOLEAN

\* The shape of the state: the command runs, and has run, with nothing left to
\* fetch; what is in the working directory is in a directory.
AgentTypeOK ==
  /\ pc \in {"received", "materialize", "start", "run", "failed",
             "stdout", "stderr", "capture"} \cup Answered
  /\ pc \notin {"materialize", "capture"} => todo = <<>>
  /\ ctxErr \in {"deadline", "canceled", Nil}
  /\ killed \in BOOLEAN /\ killed => ctxErr # Nil
  /\ exit \in {0, 1, -1, Nil}
  /\ result.exit \in {0, 1, -1, 124, Nil}
  /\ pc \in {"stdout", "stderr", "capture", "done"} => result.exit # Nil
  /\ \A p \in Paths :
       /\ IsNode(disk[p]) /\ IsNode(built[p])
       /\ disk[p] # Nothing /\ p # <<>> => Is(SE!Front(p), "dir")

\* The entries of a name in the directories of a set of nodes.
Entries(S, n) ==
  UNION {{Unmarshal(x.data)[k] : k \in DOMAIN Unmarshal(x.data) \cap {n}} :
           x \in {y \in S : y.is = "dir"}}

\* The nodes at a path below those of a set, and below a Directory message, of which
\* there is one or none.
NodesBelow(S, p) ==
  LET at[i \in 0..Len(p)] == IF i = 0 THEN S ELSE Entries(at[i - 1], p[i]) IN at[Len(p)]
NodesAt(d, p) == NodesBelow({Node("dir", d, FALSE)}, p)

\* What there is at each path below one that holds a Directory message's tree.
IsTree(d, p) ==
  \A q \in {r \in Paths : SE!IsPrefix(p, r)} :
    (IF disk[q] = Nothing THEN {} ELSE {disk[q]})
      = {IF x.is = "dir" THEN Directory ELSE x : x \in NodesAt(d, SubSeq(q, Len(p) + 1, Len(q)))}

\* The command starts in the input tree that its action names, all of it and
\* nothing else, with the files' contents and modes: a blob that is missing, or a
\* store that fails, is never an input that is not there.
InputsInPlace == pc = "materialize" /\ todo = <<>> => IsTree(root, <<>>)

\* An answer of 0 is of a command that has ended by itself and well, before any
\* kill, and 124 of one that ran into its deadline; otherwise the answer is the
\* command's own exit code (runTask's switch and os/exec's order of errors).
ExitCodeIsTrue ==
  pc = "done" =>
    \/ result.exit = exit /\ (exit = 0 => ~killed)
    \/ result.exit = 124 /\ ctxErr = "deadline" /\ exit \in {0, Nil}

\* What an answered result names can be fetched, directory by directory or by the
\* Tree, which has every directory below it: even when the command has left
\* processes that go on writing while the outputs are captured.
ResultIsStored ==
  pc = "done" =>
    /\ Contains(result.stdout) /\ Contains(result.stderr)
    /\ \A f \in result.files : Contains(f.data)
    /\ \A o \in result.directories :
         /\ o.tree \in trees
         /\ o.data = Marshal(o.tree.root)
         /\ Contains(o.data)
         /\ \A m \in {o.tree.root} \cup o.tree.children : \A n \in DOMAIN m :
              /\ m[n].is # "link" => Contains(m[n].data)
              /\ m[n].is = "dir" => Unmarshal(m[n].data) \in o.tree.children

\* When every output is captured, and no process is left to change them, the
\* result says what there is at each output path, down to the modes of files and
\* the empty directories; outputs that are missing are left out.
OutputsAreWhatIsThere ==
  pc = "capture" /\ todo = <<>> /\ ~left =>
    /\ result.stdout = disk[<<Stdout>>].data /\ result.stderr = disk[<<Stderr>>].data
    /\ \A i \in DOMAIN outputPaths :
         LET p == command.dir \o outputPaths[i]
             of(is) == IF Is(p, is)
                         THEN {[path |-> p, data |-> disk[p].data, exec |-> disk[p].exec]} ELSE {}
         IN  /\ {f \in result.files : f.path = p} = of("file")
             /\ {l \in result.symlinks : l.path = p} = of("link")
             /\ Is(p, "dir") <=> \E o \in result.directories : o.path = p
             /\ \A o \in result.directories : o.path = p => IsTree(o.data, p)

\* A task with a time limit is answered, whatever its command does: it is killed
\* at the deadline, and what it leaves behind can be captured or is an error.
LimitedTaskAnswered == seconds > 0 ~> pc \in Answered

\* "TimeoutSeconds bounds command execution. Zero means the server default."
\* (task.go:31): every command that starts ends.
TimeoutBounds == pc = "run" ~> pc # "run"

=============================================================================
