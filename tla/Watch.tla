------------------------------- MODULE Watch -------------------------------
(***************************************************************************)
(* What a long-running operation promises to the clients that stream it:   *)
(* a watcher sees a subsequence of the operation's updates in the order in *)
(* which they were published, never the same one twice in a row, never     *)
(* stops on its own before the terminal update, and is not left behind.    *)
(* How the server does it (snapshots, channels, sends) is in Operations.   *)
(***************************************************************************)
CONSTANTS
  Names,      \* the operations
  Calls,      \* the watchers: streams of Execute and WaitExecution
  Updates,    \* the values an operation can publish
  Terminal,   \* those that end it
  Nil         \* no update yet

VARIABLES
  current,    \* the last update published, of each operation
  watch,      \* each watcher is "idle", "open", "finished" or "left"
  target,     \* the operation it watches
  seen        \* the last update taken for it

vars == <<current, watch, target, seen>>

Init ==
  /\ current = [n \in Names |-> Nil]
  /\ watch = [c \in Calls |-> "idle"]
  /\ target = [c \in Calls |-> Nil]
  /\ seen = [c \in Calls |-> Nil]

Publish(n, u) ==
  /\ current[n] \notin Terminal
  /\ current' = [current EXCEPT ![n] = u]
  /\ UNCHANGED <<watch, target, seen>>

Open(c, n) ==
  /\ watch[c] = "idle"
  /\ watch' = [watch EXCEPT ![c] = "open"]
  /\ target' = [target EXCEPT ![c] = n]
  /\ UNCHANGED <<current, seen>>

\* The current update is taken for the watcher: the ones it can miss are those
\* that a later update has replaced.
Observe(c) ==
  /\ watch[c] = "open"
  /\ current[target[c]] \notin {Nil, seen[c]}
  /\ seen' = [seen EXCEPT ![c] = current[target[c]]]
  /\ UNCHANGED <<current, watch, target>>

Finish(c) ==
  /\ watch[c] = "open"
  /\ seen[c] \in Terminal
  /\ watch' = [watch EXCEPT ![c] = "finished"]
  /\ UNCHANGED <<current, target, seen>>

\* Clients disconnect, and a stopped server drops all of them at once.
Leave(S) ==
  /\ \A c \in S : watch[c] = "open"
  /\ watch' = [c \in Calls |-> IF c \in S THEN "left" ELSE watch[c]]
  /\ UNCHANGED <<current, target, seen>>

Next ==
  \/ \E n \in Names, u \in Updates : Publish(n, u)
  \/ \E c \in Calls, n \in Names : Open(c, n)
  \/ \E c \in Calls : Observe(c) \/ Finish(c)
  \/ \E S \in SUBSET Calls : Leave(S)

SafetySpec == Init /\ [][Next]_vars

\* An update that nobody replaces is taken in the end, and a watcher that has been
\* given a terminal one finishes.
Spec ==
  /\ SafetySpec
  /\ \A c \in Calls : WF_vars(Observe(c)) /\ WF_vars(Finish(c))

=============================================================================
