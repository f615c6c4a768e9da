----------------------------- MODULE Operations -----------------------------
(***************************************************************************)
(* internal/server/operations.go: the OperationManager, the opEntry that   *)
(* publishes an operation's updates, and the gRPC calls that follow it.    *)
(*                                                                         *)
(* Each critical section of opEntry.mu or OperationManager.mu is one step; *)
(* a call takes many steps, interleaved with every other call and with the *)
(* publisher. An update stands for the *lrpb.Operation allocated for it,   *)
(* which is what `op != lastSent' compares: each is published once.        *)
(***************************************************************************)
EXTENDS Naturals

CONSTANTS
  Names,      \* operation names, fresh UUIDs
  Calls,      \* RPCs: every one is made at most once
  Updates,    \* the Operation messages that are published
  Terminal,   \* those with Done set
  Nil         \* Go's nil

ASSUME UpdatesAssumption ==
  /\ Terminal \subseteq Updates
  /\ Nil \notin Updates

VARIABLES
  issued,     \* the names uuid.NewString has returned
  entries,    \* the operations whose opEntry is in memory
  registered, \* the keys of OperationManager.ops
  latest, done, changed,  \* fields of opEntry; a channel is a number
  closed,     \* the channels of each opEntry that are closed
  cancelled,  \* whether the context behind opEntry.cancel is cancelled
  published,  \* history: what each opEntry has been given
  known,      \* history: the names that clients have been told
  kind,       \* of a call, one of Kinds
  pc,         \* where it is, or the gRPC code it has returned
  name,       \* the operation it follows
  snap,       \* what its last snapshot returned
  sent,       \* lastSent, or the Operation it has returned
  gone        \* whether its client has disconnected

entryVars == <<latest, done, changed, closed, published>>
callVars == <<kind, pc, name, snap, sent, gone>>
opVars == <<issued, entries, registered, entryVars, cancelled, known, callVars>>

Kinds == {"stream", "wait", "get"}
Running == {"snapshot", "send", "select"}
Refusals == {"FailedPrecondition", "Internal"}
Returned == {"OK", "NotFound", "Canceled", "Unavailable"} \cup Refusals

Init ==
  /\ issued = {}
  /\ entries = {}
  /\ registered = {}
  /\ latest = [n \in Names |-> Nil]
  /\ done = [n \in Names |-> FALSE]
  /\ changed = [n \in Names |-> 0]
  /\ closed = [n \in Names |-> {}]
  /\ cancelled = [n \in Names |-> FALSE]
  /\ published = [n \in Names |-> {}]
  /\ known = {}
  /\ kind = [c \in Calls |-> Nil]
  /\ pc = [c \in Calls |-> "idle"]
  /\ name = [c \in Calls |-> Nil]
  /\ snap = [c \in Calls |-> [op |-> Nil, done |-> FALSE, changed |-> 0]]
  /\ sent = [c \in Calls |-> Nil]
  /\ gone = [c \in Calls |-> FALSE]

-----------------------------------------------------------------------------
(* opEntry and OperationManager *)

snapshot(n) == [op |-> latest[n], done |-> done[n], changed |-> changed[n]]

\* Faulty publish: no early return once the operation is done.
PublishAlways(n, u) ==
  /\ latest' = [latest EXCEPT ![n] = u]
  /\ done' = [done EXCEPT ![n] = u \in Terminal]
  /\ closed' = [closed EXCEPT ![n] = @ \cup {changed[n]}]
  /\ changed' = [changed EXCEPT ![n] = @ + 1]
  /\ published' = [published EXCEPT ![n] = @ \cup {u}]

\* Faulty publish: the channel is replaced and the old one never closed.
PublishSilently(n, u) ==
  IF done[n]
    THEN UNCHANGED entryVars
    ELSE /\ latest' = [latest EXCEPT ![n] = u]
         /\ done' = [done EXCEPT ![n] = u \in Terminal]
         /\ changed' = [changed EXCEPT ![n] = @ + 1]
         /\ published' = [published EXCEPT ![n] = @ \cup {u}]
         /\ UNCHANGED closed

\* publish: an update after the terminal one is dropped.
publish(n, u) ==
  IF done[n]
    THEN UNCHANGED entryVars
    ELSE /\ latest' = [latest EXCEPT ![n] = u]
         /\ done' = [done EXCEPT ![n] = u \in Terminal]
         /\ closed' = [closed EXCEPT ![n] = @ \cup {changed[n]}]
         /\ changed' = [changed EXCEPT ![n] = @ + 1]
         /\ published' = [published EXCEPT ![n] = @ \cup {u}]

New(n) ==
  /\ n \notin issued
  /\ issued' = issued \cup {n}
  /\ entries' = entries \cup {n}
  /\ registered' = registered \cup {n}

lookup(n) == n \in registered

-----------------------------------------------------------------------------
(* The calls *)

\* The call enters the loop of stream or WaitOperation, or GetOperation's body.
Follow(c, k, n) ==
  /\ kind' = [kind EXCEPT ![c] = k]
  /\ name' = [name EXCEPT ![c] = n]
  /\ pc' = [pc EXCEPT ![c] = "snapshot"]
  /\ UNCHANGED <<snap, sent, gone>>

Refuse(c, k, n, code) ==
  /\ kind' = [kind EXCEPT ![c] = k]
  /\ name' = [name EXCEPT ![c] = n]
  /\ pc' = [pc EXCEPT ![c] = code]
  /\ UNCHANGED <<snap, sent, gone>>

\* The manager's side of Execute: the operation is registered, its publisher
\* starts, and the call streams it.
Start(c, n) ==
  /\ pc[c] = "idle"
  /\ New(n)
  /\ Follow(c, "stream", n)
  /\ UNCHANGED <<entryVars, cancelled, known>>

\* Execute fails before there is an operation: the action is not in the CAS, or
\* cannot be read or decoded.
Reject(c, code) ==
  /\ pc[c] = "idle"
  /\ Refuse(c, "stream", Nil, code)
  /\ UNCHANGED <<issued, entries, registered, entryVars, cancelled, known>>

\* Faulty Lookup: whether the name is in the map is not looked at.
LookupUnchecked(c, k, n) ==
  /\ pc[c] = "idle"
  /\ n \in known
  /\ Follow(c, k, n)
  /\ UNCHANGED <<issued, entries, registered, entryVars, cancelled, known>>

\* WaitExecution streams, WaitOperation waits and GetOperation gets, of an
\* operation whose name the client has been told.
Lookup(c, k, n) ==
  /\ pc[c] = "idle"
  /\ n \in known
  /\ IF lookup(n) THEN Follow(c, k, n) ELSE Refuse(c, k, n, "NotFound")
  /\ UNCHANGED <<issued, entries, registered, entryVars, cancelled, known>>

\* The call stops with an answer, or goes on to its next step.
Answer(c, op, code) ==
  /\ sent' = [sent EXCEPT ![c] = op]
  /\ pc' = [pc EXCEPT ![c] = code]
  /\ known' = known \cup {name[c]}

StreamSnapshot(c, s) ==
  /\ kind[c] = "stream"
  /\ pc' = [pc EXCEPT ![c] = IF s.op \in {Nil, sent[c]} THEN "select" ELSE "send"]
  /\ UNCHANGED <<sent, known>>

WaitSnapshot(c, s) ==
  /\ kind[c] = "wait"
  /\ IF s.done
       THEN Answer(c, s.op, "OK")
       ELSE pc' = [pc EXCEPT ![c] = "select"] /\ UNCHANGED <<sent, known>>

GetSnapshot(c, s) ==
  /\ kind[c] = "get"
  /\ IF s.op = Nil
       THEN pc' = [pc EXCEPT ![c] = "NotFound"] /\ UNCHANGED <<sent, known>>
       ELSE Answer(c, s.op, "OK")

\* Faulty Snapshot: the update is read before the lock is taken for the
\* channel, and may be an older one by then.
SnapshotTorn(c) ==
  /\ pc[c] = "snapshot"
  /\ \E u \in published[name[c]] \cup {Nil} :
       LET s == [op |-> u, done |-> u \in Terminal, changed |-> changed[name[c]]]
       IN  /\ snap' = [snap EXCEPT ![c] = s]
           /\ StreamSnapshot(c, s) \/ WaitSnapshot(c, s) \/ GetSnapshot(c, s)
  /\ UNCHANGED <<issued, entries, registered, entryVars, cancelled, kind, name, gone>>

Snapshot(c) ==
  /\ pc[c] = "snapshot"
  /\ LET s == snapshot(name[c])
     IN  /\ snap' = [snap EXCEPT ![c] = s]
         /\ StreamSnapshot(c, s) \/ WaitSnapshot(c, s) \/ GetSnapshot(c, s)
  /\ UNCHANGED <<issued, entries, registered, entryVars, cancelled, kind, name, gone>>

\* Faulty Send: the stream ends with the first update it has sent.
SendOnce(c) ==
  /\ pc[c] = "send"
  /\ Answer(c, snap[c].op, "OK")
  /\ UNCHANGED <<issued, entries, registered, entryVars, cancelled, kind, name, snap, gone>>

\* stream.Send succeeds: the client has the update, and its name.
Send(c) ==
  /\ pc[c] = "send"
  /\ Answer(c, snap[c].op, IF snap[c].done THEN "OK" ELSE "select")
  /\ UNCHANGED <<issued, entries, registered, entryVars, cancelled, kind, name, snap, gone>>

Return(c, code) ==
  /\ pc' = [pc EXCEPT ![c] = code]
  /\ UNCHANGED <<issued, entries, registered, entryVars, cancelled, known,
                 kind, name, snap, sent, gone>>

\* Send fails, or select takes the context's Done case: either needs a client
\* that has gone.
Abandon(c) ==
  /\ pc[c] \in {"send", "select"}
  /\ gone[c]
  /\ Return(c, "Canceled")

Wake(c) ==
  /\ pc[c] = "select"
  /\ snap[c].changed \in closed[name[c]]
  /\ Return(c, "snapshot")

Step(c) == Snapshot(c) \/ Send(c) \/ Abandon(c) \/ Wake(c)

-----------------------------------------------------------------------------
(* Clients and their unary calls; the end of the process *)

Disconnect(c) ==
  /\ pc[c] \in Running
  /\ ~gone[c]
  /\ gone' = [gone EXCEPT ![c] = TRUE]
  /\ UNCHANGED <<issued, entries, registered, entryVars, cancelled, known,
                 kind, pc, name, snap, sent>>

\* Faulty ListOperations: also lists operations that have no state yet.
ListAll ==
  /\ known' = known \cup registered
  /\ UNCHANGED <<issued, entries, registered, entryVars, cancelled, callVars>>

ListOperations ==
  /\ known' = known \cup {n \in registered : latest[n] # Nil}
  /\ UNCHANGED <<issued, entries, registered, entryVars, cancelled, callVars>>

DeleteOperation(n) ==
  /\ n \in known \cap registered
  /\ registered' = registered \ {n}
  /\ UNCHANGED <<issued, entries, entryVars, cancelled, known, callVars>>

CancelOperation(n) ==
  /\ n \in known
  /\ lookup(n)
  /\ cancelled' = [cancelled EXCEPT ![n] = TRUE]
  /\ UNCHANGED <<issued, entries, registered, entryVars, known, callVars>>

\* The server process ends: nothing of the OperationManager is persisted, and
\* every open call breaks.
Crash ==
  /\ entries # {}
  /\ entries' = {}
  /\ registered' = {}
  /\ pc' = [c \in Calls |-> IF pc[c] \in Running THEN "Unavailable" ELSE pc[c]]
  /\ UNCHANGED <<issued, entryVars, cancelled, known, kind, name, snap, sent, gone>>

\* Whoever holds the entry publishes what it likes, also after a terminal
\* update; cancellation is noticed, or not, by the publisher alone.
Publish(n, u) ==
  /\ n \in entries
  /\ u \notin published[n]
  /\ publish(n, u)
  /\ UNCHANGED <<issued, entries, registered, cancelled, known, callVars>>

\* The publisher calls cancel itself: Execute's deferred cancel().
Release(n) ==
  /\ n \in entries
  /\ cancelled' = [cancelled EXCEPT ![n] = TRUE]
  /\ UNCHANGED <<issued, entries, registered, entryVars, known, callVars>>

Next ==
  \/ \E c \in Calls : Step(c) \/ Disconnect(c)
  \/ \E c \in Calls, n \in Names : Start(c, n)
  \/ \E c \in Calls, code \in Refusals : Reject(c, code)
  \/ \E c \in Calls, n \in Names, k \in Kinds : Lookup(c, k, n)
  \/ \E n \in Names : DeleteOperation(n) \/ CancelOperation(n) \/ Release(n)
  \/ \E n \in Names, u \in Updates : Publish(n, u)
  \/ ListOperations
  \/ Crash

SafetySpec == Init /\ [][Next]_opVars

\* Every call has a goroutine, which runs when it can; clients and the
\* publisher owe nothing.
Spec == SafetySpec /\ \A c \in Calls : WF_opVars(Step(c))

-----------------------------------------------------------------------------
(* Properties *)

Message == Updates \cup {Nil}

\* The shape of the state: a registered operation has an entry, an entry a name
\* that was issued, and a running call follows an entry that is in memory.
TypeOK ==
  /\ issued \subseteq Names
  /\ entries \subseteq issued
  /\ registered \subseteq entries
  /\ known \subseteq issued
  /\ latest \in [Names -> Message]
  /\ done \in [Names -> BOOLEAN]
  /\ changed \in [Names -> Nat]
  /\ closed \in [Names -> SUBSET Nat]
  /\ cancelled \in [Names -> BOOLEAN]
  /\ published \in [Names -> SUBSET Updates]
  /\ kind \in [Calls -> Kinds \cup {Nil}]
  /\ pc \in [Calls -> {"idle"} \cup Running \cup Returned]
  /\ name \in [Calls -> Names \cup {Nil}]
  /\ snap \in [Calls -> [op: Message, done: BOOLEAN, changed: Nat]]
  /\ sent \in [Calls -> Message]
  /\ gone \in [Calls -> BOOLEAN]
  /\ \A c \in Calls : pc[c] \in Running => name[c] \in entries /\ kind[c] \in Kinds

\* opEntry's promise (operations.go:15-18): a call blocked in select on a
\* channel that is still open has missed nothing. The operation is not done,
\* and a stream has sent the latest update.
NoLostWakeup ==
  \A c \in Calls :
    pc[c] = "select" /\ snap[c].changed \notin closed[name[c]] =>
      /\ ~done[name[c]]
      /\ kind[c] = "stream" => sent[c] = latest[name[c]]

\* A stream or WaitOperation that returns without an error has given its client
\* the terminal update, which is the one every other call will give.
OkMeansTerminal ==
  \A c \in Calls :
    pc[c] = "OK" /\ kind[c] # "get" =>
      /\ sent[c] \in Terminal
      /\ sent[c] = latest[name[c]]

\* A client that asks for a name it has been told is answered NotFound only
\* when the operation was deleted or lost with the process: never because the
\* entry has no state yet (GetOperation's second NotFound).
NotFoundMeansRemoved ==
  \A c \in Calls : pc[c] = "NotFound" => name[c] \in issued \ registered

\* Once an operation is done its outcome never changes, whatever else its
\* publisher does: publish's early return.
DoneIsFinal ==
  [][\A n \in Names : done[n] => done'[n] /\ latest'[n] = latest[n]]_opVars

\* Every call that follows an operation which is done returns, and with OK
\* unless its client left or the process ended.
TerminalDelivered ==
  \A c \in Calls :
    (pc[c] \in Running /\ done[name[c]])
      ~> (pc[c] = "OK" \/ gone[c] \/ pc[c] = "Unavailable")

Streaming(c) == kind[c] = "stream" /\ pc[c] \notin {"idle", "NotFound"} \cup Refusals

\* What Watch's variables stand for.
Watching ==
  [c \in Calls |-> CASE ~Streaming(c) -> "idle"
                     [] Streaming(c) /\ pc[c] \in Running -> "open"
                     [] Streaming(c) /\ pc[c] = "OK" -> "finished"
                     [] OTHER -> "left"]
Watched == [c \in Calls |-> IF Streaming(c) THEN name[c] ELSE Nil]
Taken == [c \in Calls |-> IF Streaming(c) THEN snap[c].op ELSE Nil]

W == INSTANCE Watch WITH
  current <- latest, watch <- Watching, target <- Watched, seen <- Taken

\* The streams of Execute and WaitExecution implement Watch, liveness included.
StreamsImplementWatch == W!Spec

=============================================================================
