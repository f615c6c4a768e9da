------------------------- MODULE Operations_proofs --------------------------
(***************************************************************************)
(* Theorems about Operations, for any operations, calls and updates.       *)
(*                                                                         *)
(* None of its invariants is inductive: that a call blocked in select has  *)
(* missed nothing rests on what its last snapshot was (SnapshotOK), on     *)
(* what it has sent before (CallOK), and on how an entry's fields move     *)
(* together (EntryOK).                                                     *)
(***************************************************************************)
EXTENDS Operations, TLAPS

\* An entry is done when its latest update is terminal; every channel but the
\* current one is closed; clients know it once it has an update.
EntryOK ==
  \A n \in Names :
    /\ done[n] <=> latest[n] \in Terminal
    /\ closed[n] = {i \in Nat : i < changed[n]}
    /\ n \in known => latest[n] # Nil

\* A call that runs has not sent a terminal update, and what it has sent, or has
\* been told to get, is an update that there was.
CallOK ==
  \A c \in Calls :
    /\ pc[c] = "idle" => sent[c] = Nil /\ snap[c].op = Nil
    /\ pc[c] \in Running \cup {"OK"} => name[c] \in Names
    /\ pc[c] \in Running =>
         /\ kind[c] \in Kinds
         /\ kind[c] = "stream" => sent[c] \notin Terminal
         /\ kind[c] = "stream" /\ sent[c] # Nil => latest[name[c]] # Nil
         /\ kind[c] = "get" => latest[name[c]] # Nil
         /\ snap[c].op # Nil => latest[name[c]] # Nil

\* A snapshot is the entry's state until its channel is closed, and for good if it
\* is done; a call is blocked only on one that is not, and that it has sent.
SnapshotOK ==
  \A c \in Calls : pc[c] \in {"send", "select"} =>
    /\ snap[c].changed <= changed[name[c]]
    /\ snap[c].changed = changed[name[c]] => snap[c].op = latest[name[c]]
    /\ snap[c].done <=> snap[c].op \in Terminal
    /\ snap[c].done => snap[c].op = latest[name[c]]
    /\ pc[c] = "send" => snap[c].op # Nil /\ kind[c] = "stream"
    /\ pc[c] = "select" =>
         ~snap[c].done /\ (kind[c] = "stream" => sent[c] = snap[c].op)

IndInv ==
  /\ TypeOK /\ EntryOK /\ CallOK /\ SnapshotOK
  /\ OkMeansTerminal /\ NotFoundMeansRemoved

\* The initial state has the shape, and no call has begun.
LEMMA InitIndInv == Init => IndInv
<1> SUFFICES ASSUME Init PROVE IndInv
  OBVIOUS
<1>1. TypeOK
  BY DEF Init, TypeOK, Message, Kinds, Running, Returned, Refusals
<1>2. EntryOK
  <2> SUFFICES ASSUME NEW n \in Names
               PROVE  /\ ~done[n] /\ latest[n] \notin Terminal
                      /\ closed[n] = {i \in Nat : i < changed[n]}
                      /\ n \notin known
    BY DEF EntryOK
  <2>1. closed[n] = {} /\ changed[n] = 0
    BY DEF Init
  <2>2. closed[n] = {i \in Nat : i < changed[n]}
    BY <2>1
  <2> QED
    BY <2>2, UpdatesAssumption DEF Init
<1>3. CallOK /\ SnapshotOK /\ OkMeansTerminal /\ NotFoundMeansRemoved
  BY DEF Init, CallOK, SnapshotOK, OkMeansTerminal, NotFoundMeansRemoved, Running
<1> QED
  BY <1>1, <1>2, <1>3 DEF IndInv

-----------------------------------------------------------------------------
(* The shape of the state *)

\* publish keeps the fields of an entry in their types.
LEMMA PublishType ==
  ASSUME TypeOK, NEW n \in Names, NEW u \in Updates, publish(n, u)
  PROVE  /\ latest' \in [Names -> Message]
         /\ done' \in [Names -> BOOLEAN]
         /\ changed' \in [Names -> Nat]
         /\ closed' \in [Names -> SUBSET Nat]
         /\ published' \in [Names -> SUBSET Updates]
<1>1. CASE done[n]
  BY <1>1 DEF TypeOK, publish, entryVars
<1>2. CASE ~done[n]
  <2>1. latest' \in [Names -> Message]
    BY <1>2 DEF TypeOK, publish, Message
  <2>2. done' \in [Names -> BOOLEAN]
    <3> DEFINE b == u \in Terminal
    <3>1. b \in BOOLEAN
      OBVIOUS
    <3>2. done' = [done EXCEPT ![n] = b]
      BY <1>2 DEF publish
    <3> QED
      BY <3>1, <3>2, Zenon DEF TypeOK
  <2>3. changed' \in [Names -> Nat] /\ closed' \in [Names -> SUBSET Nat]
    BY <1>2 DEF TypeOK, publish
  <2>4. published' \in [Names -> SUBSET Updates]
    BY <1>2 DEF TypeOK, publish
  <2> QED
    BY <2>1, <2>2, <2>3, <2>4
<1> QED
  BY <1>1, <1>2

\* Every step keeps the shape of the state: the type invariant is inductive.
LEMMA NextTypeOK == TypeOK /\ [Next]_opVars => TypeOK'
<1> SUFFICES ASSUME TypeOK, [Next]_opVars PROVE TypeOK'
  OBVIOUS
<1> USE DEF TypeOK, Message, Kinds, Running, Returned, Refusals
<1>1. ASSUME NEW c \in Calls, Snapshot(c) PROVE TypeOK'
  <2> DEFINE s == snapshot(name[c])
  <2>1. name[c] \in Names /\ s \in [op: Message, done: BOOLEAN, changed: Nat]
    BY <1>1 DEF Snapshot, snapshot
  <2>2. snap' = [snap EXCEPT ![c] = s]
    BY <1>1 DEF Snapshot
  <2> HIDE DEF s
  <2>3. StreamSnapshot(c, s) \/ WaitSnapshot(c, s) \/ GetSnapshot(c, s)
    BY <1>1 DEF Snapshot, s
  <2>4. UNCHANGED <<issued, entries, registered, entryVars, cancelled, kind, name, gone>>
    BY <1>1 DEF Snapshot
  <2>5. /\ pc' \in [Calls -> {"idle"} \cup Running \cup Returned]
        /\ \A d \in Calls : d # c => pc'[d] = pc[d]
    BY <2>3 DEF StreamSnapshot, WaitSnapshot, GetSnapshot, Answer
  <2>6. sent' \in [Calls -> Message] /\ known' \subseteq issued
    BY <1>1, <2>1, <2>3 DEF Snapshot, StreamSnapshot, WaitSnapshot, GetSnapshot, Answer
  <2>7. snap' \in [Calls -> [op: Message, done: BOOLEAN, changed: Nat]]
    BY <2>1, <2>2
  <2>8. \A d \in Calls : pc'[d] \in Running => name[d] \in entries /\ kind[d] \in Kinds
    BY <1>1, <2>5 DEF Snapshot
  <2> QED
    BY <2>4, <2>5, <2>6, <2>7, <2>8 DEF entryVars
<1>2. ASSUME NEW c \in Calls, Send(c) PROVE TypeOK'
  BY <1>2 DEF Send, Answer, entryVars
<1>3. ASSUME NEW c \in Calls, Abandon(c) \/ Wake(c) PROVE TypeOK'
  BY <1>3 DEF Abandon, Wake, Return, entryVars
<1>4. ASSUME NEW c \in Calls, Disconnect(c) PROVE TypeOK'
  BY <1>4 DEF Disconnect, entryVars
<1>5. ASSUME NEW c \in Calls, NEW n \in Names, Start(c, n) PROVE TypeOK'
  BY <1>5 DEF Start, New, Follow, entryVars
<1>6. ASSUME NEW c \in Calls, NEW code \in Refusals, Reject(c, code) PROVE TypeOK'
  BY <1>6 DEF Reject, Refuse, entryVars
<1>7. ASSUME NEW c \in Calls, NEW n \in Names, NEW k \in Kinds,
             Lookup(c, k, n)
      PROVE  TypeOK'
  <2>1. UNCHANGED <<issued, entries, registered, entryVars, cancelled, known, snap, sent, gone>>
    BY <1>7 DEF Lookup, Follow, Refuse
  <2>2. \E label \in {"snapshot", "NotFound"} :
          /\ kind' = [kind EXCEPT ![c] = k]
          /\ name' = [name EXCEPT ![c] = n]
          /\ pc' = [pc EXCEPT ![c] = label]
          /\ label = "snapshot" => n \in registered
    BY <1>7 DEF Lookup, Follow, Refuse, lookup
  <2>3. /\ kind' \in [Calls -> Kinds \cup {Nil}]
        /\ name' \in [Calls -> Names \cup {Nil}]
        /\ pc' \in [Calls -> {"idle"} \cup Running \cup Returned]
    BY <2>2
  <2>4. ASSUME NEW d \in Calls, pc'[d] \in Running
        PROVE  name'[d] \in entries /\ kind'[d] \in Kinds
    <3>1. CASE d = c
      BY <2>2, <2>4, <3>1
    <3>2. CASE d # c
      <4>1. name'[d] = name[d] /\ kind'[d] = kind[d] /\ pc'[d] = pc[d]
        BY <2>2, <3>2
      <4> QED
        BY <2>4, <4>1
    <3> QED
      BY <3>1, <3>2
  <2> QED
    BY <2>1, <2>3, <2>4 DEF entryVars
<1>8. ASSUME NEW n \in Names, DeleteOperation(n) \/ CancelOperation(n) \/ Release(n)
      PROVE  TypeOK'
  BY <1>8 DEF DeleteOperation, CancelOperation, Release, entryVars, callVars
<1>9. ASSUME NEW n \in Names, NEW u \in Updates, Publish(n, u) PROVE TypeOK'
  BY <1>9, PublishType DEF Publish, callVars
<1>10. CASE ListOperations
  BY <1>10 DEF ListOperations, entryVars, callVars
<1>11. CASE Crash
  BY <1>11 DEF Crash, entryVars
<1>12. CASE UNCHANGED opVars
  BY <1>12 DEF opVars, entryVars, callVars
<1> HIDE DEF TypeOK, Message, Kinds, Running, Returned, Refusals
<1> QED
  BY <1>1, <1>2, <1>3, <1>4, <1>5, <1>6, <1>7, <1>8, <1>9, <1>10, <1>11, <1>12
     DEF Next, Step

-----------------------------------------------------------------------------
(* What a blocked call has missed *)

\* A publish keeps what every call's last snapshot says: it closes the channel of
\* the one that is current, and leaves an entry that is done alone.
LEMMA PublishIndInv ==
  ASSUME IndInv, TypeOK', NEW n \in Names, NEW u \in Updates, Publish(n, u)
  PROVE  IndInv'
<1> USE UpdatesAssumption
<1>1. CASE done[n]
  <2>1. UNCHANGED <<entryVars, callVars, known, registered, issued>>
    BY <1>1 DEF Publish, publish
  <2>2. EntryOK'
    BY <2>1 DEF IndInv, EntryOK, entryVars
  <2>3. CallOK' /\ SnapshotOK'
    BY <2>1 DEF IndInv, CallOK, SnapshotOK, entryVars, callVars
  <2>4. OkMeansTerminal' /\ NotFoundMeansRemoved'
    BY <2>1 DEF IndInv, OkMeansTerminal, NotFoundMeansRemoved, entryVars, callVars
  <2> QED
    BY <2>2, <2>3, <2>4 DEF IndInv
<1>2. CASE ~done[n]
  <2>1. /\ UNCHANGED <<callVars, known, registered, issued>>
        /\ latest' = [latest EXCEPT ![n] = u]
        /\ done' = [done EXCEPT ![n] = u \in Terminal]
        /\ closed' = [closed EXCEPT ![n] = @ \cup {changed[n]}]
        /\ changed' = [changed EXCEPT ![n] = @ + 1]
        /\ latest[n] \notin Terminal
    BY <1>2 DEF Publish, publish, IndInv, EntryOK
  <2>2. /\ latest'[n] = u /\ changed'[n] = changed[n] + 1
        /\ \A m \in Names \ {n} : latest'[m] = latest[m] /\ changed'[m] = changed[m]
        /\ u # Nil
    BY <2>1 DEF IndInv, TypeOK
  <2>3. EntryOK'
    <3> SUFFICES ASSUME NEW m \in Names
                 PROVE  /\ done'[m] <=> latest'[m] \in Terminal
                        /\ closed'[m] = {i \in Nat : i < changed'[m]}
                        /\ m \in known' => latest'[m] # Nil
      BY DEF EntryOK
    <3>1. done'[m] <=> latest'[m] \in Terminal
      <4>1. CASE m = n
        <5>1. n \in DOMAIN done
          BY DEF IndInv, TypeOK
        <5>2. done'[n] = (u \in Terminal)
          BY <2>1, <5>1, Zenon
        <5>3. done'[n] <=> u \in Terminal
          BY <5>2, Zenon
        <5> QED
          BY <2>2, <4>1, <5>3, Zenon
      <4>2. CASE m # n
        <5>1. done'[m] = done[m]
          <6>1. m \in DOMAIN done
            BY DEF IndInv, TypeOK
          <6> QED
            BY <2>1, <4>2, <6>1, Zenon
        <5>2. latest'[m] = latest[m]
          BY <2>2, <4>2
        <5>3. done[m] <=> latest[m] \in Terminal
          BY DEF IndInv, EntryOK
        <5> QED
          BY <5>1, <5>2, <5>3, Zenon
      <4> QED
        BY <4>1, <4>2
    <3>2. closed'[m] = {i \in Nat : i < changed'[m]}
      <4>1. closed[m] = {i \in Nat : i < changed[m]} /\ changed[m] \in Nat
        BY DEF IndInv, EntryOK, TypeOK
      <4>2. CASE m = n
        <5>1. closed'[m] = closed[m] \cup {changed[m]} /\ changed'[m] = changed[m] + 1
          BY <2>1, <4>2 DEF IndInv, TypeOK
        <5> QED
          BY <4>1, <5>1
      <4>3. CASE m # n
        <5>1. closed'[m] = closed[m] /\ changed'[m] = changed[m]
          BY <2>1, <4>3 DEF IndInv, TypeOK
        <5> QED
          BY <4>1, <5>1
      <4> QED
        BY <4>2, <4>3
    <3> QED
      BY <2>1, <2>2, <3>1, <3>2 DEF IndInv, EntryOK
  <2>4. CallOK'
    BY <2>1, <2>2 DEF IndInv, CallOK, callVars, Running
  <2>5. SnapshotOK'
    <3> SUFFICES ASSUME NEW c \in Calls, pc[c] \in {"send", "select"}
                 PROVE  /\ snap[c].changed <= changed'[name[c]]
                        /\ snap[c].changed = changed'[name[c]] => snap[c].op = latest'[name[c]]
                        /\ snap[c].done => snap[c].op = latest'[name[c]]
      BY <2>1 DEF IndInv, SnapshotOK, callVars
    <3>1. name[c] \in Names /\ snap[c].changed \in Nat /\ changed[name[c]] \in Nat
      BY DEF IndInv, CallOK, Running, TypeOK
    <3> QED
      BY <2>1, <2>2, <3>1 DEF IndInv, SnapshotOK
  <2>6. OkMeansTerminal' /\ NotFoundMeansRemoved'
    BY <2>1, <2>2 DEF IndInv, OkMeansTerminal, NotFoundMeansRemoved, CallOK, callVars
  <2> QED
    BY <2>3, <2>4, <2>5, <2>6 DEF IndInv
<1> QED
  BY <1>1, <1>2

\* A snapshot is the state of its entry: the call answers with a terminal update,
\* or is left with something to send or something to wait for.
LEMMA SnapshotIndInv ==
  ASSUME IndInv, TypeOK', NEW c \in Calls, Snapshot(c)
  PROVE  IndInv'
<1> USE UpdatesAssumption
<1> DEFINE n == name[c]
           s == snapshot(n)
<1>1. /\ n \in Names /\ pc[c] = "snapshot" /\ kind[c] \in Kinds
      /\ latest[n] \in Message /\ changed[n] \in Nat
      /\ done[n] <=> latest[n] \in Terminal
      /\ s.op = latest[n] /\ s.done = done[n] /\ s.changed = changed[n]
  BY DEF Snapshot, IndInv, CallOK, Running, TypeOK, EntryOK, snapshot
<1>2. /\ UNCHANGED <<issued, registered, entryVars, kind, name>>
      /\ snap' = [snap EXCEPT ![c] = s]
      /\ StreamSnapshot(c, s) \/ WaitSnapshot(c, s) \/ GetSnapshot(c, s)
  BY DEF Snapshot
<1>3. /\ kind[c] = "stream" => sent[c] \notin Terminal
      /\ kind[c] = "stream" /\ sent[c] # Nil => latest[n] # Nil
      /\ kind[c] = "get" => latest[n] # Nil
  BY <1>1 DEF IndInv, CallOK, Running
<1> HIDE DEF s
<1>4. \/ /\ kind[c] = "stream" /\ UNCHANGED <<sent, known>>
         /\ \/ pc' = [pc EXCEPT ![c] = "select"] /\ s.op = sent[c] /\ ~s.done
            \/ pc' = [pc EXCEPT ![c] = "send"] /\ s.op # Nil
      \/ /\ kind[c] = "wait" /\ ~s.done /\ UNCHANGED <<sent, known>>
         /\ pc' = [pc EXCEPT ![c] = "select"]
      \/ /\ \/ kind[c] = "wait" /\ s.op \in Terminal
            \/ kind[c] = "get" /\ s.op # Nil
         /\ pc' = [pc EXCEPT ![c] = "OK"]
         /\ sent' = [sent EXCEPT ![c] = s.op]
         /\ known' = known \cup {n}
  <2>1. CASE StreamSnapshot(c, s)
    BY <1>1, <1>3, <2>1 DEF StreamSnapshot
  <2>2. CASE WaitSnapshot(c, s)
    BY <1>1, <2>2 DEF WaitSnapshot, Answer
  <2>3. CASE GetSnapshot(c, s)
    BY <1>1, <1>3, <2>3 DEF GetSnapshot, Answer
  <2> QED
    BY <1>2, <2>1, <2>2, <2>3
<1>5. EntryOK'
  BY <1>1, <1>2, <1>4 DEF IndInv, EntryOK, entryVars
<1>6. ASSUME NEW d \in Calls, d # c
      PROVE  pc'[d] = pc[d] /\ sent'[d] = sent[d] /\ snap'[d] = snap[d]
  BY <1>2, <1>4, <1>6 DEF IndInv, TypeOK
<1>7. CallOK'
  BY <1>1, <1>2, <1>3, <1>4, <1>6 DEF IndInv, TypeOK, CallOK, Running, entryVars
<1>8. SnapshotOK'
  BY <1>1, <1>2, <1>4, <1>6 DEF IndInv, TypeOK, SnapshotOK, entryVars
<1>9. OkMeansTerminal' /\ NotFoundMeansRemoved'
  BY <1>1, <1>2, <1>4, <1>6
     DEF IndInv, TypeOK, OkMeansTerminal, NotFoundMeansRemoved, entryVars
<1> QED
  BY <1>5, <1>7, <1>8, <1>9 DEF IndInv

\* A call begins with nothing sent, and NotFound only for a name that has gone.
LEMMA BeginIndInv ==
  ASSUME IndInv, TypeOK', NEW c \in Calls,
         \/ \E n \in Names : Start(c, n)
         \/ \E code \in Refusals : Reject(c, code)
         \/ \E n \in Names, k \in Kinds : Lookup(c, k, n)
  PROVE  IndInv'
<1> USE UpdatesAssumption
<1>1. /\ UNCHANGED <<entryVars, known, snap, sent>>
      /\ pc[c] = "idle" /\ sent[c] = Nil
      /\ issued \subseteq issued'
      /\ \A n \in issued : n \in registered' => n \in registered
  BY DEF Start, New, Reject, Refuse, Lookup, Follow, IndInv, CallOK
<1> DEFINE Begins(n, k, l) ==
      /\ name' = [name EXCEPT ![c] = n]
      /\ kind' = [kind EXCEPT ![c] = k]
      /\ pc' = [pc EXCEPT ![c] = l]
      /\ l = "snapshot" => n \in Names /\ (k = "get" => n \in known)
      /\ l = "NotFound" => n \in known /\ n \notin registered /\ registered' = registered
<1>2. PICK n \in Names \cup {Nil}, k \in Kinds, l \in {"snapshot", "NotFound"} \cup Refusals :
        Begins(n, k, l)
  <2>1. CASE \E n \in Names : Start(c, n)
    <3>1. PICK n \in Names : Start(c, n)
      BY <2>1
    <3>2. Begins(n, "stream", "snapshot")
      BY <3>1 DEF Start, Follow
    <3> HIDE DEF Begins
    <3> QED
      BY <3>2 DEF Kinds
  <2>2. CASE \E code \in Refusals : Reject(c, code)
    <3>1. PICK code \in Refusals : Reject(c, code)
      BY <2>2
    <3> QED
      BY <3>1 DEF Reject, Refuse, Kinds, Refusals
  <2>3. CASE \E n \in Names, k \in Kinds : Lookup(c, k, n)
    <3>1. PICK n \in Names, k \in Kinds : Lookup(c, k, n)
      BY <2>3
    <3>2. CASE lookup(n)
      BY <3>1, <3>2 DEF Lookup, Follow
    <3>3. CASE ~lookup(n)
      BY <3>1, <3>3 DEF Lookup, Refuse, lookup
    <3> QED
      BY <3>2, <3>3
  <2> QED
    BY <2>1, <2>2, <2>3
<1>3. ASSUME NEW d \in Calls, d # c
      PROVE  pc'[d] = pc[d] /\ name'[d] = name[d] /\ kind'[d] = kind[d]
  BY <1>2, <1>3 DEF IndInv, TypeOK
<1>4. pc'[c] = l /\ name'[c] = n /\ kind'[c] = k
  BY <1>2 DEF IndInv, TypeOK
<1>5. EntryOK'
  BY <1>1 DEF IndInv, EntryOK, entryVars
<1>6. CallOK'
  BY <1>1, <1>2, <1>3, <1>4 DEF IndInv, CallOK, EntryOK, entryVars, Running, Refusals
<1>7. SnapshotOK'
  BY <1>1, <1>2, <1>3, <1>4 DEF IndInv, SnapshotOK, entryVars, Refusals
<1>8. OkMeansTerminal'
  BY <1>1, <1>2, <1>3, <1>4 DEF IndInv, OkMeansTerminal, entryVars, Refusals
<1>9. NotFoundMeansRemoved'
  BY <1>1, <1>2, <1>3, <1>4 DEF IndInv, TypeOK, NotFoundMeansRemoved, Refusals
<1> QED
  BY <1>5, <1>6, <1>7, <1>8, <1>9 DEF IndInv

\* A send gives the client what the snapshot said, and ends with the terminal one.
LEMMA SendIndInv ==
  ASSUME IndInv, TypeOK', NEW c \in Calls, Send(c)
  PROVE  IndInv'
<1> USE UpdatesAssumption
<1>1. /\ pc[c] = "send" /\ kind[c] = "stream" /\ name[c] \in Names
      /\ snap[c].op # Nil /\ latest[name[c]] # Nil
      /\ snap[c].done <=> snap[c].op \in Terminal
      /\ snap[c].done => snap[c].op = latest[name[c]]
  BY DEF Send, IndInv, CallOK, SnapshotOK, Running
<1>2. /\ UNCHANGED <<issued, registered, entryVars, kind, name, snap>>
      /\ sent' = [sent EXCEPT ![c] = snap[c].op]
      /\ known' = known \cup {name[c]}
      /\ pc' = [pc EXCEPT ![c] = IF snap[c].done THEN "OK" ELSE "select"]
  BY DEF Send, Answer
<1>3. ASSUME NEW d \in Calls, d # c PROVE pc'[d] = pc[d] /\ sent'[d] = sent[d]
  BY <1>2, <1>3 DEF IndInv, TypeOK
<1>4. sent'[c] = snap[c].op /\ pc'[c] = IF snap[c].done THEN "OK" ELSE "select"
  BY <1>2 DEF IndInv, TypeOK
<1>5. EntryOK'
  BY <1>1, <1>2 DEF IndInv, EntryOK, entryVars
<1>6. CallOK'
  BY <1>1, <1>2, <1>3, <1>4 DEF IndInv, CallOK, entryVars, Running
<1>7. SnapshotOK'
  BY <1>1, <1>2, <1>3, <1>4 DEF IndInv, SnapshotOK, entryVars
<1>8. OkMeansTerminal' /\ NotFoundMeansRemoved'
  BY <1>1, <1>2, <1>3, <1>4 DEF IndInv, OkMeansTerminal, NotFoundMeansRemoved, entryVars
<1> QED
  BY <1>5, <1>6, <1>7, <1>8 DEF IndInv

\* A step that moves no entry, and takes no call anywhere but back to its loop or
\* out with an error.
Quiet ==
  /\ UNCHANGED <<issued, latest, done, changed, closed, kind, name, snap, sent>>
  /\ registered' \subseteq registered
  /\ \A n \in known' : n \in known \/ latest[n] # Nil
  /\ \A c \in Calls :
       \/ pc'[c] = pc[c]
       \/ pc[c] \in Running /\ pc'[c] \in {"Canceled", "Unavailable"}
       \/ pc[c] = "select" /\ pc'[c] = "snapshot"

\* The steps of clients that have gone, of the unary calls and of the process.
LEMMA OthersAreQuiet ==
  ASSUME TypeOK,
         \/ \E c \in Calls : Abandon(c) \/ Wake(c) \/ Disconnect(c)
         \/ \E n \in Names : DeleteOperation(n) \/ CancelOperation(n) \/ Release(n)
         \/ ListOperations \/ Crash
         \/ UNCHANGED opVars
  PROVE  Quiet
<1>1. ASSUME NEW c \in Calls, Abandon(c) PROVE Quiet
  BY <1>1 DEF Abandon, Return, Quiet, TypeOK, Running, entryVars
<1>2. ASSUME NEW c \in Calls, Wake(c) PROVE Quiet
  BY <1>2 DEF Wake, Return, Quiet, TypeOK, entryVars
<1>3. ASSUME NEW c \in Calls, Disconnect(c) PROVE Quiet
  BY <1>3 DEF Disconnect, Quiet, entryVars
<1>4. ASSUME NEW n \in Names, DeleteOperation(n) \/ CancelOperation(n) \/ Release(n)
      PROVE  Quiet
  BY <1>4 DEF DeleteOperation, CancelOperation, Release, Quiet, entryVars, callVars
<1>5. CASE ListOperations
  BY <1>5 DEF ListOperations, Quiet, entryVars, callVars
<1>6. CASE Crash
  BY <1>6 DEF Crash, Quiet, TypeOK, Running, entryVars
<1>7. CASE UNCHANGED opVars
  BY <1>7 DEF opVars, Quiet, entryVars, callVars
<1> QED
  BY <1>1, <1>2, <1>3, <1>4, <1>5, <1>6, <1>7

\* They keep the invariant.
LEMMA QuietIndInv ==
  ASSUME IndInv, TypeOK', Quiet
  PROVE  IndInv'
<1>1. EntryOK'
  BY UpdatesAssumption DEF Quiet, IndInv, EntryOK
<1>2. CallOK'
  BY DEF Quiet, IndInv, CallOK, Running
<1>3. SnapshotOK'
  BY DEF Quiet, IndInv, SnapshotOK
<1>4. OkMeansTerminal' /\ NotFoundMeansRemoved'
  BY DEF Quiet, IndInv, OkMeansTerminal, NotFoundMeansRemoved
<1> QED
  BY <1>1, <1>2, <1>3, <1>4 DEF IndInv

\* The invariant is inductive.
LEMMA NextIndInv == IndInv /\ [Next]_opVars => IndInv'
<1> SUFFICES ASSUME IndInv, [Next]_opVars PROVE IndInv'
  OBVIOUS
<1>1. TypeOK'
  BY NextTypeOK DEF IndInv
<1>2. CASE Quiet
  BY <1>1, <1>2, QuietIndInv
<1>3. ASSUME NEW c \in Calls, Snapshot(c) PROVE IndInv'
  BY <1>1, <1>3, SnapshotIndInv
<1>4. ASSUME NEW c \in Calls, Send(c) PROVE IndInv'
  BY <1>1, <1>4, SendIndInv
<1>5. ASSUME NEW n \in Names, NEW u \in Updates, Publish(n, u) PROVE IndInv'
  BY <1>1, <1>5, PublishIndInv
<1>6. ASSUME NEW c \in Calls,
             \/ \E n \in Names : Start(c, n)
             \/ \E code \in Refusals : Reject(c, code)
             \/ \E n \in Names, k \in Kinds : Lookup(c, k, n)
      PROVE  IndInv'
  BY <1>1, <1>6, BeginIndInv
<1>7. TypeOK
  BY DEF IndInv
<1> QED
  BY <1>2, <1>3, <1>4, <1>5, <1>6, <1>7, OthersAreQuiet DEF Next, Step

-----------------------------------------------------------------------------
(* The theorems *)

\* Spec is SafetySpec with fairness added: what is proved of one holds of the other.
LEMMA SpecIsSafe == Spec => SafetySpec
BY PTL DEF Spec

\* The invariant holds throughout.
LEMMA AlwaysIndInv == SafetySpec => []IndInv
BY InitIndInv, NextIndInv, PTL DEF SafetySpec

\* The shape of the state, of any number of operations and calls.
THEOREM TypeCorrect == SafetySpec => []TypeOK
<1>1. IndInv => TypeOK
  BY DEF IndInv
<1> QED
  BY AlwaysIndInv, <1>1, PTL

\* opEntry keeps its promise (operations.go:15-18): whatever the interleaving, a
\* call that is blocked on an open channel has missed no update.
THEOREM NoWakeupIsLost == SafetySpec => []NoLostWakeup
<1>1. IndInv => NoLostWakeup
  <2> SUFFICES ASSUME IndInv, NEW c \in Calls, pc[c] = "select",
                      snap[c].changed \notin closed[name[c]]
               PROVE  /\ ~done[name[c]]
                      /\ kind[c] = "stream" => sent[c] = latest[name[c]]
    BY DEF NoLostWakeup
  <2>1. name[c] \in Names /\ snap[c].changed \in Nat /\ changed[name[c]] \in Nat
    BY DEF IndInv, CallOK, Running, TypeOK
  <2>2. snap[c].changed = changed[name[c]]
    BY <2>1 DEF IndInv, SnapshotOK, EntryOK
  <2> QED
    BY <2>1, <2>2 DEF IndInv, SnapshotOK, EntryOK
<1> QED
  BY AlwaysIndInv, <1>1, PTL

\* A stream, or WaitOperation, that returns OK has delivered the terminal update.
THEOREM OkIsTerminal == SafetySpec => []OkMeansTerminal
<1>1. IndInv => OkMeansTerminal
  BY DEF IndInv
<1> QED
  BY AlwaysIndInv, <1>1, PTL

\* NotFound is never the answer for an operation that exists.
THEOREM NotFoundIsRemoved == SafetySpec => []NotFoundMeansRemoved
<1>1. IndInv => NotFoundMeansRemoved
  BY DEF IndInv
<1> QED
  BY AlwaysIndInv, <1>1, PTL

\* An operation that is done keeps its outcome.
THEOREM DoneStays == SafetySpec => DoneIsFinal
<1>1. TypeOK /\ [Next]_opVars =>
        [\A n \in Names : done[n] => done'[n] /\ latest'[n] = latest[n]]_opVars
  <2> SUFFICES ASSUME TypeOK, Next, NEW n \in Names, done[n]
               PROVE  done'[n] /\ latest'[n] = latest[n]
    BY DEF TypeOK
  <2>1. ASSUME NEW m \in Names, NEW u \in Updates, Publish(m, u)
        PROVE  done'[n] /\ latest'[n] = latest[n]
    BY <2>1 DEF Publish, publish, entryVars, TypeOK
  <2>2. CASE UNCHANGED <<done, latest>>
    BY <2>2
  <2>3. ASSUME ~\E m \in Names, u \in Updates : Publish(m, u)
        PROVE  UNCHANGED <<done, latest>>
    BY <2>3 DEF Next, Step, Snapshot, Send, Abandon, Wake, Return, Disconnect, Start,
       Reject, Lookup, DeleteOperation, CancelOperation, Release, ListOperations,
       Crash, entryVars
  <2> QED
    BY <2>1, <2>2, <2>3
<1> QED
  BY TypeCorrect, <1>1, PTL DEF SafetySpec, DoneIsFinal

-----------------------------------------------------------------------------
(* The streams implement Watch *)

\* What a watcher is, of one call: the mapping without its functions.
LEMMA WatcherOf ==
  ASSUME NEW c \in Calls
  PROVE  /\ ~Streaming(c) => Watching[c] = "idle" /\ Watched[c] = Nil /\ Taken[c] = Nil
         /\ Streaming(c) =>
              /\ pc[c] \in Running => Watching[c] = "open"
              /\ pc[c] = "OK" => Watching[c] = "finished"
              /\ pc[c] \notin Running \cup {"OK"} => Watching[c] = "left"
              /\ Watched[c] = name[c]
              /\ Taken[c] = snap[c].op
BY DEF Watching, Watched, Taken, Running

\* A call that neither starts nor stops streaming is the same watcher, and one that
\* takes no other update has taken the same.
LEMMA SameWatchers ==
  ASSUME \A c \in Calls :
           /\ Streaming(c)' <=> Streaming(c)
           /\ Streaming(c) =>
                /\ name'[c] = name[c]
                /\ pc'[c] = pc[c] \/ (pc[c] \in Running /\ pc'[c] \in Running)
  PROVE  /\ Watching' = Watching /\ Watched' = Watched
         /\ (\A c \in Calls : Streaming(c) => snap'[c].op = snap[c].op) => Taken' = Taken
<1>1. Watched' = Watched
  BY DEF Watched
<1>2. ASSUME \A c \in Calls : Streaming(c) => snap'[c].op = snap[c].op
      PROVE  Taken' = Taken
  BY <1>2 DEF Taken
<1>3. Watching' = Watching
  BY DEF Watching, Running
<1> QED
  BY <1>1, <1>2, <1>3

\* Publish publishes, until the operation has ended.
LEMMA PublishRefines ==
  ASSUME IndInv, NEW n \in Names, NEW u \in Updates, Publish(n, u)
  PROVE  [W!Next]_W!vars
<1>1. UNCHANGED <<Watching, Watched, Taken>>
  BY SameWatchers DEF Publish, callVars, Streaming
<1>2. CASE done[n]
  BY <1>1, <1>2 DEF Publish, publish, entryVars, W!vars
<1>3. CASE ~done[n]
  <2>1. latest[n] \notin Terminal /\ latest' = [latest EXCEPT ![n] = u]
    BY <1>3 DEF Publish, publish, IndInv, EntryOK
  <2>2. W!Publish(n, u)
    BY <1>1, <2>1 DEF W!Publish
  <2> QED
    BY <2>2 DEF W!Next
<1> QED
  BY <1>2, <1>3

\* The call that enters the loop of stream opens; any other is no watcher.
LEMMA BeginRefines ==
  ASSUME IndInv, NEW c \in Calls,
         \/ \E n \in Names : Start(c, n)
         \/ \E code \in Refusals : Reject(c, code)
         \/ \E n \in Names, k \in Kinds : Lookup(c, k, n)
  PROVE  [W!Next]_W!vars
<1>1. /\ UNCHANGED <<latest, snap>>
      /\ pc[c] = "idle" /\ snap[c].op = Nil /\ ~Streaming(c)
  BY DEF Start, Reject, Refuse, Lookup, Follow, IndInv, CallOK, entryVars, Streaming
<1>2. ASSUME NEW d \in Calls, d # c
      PROVE  pc'[d] = pc[d] /\ name'[d] = name[d] /\ kind'[d] = kind[d]
  BY <1>2 DEF Start, Reject, Refuse, Lookup, Follow, IndInv, TypeOK
<1>3. CASE ~Streaming(c)'
  <2>1. UNCHANGED <<Watching, Watched, Taken>>
    BY <1>1, <1>2, <1>3, SameWatchers DEF Streaming
  <2> QED
    BY <1>1, <2>1 DEF W!vars
<1>4. CASE Streaming(c)'
  <2>1. PICK n \in Names : pc'[c] = "snapshot" /\ name'[c] = n
    BY <1>4 DEF Start, Reject, Refuse, Lookup, Follow, IndInv, TypeOK, Streaming
  <2>2. \A d \in Calls \ {c} :
          Watching'[d] = Watching[d] /\ Watched'[d] = Watched[d] /\ Taken'[d] = Taken[d]
    BY <1>1, <1>2 DEF Watching, Watched, Taken, Streaming
  <2>3. Watching[c] = "idle" /\ Taken[c] = Nil
    BY <1>1, WatcherOf
  <2>4. Watching'[c] = "open" /\ Watched'[c] = n /\ Taken'[c] = Nil
    BY <1>1, <1>4, <2>1 DEF Watching, Watched, Taken, Running
  <2>5. Watching' = [Watching EXCEPT ![c] = "open"]
    BY <2>2, <2>4, ZenonT(40) DEF Watching
  <2>6. Watched' = [Watched EXCEPT ![c] = n]
    BY <2>2, <2>4 DEF Watched
  <2>7. Taken' = Taken
    BY <2>2, <2>3, <2>4 DEF Taken
  <2>8. W!Open(c, n)
    BY <1>1, <2>3, <2>5, <2>6, <2>7 DEF W!Open
  <2> QED
    BY <2>8 DEF W!Next
<1> QED
  BY <1>3, <1>4

\* A snapshot takes the current update for the stream, if there is one that it has
\* not taken: what it finds again, it has sent.
LEMMA SnapshotRefines ==
  ASSUME IndInv, NEW c \in Calls, Snapshot(c)
  PROVE  [W!Next]_W!vars
<1> DEFINE n == name[c]
           s == snapshot(n)
<1>1. /\ pc[c] = "snapshot" /\ n \in Names /\ s.op = latest[n]
      /\ UNCHANGED <<latest, kind, name>>
      /\ snap' = [snap EXCEPT ![c] = s]
      /\ kind[c] = "stream" /\ snap[c].op # Nil => latest[n] # Nil
      /\ StreamSnapshot(c, s) \/ WaitSnapshot(c, s) \/ GetSnapshot(c, s)
  BY DEF Snapshot, IndInv, CallOK, Running, entryVars, snapshot
<1> HIDE DEF s
<1>2. ASSUME NEW d \in Calls, d # c PROVE pc'[d] = pc[d] /\ snap'[d] = snap[d]
  BY <1>1, <1>2 DEF IndInv, TypeOK, StreamSnapshot, WaitSnapshot, GetSnapshot, Answer
<1>3. snap'[c] = s
  BY <1>1 DEF IndInv, TypeOK
<1>4. CASE kind[c] # "stream"
  <2>1. UNCHANGED <<Watching, Watched, Taken>>
    BY <1>1, <1>2, <1>4, SameWatchers DEF Streaming
  <2> QED
    BY <1>1, <2>1 DEF W!vars
<1>5. CASE kind[c] = "stream"
  <2>1. Streaming(c) /\ Streaming(c)' /\ pc'[c] \in Running
    BY <1>1, <1>5 DEF Streaming, Refusals, Running, StreamSnapshot, WaitSnapshot,
       GetSnapshot, IndInv, TypeOK
  <2>2. CASE latest[n] = snap[c].op
    <3>1. UNCHANGED <<Watching, Watched, Taken>>
      BY <1>1, <1>2, <1>3, <2>1, <2>2, SameWatchers DEF Streaming, Running
    <3> QED
      BY <1>1, <3>1 DEF W!vars
  <2>3. CASE latest[n] # snap[c].op
    <3>1. Watching[c] = "open" /\ Watched[c] = n /\ Taken[c] = snap[c].op
      BY <1>1, <2>1, WatcherOf DEF Running
    <3>2. ASSUME NEW d \in Calls PROVE Streaming(d)' <=> Streaming(d)
      BY <1>1, <1>2, <2>1 DEF Streaming
    <3>3. Watching' = Watching /\ Watched' = Watched
      BY <1>1, <1>2, <2>1, <3>2, SameWatchers DEF Running
    <3>4. Taken' = [Taken EXCEPT ![c] = latest[n]]
      <4>1. Taken'[c] = latest[n]
        BY <1>1, <1>3, <2>1 DEF Taken
      <4>2. ASSUME NEW d \in Calls, d # c PROVE Taken'[d] = Taken[d]
        BY <1>1, <1>2, <3>2, <4>2 DEF Taken
      <4> QED
        BY <4>1, <4>2 DEF Taken
    <3>5. W!Observe(c)
      BY <1>1, <1>5, <2>3, <3>1, <3>3, <3>4 DEF W!Observe
    <3> QED
      BY <3>5 DEF W!Next
  <2> QED
    BY <2>2, <2>3
<1> QED
  BY <1>4, <1>5

\* A send of the terminal update finishes the stream.
LEMMA SendRefines ==
  ASSUME IndInv, NEW c \in Calls, Send(c)
  PROVE  [W!Next]_W!vars
<1>1. /\ pc[c] = "send" /\ kind[c] = "stream"
      /\ snap[c].done <=> snap[c].op \in Terminal
      /\ UNCHANGED <<latest, kind, name, snap>>
      /\ pc' = [pc EXCEPT ![c] = IF snap[c].done THEN "OK" ELSE "select"]
  BY DEF Send, Answer, IndInv, SnapshotOK, entryVars
<1>2. Streaming(c) /\ Streaming(c)'
  BY <1>1 DEF Streaming, Refusals, IndInv, TypeOK
<1>3. \A d \in Calls : Streaming(d)' <=> Streaming(d)
  BY <1>1, <1>2 DEF Streaming, IndInv, TypeOK
<1>4. CASE ~snap[c].done
  <2>1. UNCHANGED <<Watching, Watched, Taken>>
    BY <1>1, <1>3, <1>4, SameWatchers DEF Running, IndInv, TypeOK
  <2> QED
    BY <1>1, <2>1 DEF W!vars
<1>5. CASE snap[c].done
  <2>1. Watching[c] = "open" /\ Taken[c] = snap[c].op
    BY <1>1, <1>2, WatcherOf DEF Running
  <2>2. Watching' = [Watching EXCEPT ![c] = "finished"]
    BY <1>1, <1>3, <1>2, <1>5 DEF Watching, Running, IndInv, TypeOK
  <2>3. Watched' = Watched /\ Taken' = Taken
    BY <1>1, <1>3 DEF Watched, Taken
  <2>4. W!Finish(c)
    BY <1>1, <1>5, <2>1, <2>2, <2>3 DEF W!Finish
  <2> QED
    BY <2>4 DEF W!Next
<1> QED
  BY <1>4, <1>5

\* The streams that a disconnection or a crash ends leave, together.
LEMMA QuietRefines ==
  ASSUME IndInv, Quiet
  PROVE  [W!Next]_W!vars
<1> DEFINE S == {c \in Calls : Streaming(c) /\ pc[c] \in Running
                                 /\ pc'[c] \in {"Canceled", "Unavailable"}}
<1>1. \A c \in Calls : Streaming(c)' <=> Streaming(c)
  BY DEF Quiet, Streaming, Running, Refusals
<1>2. UNCHANGED <<latest, Watched, Taken>>
  BY <1>1 DEF Quiet, Watched, Taken
<1>3. \A c \in S : Watching[c] = "open"
  BY WatcherOf
<1>4. Watching' = [c \in Calls |-> IF c \in S THEN "left" ELSE Watching[c]]
  <2>1. ASSUME NEW c \in Calls
        PROVE  Watching'[c] = IF c \in S THEN "left" ELSE Watching[c]
    BY <1>1 DEF Quiet, Watching, Running
  <2> HIDE DEF S
  <2> QED
    BY <2>1 DEF Watching
<1>5. W!Leave(S)
  BY <1>2, <1>3, <1>4 DEF W!Leave
<1>6. S \in SUBSET Calls
  OBVIOUS
<1> HIDE DEF S
<1> QED
  BY <1>5, <1>6 DEF W!Next

\* Every step of the manager is a step of Watch, or none.
LEMMA StepRefines == IndInv /\ [Next]_opVars => [W!Next]_W!vars
<1> SUFFICES ASSUME IndInv, [Next]_opVars PROVE [W!Next]_W!vars
  OBVIOUS
<1>1. ASSUME Quiet PROVE [W!Next]_W!vars
  BY <1>1, QuietRefines
<1>2. ASSUME NEW c \in Calls, Snapshot(c) PROVE [W!Next]_W!vars
  BY <1>2, SnapshotRefines
<1>3. ASSUME NEW c \in Calls, Send(c) PROVE [W!Next]_W!vars
  BY <1>3, SendRefines
<1>4. ASSUME NEW n \in Names, NEW u \in Updates, Publish(n, u) PROVE [W!Next]_W!vars
  BY <1>4, PublishRefines
<1>5. ASSUME NEW c \in Calls,
             \/ \E n \in Names : Start(c, n)
             \/ \E code \in Refusals : Reject(c, code)
             \/ \E n \in Names, k \in Kinds : Lookup(c, k, n)
      PROVE  [W!Next]_W!vars
  BY <1>5, BeginRefines
<1>6. TypeOK
  BY DEF IndInv
<1> QED
  BY <1>1, <1>2, <1>3, <1>4, <1>5, <1>6, OthersAreQuiet DEF Next, Step

\* Whatever the interleaving of publishers, calls, clients and crashes, a stream
\* sees its operation's updates in the order they are published, skips only those
\* that were replaced, and stops by itself at the terminal one alone: the safety
\* part of StreamsImplementWatch.
THEOREM StreamsRefineWatch == SafetySpec => W!SafetySpec
<1>1. Init => W!Init
  <2> SUFFICES ASSUME Init PROVE W!Init
    OBVIOUS
  <2>1. \A c \in Calls : ~Streaming(c)
    BY DEF Init, Streaming
  <2>2. /\ Watching = [c \in Calls |-> "idle"]
        /\ Watched = [c \in Calls |-> Nil] /\ Taken = [c \in Calls |-> Nil]
    BY <2>1 DEF Watching, Watched, Taken
  <2> QED
    BY <2>2 DEF W!Init, Init
<1> QED
  BY <1>1, StepRefines, AlwaysIndInv, PTL DEF SafetySpec, W!SafetySpec

=============================================================================
