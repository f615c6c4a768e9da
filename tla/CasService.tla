----------------------------- MODULE CasService -----------------------------
(***************************************************************************)
(* internal/server/cas_service.go: the calls of ContentAddressableStorage  *)
(* and ByteStream that check, write and read blobs, over a Store           *)
(* (internal/cas) in which each request takes effect at once or not at     *)
(* all, and may fail either way.                                           *)
(*                                                                         *)
(* A blob is a sequence of chunks. SHA-256 has no collisions that matter,  *)
(* so that a blob stands for its own hash. A resource name that does not   *)
(* parse turns away a Write or a QueryWriteStatus at once and is left out. *)
(* A malformed digest in a list is one more that no data have: putOne      *)
(* refuses its entry, and the other calls look it up like any other.       *)
(***************************************************************************)
EXTENDS Naturals, Sequences, FiniteSets

CONSTANTS
  Calls,        \* RPCs: every one is made at most once
  Blobs,        \* the contents that are hashed
  Requests,     \* the lists of [digest, data] that the batch calls are given
  Uploads,      \* the [digest, data] that clients write through ByteStream
  Concurrency,  \* FindMissingBlobs's limit: 32
  Nil           \* no blob

Kinds == {"find", "update", "read", "write", "query"}

\* What clients have to send and to ask for, one blob at a time.
Requested == Uploads \cup UNION {{q[i] : i \in DOMAIN q} : q \in Requests}

Chunks == UNION {{b[i] : i \in DOMAIN b} : b \in Blobs}

ASSUME CasAssumption ==
  /\ Concurrency \in Nat \ {0}
  /\ Nil \notin Kinds \cup Seq(Chunks)
  /\ Blobs \subseteq Seq(Chunks)
  /\ Requests \subseteq Seq(Requested)
  /\ \A u \in Requested :
       u.digest.hash \in Blobs /\ u.digest.size \in Nat /\ u.data \in Blobs

VARIABLES
  blobs,    \* the store: keyed by hash alone
  kind,     \* of a call: "find", "update", "read", "write" or "query"
  pc,       \* "idle", "open" or "check", or the gRPC code it has returned
  request,  \* its list of [digest, data]
  next,     \* the next one of the list
  busy,     \* FindMissingBlobs: those that a goroutine holds
  result,   \* what it has found for each, so far
  failed,   \* FindMissingBlobs: whether firstErr is set
  buffer,   \* Write: the temporary file
  before    \* history: the store when the call began

callVars == <<kind, pc, request, next, busy, result, failed, buffer, before>>
vars == <<blobs, callVars>>

Codes == {"OK", "InvalidArgument", "Internal", "NotFound", "Canceled"}

\* What a call says of one digest: nothing yet, present or missing, or a code.
Answer(what, data) == [is |-> what, data |-> data]

Init ==
  /\ blobs = [h \in Blobs |-> Nil]
  /\ kind = [c \in Calls |-> Nil]
  /\ pc = [c \in Calls |-> "idle"]
  /\ request = [c \in Calls |-> <<>>]
  /\ next = [c \in Calls |-> 1]
  /\ busy = [c \in Calls |-> {}]
  /\ result = [c \in Calls |-> <<>>]
  /\ failed = [c \in Calls |-> FALSE]
  /\ buffer = [c \in Calls |-> <<>>]
  /\ before = [c \in Calls |-> blobs]

-----------------------------------------------------------------------------
(* Store *)

IsEmpty(d) == d.size = 0 /\ d.hash = <<>>

Contains(d) == IsEmpty(d) \/ blobs[d.hash] # Nil

Get(d) == IF IsEmpty(d) THEN <<>> ELSE blobs[d.hash]

\* The two outcomes of Put and PutStream on the store; an error allows both.
Stored(d, b) == blobs' = IF IsEmpty(d) THEN blobs ELSE [blobs EXCEPT ![d.hash] = b]
NotStored == UNCHANGED blobs

-----------------------------------------------------------------------------
(* All calls *)

Begin(c, k, q) ==
  /\ pc[c] = "idle"
  /\ kind' = [kind EXCEPT ![c] = k]
  /\ pc' = [pc EXCEPT ![c] = "open"]
  /\ request' = [request EXCEPT ![c] = q]
  /\ before' = [before EXCEPT ![c] = blobs]
  /\ result' = [result EXCEPT ![c] = [i \in DOMAIN q |-> Answer("none", Nil)]]
  /\ UNCHANGED <<blobs, next, busy, failed, buffer>>

Return(c, code) ==
  /\ pc' = [pc EXCEPT ![c] = code]
  /\ UNCHANGED <<kind, request, next, busy, result, failed, buffer, before>>

Open(c, k) == kind[c] = k /\ pc[c] = "open"
More(c) == next[c] <= Len(request[c])

Found(c, i, answer) == result' = [result EXCEPT ![c][i] = answer]

Presence(d) == Answer(IF Contains(d) THEN "present" ELSE "missing", Nil)

-----------------------------------------------------------------------------
(* FindMissingBlobs: a goroutine for each digest, Concurrency at a time *)

FindSpawn(c) ==
  /\ Open(c, "find")
  /\ More(c)
  /\ Cardinality(busy[c]) < Concurrency
  /\ busy' = [busy EXCEPT ![c] = @ \cup {next[c]}]
  /\ next' = [next EXCEPT ![c] = @ + 1]
  /\ UNCHANGED <<blobs, kind, pc, request, result, failed, buffer, before>>

\* Faulty FindContains: an error counts as a blob that is there.
FindContainsIgnoringErrors(c) ==
  \E i \in busy[c] :
    /\ \/ Found(c, i, Presence(request[c][i].digest))
       \/ UNCHANGED result
    /\ busy' = [busy EXCEPT ![c] = @ \ {i}]
    /\ UNCHANGED <<blobs, kind, pc, request, next, failed, buffer, before>>

\* Faulty FindContains: a goroutine that fails keeps its place in the semaphore.
FindContainsKeepingPlace(c) ==
  \E i \in busy[c] :
    /\ result[c][i].is = "none"
    /\ \/ /\ Found(c, i, Presence(request[c][i].digest))
          /\ busy' = [busy EXCEPT ![c] = @ \ {i}]
          /\ UNCHANGED failed
       \/ /\ Found(c, i, Answer("error", Nil))
          /\ failed' = [failed EXCEPT ![c] = TRUE]
          /\ UNCHANGED busy
    /\ UNCHANGED <<blobs, kind, pc, request, next, buffer, before>>

FindContains(c) ==
  \E i \in busy[c] :
    /\ \/ /\ Found(c, i, Presence(request[c][i].digest))
          /\ UNCHANGED failed
       \/ /\ failed' = [failed EXCEPT ![c] = TRUE]
          /\ UNCHANGED result
    /\ busy' = [busy EXCEPT ![c] = @ \ {i}]
    /\ UNCHANGED <<blobs, kind, pc, request, next, buffer, before>>

\* wg.Wait(), and the answer.
FindReturn(c) ==
  /\ Open(c, "find")
  /\ ~More(c)
  /\ busy[c] = {}
  /\ Return(c, IF failed[c] THEN "Internal" ELSE "OK")
  /\ UNCHANGED blobs

-----------------------------------------------------------------------------
(* BatchUpdateBlobs and BatchReadBlobs: one after the other, each on its own *)

Advance(c, what, data) ==
  /\ Found(c, next[c], Answer(what, data))
  /\ next' = [next EXCEPT ![c] = @ + 1]
  /\ UNCHANGED <<kind, pc, request, busy, failed, buffer, before>>

\* Faulty UpdateOne: the error of Put is dropped.
UpdateOneUnacknowledged(c) ==
  /\ Open(c, "update")
  /\ More(c)
  /\ Advance(c, "OK", Nil)
  /\ Stored(request[c][next[c]].digest, request[c][next[c]].data) \/ NotStored

\* Faulty UpdateOne: the size is checked, and the hash is not.
UpdateOneUnhashed(c) ==
  /\ Open(c, "update")
  /\ More(c)
  /\ LET d == request[c][next[c]].digest
         data == request[c][next[c]].data
     IN  IF Len(data) # d.size
           THEN Advance(c, "InvalidArgument", Nil) /\ UNCHANGED blobs
           ELSE Stored(d, data) /\ Advance(c, "OK", Nil)

\* putOne: an entry whose data are not what its digest names is refused, and the
\* call goes on to the next.
UpdateOne(c) ==
  /\ Open(c, "update")
  /\ More(c)
  /\ LET d == request[c][next[c]].digest
         data == request[c][next[c]].data
     IN  IF Len(data) # d.size \/ data # d.hash
           THEN Advance(c, "InvalidArgument", Nil) /\ UNCHANGED blobs
           ELSE \/ Stored(d, data) /\ Advance(c, "OK", Nil)
                \/ Stored(d, data) /\ Advance(c, "Internal", Nil)
                \/ NotStored /\ Advance(c, "Internal", Nil)

\* Faulty ReadOne: every error of Get is NotFound.
ReadOneOrNotFound(c) ==
  /\ Open(c, "read")
  /\ More(c)
  /\ LET d == request[c][next[c]].digest
     IN  \/ Contains(d) /\ Advance(c, "OK", Get(d))
         \/ Advance(c, "NotFound", Nil)
  /\ UNCHANGED blobs

ReadOne(c) ==
  /\ Open(c, "read")
  /\ More(c)
  /\ LET d == request[c][next[c]].digest
     IN  \/ Contains(d) /\ Advance(c, "OK", Get(d))
         \/ ~Contains(d) /\ Advance(c, "NotFound", Nil)
         \/ Advance(c, "Internal", Nil)
  /\ UNCHANGED blobs

BatchReturn(c) ==
  /\ kind[c] \in {"update", "read"}
  /\ pc[c] = "open"
  /\ ~More(c)
  /\ Return(c, "OK")
  /\ UNCHANGED blobs

-----------------------------------------------------------------------------
(* ByteStream.Write and QueryWriteStatus *)

Upload(c) == request[c][1]

\* Faulty Recv: a chunk is taken whatever its offset.
RecvAnywhere(c) ==
  /\ Open(c, "write")
  /\ \E offset \in 0..(Len(Upload(c).data) - 1), finish \in BOOLEAN :
       /\ buffer' = [buffer EXCEPT ![c] = Append(@, Upload(c).data[offset + 1])]
       /\ pc' = [pc EXCEPT ![c] = IF finish THEN "check" ELSE "open"]
       /\ Len(buffer[c]) < Upload(c).digest.size
       /\ UNCHANGED <<blobs, kind, request, next, busy, result, failed, before>>

\* A message with a chunk, which must be the next one: the client may repeat one,
\* or skip one.
Recv(c) ==
  /\ Open(c, "write")
  /\ \E offset \in 0..(Len(Upload(c).data) - 1), finish \in BOOLEAN :
       IF offset # Len(buffer[c])
         THEN Return(c, "InvalidArgument") /\ UNCHANGED blobs
         ELSE /\ buffer' = [buffer EXCEPT ![c] = Append(@, Upload(c).data[offset + 1])]
              /\ pc' = [pc EXCEPT ![c] = IF finish THEN "check" ELSE "open"]
              /\ UNCHANGED <<blobs, kind, request, next, busy, result, failed, before>>

\* The stream ends, with finish_write or without; or it breaks, or the temporary
\* file does.
RecvEnd(c) ==
  /\ Open(c, "write")
  /\ \E code \in {"check", "Canceled", "Internal"} : Return(c, code)
  /\ UNCHANGED blobs

\* Faulty Commit: what was received is stored, whatever was declared.
CommitUnchecked(c) ==
  /\ pc[c] = "check"
  /\ Stored(Upload(c).digest, buffer[c])
  /\ Return(c, "OK")

\* The size is checked, and the hash is not.
Commit(c) ==
  /\ pc[c] = "check"
  /\ LET d == Upload(c).digest
     IN  IF Len(buffer[c]) # d.size
           THEN Return(c, "InvalidArgument") /\ UNCHANGED blobs
           ELSE \/ Stored(d, buffer[c]) /\ Return(c, "OK")
                \/ Stored(d, buffer[c]) /\ Return(c, "Internal")
                \/ NotStored /\ Return(c, "Internal")

QueryWriteStatus(c) ==
  /\ Open(c, "query")
  /\ \/ /\ pc' = [pc EXCEPT ![c] = "OK"]
        /\ Found(c, 1, Presence(Upload(c).digest))
        /\ UNCHANGED <<kind, request, next, busy, failed, buffer, before>>
     \/ Return(c, "Internal")
  /\ UNCHANGED blobs

-----------------------------------------------------------------------------
Handle(c) ==
  \/ FindSpawn(c) \/ FindContains(c) \/ FindReturn(c)
  \/ UpdateOne(c) \/ ReadOne(c) \/ BatchReturn(c)
  \/ Commit(c) \/ QueryWriteStatus(c)

Receive(c) == Recv(c) \/ RecvEnd(c)

Next ==
  \/ \E c \in Calls : Handle(c) \/ Receive(c)
  \/ \E c \in Calls, q \in Requests, k \in {"find", "update", "read"} : Begin(c, k, q)
  \/ \E c \in Calls, u \in Uploads, k \in {"write", "query"} : Begin(c, k, <<u>>)

\* Handlers run when they can. A client that writes owes no message.
Spec == Init /\ [][Next]_vars /\ \A c \in Calls : WF_vars(Handle(c))

-----------------------------------------------------------------------------
(* Properties *)

\* The clients of Write hash what they send: a request names its data, which may
\* still be cut short, repeated or sent out of order.
HonestClients ==
  \A u \in Uploads : u.data = u.digest.hash /\ u.digest.size = Len(u.data)

\* What may be in the store under a hash.
Stores == Seq(Chunks) \cup {Nil}

\* The shape of the state. What a Write has received is the beginning of what the
\* client has to send.
CasTypeOK ==
  /\ blobs \in [Blobs -> Stores]
  /\ kind \in [Calls -> Kinds \cup {Nil}]
  /\ pc \in [Calls -> {"idle", "open", "check"} \cup Codes]
  /\ failed \in [Calls -> BOOLEAN]
  /\ before \in [Calls -> [Blobs -> Stores]]
  /\ \A c \in Calls :
       /\ \A i \in DOMAIN request[c] : request[c][i] \in Requested
       /\ next[c] \in 1..(Len(request[c]) + 1)
       /\ busy[c] \subseteq 1..(next[c] - 1)
       /\ DOMAIN result[c] = DOMAIN request[c]
       /\ IF kind[c] = "write"
            THEN buffer[c] = SubSeq(Upload(c).data, 1, Len(buffer[c]))
            ELSE buffer[c] = <<>>

\* Uploads are all or nothing: whatever is lost, repeated, retried or written
\* twice at a time, the store never holds a part of a blob under its hash.
StoreSound == \A h \in Blobs : blobs[h] \in {Nil, h}

\* A blob that FindMissingBlobs did not report is there when the client reads the
\* answer, so that it need not upload it; one that it did report was absent when
\* the client asked; and every digest has been looked up.
FindMissingSound ==
  \A c \in Calls : kind[c] = "find" /\ pc[c] = "OK" =>
    \A i \in DOMAIN request[c] :
      LET d == request[c][i].digest
      IN  \/ result[c][i].is = "present" /\ Contains(d)
          \/ result[c][i].is = "missing" /\ ~IsEmpty(d) /\ before[c][d.hash] = Nil

\* A blob whose upload was acknowledged, by Write, BatchUpdateBlobs or
\* QueryWriteStatus, is in the store from then on.
AcknowledgedIsStored ==
  \A c \in Calls : \A i \in DOMAIN request[c] :
    \/ kind[c] = "write" /\ pc[c] = "OK"
    \/ kind[c] = "update" /\ result[c][i].is = "OK"
    \/ kind[c] = "query" /\ result[c][i].is = "present"
    => Contains(request[c][i].digest)

\* A read that finds nothing is of a blob that was not there when it was asked
\* for: no read loses to a write that is under way.
NotFoundWasAbsent ==
  \A c \in Calls : kind[c] = "read" =>
    \A i \in DOMAIN request[c] :
      result[c][i].is = "NotFound" => before[c][request[c][i].digest.hash] = Nil

\* Every unary call returns, however many digests it names and whatever the
\* store answers: the goroutines of FindMissingBlobs make room for one another.
UnaryCallsReturn ==
  \A c \in Calls : pc[c] = "open" /\ kind[c] # "write" ~> pc[c] \in Codes

\* "two blobs with the same hash necessarily have the same size and contents"
\* (cas.go:10-11): what is read under a digest is what the digest names.
ReadMatchesDigest ==
  \A c \in Calls : kind[c] = "read" =>
    \A i \in DOMAIN request[c] :
      result[c][i].is = "OK" => result[c][i].data = request[c][i].digest.hash

=============================================================================
