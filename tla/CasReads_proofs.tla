---------------------------- MODULE CasReads_proofs ---------------------------
(***************************************************************************)
(* Theorems about CasService, for any number of calls, blobs and requests: *)
(* what it answers about presence, whatever clients send; and what the     *)
(* store holds, if the clients of Write hash what they send.               *)
(*                                                                         *)
(* Theorems about CasReads, for any number of streams, blobs and           *)
(* directories, and any sizes of buffers and pages: a Read sends the bytes *)
(* that it was asked for (ReadsAreSlices), a GetTree the whole tree        *)
(* (TreesAreComplete), over a store that is sound; and neither             *)
(* disturbs the other calls (StreamsOnlyRead).                             *)
(*                                                                         *)
(* StreamsInv says of a Read that what it has sent and what is left of the *)
(* body are the slice; and of a GetTree that the directories sent, those   *)
(* of the page and the queue are the directory asked for and what they     *)
(* name, which is why nothing is lost between two pages.                   *)
(***************************************************************************)
EXTENDS CasReads, Basics

-----------------------------------------------------------------------------
(* The calls of CasService *)

\* The calls of the store, of which only those that write may have a buffer.
CallOK ==
  /\ kind \in [Calls -> Kinds \cup {Nil}]
  /\ pc \in [Calls -> {"idle", "open", "check"} \cup Codes]
  /\ request \in [Calls -> Seq(Requested)]
  /\ next \in [Calls -> Nat \ {0}]
  /\ buffer \in [Calls -> Seq(Chunks)]
  /\ \A c \in Calls :
       /\ pc[c] = "idle" \/ kind[c] # "write" => buffer[c] = <<>>
       /\ pc[c] = "check" => kind[c] = "write"

\* What a Write has received is the beginning of what its client has to send.
WriteOK ==
  \A c \in Calls : kind[c] = "write" =>
    /\ Len(request[c]) = 1
    /\ Upload(c) \in Uploads
    /\ \A i \in 1..Len(buffer[c]) : buffer[c][i] = Upload(c).data[i]

StoreInv == blobs \in [Blobs -> Stores] /\ CallOK /\ WriteOK

\* A step takes nothing out of the store.
Grows == \A h \in Blobs : blobs[h] # Nil => blobs'[h] # Nil

-----------------------------------------------------------------------------
(* Requests *)

\* The digest that a call is at is one of those that clients have.
LEMMA ItemRequested ==
  ASSUME StoreInv, NEW c \in Calls, NEW i \in 1..Len(request[c])
  PROVE  /\ request[c][i] \in Requested
         /\ request[c][i].digest.hash \in Blobs
         /\ request[c][i].digest.size \in Nat
         /\ request[c][i].data \in Seq(Chunks)
<1>1. request[c] \in Seq(Requested)
  BY DEF StoreInv, CallOK
<1>2. request[c][i] \in Requested
  BY <1>1
<1> QED
  BY <1>2, CasAssumption

\* A write, or a query, is given one digest.
LEMMA UploadRequested ==
  ASSUME StoreInv, NEW c \in Calls, kind[c] = "write"
  PROVE  /\ Upload(c) \in Requested
         /\ Upload(c).digest.hash \in Blobs
         /\ Upload(c).digest.size \in Nat
         /\ Upload(c).data \in Seq(Chunks)
<1>1. Len(request[c]) = 1
  BY DEF StoreInv, WriteOK
<1>2. 1 \in 1..Len(request[c])
  BY <1>1
<1>3. /\ request[c][1] \in Requested
      /\ request[c][1].digest.hash \in Blobs
      /\ request[c][1].digest.size \in Nat
      /\ request[c][1].data \in Seq(Chunks)
  BY <1>2, ItemRequested
<1> QED
  BY <1>3 DEF Upload

\* What is stored is a sequence of chunks, and takes nothing away; and so does a
\* request that had no effect.
LEMMA StoredGrows ==
  ASSUME StoreInv, NEW d, NEW data \in Seq(Chunks), Stored(d, data) \/ NotStored
  PROVE  blobs' \in [Blobs -> Stores] /\ Grows
<1>1. data # Nil /\ data \in Stores
  BY CasAssumption DEF Stores
<1> QED
  BY <1>1 DEF StoreInv, Stored, NotStored, Grows

\* A blob that is stored under its own hash leaves the store sound, and so does a
\* request that had no effect.
LEMMA StoredIsSound ==
  ASSUME StoreSound, StoreInv, NEW d, d.hash \in Blobs, Stored(d, d.hash) \/ NotStored
  PROVE  StoreSound'
BY DEF StoreInv, StoreSound, Stored, NotStored

\* The calls are left as they are, but for what they have found.
LEMMA SameCalls ==
  ASSUME StoreInv, UNCHANGED <<kind, pc, request, buffer>>, next' \in [Calls -> Nat \ {0}],
         blobs' \in [Blobs -> Stores]
  PROVE  StoreInv'
BY DEF StoreInv, CallOK, WriteOK, Upload

\* A call returns, or goes to its check if it writes.
LEMMA ReturnKeeps ==
  ASSUME StoreInv, NEW c \in Calls, pc[c] # "idle",
         NEW code \in Codes \cup {"check"}, code = "check" => kind[c] = "write",
         pc' = [pc EXCEPT ![c] = code], UNCHANGED <<kind, request, next, buffer>>,
         blobs' \in [Blobs -> Stores]
  PROVE  StoreInv'
BY DEF StoreInv, CallOK, WriteOK, Upload, Codes

\* The type of a store that does not change.
LEMMA SameStore ==
  ASSUME StoreInv, UNCHANGED blobs
  PROVE  blobs' \in [Blobs -> Stores]
BY DEF StoreInv

-----------------------------------------------------------------------------
(* The actions *)

\* A call begins with what its client has, and has received nothing.
LEMMA BeginKeeps ==
  ASSUME StoreInv, NEW c \in Calls, NEW k \in Kinds,
         NEW q \in Seq(Requested), k = "write" => Len(q) = 1 /\ q[1] \in Uploads, Begin(c, k, q)
  PROVE  StoreInv'
<1>1. CallOK'
  BY DEF Begin, StoreInv, CallOK
<1>2. WriteOK'
  BY DEF Begin, StoreInv, CallOK, WriteOK, Upload
<1> QED
  BY <1>1, <1>2, SameStore DEF Begin, StoreInv

\* FindMissingBlobs and BatchReadBlobs only look at the store.
LEMMA ReadersKeep ==
  ASSUME StoreInv, NEW c \in Calls,
         FindSpawn(c) \/ FindContains(c) \/ FindReturn(c) \/ ReadOne(c)
           \/ BatchReturn(c) \/ QueryWriteStatus(c)
  PROVE  StoreInv'
<1> USE SameStore
<1>0. next \in [Calls -> Nat \ {0}]
  BY DEF StoreInv, CallOK
<1>1. CASE FindSpawn(c)
  BY <1>0, <1>1, SameCalls DEF FindSpawn
<1>2. CASE FindContains(c)
  BY <1>0, <1>2, SameCalls DEF FindContains
<1>3. CASE FindReturn(c)
  BY <1>3, ReturnKeeps DEF FindReturn, Return, Open, Codes
<1>4. CASE ReadOne(c)
  BY <1>0, <1>4, SameCalls DEF ReadOne, Advance
<1>5. CASE BatchReturn(c)
  BY <1>5, ReturnKeeps DEF BatchReturn, Return, Codes
<1>6. CASE QueryWriteStatus(c)
  BY <1>6, ReturnKeeps DEF QueryWriteStatus, Return, Open, Codes
<1> QED
  BY <1>1, <1>2, <1>3, <1>4, <1>5, <1>6

\* putOne stores nothing that is not what its digest names, whatever its client
\* has sent.
LEMMA UpdateOneKeeps ==
  ASSUME StoreInv, NEW c \in Calls, UpdateOne(c)
  PROVE  StoreInv' /\ Grows /\ (StoreSound => StoreSound')
<1> DEFINE d == request[c][next[c]].digest
           data == request[c][next[c]].data
<1>1. next[c] \in 1..Len(request[c])
  BY DEF UpdateOne, More, StoreInv, CallOK
<1>2. d.hash \in Blobs /\ data \in Seq(Chunks)
  BY <1>1, ItemRequested
<1>3. Stored(d, data) \/ NotStored
  BY DEF UpdateOne, NotStored
<1>4. Stored(d, d.hash) \/ NotStored
  BY DEF UpdateOne, NotStored
<1>5. blobs' \in [Blobs -> Stores] /\ Grows
  BY <1>2, <1>3, StoredGrows
<1>6. StoreSound => StoreSound'
  BY <1>2, <1>4, StoredIsSound
<1>7. UNCHANGED <<kind, pc, request, buffer>> /\ next' = [next EXCEPT ![c] = @ + 1]
  BY DEF UpdateOne, Advance
<1>8. next' \in [Calls -> Nat \ {0}]
  BY <1>7 DEF StoreInv, CallOK
<1> QED
  BY <1>5, <1>6, <1>7, <1>8, SameCalls

\* Write takes the next chunk or none.
LEMMA ReceiveKeeps ==
  ASSUME StoreInv, NEW c \in Calls, Receive(c)
  PROVE  StoreInv'
<1> USE SameStore
<1>1. CASE RecvEnd(c)
  BY <1>1, ReturnKeeps DEF RecvEnd, Return, Open, Codes
<1>2. CASE Recv(c)
  <2>1. Open(c, "write") /\ UNCHANGED blobs
    BY <1>2 DEF Recv
  <2>2. PICK offset \in 0..(Len(Upload(c).data) - 1), finish \in BOOLEAN :
          IF offset # Len(buffer[c])
            THEN Return(c, "InvalidArgument")
            ELSE /\ buffer' = [buffer EXCEPT ![c] = Append(@, Upload(c).data[offset + 1])]
                 /\ pc' = [pc EXCEPT ![c] = IF finish THEN "check" ELSE "open"]
                 /\ UNCHANGED <<kind, request, next>>
    BY <1>2 DEF Recv
  <2>3. CASE offset # Len(buffer[c])
    BY <2>1, <2>2, <2>3, ReturnKeeps DEF Return, Open, Codes
  <2>4. CASE offset = Len(buffer[c])
    <3>1. Upload(c).data \in Seq(Chunks)
      BY <2>1, UploadRequested DEF Open
    <3>2. offset + 1 \in 1..Len(Upload(c).data)
      BY <3>1
    <3>3. Upload(c).data[offset + 1] \in Chunks
      BY <3>1, <3>2
    <3>4. buffer[c] \in Seq(Chunks)
      BY DEF StoreInv, CallOK
    <3>5. buffer'[c] = Append(buffer[c], Upload(c).data[offset + 1])
      BY <2>2, <2>4 DEF StoreInv, CallOK
    <3>6. /\ buffer'[c] \in Seq(Chunks)
          /\ Len(buffer'[c]) = offset + 1
          /\ \A i \in 1..Len(buffer[c]) : buffer'[c][i] = buffer[c][i]
          /\ buffer'[c][offset + 1] = Upload(c).data[offset + 1]
      BY <2>4, <3>3, <3>4, <3>5
    <3>7. CallOK'
      BY <2>1, <2>2, <2>4, <3>6 DEF StoreInv, CallOK, Open
    <3>8. WriteOK'
      <4> SUFFICES ASSUME NEW b \in Calls, kind'[b] = "write"
                   PROVE  /\ Len(request'[b]) = 1
                          /\ request'[b][1] \in Uploads
                          /\ \A i \in 1..Len(buffer'[b]) :
                               buffer'[b][i] = request'[b][1].data[i]
        BY DEF WriteOK, Upload
      <4>1. kind' = kind /\ request' = request
        BY <2>2, <2>4
      <4>2. Len(request'[b]) = 1 /\ request'[b][1] \in Uploads
        BY <4>1 DEF StoreInv, WriteOK, Upload
      <4>3. \A i \in 1..Len(buffer[b]) : buffer[b][i] = request[b][1].data[i]
        BY <4>1 DEF StoreInv, WriteOK, Upload
      <4>4. CASE b = c
        BY <2>4, <3>6, <4>1, <4>2, <4>3, <4>4 DEF Upload
      <4>5. CASE b # c
        BY <2>2, <2>4, <4>1, <4>2, <4>3, <4>5 DEF StoreInv, CallOK
      <4> QED
        BY <4>2, <4>4, <4>5
    <3> QED
      BY <2>1, <3>7, <3>8 DEF StoreInv
  <2> QED
    BY <2>3, <2>4
<1> QED
  BY <1>1, <1>2 DEF Receive

\* A Write stores what it has received.
LEMMA CommitKeeps ==
  ASSUME StoreInv, NEW c \in Calls, Commit(c)
  PROVE  StoreInv' /\ Grows
<1> DEFINE d == Upload(c).digest
<1>1. kind[c] = "write" /\ pc[c] = "check"
  BY DEF Commit, StoreInv, CallOK
<1>2. buffer[c] \in Seq(Chunks)
  BY DEF StoreInv, CallOK
<1>3. Stored(d, buffer[c]) \/ NotStored
  BY DEF Commit, NotStored
<1>4. blobs' \in [Blobs -> Stores] /\ Grows
  BY <1>2, <1>3, StoredGrows
<1> QED
  BY <1>1, <1>4, ReturnKeeps DEF Commit, Return, Codes

\* A Write that has the declared size has all of what its client hashed: the one
\* place where honesty is needed.
LEMMA CommitIsSound ==
  ASSUME HonestClients, StoreInv, StoreSound, NEW c \in Calls, Commit(c)
  PROVE  StoreSound'
<1> DEFINE d == Upload(c).digest
           data == Upload(c).data
<1>1. kind[c] = "write"
  BY DEF Commit, StoreInv, CallOK
<1>2. Upload(c) \in Uploads /\ \A i \in 1..Len(buffer[c]) : buffer[c][i] = data[i]
  BY <1>1 DEF StoreInv, WriteOK
<1>3. data \in Seq(Chunks) /\ d.hash \in Blobs
  BY <1>1, UploadRequested
<1>4. data = d.hash /\ d.size = Len(data)
  BY <1>2 DEF HonestClients
<1>5. buffer[c] \in Seq(Chunks)
  BY DEF StoreInv, CallOK
<1>6. Len(buffer[c]) = d.size => buffer[c] = data
  BY <1>2, <1>3, <1>4, <1>5
<1>7. Stored(d, d.hash) \/ NotStored
  BY <1>4, <1>6 DEF Commit, NotStored
<1> QED
  BY <1>3, <1>7, StoredIsSound

-----------------------------------------------------------------------------
(* The store *)

\* No call has begun, and nothing is stored.
LEMMA InitStoreInv == Init => StoreInv
<1> SUFFICES ASSUME Init PROVE StoreInv
  OBVIOUS
<1>1. <<>> \in Seq(Requested) /\ <<>> \in Seq(Chunks)
  OBVIOUS
<1>2. CallOK
  BY <1>1 DEF Init, CallOK
<1>3. WriteOK
  BY CasAssumption DEF Init, WriteOK, Kinds
<1> QED
  BY <1>2, <1>3 DEF Init, StoreInv, Stores

\* The invariant is inductive, whatever clients send.
LEMMA NextStoreInv ==
  ASSUME StoreInv, [Next]_vars
  PROVE  StoreInv'
<1>1. ASSUME NEW c \in Calls, Handle(c)
      PROVE  StoreInv'
  BY <1>1, ReadersKeep, UpdateOneKeeps, CommitKeeps DEF Handle
<1>2. ASSUME NEW c \in Calls, NEW q \in Requests, NEW k \in {"find", "update", "read"},
             Begin(c, k, q)
      PROVE  StoreInv'
  <2>1. q \in Seq(Requested)
    BY CasAssumption
  <2> QED
    BY <1>2, <2>1, BeginKeeps DEF Kinds
<1>3. ASSUME NEW c \in Calls, NEW u \in Uploads, NEW k \in {"write", "query"},
             Begin(c, k, <<u>>)
      PROVE  StoreInv'
  <2>1. u \in Requested
    BY DEF Requested
  <2>2. <<u>> \in Seq(Requested) /\ Len(<<u>>) = 1 /\ <<u>>[1] \in Uploads
    BY <2>1
  <2>3. \A q \in Seq(Requested) : Len(q) = 1 /\ q[1] \in Uploads /\ Begin(c, k, q) => StoreInv'
    <3>1. k \in Kinds
      BY DEF Kinds
    <3> QED
      BY <3>1, BeginKeeps
  <2> QED
    BY <1>3, <2>2, <2>3
<1>4. CASE UNCHANGED vars
  BY <1>4, SameStore, SameCalls DEF vars, callVars, StoreInv, CallOK
<1> QED
  BY <1>1, <1>2, <1>3, <1>4, ReceiveKeeps DEF Next

\* The store stays sound when the clients of Write hash what they send.
LEMMA NextSound ==
  ASSUME HonestClients, StoreInv, StoreSound, [Next]_vars
  PROVE  StoreSound'
<1>1. UNCHANGED blobs => StoreSound'
  BY DEF StoreSound
<1>2. ASSUME NEW c \in Calls, UpdateOne(c) PROVE StoreSound'
  BY <1>2, UpdateOneKeeps
<1>3. ASSUME NEW c \in Calls, Commit(c) PROVE StoreSound'
  BY <1>3, CommitIsSound
<1> QED
  BY <1>1, <1>2, <1>3 DEF Next, vars, Handle, Receive, Begin, FindSpawn, FindContains, FindReturn,
     ReadOne, BatchReturn, QueryWriteStatus, Recv, RecvEnd

-----------------------------------------------------------------------------
(* What the calls answer *)

\* What a call has found of the digest at i holds until it is read: nothing leaves
\* the store, and what was missing was absent when the call began.
FoundOK(c, i) ==
  LET d == request[c][i].digest
  IN  /\ result[c][i].is = "present" => Contains(d)
      /\ result[c][i].is = "missing" => ~IsEmpty(d) /\ before[c][d.hash] = Nil
      /\ result[c][i].is = "NotFound" => before[c][d.hash] = Nil
      /\ kind[c] = "update" /\ result[c][i].is = "OK" => Contains(d)

\* FindMissingBlobs holds, or has looked up, every digest that it is past.
FindOK(c) ==
  /\ busy[c] \subseteq 1..(next[c] - 1)
  /\ next[c] <= Len(request[c]) + 1
  /\ kind[c] = "find" =>
       /\ \A i \in 1..(next[c] - 1) :
            i \in busy[c] \/ failed[c] \/ result[c][i].is \in {"present", "missing"}
       /\ pc[c] = "OK" => busy[c] = {} /\ ~failed[c] /\ next[c] = Len(request[c]) + 1

AnswerOK(c) ==
  /\ DOMAIN result[c] = 1..Len(request[c])
  /\ \A h \in Blobs : before[c][h] # Nil => blobs[h] # Nil
  /\ \A i \in 1..Len(request[c]) : FoundOK(c, i)
  /\ FindOK(c)
  /\ pc[c] = "idle" => next[c] = 1 /\ busy[c] = {} /\ ~failed[c]
  /\ kind[c] = "write" /\ pc[c] = "OK" => Contains(Upload(c).digest)

AnswerTypes ==
  /\ DOMAIN result = Calls
  /\ busy \in [Calls -> SUBSET Nat]
  /\ failed \in [Calls -> BOOLEAN]
  /\ before \in [Calls -> [Blobs -> Stores]]

AnswerInv == StoreInv /\ AnswerTypes /\ \A c \in Calls : AnswerOK(c)

\* What is in a store that grows stays in it.
LEMMA GrownContains ==
  ASSUME Grows, NEW d, d.hash \in Blobs, Contains(d)
  PROVE  Contains(d)'
BY DEF Grows, Contains, IsEmpty

\* What was found of a digest, at its place.
LEMMA FoundAt ==
  ASSUME AnswerTypes, NEW c \in Calls, NEW k, NEW answer, Found(c, k, answer)
  PROVE  /\ DOMAIN result' = Calls
         /\ \A b \in Calls : DOMAIN result'[b] = DOMAIN result[b]
         /\ \A b \in Calls : \A i \in DOMAIN result[b] :
              result'[b][i] = IF b = c /\ i = k THEN answer ELSE result[b][i]
BY DEF AnswerTypes, Found

\* An answer that stands, stands when the store has grown.
LEMMA FoundStays ==
  ASSUME AnswerInv, Grows, NEW c \in Calls, NEW i \in 1..Len(request[c]), FoundOK(c, i),
         kind'[c] = kind[c], request'[c] = request[c], before'[c] = before[c],
         result'[c][i] = result[c][i]
  PROVE  FoundOK(c, i)'
<1>1. request[c][i].digest.hash \in Blobs
  BY ItemRequested DEF AnswerInv
<1> QED
  BY <1>1, GrownContains DEF FoundOK, IsEmpty

Untouched(c) ==
  /\ kind'[c] = kind[c] /\ pc'[c] = pc[c] /\ request'[c] = request[c] /\ next'[c] = next[c]
  /\ busy'[c] = busy[c] /\ result'[c] = result[c] /\ failed'[c] = failed[c]
  /\ before'[c] = before[c]

\* A call that does nothing keeps its answers.
LEMMA UntouchedKeeps ==
  ASSUME AnswerInv, Grows, NEW c \in Calls, Untouched(c)
  PROVE  AnswerOK(c)'
<1>1. AnswerOK(c)
  BY DEF AnswerInv
<1>2. \A i \in 1..Len(request'[c]) : FoundOK(c, i)'
  BY <1>1, FoundStays DEF AnswerOK, Untouched
<1>3. FindOK(c)'
  BY <1>1 DEF AnswerOK, FindOK, Untouched
<1>4. kind[c] = "write" /\ pc[c] = "OK" => Contains(Upload(c).digest)'
  <2> SUFFICES ASSUME kind[c] = "write", pc[c] = "OK" PROVE Contains(Upload(c).digest)'
    OBVIOUS
  <2>1. Upload(c).digest.hash \in Blobs
    BY UploadRequested DEF AnswerInv
  <2>2. Contains(Upload(c).digest)
    BY <1>1 DEF AnswerOK
  <2>3. Contains(request[c][1].digest)'
    <3> DEFINE d == request[c][1].digest
    <3>1. d.hash \in Blobs /\ Contains(d)
      BY <2>1, <2>2 DEF Upload
    <3>2. request'[c] = request[c]
      BY DEF Untouched
    <3> QED
      BY <3>1, <3>2 DEF Grows, Contains, IsEmpty
  <2> QED
    BY <2>3 DEF Upload
<1> QED
  BY <1>1, <1>2, <1>3, <1>4 DEF AnswerOK, Untouched, Grows

\* The fields of a call, of which an action sets its own call's.
CallTypes ==
  /\ kind \in [Calls -> Kinds \cup {Nil}]
  /\ pc \in [Calls -> {"idle", "open", "check"} \cup Codes]
  /\ request \in [Calls -> Seq(Requested)]
  /\ next \in [Calls -> Nat \ {0}]
  /\ AnswerTypes

\* A call is answered by its own handler.
LEMMA OthersUntouched ==
  ASSUME AnswerInv, NEW c \in Calls,
         \/ Handle(c) \/ Receive(c)
         \/ \E k \in Kinds, q \in Seq(Requested) : Begin(c, k, q)
  PROVE  AnswerTypes' /\ \A b \in Calls : b # c => Untouched(b)
<1>1. CallTypes
  BY DEF AnswerInv, StoreInv, CallOK, CallTypes
<1>2. next[c] \in Nat
  BY <1>1 DEF CallTypes
<1> DEFINE P == AnswerTypes' /\ \A b \in Calls : b # c => Untouched(b)
<1>3. CASE FindSpawn(c)
  BY <1>1, <1>2, <1>3 DEF FindSpawn, CallTypes, AnswerTypes, Untouched
<1>4. CASE FindContains(c)
  <2>1. \/ UNCHANGED <<result, kind, pc, request, next, before>>
        \/ \E i \in busy[c] :
             /\ Found(c, i, Presence(request[c][i].digest))
             /\ UNCHANGED <<kind, pc, request, next, before, failed>>
    BY <1>4 DEF FindContains
  <2>2. /\ DOMAIN result' = Calls
        /\ \A b \in Calls : b # c => result'[b] = result[b]
        /\ UNCHANGED <<kind, pc, request, next, before>>
    BY <1>1, <2>1 DEF CallTypes, AnswerTypes, Found
  <2>3. /\ busy' \in [Calls -> SUBSET Nat] /\ failed' \in [Calls -> BOOLEAN]
        /\ \A b \in Calls : b # c => busy'[b] = busy[b] /\ failed'[b] = failed[b]
    <3>1. PICK i \in busy[c] : busy' = [busy EXCEPT ![c] = @ \ {i}]
      BY <1>4 DEF FindContains
    <3>2. failed' = [failed EXCEPT ![c] = TRUE] \/ UNCHANGED failed
      BY <1>4 DEF FindContains
    <3>3. busy[c] \ {i} \in SUBSET Nat
      BY <1>1 DEF CallTypes, AnswerTypes
    <3>4. busy' \in [Calls -> SUBSET Nat] /\ \A b \in Calls : b # c => busy'[b] = busy[b]
      BY <1>1, <3>1, <3>3 DEF CallTypes, AnswerTypes
    <3>5. failed' \in [Calls -> BOOLEAN] /\ \A b \in Calls : b # c => failed'[b] = failed[b]
      BY <1>1, <3>2 DEF CallTypes, AnswerTypes
    <3> QED
      BY <3>4, <3>5
  <2> QED
    BY <1>1, <2>2, <2>3 DEF CallTypes, AnswerTypes, Untouched
<1>5. ASSUME NEW code, Return(c, code) PROVE P
  BY <1>1, <1>5 DEF Return, CallTypes, AnswerTypes, Untouched
<1>6. ASSUME NEW what, NEW data, Advance(c, what, data) PROVE P
  BY <1>1, <1>6 DEF Advance, Found, CallTypes, AnswerTypes, Untouched
<1>7. CASE FindReturn(c) \/ BatchReturn(c) \/ RecvEnd(c) \/ Commit(c)
  BY <1>5, <1>7 DEF FindReturn, BatchReturn, RecvEnd, Commit
<1>8. CASE UpdateOne(c) \/ ReadOne(c)
  BY <1>6, <1>8 DEF UpdateOne, ReadOne
<1>9. CASE Recv(c)
  <2>1. ASSUME NEW label, pc' = [pc EXCEPT ![c] = label],
               UNCHANGED <<kind, request, next, busy, result, failed, before>>
        PROVE  P
    BY <1>1, <2>1 DEF CallTypes, AnswerTypes, Untouched
  <2> QED
    BY <1>5, <1>9, <2>1 DEF Recv
<1>10. CASE QueryWriteStatus(c)
  <2>1. CASE Return(c, "Internal")
    BY <1>5, <2>1
  <2>2. CASE /\ pc' = [pc EXCEPT ![c] = "OK"]
             /\ Found(c, 1, Presence(Upload(c).digest))
             /\ UNCHANGED <<kind, request, next, busy, failed, buffer, before>>
    BY <1>1, <2>2 DEF Found, CallTypes, AnswerTypes, Untouched
  <2> QED
    BY <1>10, <2>1, <2>2 DEF QueryWriteStatus
<1>11. ASSUME NEW k \in Kinds, NEW q \in Seq(Requested), Begin(c, k, q) PROVE P
  BY <1>1, <1>11 DEF Begin, AnswerInv, StoreInv, CallTypes, AnswerTypes, Untouched
<1> QED
  BY <1>3, <1>4, <1>7, <1>8, <1>9, <1>10, <1>11 DEF Handle, Receive

\* No call takes a blob away.
LEMMA StoreGrows ==
  ASSUME StoreInv, NEW c \in Calls,
         \/ Handle(c) \/ Receive(c)
         \/ \E k \in Kinds, q \in Seq(Requested) : Begin(c, k, q)
  PROVE  Grows
<1>1. UNCHANGED blobs => Grows
  BY DEF Grows
<1> QED
  BY <1>1, UpdateOneKeeps, CommitKeeps DEF Handle, Receive, Begin, FindSpawn, FindContains,
     FindReturn, ReadOne, BatchReturn, QueryWriteStatus, Recv, RecvEnd

\* A call that returns a code, and has found nothing more.
LEMMA ReturnAnswers ==
  ASSUME AnswerInv, Grows, NEW c \in Calls, NEW code \in Codes \cup {"check"},
         Return(c, code), pc[c] # "idle",
         kind[c] = "find" /\ code = "OK" =>
           busy[c] = {} /\ ~failed[c] /\ next[c] = Len(request[c]) + 1,
         kind[c] = "write" /\ code = "OK" => Contains(Upload(c).digest)'
  PROVE  AnswerOK(c)'
<1>1. AnswerOK(c)
  BY DEF AnswerInv
<1>2. /\ kind'[c] = kind[c] /\ request'[c] = request[c] /\ next'[c] = next[c]
      /\ busy'[c] = busy[c] /\ result'[c] = result[c] /\ failed'[c] = failed[c]
      /\ before'[c] = before[c] /\ pc'[c] = code
  BY DEF Return, AnswerInv, StoreInv, CallOK
<1>3. \A i \in 1..Len(request'[c]) : FoundOK(c, i)'
  BY <1>1, <1>2, FoundStays DEF AnswerOK
<1>4. FindOK(c)'
  BY <1>1, <1>2 DEF AnswerOK, FindOK
<1> QED
  BY <1>1, <1>2, <1>3, <1>4 DEF AnswerOK, Grows, Codes

\* A batch call that has answered for one more digest.
LEMMA AdvanceAnswers ==
  ASSUME AnswerInv, Grows, NEW c \in Calls, NEW what, NEW data, Advance(c, what, data),
         Open(c, "update") \/ Open(c, "read"), More(c),
         what \notin {"present", "missing"},
         NEW d, d = request[c][next[c]].digest,
         what = "NotFound" => before[c][d.hash] = Nil,
         kind[c] = "update" /\ what = "OK" => Contains(d)'
  PROVE  AnswerOK(c)'
<1>1. AnswerOK(c)
  BY DEF AnswerInv
<1>2. next[c] \in 1..Len(request[c])
  BY DEF More, AnswerInv, StoreInv, CallOK
<1>3. /\ kind' = kind /\ request' = request /\ busy' = busy /\ failed' = failed
      /\ before' = before /\ pc' = pc /\ next'[c] = next[c] + 1
  BY DEF Advance, AnswerInv, StoreInv, CallOK
<1>4. /\ DOMAIN result'[c] = DOMAIN result[c]
      /\ \A i \in DOMAIN result[c] :
           result'[c][i] = IF i = next[c] THEN Answer(what, data) ELSE result[c][i]
  BY FoundAt DEF Advance, AnswerInv
<1>5. ASSUME NEW i \in 1..Len(request[c]) PROVE FoundOK(c, i)'
  <2>1. CASE i = next[c]
    <3>1. result'[c][i].is = what
      BY <1>1, <1>4, <2>1 DEF AnswerOK, Answer
    <3>2. request'[c][i].digest = d
      BY <1>3, <2>1
    <3>3. kind[c] = "update" /\ what = "OK" => Contains(request[c][i].digest)'
      BY <3>2 DEF Contains, IsEmpty
    <3> QED
      BY <1>3, <3>1, <3>2, <3>3 DEF FoundOK
  <2>2. CASE i # next[c]
    BY <1>1, <1>3, <1>4, <2>2, FoundStays DEF AnswerOK
  <2> QED
    BY <2>1, <2>2
<1>6. FindOK(c)'
  BY <1>1, <1>2, <1>3 DEF AnswerOK, FindOK, Open
<1> QED
  BY <1>1, <1>3, <1>4, <1>5, <1>6 DEF AnswerOK, Grows, Open

\* A call begins with nothing found, and the store as it is.
LEMMA BeginAnswers ==
  ASSUME AnswerInv, NEW c \in Calls, NEW k \in Kinds, NEW q \in Seq(Requested), Begin(c, k, q)
  PROVE  AnswerOK(c)'
<1>1. AnswerOK(c) /\ pc[c] = "idle"
  BY DEF AnswerInv, Begin
<1>2. /\ kind'[c] = k /\ request'[c] = q /\ next'[c] = 1 /\ busy'[c] = {} /\ ~failed'[c]
      /\ pc'[c] = "open" /\ before'[c] = blobs /\ UNCHANGED blobs
      /\ result'[c] = [i \in DOMAIN q |-> Answer("none", Nil)]
  BY <1>1 DEF Begin, AnswerOK, AnswerInv, AnswerTypes, StoreInv, CallOK
<1>3. \A i \in 1..Len(q) : result'[c][i].is = "none"
  BY <1>2 DEF Answer
<1> QED
  BY <1>2, <1>3 DEF AnswerOK, FoundOK, FindOK

\* A goroutine is started for the next digest.
LEMMA SpawnAnswers ==
  ASSUME AnswerInv, Grows, NEW c \in Calls, FindSpawn(c)
  PROVE  AnswerOK(c)'
<1>1. AnswerOK(c) /\ pc[c] = "open" /\ kind[c] = "find"
  BY DEF AnswerInv, FindSpawn, Open
<1>2. /\ busy'[c] = busy[c] \cup {next[c]} /\ next'[c] = next[c] + 1
      /\ UNCHANGED <<blobs, kind, pc, request, result, failed, before>>
      /\ next[c] \in Nat \ {0} /\ next[c] <= Len(request[c]) /\ Len(request[c]) \in Nat
  BY DEF FindSpawn, More, AnswerInv, AnswerTypes, StoreInv, CallOK
<1>3. \A i \in 1..Len(request[c]) : FoundOK(c, i)'
  BY <1>1, <1>2, FoundStays DEF AnswerOK
<1>4. FindOK(c)'
  BY <1>1, <1>2 DEF AnswerOK, FindOK
<1> QED
  BY <1>1, <1>2, <1>3, <1>4 DEF AnswerOK

\* A goroutine has looked up its digest, or has failed to.
LEMMA ContainsAnswers ==
  ASSUME AnswerInv, Grows, NEW c \in Calls, FindContains(c)
  PROVE  AnswerOK(c)'
<1>1. AnswerOK(c) /\ FindOK(c)
  BY DEF AnswerInv, AnswerOK
<1>2. PICK k \in busy[c] :
        /\ \/ Found(c, k, Presence(request[c][k].digest)) /\ UNCHANGED failed
           \/ failed' = [failed EXCEPT ![c] = TRUE] /\ UNCHANGED result
        /\ busy' = [busy EXCEPT ![c] = @ \ {k}]
  BY DEF FindContains
<1>3. UNCHANGED <<blobs, kind, pc, request, next, before>>
  BY DEF FindContains
<1>4. /\ busy'[c] = busy[c] \ {k}
      /\ \/ failed'[c]
         \/ failed' = failed /\ Found(c, k, Presence(request[c][k].digest))
  BY <1>2 DEF AnswerInv, AnswerTypes
<1>5. k \in 1..(next[c] - 1) /\ k \in 1..Len(request[c])
  BY <1>1, <1>2 DEF FindOK, AnswerInv, StoreInv, CallOK
<1>6. /\ DOMAIN result'[c] = DOMAIN result[c]
      /\ \A i \in DOMAIN result[c] : i # k => result'[c][i] = result[c][i]
      /\ \/ failed'[c] /\ result' = result
         \/ failed' = failed /\ result'[c][k] = Presence(request[c][k].digest)
  BY <1>1, <1>2, <1>4, <1>5, FoundAt DEF AnswerInv, AnswerOK
<1>7. \A i \in 1..Len(request[c]) : i # k => FoundOK(c, i)'
  BY <1>1, <1>3, <1>6, FoundStays DEF AnswerOK
<1>8. FoundOK(c, k)'
  <2>1. CASE result' = result
    BY <1>1, <1>3, <1>5, <2>1, FoundStays DEF AnswerOK
  <2>2. CASE result'[c][k] = Presence(request[c][k].digest)
    <3> DEFINE d == request[c][k].digest
    <3>1. d.hash \in Blobs
      BY <1>5, ItemRequested DEF AnswerInv
    <3>2. ~Contains(d) => ~IsEmpty(d) /\ before[c][d.hash] = Nil
      BY <1>1, <3>1 DEF AnswerOK, Contains
    <3>3. result'[c][k].is = IF Contains(d) THEN "present" ELSE "missing"
      BY <2>2 DEF Presence, Answer
    <3>4. Contains(request[c][k].digest)' <=> Contains(d)
      BY <1>3 DEF Contains, IsEmpty
    <3>5. IsEmpty(request[c][k].digest)' <=> IsEmpty(d)
      BY <1>3 DEF IsEmpty
    <3>6. ~Contains(d) => before'[c][request'[c][k].digest.hash] = Nil
      BY <1>3, <3>2
    <3>7. kind[c] = "update" => result'[c][k].is # "OK"
      BY <3>3
    <3> QED
      BY <1>3, <3>2, <3>3, <3>4, <3>5, <3>6, <3>7 DEF FoundOK
  <2> QED
    BY <1>6, <2>1, <2>2
<1>9. FindOK(c)'
  <2>1. result'[c][k].is \in {"present", "missing"} \/ failed'[c]
    BY <1>6 DEF Presence, Answer
  <2>2. \A i \in 1..(next[c] - 1) : i # k => result'[c][i] = result[c][i]
    <3>1. next[c] \in Nat /\ Len(request[c]) \in Nat /\ next[c] <= Len(request[c]) + 1
      BY <1>1 DEF FindOK, AnswerInv, StoreInv, CallOK
    <3>2. \A i \in 1..(next[c] - 1) : i \in 1..Len(request[c])
      BY <3>1
    <3>3. DOMAIN result[c] = 1..Len(request[c])
      BY <1>1 DEF AnswerOK
    <3> QED
      BY <1>6, <3>2, <3>3
  <2>3. failed[c] => failed'[c]
    BY <1>4
  <2>4. ~(kind[c] = "find" /\ pc[c] = "OK")
    BY <1>1, <1>2 DEF FindOK
  <2> QED
    BY <1>1, <1>3, <1>4, <2>1, <2>2, <2>3, <2>4 DEF FindOK
<1>10. pc[c] # "idle"
  BY <1>1, <1>2 DEF AnswerOK
<1>11. kind[c] = "write" /\ pc[c] = "OK" => Contains(Upload(c).digest)'
  BY <1>1, <1>3 DEF AnswerOK, Upload, Contains, IsEmpty
<1>12. \A i \in 1..Len(request'[c]) : FoundOK(c, i)'
  BY <1>3, <1>7, <1>8
<1> QED
  BY <1>1, <1>3, <1>6, <1>9, <1>10, <1>11, <1>12 DEF AnswerOK

\* A batch call: Put's success is what is reported as OK, and only a blob that is
\* not there as NotFound.
LEMMA BatchAnswers ==
  ASSUME AnswerInv, Grows, NEW c \in Calls, UpdateOne(c) \/ ReadOne(c)
  PROVE  AnswerOK(c)'
<1> DEFINE d == request[c][next[c]].digest
<1>1. AnswerOK(c) /\ More(c)
  BY DEF AnswerInv, UpdateOne, ReadOne
<1>2. next[c] \in 1..Len(request[c])
  BY <1>1 DEF More, AnswerInv, StoreInv, CallOK
<1>3. d.hash \in Blobs /\ request[c][next[c]].data \in Seq(Chunks)
  BY <1>2, ItemRequested DEF AnswerInv
<1>4. ASSUME NEW what \in {"InvalidArgument", "Internal"}, Advance(c, what, Nil)
      PROVE  AnswerOK(c)'
  BY <1>1, <1>4, AdvanceAnswers DEF UpdateOne, ReadOne
<1>5. CASE UpdateOne(c)
  <2>1. ASSUME Stored(d, request[c][next[c]].data), Advance(c, "OK", Nil)
        PROVE  AnswerOK(c)'
    <3>1. blobs \in [Blobs -> Stores]
      BY DEF AnswerInv, StoreInv
    <3>2. IsEmpty(d) \/ blobs'[d.hash] # Nil
      BY <1>3, <2>1, <3>1, CasAssumption DEF Stored
    <3> HIDE DEF d
    <3>3. \A e : e = d => Contains(e)'
      BY <3>2 DEF Contains, IsEmpty
    <3>4. PICK e : e = d
      OBVIOUS
    <3>5. Contains(e)'
      BY <3>3, <3>4
    <3>6. e = request[c][next[c]].digest
      BY <3>4 DEF d
    <3>7. Open(c, "update")
      BY <1>5 DEF UpdateOne
    <3> QED
      BY <1>1, <2>1, <3>5, <3>6, <3>7, AdvanceAnswers
  <2> QED
    BY <1>4, <1>5, <2>1 DEF UpdateOne
<1>6. CASE ReadOne(c)
  <2>1. Open(c, "read") /\ kind[c] # "update"
    BY <1>6 DEF ReadOne, Open
  <2>2. ~Contains(d) => before[c][d.hash] = Nil
    BY <1>1, <1>3 DEF AnswerOK, Contains
  <2>3. ASSUME NEW what \in {"OK", "NotFound", "Internal"}, NEW data, Advance(c, what, data),
               what = "NotFound" => ~Contains(d)
        PROVE  AnswerOK(c)'
    BY <1>1, <2>1, <2>2, <2>3, AdvanceAnswers
  <2> QED
    BY <1>6, <2>3 DEF ReadOne
<1> QED
  BY <1>5, <1>6

\* A Write: what it acknowledges it has stored.
LEMMA WriteAnswers ==
  ASSUME AnswerInv, Grows, NEW c \in Calls, Commit(c) \/ Receive(c)
  PROVE  AnswerOK(c)'
<1>1. AnswerOK(c)
  BY DEF AnswerInv
<1>2. kind[c] = "write" /\ pc[c] \in {"open", "check"}
  BY DEF Commit, Receive, Recv, RecvEnd, Open, AnswerInv, StoreInv, CallOK
<1>3. ASSUME NEW code \in {"check", "InvalidArgument", "Internal", "Canceled"}, Return(c, code)
      PROVE  AnswerOK(c)'
  BY <1>2, <1>3, ReturnAnswers DEF Codes
<1>4. CASE Commit(c)
  <2>1. ASSUME Len(buffer[c]) = Upload(c).digest.size,
               Stored(Upload(c).digest, buffer[c]), Return(c, "OK")
        PROVE  AnswerOK(c)'
    <3>1. buffer[c] \in Seq(Chunks) /\ Upload(c).digest.hash \in Blobs
      BY <1>2, UploadRequested DEF AnswerInv, StoreInv, CallOK
    <3>2. blobs \in [Blobs -> Stores]
      BY DEF AnswerInv, StoreInv
    <3>3. IsEmpty(Upload(c).digest) \/ blobs'[Upload(c).digest.hash] # Nil
      BY <2>1, <3>1, <3>2, CasAssumption DEF Stored
    <3>4. request' = request
      BY <2>1 DEF Return
    <3>5. Contains(Upload(c).digest)'
      BY <3>3, <3>4 DEF Upload, Contains, IsEmpty
    <3> QED
      BY <1>2, <2>1, <3>5, ReturnAnswers DEF Codes
  <2> QED
    BY <1>3, <1>4, <2>1 DEF Commit
<1>5. CASE RecvEnd(c)
  BY <1>3, <1>5 DEF RecvEnd
<1>6. CASE Recv(c)
  <2>1. ASSUME UNCHANGED <<blobs, kind, request, next, busy, result, failed, before>>,
               NEW label \in {"check", "open"}, pc' = [pc EXCEPT ![c] = label]
        PROVE  AnswerOK(c)'
    <3>1. \A i \in 1..Len(request[c]) : FoundOK(c, i)'
      BY <1>1, <2>1, FoundStays DEF AnswerOK
    <3>2. FindOK(c)'
      BY <1>1, <1>2, <2>1 DEF AnswerOK, FindOK
    <3>3. pc'[c] = label
      BY <2>1 DEF AnswerInv, StoreInv, CallOK
    <3> QED
      BY <1>1, <2>1, <3>1, <3>2, <3>3 DEF AnswerOK
  <2> QED
    BY <1>3, <1>6, <2>1 DEF Recv
<1> QED
  BY <1>4, <1>5, <1>6 DEF Receive

\* The other answers: FindMissingBlobs's, a batch's, and QueryWriteStatus's.
LEMMA OtherAnswers ==
  ASSUME AnswerInv, Grows, NEW c \in Calls,
         FindReturn(c) \/ BatchReturn(c) \/ QueryWriteStatus(c)
  PROVE  AnswerOK(c)'
<1>1. AnswerOK(c) /\ FindOK(c) /\ pc[c] = "open"
  BY DEF AnswerInv, AnswerOK, FindReturn, BatchReturn, QueryWriteStatus, Open
<1>2. CASE FindReturn(c)
  <2>1. kind[c] = "find" /\ busy[c] = {} /\ ~More(c)
    BY <1>2 DEF FindReturn, Open
  <2>2. next[c] = Len(request[c]) + 1
    BY <1>1, <2>1 DEF More, FindOK, AnswerInv, StoreInv, CallOK
  <2> QED
    BY <1>1, <1>2, <2>1, <2>2, ReturnAnswers DEF FindReturn, Codes, AnswerInv, AnswerTypes
<1>3. CASE BatchReturn(c)
  BY <1>1, <1>3, ReturnAnswers DEF BatchReturn, Codes
<1>4. CASE QueryWriteStatus(c)
  <2>1. kind[c] = "query"
    BY <1>4 DEF QueryWriteStatus, Open
  <2>2. CASE Return(c, "Internal")
    BY <1>1, <2>2, ReturnAnswers DEF Codes
  <2>3. CASE /\ pc' = [pc EXCEPT ![c] = "OK"]
             /\ Found(c, 1, Presence(Upload(c).digest))
             /\ UNCHANGED <<blobs, kind, request, next, busy, failed, buffer, before>>
    <3>1. /\ DOMAIN result'[c] = DOMAIN result[c]
          /\ \A i \in DOMAIN result[c] :
               result'[c][i] = IF i = 1 THEN Presence(Upload(c).digest) ELSE result[c][i]
      BY <2>3, FoundAt DEF AnswerInv
    <3>2. ASSUME NEW i \in 1..Len(request[c]) PROVE FoundOK(c, i)'
      <4>1. CASE i # 1
        BY <1>1, <2>3, <3>1, <4>1, FoundStays DEF AnswerOK
      <4>2. CASE i = 1
        <5> DEFINE d == request[c][i].digest
        <5>1. d.hash \in Blobs
          BY ItemRequested DEF AnswerInv
        <5>2. result'[c][i].is = IF Contains(d) THEN "present" ELSE "missing"
          BY <1>1, <3>1, <4>2 DEF AnswerOK, Presence, Answer, Upload
        <5>3. ~Contains(d) => ~IsEmpty(d) /\ before[c][d.hash] = Nil
          BY <1>1, <5>1 DEF AnswerOK, Contains
        <5>4. Contains(request[c][i].digest)' <=> Contains(d)
          BY <2>3 DEF Contains, IsEmpty
        <5>5. IsEmpty(request[c][i].digest)' <=> IsEmpty(d)
          BY <2>3 DEF IsEmpty
        <5>6. ~Contains(d) => before'[c][request'[c][i].digest.hash] = Nil
          BY <2>3, <5>3
        <5> QED
          BY <2>1, <2>3, <5>2, <5>3, <5>4, <5>5, <5>6 DEF FoundOK
      <4> QED
        BY <4>1, <4>2
    <3>3. FindOK(c)'
      BY <1>1, <2>1, <2>3 DEF FindOK
    <3>4. pc'[c] = "OK"
      BY <2>3 DEF AnswerInv, StoreInv, CallOK
    <3> QED
      BY <1>1, <2>1, <2>3, <3>1, <3>2, <3>3, <3>4 DEF AnswerOK
  <2> QED
    BY <1>4, <2>2, <2>3 DEF QueryWriteStatus
<1> QED
  BY <1>2, <1>3, <1>4

\* The invariant is inductive.
LEMMA NextAnswerInv ==
  ASSUME AnswerInv, [Next]_vars
  PROVE  AnswerInv'
<1>1. StoreInv'
  BY NextStoreInv DEF AnswerInv
<1>2. ASSUME NEW c \in Calls,
             \/ Handle(c) \/ Receive(c)
             \/ \E k \in Kinds, q \in Seq(Requested) : Begin(c, k, q)
      PROVE  AnswerInv'
  <2>1. Grows
    BY <1>2, StoreGrows DEF AnswerInv
  <2>2. AnswerTypes' /\ \A b \in Calls : b # c => AnswerOK(b)'
    BY <1>2, <2>1, OthersUntouched, UntouchedKeeps
  <2>3. AnswerOK(c)'
    BY <1>2, <2>1, BeginAnswers, SpawnAnswers, ContainsAnswers, BatchAnswers, WriteAnswers,
       OtherAnswers DEF Handle
  <2> QED
    BY <1>1, <2>2, <2>3 DEF AnswerInv
<1>3. \A c \in Calls, q \in Requests, k \in {"find", "update", "read"} :
        Begin(c, k, q) => k \in Kinds /\ q \in Seq(Requested)
  BY CasAssumption DEF Kinds
<1>4. \A c \in Calls, u \in Uploads, k \in {"write", "query"} :
        Begin(c, k, <<u>>) => k \in Kinds /\ <<u>> \in Seq(Requested)
  BY DEF Kinds, Requested
<1>5. CASE UNCHANGED vars
  <2>1. Grows /\ AnswerTypes' /\ \A c \in Calls : Untouched(c)
    BY <1>5 DEF vars, callVars, Grows, AnswerInv, AnswerTypes, Untouched
  <2> QED
    BY <1>1, <2>1, UntouchedKeeps DEF AnswerInv
<1> QED
  BY <1>2, <1>3, <1>4, <1>5 DEF Next

-----------------------------------------------------------------------------
(* The theorems *)

\* Uploads are all or nothing: under the hash of a blob the store has that blob or
\* nothing, for any chunks, calls and batch requests, whose entries putOne checks, if
\* the clients of Write hash what they send, since Write checks the size alone.
THEOREM StoreIsSound == HonestClients /\ Spec => []StoreSound
<1> SUFFICES ASSUME HonestClients PROVE Spec => []StoreSound
  OBVIOUS
<1>1. Init => StoreInv /\ StoreSound
  BY InitStoreInv DEF Init, StoreSound
<1>2. StoreInv /\ StoreSound /\ [Next]_vars => (StoreInv /\ StoreSound)'
  BY NextStoreInv, NextSound
<1> QED
  BY <1>1, <1>2, PTL DEF Spec

\* No call has begun, and nothing is known.
LEMMA InitAnswerInv == Init => AnswerInv
<1> SUFFICES ASSUME Init PROVE AnswerInv
  OBVIOUS
<1>1. StoreInv
  BY InitStoreInv
<1>2. AnswerTypes
  BY <1>1 DEF Init, AnswerTypes, StoreInv
<1>3. ASSUME NEW c \in Calls PROVE AnswerOK(c)
  <2>1. /\ request[c] = <<>> /\ result[c] = <<>> /\ next[c] = 1 /\ busy[c] = {} /\ ~failed[c]
        /\ pc[c] = "idle" /\ before[c] = blobs
    BY DEF Init
  <2>2. Len(request[c]) = 0 /\ DOMAIN result[c] = 1..0
    BY <2>1
  <2>3. FindOK(c)
    BY <2>1, <2>2 DEF FindOK
  <2> QED
    BY <2>1, <2>2, <2>3 DEF AnswerOK
<1> QED
  BY <1>1, <1>2, <1>3 DEF AnswerInv

\* The invariant holds throughout.
LEMMA AlwaysAnswerInv == Spec => []AnswerInv
<1>1. AnswerInv /\ [Next]_vars => AnswerInv'
  BY NextAnswerInv
<1> QED
  BY InitAnswerInv, <1>1, PTL DEF Spec

\* An upload that was acknowledged, however it was made, is in the store from then
\* on, whatever other clients send: something is there under its hash, and StoreIsSound
\* says what.
THEOREM AcknowledgedStays == Spec => []AcknowledgedIsStored
<1>1. ASSUME AnswerInv PROVE AcknowledgedIsStored
  <2> SUFFICES ASSUME NEW c \in Calls, NEW i \in DOMAIN request[c],
                      \/ kind[c] = "write" /\ pc[c] = "OK"
                      \/ kind[c] = "update" /\ result[c][i].is = "OK"
                      \/ kind[c] = "query" /\ result[c][i].is = "present"
               PROVE  Contains(request[c][i].digest)
    BY DEF AcknowledgedIsStored
  <2>1. AnswerOK(c) /\ i \in 1..Len(request[c])
    BY <1>1 DEF AnswerInv, StoreInv, CallOK
  <2>2. kind[c] = "write" => i = 1
    BY <1>1, <2>1 DEF AnswerInv, StoreInv, WriteOK
  <2> QED
    BY <2>1, <2>2 DEF AnswerOK, FoundOK, Upload
<1> QED
  BY AlwaysAnswerInv, <1>1, PTL

\* What FindMissingBlobs says of each digest, with any number of them looked up at
\* a time, is right for the client that acts on it.
THEOREM FindMissingIsSound == Spec => []FindMissingSound
<1>1. ASSUME AnswerInv PROVE FindMissingSound
  <2> SUFFICES ASSUME NEW c \in Calls, kind[c] = "find", pc[c] = "OK",
                      NEW i \in DOMAIN request[c]
               PROVE  \/ result[c][i].is = "present" /\ Contains(request[c][i].digest)
                      \/ /\ result[c][i].is = "missing"
                         /\ ~IsEmpty(request[c][i].digest)
                         /\ before[c][request[c][i].digest.hash] = Nil
    BY DEF FindMissingSound
  <2>1. AnswerOK(c) /\ FindOK(c) /\ i \in 1..Len(request[c])
    BY <1>1 DEF AnswerInv, AnswerOK, StoreInv, CallOK
  <2>2. i \in 1..(next[c] - 1) /\ busy[c] = {} /\ ~failed[c]
    BY <2>1 DEF FindOK
  <2>3. result[c][i].is \in {"present", "missing"}
    BY <2>1, <2>2 DEF FindOK
  <2>4. FoundOK(c, i)
    BY <2>1 DEF AnswerOK
  <2> QED
    BY <2>3, <2>4 DEF FoundOK
<1> QED
  BY AlwaysAnswerInv, <1>1, PTL

\* No read loses to a write that is under way: what BatchReadBlobs does not find
\* was not there when it was called.
THEOREM NotFoundIsAbsence == Spec => []NotFoundWasAbsent
<1>1. ASSUME AnswerInv PROVE NotFoundWasAbsent
  <2> SUFFICES ASSUME NEW c \in Calls, NEW i \in DOMAIN request[c],
                      result[c][i].is = "NotFound"
               PROVE  before[c][request[c][i].digest.hash] = Nil
    BY DEF NotFoundWasAbsent
  <2>1. AnswerOK(c) /\ i \in 1..Len(request[c])
    BY <1>1 DEF AnswerInv, StoreInv, CallOK
  <2> QED
    BY <2>1 DEF AnswerOK, FoundOK
<1> QED
  BY AlwaysAnswerInv, <1>1, PTL

\* The shape of the state: a call is past no digest that it was not given, and the
\* temporary file of a Write is the beginning of what its client has to send.
THEOREM CasTypeCorrect == Spec => []CasTypeOK
<1>1. ASSUME AnswerInv PROVE CasTypeOK
  <2>1. ASSUME NEW c \in Calls
        PROVE  /\ \A i \in DOMAIN request[c] : request[c][i] \in Requested
               /\ next[c] \in 1..(Len(request[c]) + 1)
               /\ busy[c] \subseteq 1..(next[c] - 1)
               /\ DOMAIN result[c] = DOMAIN request[c]
    BY <1>1 DEF AnswerInv, AnswerOK, FindOK, StoreInv, CallOK
  <2>2. ASSUME NEW c \in Calls, kind[c] = "write"
        PROVE  buffer[c] = SubSeq(Upload(c).data, 1, Len(buffer[c]))
    <3> DEFINE b == buffer[c]
               s == Upload(c).data
    <3>1. b \in Seq(Chunks) /\ \A i \in 1..Len(b) : b[i] = s[i]
      BY <1>1, <2>2 DEF AnswerInv, StoreInv, CallOK, WriteOK
    <3>2. s \in Seq(Chunks)
      BY <1>1, <2>2, UploadRequested DEF AnswerInv
    <3> HIDE DEF b, s
    <3>3. SubSeq(s, 1, Len(b)) = [i \in 1..Len(b) |-> s[i]]
      BY <3>1, <3>2
    <3>4. b = [i \in 1..Len(b) |-> b[i]]
      BY <3>1
    <3>5. [i \in 1..Len(b) |-> b[i]] = [i \in 1..Len(b) |-> s[i]]
      BY <3>1
    <3> QED
      BY <3>3, <3>4, <3>5 DEF b, s
  <2> QED
    BY <1>1, <2>1, <2>2 DEF CasTypeOK, AnswerInv, AnswerTypes, StoreInv, CallOK
<1> QED
  BY AlwaysAnswerInv, <1>1, PTL

-----------------------------------------------------------------------------
(* Sequences of sequences *)

\* FlattenSeq is defined by recursion along a sequence.
Joined(ss, n) == CHOOSE f : f = [i \in 1..n |-> IF i = 1 THEN ss[i] ELSE f[i - 1] \o ss[i]]

\* Its partial results exist.
LEMMA JoinedExists ==
  ASSUME NEW ss, NEW n \in Nat
  PROVE  Joined(ss, n) = [i \in 1..n |-> IF i = 1 THEN ss[i] ELSE Joined(ss, n)[i - 1] \o ss[i]]
<1> DEFINE Reaches(k) == \E f : f = [i \in 1..k |-> IF i = 1 THEN ss[i] ELSE f[i - 1] \o ss[i]]
           K == {k \in Nat : Reaches(k)}
<1>1. Reaches(0)
  <2>1. <<>> = [i \in 1..0 |-> IF i = 1 THEN ss[i] ELSE <<>>[i - 1] \o ss[i]]
    OBVIOUS
  <2> QED
    BY <2>1
<1>2. ASSUME NEW k \in Nat, Reaches(k)
      PROVE  Reaches(k + 1)
  <2>1. PICK g : g = [i \in 1..k |-> IF i = 1 THEN ss[i] ELSE g[i - 1] \o ss[i]]
    BY <1>2
  <2> DEFINE h == [i \in 1..(k + 1) |-> IF i = 1 THEN ss[i] ELSE g[i - 1] \o ss[i]]
  <2>2. \A i \in 1..k : h[i] = g[i]
    <3>1. \A i \in 1..k : i \in 1..(k + 1)
      OBVIOUS
    <3>2. \A i \in 1..k : g[i] = IF i = 1 THEN ss[i] ELSE g[i - 1] \o ss[i]
      BY <2>1
    <3> QED
      BY <3>1, <3>2
  <2>3. h = [i \in 1..(k + 1) |-> IF i = 1 THEN ss[i] ELSE h[i - 1] \o ss[i]]
    <3>1. \A i \in 1..(k + 1) : i # 1 => i - 1 \in 1..k
      OBVIOUS
    <3> QED
      BY <2>2, <3>1
  <2> HIDE DEF h
  <2> QED
    BY <2>3
<1>3. 0 \in K
  BY <1>1
<1>4. ASSUME NEW k \in Nat, k \in K
      PROVE  k + 1 \in K
  <2>1. Reaches(k)
    BY <1>4
  <2>2. Reaches(k + 1)
    BY <1>2, <2>1
  <2>3. k + 1 \in Nat
    OBVIOUS
  <2> HIDE DEF Reaches
  <2> QED
    BY <2>2, <2>3
<1> HIDE DEF K, Reaches
<1>5. Reaches(n)
  BY <1>3, <1>4, Induction DEF K
<1> QED
  BY <1>5 DEF Reaches, Joined

\* Its values.
LEMMA JoinedAt ==
  ASSUME NEW ss, NEW n \in Nat
  PROVE  \A i \in 1..n : Joined(ss, n)[i] = IF i = 1 THEN ss[i] ELSE Joined(ss, n)[i - 1] \o ss[i]
<1> DEFINE f == Joined(ss, n)
<1>1. f = [i \in 1..n |-> IF i = 1 THEN ss[i] ELSE f[i - 1] \o ss[i]]
  BY JoinedExists
<1> HIDE DEF f
<1>2. \A i \in 1..n : f[i] = IF i = 1 THEN ss[i] ELSE f[i - 1] \o ss[i]
  BY <1>1
<1> QED
  BY <1>2 DEF f

\* The sequences ss, n of them, of which tt begins.
Begins(S, ss, n, tt) == \A i \in 1..n : ss[i] \in Seq(S) /\ tt[i] = ss[i]

\* One sequence more is joined to what there is.
LEMMA JoinedStep ==
  ASSUME NEW S, NEW ss, NEW n \in Nat, NEW tt, Begins(S, ss, n, tt), NEW m \in Nat, n <= m
  PROVE  Begins(S, Joined(ss, n), n, Joined(tt, m))
<1> DEFINE f == Joined(ss, n)
           g == Joined(tt, m)
           K == {k \in Nat : k + 1 \in 1..n => f[k + 1] \in Seq(S) /\ g[k + 1] = f[k + 1]}
<1>1. \A i \in 1..n : f[i] = IF i = 1 THEN ss[i] ELSE f[i - 1] \o ss[i]
  BY JoinedAt
<1>2. \A i \in 1..m : g[i] = IF i = 1 THEN tt[i] ELSE g[i - 1] \o tt[i]
  BY JoinedAt
<1>3. \A i \in 1..n : i \in 1..m
  OBVIOUS
<1> HIDE DEF f, g
<1>4. 0 \in K
  BY <1>1, <1>2, <1>3 DEF Begins
<1>5. ASSUME NEW k \in Nat, k \in K
      PROVE  k + 1 \in K
  <2> SUFFICES ASSUME (k + 1) + 1 \in 1..n
               PROVE  f[(k + 1) + 1] \in Seq(S) /\ g[(k + 1) + 1] = f[(k + 1) + 1]
    OBVIOUS
  <2>1. k + 1 \in 1..n /\ (k + 1) + 1 # 1 /\ ((k + 1) + 1) - 1 = k + 1
    OBVIOUS
  <2>2. f[k + 1] \in Seq(S) /\ g[k + 1] = f[k + 1]
    BY <1>5, <2>1
  <2>3. f[(k + 1) + 1] = f[k + 1] \o ss[(k + 1) + 1]
    BY <1>1, <2>1
  <2>4. g[(k + 1) + 1] = g[k + 1] \o tt[(k + 1) + 1]
    BY <1>2, <1>3, <2>1
  <2>5. ss[(k + 1) + 1] \in Seq(S) /\ tt[(k + 1) + 1] = ss[(k + 1) + 1]
    BY DEF Begins
  <2> QED
    BY <2>2, <2>3, <2>4, <2>5
<1> HIDE DEF K
<1>6. Nat \subseteq K
  BY <1>4, <1>5, Induction
<1>7. ASSUME NEW i \in 1..n
      PROVE  f[i] \in Seq(S) /\ g[i] = f[i]
  <2>1. i - 1 \in Nat /\ (i - 1) + 1 = i
    OBVIOUS
  <2>2. i - 1 \in K
    BY <1>6, <2>1
  <2> QED
    BY <2>1, <2>2 DEF K
<1> QED
  BY <1>7 DEF f, g, Begins

\* FlattenSeq of no sequence, and of one more.
LEMMA Flattened ==
  ASSUME NEW S
  PROVE  /\ SE!FlattenSeq(<<>>) = <<>>
         /\ \A ss \in Seq(Seq(S)) : SE!FlattenSeq(ss) \in Seq(S)
         /\ \A ss \in Seq(Seq(S)), s \in Seq(S) :
              SE!FlattenSeq(Append(ss, s)) = SE!FlattenSeq(ss) \o s
<1>1. \A ss : SE!FlattenSeq(ss) = IF Len(ss) = 0 THEN ss ELSE Joined(ss, Len(ss))[Len(ss)]
  BY DEF SE!FlattenSeq, Joined
<1>2. SE!FlattenSeq(<<>>) = <<>>
  BY <1>1
<1>3. ASSUME NEW ss \in Seq(Seq(S))
      PROVE  SE!FlattenSeq(ss) \in Seq(S)
  <2>1. CASE Len(ss) = 0
    <3>1. ss = <<>> /\ <<>> \in Seq(S)
      BY <2>1
    <3> QED
      BY <1>2, <3>1
  <2>2. CASE Len(ss) # 0
    <3>1. Len(ss) \in Nat /\ Len(ss) \in 1..Len(ss) /\ \A i \in 1..Len(ss) : ss[i] \in Seq(S)
      BY <2>2
    <3>2. Begins(S, ss, Len(ss), ss)
      BY <3>1 DEF Begins
    <3>3. Begins(S, Joined(ss, Len(ss)), Len(ss), Joined(ss, Len(ss)))
      BY <3>1, <3>2, JoinedStep
    <3> QED
      BY <1>1, <2>2, <3>1, <3>3 DEF Begins
  <2> QED
    BY <2>1, <2>2
<1>4. ASSUME NEW ss \in Seq(Seq(S)), NEW s \in Seq(S)
      PROVE  SE!FlattenSeq(Append(ss, s)) = SE!FlattenSeq(ss) \o s
  <2> DEFINE n == Len(ss)
             tt == Append(ss, s)
  <2>1. n \in Nat /\ Len(tt) = n + 1 /\ tt[n + 1] = s /\ \A i \in 1..n : tt[i] = ss[i] /\ ss[i] \in Seq(S)
    OBVIOUS
  <2> HIDE DEF tt
  <2>2. Joined(tt, n + 1)[n + 1] = IF n + 1 = 1 THEN tt[n + 1] ELSE Joined(tt, n + 1)[(n + 1) - 1] \o tt[n + 1]
    <3>1. n + 1 \in Nat /\ n + 1 \in 1..(n + 1)
      BY <2>1
    <3> QED
      BY <3>1, JoinedAt
  <2>3. SE!FlattenSeq(tt) = Joined(tt, n + 1)[n + 1]
    BY <1>1, <2>1
  <2>4. CASE n = 0
    <3>1. ss = <<>> /\ SE!FlattenSeq(ss) = <<>>
      BY <1>2, <2>4
    <3> QED
      BY <2>1, <2>2, <2>3, <2>4, <3>1 DEF tt
  <2>5. CASE n # 0
    <3>1. n \in 1..n /\ (n + 1) - 1 = n /\ n + 1 # 1 /\ n <= n + 1 /\ n + 1 \in Nat
      BY <2>1, <2>5
    <3>2. Joined(tt, n + 1)[n] = Joined(ss, n)[n]
      <4> DEFINE m == n + 1
      <4>1. Begins(S, ss, n, tt)
        BY <2>1 DEF Begins
      <4>2. Begins(S, Joined(ss, n), n, Joined(tt, n + 1))
        BY <2>1, <3>1, <4>1, JoinedStep
      <4> QED
        BY <3>1, <4>2 DEF Begins
    <3>3. SE!FlattenSeq(ss) = Joined(ss, n)[n]
      BY <1>1, <2>5
    <3> QED
      BY <2>1, <2>2, <2>3, <3>1, <3>2, <3>3 DEF tt
  <2> QED
    BY <2>4, <2>5
<1> QED
  BY <1>2, <1>3, <1>4

-----------------------------------------------------------------------------
(* Read *)

\* The part of a blob that a Read asks for.
Slice(b, range) ==
  LET asked == {i \in DOMAIN b : /\ range.offset < i
                                 /\ range.limit > 0 => i <= range.offset + range.limit}
  IN  [i \in 1..Cardinality(asked) |-> b[range.offset + i]]

\* The HTTP range that Store.Reader makes of an offset and a limit names that part.
LEMMA ByteRangeIsSlice ==
  ASSUME NEW b \in Seq(Chunks), NEW range \in [offset: Nat, limit: Nat]
  PROVE  byteRange(b, range) = Slice(b, range) /\ Slice(b, range) \in Seq(Chunks)
<1> DEFINE o == range.offset
           l == range.limit
           asked == {i \in DOMAIN b : o < i /\ (l > 0 => i <= o + l)}
           end == IF l = 0 \/ o + l > Len(b) THEN Len(b) ELSE o + l
<1>1. o \in Nat /\ l \in Nat /\ Len(b) \in Nat /\ DOMAIN b = 1..Len(b)
  OBVIOUS
<1>2. Slice(b, range) = [i \in 1..Cardinality(asked) |-> b[o + i]]
  BY DEF Slice
<1>3. byteRange(b, range) = IF l = 0 THEN SubSeq(b, o + 1, Len(b))
                            ELSE SubSeq(b, o + 1, IF o + l - 1 >= Len(b) THEN Len(b) ELSE o + l - 1 + 1)
  BY DEF byteRange
<1> HIDE DEF o, l
<1>4. asked = (o + 1)..end
  BY <1>1
<1>5. end \in Nat /\ end <= Len(b)
  BY <1>1
<1>6. byteRange(b, range) = SubSeq(b, o + 1, end)
  BY <1>1, <1>3
<1> HIDE DEF asked, end
<1> DEFINE n == IF o < end THEN end - o ELSE 0
<1>7. n \in Nat
  BY <1>1, <1>5
<1>8. Cardinality(asked) = n
  <2>1. o + 1 \in Int /\ end \in Int
    BY <1>1, <1>5
  <2>2. Cardinality((o + 1)..end) = IF o + 1 > end THEN 0 ELSE end - (o + 1) + 1
    BY <2>1, FS_Interval
  <2> QED
    BY <1>1, <1>4, <1>5, <2>2
<1>9. \A i \in 1..n : o + i \in 1..Len(b) /\ b[o + i] \in Chunks
  BY <1>1, <1>5
<1>10. [i \in 1..n |-> b[o + i]] \in Seq(Chunks)
  BY <1>7, <1>9
<1>11. SubSeq(b, o + 1, end) = [i \in 1..n |-> b[o + i]]
  <2>1. \A i \in (o + 1)..end : b[i] \in Chunks
    BY <1>1, <1>5
  <2>2. /\ SubSeq(b, o + 1, end) \in Seq(Chunks)
        /\ Len(SubSeq(b, o + 1, end)) = IF o + 1 <= end THEN end - (o + 1) + 1 ELSE 0
        /\ \A i \in 1..(end - (o + 1) + 1) : SubSeq(b, o + 1, end)[i] = b[(o + 1) + i - 1]
    BY <1>1, <1>5, <2>1, SubSeqProperties
  <2>3. Len(SubSeq(b, o + 1, end)) = n
    BY <1>1, <1>5, <2>2
  <2>4. \A i \in 1..n : i \in 1..(end - (o + 1) + 1) /\ (o + 1) + i - 1 = o + i
    BY <1>1, <1>5
  <2> DEFINE s == SubSeq(b, o + 1, end)
  <2> HIDE DEF s, n
  <2>5. s \in Seq(Chunks) /\ Len(s) = n /\ \A i \in 1..n : s[i] = b[o + i]
    BY <2>2, <2>3, <2>4 DEF s
  <2>6. s = [i \in 1..n |-> b[o + i]]
    BY <2>5
  <2> QED
    BY <2>6 DEF s
<1> QED
  BY <1>2, <1>6, <1>8, <1>10, <1>11

\* A Read: its state, what it asks for, what is left of the body and the messages.
ReadIs(a, w, q, m) ==
  /\ a \in {"idle", "reader", "body"} \cup Codes
  /\ w.digest.hash \in Seq(Chunks) /\ w.range \in [offset: Nat, limit: Nat]
  /\ a # "idle" => w.digest.hash \in Blobs
  /\ m \in Seq(Seq(Chunks))
  /\ \A i \in 1..Len(m) : Len(m[i]) \in 1..readChunkSize
  /\ a \in {"idle", "reader"} => m = <<>>
  /\ a = "body" => q \in Seq(Chunks) /\ SE!FlattenSeq(m) \o q = Slice(w.digest.hash, w.range)
  /\ a = "OK" => SE!FlattenSeq(m) = Slice(w.digest.hash, w.range)
  /\ \E s \in Seq(Chunks) : SE!FlattenSeq(m) \o s = Slice(w.digest.hash, w.range)

\* A Read that is asked for has sent nothing.
LEMMA ReadBegins ==
  ASSUME NEW a \in {"idle", "reader"}, NEW w, NEW q,
         w.digest.hash \in Seq(Chunks), w.range \in [offset: Nat, limit: Nat],
         a # "idle" => w.digest.hash \in Blobs
  PROVE  ReadIs(a, w, q, <<>>)
<1> DEFINE s == Slice(w.digest.hash, w.range)
<1>1. s \in Seq(Chunks)
  BY ByteRangeIsSlice
<1>2. SE!FlattenSeq(<<>>) = <<>>
  BY Flattened
<1> HIDE DEF s
<1>3. <<>> \o s = s
  BY <1>1
<1>4. <<>> \in Seq(Seq(Chunks)) /\ Len(<<>>) = 0
  OBVIOUS
<1>5. \E t \in Seq(Chunks) : SE!FlattenSeq(<<>>) \o t = s
  BY <1>1, <1>2, <1>3
<1> QED
  BY <1>4, <1>5 DEF ReadIs, s

\* A Read that ends has sent a part of what it was asked for; and all of it if the
\* body is at its end.
LEMMA ReadEnds ==
  ASSUME NEW a, NEW w, NEW q, NEW m, ReadIs(a, w, q, m), a # "idle", NEW code \in Codes,
         code = "OK" => a = "body" /\ q = <<>>
  PROVE  ReadIs(code, w, q, m)
<1>1. code \notin {"idle", "reader", "body"}
  BY DEF Codes
<1>2. m \in Seq(Seq(Chunks))
  BY DEF ReadIs
<1>3. SE!FlattenSeq(m) \in Seq(Chunks)
  BY <1>2, Flattened
<1>4. code = "OK" => SE!FlattenSeq(m) = Slice(w.digest.hash, w.range)
  <2> SUFFICES ASSUME code = "OK" PROVE SE!FlattenSeq(m) = Slice(w.digest.hash, w.range)
    OBVIOUS
  <2>1. SE!FlattenSeq(m) \o q = Slice(w.digest.hash, w.range) /\ q = <<>>
    BY DEF ReadIs
  <2> QED
    BY <1>3, <2>1
<1> QED
  BY <1>1, <1>4 DEF ReadIs

\* The body is opened.
LEMMA ReadOpens ==
  ASSUME NEW w, NEW q, NEW m, ReadIs("reader", w, q, m)
  PROVE  ReadIs("body", w, byteRange(w.digest.hash, w.range), m)
<1> DEFINE s == Slice(w.digest.hash, w.range)
<1>1. w.digest.hash \in Seq(Chunks) /\ w.range \in [offset: Nat, limit: Nat]
  BY DEF ReadIs
<1>2. byteRange(w.digest.hash, w.range) = s /\ s \in Seq(Chunks)
  BY <1>1, ByteRangeIsSlice
<1>3. m = <<>> /\ SE!FlattenSeq(<<>>) = <<>>
  BY Flattened DEF ReadIs
<1> HIDE DEF s
<1>4. SE!FlattenSeq(m) \o s = s
  BY <1>2, <1>3
<1> QED
  BY <1>2, <1>4 DEF ReadIs, Codes, s

\* A buffer's worth is sent.
LEMMA ReadSends ==
  ASSUME NEW w, NEW q, NEW m, ReadIs("body", w, q, m),
         NEW n \in 1..readChunkSize, n <= Len(q)
  PROVE  ReadIs("body", w, SubSeq(q, n + 1, Len(q)), Append(m, SubSeq(q, 1, n)))
<1> DEFINE s == Slice(w.digest.hash, w.range)
           x == SubSeq(q, 1, n)
           y == SubSeq(q, n + 1, Len(q))
           f == SE!FlattenSeq(m)
<1>1. q \in Seq(Chunks) /\ f \o q = s /\ m \in Seq(Seq(Chunks))
  BY DEF ReadIs
<1>2. f \in Seq(Chunks)
  BY <1>1, Flattened
<1>3. n \in Nat /\ Len(q) \in Nat /\ n \in 1..readChunkSize
  BY <1>1, ReadsAssumption
<1>4. x \in Seq(Chunks) /\ Len(x) = n /\ y \in Seq(Chunks)
  BY <1>1, <1>3
<1>5. x \o y = q
  <2>1. 1 \in 1..(Len(q) + 1) /\ n \in (1 - 1)..Len(q) /\ Len(q) \in n..Len(q)
    BY <1>3
  <2>2. x \o y = SubSeq(q, 1, Len(q))
    BY <1>1, <2>1, ConcatAdjacentSubSeq
  <2> QED
    BY <1>1, <2>2, SubSeqFull
<1> HIDE DEF s, x, y, f
<1>6. SE!FlattenSeq(Append(m, x)) = f \o x
  BY <1>1, <1>4, Flattened DEF f
<1>7. (f \o x) \o y = s
  <2>1. (f \o x) \o y = f \o (x \o y)
    BY <1>2, <1>4, ConcatAssociative
  <2> QED
    BY <1>1, <1>5, <2>1
<1>8. SE!FlattenSeq(Append(m, x)) \o y = s
  BY <1>6, <1>7
<1>9. \A i \in 1..Len(Append(m, x)) : Len(Append(m, x)[i]) \in 1..readChunkSize
  <2>1. \A i \in 1..Len(m) : Len(m[i]) \in 1..readChunkSize
    BY DEF ReadIs
  <2>2. Len(Append(m, x)) = Len(m) + 1 /\ Append(m, x)[Len(m) + 1] = x
        /\ \A i \in 1..Len(m) : Append(m, x)[i] = m[i]
    BY <1>1, <1>4, AppendProperties
  <2>3. \A i \in 1..(Len(m) + 1) : i \in 1..Len(m) \/ i = Len(m) + 1
    BY <1>1
  <2> QED
    BY <1>3, <1>4, <2>1, <2>2, <2>3
<1>10. Append(m, x) \in Seq(Seq(Chunks))
  BY <1>1, <1>4
<1>11. w.digest.hash \in Seq(Chunks) /\ w.range \in [offset: Nat, limit: Nat] /\ w.digest.hash \in Blobs
  BY DEF ReadIs
<1> QED
  BY <1>4, <1>8, <1>9, <1>10, <1>11 DEF ReadIs, Codes, s, x, y

-----------------------------------------------------------------------------
(* GetTree *)

Directories == DOMAIN Subdirectories
Digests == {u.digest : u \in Uploads} \cup [hash: Blobs, size: Nat]

Hashes(q) == [i \in DOMAIN q |-> q[i].hash]

\* The directories that those of t name, in order.
Named(t) == SE!FlattenSeq([i \in DOMAIN t |-> Subdirectories[t[i]]])
Follow(t) == Hashes(Named(t))

\* A digest's hash is that of a blob.
LEMMA DigestHash == \A d \in Digests : d.hash \in Blobs
<1>1. \A u \in Uploads : u.digest.hash \in Blobs
  BY CasAssumption DEF Requested
<1> QED
  BY <1>1 DEF Digests

\* The hashes of two lists in a row.
LEMMA HashesConcat ==
  ASSUME NEW p \in Seq(Digests), NEW q \in Seq(Digests)
  PROVE  /\ Hashes(p) \in Seq(Blobs)
         /\ Hashes(p \o q) = Hashes(p) \o Hashes(q)
<1>1. ASSUME NEW s \in Seq(Digests)
      PROVE  Hashes(s) \in Seq(Blobs) /\ Len(Hashes(s)) = Len(s) /\ \A i \in 1..Len(s) : Hashes(s)[i] = s[i].hash
  <2>1. Len(s) \in Nat /\ DOMAIN s = 1..Len(s) /\ \A i \in 1..Len(s) : s[i] \in Digests
    OBVIOUS
  <2>2. \A i \in 1..Len(s) : s[i].hash \in Blobs
    BY <2>1, DigestHash
  <2>3. [i \in 1..Len(s) |-> s[i].hash] \in Seq(Blobs)
    BY <2>1, <2>2
  <2> QED
    BY <2>1, <2>3 DEF Hashes
<1> DEFINE r == p \o q
           h == Hashes(p)
           g == Hashes(q)
           z == Hashes(r)
<1>2. /\ r \in Seq(Digests) /\ Len(r) = Len(p) + Len(q)
      /\ \A i \in 1..(Len(p) + Len(q)) : r[i] = IF i <= Len(p) THEN p[i] ELSE q[i - Len(p)]
  BY ConcatProperties
<1>3. h \in Seq(Blobs) /\ Len(h) = Len(p) /\ \A i \in 1..Len(p) : h[i] = p[i].hash
  BY <1>1
<1>4. g \in Seq(Blobs) /\ Len(g) = Len(q) /\ \A i \in 1..Len(q) : g[i] = q[i].hash
  BY <1>1
<1> HIDE DEF r
<1>5. z \in Seq(Blobs) /\ Len(z) = Len(r) /\ \A i \in 1..Len(r) : z[i] = r[i].hash
  BY <1>1, <1>2
<1> HIDE DEF h, g, z
<1>6. Len(p) \in Nat /\ Len(q) \in Nat
  OBVIOUS
<1>7. /\ h \o g \in Seq(Blobs) /\ Len(h \o g) = Len(p) + Len(q)
      /\ \A i \in 1..(Len(p) + Len(q)) : (h \o g)[i] = IF i <= Len(p) THEN h[i] ELSE g[i - Len(p)]
  BY <1>3, <1>4, ConcatProperties
<1>8. ASSUME NEW i \in 1..Len(z)
      PROVE  z[i] = (h \o g)[i]
  <2>1. i \in 1..(Len(p) + Len(q)) /\ i \in 1..Len(r)
    BY <1>2, <1>5
  <2>2. CASE i <= Len(p)
    <3>1. i \in 1..Len(p)
      BY <1>6, <2>1, <2>2
    <3> QED
      BY <1>2, <1>3, <1>5, <1>7, <2>1, <2>2, <3>1
  <2>3. CASE ~(i <= Len(p))
    <3>1. i - Len(p) \in 1..Len(q)
      BY <1>6, <2>1, <2>3
    <3> QED
      BY <1>2, <1>4, <1>5, <1>7, <2>1, <2>3, <3>1
  <2> QED
    BY <2>2, <2>3
<1>9. z = h \o g
  <2>1. Len(z) = Len(h \o g)
    BY <1>2, <1>5, <1>7
  <2> QED
    BY <1>5, <1>7, <1>8, <2>1, SeqEqual
<1> QED
  BY <1>3, <1>9 DEF h, g, z, r

\* What follows, of no directory and of one more.
LEMMA FollowAppend ==
  /\ Follow(<<>>) = <<>>
  /\ \A t \in Seq(Directories) : Follow(t) \in Seq(Blobs)
  /\ \A t \in Seq(Directories), d \in Directories :
       Follow(Append(t, d)) = Follow(t) \o Hashes(Subdirectories[d])
<1> DEFINE Below(t) == [i \in DOMAIN t |-> Subdirectories[t[i]]]
<1>1. \A d \in Directories : Subdirectories[d] \in Seq(Digests)
  <2>1. \A d \in Directories : Subdirectories[d] \in Seq([hash: Blobs, size: Nat])
    BY ReadsAssumption DEF Directories
  <2>2. [hash: Blobs, size: Nat] \subseteq Digests
    BY DEF Digests
  <2> QED
    BY <2>1, <2>2, SeqMonotonic
<1>2. ASSUME NEW t \in Seq(Directories)
      PROVE  Below(t) \in Seq(Seq(Digests))
  <2>1. DOMAIN t = 1..Len(t) /\ Len(t) \in Nat /\ \A i \in 1..Len(t) : t[i] \in Directories
    OBVIOUS
  <2>2. \A i \in 1..Len(t) : Subdirectories[t[i]] \in Seq(Digests)
    BY <1>1, <2>1
  <2>3. [i \in 1..Len(t) |-> Subdirectories[t[i]]] \in Seq(Seq(Digests))
    BY <2>1, <2>2
  <2> QED
    BY <2>1, <2>3
<1>3. ASSUME NEW t \in Seq(Directories), NEW d \in Directories
      PROVE  Below(Append(t, d)) = Append(Below(t), Subdirectories[d])
  <2> DEFINE n == Len(t)
             u == Append(t, d)
  <2>1. n \in Nat /\ DOMAIN t = 1..n /\ DOMAIN u = 1..(n + 1) /\ u[n + 1] = d /\ \A i \in 1..n : u[i] = t[i]
    OBVIOUS
  <2> HIDE DEF u
  <2>2. Below(t) = [i \in 1..n |-> Subdirectories[t[i]]]
    BY <2>1
  <2>3. Len(Below(t)) = n
    BY <2>1, <2>2
  <2>4. Append(Below(t), Subdirectories[d])
          = [i \in 1..(n + 1) |-> IF i <= n THEN Below(t)[i] ELSE Subdirectories[d]]
    <3>1. Below(t) \in Seq(Seq(Digests)) /\ Subdirectories[d] \in Seq(Digests)
      BY <1>1, <1>2
    <3> HIDE DEF Below, n
    <3>2. /\ Append(Below(t), Subdirectories[d]) \in Seq(Seq(Digests))
          /\ Len(Append(Below(t), Subdirectories[d])) = n + 1
          /\ \A i \in 1..n : Append(Below(t), Subdirectories[d])[i] = Below(t)[i]
          /\ Append(Below(t), Subdirectories[d])[n + 1] = Subdirectories[d]
      BY <2>3, <3>1, AppendProperties
    <3> DEFINE s == Append(Below(t), Subdirectories[d])
    <3> HIDE DEF s
    <3>3. s = [i \in 1..(n + 1) |-> s[i]]
      BY <3>2 DEF s
    <3>4. \A i \in 1..(n + 1) : s[i] = IF i <= n THEN Below(t)[i] ELSE Subdirectories[d]
      <4>1. \A i \in 1..(n + 1) : IF i <= n THEN i \in 1..n ELSE i = n + 1
        BY <2>1
      <4> QED
        BY <3>2, <4>1 DEF s
    <3> QED
      BY <3>3, <3>4 DEF s
  <2>5. Below(u) = [i \in 1..(n + 1) |-> Subdirectories[u[i]]]
    BY <2>1
  <2>6. \A i \in 1..(n + 1) : Subdirectories[u[i]] = IF i <= n THEN Below(t)[i] ELSE Subdirectories[d]
    <3>1. \A i \in 1..(n + 1) : IF i <= n THEN i \in 1..n ELSE i = n + 1
      BY <2>1
    <3> QED
      BY <2>1, <2>2, <3>1
  <2>7. Below(u) = Append(Below(t), Subdirectories[d])
    <3> HIDE DEF n
    <3> DEFINE b == Below(t)
    <3>1. Below(u) = [i \in 1..(n + 1) |-> IF i <= n THEN b[i] ELSE Subdirectories[d]]
      BY <2>5, <2>6
    <3>2. Append(b, Subdirectories[d]) = [i \in 1..(n + 1) |-> IF i <= n THEN b[i] ELSE Subdirectories[d]]
      BY <2>4
    <3> QED
      BY <3>1, <3>2
  <2> QED
    BY <2>7 DEF u
<1>4. Below(<<>>) = <<>>
  OBVIOUS
<1>5. \A t : Named(t) = SE!FlattenSeq(Below(t))
  BY DEF Named
<1> HIDE DEF Below
<1>6. Follow(<<>>) = <<>>
  <2>1. Named(<<>>) = <<>>
    BY <1>4, <1>5, Flattened
  <2> QED
    BY <2>1 DEF Follow, Hashes
<1>7. \A t \in Seq(Directories) : Named(t) \in Seq(Digests)
  BY <1>2, <1>5, Flattened
<1>8. ASSUME NEW t \in Seq(Directories)
      PROVE  Follow(t) \in Seq(Blobs)
  BY <1>7, HashesConcat DEF Follow
<1>9. ASSUME NEW t \in Seq(Directories), NEW d \in Directories
      PROVE  Follow(Append(t, d)) = Follow(t) \o Hashes(Subdirectories[d])
  <2>1. Below(t) \in Seq(Seq(Digests)) /\ Subdirectories[d] \in Seq(Digests)
    BY <1>1, <1>2
  <2>2. Named(Append(t, d)) = SE!FlattenSeq(Append(Below(t), Subdirectories[d]))
    BY <1>3, <1>5
  <2>3. SE!FlattenSeq(Append(Below(t), Subdirectories[d])) = SE!FlattenSeq(Below(t)) \o Subdirectories[d]
    BY <2>1, Flattened
  <2>4. Named(Append(t, d)) = Named(t) \o Subdirectories[d]
    BY <1>5, <2>2, <2>3
  <2> QED
    BY <1>7, <2>1, <2>4, HashesConcat DEF Follow
<1> QED
  BY <1>6, <1>8, <1>9

-----------------------------------------------------------------------------
\* The pages sent: full ones, but for the last.
FullPages(m) == \A i \in 1..Len(m) : Len(m[i]) = pageSize
PagesOK(m) == \A i \in 1..Len(m) : /\ Len(m[i]) \in 1..pageSize
                                   /\ i < Len(m) => Len(m[i]) = pageSize

\* t begins the list of the directory h and of what the directories of t name.
Announced(h, t) == \E s \in Seq(Blobs) : <<h>> \o Follow(t) = t \o s

\* A GetTree: its state, what it asks for, the queue, the page and the pages sent.
TreeIs(a, w, q, p, m) ==
  /\ a \in {"queue"} \cup Codes
  /\ w.digest.hash \in Blobs
  /\ m \in Seq(Seq(Directories)) /\ PagesOK(m)
  /\ Announced(w.digest.hash, SE!FlattenSeq(m))
  /\ a = "OK" => <<w.digest.hash>> \o Follow(SE!FlattenSeq(m)) = SE!FlattenSeq(m)
  /\ a = "queue" =>
       /\ q \in Seq(Digests) /\ p \in Seq(Directories)
       /\ Len(p) < pageSize /\ FullPages(m)
       /\ <<w.digest.hash>> \o Follow(SE!FlattenSeq(m) \o p) = (SE!FlattenSeq(m) \o p) \o Hashes(q)

\* A GetTree that is asked for has its directory in the queue.
LEMMA TreeBegins ==
  ASSUME NEW w, w.digest \in Digests
  PROVE  TreeIs("queue", w, <<w.digest>>, <<>>, <<>>)
<1> DEFINE h == w.digest.hash
<1>1. h \in Blobs
  BY DigestHash
<1>2. SE!FlattenSeq(<<>>) = <<>> /\ Follow(<<>>) = <<>>
  BY Flattened, FollowAppend
<1>3. Hashes(<<w.digest>>) = <<h>>
  BY DEF Hashes
<1> HIDE DEF h
<1>4. <<h>> \in Seq(Blobs) /\ <<>> \in Seq(Blobs)
  BY <1>1
<1>5. <<h>> \o <<>> = <<h>> /\ <<>> \o <<h>> = <<h>> /\ <<>> \o <<>> = <<>>
  BY <1>4, ConcatEmptySeq
<1>6. Announced(h, SE!FlattenSeq(<<>>))
  BY <1>2, <1>4, <1>5 DEF Announced
<1>7. <<w.digest>> \in Seq(Digests) /\ <<>> \in Seq(Directories) /\ <<>> \in Seq(Seq(Directories)) /\ Len(<<>>) = 0
  OBVIOUS
<1>8. <<h>> \o Follow(SE!FlattenSeq(<<>>) \o <<>>) = (SE!FlattenSeq(<<>>) \o <<>>) \o Hashes(<<w.digest>>)
  BY <1>2, <1>3, <1>5
<1>9. 0 < pageSize /\ PagesOK(<<>>) /\ FullPages(<<>>)
  BY <1>7, ReadsAssumption DEF PagesOK, FullPages
<1> QED
  BY <1>1, <1>6, <1>7, <1>8, <1>9 DEF TreeIs, Codes, h

\* A GetTree that fails has sent a part of the tree.
LEMMA TreeFails ==
  ASSUME NEW a, NEW w, NEW q, NEW p, NEW m, TreeIs(a, w, q, p, m), NEW code \in Codes, code # "OK"
  PROVE  TreeIs(code, w, q, p, m)
<1>1. code # "queue"
  BY DEF Codes
<1> QED
  BY <1>1 DEF TreeIs

\* A page more.
LEMMA PageMore ==
  ASSUME NEW m \in Seq(Seq(Directories)), FullPages(m), NEW p \in Seq(Directories),
         Len(p) \in 1..pageSize
  PROVE  /\ Append(m, p) \in Seq(Seq(Directories)) /\ PagesOK(Append(m, p))
         /\ Len(p) = pageSize => FullPages(Append(m, p))
<1> DEFINE n == Append(m, p)
<1>1. /\ n \in Seq(Seq(Directories)) /\ Len(n) = Len(m) + 1 /\ n[Len(m) + 1] = p
      /\ \A i \in 1..Len(m) : n[i] = m[i]
  BY AppendProperties
<1>2. \A i \in 1..(Len(m) + 1) : i \in 1..Len(m) \/ i = Len(m) + 1
  OBVIOUS
<1>3. \A i \in 1..Len(m) : Len(m[i]) = pageSize
  BY DEF FullPages
<1>4. pageSize \in 1..pageSize /\ Len(m) \in Nat
  BY ReadsAssumption
<1> HIDE DEF n
<1>5. PagesOK(n)
  BY <1>1, <1>2, <1>3, <1>4, SMTT(30) DEF PagesOK
<1>6. Len(p) = pageSize => FullPages(n)
  BY <1>1, <1>2, <1>3 DEF FullPages
<1> QED
  BY <1>1, <1>5, <1>6 DEF n

\* The next directory g of the queue, with those that it names, is put on the page:
\* what was announced is still what is left.
LEMMA TreeGrows ==
  ASSUME NEW h \in Blobs, NEW t \in Seq(Directories), NEW q \in Seq(Digests), q # <<>>,
         <<h>> \o Follow(t) = t \o Hashes(q),
         Head(q).hash \in Directories
  PROVE  /\ Tail(q) \o Subdirectories[Head(q).hash] \in Seq(Digests)
         /\ <<h>> \o Follow(Append(t, Head(q).hash))
              = Append(t, Head(q).hash) \o Hashes(Tail(q) \o Subdirectories[Head(q).hash])
<1> DEFINE g == Head(q).hash
           s == Subdirectories[g]
           u == Tail(q)
<1>1. g \in Directories /\ Directories \subseteq Blobs
  BY ReadsAssumption DEF Directories
<1>2. s \in Seq(Digests)
  <2>1. s \in Seq([hash: Blobs, size: Nat])
    BY <1>1, ReadsAssumption DEF Directories
  <2>2. [hash: Blobs, size: Nat] \subseteq Digests
    BY DEF Digests
  <2> QED
    BY <2>1, <2>2, SeqMonotonic
<1>3. u \in Seq(Digests) /\ u \o s \in Seq(Digests)
  BY <1>2
<1>4. Hashes(q) = <<g>> \o Hashes(u)
  <2>1. Head(q) \in Digests /\ <<Head(q)>> \in Seq(Digests) /\ q = <<Head(q)>> \o u
    OBVIOUS
  <2>2. Hashes(<<Head(q)>>) = <<g>>
    BY DEF Hashes
  <2>3. Hashes(<<Head(q)>> \o u) = Hashes(<<Head(q)>>) \o Hashes(u)
    BY <1>3, <2>1, HashesConcat
  <2> HIDE DEF u, g
  <2> QED
    BY <2>1, <2>2, <2>3
<1>5. Hashes(u \o s) = Hashes(u) \o Hashes(s) /\ Hashes(u) \in Seq(Blobs) /\ Hashes(s) \in Seq(Blobs)
  BY <1>2, <1>3, HashesConcat
<1>6. t \in Seq(Blobs) /\ <<h>> \in Seq(Blobs) /\ <<g>> \in Seq(Blobs)
  <2>1. t \in Seq(Blobs)
    BY <1>1, SeqMonotonic
  <2> QED
    BY <1>1, <2>1
<1>7. Follow(t) \in Seq(Blobs) /\ Follow(Append(t, g)) = Follow(t) \o Hashes(s)
  BY <1>1, FollowAppend
<1>8. Append(t, g) = t \o <<g>>
  BY <1>1, AppendIsConcat
<1> HIDE DEF g, s, u
<1> DEFINE hu == Hashes(u)
           hs == Hashes(s)
           f == Follow(t)
<1>9. <<h>> \o Follow(Append(t, g)) = (<<h>> \o f) \o hs
  <2>1. Follow(Append(t, g)) = f \o hs /\ f \in Seq(Blobs) /\ hs \in Seq(Blobs) /\ <<h>> \in Seq(Blobs)
    BY <1>5, <1>6, <1>7
  <2> HIDE DEF f, hs
  <2>2. (<<h>> \o f) \o hs = <<h>> \o (f \o hs)
    BY <2>1, ConcatAssociative
  <2> QED
    BY <2>1, <2>2
<1>10. <<h>> \o f = t \o (<<g>> \o hu)
  BY <1>4
<1>11. <<g>> \o hu \in Seq(Blobs) /\ t \o <<g>> \in Seq(Blobs) /\ hu \in Seq(Blobs) /\ hs \in Seq(Blobs)
  BY <1>5, <1>6
<1> HIDE DEF hu, hs, f
<1>12. t \o (<<g>> \o hu) = (t \o <<g>>) \o hu
  BY <1>6, <1>11, ConcatAssociative, SMTT(30)
<1>13. ((t \o <<g>>) \o hu) \o hs = (t \o <<g>>) \o (hu \o hs)
  BY <1>11, ConcatAssociative, SMTT(30)
<1>14. Hashes(u \o s) = hu \o hs
  BY <1>5 DEF hu, hs
<1>15. <<h>> \o Follow(Append(t, g)) = Append(t, g) \o Hashes(u \o s)
  BY <1>8, <1>9, <1>10, <1>12, <1>13, <1>14
<1> QED
  BY <1>3, <1>15 DEF g, s, u

\* The page is kept until it is full, and is sent then.
LEMMA TreeVisits ==
  ASSUME NEW w, NEW q, NEW p, NEW m, TreeIs("queue", w, q, p, m), q # <<>>,
         NEW g, g = Head(q).hash, g \in Directories
  PROVE  LET rem == Tail(q) \o Subdirectories[g]
             filled == Append(p, g)
         IN  IF Len(filled) >= pageSize THEN TreeIs("queue", w, rem, <<>>, Append(m, filled))
                                        ELSE TreeIs("queue", w, rem, filled, m)
<1> DEFINE h == w.digest.hash
           rem == Tail(q) \o Subdirectories[g]
           filled == Append(p, g)
           c == SE!FlattenSeq(m)
<1>1. /\ h \in Blobs /\ m \in Seq(Seq(Directories)) /\ PagesOK(m) /\ Announced(h, c)
      /\ q \in Seq(Digests) /\ p \in Seq(Directories) /\ Len(p) < pageSize /\ FullPages(m)
      /\ <<h>> \o Follow(c \o p) = (c \o p) \o Hashes(q)
  BY DEF TreeIs, Codes
<1>2. c \in Seq(Directories) /\ c \o p \in Seq(Directories)
  BY <1>1, Flattened
<1>3. filled \in Seq(Directories) /\ Len(filled) = Len(p) + 1 /\ Len(p) \in Nat
  BY <1>1
<1>4. c \o filled = Append(c \o p, g)
  <2>1. filled = p \o <<g>> /\ Append(c \o p, g) = (c \o p) \o <<g>> /\ <<g>> \in Seq(Directories)
    BY <1>1, <1>2, AppendIsConcat
  <2> HIDE DEF c, filled
  <2> QED
    BY <1>1, <1>2, <2>1, ConcatAssociative, SMTT(30)
<1>5. rem \in Seq(Digests) /\ <<h>> \o Follow(Append(c \o p, g)) = Append(c \o p, g) \o Hashes(rem)
  <2> DEFINE t == c \o p
  <2>1. t \in Seq(Directories) /\ <<h>> \o Follow(t) = t \o Hashes(q)
    BY <1>1, <1>2
  <2> HIDE DEF t, h
  <2>2. /\ Tail(q) \o Subdirectories[Head(q).hash] \in Seq(Digests)
        /\ <<h>> \o Follow(Append(t, Head(q).hash))
             = Append(t, Head(q).hash) \o Hashes(Tail(q) \o Subdirectories[Head(q).hash])
    BY <1>1, <2>1, TreeGrows
  <2> QED
    BY <2>2 DEF t
<1> HIDE DEF h, rem, filled, c
<1>6. CASE Len(filled) >= pageSize
  <2>1. Len(filled) = pageSize /\ Len(filled) \in 1..pageSize
    BY <1>1, <1>3, <1>6, ReadsAssumption
  <2>2. Append(m, filled) \in Seq(Seq(Directories)) /\ PagesOK(Append(m, filled)) /\ FullPages(Append(m, filled))
    BY <1>1, <1>3, <2>1, PageMore
  <2> DEFINE d == SE!FlattenSeq(Append(m, filled))
  <2>3. d = c \o filled
    BY <1>1, <1>3, Flattened DEF c
  <2>4. c \o filled \in Seq(Directories)
    BY <1>2, <1>3
  <2> HIDE DEF d
  <2>5. <<h>> \o Follow(d) = d \o Hashes(rem) /\ d \o <<>> = d
    BY <1>4, <1>5, <2>3, <2>4
  <2>6. Hashes(rem) \in Seq(Blobs)
    BY <1>5, HashesConcat
  <2>7. Announced(h, d)
    BY <2>5, <2>6 DEF Announced
  <2>8. <<>> \in Seq(Directories) /\ Len(<<>>) = 0 /\ 0 < pageSize
    BY ReadsAssumption
  <2>9. TreeIs("queue", w, rem, <<>>, Append(m, filled))
    BY <1>1, <1>5, <2>2, <2>5, <2>7, <2>8 DEF TreeIs, Codes, h, d
  <2> QED
    BY <1>6, <2>9 DEF rem, filled
<1>7. CASE ~(Len(filled) >= pageSize)
  <2>1. Len(filled) < pageSize
    BY <1>3, <1>7, ReadsAssumption
  <2>2. <<h>> \o Follow(c \o filled) = (c \o filled) \o Hashes(rem)
    BY <1>4, <1>5
  <2>3. TreeIs("queue", w, rem, filled, m)
    BY <1>1, <1>3, <1>5, <2>1, <2>2 DEF TreeIs, Codes, h, c
  <2> QED
    BY <1>7, <2>3 DEF rem, filled
<1> QED
  BY <1>6, <1>7

\* The queue is empty: all that was named has been sent, with the last page.
LEMMA TreeEnds ==
  ASSUME NEW w, NEW p, NEW m, TreeIs("queue", w, <<>>, p, m)
  PROVE  TreeIs("OK", w, <<>>, p, IF p = <<>> THEN m ELSE Append(m, p))
<1> DEFINE h == w.digest.hash
           c == SE!FlattenSeq(m)
           n == IF p = <<>> THEN m ELSE Append(m, p)
<1>1. /\ h \in Blobs /\ m \in Seq(Seq(Directories)) /\ PagesOK(m)
      /\ p \in Seq(Directories) /\ Len(p) < pageSize /\ FullPages(m)
      /\ <<h>> \o Follow(c \o p) = (c \o p) \o Hashes(<<>>)
  BY DEF TreeIs, Codes
<1>2. c \in Seq(Directories) /\ c \o p \in Seq(Directories)
  BY <1>1, Flattened
<1>3. Hashes(<<>>) = <<>>
  BY DEF Hashes
<1>4. n \in Seq(Seq(Directories)) /\ PagesOK(n)
  <2>1. CASE p = <<>>
    BY <1>1, <2>1
  <2>2. CASE p # <<>>
    <3>1. Len(p) \in 1..pageSize
      BY <1>1, <2>2, ReadsAssumption
    <3> QED
      BY <1>1, <2>2, <3>1, PageMore
  <2> QED
    BY <2>1, <2>2
<1>5. SE!FlattenSeq(n) = c \o p
  <2>1. CASE p = <<>>
    BY <1>2, <2>1
  <2>2. CASE p # <<>>
    BY <1>1, <2>2, Flattened
  <2> QED
    BY <2>1, <2>2
<1> HIDE DEF n, c, h
<1>6. <<h>> \o Follow(SE!FlattenSeq(n)) = SE!FlattenSeq(n)
  <2>1. (c \o p) \o <<>> = c \o p
    BY <1>2, ConcatEmptySeq
  <2> QED
    BY <1>1, <1>3, <1>5, <2>1
<1>7. Announced(h, SE!FlattenSeq(n))
  <2>1. SE!FlattenSeq(n) \in Seq(Directories)
    BY <1>2, <1>5
  <2>2. SE!FlattenSeq(n) \o <<>> = SE!FlattenSeq(n) /\ <<>> \in Seq(Blobs)
    BY <2>1, ConcatEmptySeq
  <2> QED
    BY <1>6, <2>2 DEF Announced
<1> QED
  BY <1>1, <1>4, <1>6, <1>7 DEF TreeIs, Codes, h, n

-----------------------------------------------------------------------------
(* The streams *)

StreamIs(a, w, q, p, m) ==
  IF w.tree THEN TreeIs(a, w, q, p, m) ELSE ReadIs(a, w, q, m) /\ p = <<>>
StreamOK(r) == StreamIs(at[r], want[r], rest[r], page[r], sent[r])

StreamsInv ==
  /\ StoreInv /\ StoreSound
  /\ DOMAIN at = Streams /\ DOMAIN want = Streams /\ DOMAIN rest = Streams
  /\ DOMAIN page = Streams /\ DOMAIN sent = Streams
  /\ \A r \in Streams : StreamOK(r)

\* No other stream has a step.
Only(r) ==
  /\ DOMAIN at' = DOMAIN at /\ DOMAIN want' = DOMAIN want /\ DOMAIN rest' = DOMAIN rest
  /\ DOMAIN page' = DOMAIN page /\ DOMAIN sent' = DOMAIN sent
  /\ \A o \in Streams \ {r} : /\ at'[o] = at[o] /\ want'[o] = want[o] /\ rest'[o] = rest[o]
                              /\ page'[o] = page[o] /\ sent'[o] = sent[o]
  /\ UNCHANGED vars

\* What a stream's step has to keep.
LEMMA OnlyKeeps ==
  ASSUME StreamsInv, NEW r \in Streams, Only(r),
         StreamIs(at'[r], want'[r], rest'[r], page'[r], sent'[r])
  PROVE  StreamsInv'
<1>1. StoreInv' /\ StoreSound'
  BY SameStore, SameCalls DEF Only, vars, callVars, StreamsInv, StoreInv, CallOK, StoreSound
<1>2. ASSUME NEW o \in Streams
      PROVE  StreamIs(at'[o], want'[o], rest'[o], page'[o], sent'[o])
  <2>1. CASE o = r
    BY <2>1
  <2>2. CASE o # r
    <3>1. StreamIs(at[o], want[o], rest[o], page[o], sent[o])
      BY DEF StreamsInv, StreamOK
    <3>2. at'[o] = at[o] /\ want'[o] = want[o] /\ rest'[o] = rest[o] /\ page'[o] = page[o] /\ sent'[o] = sent[o]
      BY <2>2 DEF Only
    <3> QED
      BY <3>1, <3>2
  <2> QED
    BY <2>1, <2>2
<1> QED
  BY <1>1, <1>2 DEF StreamsInv, StreamOK, Only

\* No stream has been asked for, and nothing is stored.
LEMMA InitStreams == ReadsInit => StreamsInv
<1> SUFFICES ASSUME ReadsInit PROVE StreamsInv
  OBVIOUS
<1>1. StoreInv /\ StoreSound
  BY InitStoreInv DEF ReadsInit, Init, StoreSound
<1>2. ASSUME NEW r \in Streams
      PROVE  StreamOK(r)
  <2> DEFINE w == [tree |-> FALSE, digest |-> [hash |-> <<>>, size |-> 0], range |-> Whole]
  <2>1. w.digest.hash \in Seq(Chunks) /\ w.range \in [offset: Nat, limit: Nat] /\ ~w.tree
    <3>1. <<>> \in Seq(Chunks) /\ w.digest.hash = <<>> /\ w.range = [offset |-> 0, limit |-> 0] /\ ~w.tree
      BY DEF Whole
    <3>2. [offset |-> 0, limit |-> 0] \in [offset: Nat, limit: Nat]
      OBVIOUS
    <3> HIDE DEF w
    <3> QED
      BY <3>1, <3>2
  <2>2. at[r] = "idle" /\ want[r] = w /\ sent[r] = <<>> /\ page[r] = <<>>
    BY DEF ReadsInit
  <2> HIDE DEF w
  <2>3. ReadIs("idle", w, rest[r], <<>>)
    BY <2>1, ReadBegins
  <2> QED
    BY <2>1, <2>2, <2>3 DEF StreamOK, StreamIs
<1> QED
  BY <1>1, <1>2 DEF StreamsInv, ReadsInit

\* A digest that the store has is that of what it has for it.
LEMMA HasItsBlob ==
  ASSUME StoreSound, NEW d, d.hash \in Blobs, Contains(d)
  PROVE  Get(d) = d.hash
<1>1. blobs[d.hash] \in {Nil, d.hash}
  BY DEF StoreSound
<1> QED
  BY <1>1 DEF Contains, Get, IsEmpty

\* A stream is asked for once.
LEMMA AskKeeps ==
  ASSUME StreamsInv, NEW r \in Streams, NEW u \in Uploads, NEW tree \in BOOLEAN,
         NEW range \in [offset: Nat, limit: Nat],
         Ask(r, tree, u.digest, range), UNCHANGED vars
  PROVE  StreamsInv'
<1> DEFINE w == [tree |-> tree, digest |-> u.digest, range |-> range]
<1>1. Only(r) /\ page'[r] = page[r] /\ sent'[r] = sent[r] /\ want'[r] = w
      /\ at'[r] = (IF tree THEN "queue" ELSE "reader") /\ rest'[r] = (IF tree THEN <<u.digest>> ELSE <<>>)
  BY DEF Ask, Only, StreamsInv
<1>2. u.digest.hash \in Blobs /\ u.digest.hash \in Seq(Chunks) /\ u.digest \in Digests
  BY CasAssumption DEF Requested, Digests
<1>3. at[r] = "idle"
  BY DEF Ask
<1>4. sent[r] = <<>> /\ page[r] = <<>>
  <2>1. StreamIs(at[r], want[r], rest[r], page[r], sent[r])
    BY DEF StreamsInv, StreamOK
  <2> QED
    BY <1>3, <2>1 DEF StreamIs, TreeIs, ReadIs, Codes
<1>5. w.digest = u.digest /\ w.range = range /\ w.tree = tree
  OBVIOUS
<1> HIDE DEF w
<1>6. CASE tree
  <2>1. TreeIs("queue", w, <<u.digest>>, <<>>, <<>>)
    <3>1. TreeIs("queue", w, <<w.digest>>, <<>>, <<>>)
      BY <1>2, <1>5, TreeBegins
    <3> QED
      BY <1>5, <3>1
  <2>2. StreamIs(at'[r], want'[r], rest'[r], page'[r], sent'[r])
    BY <1>1, <1>4, <1>5, <1>6, <2>1 DEF StreamIs
  <2> QED
    BY <1>1, <2>2, OnlyKeeps
<1>7. CASE ~tree
  <2>1. ReadIs("reader", w, <<>>, <<>>)
    <3>1. w.digest.hash \in Seq(Chunks) /\ w.range \in [offset: Nat, limit: Nat] /\ w.digest.hash \in Blobs
      BY <1>2, <1>5
    <3> QED
      BY <3>1, ReadBegins
  <2>2. StreamIs(at'[r], want'[r], rest'[r], page'[r], sent'[r])
    BY <1>1, <1>4, <1>5, <1>7, <2>1 DEF StreamIs
  <2> QED
    BY <1>1, <2>2, OnlyKeeps
<1> QED
  BY <1>6, <1>7

\* The stream that has a step.
LEMMA StreamIsOK ==
  ASSUME StreamsInv, NEW r \in Streams
  PROVE  /\ StreamIs(at[r], want[r], rest[r], page[r], sent[r])
         /\ at[r] \in {"idle", "reader", "body"} => /\ ~want[r].tree /\ page[r] = <<>>
                                                   /\ ReadIs(at[r], want[r], rest[r], sent[r])
         /\ at[r] = "queue" => /\ want[r].tree
                               /\ TreeIs("queue", want[r], rest[r], page[r], sent[r])
<1>1. StreamIs(at[r], want[r], rest[r], page[r], sent[r])
  BY DEF StreamsInv, StreamOK
<1> QED
  BY <1>1 DEF StreamIs, TreeIs, ReadIs, Codes

\* A stream ends, with OK if it has sent all.
LEMMA EndKeeps ==
  ASSUME StreamsInv, NEW r \in Streams, at[r] \in {"reader", "body", "queue"},
         NEW code \in Codes, code = "OK" => at[r] = "body" /\ rest[r] = <<>>,
         End(r, code), UNCHANGED vars
  PROVE  StreamsInv'
<1>1. /\ Only(r) /\ at'[r] = code /\ want'[r] = want[r] /\ rest'[r] = rest[r]
      /\ page'[r] = page[r] /\ sent'[r] = sent[r]
  BY DEF End, Only, StreamsInv
<1>2. StreamIs(code, want[r], rest[r], page[r], sent[r])
  <2>1. CASE at[r] = "queue"
    BY <2>1, StreamIsOK, TreeFails DEF StreamIs
  <2>2. CASE at[r] # "queue"
    <3>1. ReadIs(at[r], want[r], rest[r], sent[r]) /\ ~want[r].tree /\ page[r] = <<>> /\ at[r] # "idle"
      BY <2>2, StreamIsOK
    <3>2. ReadIs(code, want[r], rest[r], sent[r])
      BY <3>1, ReadEnds
    <3> QED
      BY <3>1, <3>2 DEF StreamIs
  <2> QED
    BY <2>1, <2>2
<1> QED
  BY <1>1, <1>2, OnlyKeeps

\* A body is opened, or is not to be had.
LEMMA ReaderKeeps ==
  ASSUME StreamsInv, NEW r \in Streams, Reader(r), UNCHANGED vars
  PROVE  StreamsInv'
<1> DEFINE d == want[r].digest
           range == want[r].range
<1>1. /\ at[r] = "reader" /\ ~want[r].tree /\ page[r] = <<>>
      /\ ReadIs("reader", want[r], rest[r], sent[r])
  BY StreamIsOK DEF Reader
<1>2. CASE /\ Contains(d)
           /\ at' = [at EXCEPT ![r] = "body"]
           /\ rest' = [rest EXCEPT ![r] = byteRange(Get(d), range)]
           /\ UNCHANGED <<want, page, sent>>
  <2>1. d.hash \in Blobs
    BY <1>1 DEF ReadIs
  <2>2. Get(d) = d.hash
    BY <1>2, <2>1, HasItsBlob DEF StreamsInv
  <2>3. /\ Only(r) /\ at'[r] = "body" /\ want'[r] = want[r] /\ rest'[r] = byteRange(d.hash, range)
        /\ page'[r] = page[r] /\ sent'[r] = sent[r]
    BY <1>2, <2>2 DEF Only, StreamsInv
  <2>4. ReadIs("body", want[r], byteRange(d.hash, range), sent[r])
    BY <1>1, ReadOpens
  <2>5. StreamIs(at'[r], want'[r], rest'[r], page'[r], sent'[r])
    BY <1>1, <2>3, <2>4 DEF StreamIs
  <2> QED
    BY <2>3, <2>5, OnlyKeeps
<1>3. CASE End(r, "NotFound") \/ End(r, "Internal")
  BY <1>1, <1>3, EndKeeps DEF Codes
<1> QED
  BY <1>2, <1>3 DEF Reader

\* A buffer's worth is sent.
LEMMA SendDataKeeps ==
  ASSUME StreamsInv, NEW r \in Streams, SendData(r), UNCHANGED vars
  PROVE  StreamsInv'
<1>1. /\ at[r] = "body" /\ ~want[r].tree /\ page[r] = <<>>
      /\ ReadIs("body", want[r], rest[r], sent[r])
  BY StreamIsOK DEF SendData
<1>2. PICK n \in 1..readChunkSize :
        /\ n <= Len(rest[r])
        /\ sent' = [sent EXCEPT ![r] = Append(sent[r], SubSeq(rest[r], 1, n))]
        /\ rest' = [rest EXCEPT ![r] = SubSeq(rest[r], n + 1, Len(rest[r]))]
  BY DEF SendData
<1> DEFINE q == SubSeq(rest[r], n + 1, Len(rest[r]))
           m == Append(sent[r], SubSeq(rest[r], 1, n))
<1>3. ReadIs("body", want[r], q, m)
  BY <1>1, <1>2, ReadSends
<1>4. /\ Only(r) /\ at'[r] = at[r] /\ want'[r] = want[r] /\ page'[r] = page[r]
      /\ rest'[r] = q /\ sent'[r] = m
  BY <1>2 DEF SendData, Only, StreamsInv
<1> HIDE DEF q, m
<1>5. StreamIs(at'[r], want'[r], rest'[r], page'[r], sent'[r])
  BY <1>1, <1>3, <1>4 DEF StreamIs
<1> QED
  BY <1>4, <1>5, OnlyKeeps

\* The next directory of the queue.
LEMMA VisitKeeps ==
  ASSUME StreamsInv, NEW r \in Streams, Visit(r), UNCHANGED vars
  PROVE  StreamsInv'
<1>1. at[r] = "queue" /\ want[r].tree /\ TreeIs("queue", want[r], rest[r], page[r], sent[r]) /\ rest[r] # <<>>
  BY StreamIsOK DEF Visit
<1> DEFINE d == Head(rest[r])
<1>2. PICK g : g = Get(d)
  OBVIOUS
<1> DEFINE filled == Append(page[r], g)
           q == Tail(rest[r]) \o Subdirectories[g]
<1>3. g = d.hash /\ g \in Directories
  <2>1. rest[r] \in Seq(Digests)
    BY <1>1 DEF TreeIs, Codes
  <2>2. d.hash \in Blobs
    BY <1>1, <2>1, DigestHash
  <2>3. Contains(d) /\ g \in DOMAIN Subdirectories
    BY <1>2 DEF Visit
  <2> QED
    BY <1>2, <2>2, <2>3, HasItsBlob DEF StreamsInv, Directories
<1>4. IF Len(filled) >= pageSize THEN TreeIs("queue", want[r], q, <<>>, Append(sent[r], filled))
                                 ELSE TreeIs("queue", want[r], q, filled, sent[r])
  BY <1>1, <1>3, TreeVisits
<1>5. /\ Only(r) /\ at'[r] = at[r] /\ want'[r] = want[r] /\ rest'[r] = q
      /\ IF Len(filled) >= pageSize THEN sent'[r] = Append(sent[r], filled) /\ page'[r] = <<>>
                                     ELSE page'[r] = filled /\ sent'[r] = sent[r]
  BY <1>2 DEF Visit, Only, StreamsInv
<1> HIDE DEF q, filled
<1>6. StreamIs(at'[r], want'[r], rest'[r], page'[r], sent'[r])
  BY <1>1, <1>4, <1>5 DEF StreamIs
<1> QED
  BY <1>5, <1>6, OnlyKeeps

\* The queue is empty.
LEMMA EndOfTreeKeeps ==
  ASSUME StreamsInv, NEW r \in Streams, EndOfTree(r), UNCHANGED vars
  PROVE  StreamsInv'
<1>1. at[r] = "queue" /\ want[r].tree /\ TreeIs("queue", want[r], <<>>, page[r], sent[r]) /\ rest[r] = <<>>
  BY StreamIsOK DEF EndOfTree
<1>2. TreeIs("OK", want[r], <<>>, page[r], IF page[r] = <<>> THEN sent[r] ELSE Append(sent[r], page[r]))
  BY <1>1, TreeEnds
<1>3. /\ Only(r) /\ at'[r] = "OK" /\ want'[r] = want[r] /\ rest'[r] = rest[r] /\ page'[r] = page[r]
      /\ sent'[r] = IF page[r] = <<>> THEN sent[r] ELSE Append(sent[r], page[r])
  BY DEF EndOfTree, Only, StreamsInv
<1>4. StreamIs(at'[r], want'[r], rest'[r], page'[r], sent'[r])
  BY <1>1, <1>2, <1>3 DEF StreamIs
<1> QED
  BY <1>3, <1>4, OnlyKeeps

\* Every step keeps the invariant.
LEMMA NextStreams ==
  ASSUME HonestClients, StreamsInv, [ReadsNext]_<<vars, streamVars>>
  PROVE  StreamsInv'
<1>1. CASE [Next]_vars /\ UNCHANGED streamVars
  <2>1. StoreInv' /\ StoreSound'
    BY <1>1, NextStoreInv, NextSound DEF StreamsInv
  <2> QED
    BY <1>1, <2>1 DEF StreamsInv, StreamOK, streamVars
<1>2. ASSUME NEW r \in Streams, Stream(r), UNCHANGED vars
      PROVE  StreamsInv'
  <2>1. CASE StreamFails(r)
    BY <1>2, <2>1, EndKeeps DEF StreamFails, Codes
  <2>2. CASE EndOfBody(r)
    BY <1>2, <2>2, EndKeeps DEF EndOfBody, Codes
  <2>3. CASE NoDirectory(r)
    BY <1>2, <2>3, EndKeeps DEF NoDirectory, Codes
  <2> QED
    BY <1>2, <2>1, <2>2, <2>3, ReaderKeeps, SendDataKeeps, VisitKeeps, EndOfTreeKeeps DEF Stream
<1>3. ASSUME NEW r \in Streams, NEW u \in Uploads, NEW range \in Ranges, Ask(r, FALSE, u.digest, range),
             UNCHANGED vars
      PROVE  StreamsInv'
  BY <1>3, AskKeeps, ReadsAssumption
<1>4. ASSUME NEW r \in Streams, NEW u \in Uploads, Ask(r, TRUE, u.digest, Whole), UNCHANGED vars
      PROVE  StreamsInv'
  <2>1. Whole \in [offset: Nat, limit: Nat]
    BY DEF Whole
  <2> QED
    BY <1>4, <2>1, AskKeeps
<1>5. CASE UNCHANGED <<vars, streamVars>>
  BY <1>1, <1>5
<1> QED
  BY <1>1, <1>2, <1>3, <1>4, <1>5 DEF ReadsNext

\* The invariant holds throughout.
LEMMA AlwaysStreams == HonestClients /\ ReadsSpec => []StreamsInv
<1> SUFFICES ASSUME HonestClients PROVE ReadsSpec => []StreamsInv
  OBVIOUS
<1>1. StreamsInv /\ [ReadsNext]_<<vars, streamVars>> => StreamsInv'
  BY NextStreams
<1> QED
  BY InitStreams, <1>1, PTL DEF ReadsSpec

\* A sequence whose elements are the first of another's is its prefix.
LEMMA PrefixIf ==
  ASSUME NEW S, NEW s \in Seq(S), NEW t \in Seq(S), Len(s) <= Len(t), \A i \in 1..Len(s) : s[i] = t[i]
  PROVE  SE!IsPrefix(s, t)
<1>1. SubSeq(s, 1, Len(s)) = s
  BY SubSeqFull
<1>2. SubSeq(t, 1, Len(s)) = s
  <2>1. Len(s) \in Nat /\ Len(t) \in Nat
    OBVIOUS
  <2>2. \A i \in 1..Len(s) : t[i] \in S
    BY <2>1
  <2> DEFINE u == SubSeq(t, 1, Len(s))
  <2>3. /\ u \in Seq(S)
        /\ Len(u) = IF 1 <= Len(s) THEN Len(s) - 1 + 1 ELSE 0
        /\ \A i \in 1..(Len(s) - 1 + 1) : u[i] = t[1 + i - 1]
    BY <2>1, <2>2, SubSeqProperties
  <2> HIDE DEF u
  <2>4. Len(u) = Len(s) /\ \A i \in 1..Len(u) : u[i] = s[i]
    BY <2>1, <2>3
  <2>5. u = s
    BY <2>3, <2>4, SeqEqual
  <2> QED
    BY <2>5 DEF u
<1> QED
  BY <1>1, <1>2 DEF SE!IsPrefix

\* The beginning of a concatenation.
LEMMA ConcatPrefix ==
  ASSUME NEW S, NEW s \in Seq(S), NEW t \in Seq(S)
  PROVE  SE!IsPrefix(s, s \o t)
<1> DEFINE u == s \o t
<1>1. /\ u \in Seq(S) /\ Len(u) = Len(s) + Len(t)
      /\ \A i \in 1..(Len(s) + Len(t)) : u[i] = IF i <= Len(s) THEN s[i] ELSE t[i - Len(s)]
  BY ConcatProperties
<1>2. Len(s) \in Nat /\ Len(t) \in Nat
  OBVIOUS
<1> HIDE DEF u
<1>3. Len(s) <= Len(u) /\ \A i \in 1..Len(s) : s[i] = u[i]
  BY <1>1, <1>2
<1>4. SE!IsPrefix(s, u)
  BY <1>1, <1>3, PrefixIf
<1> QED
  BY <1>4 DEF u

\* Read (cas_service.go:167-195) sends the bytes of the blob from the offset, as many
\* as the limit allows, in order and in messages of at most a buffer, and all of
\* them when it returns OK: however the body is cut up, and whenever the store or
\* the client fails.
THEOREM ReadsAreSlices == HonestClients /\ ReadsSpec => []ReadIsSlice
<1>1. ASSUME StreamsInv PROVE ReadIsSlice
  <2>1. ASSUME NEW r \in Streams, ~want[r].tree
        PROVE  LET bytes == Slice(want[r].digest.hash, want[r].range)
               IN  /\ SE!IsPrefix(Content(r), bytes)
                   /\ at[r] = "OK" => Content(r) = bytes
                   /\ \A i \in DOMAIN sent[r] : Len(sent[r][i]) \in 1..readChunkSize
    <3> DEFINE bytes == Slice(want[r].digest.hash, want[r].range)
    <3>1. ReadIs(at[r], want[r], rest[r], sent[r])
      BY <1>1, <2>1, StreamIsOK DEF StreamIs
    <3>2. sent[r] \in Seq(Seq(Chunks)) /\ \A i \in 1..Len(sent[r]) : Len(sent[r][i]) \in 1..readChunkSize
      BY <3>1 DEF ReadIs
    <3>3. \A i \in DOMAIN sent[r] : Len(sent[r][i]) \in 1..readChunkSize
      BY <3>2
    <3>4. PICK s \in Seq(Chunks) : Content(r) \o s = bytes
      BY <3>1 DEF ReadIs, Content
    <3>5. Content(r) \in Seq(Chunks)
      BY <3>2, Flattened DEF Content
    <3>6. at[r] = "OK" => Content(r) = bytes
      BY <3>1 DEF ReadIs, Content
    <3> HIDE DEF bytes
    <3>7. SE!IsPrefix(Content(r), bytes)
      <4>1. SE!IsPrefix(Content(r), Content(r) \o s)
        BY <3>5, ConcatPrefix
      <4> QED
        BY <3>4, <4>1
    <3> QED
      BY <3>3, <3>6, <3>7 DEF bytes
  <2> QED
    BY <2>1 DEF ReadIsSlice, Slice
<1> QED
  BY <1>1, AlwaysStreams, PTL

\* GetTree (cas_service.go:125-164) sends every directory as often as it is named, after
\* the one that names it, in full pages but for the last, and all of them when it
\* returns OK: for a tree of any size and depth, and whenever the store fails.
THEOREM TreesAreComplete == HonestClients /\ ReadsSpec => []TreeIsComplete
<1>1. ASSUME StreamsInv PROVE TreeIsComplete
  <2>1. ASSUME NEW r \in Streams, want[r].tree
        PROVE  LET t == Content(r)
                   follow == Follow(t)
               IN  /\ t # <<>> => Head(t) = want[r].digest.hash /\ SE!IsPrefix(Tail(t), follow)
                   /\ at[r] = "OK" => t # <<>> /\ Tail(t) = follow
                   /\ \A i \in DOMAIN sent[r] :
                        /\ Len(sent[r][i]) \in 1..pageSize
                        /\ i < Len(sent[r]) => Len(sent[r][i]) = pageSize
    <3> DEFINE t == Content(r)
               h == want[r].digest.hash
               f == Follow(t)
    <3>1. TreeIs(at[r], want[r], rest[r], page[r], sent[r])
      BY <1>1, <2>1, StreamIsOK DEF StreamIs
    <3>2. sent[r] \in Seq(Seq(Directories)) /\ PagesOK(sent[r]) /\ h \in Blobs
      BY <3>1 DEF TreeIs
    <3>3. \A i \in DOMAIN sent[r] :
            /\ Len(sent[r][i]) \in 1..pageSize
            /\ i < Len(sent[r]) => Len(sent[r][i]) = pageSize
      BY <3>2 DEF PagesOK
    <3>4. t \in Seq(Directories) /\ t \in Seq(Blobs)
      <4>1. t \in Seq(Directories)
        BY <3>2, Flattened DEF Content
      <4>2. Directories \subseteq Blobs
        BY ReadsAssumption DEF Directories
      <4> QED
        BY <4>1, <4>2, SeqMonotonic
    <3>5. f \in Seq(Blobs)
      BY <3>4, FollowAppend
    <3>6. PICK s \in Seq(Blobs) : <<h>> \o f = t \o s
      BY <3>1 DEF TreeIs, Announced, Content
    <3>7. at[r] = "OK" => <<h>> \o f = t
      BY <3>1 DEF TreeIs, Content
    <3> HIDE DEF t, h, f
    <3>8. <<h>> \in Seq(Blobs) /\ <<h>> \o f \in Seq(Blobs) /\ <<h>> \o f # <<>>
          /\ Head(<<h>> \o f) = h /\ Tail(<<h>> \o f) = f
      BY <3>2, <3>5
    <3>9. t # <<>> => Head(t) = h /\ SE!IsPrefix(Tail(t), f)
      <4> SUFFICES ASSUME t # <<>> PROVE Head(t) = h /\ SE!IsPrefix(Tail(t), f)
        OBVIOUS
      <4>1. Head(t \o s) = Head(t) /\ Tail(t \o s) = Tail(t) \o s
        BY <3>4
      <4>2. f = Tail(t) \o s /\ Head(t) = h
        BY <3>6, <3>8, <4>1
      <4>3. Tail(t) \in Seq(Blobs)
        BY <3>4
      <4> QED
        BY <4>2, <4>3, ConcatPrefix
    <3>10. at[r] = "OK" => t # <<>> /\ Tail(t) = f
      BY <3>7, <3>8
    <3> QED
      BY <3>3, <3>9, <3>10 DEF t, h, f
  <2> QED
    BY <2>1 DEF TreeIsComplete, Follow, Named, Hashes
<1> QED
  BY <1>1, AlwaysStreams, PTL

-----------------------------------------------------------------------------
(* The other calls *)

\* The streams leave the store and the other calls alone: what is proved of
\* CasService holds beside them (cas_service.go:125-195 only reads the store).
THEOREM StreamsOnlyRead == ReadsSpec => Spec
<1>1. ReadsInit => Init
  BY DEF ReadsInit
<1>2. [ReadsNext]_<<vars, streamVars>> => [Next]_vars
  BY DEF ReadsNext
<1> QED
  BY <1>1, <1>2, PTL DEF ReadsSpec, Spec

=============================================================================
