------------------------------ MODULE CasReads ------------------------------
(***************************************************************************)
(* internal/server/cas_service.go: ByteStream.Read and GetTree, the calls  *)
(* that stream their answer, beside those of CasService and over the same  *)
(* store. Store.Reader is S3Store's or MemStore's.                         *)
(*                                                                         *)
(* Offsets, limits and the sizes of buffers and pages are counted in       *)
(* chunks and directories. An offset or a limit is not negative, and their *)
(* sum does not overflow.                                                  *)
(***************************************************************************)
EXTENDS CasService
SE == INSTANCE SequencesExt

CONSTANTS
  Streams,        \* RPCs: every one is made at most once
  Ranges,         \* the [offset, limit] of Reads
  Subdirectories, \* the blobs that decode as a Directory, and the digests in it
  readChunkSize,
  pageSize

ASSUME ReadsAssumption ==
  /\ Ranges \subseteq [offset: Nat, limit: Nat]
  /\ DOMAIN Subdirectories \subseteq Blobs
  /\ \A b \in DOMAIN Subdirectories : Subdirectories[b] \in Seq([hash: Blobs, size: Nat])
  /\ readChunkSize \in Nat \ {0} /\ pageSize \in Nat \ {0}

VARIABLES
  at,    \* "idle", "reader", "body" or "queue", or the gRPC code it has returned
  want,  \* of a Read or a GetTree: its digest, and the range
  rest,  \* what is left: the body, or GetTree's queue of digests
  page,  \* GetTree's page
  sent   \* the messages that the client has been sent

streamVars == <<at, want, rest, page, sent>>

Whole == [offset |-> 0, limit |-> 0]

ReadsInit ==
  /\ Init
  /\ at = [r \in Streams |-> "idle"]
  /\ want = [r \in Streams |-> [tree |-> FALSE, digest |-> [hash |-> <<>>, size |-> 0], range |-> Whole]]
  /\ rest = [r \in Streams |-> <<>>]
  /\ page = [r \in Streams |-> <<>>]
  /\ sent = [r \in Streams |-> <<>>]

Ask(r, tree, d, range) ==
  /\ at[r] = "idle"
  /\ at' = [at EXCEPT ![r] = IF tree THEN "queue" ELSE "reader"]
  /\ want' = [want EXCEPT ![r] = [tree |-> tree, digest |-> d, range |-> range]]
  /\ rest' = [rest EXCEPT ![r] = IF tree THEN <<d>> ELSE <<>>]
  /\ UNCHANGED <<page, sent>>

End(r, code) == at' = [at EXCEPT ![r] = code] /\ UNCHANGED <<want, rest, page, sent>>

\* A store that fails, also in the middle of a body, a message that does not
\* decode, or a client that is gone when it is sent to.
StreamFails(r) ==
  /\ at[r] \in {"reader", "body", "queue"}
  /\ End(r, "Internal") \/ End(r, "Canceled")

-----------------------------------------------------------------------------
(* Read *)

\* Faulty byteRange: the last position is taken for the end.
byteRangeTooLong(b, range) ==
  IF range.limit = 0
    THEN SubSeq(b, range.offset + 1, Len(b))
    ELSE LET last == range.offset + range.limit
         IN  SubSeq(b, range.offset + 1, IF last >= Len(b) THEN Len(b) ELSE last + 1)

\* The part of an object that an HTTP range "bytes=<first>-<last>" names: last is
\* included, and may be left out or be after the end.
byteRange(b, range) ==
  IF range.limit = 0
    THEN SubSeq(b, range.offset + 1, Len(b))
    ELSE LET last == range.offset + range.limit - 1
         IN  SubSeq(b, range.offset + 1, IF last >= Len(b) THEN Len(b) ELSE last + 1)

\* Store.Reader: the empty blob is not asked for, and S3 refuses a range that
\* begins at or after the end, for which MemStore has no bytes.
Reader(r) ==
  /\ at[r] = "reader"
  /\ LET d == want[r].digest
         range == want[r].range
     IN  \/ /\ Contains(d)
            /\ at' = [at EXCEPT ![r] = "body"]
            /\ rest' = [rest EXCEPT ![r] = byteRange(Get(d), range)]
            /\ UNCHANGED <<want, page, sent>>
         \/ ~Contains(d) /\ End(r, "NotFound")
         \/ Contains(d) /\ ~IsEmpty(d) /\ range.offset >= Len(Get(d)) /\ End(r, "Internal")

\* What rc.Read returns is sent: at most a buffer's worth.
SendData(r) ==
  /\ at[r] = "body"
  /\ \E n \in 1..readChunkSize :
       /\ n <= Len(rest[r])
       /\ sent' = [sent EXCEPT ![r] = Append(@, SubSeq(rest[r], 1, n))]
       /\ rest' = [rest EXCEPT ![r] = SubSeq(@, n + 1, Len(@))]
  /\ UNCHANGED <<at, want, page>>

EndOfBody(r) == at[r] = "body" /\ rest[r] = <<>> /\ End(r, "OK")

-----------------------------------------------------------------------------
(* GetTree *)

\* Faulty Visit: a page that is full is sent and kept.
VisitKeepingPage(r) ==
  /\ at[r] = "queue" /\ rest[r] # <<>>
  /\ LET d == Head(rest[r])
         filled == Append(page[r], Get(d))
     IN  /\ Contains(d) /\ Get(d) \in DOMAIN Subdirectories
         /\ rest' = [rest EXCEPT ![r] = Tail(@) \o Subdirectories[Get(d)]]
         /\ page' = [page EXCEPT ![r] = filled]
         /\ sent' = IF Len(filled) >= pageSize THEN [sent EXCEPT ![r] = Append(@, filled)] ELSE sent
  /\ UNCHANGED <<at, want>>

\* The next directory of the queue, and the page when it is full.
Visit(r) ==
  /\ at[r] = "queue" /\ rest[r] # <<>>
  /\ LET d == Head(rest[r])
         filled == Append(page[r], Get(d))
     IN  /\ Contains(d) /\ Get(d) \in DOMAIN Subdirectories
         /\ rest' = [rest EXCEPT ![r] = Tail(@) \o Subdirectories[Get(d)]]
         /\ IF Len(filled) >= pageSize
              THEN /\ sent' = [sent EXCEPT ![r] = Append(@, filled)]
                   /\ page' = [page EXCEPT ![r] = <<>>]
              ELSE page' = [page EXCEPT ![r] = filled] /\ UNCHANGED sent
  /\ UNCHANGED <<at, want>>

NoDirectory(r) ==
  /\ at[r] = "queue" /\ rest[r] # <<>>
  /\ ~Contains(Head(rest[r]))
  /\ End(r, "NotFound")

\* The queue is empty: the last page is sent, unless it has no directories.
EndOfTree(r) ==
  /\ at[r] = "queue" /\ rest[r] = <<>>
  /\ sent' = IF page[r] = <<>> THEN sent ELSE [sent EXCEPT ![r] = Append(@, page[r])]
  /\ at' = [at EXCEPT ![r] = "OK"]
  /\ UNCHANGED <<want, rest, page>>

-----------------------------------------------------------------------------
Stream(r) ==
  \/ Reader(r) \/ SendData(r) \/ EndOfBody(r)
  \/ Visit(r) \/ NoDirectory(r) \/ EndOfTree(r)
  \/ StreamFails(r)

ReadsNext ==
  \/ Next /\ UNCHANGED streamVars
  \/ /\ \E r \in Streams :
          \/ Stream(r)
          \/ \E u \in Uploads, range \in Ranges : Ask(r, FALSE, u.digest, range)
          \/ \E u \in Uploads : Ask(r, TRUE, u.digest, Whole)
     /\ UNCHANGED vars

\* A client that streams owes no reading: only the other calls are fair.
ReadsSpec ==
  /\ ReadsInit /\ [][ReadsNext]_<<vars, streamVars>>
  /\ \A c \in Calls : WF_vars(Handle(c))

-----------------------------------------------------------------------------
(* Properties *)

Content(r) == SE!FlattenSeq(sent[r])

\* Read sends the bytes of the blob from the offset, as many as the limit allows
\* and no others, in order; and all of them if it returns OK, so that a client
\* that is cut off can resume where it stopped. A message is not empty.
ReadIsSlice ==
  \A r \in Streams : ~want[r].tree =>
    LET b == want[r].digest.hash
        range == want[r].range
        asked == {i \in DOMAIN b : /\ range.offset < i
                                   /\ range.limit > 0 => i <= range.offset + range.limit}
        bytes == [i \in 1..Cardinality(asked) |-> b[range.offset + i]]
    IN  /\ SE!IsPrefix(Content(r), bytes)
        /\ at[r] = "OK" => Content(r) = bytes
        /\ \A i \in DOMAIN sent[r] : Len(sent[r][i]) \in 1..readChunkSize

\* GetTree sends the directories of the tree, every one after the one that names
\* it, as often as it is named: read in order, what they name is what follows. It
\* sends all of them if it returns OK, and full pages but for the last.
TreeIsComplete ==
  \A r \in Streams : want[r].tree =>
    LET t == Content(r)
        named == SE!FlattenSeq([i \in DOMAIN t |-> Subdirectories[t[i]]])
        follow == [i \in DOMAIN named |-> named[i].hash]
    IN  /\ t # <<>> => Head(t) = want[r].digest.hash /\ SE!IsPrefix(Tail(t), follow)
        /\ at[r] = "OK" => t # <<>> /\ Tail(t) = follow
        /\ \A i \in DOMAIN sent[r] :
             /\ Len(sent[r][i]) \in 1..pageSize
             /\ i < Len(sent[r]) => Len(sent[r][i]) = pageSize

=============================================================================
