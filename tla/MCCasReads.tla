----------------------------- MODULE MCCasReads -----------------------------
(* The calls of MCCasService with a stream beside them: the directory xy   *)
(* has x twice and the empty one, which x has too.                         *)
EXTENDS MCCasService, CasReads

Digest(b) == [hash |-> b, size |-> Len(b)]

MCSubdirectories == [b \in MCBlobs |->
  CASE b = <<>> -> <<>>
    [] b = x -> <<Digest(<<>>)>>
    [] b = xy -> <<Digest(x), Digest(x), Digest(<<>>)>>]

\* Of a blob of two chunks: the whole, the rest, none, a part, and one too long.
Range(offset, limit) == [offset |-> offset, limit |-> limit]
MCRanges == {Range(0, 0), Range(1, 0), Range(2, 0), Range(0, 1), Range(1, 2)}

\* At most two calls are under way or answered at a time.
TwoCalls ==
  Cardinality({c \in Calls : pc[c] # "idle"}) + Cardinality({r \in Streams : at[r] # "idle"}) <= 2

=============================================================================
