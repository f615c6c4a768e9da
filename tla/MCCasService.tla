---------------------------- MODULE MCCasService ----------------------------
(* Two calls over the empty blob, a blob of one chunk and one of two.      *)
EXTENDS CasService

x == <<"x">>
xy == <<"x", "y">>
yy == <<"y", "y">>

Of(hash, data) == [digest |-> [hash |-> hash, size |-> Len(hash)], data |-> data]

MCBlobs == {<<>>, x, xy}

\* An entry of the right size whose data are others', and one of another size.
Mistaken == [digest |-> [hash |-> x, size |-> 2], data |-> xy]
Missized == Of(x, xy)

MCRequests == {<<Missized, Of(xy, xy)>>, <<Of(x, x), Of(<<>>, <<>>), Of(xy, xy), Mistaken>>}
MCUploads == {Of(b, b) : b \in MCBlobs}

\* A file that is changed after it was hashed and before it is uploaded.
MCChangedBlobs == {xy, yy}
MCChangedRequests == {<<Of(xy, xy), Of(xy, yy)>>}
MCChangedUploads == {Of(xy, xy), Of(xy, yy)}

=============================================================================
