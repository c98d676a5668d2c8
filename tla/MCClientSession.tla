-------------------------- MODULE MCClientSession ---------------------------
(***************************************************************************)
(* One connection and one node that may become known.  The last packet but *)
(* one, and one kind of request, are too long for the stream.              *)
(***************************************************************************)
EXTENDS ClientSession

LongMessages == {Msg("packet", MaxDispatch - 1), Request("large", 0)}
=============================================================================
