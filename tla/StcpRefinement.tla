--------------------------- MODULE StcpRefinement ---------------------------
(* Stcp implements the byte stream of ByteStream.                          *)
EXTENDS StcpInvariant

Stream == INSTANCE ByteStream WITH
    Other  <- Peer,
    wrote  <- written,
    read   <- taken,
    closed <- {e \in Ends : app[e] \in {"closing", "closed", "killed"}},
    lost   <- {e \in Ends : app[e] = "killed"},
    ended  <- {e \in Ends : eof[e]}

\* The transport layers, queues and threads of both ends together behave as one
\* byte stream in each direction, crashes included.
StreamSpec == Stream!Spec
=============================================================================
