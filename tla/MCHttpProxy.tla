---------------------------- MODULE MCHttpProxy ----------------------------
(* Small messages for module HttpProxy.                                    *)
EXTENDS HttpProxy

\* A request in two parts, one of each other kind, and one that is longer than the
\* buffer.
SmallRequests ==
    {[units |-> <<"text", "end">>, kind |-> "get"],
     [units |-> <<"end">>, kind |-> "other method"],
     [units |-> <<"end">>, kind |-> "long"],
     [units |-> <<"end">>, kind |-> "malformed"],
     [units |-> <<"text", "text", "text", "text", "end">>, kind |-> "get"]}

\* A response with a body, and one that is longer than the buffer.
SmallResponses == {<<"text", "end", "text">>, <<"end", "text", "text", "text">>}
=============================================================================
