-------------------------- MODULE MCParsedRequest --------------------------
(* Small requests for module ParsedRequest.                                *)
EXTENDS ParsedRequest

Line(port) == [method |-> "GET", protocol |-> "http", host |-> "host", port |-> port,
               path |-> "/", version |-> "HTTP/1.0"]

WithAndWithoutPort == {Line(NULL), Line("8080")}

\* No header, one key twice, lines without a colon before and after one with it.
FewLines ==
    LET k == [key |-> "Host", value |-> "a"]
        l == [key |-> "Host", value |-> "bc"]
    IN  {<<>>, <<k>>, <<k, l>>, <<NoColon, k>>, <<k, NoColon>>}

Lengths ==
    ("GET" :> 3) @@ ("http" :> 4) @@ ("host" :> 4) @@ ("/" :> 1) @@ ("HTTP/1.0" :> 8)
    @@ ("80" :> 2) @@ ("8080" :> 4) @@ (" " :> 1) @@ ("://" :> 3) @@ (":" :> 1)
    @@ ("CRLF" :> 2) @@ (": " :> 2)
    @@ ("Host" :> 4) @@ ("Joined" :> 9) @@ ("Accept" :> 6) @@ ("a" :> 1) @@ ("bc" :> 2)
============================================================================
