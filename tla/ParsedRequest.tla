---------------------------- MODULE ParsedRequest ----------------------------
(***************************************************************************)
(* The parse object of proxy_parse.c: what ParsedRequest_parse() does with *)
(* a request line and the header lines after it, the calls that change the *)
(* headers, and the length and the text of a request that is unparsed.     *)
(*                                                                         *)
(* Strings are atoms with a length.  A header line has a key and a value,  *)
(* or no colon.  heap holds the blocks that are allocated; the array of    *)
(* headers is one block, whatever its size, and the key and the value of   *)
(* slot i are two.  malloc() does not fail.                                *)
(***************************************************************************)
EXTENDS ParsedHeader, SequencesExt

CONSTANTS
    Joined,        \* the key made of a line without colon and what follows it
    NoColon,       \* such a line
    RequestLines,  \* well-formed request lines, by field
    HeaderLines,   \* sequences of header lines of a request
    Strlen,        \* string |-> its length
    MaxHeaders     \* bound: slots used when the caller adds a header

ASSUME RequestAssumption ==
    /\ Joined \in Keys
    /\ \A lines \in HeaderLines :
          lines \in Seq([key : Keys \ {Joined}, value : Values] \cup {NoColon})

VARIABLES
    pc,      \* state of the object
    buf,     \* parse->buf
    path,    \* parse->path
    line,    \* the fields that point into buf, port included
    rest,    \* header lines not parsed yet
    heap,    \* blocks allocated
    fault    \* a block was freed that was not allocated

reqVars == <<buf, path, line>>
requestVars == <<headerVars, pc, reqVars, rest, heap, fault>>

Nil == <<"nil", 0>>
Buf == <<"buf", 0>>
Path == <<"path", 0>>
Tmp == <<"tmp_buf", 0>>
Object == {<<"object", 0>>, <<"array", 0>>}
Slot(i) == {<<"key", i>>, <<"value", i>>}

AnyLine == CHOOSE l \in RequestLines : TRUE

RequestInit ==
    /\ HeaderInit
    /\ pc = "created"
    /\ buf = Nil /\ path = Nil
    /\ line = AnyLine
    /\ rest = <<>>
    /\ heap = Object
    /\ fault = FALSE

\* free() of some blocks and malloc() of others.
Reallocate(freed, new) ==
    /\ fault' = (fault \/ ~(freed \subseteq heap))
    /\ heap' = (heap \ freed) \cup new

\* ParsedRequest_create().
Create ==
    /\ pc = "destroyed"
    /\ pc' = "created"
    /\ headers' = <<>> /\ headerslen' = DEFAULT_NHDRS
    /\ meant' = [k \in Keys |-> NULL]
    /\ buf' = Nil /\ path' = Nil
    /\ Reallocate({}, Object)
    /\ UNCHANGED <<line, rest>>

\* A caller may use the object.
Ready == pc \in {"created", "failed", "parsed"}

-----------------------------------------------------------------------------
(* ParsedRequest_parse().  An object whose buf is set refuses another      *)
(* request.                                                                *)

Parses == Ready /\ buf = Nil

\* The length is out of bounds or the end of the headers is missing, or the line
\* lacks a method, an address, a version, a protocol, a host or a path: buf, if it
\* was allocated, is freed again.
RejectLine ==
    /\ Parses
    /\ pc' = "failed"
    /\ buf' = Nil
    /\ UNCHANGED <<headerVars, path, line, rest, heap, fault>>

\* Slip: path still points into buf.
RejectTwoSlashesKeepsPath ==
    /\ Parses
    /\ pc' = "failed"
    /\ buf' = Nil
    /\ path' = <<"inside buf", 0>>
    /\ UNCHANGED <<headerVars, line, rest, heap, fault>>

\* The path, which points into buf, begins with a second slash.
RejectTwoSlashes ==
    /\ Parses
    /\ pc' = "failed"
    /\ buf' = Nil
    /\ path' = Nil
    /\ UNCHANGED <<headerVars, line, rest, heap, fault>>

\* The host is empty or the port is bad: path was allocated and is freed.
RejectHost ==
    /\ Parses
    /\ pc' = "failed"
    /\ buf' = Nil /\ path' = Nil
    /\ UNCHANGED <<headerVars, line, rest, heap, fault>>

\* The request line is good; the headers follow.
AcceptLine ==
    /\ Parses
    /\ pc' = "headers"
    /\ buf' = Buf /\ path' = Path
    /\ line' \in RequestLines
    /\ rest' \in HeaderLines
    /\ Reallocate({}, {Tmp, Buf, Path})
    /\ UNCHANGED headerVars

\* What ParsedHeader_remove(k) frees.
Removed(k) == UNION {Slot(i) : i \in {i \in 1 .. Len(headers) : IsSlotOf(i, k)}}

\* ParsedHeader_set() with its memory.
SetHeader(k, v) == HeaderSet(k, v) /\ Reallocate(Removed(k), Slot(Len(headers) + 1))

\* Lines after the first that have a colon.
Colons == {j \in 1 .. Len(rest) : rest[j] # NoColon}

\* ParsedHeader_parse().  The colon is looked for in all the text that follows, so
\* a line without one takes that of a later line and its value.
ParseHeader ==
    /\ pc = "headers" /\ rest # <<>> /\ Colons # {}
    /\ LET j == CHOOSE j \in Colons : \A i \in Colons : j <= i
       IN  SetHeader(IF j = 1 THEN rest[1].key ELSE Joined, rest[j].value)
    /\ rest' = Tail(rest)
    /\ UNCHANGED <<pc, reqVars>>

\* There is no colon at all: what was parsed stays in the object.
RejectHeader ==
    /\ pc = "headers" /\ rest # <<>> /\ Colons = {}
    /\ pc' = "failed"
    /\ rest' = <<>>
    /\ Reallocate({Tmp}, {})
    /\ UNCHANGED <<headerVars, reqVars>>

\* The empty line.
ParseDone ==
    /\ pc = "headers" /\ rest = <<>>
    /\ pc' = "parsed"
    /\ Reallocate({Tmp}, {})
    /\ UNCHANGED <<headerVars, reqVars, rest>>

-----------------------------------------------------------------------------
(* The caller.                                                             *)

CallerSets(k, v) ==
    /\ Ready /\ Len(headers) < MaxHeaders
    /\ SetHeader(k, v)
    /\ UNCHANGED <<pc, reqVars, rest>>

CallerRemoves(k) ==
    /\ Ready
    /\ HeaderRemove(k)
    /\ Reallocate(Removed(k), {})
    /\ UNCHANGED <<pc, reqVars, rest>>

\* parse_request() of the proxy fills in the port.
DefaultPort ==
    /\ pc = "parsed" /\ line.port = NULL
    /\ line' = [line EXCEPT !.port = "80"]
    /\ UNCHANGED <<headerVars, pc, buf, path, rest, heap, fault>>

\* ParsedRequest_destroy().
Destroy ==
    /\ Ready
    /\ pc' = "destroyed"
    /\ headers' = <<>> /\ headerslen' = 0
    /\ meant' = [k \in Keys |-> NULL]
    /\ LET live == {i \in 1 .. Len(headers) : headers[i].key # NULL}
       IN  Reallocate(({buf, path} \ {Nil}) \cup (UNION {Slot(i) : i \in live}) \cup Object, {})
    /\ UNCHANGED <<reqVars, rest>>

RequestNext ==
    \/ Create \/ RejectLine \/ RejectTwoSlashes \/ RejectHost \/ AcceptLine
    \/ ParseHeader \/ RejectHeader \/ ParseDone
    \/ \E k \in Keys : CallerRemoves(k) \/ \E v \in Values : CallerSets(k, v)
    \/ DefaultPort \/ Destroy

RequestSpec == RequestInit /\ [][RequestNext]_requestVars

-----------------------------------------------------------------------------
(* ParsedRequest_unparse() and the length of what it writes.               *)

Plus(m, n) == m + n

TextLen(text) == FoldSeq(Plus, 0, [i \in 1 .. Len(text) |-> Strlen[text[i]]])

RequestLineLen ==
    Strlen[line.method] + 1 + Strlen[line.protocol] + 3
    + Strlen[line.host] + 1 + Strlen[line.version] + 2
    + (IF line.port = NULL THEN 0 ELSE Strlen[line.port] + 1)
    + Strlen[line.path]

\* Slip: removed headers count.
LineLenAll(h) == Strlen[h.value] + 4 + (IF h.key # NULL THEN Strlen[h.key] ELSE 0)

LineLen(h) == IF h.key # NULL THEN Strlen[h.key] + Strlen[h.value] + 4 ELSE 0

HeadersLen == FoldSeq(Plus, 0, [i \in 1 .. Len(headers) |-> LineLen(headers[i])]) + 2

TotalLen == RequestLineLen + HeadersLen

PrintRequestLine ==
    <<line.method, " ", line.protocol, "://", line.host>>
    \o (IF line.port = NULL THEN <<>> ELSE <<":", line.port>>)
    \o <<line.path, " ", line.version, "CRLF">>

PrintHeaders ==
    FlattenSeq([i \in 1 .. Len(headers) |->
                   IF headers[i].key = NULL THEN <<>>
                   ELSE <<headers[i].key, ": ", headers[i].value, "CRLF">>])
    \o <<"CRLF">>

-----------------------------------------------------------------------------
\* However parsing ends, at whatever line it fails, and whatever headers are set,
\* replaced and removed, ParsedRequest_destroy() frees every block once: nothing
\* is freed twice and nothing is left.
FreedOnce == ~fault /\ (pc = "destroyed" => heap = {})

\* ParsedRequest_unparse() fills a buffer of ParsedRequest_totalLen() bytes exactly,
\* with removed headers and with the default port as well.
UnparseExact ==
    pc = "parsed" => TextLen(PrintRequestLine \o PrintHeaders) = TotalLen
=============================================================================
