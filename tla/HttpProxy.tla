----------------------------- MODULE HttpProxy -----------------------------
(***************************************************************************)
(* The HTTP proxy of proxy.c: a parent that accepts connections and forks  *)
(* a child for each, the SIGCHLD handler that reaps them, and the children *)
(* that read a request, fetch the response and relay it.                   *)
(*                                                                         *)
(* A message is a sequence of units, of which "end" is the empty line that *)
(* ends the headers.  recv() and send() take any part of what is there.    *)
(* What the parser makes of a request is a property of the request: see    *)
(* ParsedRequest.                                                          *)
(***************************************************************************)
EXTENDS Integers, Sequences, SequencesExt

CONSTANTS
    Clients,     \* the clients; each connects once
    Requests,    \* requests [units, kind] they send
    Responses,   \* responses of the servers
    BufferSize   \* RECV_BUFFER_SIZE

Unit == {"text", "end"}

ASSUME ProxyAssumption ==
    /\ "none" \notin Clients
    /\ BufferSize \in Nat \ {0}
    /\ \A r \in Requests : /\ r.units \in Seq(Unit)
                           /\ r.kind \in {"get", "other method", "malformed", "long"}
    /\ \A units \in Responses : units \in Seq(Unit)

VARIABLES
    parent,    \* [pc, client]: where proxy() is, and clientfd
    handler,   \* the parent is in sigchld_handler()
    sigchld,   \* SIGCHLD is pending
    conn,      \* client |-> state of its connection
    holders,   \* client |-> processes that have its socket open
    child,     \* client |-> where its child is in chat_with_client()
    request,   \* client |-> its request
    unread,    \* client |-> units the child has not read, of the request or response
    response,  \* client |-> the response of its server
    buffer,    \* client |-> client_buffer or server_buffer
    got        \* client |-> what the client received

vars == <<parent, handler, sigchld, conn, holders, child, request, unread,
          response, buffer, got>>

Init ==
    /\ parent = [pc |-> "accept", client |-> "none"]
    /\ handler = FALSE
    /\ sigchld = FALSE
    /\ conn = [c \in Clients |-> "none"]
    /\ holders = [c \in Clients |-> {}]
    /\ child = [c \in Clients |-> "none"]
    /\ request \in [Clients -> Requests]
    /\ unread = [c \in Clients |-> request[c].units]
    /\ response \in [Clients -> Responses]
    /\ buffer = [c \in Clients |-> <<>>]
    /\ got = [c \in Clients |-> <<>>]

-----------------------------------------------------------------------------
(* The parent.                                                             *)

chatVars == <<request, unread, response, buffer, got>>

ClientConnects(c) ==
    /\ conn[c] = "none"
    /\ conn' = [conn EXCEPT ![c] = "queued"]
    /\ UNCHANGED <<parent, handler, sigchld, holders, child, chatVars>>

\* accept() returns.  It is restarted when SIGCHLD interrupts it.
Accept ==
    /\ ~handler /\ parent.pc = "accept"
    /\ \E c \in Clients :
          /\ conn[c] = "queued"
          /\ conn' = [conn EXCEPT ![c] = "accepted"]
          /\ holders' = [holders EXCEPT ![c] = {"parent"}]
          /\ parent' = [pc |-> "fork", client |-> c]
    /\ UNCHANGED <<handler, sigchld, child, chatVars>>

\* fork() makes a child with a copy of clientfd, or fails.
Fork ==
    /\ ~handler /\ parent.pc = "fork"
    /\ \/ /\ child' = [child EXCEPT ![parent.client] = "reading"]
          /\ holders' = [holders EXCEPT ![parent.client] = @ \cup {"child"}]
       \/ UNCHANGED <<child, holders>>
    /\ parent' = [parent EXCEPT !.pc = "close"]
    /\ UNCHANGED <<handler, sigchld, conn, chatVars>>

\* Slip: the parent keeps its copy of clientfd.
CloseClientKeeps ==
    /\ ~handler /\ parent.pc = "close"
    /\ parent' = [pc |-> "accept", client |-> "none"]
    /\ UNCHANGED <<holders, handler, sigchld, conn, child, chatVars>>

\* The parent closes clientfd, whether fork() worked or not.
CloseClient ==
    /\ ~handler /\ parent.pc = "close"
    /\ holders' = [holders EXCEPT ![parent.client] = @ \ {"parent"}]
    /\ parent' = [pc |-> "accept", client |-> "none"]
    /\ UNCHANGED <<handler, sigchld, conn, child, chatVars>>

Zombies == {c \in Clients : child[c] = "zombie"}

\* SIGCHLD is delivered: it is blocked while its handler runs.
HandlerStarts ==
    /\ sigchld /\ ~handler
    /\ sigchld' = FALSE
    /\ handler' = TRUE
    /\ UNCHANGED <<parent, conn, holders, child, chatVars>>

\* Slip: one child is reaped for one signal.
WaitpidOnce ==
    /\ handler
    /\ IF Zombies = {} THEN UNCHANGED child
       ELSE \E c \in Zombies : child' = [child EXCEPT ![c] = "reaped"]
    /\ handler' = FALSE
    /\ UNCHANGED <<parent, sigchld, conn, holders, chatVars>>

\* while (waitpid(-1, NULL, WNOHANG) > 0);
Waitpid ==
    /\ handler
    /\ IF Zombies = {} THEN handler' = FALSE /\ UNCHANGED child
       ELSE /\ \E c \in Zombies : child' = [child EXCEPT ![c] = "reaped"]
            /\ UNCHANGED handler
    /\ UNCHANGED <<parent, sigchld, conn, holders, chatVars>>

Parent == Accept \/ Fork \/ CloseClient \/ HandlerStarts \/ Waitpid

-----------------------------------------------------------------------------
(* A child: chat_with_client().                                            *)

procVars == <<parent, handler, conn>>

Goto(c, pc) == child' = [child EXCEPT ![c] = pc]

\* receive_from_socket() is over: the empty line was the last thing read, nothing
\* is left, or the buffer is full and recv() returns 0.
Received(units, rest) ==
    \/ units # <<>> /\ Last(units) = "end"
    \/ rest = <<>>
    \/ Len(units) = BufferSize

\* Slip: each part is stored at the beginning of the buffer.
ReceiveOver(c, from, to) ==
    /\ child[c] = from
    /\ \/ \E k \in 1 .. Len(unread[c]) :
             /\ Len(buffer[c]) + k <= BufferSize
             /\ buffer' = [buffer EXCEPT ![c] = SubSeq(unread[c], 1, k)]
             /\ unread' = [unread EXCEPT ![c] = SubSeq(@, k + 1, Len(@))]
             /\ Goto(c, IF Received(buffer'[c], unread'[c]) THEN to ELSE from)
       \/ unread[c] = <<>> /\ Goto(c, to) /\ UNCHANGED <<buffer, unread>>
       \/ Goto(c, "exit") /\ UNCHANGED <<buffer, unread>>
    /\ UNCHANGED <<procVars, sigchld, holders, request, response, got>>

\* recv() in receive_from_socket(): data, the end of the connection, or an error.
Receive(c, from, to) ==
    /\ child[c] = from
    /\ \/ \E k \in 1 .. Len(unread[c]) :
             /\ Len(buffer[c]) + k <= BufferSize
             /\ buffer' = [buffer EXCEPT ![c] = @ \o SubSeq(unread[c], 1, k)]
             /\ unread' = [unread EXCEPT ![c] = SubSeq(@, k + 1, Len(@))]
             /\ Goto(c, IF Received(buffer'[c], unread'[c]) THEN to ELSE from)
       \/ unread[c] = <<>> /\ Goto(c, to) /\ UNCHANGED <<buffer, unread>>
       \/ Goto(c, "exit") /\ UNCHANGED <<buffer, unread>>
    /\ UNCHANGED <<procVars, sigchld, holders, request, response, got>>

ReceiveRequest(c) == Receive(c, "reading", "parsing")

\* parse_request(): a request that cannot be parsed is answered 400, a method
\* other than GET 501, and one that does not fit the buffer when it is rewritten
\* not at all.
Verdict(c) ==
    IF buffer[c] = <<>> \/ request[c].kind = "malformed" THEN "400"
    ELSE IF Last(buffer[c]) # "end" THEN "400"
    ELSE IF request[c].kind = "other method" THEN "501"
    ELSE IF request[c].kind = "long" THEN "none"
    ELSE "ok"

Parse(c) ==
    /\ child[c] = "parsing"
    /\ \/ Verdict(c) = "ok" /\ Goto(c, "connecting") /\ UNCHANGED got
       \/ Verdict(c) = "none" /\ Goto(c, "exit") /\ UNCHANGED got
       \/ /\ Verdict(c) \in {"400", "501"}
          /\ Goto(c, "exit")
          /\ \/ got' = [got EXCEPT ![c] = <<Verdict(c)>>]
             \/ UNCHANGED got
    /\ buffer' = [buffer EXCEPT ![c] = <<>>]
    /\ UNCHANGED <<procVars, sigchld, holders, request, unread, response>>

\* The server is found, connected and sent the request, or one of these fails.
Connect(c) ==
    /\ child[c] = "connecting"
    /\ \/ Goto(c, "fetching") /\ unread' = [unread EXCEPT ![c] = response[c]]
       \/ Goto(c, "exit") /\ UNCHANGED unread
    /\ UNCHANGED <<procVars, sigchld, holders, request, response, buffer, got>>

ReceiveResponse(c) == Receive(c, "fetching", "relaying")

\* send() in send_to_socket(): a part is sent, all is, or it fails.
Relay(c) ==
    /\ child[c] = "relaying"
    /\ \/ \E k \in 1 .. Len(buffer[c]) :
             /\ got' = [got EXCEPT ![c] = @ \o SubSeq(buffer[c], 1, k)]
             /\ buffer' = [buffer EXCEPT ![c] = SubSeq(@, k + 1, Len(@))]
             /\ UNCHANGED child
       \/ buffer[c] = <<>> /\ Goto(c, "relayed") /\ UNCHANGED <<got, buffer>>
       \/ Goto(c, "exit") /\ UNCHANGED <<got, buffer>>
    /\ UNCHANGED <<procVars, sigchld, holders, request, unread, response>>

\* clientfd is closed and the child exits.
Exit(c) ==
    /\ child[c] \in {"exit", "relayed"}
    /\ holders' = [holders EXCEPT ![c] = @ \ {"child"}]
    /\ Goto(c, "zombie")
    /\ sigchld' = TRUE
    /\ UNCHANGED <<procVars, chatVars>>

Child(c) == \/ ReceiveRequest(c) \/ Parse(c) \/ Connect(c) \/ ReceiveResponse(c)
            \/ Relay(c) \/ Exit(c)

-----------------------------------------------------------------------------
Next == Parent \/ \E c \in Clients : ClientConnects(c) \/ Child(c)

Spec == Init /\ [][Next]_vars

\* The processes are scheduled and signals delivered; clients and servers send
\* what they have to send, or close.
Fairness ==
    /\ WF_vars(Accept) /\ WF_vars(Fork \/ CloseClient)
    /\ WF_vars(HandlerStarts) /\ WF_vars(Waitpid)
    /\ \A c \in Clients : WF_vars(Child(c))

FairSpec == Spec /\ Fairness

-----------------------------------------------------------------------------
\* However recv() and send() cut the response, the client receives it from its
\* beginning and without gaps, or an error message.
RelayedInOrder ==
    \A c \in Clients : got[c] \in {<<>>, <<"400">>, <<"501">>} \/ IsPrefix(got[c], response[c])

\* A dead child is never forgotten: as long as one waits to be reaped, SIGCHLD is
\* pending or its handler is still at work.
NoneForgotten == Zombies # {} => sigchld \/ handler

\* A connection is open only where it is in use: in the parent from accept() to
\* close(), in the child until it exits.
NoSocketKept ==
    \A c \in Clients :
       /\ "parent" \in holders[c] => parent.client = c
       /\ "child" \in holders[c] => child[c] \notin {"none", "zombie", "reaped"}

\* Every child is reaped, although the deaths of several make one signal.
ChildrenReaped == \A c \in Clients : child[c] = "zombie" ~> child[c] = "reaped"

\* A client that was accepted sees the end of its connection: no process keeps a
\* copy of its socket, whether fork() works or not.
ConnectionsEnd == \A c \in Clients : conn[c] = "queued" ~> conn[c] = "accepted" /\ holders[c] = {}

-----------------------------------------------------------------------------
(* What the documentation says and the code does not do.                   *)

\* "the proxy should send the response message as-is to the client": when the
\* child is through, the client has received the response.
RelaysResponse == \A c \in Clients : child[c] = "relayed" => got[c] = response[c]
=============================================================================
