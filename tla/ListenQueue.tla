----------------------------- MODULE ListenQueue -----------------------------
(***************************************************************************)
(* A listening mysocket: connection_demux.c with the receive thread of the *)
(* listening socket (network_io_socket.c, network_io_tcp.c), the transport *)
(* threads of the connections it creates and an application that calls     *)
(* myaccept() and myclose().                                               *)
(*                                                                         *)
(* listen_lock is taken for reading by everyone but the closing listener,  *)
(* so readers run side by side.  cur_len is updated by two of them without *)
(* a common lock: each update is a load and a store.                       *)
(*                                                                         *)
(* What a transport thread does between the handshake and the end of its   *)
(* connection is the subject of module Stcp.                               *)
(***************************************************************************)
EXTENDS Integers, Sequences, FiniteSets

CONSTANTS
    Peers,        \* addresses of clients
    MaxLen,       \* max_len of the queue: backlog + 1
    MaxSockets,   \* descriptors left for accepted connections
    CountMod,     \* size of the unsigned int cur_len (2^32 in the code)
    MaxConnects,  \* bound: connections all clients open
    NoPeer        \* no address

ASSUME QueueAssumption ==
    /\ MaxLen \in Nat \ {0}
    /\ CountMod \in Nat
    /\ MaxLen + 1 < CountMod
    /\ MaxSockets \in Nat
    /\ MaxConnects \in Nat
    /\ NoPeer \notin Peers

VARIABLES
    incoming,          \* TCP connections the listening socket has not accepted
    connects,          \* how many were opened
    new_socket,        \* client of the accepted TCP connection not yet passed on
    recv,              \* the receive thread of the listening socket
    connection_queue,  \* slot |-> descriptor and peer of a pending connection
    completed_queue,   \* slots whose handshake is over, oldest first
    cur_len,           \* number of pending connections, as the code counts them
    sock,              \* descriptor |-> mysock context and its transport thread
    held,              \* descriptors that myaccept() has returned
    app,               \* the application thread of the listening socket
    assertion          \* the assertion that has failed and ended the process

netVars == <<incoming, connects, new_socket>>
queueVars == <<connection_queue, completed_queue, cur_len>>
vars == <<netVars, recv, queueVars, sock, held, app, assertion>>

Slots == 1 .. MaxLen
Sockets == 1 .. MaxSockets

\* INVALIDATE_CONNECT_REQUEST clears the slot, then sets its descriptor to -1.
\* Descriptor 0 is the listening socket.
ClearedSlot == [sd |-> 0, peer |-> NoPeer]

FreeSlot == [ClearedSlot EXCEPT !.sd = -1]

FreeSock == [state |-> "free", peer |-> NoPeer, stcp_errno |-> FALSE,
             close_requested |-> FALSE]

IdleRecv == [pc |-> "poll", peer |-> NoPeer, slot |-> 0, count |-> 0]

IdleApp == [pc |-> "ready", sd |-> 0, count |-> 0, k |-> 0]

\* A failed assertion aborts the process.
Running == assertion = "none"

Least(S) == CHOOSE x \in S : \A y \in S : x <= y

Init ==
    /\ incoming = <<>>
    /\ connects = 0
    /\ new_socket = NoPeer
    /\ recv = IdleRecv
    /\ connection_queue = [k \in Slots |-> FreeSlot]
    /\ completed_queue = <<>>
    /\ cur_len = 0
    /\ sock = [s \in Sockets |-> FreeSock]
    /\ held = {}
    /\ app = IdleApp
    /\ assertion = "none"

-----------------------------------------------------------------------------
(* Clients.                                                                *)

\* A client opens a TCP connection and sends its SYN, or dies before it does.
\* An address is used again only when the process at the other end has finished
\* with its earlier connection.
ClientConnects ==
    /\ Running
    /\ connects < MaxConnects
    /\ \E p \in Peers, syn \in BOOLEAN :
          /\ \A i \in 1 .. Len(incoming) : incoming[i].peer # p
          /\ p \notin {new_socket, recv.peer}
          /\ \A s \in Sockets : sock[s].peer = p => sock[s].state \in {"free", "exited"}
          /\ incoming' = Append(incoming, [peer |-> p, syn |-> syn])
    /\ connects' = connects + 1
    /\ UNCHANGED <<new_socket, recv, queueVars, sock, held, app, assertion>>

-----------------------------------------------------------------------------
(* The receive thread of the listening socket.                             *)

\* _network_recv_packet(): accept a connection and read its first packet.  When
\* there is none the thread reports an error to nobody and ends.
TcpAccept ==
    /\ Running
    /\ recv.pc = "poll"
    /\ incoming # <<>>
    /\ app.pc # "stopping"
    /\ incoming' = Tail(incoming)
    /\ IF new_socket # NoPeer
         THEN assertion' = "new_socket" /\ UNCHANGED <<new_socket, recv>>
         ELSE /\ new_socket' = Head(incoming).peer
              /\ recv' = IF Head(incoming).syn
                           THEN [recv EXCEPT !.pc = "dispatch", !.peer = Head(incoming).peer]
                           ELSE [recv EXCEPT !.pc = "stopped"]
              /\ UNCHANGED assertion
    /\ UNCHANGED <<connects, queueVars, sock, held, app>>

\* The exit pipe is readable.
RecvStops ==
    /\ Running
    /\ recv.pc = "poll"
    /\ app.pc = "stopping"
    /\ recv' = [recv EXCEPT !.pc = "stopped"]
    /\ UNCHANGED <<netVars, queueVars, sock, held, app, assertion>>

Retransmission(peer) == \E k \in Slots : connection_queue[k].peer = peer

\* assert(r->sd == -1 || peer_addr_len == r->peer_addr_len) meets a slot that
\* myaccept() has cleared and not yet freed.
MeetsCleared(peer) ==
    \E k \in Slots : /\ connection_queue[k] = ClearedSlot
                     /\ \A j \in 1 .. k - 1 : connection_queue[j].peer # peer

EmptySlots == {k \in Slots : connection_queue[k].sd < 0}

\* _mysock_enqueue_connection() up to the choice of a slot.  A dropped SYN
\* leaves its TCP connection in new_socket.
FindSlot ==
    /\ Running
    /\ recv.pc = "dispatch"
    /\ IF MeetsCleared(recv.peer)
         THEN assertion' = "peer_addr_len" /\ UNCHANGED recv
         ELSE IF Retransmission(recv.peer) \/ cur_len >= MaxLen
         THEN /\ recv' = IdleRecv
              /\ UNCHANGED assertion
         ELSE IF EmptySlots = {}
         THEN assertion' = "queue_entry" /\ UNCHANGED recv
         ELSE /\ recv' = [recv EXCEPT !.pc = "load", !.slot = Least(EmptySlots)]
              /\ UNCHANGED assertion
    /\ UNCHANGED <<netVars, queueVars, sock, held, app>>

\* ++q->cur_len, and --q->cur_len where no mysocket could be created.
LoadCount ==
    /\ Running
    /\ recv.pc \in {"load", "undo_load"}
    /\ recv' = [recv EXCEPT !.pc = IF @ = "load" THEN "store" ELSE "undo_store",
                            !.count = cur_len]
    /\ UNCHANGED <<netVars, queueVars, sock, held, app, assertion>>

\* Slip: cur_len is a signed int.
StoreCountSigned ==
    /\ Running
    /\ recv.pc \in {"store", "undo_store"}
    /\ cur_len' = IF recv.pc = "store" THEN recv.count + 1 ELSE recv.count - 1
    /\ recv' = IF recv.pc = "store" THEN [recv EXCEPT !.pc = "create", !.count = 0]
               ELSE IdleRecv
    /\ UNCHANGED <<netVars, connection_queue, completed_queue, sock, held, app, assertion>>

StoreCount ==
    /\ Running
    /\ recv.pc \in {"store", "undo_store"}
    /\ cur_len' = (IF recv.pc = "store" THEN recv.count + 1 ELSE recv.count - 1) % CountMod
    /\ recv' = IF recv.pc = "store" THEN [recv EXCEPT !.pc = "create", !.count = 0]
               ELSE IdleRecv
    /\ UNCHANGED <<netVars, connection_queue, completed_queue, sock, held, app, assertion>>

FreeSockets == {s \in Sockets : sock[s].state = "free"}

\* The rest of _mysock_enqueue_connection(): a new mysocket takes over the TCP
\* connection, and its transport thread starts with the SYN.
CreateSocket ==
    /\ Running
    /\ recv.pc = "create"
    /\ IF FreeSockets = {}
         THEN /\ recv' = [recv EXCEPT !.pc = "undo_load"]
              /\ UNCHANGED <<connection_queue, sock, new_socket>>
         ELSE LET s == Least(FreeSockets)
              IN  /\ connection_queue' = [connection_queue EXCEPT ![recv.slot] =
                                             [sd |-> s, peer |-> recv.peer]]
                  /\ sock' = [sock EXCEPT ![s] =
                                 [FreeSock EXCEPT !.state = "handshake", !.peer = recv.peer]]
                  /\ new_socket' = NoPeer
                  /\ recv' = IdleRecv
    /\ UNCHANGED <<incoming, connects, completed_queue, cur_len, held, app, assertion>>

ReceiveThread == TcpAccept \/ RecvStops \/ FindSlot \/ LoadCount \/ StoreCount \/ CreateSocket

-----------------------------------------------------------------------------
(* The transport threads of the new connections.                           *)

\* transport_init() is over.  A close request wakes a thread that waits for the
\* next packet of the handshake, and makes it give up.
HandshakeEnds(s) ==
    /\ Running
    /\ sock[s].state = "handshake"
    /\ \E refused \in BOOLEAN :
          sock' = [sock EXCEPT ![s].state = "completing", ![s].stcp_errno = refused]
    /\ UNCHANGED <<netVars, recv, queueVars, held, app, assertion>>

\* The listener that closes holds listen_lock for writing.
WriteLocked == app.pc \in {"closing", "joining"}

\* connection_lock is held by myaccept() between its wait and its return.
ConnectionLocked == app.pc \in {"clearing", "taking"}

SlotsOf(s) == {k \in Slots : connection_queue[k].sd = s}

\* _mysock_passive_connection_complete(), called by stcp_unblock_application().
Complete(s) ==
    /\ Running
    /\ sock[s].state = "completing"
    /\ ~WriteLocked
    /\ ~ConnectionLocked
    /\ IF SlotsOf(s) = {}
         THEN assertion' = "connection_req" /\ UNCHANGED <<completed_queue, sock>>
         ELSE /\ completed_queue' = Append(completed_queue, Least(SlotsOf(s)))
              /\ sock' = [sock EXCEPT ![s].state =
                             IF sock[s].stcp_errno THEN "exited" ELSE "open"]
              /\ UNCHANGED assertion
    /\ UNCHANGED <<netVars, recv, connection_queue, cur_len, held, app>>

\* control_loop() ends: both sides have closed, or the client is gone.
TransportExits(s) ==
    /\ Running
    /\ sock[s].state = "open"
    /\ sock' = [sock EXCEPT ![s].state = "exited"]
    /\ UNCHANGED <<netVars, recv, queueVars, held, app, assertion>>

TransportThread(s) == HandshakeEnds(s) \/ Complete(s) \/ TransportExits(s)

-----------------------------------------------------------------------------
(* The application.                                                        *)

\* myaccept() takes listen_lock for reading and waits for a connection.
AcceptStarts ==
    /\ Running
    /\ app.pc = "ready"
    /\ app' = [app EXCEPT !.pc = "accepting"]
    /\ UNCHANGED <<netVars, recv, queueVars, sock, held, assertion>>

\* Slip: the wait ends only when the queue is full.
AcceptTakesWhenFull ==
    /\ Running
    /\ app.pc = "accepting"
    /\ Len(completed_queue) = MaxLen
    /\ LET k == Head(completed_queue)
       IN  /\ app' = [app EXCEPT !.pc = "clearing", !.sd = connection_queue[k].sd, !.k = k]
           /\ connection_queue' = [connection_queue EXCEPT ![k] = ClearedSlot]
    /\ completed_queue' = Tail(completed_queue)
    /\ UNCHANGED <<netVars, recv, cur_len, sock, held, assertion>>

\* _mysock_dequeue_connection() takes the oldest completed connection and clears
\* its slot ...
AcceptTakes ==
    /\ Running
    /\ app.pc = "accepting"
    /\ completed_queue # <<>>
    /\ LET k == Head(completed_queue)
       IN  /\ app' = [app EXCEPT !.pc = "clearing", !.sd = connection_queue[k].sd, !.k = k]
           /\ connection_queue' = [connection_queue EXCEPT ![k] = ClearedSlot]
    /\ completed_queue' = Tail(completed_queue)
    /\ UNCHANGED <<netVars, recv, cur_len, sock, held, assertion>>

\* Slip: the whole queue is emptied.
AcceptEmptiesQueue ==
    /\ Running
    /\ app.pc = "clearing"
    /\ connection_queue' = [k \in Slots |-> FreeSlot]
    /\ completed_queue' = <<>>
    /\ app' = [app EXCEPT !.pc = "taking", !.count = cur_len, !.k = 0]
    /\ UNCHANGED <<netVars, recv, cur_len, sock, held, assertion>>

\* Slip: the slot is given back to the connection that leaves it.
AcceptKeepsSlot ==
    /\ Running
    /\ app.pc = "clearing"
    /\ connection_queue' = [connection_queue EXCEPT ![app.k] =
                               [sd |-> app.sd, peer |-> sock[app.sd].peer]]
    /\ app' = [app EXCEPT !.pc = "taking", !.count = cur_len, !.k = 0]
    /\ UNCHANGED <<netVars, recv, completed_queue, cur_len, sock, held, assertion>>

\* ... frees the slot and begins --q->cur_len.
AcceptFrees ==
    /\ Running
    /\ app.pc = "clearing"
    /\ connection_queue' = [connection_queue EXCEPT ![app.k] = FreeSlot]
    /\ IF cur_len > 0
         THEN /\ app' = [app EXCEPT !.pc = "taking", !.count = cur_len, !.k = 0]
              /\ UNCHANGED assertion
         ELSE assertion' = "cur_len" /\ UNCHANGED app
    /\ UNCHANGED <<netVars, recv, completed_queue, cur_len, sock, held>>

\* myaccept() returns the descriptor, or -1 if the handshake had failed.
AcceptReturns ==
    /\ Running
    /\ app.pc = "taking"
    /\ cur_len' = app.count - 1
    /\ held' = IF sock[app.sd].stcp_errno THEN held ELSE held \cup {app.sd}
    /\ app' = IdleApp
    /\ UNCHANGED <<netVars, recv, connection_queue, completed_queue, sock, assertion>>

\* myclose() of an accepted connection, up to the join of its transport thread.
CloseConnection(s) ==
    /\ Running
    /\ s \in held
    /\ ~sock[s].close_requested
    /\ sock' = [sock EXCEPT ![s].close_requested = TRUE]
    /\ UNCHANGED <<netVars, recv, queueVars, held, app, assertion>>

CloseConnectionReturns(s) ==
    /\ Running
    /\ s \in held
    /\ sock[s].close_requested
    /\ sock[s].state = "exited"
    /\ sock' = [sock EXCEPT ![s] = FreeSock]
    /\ held' = held \ {s}
    /\ UNCHANGED <<netVars, recv, queueVars, app, assertion>>

\* myclose() of the listening socket stops the receive thread ...
CloseListener ==
    /\ Running
    /\ app.pc = "ready"
    /\ app' = [app EXCEPT !.pc = "stopping"]
    /\ UNCHANGED <<netVars, recv, queueVars, sock, held, assertion>>

\* ... takes listen_lock for writing ...
LockTable ==
    /\ Running
    /\ app.pc = "stopping"
    /\ recv.pc = "stopped"
    /\ app' = [app EXCEPT !.pc = "closing", !.k = 1]
    /\ UNCHANGED <<netVars, recv, queueVars, sock, held, assertion>>

\* ... closes the connections that are still queued, one after the other ...
CloseQueued ==
    /\ Running
    /\ app.pc = "closing"
    /\ app.k <= MaxLen
    /\ LET s == connection_queue[app.k].sd
       IN  IF s = -1
             THEN /\ app' = [app EXCEPT !.k = @ + 1]
                  /\ UNCHANGED sock
             ELSE /\ app' = [app EXCEPT !.pc = "joining", !.sd = s]
                  /\ sock' = [sock EXCEPT ![s].close_requested = TRUE]
    /\ UNCHANGED <<netVars, recv, queueVars, held, assertion>>

\* ... each when its transport thread has ended ...
CloseQueuedReturns ==
    /\ Running
    /\ app.pc = "joining"
    /\ sock[app.sd].state = "exited"
    /\ sock' = [sock EXCEPT ![app.sd] = FreeSock]
    /\ app' = [app EXCEPT !.pc = "closing", !.sd = 0, !.k = @ + 1]
    /\ UNCHANGED <<netVars, recv, queueVars, held, assertion>>

\* ... and frees the queue.
CloseListenerReturns ==
    /\ Running
    /\ app.pc = "closing"
    /\ app.k > MaxLen
    /\ app' = [app EXCEPT !.pc = "closed"]
    /\ connection_queue' = [k \in Slots |-> FreeSlot]
    /\ completed_queue' = <<>>
    /\ cur_len' = 0
    /\ UNCHANGED <<netVars, recv, sock, held, assertion>>

Closing == LockTable \/ CloseQueued \/ CloseQueuedReturns \/ CloseListenerReturns

-----------------------------------------------------------------------------
Next ==
    \/ ClientConnects
    \/ ReceiveThread
    \/ \E s \in Sockets : \/ TransportThread(s)
                          \/ CloseConnection(s)
                          \/ CloseConnectionReturns(s)
    \/ AcceptStarts \/ AcceptTakes \/ AcceptFrees \/ AcceptReturns
    \/ CloseListener \/ Closing

Spec == Init /\ [][Next]_vars

\* The threads are scheduled, clients finish what they have begun, and an
\* application that has called into the library stays in its call.
Fairness ==
    /\ WF_vars(ReceiveThread)
    /\ \A s \in Sockets : /\ WF_vars(TransportThread(s))
                          /\ WF_vars(CloseConnectionReturns(s))
    /\ WF_vars(AcceptTakes) /\ WF_vars(AcceptFrees) /\ WF_vars(AcceptReturns)
    /\ WF_vars(Closing)

FairSpec == Spec /\ Fairness

-----------------------------------------------------------------------------
RecvPcs == {"poll", "dispatch", "load", "store", "create", "undo_load", "undo_store",
            "stopped"}
RecvType == [pc : RecvPcs, peer : Peers \cup {NoPeer}, slot : Slots \cup {0},
             count : 0 .. CountMod - 1]
AppPcs == {"ready", "accepting", "clearing", "taking", "stopping", "closing", "joining",
           "closed"}
AppType == [pc : AppPcs, sd : Sockets \cup {0}, count : 0 .. CountMod - 1, k : 0 .. MaxLen + 1]
SlotType == [sd : Sockets \cup {-1, 0}, peer : Peers \cup {NoPeer}]
SockStates == {"free", "handshake", "completing", "open", "exited"}
SockType == [state : SockStates, peer : Peers \cup {NoPeer}, stcp_errno : BOOLEAN,
             close_requested : BOOLEAN]
Asserts == {"none", "new_socket", "peer_addr_len", "queue_entry", "connection_req", "cur_len"}

\* Every variable keeps its type.
TypeOK ==
    /\ incoming \in Seq([peer : Peers, syn : BOOLEAN])
    /\ connects \in 0 .. MaxConnects
    /\ new_socket \in Peers \cup {NoPeer}
    /\ recv \in RecvType
    /\ connection_queue \in [Slots -> SlotType]
    /\ completed_queue \in Seq(Slots)
    /\ cur_len \in 0 .. CountMod - 1
    /\ sock \in [Sockets -> SockType]
    /\ held \subseteq Sockets
    /\ app \in AppType
    /\ assertion \in Asserts

\* The slots whose connection is still pending.
Pending == {k \in Slots : connection_queue[k].sd \in Sockets /\ ~(WriteLocked /\ k < app.k)}

\* Whatever the receive thread, the transport threads and the application do at
\* the same time, a connection is in one place only: in one slot until
\* myaccept() takes it, then with the application; and completed_queue names
\* each slot whose handshake is over exactly once.
OnePlace ==
    /\ \A k \in Pending : /\ sock[connection_queue[k].sd].state # "free"
                          /\ sock[connection_queue[k].sd].peer = connection_queue[k].peer
                          /\ connection_queue[k].sd \notin held
    /\ \A j, k \in Pending : connection_queue[j].sd = connection_queue[k].sd => j = k
    /\ \A i, j \in 1 .. Len(completed_queue) :
          completed_queue[i] = completed_queue[j] => i = j
    /\ app.pc \notin {"closing", "joining"} =>
          {completed_queue[i] : i \in 1 .. Len(completed_queue)}
             = {k \in Pending : sock[connection_queue[k].sd].state \in {"open", "exited"}}

\* assert(connection_req): a transport thread that finishes its handshake finds
\* the slot of its connection.
FindsItsSlot == assertion # "connection_req"

\* A handshake that is over reaches the application if it keeps calling
\* myaccept(), unless an assertion ends the process.
AcceptServes ==
    \A s \in Sockets :
       sock[s].state = "completing" /\ app.pc = "accepting"
          ~> \/ app.pc # "accepting"
             \/ assertion # "none"

-----------------------------------------------------------------------------
(* What comments in the code say and the code does not do.                 *)

\* "we will not reenter this function until this SYN packet has been dispatched
\* to the right context, and that context's socket updated to be 'new_socket'".
SynDispatched == assertion # "new_socket"
=============================================================================
