-------------------------------- MODULE Stcp --------------------------------
(***************************************************************************)
(* One STCP connection: the transport layer of transport.c at both ends,   *)
(* driven through the event interface of stcp_api.c and the buffer queues  *)
(* of mysock.c, over the TCP connection that network_io_tcp.c uses as its  *)
(* network.                                                                *)
(*                                                                         *)
(* Each end runs three threads that share its mysock context: the          *)
(* application, the transport thread (transport_thread_func) and the       *)
(* network receive thread (network_recv_thread_func).  One action is one   *)
(* step of one of them between two points where it lets the others in: a   *)
(* queue operation, a wait, or a return.                                   *)
(*                                                                         *)
(* A byte of application data is its position in the stream that its       *)
(* writer produced, so a buffer is the position of its first byte and a    *)
(* length, and a zero-length buffer in app_send_queue is the end-of-file   *)
(* mark of stcp_fin_received().                                            *)
(***************************************************************************)
EXTENDS Integers, Sequences

CONSTANTS
    STCP_MSS,              \* largest payload of a packet, in bytes
    RECEIVER_WINDOW_SIZE,  \* the receive window every packet advertises
    SeqMod,                \* size of the tcp_seq number space (2^32 in the code)
    InitialSeqNums,        \* results of generate_initial_seq_num()
    WriteSizes,            \* buffer lengths the application passes to mywrite()
    ReadSizes,             \* buffer lengths the application passes to myread()
    MaxBytes,              \* bound: bytes one application writes to a connection
    Mortal                 \* ends whose process may be killed

Ends == {"active", "passive"}

Peer(e) == IF e = "active" THEN "passive" ELSE "active"

ASSUME SizesAssumption ==
    /\ STCP_MSS \in Nat \ {0}
    /\ RECEIVER_WINDOW_SIZE \in Nat \ {0}
    /\ WriteSizes \subseteq Nat \ {0}
    /\ ReadSizes \subseteq Nat \ {0}
    /\ MaxBytes \in Nat

\* A connection carries fewer bytes than the number space can tell apart, the
\* SYN and the FIN included, and a window is a 16-bit number.
ASSUME SeqAssumption ==
    /\ SeqMod \in Nat
    /\ MaxBytes + 2 < SeqMod
    /\ RECEIVER_WINDOW_SIZE < SeqMod
    /\ InitialSeqNums \subseteq 0 .. SeqMod - 1

ASSUME MortalAssumption == Mortal \subseteq Ends

VARIABLES
    ctx,              \* context_t of the transport layer
    thread,           \* where the transport thread is
    event,            \* events of this control_loop() iteration not yet handled
    inbound,          \* packets sent to an end and not yet taken by its transport
    arrived,          \* how many of them its receive thread has already queued
    app_recv_queue,   \* buffers from the application for the transport layer
    app_send_queue,   \* buffers from the transport layer for the application
    close_requested,  \* myclose() was called and the transport not yet told
    result,           \* blocking and stcp_errno of the mysock context
    eof,              \* myread() has returned 0
    app,              \* where the application thread is
    written,          \* bytes the application has written
    sent,             \* bytes the transport layer has put into packets
    accepted,         \* bytes the transport layer has passed up
    taken             \* bytes the application has read

connVars  == <<ctx, thread, event>>
netVars   == <<inbound, arrived>>
queueVars == <<app_recv_queue, app_send_queue>>
sockVars  == <<close_requested, result, eof>>
countVars == <<written, sent, accepted, taken>>
vars == <<connVars, netVars, queueVars, sockVars, app, countVars>>

CStates == {"CLOSED", "SYN_SENT", "SYN_RCVD", "ESTABLISHED", "FIN_WAIT_1",
            "FIN_WAIT_2", "CLOSING", "CLOSE_WAIT", "LAST_ACK"}
Events  == {"APP_DATA", "NETWORK_DATA", "APP_CLOSE_REQUESTED"}
SeqNums == 0 .. SeqMod - 1

Context == [done : BOOLEAN, connection_state : CStates,
            initial_sequence_num : SeqNums, sequence_num : SeqNums, ack_num : SeqNums,
            fin_sent : BOOLEAN, fin_received : BOOLEAN, fin_acked : BOOLEAN,
            recv_buffer_used : Nat, next_seq_expected : SeqNums,
            peer_window_size : Int,
            last_ack_received : SeqNums, last_byte_sent : SeqNums]

\* pos and len say which bytes of the sender's stream the payload is; a packet
\* without payload carries the position its sender has reached.
Packet == [flags : SUBSET {"SYN", "ACK", "FIN"}, seq : SeqNums, ack : SeqNums,
           win : Int, pos : Nat, len : Nat]

Buffer == [pos : Nat, len : Nat]

\* The zero-length buffer that the receive thread queues when the TCP
\* connection ends or fails.
Hangup == [flags |-> {}, seq |-> 0, ack |-> 0, win |-> 0, pos |-> 0, len |-> 0]

MIN(a, b) == IF a < b THEN a ELSE b

\* Arithmetic on tcp_seq, an unsigned type of fixed width.
Wrap(n) == n % SeqMod

-----------------------------------------------------------------------------
(* The transport context and the packets it sends.                         *)

NewContext(isn) ==
    [done |-> FALSE, connection_state |-> "CLOSED",
     initial_sequence_num |-> isn, sequence_num |-> isn, ack_num |-> 0,
     fin_sent |-> FALSE, fin_received |-> FALSE, fin_acked |-> FALSE,
     recv_buffer_used |-> 0, next_seq_expected |-> 0,
     peer_window_size |-> RECEIVER_WINDOW_SIZE,
     last_ack_received |-> isn, last_byte_sent |-> isn]

\* The packet send_packet() builds from a context.
MakePacket(c, flags, pos, len) ==
    [flags |-> flags, seq |-> c.sequence_num, ack |-> c.ack_num,
     win |-> RECEIVER_WINDOW_SIZE - c.recv_buffer_used,
     pos |-> pos, len |-> len]

\* An end whose TCP socket is gone: what is sent to it is lost.
Gone(e) == app[e] \in {"closed", "killed"}

\* stcp_network_send(): packets go to the peer's end of the TCP connection.
Send(e, packets) ==
    inbound' = [inbound EXCEPT ![Peer(e)] =
                   IF Gone(Peer(e)) THEN @ ELSE @ \o packets]

\* stcp_network_recv() and one send: the head of e's packets is taken and
\* packets go to the peer.
TakeAndSend(e, packets) ==
    /\ arrived' = [arrived EXCEPT ![e] = @ - 1]
    /\ inbound' = [inbound EXCEPT
                      ![e] = Tail(@),
                      ![Peer(e)] = IF Gone(Peer(e)) THEN @ ELSE @ \o packets]

-----------------------------------------------------------------------------
Init ==
    /\ ctx = [e \in Ends |-> NewContext(0)]
    /\ thread = [e \in Ends |-> "none"]
    /\ event = [e \in Ends |-> {}]
    /\ inbound = [e \in Ends |-> <<>>]
    /\ arrived = [e \in Ends |-> 0]
    /\ app_recv_queue = [e \in Ends |-> <<>>]
    /\ app_send_queue = [e \in Ends |-> <<>>]
    /\ close_requested = [e \in Ends |-> FALSE]
    /\ result = [e \in Ends |-> "blocking"]
    /\ eof = [e \in Ends |-> FALSE]
    /\ \E server \in {"accepting", "killed"} :  \* killed: nobody listens there
          app = [e \in Ends |-> IF e = "active" THEN "idle" ELSE server]
    /\ written = [e \in Ends |-> 0]
    /\ sent = [e \in Ends |-> 0]
    /\ accepted = [e \in Ends |-> 0]
    /\ taken = [e \in Ends |-> 0]

-----------------------------------------------------------------------------
(* Connection setup: transport_init().                                     *)

\* myconnect() starts the receive and the transport thread and then waits.
MyConnect ==
    /\ app["active"] = "idle"
    /\ app' = [app EXCEPT !["active"] = "connecting"]
    /\ thread' = [thread EXCEPT !["active"] = "started"]
    /\ UNCHANGED <<ctx, event, netVars, queueVars, sockVars, countVars>>

\* The active transport thread opens the TCP connection and sends its SYN.
\* When nobody listens both threads fail to connect, which the receive thread
\* reports as an empty buffer.
InitActive ==
    /\ thread["active"] = "started"
    /\ \E isn \in InitialSeqNums :
          LET c == [NewContext(isn) EXCEPT !.connection_state = "SYN_SENT"]
          IN  /\ ctx' = [ctx EXCEPT !["active"] =
                             [c EXCEPT !.sequence_num = Wrap(isn + 1)]]
              /\ IF Gone("passive")
                    THEN inbound' = [inbound EXCEPT !["active"] = <<Hangup>>]
                    ELSE Send("active", <<MakePacket(c, {"SYN"}, 0, 0)>>)
    /\ thread' = [thread EXCEPT !["active"] = "handshake"]
    /\ UNCHANGED <<event, arrived, queueVars, sockVars, app, countVars>>

\* The listening socket's receive thread starts the threads of a new context
\* and then hands it the SYN.  The new receive thread is already running, so
\* it may queue the end of the TCP connection ahead of the SYN.
Dispatch ==
    /\ thread["passive"] = "none"
    /\ inbound["passive"] # <<>>
    /\ "SYN" \in Head(inbound["passive"]).flags
    /\ \/ /\ arrived' = [arrived EXCEPT !["passive"] = 1]
          /\ UNCHANGED inbound
       \/ /\ Len(inbound["passive"]) = 2
          /\ arrived' = [arrived EXCEPT !["passive"] = 2]
          /\ inbound' = [inbound EXCEPT !["passive"] = <<@[2], @[1]>>]
    /\ thread' = [thread EXCEPT !["passive"] = "started"]
    /\ UNCHANGED <<ctx, event, queueVars, sockVars, app, countVars>>

InitPassive ==
    /\ thread["passive"] = "started"
    /\ \E isn \in InitialSeqNums :
          ctx' = [ctx EXCEPT !["passive"] = NewContext(isn)]
    /\ thread' = [thread EXCEPT !["passive"] = "handshake"]
    /\ UNCHANGED <<event, netVars, queueVars, sockVars, app, countVars>>

\* transport_init() is waiting for the next packet of the handshake.
AwaitsPacket(e, state) ==
    /\ thread[e] = "handshake"
    /\ ctx[e].connection_state = state
    /\ arrived[e] > 0

\* Slip: the thread gives up without unblocking the application.
RefuseSilently(e) ==
    /\ thread' = [thread EXCEPT ![e] = "exited"]
    /\ TakeAndSend(e, <<>>)
    /\ UNCHANGED <<ctx, event, queueVars, sockVars, app, countVars>>

\* A short or unexpected packet ends the handshake: the application is
\* unblocked with ECONNREFUSED and the thread leaves its end-of-file mark.
Refuse(e) ==
    /\ thread' = [thread EXCEPT ![e] = "exited"]
    /\ result' = [result EXCEPT ![e] = "refused"]
    /\ app_send_queue' = [app_send_queue EXCEPT
                             ![e] = Append(@, [pos |-> accepted[e], len |-> 0])]
    /\ TakeAndSend(e, <<>>)
    /\ UNCHANGED <<ctx, event, app_recv_queue, close_requested, eof, app, countVars>>

\* The connection is established with context c: unblock the application and
\* enter control_loop().  The application is told errno, which a send that
\* failed because the peer is gone has set.
Establish(e, c, packets) ==
    /\ ctx' = [ctx EXCEPT ![e] = [c EXCEPT !.connection_state = "ESTABLISHED"]]
    /\ thread' = [thread EXCEPT ![e] = "loop"]
    /\ \E r \in {"connected", "refused"} :
          /\ r = "refused" => Gone(Peer(e)) /\ packets # <<>>
          /\ result' = [result EXCEPT ![e] = r]
    /\ TakeAndSend(e, packets)
    /\ UNCHANGED <<event, queueVars, close_requested, eof, app, countVars>>

SynAckExpected(c, p) == {"SYN", "ACK"} \subseteq p.flags /\ p.ack = c.sequence_num

HandshakeSynSent ==
    /\ AwaitsPacket("active", "SYN_SENT")
    /\ LET p == Head(inbound["active"])
           c == [ctx["active"] EXCEPT !.ack_num = Wrap(p.seq + 1),
                                      !.next_seq_expected = Wrap(p.seq + 1),
                                      !.peer_window_size = p.win]
       IN  IF SynAckExpected(ctx["active"], p)
             THEN Establish("active", c, <<MakePacket(c, {"ACK"}, 0, 0)>>)
             ELSE Refuse("active")

HandshakeListen ==
    /\ AwaitsPacket("passive", "CLOSED")
    /\ LET p == Head(inbound["passive"])
           c == [ctx["passive"] EXCEPT !.ack_num = Wrap(p.seq + 1),
                                       !.next_seq_expected = Wrap(p.seq + 1),
                                       !.peer_window_size = p.win,
                                       !.connection_state = "SYN_RCVD"]
       IN  IF "SYN" \in p.flags
             THEN /\ ctx' = [ctx EXCEPT !["passive"] =
                                [c EXCEPT !.sequence_num = Wrap(@ + 1)]]
                  /\ TakeAndSend("passive",
                                 <<MakePacket(c, {"SYN", "ACK"}, 0, 0)>>)
                  /\ UNCHANGED <<thread, event, queueVars, sockVars, app, countVars>>
             ELSE Refuse("passive")

AckExpected(c, p) == "ACK" \in p.flags /\ p.ack = c.sequence_num

HandshakeSynRcvd ==
    /\ AwaitsPacket("passive", "SYN_RCVD")
    /\ LET p == Head(inbound["passive"])
       IN  IF AckExpected(ctx["passive"], p)
             THEN Establish("passive",
                            [ctx["passive"] EXCEPT !.peer_window_size = p.win], <<>>)
             ELSE Refuse("passive")

-----------------------------------------------------------------------------
(* Data transfer and termination: control_loop().                          *)

\* Slip: a close request is reported before the data written ahead of it.
ReadyEventsEarlyClose(e) ==
    {v \in Events :
       \/ v = "APP_DATA" /\ app_recv_queue[e] # <<>>
       \/ v = "NETWORK_DATA" /\ arrived[e] > 0
       \/ v = "APP_CLOSE_REQUESTED" /\ close_requested[e]}

\* What stcp_wait_for_event(ANY_EVENT) reports.
ReadyEvents(e) ==
    {v \in Events :
       \/ v = "APP_DATA" /\ app_recv_queue[e] # <<>>
       \/ v = "NETWORK_DATA" /\ arrived[e] > 0
       \/ v = "APP_CLOSE_REQUESTED" /\ close_requested[e] /\ app_recv_queue[e] = <<>>}

\* A close request is reported once, after all data of the application.
WaitForEvent(e) ==
    /\ thread[e] = "loop"
    /\ event[e] = {}
    /\ ~ctx[e].done
    /\ ReadyEvents(e) # {}
    /\ event' = [event EXCEPT ![e] = ReadyEvents(e)]
    /\ close_requested' = [close_requested EXCEPT
                              ![e] = @ /\ "APP_CLOSE_REQUESTED" \notin ReadyEvents(e)]
    /\ UNCHANGED <<ctx, thread, netVars, queueVars, result, eof, app, countVars>>

\* The most that control_loop() takes from the application at once.
MaxToSend(c) ==
    MIN(Wrap(c.peer_window_size - (c.last_byte_sent - c.last_ack_received)), STCP_MSS)

\* Slip: the rest of a partly read buffer is dropped with it.
DequeueWhole(q, n) == Tail(q)

\* Slip: the node is kept and its length reduced by what was asked for.
DequeueInPlace(q, n) == [q EXCEPT ![1] = [pos |-> @.pos + n, len |-> @.len - n]]

\* _mysock_dequeue_buffer() with remove_partial: n bytes leave the head of q.
DequeuePartial(q, n) ==
    IF n < q[1].len
      THEN [q EXCEPT ![1] = [pos |-> @.pos + n, len |-> @.len - n]]
      ELSE Tail(q)

HandleAppData(e) ==
    /\ thread[e] = "loop"
    /\ "APP_DATA" \in event[e]
    /\ event' = [event EXCEPT ![e] = @ \ {"APP_DATA"}]
    /\ LET c == ctx[e]
           n == MIN(app_recv_queue[e][1].len, MaxToSend(c))
       IN  IF MaxToSend(c) > 0
             THEN /\ app_recv_queue' = [app_recv_queue EXCEPT
                                           ![e] = DequeuePartial(@, n)]
                  /\ Send(e, <<MakePacket(c, {"ACK"}, app_recv_queue[e][1].pos, n)>>)
                  /\ ctx' = [ctx EXCEPT ![e].sequence_num = Wrap(@ + n)]
                  /\ sent' = [sent EXCEPT ![e] = @ + n]
             ELSE UNCHANGED <<app_recv_queue, inbound, ctx, sent>>
    /\ UNCHANGED <<thread, arrived, app_send_queue, sockVars, app,
                   written, accepted, taken>>

\* This iteration of control_loop() has come to its network data.
TakesPacket(e) ==
    /\ thread[e] = "loop"
    /\ "NETWORK_DATA" \in event[e]
    /\ "APP_DATA" \notin event[e]

\* An empty buffer: the connection is over if it was established, and the rest
\* of the iteration is skipped.
HandleHangup(e) ==
    /\ TakesPacket(e)
    /\ Head(inbound[e]) = Hangup
    /\ ctx' = [ctx EXCEPT ![e] =
                  IF @.connection_state = "ESTABLISHED"
                    THEN [@ EXCEPT !.connection_state = "CLOSED", !.done = TRUE]
                    ELSE @]
    /\ event' = [event EXCEPT ![e] = {}]
    /\ TakeAndSend(e, <<>>)
    /\ UNCHANGED <<thread, queueVars, sockVars, app, countVars>>

\* Slip: a FIN ends the connection in every state.
OnFinAlwaysDone(c, p) ==
    IF "FIN" \notin p.flags THEN c
    ELSE [c EXCEPT !.fin_received = TRUE, !.ack_num = Wrap(p.seq + 1), !.done = TRUE]

\* The context after the FIN flag of packet p.
OnFin(c, p) ==
    IF "FIN" \notin p.flags THEN c
    ELSE [c EXCEPT !.fin_received = TRUE,
                   !.ack_num = Wrap(p.seq + 1),
                   !.done = @ \/ c.connection_state = "FIN_WAIT_2",
                   !.connection_state = CASE @ = "ESTABLISHED" -> "CLOSE_WAIT"
                                          [] @ = "FIN_WAIT_1"  -> "CLOSING"
                                          [] OTHER             -> @]

\* Slip: any ACK is taken for the ACK of the FIN.
OnAckUnchecked(c, p) ==
    IF "ACK" \in p.flags /\ c.connection_state \in {"FIN_WAIT_1", "CLOSING", "LAST_ACK"}
      THEN [c EXCEPT !.fin_acked = TRUE,
                     !.done = @ \/ c.connection_state # "FIN_WAIT_1",
                     !.connection_state = IF @ = "FIN_WAIT_1" THEN "FIN_WAIT_2" ELSE "CLOSED"]
      ELSE c

\* Slip: the connection is over once our own FIN is acknowledged.
OnAckNoHalfClose(c, p) ==
    IF AckExpected(c, p) /\ c.connection_state \in {"FIN_WAIT_1", "CLOSING", "LAST_ACK"}
      THEN [c EXCEPT !.fin_acked = TRUE, !.done = TRUE]
      ELSE c

\* Slip: the simultaneous close is forgotten.
OnAckNoClosing(c, p) ==
    IF AckExpected(c, p) /\ c.connection_state \in {"FIN_WAIT_1", "LAST_ACK"}
      THEN [c EXCEPT !.fin_acked = TRUE,
                     !.done = @ \/ c.connection_state = "LAST_ACK",
                     !.connection_state = IF @ = "FIN_WAIT_1" THEN "FIN_WAIT_2" ELSE "CLOSED"]
      ELSE c

\* The context after the ACK flag of packet p: an ACK of everything sent is an
\* ACK of the FIN in the states that have sent one.
OnAck(c, p) ==
    IF AckExpected(c, p) /\ c.connection_state \in {"FIN_WAIT_1", "CLOSING", "LAST_ACK"}
      THEN [c EXCEPT !.fin_acked = TRUE,
                     !.done = @ \/ c.connection_state # "FIN_WAIT_1",
                     !.connection_state = CASE @ = "FIN_WAIT_1" -> "FIN_WAIT_2"
                                            [] @ = "CLOSING"    -> "CLOSING"
                                            [] @ = "LAST_ACK"   -> "CLOSED"]
      ELSE c

InOrder(c, p) == p.len > 0 /\ p.seq = c.ack_num

PassedUp(c, p) == InOrder(c, p) /\ p.seq = c.next_seq_expected

\* Slip: next_seq_expected is not advanced.
OnDataStuck(c, p) ==
    IF ~InOrder(c, p) THEN c
    ELSE [c EXCEPT !.ack_num = Wrap(@ + p.len),
                   !.recv_buffer_used = IF PassedUp(c, p) THEN @ ELSE @ + p.len]

\* The context after the payload of packet p.
OnData(c, p) ==
    IF ~InOrder(c, p) THEN c
    ELSE [c EXCEPT !.ack_num = Wrap(@ + p.len),
                   !.recv_buffer_used = IF PassedUp(c, p) THEN @ ELSE @ + p.len,
                   !.next_seq_expected = IF PassedUp(c, p) THEN Wrap(p.seq + p.len)
                                         ELSE @]

\* A packet: FIN, ACK and payload in turn.  A FIN and a payload are each
\* acknowledged at once.
HandleSegment(e) ==
    /\ TakesPacket(e)
    /\ Head(inbound[e]) # Hangup
    /\ LET p  == Head(inbound[e])
           c1 == OnFin([ctx[e] EXCEPT !.peer_window_size = p.win], p)
           c2 == OnAck(c1, p)
           c3 == OnData(c2, p)
           finAck  == IF "FIN" \in p.flags
                        THEN <<MakePacket(c1, {"ACK"}, sent[e], 0)>> ELSE <<>>
           dataAck == IF p.len > 0
                        THEN <<MakePacket(c3, {"ACK"}, sent[e], 0)>> ELSE <<>>
           finMark == IF "FIN" \in p.flags
                        THEN <<[pos |-> accepted[e], len |-> 0]>> ELSE <<>>
           payload == IF PassedUp(c2, p)
                        THEN <<[pos |-> p.pos, len |-> p.len]>> ELSE <<>>
       IN  /\ ctx' = [ctx EXCEPT ![e] = c3]
           /\ TakeAndSend(e, finAck \o dataAck)
           /\ app_send_queue' = [app_send_queue EXCEPT ![e] = @ \o finMark \o payload]
           /\ accepted' = [accepted EXCEPT
                              ![e] = IF PassedUp(c2, p) THEN @ + p.len ELSE @]
    /\ event' = [event EXCEPT ![e] = @ \ {"NETWORK_DATA"}]
    /\ UNCHANGED <<thread, app_recv_queue, sockVars, app, written, sent, taken>>

HandleClose(e) ==
    /\ thread[e] = "loop"
    /\ event[e] = {"APP_CLOSE_REQUESTED"}
    /\ event' = [event EXCEPT ![e] = {}]
    /\ IF ~ctx[e].fin_sent
         THEN /\ Send(e, <<MakePacket(ctx[e], {"FIN", "ACK"}, sent[e], 0)>>)
              /\ ctx' = [ctx EXCEPT ![e].fin_sent = TRUE,
                            ![e].sequence_num = Wrap(@ + 1),
                            ![e].connection_state =
                               CASE @ = "ESTABLISHED" -> "FIN_WAIT_1"
                                 [] @ = "CLOSE_WAIT"  -> "LAST_ACK"
                                 [] OTHER             -> @]
         ELSE UNCHANGED <<ctx, inbound>>
    /\ UNCHANGED <<thread, arrived, queueVars, sockVars, app, countVars>>

\* control_loop() is over: transport_thread_func() leaves a last end-of-file mark.
ThreadExit(e) ==
    /\ thread[e] = "loop"
    /\ event[e] = {}
    /\ ctx[e].done
    /\ thread' = [thread EXCEPT ![e] = "exited"]
    /\ app_send_queue' = [app_send_queue EXCEPT
                             ![e] = Append(@, [pos |-> accepted[e], len |-> 0])]
    /\ UNCHANGED <<ctx, event, netVars, app_recv_queue, sockVars, app, countVars>>

-----------------------------------------------------------------------------
(* The network receive thread and the loss of an end.                      *)

\* network_recv_thread_func() queues the next packet for the transport thread.
ReceiveThread(e) ==
    /\ thread[e] # "none"
    /\ arrived[e] < Len(inbound[e])
    /\ arrived' = [arrived EXCEPT ![e] = @ + 1]
    /\ UNCHANGED <<connVars, inbound, queueVars, sockVars, app, countVars>>

\* The end of e's TCP connection, after the first n packets to its peer.
Disconnect(e, n) ==
    /\ inbound' = [inbound EXCEPT
                      ![e] = <<>>,
                      ![Peer(e)] = IF Gone(Peer(e)) THEN <<>>
                                   ELSE Append(SubSeq(@, 1, n), Hangup)]
    /\ arrived' = [arrived EXCEPT ![e] = 0]

\* The process of e dies.  The packets its peer has not read yet may be lost.
Kill(e) ==
    /\ e \in Mortal
    /\ ~Gone(e)
    /\ thread["active"] \notin {"none", "started"}
    /\ \E n \in arrived[Peer(e)] .. Len(inbound[Peer(e)]) : Disconnect(e, n)
    /\ app' = [app EXCEPT ![e] = "killed"]
    /\ thread' = [thread EXCEPT ![e] = "exited"]
    /\ event' = [event EXCEPT ![e] = {}]
    /\ app_recv_queue' = [app_recv_queue EXCEPT ![e] = <<>>]
    /\ app_send_queue' = [app_send_queue EXCEPT ![e] = <<>>]
    /\ close_requested' = [close_requested EXCEPT ![e] = FALSE]
    /\ UNCHANGED <<ctx, result, eof, countVars>>

-----------------------------------------------------------------------------
(* The application: the calls of mysock_api.c, one after the other.        *)

\* myconnect() or myaccept() returns once the transport layer has unblocked it.
OpenReturns(e) ==
    /\ app[e] \in {"connecting", "accepting"}
    /\ result[e] # "blocking"
    /\ app' = [app EXCEPT ![e] = IF result[e] = "connected" THEN "open" ELSE "failed"]
    /\ UNCHANGED <<connVars, netVars, queueVars, sockVars, countVars>>

MyWrite(e) ==
    /\ app[e] = "open"
    /\ \E n \in WriteSizes :
          /\ written[e] + n <= MaxBytes
          /\ app_recv_queue' = [app_recv_queue EXCEPT
                                   ![e] = Append(@, [pos |-> written[e], len |-> n])]
          /\ written' = [written EXCEPT ![e] = @ + n]
    /\ UNCHANGED <<connVars, netVars, app_send_queue, sockVars, app,
                   sent, accepted, taken>>

\* myread() returns bytes of the first buffer, or end-of-file for good.
MyRead(e) ==
    /\ app[e] = "open"
    /\ ~eof[e]
    /\ app_send_queue[e] # <<>>
    /\ \E n \in ReadSizes :
          LET len == app_send_queue[e][1].len
          IN  /\ app_send_queue' = [app_send_queue EXCEPT ![e] = DequeuePartial(@, n)]
              /\ taken' = [taken EXCEPT ![e] = @ + MIN(n, len)]
              /\ eof' = [eof EXCEPT ![e] = len = 0]
    /\ UNCHANGED <<connVars, netVars, app_recv_queue, close_requested, result, app,
                   written, sent, accepted>>

\* A myaccept() that failed returned no descriptor that could be closed.
MyClose(e) ==
    /\ app[e] = "open" \/ (app[e] = "failed" /\ e = "active")
    /\ close_requested' = [close_requested EXCEPT ![e] = TRUE]
    /\ app' = [app EXCEPT ![e] = "closing"]
    /\ UNCHANGED <<connVars, netVars, queueVars, result, eof, countVars>>

\* myclose() has joined the transport thread: it frees the context with its
\* queues and closes the TCP socket.
MyCloseReturns(e) ==
    /\ app[e] = "closing"
    /\ thread[e] = "exited"
    /\ app' = [app EXCEPT ![e] = "closed"]
    /\ Disconnect(e, Len(inbound[Peer(e)]))
    /\ app_recv_queue' = [app_recv_queue EXCEPT ![e] = <<>>]
    /\ app_send_queue' = [app_send_queue EXCEPT ![e] = <<>>]
    /\ UNCHANGED <<connVars, sockVars, countVars>>

-----------------------------------------------------------------------------
Handshake == InitActive \/ Dispatch \/ InitPassive \/ HandshakeSynSent
             \/ HandshakeListen \/ HandshakeSynRcvd

ControlLoop(e) == WaitForEvent(e) \/ HandleAppData(e) \/ HandleHangup(e)
                  \/ HandleSegment(e) \/ HandleClose(e) \/ ThreadExit(e)

Application(e) == MyWrite(e) \/ MyRead(e) \/ MyClose(e)

Next ==
    \/ MyConnect
    \/ Handshake
    \/ \E e \in Ends : \/ ControlLoop(e)
                       \/ ReceiveThread(e)
                       \/ OpenReturns(e)
                       \/ Application(e)
                       \/ MyCloseReturns(e)
                       \/ Kill(e)

Spec == Init /\ [][Next]_vars

\* The threads of a running process are scheduled; what the applications do
\* next is their own affair.
Fairness ==
    /\ WF_vars(Handshake)
    /\ \A e \in Ends : /\ WF_vars(ControlLoop(e))
                       /\ WF_vars(ReceiveThread(e))
                       /\ WF_vars(OpenReturns(e))
                       /\ WF_vars(MyCloseReturns(e))

FairSpec == Spec /\ Fairness

-----------------------------------------------------------------------------
\* Every variable keeps its type, and the receive thread is never ahead of the
\* network.
TypeOK ==
    /\ ctx \in [Ends -> Context]
    /\ thread \in [Ends -> {"none", "started", "handshake", "loop", "exited"}]
    /\ event \in [Ends -> SUBSET Events]
    /\ inbound \in [Ends -> Seq(Packet)]
    /\ arrived \in [Ends -> Nat]
    /\ \A e \in Ends : arrived[e] <= Len(inbound[e])
    /\ app_recv_queue \in [Ends -> Seq(Buffer)]
    /\ app_send_queue \in [Ends -> Seq(Buffer)]
    /\ close_requested \in [Ends -> BOOLEAN]
    /\ result \in [Ends -> {"blocking", "connected", "refused"}]
    /\ eof \in [Ends -> BOOLEAN]
    /\ app \in [Ends -> {"idle", "connecting", "accepting", "open", "failed",
                        "closing", "closed", "killed"}]
    /\ written \in [Ends -> 0 .. MaxBytes]
    /\ sent \in [Ends -> Nat]
    /\ accepted \in [Ends -> Nat]
    /\ taken \in [Ends -> Nat]

\* The buffers of q cover the stream from position lo to hi, without a gap and
\* without an overlap.
Covers(q, lo, hi) ==
    IF q = <<>> THEN lo = hi
    ELSE /\ q[1].pos = lo
         /\ q[Len(q)].pos + q[Len(q)].len = hi
         /\ \A i \in 1 .. Len(q) - 1 : q[i].pos + q[i].len = q[i + 1].pos

\* What waits for myread() continues what was read, in the order the peer wrote
\* it: no byte is lost, repeated or reordered by partial reads, by the split of
\* buffers into packets or by the interleaving of the threads of both ends.
DeliveredInOrder ==
    \A e \in Ends :
       /\ Gone(e) \/ Covers(app_send_queue[e], taken[e], accepted[e])
       /\ taken[e] <= accepted[e]
       /\ accepted[e] <= sent[Peer(e)]
       /\ sent[e] <= written[e]

\* An end-of-file that myread() reports after a FIN comes after every byte that
\* the peer has written, and the peer has called myclose().
CleanEof ==
    \A e \in Ends :
       eof[e] /\ ctx[e].fin_received =>
          /\ taken[e] = written[Peer(e)]
          /\ app[Peer(e)] \in {"closing", "closed", "killed"}

\* control_loop() takes any packet that acknowledges sequence_num for the ACK of
\* its FIN: such an ACK is never an older one, and the peer's transport layer
\* has by then passed up all that was written.
FinAckSound ==
    \A e \in Ends :
       ctx[e].fin_acked => /\ ctx[Peer(e)].fin_received
                           /\ accepted[Peer(e)] = written[e]

\* Data reaches control_loop() in sequence: the branches for out-of-order data
\* and for data that would stay in the receive buffer are never taken.
NeverOutOfOrder ==
    \A e \in Ends :
       thread[e] = "loop" /\ arrived[e] > 0 /\ Head(inbound[e]).len > 0
          => PassedUp(ctx[e], Head(inbound[e]))

\* control_loop() ends only when both FINs were exchanged and ours acknowledged,
\* or because the peer's process died.
GracefulDone ==
    \A e \in Ends :
       ctx[e].done => \/ ctx[e].fin_sent /\ ctx[e].fin_received /\ ctx[e].fin_acked
                      \/ app[Peer(e)] = "killed"

\* When myclose() closes the TCP socket of a connection nothing is left unread on
\* it: closing a socket with unread data resets the connection, and the peer
\* could lose the ACK it is still waiting for.
QuiescentClose ==
    \A e \in Ends :
       app[e] = "closing" /\ thread[e] = "exited"
          => \A i \in 1 .. Len(inbound[e]) : inbound[e][i] = Hangup

Crashed == \E e \in Ends : app[e] = "killed"

\* If the peer has closed as well, or the connection was refused, myclose()
\* returns (in the absence of crashes).
CloseCompletes ==
    \A e \in Ends :
       (/\ app[e] = "closing"
        /\ app[Peer(e)] \in {"closing", "closed"} \/ result[e] = "refused")
          ~> app[e] = "closed" \/ Crashed

\* What is written reaches the peer's transport layer, even if the writer closes
\* right after mywrite() (in the absence of crashes).
WritesArrive ==
    \A e \in Ends : \A n \in 1 .. MaxBytes :
       written[e] >= n ~> accepted[Peer(e)] >= n \/ Crashed

\* myconnect() returns, whatever happens to the process at the other end.
ConnectReturns == app["active"] = "connecting" ~> app["active"] # "connecting"

-----------------------------------------------------------------------------
(* What the documentation says and the code does not do.                   *)

\* "If no ACK for the FIN is ever received, it terminates its end of the
\* connection anyway": myclose() returns when the peer has died.
CloseWithoutPeer ==
    \A e \in Ends : app[e] = "closing" /\ app[Peer(e)] = "killed" ~> app[e] = "closed"
=============================================================================
