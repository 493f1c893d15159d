---------------------------- MODULE StcpInvariant ----------------------------
(***************************************************************************)
(* The inductive invariant of Stcp.  It follows the bytes of each          *)
(* direction from mywrite() to myread(): what is queued for the transport  *)
(* layer continues what was sent, the packets on their way continue what   *)
(* was accepted, and what waits for the application continues what was     *)
(* taken; and it ties the sequence and acknowledgement numbers of both     *)
(* ends and of every packet to these positions.                            *)
(***************************************************************************)
EXTENDS Stcp

Isn(e) == ctx[e].initial_sequence_num

Bit(b) == IF b THEN 1 ELSE 0

\* e has not left transport_init()'s handshake.
Opening(e) == thread[e] \in {"none", "started", "handshake"}

\* e has seen the SYN of its peer and runs.
Synced(e) ==
    \/ thread[e] = "loop"
    \/ thread[e] = "handshake" /\ ctx[e].connection_state = "SYN_RCVD"

\* The passive end runs, or will, and has not answered the SYN.
Unanswered ==
    \/ thread["passive"] \in {"none", "started"}
    \/ thread["passive"] = "handshake" /\ ctx["passive"].connection_state = "CLOSED"

\* An iteration of control_loop() handles only what is still there.
EventInv(e) ==
    /\ app[e] = "idle" => e = "active" /\ thread[e] = "none"
    /\ Gone(e) => thread[e] \in {"none", "exited"}
    /\ event[e] # {} => thread[e] = "loop"
    /\ "APP_DATA" \in event[e] => app_recv_queue[e] # <<>>
    /\ "NETWORK_DATA" \in event[e] => arrived[e] > 0
    /\ "APP_CLOSE_REQUESTED" \in event[e] =>
          app[e] = "closing" /\ app_recv_queue[e] = <<>>
    /\ close_requested[e] => app[e] \in {"closing", "closed"}

\* The handshake: who has seen what of the other end.
OpenInv ==
    /\ \A e \in Ends : Opening(e) =>
          /\ sent[e] = 0 /\ accepted[e] = 0
          /\ ~ctx[e].fin_sent /\ ~ctx[e].fin_received /\ ~ctx[e].fin_acked
    /\ thread["active"] \in {"none", "started"} =>
          /\ thread["passive"] = "none" /\ ~Gone("active")
          /\ inbound["active"] = <<>> /\ inbound["passive"] = <<>>
    /\ thread["active"] = "handshake" => ctx["active"].connection_state = "SYN_SENT"
    /\ Opening("active") =>
          /\ thread["passive"] # "loop"
          /\ sent["passive"] = 0 /\ ~ctx["passive"].fin_sent
          /\ \A i \in 1 .. Len(inbound["passive"]) :
                "ACK" \notin inbound["passive"][i].flags
    /\ Unanswered =>
          /\ thread["active"] # "loop"
          /\ sent["active"] = 0 /\ ~ctx["active"].fin_sent
          /\ \A i \in 1 .. Len(inbound["active"]) : inbound["active"][i] = Hangup
          /\ \A i \in 1 .. Len(inbound["passive"]) :
                "ACK" \notin inbound["passive"][i].flags
    /\ thread["passive"] = "handshake" /\ ctx["passive"].connection_state = "SYN_RCVD" =>
          /\ thread["active"] = "loop" => inbound["passive"] # <<>>
          /\ inbound["passive"] # <<>> => inbound["passive"][1].len = 0

\* How far e has acknowledged the stream of its peer and its FIN.
Acked(e) == accepted[e] + Bit(ctx[e].fin_received)

\* The numbers of an end count its stream, its SYN and its FIN, and those of
\* its peer as far as it has got.
NumberInv(e) ==
    LET c == ctx[e]
    IN  /\ thread[e] = "handshake" /\ c.connection_state = "CLOSED" =>
              c.sequence_num = Isn(e)
        /\ \/ thread[e] = "loop"
           \/ thread[e] = "handshake" /\ c.connection_state # "CLOSED"
           => c.sequence_num = Wrap(Isn(e) + 1 + sent[e] + Bit(c.fin_sent))
        /\ Synced(e) =>
              /\ c.ack_num = Wrap(Isn(Peer(e)) + 1 + Acked(e))
              /\ c.next_seq_expected = Wrap(Isn(Peer(e)) + 1 + accepted[e])

\* What the application wrote and the transport layer has not sent.
WriteInv(e) ==
    LET q == app_recv_queue[e]
    IN  /\ Gone(e) \/ Covers(q, sent[e], written[e])
        /\ \A i \in 1 .. Len(q) : q[i].pos + q[i].len <= written[e]
        /\ sent[e] <= written[e]
        /\ ctx[e].fin_sent => /\ sent[e] = written[e]
                              /\ q = <<>>
                              /\ app[e] \in {"closing", "closed", "killed"}

\* What the transport layer passed up and the application has not read.  After
\* an end-of-file mark nothing more is passed up.
ReadInv(e) ==
    LET q == app_send_queue[e]
    IN  /\ Gone(e) \/ Covers(q, taken[e], accepted[e])
        /\ taken[e] <= accepted[e]
        /\ \A i \in 1 .. Len(q) :
              /\ q[i].pos + q[i].len <= accepted[e]
              /\ q[i].len = 0 =>
                    /\ q[i].pos = accepted[e]
                    /\ ctx[e].fin_received \/ thread[e] = "exited"
        /\ eof[e] => /\ taken[e] = accepted[e]
                     /\ ctx[e].fin_received \/ thread[e] = "exited"

\* Where the packet at index i of q starts if the first one starts at a and each
\* continues the one before it.
Reached(q, a, i) == IF i = 1 THEN a ELSE q[i - 1].pos + q[i - 1].len

\* The packets q carry the stream of their sender from a to s, or part of it if
\* the connection is over.
Flow(q, a, s, over) ==
    /\ ~over => Reached(q, a, Len(q) + 1) = s
    /\ \A i \in 1 .. Len(q) :
          /\ q[i].pos + q[i].len <= s
          /\ q[i] # Hangup => q[i].pos = Reached(q, a, i)
          /\ q[i] = Hangup => over /\ (i < Len(q) => i = 1 /\ a = 0)

\* What the peer sent and the transport layer has not accepted.
FlowInv(e) ==
    /\ accepted[e] <= sent[Peer(e)]
    /\ IF Gone(e) THEN inbound[e] = <<>>
       ELSE Flow(inbound[e], accepted[e], sent[Peer(e)], Gone(Peer(e)))

\* The numbers in a packet between ends with the initial numbers to and from,
\* whose sender has acknowledged n.
PacketOK(p, to, from, n) ==
    /\ "SYN" \in p.flags => p.seq = from
    /\ p.len > 0 \/ "FIN" \in p.flags => p.seq = Wrap(from + 1 + p.pos)
    /\ "ACK" \in p.flags => \E k \in 0 .. n : p.ack = Wrap(to + 1 + k)

\* The numbers in the packets on their way to e.
PacketInv(e) ==
    \A i \in 1 .. Len(inbound[e]) :
       PacketOK(inbound[e][i], Isn(e), Isn(Peer(e)), Acked(Peer(e)))

\* A packet that carries neither data nor a FIN.
Quiet(p) == p.len = 0 /\ "FIN" \notin p.flags

\* A FIN among the packets q of a sender that has sent s bytes and, if fin, its
\* FIN: it is the last packet but for ACKs.
FinQueue(q, s, fin) ==
    \A i \in 1 .. Len(q) : "FIN" \in q[i].flags =>
       /\ fin
       /\ q[i].len = 0 /\ q[i].pos = s
       /\ \A j \in i + 1 .. Len(q) : Quiet(q[j])

\* The states in which an end has sent its FIN and waits for the ACK.
FinStates == {"FIN_WAIT_1", "CLOSING", "LAST_ACK"}

\* The FIN of an end is the last thing it sends but for ACKs.
FinInv(e) ==
    LET q == inbound[e]
    IN  /\ FinQueue(q, sent[Peer(e)], ctx[Peer(e)].fin_sent)
        /\ ctx[e].fin_received =>
              /\ ctx[Peer(e)].fin_sent
              /\ accepted[e] = sent[Peer(e)]
              /\ \A i \in 1 .. Len(q) : Quiet(q[i])
        /\ ctx[e].fin_acked => ctx[e].fin_sent /\ ctx[Peer(e)].fin_received
        /\ ctx[e].connection_state \in FinStates => ctx[e].fin_sent

EndInv(e) ==
    /\ EventInv(e) /\ NumberInv(e) /\ WriteInv(e) /\ ReadInv(e)
    /\ FlowInv(e) /\ PacketInv(e) /\ FinInv(e)

\* The inductive invariant.
Inv == TypeOK /\ OpenInv /\ \A e \in Ends : EndInv(e)
-----------------------------------------------------------------------------
(* The end of a connection: a second invariant, inductive relative to the  *)
(* first one.                                                              *)

\* The FINs of both ends were exchanged and that of this end acknowledged.
Finished(c) == c.fin_sent /\ c.fin_received /\ c.fin_acked

\* What the connection state says of the FINs, and why control_loop() may end.
StateInv(e) ==
    LET c == ctx[e]
    IN  /\ Opening(e) => ~c.done
        /\ thread[e] = "loop" => c.connection_state # "SYN_SENT"
        /\ c.connection_state = "ESTABLISHED" => ~c.fin_sent /\ ~c.fin_received /\ ~c.done
        /\ c.connection_state = "FIN_WAIT_2" => c.fin_acked
        /\ c.connection_state \in {"CLOSE_WAIT", "CLOSING", "LAST_ACK"} => c.fin_received
        /\ c.done => \/ Finished(c)
                     \/ app[Peer(e)] = "killed" /\ inbound[e] = <<>>

\* The packets q on their way to an end with context c, whose peer has received
\* its FIN if fin: the ACK of the FIN is the last packet that is only an ACK.
LastAck(q, c, fin) ==
    /\ c.fin_acked => \A i \in 1 .. Len(q) : Quiet(q[i]) => q[i] = Hangup
    /\ fin => \A j \in 1 .. Len(q) : Quiet(q[j]) /\ q[j] # Hangup =>
                 \A i \in 1 .. j - 1 : ~AckExpected(c, q[i])

\* Nothing follows the end of the TCP connection, except for the SYN that the
\* listening socket hands over late.
HangupLast(q, late) ==
    \A i \in 1 .. Len(q) - 1 : q[i] = Hangup => late

SynMayBeLate(e) == e = "passive" /\ thread[e] # "none" /\ Unanswered

\* What the application of e was told, and why its transport thread has ended.
ResultInv(e) ==
    /\ app[e] = "open" => result[e] = "connected"
    /\ app[e] = "closed" => thread[e] = "exited"
    /\ result[e] = "connected" => thread[e] \in {"loop", "exited"}
    /\ e = "passive" /\ result[e] # "connected" => app[e] \in {"accepting", "failed", "killed"}
    /\ thread[e] = "exited" =>
          \/ app[e] = "killed"
          \/ ctx[e].done
          \/ result[e] = "refused" /\ e = "passive" /\ ~ctx[e].fin_sent
          \/ /\ result[e] = "refused" /\ e = "active"
             /\ ctx[e].connection_state = "SYN_SENT" /\ inbound[e] = <<>> /\ Gone(Peer(e))

\* The answer to the SYN, and that nobody goes on without it.
AnswerInv ==
    /\ thread["active"] = "handshake" =>
          \A i \in 1 .. Len(inbound["active"]) :
             \/ inbound["active"][i] = Hangup
             \/ SynAckExpected(ctx["active"], inbound["active"][i])
    /\ ctx["active"].connection_state = "SYN_SENT" =>
          /\ thread["passive"] # "loop"
          /\ \A i \in 1 .. Len(inbound["passive"]) :
                "ACK" \notin inbound["passive"][i].flags

CloseEnd(e) ==
    /\ StateInv(e) /\ ResultInv(e)
    /\ LastAck(inbound[e], ctx[e], ctx[Peer(e)].fin_received)
    /\ HangupLast(inbound[e], SynMayBeLate(e))
    /\ \A i \in 1 .. Len(app_recv_queue[e]) : app_recv_queue[e][i].len > 0

CloseInv == AnswerInv /\ \A e \in Ends : CloseEnd(e)
=============================================================================
