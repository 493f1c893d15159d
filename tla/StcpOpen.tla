----------------------------- MODULE StcpOpen -------------------------------
(***************************************************************************)
(* Proofs about Stcp: the steps of transport_init() and of the listening   *)
(* socket preserve Inv and CloseInv.                                       *)
(***************************************************************************)
EXTENDS StcpLemmas

USE ZenonT(20)

-----------------------------------------------------------------------------
(* Inv: the start of a connection.                                         *)

\* myconnect() starts the active end.
LEMMA MyConnectStep == Inv /\ MyConnect => Inv'
<1> SUFFICES ASSUME Inv, MyConnect PROVE Inv'
  OBVIOUS
<1> USE DEF MyConnect, netVars, queueVars, sockVars, countVars
<1>1. TypeOK'
  <2>1. thread' \in [Ends -> {"none", "started", "handshake", "loop", "exited"}]
    BY PeerFacts DEF Inv, EndInv, TypeOK
  <2>2. app' \in [Ends -> {"idle", "connecting", "accepting", "open", "failed",
                          "closing", "closed", "killed"}]
    BY PeerFacts DEF Inv, EndInv, TypeOK
  <2> QED
    BY <2>1, <2>2 DEF Inv, EndInv, TypeOK
<1>2. /\ thread'["active"] = "started" /\ thread'["passive"] = thread["passive"]
      /\ app'["active"] = "connecting" /\ app'["passive"] = app["passive"]
      /\ thread["active"] = "none"
      /\ \A x \in Ends : Gone(x)' = Gone(x)
  BY PeerFacts, SMTT(30) DEF Inv, EndInv, TypeOK, EventInv, Ends, Gone
<1>3. OpenInv'
  BY <1>2, PeerFacts, SMTT(30) DEF Inv, EndInv, OpenInv, Opening, Unanswered
<1>4. ASSUME NEW x \in Ends
      PROVE  EndInv(x)'
  <2>1. EventInv(x)'
    BY <1>2 DEF Inv, EndInv, EventInv, TypeOK, Ends, Gone
  <2>2. NumberInv(x)'
    BY <1>2 DEF Inv, EndInv, NumberInv, Isn, Synced, Acked, Ends
  <2>3. WriteInv(x)'
    BY <1>2 DEF Inv, EndInv, WriteInv, Gone, Ends
  <2>4. ReadInv(x)' /\ FlowInv(x)' /\ PacketInv(x)' /\ FinInv(x)'
    <3>1. /\ ReadInv(x) /\ FlowInv(x) /\ PacketInv(x) /\ FinInv(x)
          /\ Isn(x)' = Isn(x) /\ Isn(Peer(x))' = Isn(Peer(x)) /\ Peer(x) \in Ends
          /\ thread[x] = "exited" => thread'[x] = "exited"
      BY <1>2, PeerFacts DEF Inv, EndInv, Isn, Ends
    <3>2. ReadInv(x)' /\ FlowInv(x)'
      BY <1>2, <3>1, KeepRead, KeepFlow
    <3>3. PacketInv(x)' /\ FinInv(x)'
      BY <1>2, <3>1, KeepPacket, KeepFin
    <3> QED
      BY <3>2, <3>3
  <2> QED
    BY <2>1, <2>2, <2>3, <2>4 DEF EndInv
<1> QED
  BY <1>1, <1>3, <1>4 DEF Inv

\* transport_init() of the active end sends the SYN, or nobody listens.
LEMMA InitActiveStep == Inv /\ InitActive => Inv'
<1> SUFFICES ASSUME Inv, InitActive PROVE Inv'
  OBVIOUS
<1>0. TypeOK /\ OpenInv
  BY DEF Inv, EndInv
<1>u. /\ UNCHANGED <<event, arrived, app_recv_queue, app_send_queue, close_requested,
                       result, eof, app, written, sent, accepted, taken>>
      /\ thread["active"] = "started"
      /\ thread' = [thread EXCEPT !["active"] = "handshake"]
  BY DEF InitActive, queueVars, sockVars, countVars
<1>1. PICK isn \in InitialSeqNums :
         LET c == [NewContext(isn) EXCEPT !.connection_state = "SYN_SENT"]
         IN  /\ ctx' = [ctx EXCEPT !["active"] = [c EXCEPT !.sequence_num = Wrap(isn + 1)]]
             /\ IF Gone("passive")
                   THEN inbound' = [inbound EXCEPT !["active"] = <<Hangup>>]
                   ELSE Send("active", <<MakePacket(c, {"SYN"}, 0, 0)>>)
  BY DEF InitActive
<1> DEFINE c == [NewContext(isn) EXCEPT !.connection_state = "SYN_SENT"]
           d == [c EXCEPT !.sequence_num = Wrap(isn + 1)]
           p == MakePacket(c, {"SYN"}, 0, 0)
<1>2. isn \in SeqNums /\ c \in Context /\ d \in Context
  <2>1. isn \in SeqNums /\ NewContext(isn) \in Context
    BY ConstantFacts, NewContextType
  <2>2. c \in Context
    BY <2>1 DEF Context, CStates
  <2>3. Wrap(isn + 1) \in SeqNums
    BY <2>1, WrapType, SMTT(30) DEF SeqNums
  <2> HIDE DEF c
  <2> QED
    BY <2>1, <2>2, <2>3 DEF Context
<1>3. p \in Packet
  BY <1>2, MakePacketType
<1>4. /\ inbound["active"] = <<>> /\ inbound["passive"] = <<>> /\ thread["passive"] = "none"
      /\ \A x \in Ends : sent[x] = 0 /\ accepted[x] = 0
      /\ ~Gone("active")
  BY <1>0, <1>u DEF OpenInv, Opening, Ends
<1>5. /\ Gone("passive") => inbound'["active"] = <<Hangup>> /\ inbound'["passive"] = <<>>
      /\ ~Gone("passive") => inbound'["active"] = <<>> /\ inbound'["passive"] = <<p>>
      /\ inbound' \in [Ends -> Seq(Packet)]
      /\ \A x \in Ends : Len(inbound[x]) <= Len(inbound'[x])
  <2>1. CASE Gone("passive")
    <3>1. inbound' = [inbound EXCEPT !["active"] = <<Hangup>>]
      BY <1>1, <2>1
    <3>2. <<Hangup>> \in Seq(Packet) /\ Len(<<Hangup>>) = 1
      BY HangupType, SingletonFacts
    <3>3. inbound' \in [Ends -> Seq(Packet)]
      BY <1>0, <3>1, <3>2, PeerFacts DEF TypeOK
    <3> QED
      BY <1>0, <1>4, <2>1, <3>1, <3>2, <3>3, PeerFacts, SMTT(30) DEF TypeOK,
         Ends
  <2>2. CASE ~Gone("passive")
    <3> DEFINE ps == <<p>>
    <3>1. Send("active", ps) /\ ps \in Seq(Packet) /\ <<>> \o ps = ps
      BY <1>1, <1>3, <2>2, SingletonFacts, SMTT(30)
    <3> HIDE DEF ps
    <3>2. /\ inbound' \in [Ends -> Seq(Packet)]
          /\ inbound'["active"] = inbound["active"]
          /\ ~Gone(Peer("active")) =>
                inbound'[Peer("active")] = inbound[Peer("active")] \o ps
          /\ \A x \in Ends : Len(inbound[x]) <= Len(inbound'[x])
      BY <1>0, <3>1, SendFacts, PeerFacts
    <3> QED
      BY <1>4, <2>2, <3>1, <3>2, PeerFacts DEF ps
  <2> QED
    BY <2>1, <2>2
<1>6. ctx'["active"] = d /\ ctx'["passive"] = ctx["passive"] /\ ctx' \in [Ends -> Context]
  BY <1>0, <1>1, <1>2, PeerFacts, SMTT(30) DEF TypeOK
<1>7. /\ d.initial_sequence_num = isn /\ d.sequence_num = Wrap(isn + 1)
      /\ d.connection_state = "SYN_SENT"
      /\ ~d.fin_sent /\ ~d.fin_received /\ ~d.fin_acked
      /\ p.flags = {"SYN"} /\ p.seq = isn /\ p.pos = 0 /\ p.len = 0 /\ p # Hangup
  BY DEF NewContext, MakePacket, Hangup
<1>8. thread'["active"] = "handshake" /\ thread'["passive"] = "none"
      /\ thread' \in [Ends -> {"none", "started", "handshake", "loop", "exited"}]
  BY <1>0, <1>u, <1>4, PeerFacts, SMTT(30) DEF TypeOK
<1> HIDE DEF c, d, p
<1>9. TypeOK'
  <2>1. ASSUME NEW x \in Ends PROVE arrived'[x] <= Len(inbound'[x])
    BY <1>u, <1>0, <1>5, SMTT(30) DEF TypeOK
  <2> QED
    BY <1>u, <1>0, <1>5, <1>6, <1>8, <2>1 DEF TypeOK
<1>10. OpenInv'
  BY <1>u, <1>0, <1>4, <1>5, <1>6, <1>7, <1>8, HangupFacts, SMTT(30) DEF
     OpenInv, Opening, Unanswered, Ends
<1>11. ASSUME NEW x \in Ends
       PROVE  EndInv(x)'
  <2>1. EventInv(x)'
    BY <1>u, <1>8, <1>4 DEF Inv, EndInv, EventInv, TypeOK, Ends, Gone
  <2>2. NumberInv(x)'
    BY <1>u, <1>2, <1>4, <1>6, <1>7, <1>8, SMTT(30) DEF Inv, EndInv, NumberInv,
       Isn, Synced, Acked, Ends, Bit, SeqNums
  <2>3. WriteInv(x)'
    BY <1>u, <1>6, <1>7 DEF Inv, EndInv, WriteInv, Gone, Ends
  <2>4. ReadInv(x)'
    BY <1>u, <1>6, <1>7, <1>8, <1>4 DEF Inv, EndInv, ReadInv, OpenInv, Opening, Gone, Ends
  <2>5. FlowInv(x)'
    <3>1. /\ FlowInv(x) /\ Peer(x) \in Ends /\ (x = "active" \/ x = "passive")
          /\ Gone(x)' = Gone(x) /\ Gone(Peer(x))' = Gone(Peer(x))
      BY <1>u, PeerFacts DEF Inv, EndInv, Ends, Gone
    <3>2. CASE inbound'[x] = inbound[x]
      BY <1>u, <3>1, <3>2 DEF FlowInv, Flow, Reached
    <3>3. CASE x = "active" /\ Gone("passive")
      BY <1>u, <1>4, <1>5, <3>1, <3>3, PeerFacts, HangupFacts, SMTT(30) DEF
         FlowInv, Flow, Reached
    <3>4. CASE x = "passive" /\ ~Gone("passive")
      <4>1. /\ inbound'[x] = <<p>> /\ p.pos = 0 /\ p.len = 0 /\ p # Hangup
            /\ sent'[Peer(x)] = 0 /\ accepted'[x] = 0 /\ ~Gone(x)'
        BY <1>u, <1>4, <1>5, <1>7, <3>1, <3>4
      <4> QED
        BY <4>1, SMTT(30) DEF FlowInv, Flow, Reached
    <3> QED
      BY <1>4, <1>5, <3>1, <3>2, <3>3, <3>4
  <2>6. PacketInv(x)'
    BY <1>u, <1>4, <1>5, <1>6, <1>7, PeerFacts, HangupFacts, SMTT(30) DEF Inv,
       EndInv, PacketInv, PacketOK, Acked, Isn, Ends
  <2>7. FinInv(x)'
    <3>1. \A i \in 1 .. Len(inbound'[x]) : "FIN" \notin inbound'[x][i].flags /\ inbound'[x][i].len = 0
      BY <1>4, <1>5, <1>7, HangupFacts, SMTT(30) DEF Ends
    <3>2. /\ FinInv(x) /\ ~ctx[x].fin_received /\ ~ctx[x].fin_acked
          /\ ~ctx'[x].fin_received /\ ~ctx'[x].fin_acked
      BY <1>0, <1>u, <1>4, <1>6, <1>7 DEF Inv, EndInv, OpenInv, Opening, Ends
    <3> QED
      BY <1>6, <1>7, <3>1, <3>2 DEF FinInv, FinStates, FinQueue, Quiet, Ends
  <2> QED
    BY <2>1, <2>2, <2>3, <2>4, <2>5, <2>6, <2>7 DEF EndInv
<1> QED
  BY <1>9, <1>10, <1>11 DEF Inv

\* The listening socket starts the passive end for a SYN.
LEMMA DispatchStep == Inv /\ Dispatch => Inv'
<1> SUFFICES ASSUME Inv, Dispatch PROVE Inv'
  OBVIOUS
<1>0. TypeOK /\ OpenInv
  BY DEF Inv, EndInv
<1> DEFINE q == inbound["passive"]
<1>1. /\ UNCHANGED <<ctx, event, app_recv_queue, app_send_queue, close_requested,
                     result, eof, app, written, sent, accepted, taken>>
      /\ thread["passive"] = "none"
      /\ thread' = [thread EXCEPT !["passive"] = "started"]
      /\ q # <<>> /\ q \in Seq(Packet)
      /\ \/ /\ arrived' = [arrived EXCEPT !["passive"] = 1]
            /\ inbound' = inbound
         \/ /\ Len(q) = 2
            /\ arrived' = [arrived EXCEPT !["passive"] = 2]
            /\ inbound' = [inbound EXCEPT !["passive"] = <<q[2], q[1]>>]
      /\ "SYN" \in q[1].flags
  <2>1. /\ UNCHANGED <<ctx, event, app_recv_queue, app_send_queue, close_requested,
                     result, eof, app, written, sent, accepted, taken>>
        /\ thread["passive"] = "none"
        /\ thread' = [thread EXCEPT !["passive"] = "started"]
        /\ q # <<>> /\ "SYN" \in Head(q).flags
    BY DEF Dispatch, queueVars, sockVars, countVars
  <2>2. q \in Seq(Packet)
    BY <1>0, PeerFacts DEF TypeOK
  <2>3. Head(q) = q[1]
    BY <2>1, <2>2, SMTT(30)
  <2>4. \/ /\ arrived' = [arrived EXCEPT !["passive"] = 1]
           /\ inbound' = inbound
        \/ /\ Len(q) = 2
           /\ arrived' = [arrived EXCEPT !["passive"] = 2]
           /\ inbound' = [inbound EXCEPT !["passive"] = <<q[2], q[1]>>]
    BY DEF Dispatch
  <2> QED
    BY <2>1, <2>2, <2>3, <2>4
<1>2. Len(q) > 0 /\ \A i \in 1 .. Len(q) : q[i] \in Packet
  BY <1>1, SMTT(30)
<1>3. /\ thread'["passive"] = "started" /\ thread'["active"] = thread["active"]
      /\ thread' \in [Ends -> {"none", "started", "handshake", "loop", "exited"}]
  BY <1>0, <1>1, PeerFacts, SMTT(30) DEF TypeOK
<1>4. /\ sent["active"] = 0 /\ accepted["passive"] = 0 /\ sent["passive"] = 0
      /\ ~ctx["active"].fin_sent /\ ~ctx["passive"].fin_received
      /\ thread["active"] \notin {"none", "started", "loop"}
      /\ \A i \in 1 .. Len(q) : "ACK" \notin q[i].flags
      /\ \A i \in 1 .. Len(inbound["active"]) : inbound["active"][i] = Hangup
  BY <1>0, <1>1, PeerFacts DEF OpenInv, Unanswered, Opening, TypeOK, Ends
<1>5. \A i \in 1 .. Len(q) : q[i].pos = 0 /\ q[i].len = 0
  BY <1>2, <1>4, PeerFacts, SMTT(30) DEF Inv, EndInv, FlowInv, Flow, Packet
<1>6. PICK r \in Seq(Packet) :
         /\ inbound' = [inbound EXCEPT !["passive"] = r]
         /\ Len(r) = Len(q)
         /\ r = q \/ (Len(q) = 2 /\ r[1] = q[2] /\ r[2] = q[1])
  <2>1. CASE inbound' = inbound
    <3>1. inbound = [inbound EXCEPT !["passive"] = q]
      BY <1>0, PeerFacts DEF TypeOK
    <3> QED
      BY <1>1, <2>1, <3>1
  <2>2. CASE Len(q) = 2 /\ inbound' = [inbound EXCEPT !["passive"] = <<q[2], q[1]>>]
    <3>1. <<q[2], q[1]>> \in Seq(Packet) /\ Len(<<q[2], q[1]>>) = 2
      BY <1>2, <2>2, SMTT(30)
    <3> QED
      BY <2>2, <3>1
  <2> QED
    BY <1>1, <2>1, <2>2
<1>7. /\ inbound'["passive"] = r /\ inbound'["active"] = inbound["active"]
      /\ inbound' \in [Ends -> Seq(Packet)]
  BY <1>0, <1>6, PeerFacts, SMTT(30) DEF TypeOK
<1>8. /\ arrived'["passive"] \in 1 .. Len(q) /\ arrived'["active"] = arrived["active"]
      /\ arrived' \in [Ends -> Nat]
  <2>1. PICK n \in 1 .. Len(q) : arrived' = [arrived EXCEPT !["passive"] = n]
    <3>1. CASE arrived' = [arrived EXCEPT !["passive"] = 1]
      <4>1. 1 \in 1 .. Len(q)
        BY <1>2, SMTT(30)
      <4> QED
        BY <3>1, <4>1
    <3>2. CASE Len(q) = 2 /\ arrived' = [arrived EXCEPT !["passive"] = 2]
      <4>1. 2 \in 1 .. Len(q)
        BY <3>2, SMTT(30)
      <4> QED
        BY <3>2, <4>1
    <3> QED
      BY <1>1, <3>1, <3>2
  <2> QED
    BY <1>0, <2>1, PeerFacts, SMTT(30) DEF TypeOK
<1>9. ASSUME NEW i \in 1 .. Len(r) PROVE \E j \in 1 .. Len(q) : r[i] = q[j]
  BY <1>6, SMTT(30)
<1>10. r # <<>>
  BY <1>2, <1>6, SMTT(30)
<1> HIDE DEF q
<1>11. TypeOK'
  <2>1. ASSUME NEW x \in Ends PROVE arrived'[x] <= Len(inbound'[x])
    BY <1>0, <1>6, <1>7, <1>8, SMTT(30) DEF TypeOK, Ends
  <2> QED
    BY <1>0, <1>1, <1>3, <1>7, <1>8, <2>1 DEF TypeOK
<1>12. OpenInv'
  <2>1. \A i \in 1 .. Len(r) : "ACK" \notin r[i].flags
    BY <1>4, <1>9
  <2>2. Gone("active")' = Gone("active")
    BY <1>1 DEF Gone
  <2> QED
    BY <1>0, <1>1, <1>3, <1>4, <1>7, <2>1, <2>2 DEF OpenInv, Opening,
       Unanswered, Ends
<1>13. ASSUME NEW x \in Ends
       PROVE  EndInv(x)'
  <2>1. EventInv(x)'
    <3>1. EventInv(x)
      BY DEF Inv, EndInv
    <3>2. CASE x = "active"
      BY <1>1, <1>3, <1>8, <3>1, <3>2, KeepEvent
    <3>3. CASE x = "passive"
      <4>1. ~Gone(x)
        BY <1>1, <3>3 DEF Inv, EndInv, FlowInv, q
      <4> QED
        BY <1>1, <1>3, <3>1, <3>3, <4>1 DEF EventInv, Gone
    <3> QED
      BY <3>2, <3>3 DEF Ends
  <2>2. NumberInv(x)'
    <3>1. NumberInv(x) /\ Isn(Peer(x))' = Isn(Peer(x))
      BY <1>1 DEF Inv, EndInv, Isn
    <3>2. CASE x = "active"
      BY <1>1, <1>3, <3>1, <3>2, KeepNumber
    <3>3. CASE x = "passive"
      BY <1>3, <3>3 DEF NumberInv, Synced
    <3> QED
      BY <3>2, <3>3 DEF Ends
  <2>3. WriteInv(x)'
    BY <1>1, KeepWrite DEF Inv, EndInv
  <2>4. ReadInv(x)'
    BY <1>1, <1>3, KeepRead DEF Inv, EndInv, Gone, Ends
  <2>5. CASE x = "active"
    <3>1. FlowInv(x) /\ PacketInv(x) /\ FinInv(x)
      BY DEF Inv, EndInv
    <3>2. /\ Gone(x)' = Gone(x) /\ Gone(Peer(x))' = Gone(Peer(x))
          /\ Isn(x)' = Isn(x) /\ Isn(Peer(x))' = Isn(Peer(x))
      BY <1>1 DEF Gone, Isn
    <3>3. FlowInv(x)' /\ PacketInv(x)' /\ FinInv(x)'
      <4>1. FlowInv(x)'
        BY <1>1, <1>7, <2>5, <3>1, <3>2, KeepFlow
      <4>2. PacketInv(x)'
        BY <1>1, <1>7, <2>5, <3>1, <3>2, KeepPacket
      <4>3. FinInv(x)'
        BY <1>1, <1>7, <2>5, <3>1, <3>2, KeepFin
      <4> QED
        BY <4>1, <4>2, <4>3
    <3> QED
      BY <2>1, <2>2, <2>3, <2>4, <3>3 DEF EndInv
  <2>6. CASE x = "passive"
    <3>1. FlowInv(x) /\ PacketInv(x) /\ FinInv(x) /\ Peer(x) = "active" /\ inbound[x] = q
      BY <2>6, PeerFacts DEF Inv, EndInv, q
    <3>2. FlowInv(x)'
      <4>1. \A i \in 1 .. Len(r) : r[i].pos = 0 /\ r[i].len = 0
        BY <1>5, <1>9
      <4>2. ~Gone(x) /\ q[1] # Hangup /\ Len(q) > 0
        BY <1>1, <1>2, <3>1, HangupFacts DEF FlowInv
      <4>3. ASSUME NEW i \in 1 .. Len(r), r[i] = Hangup
            PROVE  Gone("active") /\ (i < Len(r) => i = 1)
        <5>1. \A j \in 1 .. Len(q) : q[j] = Hangup => Gone("active") /\ (j < Len(q) => j = 1)
          BY <3>1, SMTT(30) DEF FlowInv, Flow
        <5>2. CASE r = q
          BY <4>3, <5>1, <5>2
        <5>3. CASE Len(q) = 2 /\ r[1] = q[2] /\ r[2] = q[1]
          BY <1>6, <4>2, <4>3, <5>1, <5>3, SMTT(30)
        <5> QED
          BY <1>6, <5>2, <5>3
      <4>4. /\ ~Gone(x)' /\ (Gone("active")' <=> Gone("active"))
            /\ accepted'[x] = 0 /\ sent'["active"] = 0 /\ inbound'[x] = r
            /\ Len(r) \in Nat /\ Len(r) > 0
        BY <1>1, <1>2, <1>4, <1>6, <1>7, <2>6, <4>2, SMTT(30) DEF Gone
      <4> QED
        BY <3>1, <4>1, <4>3, <4>4, SMTT(30) DEF FlowInv, Flow, Reached
    <3>3. PacketInv(x)'
      <4>1. ASSUME NEW i \in 1 .. Len(r)
            PROVE  PacketOK(r[i], Isn(x), Isn(Peer(x)), Acked(Peer(x)))
        BY <1>9, <3>1 DEF PacketInv
      <4>2. Isn(x)' = Isn(x) /\ Isn(Peer(x))' = Isn(Peer(x)) /\ Acked(Peer(x))' = Acked(Peer(x))
        BY <1>1 DEF Isn, Acked
      <4> QED
        BY <1>7, <2>6, <4>1, <4>2 DEF PacketInv
    <3>4. FinInv(x)'
      <4>1. \A i \in 1 .. Len(r) : "FIN" \notin r[i].flags
        BY <1>4, <1>9, <3>1 DEF FinInv, FinQueue, Quiet
      <4> QED
        BY <1>1, <1>4, <1>7, <2>6, <3>1, <4>1 DEF FinInv, FinQueue, Quiet
    <3> QED
      BY <2>1, <2>2, <2>3, <2>4, <3>2, <3>3, <3>4 DEF EndInv
  <2> QED
    BY <2>5, <2>6 DEF Ends
<1> QED
  BY <1>11, <1>12, <1>13 DEF Inv

\* transport_init() of the passive end allocates its context.
LEMMA InitPassiveStep == Inv /\ InitPassive => Inv'
<1> SUFFICES ASSUME Inv, InitPassive PROVE Inv'
  OBVIOUS
<1>0. TypeOK /\ OpenInv
  BY DEF Inv
<1>1. /\ UNCHANGED <<event, inbound, arrived, app_recv_queue, app_send_queue,
                     close_requested, result, eof, app, written, sent, accepted, taken>>
      /\ thread["passive"] = "started"
      /\ thread' = [thread EXCEPT !["passive"] = "handshake"]
  BY DEF InitPassive, netVars, queueVars, sockVars, countVars
<1>2. PICK isn \in SeqNums : ctx' = [ctx EXCEPT !["passive"] = NewContext(isn)]
  BY ConstantFacts DEF InitPassive
<1> DEFINE c == NewContext(isn)
<1>3. /\ c \in Context /\ c.initial_sequence_num = isn /\ c.sequence_num = isn
      /\ c.connection_state = "CLOSED" /\ ~c.fin_sent /\ ~c.fin_received /\ ~c.fin_acked
  BY NewContextType DEF NewContext
<1> HIDE DEF c
<1>4. ctx'["passive"] = c /\ ctx'["active"] = ctx["active"] /\ ctx' \in [Ends -> Context]
  BY <1>0, <1>2, <1>3, PeerFacts, SMTT(30) DEF TypeOK, c
<1>5. /\ thread'["passive"] = "handshake" /\ thread'["active"] = thread["active"]
      /\ thread' \in [Ends -> {"none", "started", "handshake", "loop", "exited"}]
  BY <1>0, <1>1, PeerFacts DEF TypeOK
<1>6. /\ sent["active"] = 0 /\ accepted["passive"] = 0 /\ sent["passive"] = 0
      /\ ~ctx["active"].fin_sent /\ ~ctx["passive"].fin_sent
      /\ ~ctx["passive"].fin_received
      /\ thread["active"] \notin {"none", "started", "loop"}
      /\ thread["active"] = "handshake" => ctx["active"].connection_state = "SYN_SENT"
      /\ \A i \in 1 .. Len(inbound["passive"]) : "ACK" \notin inbound["passive"][i].flags
      /\ \A i \in 1 .. Len(inbound["active"]) : inbound["active"][i] = Hangup
  BY <1>0, <1>1, PeerFacts DEF OpenInv, Unanswered, Opening, TypeOK, Ends
<1>7. TypeOK'
  BY <1>0, <1>1, <1>4, <1>5 DEF TypeOK
<1>8. OpenInv'
  BY <1>0, <1>1, <1>3, <1>4, <1>5, <1>6 DEF OpenInv, Opening, Unanswered, Ends
<1>9. ASSUME NEW x \in Ends PROVE EndInv(x)'
  <2>0. /\ EventInv(x) /\ NumberInv(x) /\ WriteInv(x) /\ ReadInv(x) /\ FlowInv(x)
        /\ PacketInv(x) /\ FinInv(x) /\ (x = "active" \/ x = "passive")
        /\ Gone(x)' = Gone(x) /\ Gone(Peer(x))' = Gone(Peer(x))
        /\ thread'[x] = "exited" <=> thread[x] = "exited"
        /\ ~ctx["active"].fin_received /\ ~ctx["active"].fin_acked
    BY <1>1, <1>5, <1>6, PeerFacts DEF Inv, EndInv, FinInv, Gone, Ends
  <2>1. EventInv(x)'
    <3>1. CASE x = "active"
      BY <1>1, <1>5, <2>0, <3>1, KeepEvent
    <3>2. CASE x = "passive"
      <4>1. thread[x] = "started" /\ thread'[x] = "handshake"
        BY <1>1, <1>5, <3>2
      <4> QED
        BY <1>1, <2>0, <4>1 DEF EventInv, Gone
    <3> QED
      BY <2>0, <3>1, <3>2
  <2>2. NumberInv(x)'
    BY <1>1, <1>3, <1>4, <1>5, <1>6, <2>0, SMTT(30) DEF NumberInv, Synced,
       Acked, Isn
  <2>3. WriteInv(x)'
    <3>1. CASE x = "active"
      BY <1>1, <1>4, <2>0, <3>1, KeepWrite
    <3>2. CASE x = "passive"
      BY <1>1, <1>3, <1>4, <2>0, <3>2 DEF WriteInv, Gone
    <3> QED
      BY <2>0, <3>1, <3>2
  <2>4. ReadInv(x)'
    BY <1>1, <1>3, <1>4, <1>6, <2>0, KeepRead
  <2>5. FlowInv(x)'
    BY <1>1, <2>0, KeepFlow
  <2>6. PacketInv(x)'
    <3>1. CASE x = "active"
      BY <1>1, <1>6, <3>1, HangupFacts, SMTT(30) DEF PacketInv, PacketOK, Acked
    <3>2. CASE x = "passive"
      <4>1. Isn("active")' = Isn("active") /\ Peer(x) = "active"
        BY <1>4, <3>2, PeerFacts DEF Isn
      <4> QED
        BY <1>1, <1>6, <2>0, <3>2, <4>1, SMTT(30) DEF PacketInv, PacketOK,
           Acked
    <3> QED
      BY <2>0, <3>1, <3>2
  <2>7. FinInv(x)'
    BY <1>1, <1>3, <1>4, <1>6, <2>0, PeerFacts, HangupFacts, ZenonT(30) DEF FinInv, FinStates, FinQueue, Quiet
  <2> QED
    BY <2>1, <2>2, <2>3, <2>4, <2>5, <2>6, <2>7 DEF EndInv
<1> QED
  BY <1>7, <1>8, <1>9 DEF Inv

-----------------------------------------------------------------------------
(* Inv: the handshake.                                                     *)

\* An end that waits for a packet of the handshake has neither sent nor
\* accepted a byte.
LEMMA HandshakeFacts ==
    ASSUME Inv, NEW e \in Ends, thread[e] = "handshake", arrived[e] > 0
    PROVE  /\ sent[e] = 0 /\ accepted[e] = 0 /\ Acked(e) = 0
           /\ ctx[e].fin_sent = FALSE /\ ctx[e].fin_received = FALSE
           /\ ctx[e].fin_acked = FALSE /\ ctx[e].connection_state \notin FinStates
           /\ event[e] = {} /\ ~Gone(e) /\ app[e] # "idle"
           /\ inbound[e] # <<>> /\ inbound[e][1] \in Packet /\ Head(inbound[e]) = inbound[e][1]
           /\ 1 \in 1 .. Len(inbound[e])
           /\ inbound[e][1].len \in Nat
           /\ sent[Peer(e)] = 0 => inbound[e][1].len = 0
           /\ PacketOK(inbound[e][1], Isn(e), Isn(Peer(e)), Acked(Peer(e)))
<1>1. /\ sent[e] = 0 /\ accepted[e] = 0
      /\ ~ctx[e].fin_sent /\ ~ctx[e].fin_received /\ ~ctx[e].fin_acked
  BY DEF Inv, OpenInv, Opening
<1>2. ctx[e] \in Context /\ EventInv(e) /\ FinInv(e) /\ FlowInv(e) /\ PacketInv(e)
  BY EndFacts
<1>3. ctx[e].fin_sent \in BOOLEAN /\ ctx[e].fin_received \in BOOLEAN /\ ctx[e].fin_acked \in BOOLEAN
  BY <1>2 DEF Context
<1>4. /\ ctx[e].fin_sent = FALSE /\ ctx[e].fin_received = FALSE /\ ctx[e].fin_acked = FALSE
  BY <1>1, <1>3
<1>5. Acked(e) = 0
  BY <1>1, <1>4, SMTT(30) DEF Acked, Bit
<1>6. ctx[e].connection_state \notin FinStates
  BY <1>1, <1>2 DEF FinInv
<1>7. event[e] = {} /\ ~Gone(e) /\ app[e] # "idle"
  BY <1>2 DEF EventInv
<1>8. inbound[e] \in Seq(Packet) /\ inbound[e] # <<>>
  <2>1. inbound[e] \in Seq(Packet) /\ arrived[e] \in Nat /\ arrived[e] <= Len(inbound[e])
    BY EndFacts
  <2> QED
    BY <2>1, SMTT(30)
<1>9. inbound[e][1] \in Packet /\ Head(inbound[e]) = inbound[e][1] /\ 1 \in 1 .. Len(inbound[e])
  BY <1>8, TailFacts, SMTT(30)
<1>10. inbound[e][1].len \in Nat /\ inbound[e][1].pos \in Nat
  BY <1>9 DEF Packet
<1>11. inbound[e][1].pos + inbound[e][1].len <= sent[Peer(e)]
  BY <1>2, <1>7, <1>9 DEF FlowInv, Flow
<1>12. PacketOK(inbound[e][1], Isn(e), Isn(Peer(e)), Acked(Peer(e)))
  BY <1>2, <1>9 DEF PacketInv
<1> QED
  BY <1>1, <1>4, <1>5, <1>6, <1>7, <1>8, <1>9, <1>10, <1>11, <1>12, SMTT(30)

\* What the three steps of the handshake have in common.
LEMMA HandshakeStep ==
    ASSUME Inv, NEW e \in Ends, thread[e] = "handshake", arrived[e] > 0,
           inbound[e][1].len = 0,
           NEW a \in Packet, NEW ps, ps = <<>> \/ ps = <<a>>, TakeAndSend(e, ps),
           Quiet(a), a.pos = 0, a # Hangup, PacketOK(a, Isn(Peer(e)), Isn(e), 0),
           NEW d \in Context, ctx' = [ctx EXCEPT ![e] = d],
           d.initial_sequence_num = Isn(e), d.connection_state \notin FinStates,
           d.fin_sent = FALSE, d.fin_received = FALSE, d.fin_acked = FALSE,
           NEW t \in {"handshake", "loop", "exited"}, thread' = [thread EXCEPT ![e] = t],
           result' \in [Ends -> {"blocking", "connected", "refused"}],
           app_send_queue' \in [Ends -> Seq(Buffer)],
           app_send_queue'[Peer(e)] = app_send_queue[Peer(e)],
           UNCHANGED <<event, app_recv_queue, close_requested, eof, app,
                       written, sent, accepted, taken>>,
           OpenInv', NumberInv(e)', ReadInv(e)'
    PROVE  Inv'
<1>0. TypeOK
  BY DEF Inv
<1>y. PICK y \in Ends : y = Peer(e)
  BY PeerFacts
<1>1. y # e /\ Peer(y) = e /\ \A x \in Ends : x = e \/ x = y
  BY <1>y, PeerFacts
<1>2. /\ sent[e] = 0 /\ accepted[e] = 0 /\ Acked(e) = 0
      /\ ctx[e].fin_sent = FALSE /\ ctx[e].fin_received = FALSE
      /\ event[e] = {} /\ ~Gone(e) /\ app[e] # "idle"
      /\ inbound[e] # <<>>
  BY HandshakeFacts
<1>3. /\ inbound' \in [Ends -> Seq(Packet)] /\ arrived' \in [Ends -> Nat]
      /\ \A x \in Ends : arrived'[x] <= Len(inbound'[x])
      /\ inbound'[e] = Tail(inbound[e])
      /\ \/ inbound'[y] = inbound[y]
         \/ inbound'[y] = IF Gone(y) THEN inbound[y] ELSE Append(inbound[y], a)
      /\ arrived'[y] = arrived[y]
  BY <1>y, TakeOne
<1>4. /\ ctx'[e] = d /\ ctx'[y] = ctx[y] /\ ctx' \in [Ends -> Context]
      /\ thread'[e] = t /\ thread'[y] = thread[y]
      /\ thread' \in [Ends -> {"none", "started", "handshake", "loop", "exited"}]
  <2>1. ctx'[e] = d /\ ctx'[y] = ctx[y] /\ ctx' \in [Ends -> Context]
    BY <1>0, <1>1 DEF TypeOK
  <2>2. /\ thread'[e] = t /\ thread'[y] = thread[y]
        /\ thread' \in [Ends -> {"none", "started", "handshake", "loop", "exited"}]
    BY <1>0, <1>1 DEF TypeOK
  <2> QED
    BY <2>1, <2>2
<1>5. \A x \in Ends : Gone(x)' = Gone(x) /\ Isn(x)' = Isn(x)
  BY <1>1, <1>4 DEF Gone, Isn
<1>6. Acked(y)' = Acked(y) /\ Acked(e)' = 0 /\ Acked(e)' = Acked(e)
  BY <1>2, <1>4 DEF Acked, Bit
<1>7. TypeOK'
  BY <1>0, <1>3, <1>4 DEF TypeOK
<1>8. EndInv(e)'
  <2>1. /\ EventInv(e) /\ WriteInv(e) /\ FlowInv(e) /\ PacketInv(e) /\ FinInv(e)
        /\ inbound[e] \in Seq(Packet) /\ accepted[e] \in Nat
    BY EndFacts
  <2>2. EventInv(e)'
    BY <1>2, <1>4, <1>5, <2>1 DEF EventInv
  <2>3. WriteInv(e)'
    BY <1>2, <1>4, <2>1, KeepWrite
  <2>4. FlowInv(e)'
    <3>1. accepted'[e] = IF inbound[e][1] = Hangup THEN accepted[e]
                         ELSE accepted[e] + inbound[e][1].len
      BY <2>1, SMTT(30)
    <3>2. sent'[Peer(e)] = sent[Peer(e)] /\ Gone(e)' = Gone(e) /\ Gone(Peer(e))' = Gone(Peer(e))
      BY <1>5, PeerFacts
    <3> QED
      BY <1>2, <1>3, <3>1, <3>2, FlowReceive
  <2>m. \A i \in 1 .. Len(inbound'[e]) :
           \E j \in 1 .. Len(inbound[e]) : inbound'[e][i] = inbound[e][j]
    <3> DEFINE q == inbound[e]
               r == inbound'[e]
    <3>1. q \in Seq(Packet) /\ q # <<>> /\ r = Tail(q)
      BY <1>2, <1>3, <2>1
    <3> HIDE DEF q, r
    <3>2. \A i \in 1 .. Len(r) : \E j \in 1 .. Len(q) : r[i] = q[j]
      BY <3>1, TakenMembers, SMTT(30)
    <3> QED
      BY <3>2 DEF q, r
  <2>5. PacketInv(e)'
    <3>1. Isn(e)' = Isn(e) /\ Isn(Peer(e))' = Isn(Peer(e)) /\ Acked(Peer(e))' = Acked(Peer(e))
      BY <1>y, <1>5, <1>6
    <3> QED
      BY <2>1, <2>m, <3>1 DEF PacketInv
  <2>6. FinInv(e)'
    <3>1. FinQueue(Tail(inbound[e]), sent[Peer(e)], ctx[Peer(e)].fin_sent)
      BY <1>2, <2>1, FinTake DEF FinInv
    <3>2. ctx'[Peer(e)] = ctx[Peer(e)]
      BY <1>y, <1>4
    <3> QED
      BY <1>3, <1>4, <3>1, <3>2 DEF FinInv
  <2> QED
    BY <2>2, <2>3, <2>4, <2>5, <2>6 DEF EndInv
<1>9. EndInv(y)'
  <2>1. inbound[y] \in Seq(Packet) /\ FlowInv(y) /\ PacketInv(y) /\ FinInv(y)
    BY EndFacts
  <2>2. EventInv(y)' /\ NumberInv(y)' /\ WriteInv(y)' /\ ReadInv(y)'
    <3>1. Isn(Peer(y))' = Isn(Peer(y))
      BY <1>1, <1>5
    <3>2. app_send_queue'[y] = app_send_queue[y]
      BY <1>y
    <3> QED
      BY <1>3, <1>4, <3>1, <3>2, KeepEnd
  <2>3. PacketInv(y)'
    <3>1. PacketOK(a, Isn(y), Isn(e), Acked(e)')
      BY <1>y, <1>6
    <3>2. \A i \in 1 .. Len(inbound'[y]) :
             inbound'[y][i] = a \/ \E j \in 1 .. Len(inbound[y]) : inbound'[y][i] = inbound[y][j]
      BY <1>3, <2>1, AppendedFacts
    <3>3. /\ Isn(y)' = Isn(y) /\ Isn(e)' = Isn(e)
          /\ Acked(e)' \in Nat /\ Acked(e) <= Acked(e)'
      BY <1>2, <1>5, <1>6, SMTT(30)
    <3>4. /\ Isn(Peer(y))' = Isn(Peer(y))
          /\ Acked(Peer(y))' \in Nat /\ Acked(Peer(y)) <= Acked(Peer(y))'
          /\ PacketOK(a, Isn(y), Isn(Peer(y)), Acked(Peer(y))')
      BY <1>1, <3>1, <3>3
    <3>5. Isn(y)' = Isn(y) /\ Inv /\ y \in Ends
      BY <3>3
    <3> QED
      BY ONLY <3>2, <3>4, <3>5, PacketStep, Zenon
  <2>4. Gone(y)' = Gone(y) /\ Gone(Peer(y))' = Gone(Peer(y)) /\ ~Gone(Peer(y))
    BY <1>1, <1>2, <1>5
  <2>5. /\ ctx'[Peer(y)].fin_sent = ctx[Peer(y)].fin_sent
        /\ ctx'[Peer(y)].fin_received = ctx[Peer(y)].fin_received
    BY <1>1, <1>2, <1>4
  <2>6. FlowInv(y)'
    <3>1. a.pos = sent[Peer(y)] /\ sent'[Peer(y)] = sent[Peer(y)] + a.len
      BY <1>1, <1>2, SMTT(30) DEF Quiet
    <3>2. CASE inbound'[y] = inbound[y]
      BY <2>1, <2>4, <3>2, KeepFlow
    <3>3. CASE inbound'[y] = IF Gone(y) THEN inbound[y] ELSE Append(inbound[y], a)
      BY <2>4, <3>1, <3>3, FlowSend
    <3> QED
      BY <1>3, <3>2, <3>3
  <2>7. FinInv(y)'
    <3>1. CASE inbound'[y] = inbound[y]
      BY <1>4, <2>1, <2>5, <3>1, KeepFin
    <3>2. CASE inbound'[y] = IF Gone(y) THEN inbound[y] ELSE Append(inbound[y], a)
      BY <1>4, <2>5, <3>2, FinSend
    <3> QED
      BY <1>3, <3>1, <3>2
  <2> QED
    BY <2>2, <2>3, <2>6, <2>7 DEF EndInv
<1> QED
  BY <1>1, <1>7, <1>8, <1>9 DEF Inv

\* transport_init() gives up on a packet it does not expect.
LEMMA RefuseStep ==
    ASSUME Inv, NEW e \in Ends, thread[e] = "handshake", arrived[e] > 0,
           inbound[e][1].len = 0, Refuse(e)
    PROVE  Inv'
<1>0. TypeOK /\ OpenInv
  BY DEF Inv
<1>y. PICK y \in Ends : y = Peer(e)
  BY PeerFacts
<1>1. y # e /\ Peer(y) = e /\ \A x \in Ends : x = e \/ x = y
  BY <1>y, PeerFacts
<1>2. PICK m : m = [pos |-> accepted[e], len |-> 0]
  OBVIOUS
<1>3. /\ thread' = [thread EXCEPT ![e] = "exited"] /\ TakeAndSend(e, <<>>)
      /\ result' = [result EXCEPT ![e] = "refused"]
      /\ app_send_queue' = [app_send_queue EXCEPT ![e] = Append(app_send_queue[e], m)]
      /\ UNCHANGED <<ctx, event, app_recv_queue, close_requested, eof, app,
                     written, sent, accepted, taken>>
  BY <1>2 DEF Refuse, countVars
<1>4. /\ m \in Buffer /\ m.pos = accepted[e] /\ m.len = 0
  BY <1>2, EndFacts DEF Buffer
<1>5. PICK d \in Context : d = ctx[e]
  BY EndFacts
<1>6. PICK a \in Packet : /\ Quiet(a) /\ a.pos = 0 /\ a # Hangup
                          /\ PacketOK(a, Isn(Peer(e)), Isn(e), 0)
  <2>1. PICK a : a = [flags |-> {"SYN"}, seq |-> Isn(e), ack |-> 0, win |-> 0, pos |-> 0, len |-> 0]
    OBVIOUS
  <2>2. Isn(e) \in SeqNums /\ 0 \in SeqNums
    <3>1. ctx[e] \in Context
      BY EndFacts
    <3>2. ctx[e].initial_sequence_num \in SeqNums
      BY <3>1 DEF Context
    <3>3. 0 \in SeqNums
      BY ConstantFacts, SMTT(30) DEF SeqNums
    <3> QED
      BY <3>2, <3>3 DEF Isn
  <2>3. a \in Packet
    BY <2>1, <2>2, SMTT(30) DEF Packet
  <2>4. a.flags = {"SYN"} /\ a.seq = Isn(e) /\ a.pos = 0 /\ a.len = 0
    BY <2>1
  <2>5. Quiet(a) /\ a # Hangup /\ PacketOK(a, Isn(Peer(e)), Isn(e), 0)
    BY <2>4, HangupFacts, SMTT(30) DEF Quiet, PacketOK
  <2> QED
    BY <2>3, <2>4, <2>5
<1>7. /\ d.initial_sequence_num = Isn(e) /\ d.connection_state \notin FinStates
      /\ d.fin_sent = FALSE /\ d.fin_received = FALSE /\ d.fin_acked = FALSE
      /\ inbound[e] # <<>> /\ ~Gone(e)
  BY <1>5, HandshakeFacts DEF Isn
<1>8. ctx' = [ctx EXCEPT ![e] = d]
  BY <1>0, <1>3, <1>5 DEF TypeOK
<1>9. result' \in [Ends -> {"blocking", "connected", "refused"}]
  BY <1>0, <1>3 DEF TypeOK
<1>10. /\ app_send_queue' \in [Ends -> Seq(Buffer)]
       /\ app_send_queue'[e] = Append(app_send_queue[e], m)
       /\ app_send_queue'[Peer(e)] = app_send_queue[Peer(e)]
  <2>1. app_send_queue[e] \in Seq(Buffer) /\ Append(app_send_queue[e], m) \in Seq(Buffer)
    BY <1>4, EndFacts, SMTT(30)
  <2> QED
    BY <1>0, <1>1, <1>3, <1>y, <2>1 DEF TypeOK
<1>11. /\ thread'[e] = "exited" /\ thread'[y] = thread[y]
  BY <1>0, <1>1, <1>3 DEF TypeOK
<1>12. NumberInv(e)'
  BY <1>11 DEF NumberInv, Synced
<1>13. ReadInv(e)'
  <2> DEFINE q == app_send_queue[e]
  <2>1. /\ ReadInv(e) /\ q \in Seq(Buffer) /\ taken[e] \in Nat /\ accepted[e] \in Nat
    BY EndFacts
  <2>2. /\ Covers(q, taken[e], accepted[e]) /\ taken[e] <= accepted[e]
        /\ \A i \in 1 .. Len(q) : /\ q[i].pos + q[i].len <= accepted[e]
                                  /\ q[i].len = 0 => q[i].pos = accepted[e]
        /\ eof[e] => taken[e] = accepted[e]
    BY <1>7, <2>1 DEF ReadInv
  <2>3. PICK r : r = Append(q, m)
    OBVIOUS
  <2>4. app_send_queue'[e] = r
    BY <1>10, <2>3
  <2> HIDE DEF q
  <2>5. \A i \in 1 .. Len(r) : r[i] = m \/ \E j \in 1 .. Len(q) : r[i] = q[j]
    BY <1>4, <2>1, <2>3, Members, SMTT(30)
  <2>6. m.pos + m.len <= accepted[e] /\ accepted[e] = accepted[e] + m.len
    BY <1>4, <2>1, SMTT(30)
  <2>7. \A i \in 1 .. Len(q) : q[i].pos + q[i].len <= accepted[e]
    BY <2>2
  <2>8. Covers(r, taken[e], accepted[e])
    BY <1>4, <2>1, <2>2, <2>3, <2>6, CoversAppend
  <2>9. \A i \in 1 .. Len(r) : /\ r[i].pos + r[i].len <= accepted[e]
                               /\ r[i].len = 0 => r[i].pos = accepted[e]
    BY <1>4, <2>2, <2>5, <2>6
  <2> QED
    BY <1>3, <1>11, <2>2, <2>4, <2>8, <2>9 DEF ReadInv
<1>14. /\ inbound'[e] = Tail(inbound[e]) /\ inbound'[y] = inbound[y]
       /\ \A i \in 1 .. Len(inbound'[e]) :
             \E j \in 1 .. Len(inbound[e]) : inbound'[e][i] = inbound[e][j]
  <2>1. /\ inbound'[e] = Tail(inbound[e]) /\ inbound'[y] = inbound[y]
    <3>1. PICK ps : ps = <<>> /\ TakeAndSend(e, ps)
      BY <1>3
    <3> QED
      BY <1>y, <1>6, <3>1, TakeOne
  <2>2. inbound[e] \in Seq(Packet)
    BY EndFacts
  <2> QED
    BY <1>7, <2>1, <2>2, Members, SMTT(30)
<1>15. OpenInv'
  <2>1. \A x \in Ends : Opening(x)' =>
           /\ sent'[x] = 0 /\ accepted'[x] = 0
           /\ ~ctx'[x].fin_sent /\ ~ctx'[x].fin_received /\ ~ctx'[x].fin_acked
    <3>1. \A x \in Ends : Opening(x)' => Opening(x)
      BY <1>1, <1>11 DEF Opening
    <3> QED
      BY <1>0, <1>3, <3>1 DEF OpenInv
  <2>2. CASE e = "active"
    <3>1. y = "passive" /\ thread'["active"] = "exited" /\ thread'["passive"] = thread["passive"]
          /\ inbound'["passive"] = inbound["passive"]
      BY <1>y, <1>11, <1>14, <2>2, PeerFacts
    <3>2. Unanswered' => Unanswered
      BY <1>3, <3>1 DEF Unanswered
    <3>3. Unanswered => \A i \in 1 .. Len(inbound'["active"]) : inbound'["active"][i] = Hangup
      BY <1>0, <1>14, <2>2, ZenonT(30) DEF OpenInv
    <3>4. ~Opening("active")'
      BY <3>1 DEF Opening
    <3> QED
      BY <1>0, <1>3, <2>1, <3>1, <3>2, <3>3, <3>4 DEF OpenInv
  <2>3. CASE e = "passive"
    <3>1. y = "active" /\ thread'["passive"] = "exited" /\ thread'["active"] = thread["active"]
          /\ inbound'["active"] = inbound["active"]
      BY <1>y, <1>11, <1>14, <2>3, PeerFacts
    <3>2. ~Unanswered' /\ (Opening("active")' => Opening("active"))
      BY <3>1 DEF Unanswered, Opening
    <3>3. Opening("active") =>
             \A i \in 1 .. Len(inbound'["passive"]) : "ACK" \notin inbound'["passive"][i].flags
      BY <1>0, <1>14, <2>3 DEF OpenInv
    <3>4. thread["active"] \notin {"none", "started"}
      BY <1>0, <2>3 DEF OpenInv
    <3> QED
      BY <1>0, <1>3, <2>1, <3>1, <3>2, <3>3, <3>4 DEF OpenInv
  <2> QED
    BY <2>2, <2>3 DEF Ends
<1>16. PICK ps : ps = <<>> /\ TakeAndSend(e, ps)
  BY <1>3
<1> QED
  BY <1>3, <1>6, <1>7, <1>8, <1>9, <1>10, <1>12, <1>13, <1>15, <1>16,
     HandshakeStep

\* The connection is established: transport_init() enters control_loop().
LEMMA EstablishStep ==
    ASSUME Inv, NEW e \in Ends, thread[e] = "handshake", arrived[e] > 0,
           inbound[e][1].len = 0, ctx[e].connection_state # "CLOSED",
           NEW a \in Packet, NEW ps, ps = <<>> \/ ps = <<a>>,
           a.flags = {"ACK"}, a.pos = 0, a.len = 0, a.ack = Wrap(Isn(Peer(e)) + 1),
           NEW c \in Context, Establish(e, c, ps),
           c.initial_sequence_num = ctx[e].initial_sequence_num,
           c.sequence_num = ctx[e].sequence_num, c.ack_num = Wrap(Isn(Peer(e)) + 1),
           c.next_seq_expected = Wrap(Isn(Peer(e)) + 1),
           c.fin_sent = ctx[e].fin_sent, c.fin_received = ctx[e].fin_received,
           c.fin_acked = ctx[e].fin_acked,
           e = "active" => ~Unanswered /\ ps = <<a>>,
           e = "passive" => ~Opening("active")
    PROVE  Inv'
<1>0. TypeOK /\ OpenInv
  BY DEF Inv
<1>y. PICK y \in Ends : y = Peer(e)
  BY PeerFacts
<1>1. y # e /\ Peer(y) = e /\ \A x \in Ends : x = e \/ x = y
  BY <1>y, PeerFacts
<1>2. PICK d : d = [c EXCEPT !.connection_state = "ESTABLISHED"]
  OBVIOUS
<1>3. /\ d \in Context /\ d.initial_sequence_num = Isn(e)
      /\ d.sequence_num = ctx[e].sequence_num /\ d.ack_num = Wrap(Isn(y) + 1)
      /\ d.next_seq_expected = Wrap(Isn(y) + 1)
      /\ d.fin_sent = FALSE /\ d.fin_received = FALSE /\ d.fin_acked = FALSE
      /\ d.connection_state = "ESTABLISHED" /\ d.connection_state \notin FinStates
  <2>1. ctx[e].fin_sent = FALSE /\ ctx[e].fin_received = FALSE /\ ctx[e].fin_acked = FALSE
    BY HandshakeFacts
  <2>2. d \in Context
    BY <1>2 DEF Context, CStates
  <2> QED
    BY <1>2, <1>y, <2>1, <2>2 DEF Context, Isn, FinStates
<1>4. /\ ctx' = [ctx EXCEPT ![e] = d] /\ thread' = [thread EXCEPT ![e] = "loop"]
      /\ TakeAndSend(e, ps)
      /\ UNCHANGED <<event, app_recv_queue, app_send_queue, close_requested, eof, app,
                     written, sent, accepted, taken>>
  BY <1>2 DEF Establish, queueVars, countVars
<1>5. result' \in [Ends -> {"blocking", "connected", "refused"}]
  <2>1. PICK r \in {"connected", "refused"} : result' = [result EXCEPT ![e] = r]
    BY DEF Establish
  <2> QED
    BY <1>0, <2>1 DEF TypeOK
<1>6. Quiet(a) /\ a # Hangup /\ PacketOK(a, Isn(Peer(e)), Isn(e), 0)
  <2>1. Quiet(a) /\ a # Hangup
    BY HangupFacts DEF Quiet
  <2>2. 0 \in 0 .. 0 /\ Isn(Peer(e)) + 1 + 0 = Isn(Peer(e)) + 1
    BY EndFacts, PeerFacts, SMTT(30)
  <2>3. a.ack = Wrap(Isn(Peer(e)) + 1 + 0)
    BY <2>2
  <2> QED
    BY <2>1, <2>2, <2>3, SMTT(60) DEF PacketOK
<1>7. /\ sent[e] = 0 /\ accepted[e] = 0 /\ ~Gone(e) /\ inbound[e] # <<>>
      /\ ctx[e].fin_sent = FALSE /\ ctx[e].fin_received = FALSE
  BY HandshakeFacts
<1>8. /\ ctx'[e] = d /\ ctx'[y] = ctx[y] /\ thread'[e] = "loop" /\ thread'[y] = thread[y]
  BY <1>0, <1>1, <1>4 DEF TypeOK
<1>9. NumberInv(e)'
  <2>1. Isn(e)' = Isn(e) /\ Isn(Peer(e))' = Isn(y) /\ Isn(e) \in Nat /\ Isn(y) \in Nat
    BY <1>3, <1>8, <1>y, EndFacts DEF Isn
  <2>2. ctx[e].sequence_num = Wrap(Isn(e) + 1 + sent[e] + Bit(ctx[e].fin_sent))
    BY EndFacts DEF NumberInv
  <2>3. d.sequence_num = Wrap(Isn(e) + 1 + sent[e] + Bit(d.fin_sent))
    BY <1>3, <1>7, <2>2
  <2>4. Bit(d.fin_received) = 0
    BY <1>3 DEF Bit
  <2>5. /\ Isn(y) + 1 + accepted[e] = Isn(y) + 1
        /\ Isn(y) + 1 + (accepted[e] + Bit(d.fin_received)) = Isn(y) + 1
    BY <1>7, <2>1, <2>4, SMTT(30)
  <2>6. /\ d.ack_num = Wrap(Isn(y) + 1 + (accepted[e] + Bit(d.fin_received)))
        /\ d.next_seq_expected = Wrap(Isn(y) + 1 + accepted[e])
    BY <1>3, <2>5
  <2>7. Acked(e)' = accepted[e] + Bit(d.fin_received)
    BY <1>4, <1>8 DEF Acked
  <2>8. thread'[e] = "loop" /\ ctx'[e] = d /\ sent'[e] = sent[e] /\ accepted'[e] = accepted[e]
    BY <1>4, <1>8
  <2> QED
    BY <2>1, <2>3, <2>6, <2>7, <2>8 DEF NumberInv
<1>10. ReadInv(e)'
  <2>1. ReadInv(e)
    BY EndFacts
  <2>2. Gone(e)' = Gone(e)
    BY <1>4 DEF Gone
  <2> QED
    BY <1>4, <1>7, <1>8, <2>1, <2>2, KeepRead
<1>11. /\ \/ inbound'[y] = inbound[y]
          \/ inbound'[y] = IF Gone(y) THEN inbound[y] ELSE Append(inbound[y], a)
       /\ ps = <<a>> => inbound'[y] = IF Gone(y) THEN inbound[y] ELSE Append(inbound[y], a)
       /\ inbound'[e] = Tail(inbound[e])
  BY <1>4, <1>y, TakeOne
<1>12. OpenInv'
  <2>1. \A x \in Ends : Opening(x)' =>
           /\ sent'[x] = 0 /\ accepted'[x] = 0
           /\ ~ctx'[x].fin_sent /\ ~ctx'[x].fin_received /\ ~ctx'[x].fin_acked
    <3>1. \A x \in Ends : Opening(x)' => Opening(x) /\ x # e
      BY <1>1, <1>8 DEF Opening
    <3> QED
      BY <1>0, <1>1, <1>4, <1>8, <3>1 DEF OpenInv
  <2>2. CASE e = "active"
    <3>1. /\ y = "passive" /\ thread'["active"] = "loop" /\ thread'["passive"] = thread["passive"]
          /\ ctx'["passive"] = ctx["passive"]
      BY <1>y, <1>8, <2>2, PeerFacts
    <3>2. ~Unanswered'
      BY <2>2, <3>1 DEF Unanswered
    <3>3. ~Opening("active")'
      BY <3>1 DEF Opening
    <3>4. ASSUME thread["passive"] = "handshake", ctx["passive"].connection_state = "SYN_RCVD"
          PROVE  inbound'["passive"] # <<>> /\ inbound'["passive"][1].len = 0
      <4>1. EventInv("passive") /\ inbound["passive"] \in Seq(Packet)
        BY EndFacts, PeerFacts
      <4>2. ~Gone("passive")
        BY <3>4, <4>1 DEF EventInv
      <4>3. inbound'["passive"] = Append(inbound["passive"], a)
        BY <1>11, <2>2, <3>1, <4>2
      <4>4. inbound["passive"] # <<>> => inbound["passive"][1].len = 0
        BY <1>0, <3>4 DEF OpenInv
      <4>5. Append(inbound["passive"], a) # <<>>
        <5>1. Len(Append(inbound["passive"], a)) # 0
          BY <4>1, SMTT(30)
        <5> QED
          BY <5>1, EmptyFacts
      <4>6. CASE inbound["passive"] = <<>>
        BY <4>3, <4>5, <4>6, SMTT(30)
      <4>7. CASE inbound["passive"] # <<>>
        <5>1. Append(inbound["passive"], a)[1] = inbound["passive"][1]
          BY <4>1, <4>7, SMTT(30)
        <5> QED
          BY <4>3, <4>4, <4>5, <4>7, <5>1
      <4> QED
        BY <4>6, <4>7
    <3> QED
      BY <2>1, <3>1, <3>2, <3>3, <3>4 DEF OpenInv
  <2>3. CASE e = "passive"
    <3>1. /\ y = "active" /\ thread'["passive"] = "loop" /\ thread'["active"] = thread["active"]
      BY <1>y, <1>8, <2>3, PeerFacts
    <3>2. ~Unanswered' /\ ~Opening("active")'
      BY <2>3, <3>1 DEF Unanswered, Opening
    <3>3. thread'["active"] \notin {"none", "started", "handshake"}
      BY <3>2 DEF Opening
    <3> QED
      BY <2>1, <3>1, <3>2, <3>3 DEF OpenInv
  <2> QED
    BY <2>2, <2>3 DEF Ends
<1>13. app_send_queue' \in [Ends -> Seq(Buffer)] /\ app_send_queue'[Peer(e)] = app_send_queue[Peer(e)]
  BY <1>0, <1>4 DEF TypeOK
<1> QED
  BY <1>3, <1>4, <1>5, <1>6, <1>9, <1>10, <1>12, <1>13, HandshakeStep

\* The active end takes what should be a SYN+ACK and answers with an ACK.
LEMMA HandshakeSynSentStep == Inv /\ HandshakeSynSent => Inv'
<1> SUFFICES ASSUME Inv, HandshakeSynSent PROVE Inv'
  OBVIOUS
<1>e. PICK e \in Ends : e = "active"
  BY PeerFacts
<1> DEFINE p == Head(inbound[e])
           c == [ctx[e] EXCEPT !.ack_num = Wrap(p.seq + 1),
                               !.next_seq_expected = Wrap(p.seq + 1),
                               !.peer_window_size = p.win]
<1>1. /\ thread[e] = "handshake" /\ ctx[e].connection_state = "SYN_SENT" /\ arrived[e] > 0
      /\ IF SynAckExpected(ctx[e], p)
           THEN Establish(e, c, <<MakePacket(c, {"ACK"}, 0, 0)>>)
           ELSE Refuse(e)
  BY <1>e DEF HandshakeSynSent, AwaitsPacket
<1>2. /\ p = inbound[e][1] /\ p \in Packet /\ 1 \in 1 .. Len(inbound[e]) /\ inbound[e] # <<>>
      /\ sent[Peer(e)] = 0 => p.len = 0
      /\ PacketOK(p, Isn(e), Isn(Peer(e)), Acked(Peer(e)))
  BY <1>1, HandshakeFacts
<1>3. inbound[e][1].len = 0
  <2>1. sent[Peer(e)] = 0
    BY <1>1, <1>e, PeerFacts DEF Inv, OpenInv, Opening
  <2> QED
    BY <1>2, <2>1
<1>4. CASE ~SynAckExpected(ctx[e], p)
  BY <1>1, <1>3, <1>4, RefuseStep
<1>5. CASE SynAckExpected(ctx[e], p)
  <2>1. Establish(e, c, <<MakePacket(c, {"ACK"}, 0, 0)>>)
    BY <1>1, <1>5
  <2>2. "SYN" \in p.flags /\ p.seq = Isn(Peer(e)) /\ Isn(Peer(e)) \in Nat /\ p.win \in Int
    BY <1>2, <1>5, EndFacts, PeerFacts DEF SynAckExpected, PacketOK, Packet
  <2>3. Wrap(p.seq + 1) = Wrap(Isn(Peer(e)) + 1) /\ Wrap(p.seq + 1) \in SeqNums
    BY <2>2, WrapType, SMTT(30)
  <2>4. ~Unanswered
    BY <1>2, <1>e, <2>2, HangupFacts DEF Inv, OpenInv
  <2>5. ctx[e] \in Context
    BY EndFacts
  <2> HIDE DEF p
  <2>6. /\ c \in Context /\ c.initial_sequence_num = ctx[e].initial_sequence_num
        /\ c.sequence_num = ctx[e].sequence_num /\ c.ack_num = Wrap(Isn(Peer(e)) + 1)
        /\ c.next_seq_expected = Wrap(Isn(Peer(e)) + 1)
        /\ c.fin_sent = ctx[e].fin_sent /\ c.fin_received = ctx[e].fin_received
        /\ c.fin_acked = ctx[e].fin_acked
    BY <2>2, <2>3, <2>5 DEF Context
  <2> HIDE DEF c
  <2>7. PICK a \in Packet : a = MakePacket(c, {"ACK"}, 0, 0)
    BY <2>6, MakePacketType
  <2>8. a.flags = {"ACK"} /\ a.pos = 0 /\ a.len = 0 /\ a.ack = Wrap(Isn(Peer(e)) + 1)
    BY <2>6, <2>7 DEF MakePacket
  <2>9. PICK ps : ps = <<a>> /\ Establish(e, c, ps)
    BY <2>1, <2>7
  <2>10. ctx[e].connection_state # "CLOSED" /\ e # "passive"
    BY <1>1, <1>e
  <2> QED
    BY <1>1, <1>3, <2>4, <2>6, <2>8, <2>9, <2>10, EstablishStep
<1> QED
  BY <1>4, <1>5

\* The passive end takes what should be the ACK of its SYN+ACK.
LEMMA HandshakeSynRcvdStep == Inv /\ HandshakeSynRcvd => Inv'
<1> SUFFICES ASSUME Inv, HandshakeSynRcvd PROVE Inv'
  OBVIOUS
<1>e. PICK e \in Ends : e = "passive"
  BY PeerFacts
<1> DEFINE p == Head(inbound[e])
           c == [ctx[e] EXCEPT !.peer_window_size = p.win]
<1>1. /\ thread[e] = "handshake" /\ ctx[e].connection_state = "SYN_RCVD" /\ arrived[e] > 0
      /\ IF AckExpected(ctx[e], p) THEN Establish(e, c, <<>>) ELSE Refuse(e)
  BY <1>e DEF HandshakeSynRcvd, AwaitsPacket
<1>2. /\ p = inbound[e][1] /\ p \in Packet /\ 1 \in 1 .. Len(inbound[e]) /\ inbound[e] # <<>>
      /\ Acked(e) = 0
  BY <1>1, HandshakeFacts
<1>3. inbound[e][1].len = 0
  BY <1>1, <1>2, <1>e DEF Inv, OpenInv
<1>4. CASE ~AckExpected(ctx[e], p)
  BY <1>1, <1>3, <1>4, RefuseStep
<1>5. CASE AckExpected(ctx[e], p)
  <2>1. Establish(e, c, <<>>)
    BY <1>1, <1>5
  <2>2. "ACK" \in p.flags /\ p.win \in Int
    BY <1>2, <1>5 DEF AckExpected, Packet
  <2>3. ~Opening("active")
    BY <1>2, <1>e, <2>2 DEF Inv, OpenInv
  <2>4. ctx[e] \in Context /\ NumberInv(e) /\ Isn(Peer(e)) \in Nat /\ accepted[e] = 0
    BY <1>1, EndFacts, PeerFacts, HandshakeFacts
  <2>5. /\ ctx[e].ack_num = Wrap(Isn(Peer(e)) + 1 + 0)
        /\ ctx[e].next_seq_expected = Wrap(Isn(Peer(e)) + 1 + 0)
    BY <1>1, <1>2, <2>4 DEF NumberInv, Synced
  <2>6. Isn(Peer(e)) + 1 + 0 = Isn(Peer(e)) + 1
    BY <2>4, SMTT(30)
  <2> HIDE DEF p
  <2>7. /\ c \in Context /\ c.initial_sequence_num = ctx[e].initial_sequence_num
        /\ c.sequence_num = ctx[e].sequence_num /\ c.ack_num = Wrap(Isn(Peer(e)) + 1)
        /\ c.next_seq_expected = Wrap(Isn(Peer(e)) + 1)
        /\ c.fin_sent = ctx[e].fin_sent /\ c.fin_received = ctx[e].fin_received
        /\ c.fin_acked = ctx[e].fin_acked
    BY <2>2, <2>4, <2>5, <2>6 DEF Context
  <2> HIDE DEF c
  <2>8. PICK a \in Packet : a = MakePacket(c, {"ACK"}, 0, 0)
    BY <2>7, MakePacketType
  <2>9. a.flags = {"ACK"} /\ a.pos = 0 /\ a.len = 0 /\ a.ack = Wrap(Isn(Peer(e)) + 1)
    BY <2>7, <2>8 DEF MakePacket
  <2>10. PICK ps : ps = <<>> /\ Establish(e, c, ps)
    BY <2>1
  <2>11. ctx[e].connection_state # "CLOSED" /\ e # "active"
    BY <1>1, <1>e
  <2> QED
    BY <1>1, <1>3, <2>3, <2>7, <2>9, <2>10, <2>11, EstablishStep
<1> QED
  BY <1>4, <1>5

\* The passive end takes what should be a SYN and answers with a SYN+ACK.
LEMMA HandshakeListenStep == Inv /\ HandshakeListen => Inv'
<1> SUFFICES ASSUME Inv, HandshakeListen PROVE Inv'
  OBVIOUS
<1>0. TypeOK /\ OpenInv
  BY DEF Inv
<1>e. PICK e \in Ends : e = "passive"
  BY PeerFacts
<1>y. PICK y \in Ends : y = "active"
  BY PeerFacts
<1>z. Peer(e) = y /\ Peer(y) = e /\ y # e /\ \A x \in Ends : x = e \/ x = y
  BY <1>e, <1>y, PeerFacts
<1> DEFINE p == Head(inbound[e])
           c == [ctx[e] EXCEPT !.ack_num = Wrap(p.seq + 1),
                               !.next_seq_expected = Wrap(p.seq + 1),
                               !.peer_window_size = p.win,
                               !.connection_state = "SYN_RCVD"]
           d == [c EXCEPT !.sequence_num = Wrap(c.sequence_num + 1)]
<1>1. /\ thread[e] = "handshake" /\ ctx[e].connection_state = "CLOSED" /\ arrived[e] > 0
      /\ "SYN" \notin p.flags => Refuse(e)
      /\ "SYN" \in p.flags =>
            /\ ctx' = [ctx EXCEPT ![e] = d]
            /\ TakeAndSend(e, <<MakePacket(c, {"SYN", "ACK"}, 0, 0)>>)
            /\ UNCHANGED <<thread, event, app_recv_queue, app_send_queue, close_requested,
                           result, eof, app, written, sent, accepted, taken>>
  BY <1>e DEF HandshakeListen, AwaitsPacket, queueVars, sockVars, countVars
<1>2. /\ p = inbound[e][1] /\ p \in Packet /\ 1 \in 1 .. Len(inbound[e]) /\ inbound[e] # <<>>
      /\ sent[y] = 0 => p.len = 0
      /\ PacketOK(p, Isn(e), Isn(y), Acked(y))
      /\ sent[e] = 0 /\ accepted[e] = 0 /\ ~Gone(e)
      /\ ctx[e].fin_sent = FALSE /\ ctx[e].fin_received = FALSE /\ ctx[e].fin_acked = FALSE
  BY <1>1, <1>z, HandshakeFacts
<1>3. /\ Unanswered /\ sent[y] = 0 /\ thread[y] \notin {"none", "started", "loop"}
  BY <1>0, <1>1, <1>e, <1>y DEF OpenInv, Unanswered
<1>4. inbound[e][1].len = 0
  BY <1>2, <1>3
<1>5. CASE "SYN" \notin p.flags
  BY <1>1, <1>4, <1>5, RefuseStep
<1>6. CASE "SYN" \in p.flags
  <2>1. p.seq = Isn(y) /\ Isn(y) \in Nat /\ p.win \in Int
    BY <1>2, <1>6, EndFacts DEF PacketOK, Packet
  <2>2. Wrap(p.seq + 1) = Wrap(Isn(y) + 1) /\ Wrap(p.seq + 1) \in SeqNums
    BY <2>1, WrapType, SMTT(30)
  <2>3. ctx[e] \in Context /\ NumberInv(e) /\ ReadInv(e) /\ inbound[e] \in Seq(Packet)
        /\ Isn(e) \in Nat /\ FlowInv(e)
    BY EndFacts
  <2>4. ctx[e].sequence_num = Isn(e)
    BY <1>1, <2>3 DEF NumberInv
  <2>5. /\ ctx' = [ctx EXCEPT ![e] = d]
        /\ TakeAndSend(e, <<MakePacket(c, {"SYN", "ACK"}, 0, 0)>>)
        /\ UNCHANGED <<thread, event, app_recv_queue, app_send_queue, close_requested,
                       result, eof, app, written, sent, accepted, taken>>
    BY <1>1, <1>6
  <2> HIDE DEF p
  <2>6. /\ c \in Context /\ c.initial_sequence_num = ctx[e].initial_sequence_num
        /\ c.sequence_num = Isn(e) /\ c.ack_num = Wrap(Isn(y) + 1)
        /\ c.next_seq_expected = Wrap(Isn(y) + 1) /\ c.connection_state = "SYN_RCVD"
        /\ c.fin_sent = FALSE /\ c.fin_received = FALSE /\ c.fin_acked = FALSE
    BY <1>2, <2>1, <2>2, <2>3, <2>4 DEF Context, CStates
  <2> HIDE DEF c
  <2>7. Wrap(c.sequence_num + 1) \in SeqNums
    BY <2>3, <2>6, WrapType, SMTT(30)
  <2>8. /\ d \in Context /\ d.initial_sequence_num = Isn(e)
        /\ d.sequence_num = Wrap(Isn(e) + 1) /\ d.ack_num = Wrap(Isn(y) + 1)
        /\ d.next_seq_expected = Wrap(Isn(y) + 1) /\ d.connection_state = "SYN_RCVD"
        /\ d.fin_sent = FALSE /\ d.fin_received = FALSE /\ d.fin_acked = FALSE
    BY <2>6, <2>7 DEF Context, Isn
  <2> HIDE DEF d
  <2>9. PICK a \in Packet : a = MakePacket(c, {"SYN", "ACK"}, 0, 0)
    BY <2>6, MakePacketType
  <2>10. /\ a.flags = {"SYN", "ACK"} /\ a.pos = 0 /\ a.len = 0
         /\ a.ack = Wrap(Isn(y) + 1) /\ a.seq = Isn(e)
    BY <2>6, <2>9 DEF MakePacket
  <2>11. Quiet(a) /\ a # Hangup /\ PacketOK(a, Isn(Peer(e)), Isn(e), 0)
    <3>1. Quiet(a) /\ a # Hangup
      BY <2>10, HangupFacts DEF Quiet
    <3>2. 0 \in 0 .. 0 /\ a.ack = Wrap(Isn(Peer(e)) + 1 + 0)
      BY <1>z, <2>1, <2>10, SMTT(30)
    <3> QED
      BY <2>10, <3>1, <3>2, SMTT(30) DEF PacketOK
  <2>12. PICK ps : ps = <<a>> /\ TakeAndSend(e, ps)
    BY <2>5, <2>9
  <2>13. PICK w \in Context : w = d
    BY <2>8
  <2>14. /\ ctx'[e] = w /\ ctx'[y] = ctx[y] /\ ctx' = [ctx EXCEPT ![e] = w]
    BY <1>0, <1>z, <2>5, <2>13 DEF TypeOK
  <2>15. NumberInv(e)'
    <3>1. Isn(e)' = Isn(e) /\ Isn(Peer(e))' = Isn(y)
      BY <1>z, <2>8, <2>13, <2>14 DEF Isn
    <3>2. /\ Acked(e)' = 0 /\ Bit(w.fin_sent) = 0
      BY <1>2, <2>5, <2>8, <2>13, <2>14, SMTT(60) DEF Acked, Bit
    <3>3. /\ Isn(e) + 1 + sent[e] + Bit(w.fin_sent) = Isn(e) + 1
          /\ Isn(y) + 1 + 0 = Isn(y) + 1 /\ Isn(y) + 1 + accepted[e] = Isn(y) + 1
      BY <1>2, <2>1, <2>3, <3>2, SMTT(30)
    <3>4. /\ w.sequence_num = Wrap(Isn(e) + 1 + sent[e] + Bit(w.fin_sent))
          /\ w.ack_num = Wrap(Isn(y) + 1 + 0)
          /\ w.next_seq_expected = Wrap(Isn(y) + 1 + accepted[e])
          /\ w.connection_state = "SYN_RCVD"
      BY <2>8, <2>13, <3>3
    <3>5. ctx'[e] = w /\ sent'[e] = sent[e] /\ accepted'[e] = accepted[e]
      BY <2>5, <2>14
    <3> QED
      BY <3>1, <3>2, <3>4, <3>5 DEF NumberInv
  <2>16. ReadInv(e)'
    <3>1. Gone(e)' = Gone(e)
      BY <2>5 DEF Gone
    <3>2. ctx[e].fin_received => ctx'[e].fin_received
      BY <1>2
    <3> QED
      BY <2>3, <2>5, <3>1, <3>2, KeepRead
  <2>17. /\ inbound'[e] = Tail(inbound[e])
         /\ \A i \in 1 .. Len(inbound'[e]) :
               \E j \in 1 .. Len(inbound[e]) : inbound'[e][i] = inbound[e][j]
    <3>1. inbound'[e] = Tail(inbound[e])
      BY <1>1, <2>12, TakeOne
    <3> QED
      BY <1>2, <2>3, <3>1, Members, SMTT(30)
  <2>18. inbound'[e] # <<>> => inbound'[e][1].len = 0
    <3>1. \A i \in 1 .. Len(inbound[e]) : inbound[e][i].len = 0
      <4>1. SUFFICES ASSUME NEW i \in 1 .. Len(inbound[e]) PROVE inbound[e][i].len = 0
        OBVIOUS
      <4>2. inbound[e][i].pos + inbound[e][i].len <= 0
        BY <1>2, <1>3, <1>z, <2>3 DEF FlowInv, Flow
      <4>3. inbound[e][i].pos \in Nat /\ inbound[e][i].len \in Nat
        BY <2>3, QueueFacts
      <4> QED
        BY <4>2, <4>3, SMTT(30)
    <3>2. inbound'[e] \in Seq(Packet)
      BY <1>2, <2>3, <2>17, TailFacts
    <3>3. inbound'[e] # <<>> => 1 \in 1 .. Len(inbound'[e])
      BY <3>2, SMTT(60)
    <3> QED
      BY <2>17, <3>1, <3>3
  <2>19. OpenInv'
    <3>1. /\ ctx'["active"] = ctx["active"] /\ ctx'["passive"] = w
          /\ w.connection_state = "SYN_RCVD" /\ thread["passive"] = "handshake"
          /\ w.fin_sent = FALSE /\ w.fin_received = FALSE /\ w.fin_acked = FALSE
      BY <1>1, <1>e, <1>y, <2>8, <2>13, <2>14
    <3>2. \A x \in Ends : Opening(x)' =>
             /\ sent'[x] = 0 /\ accepted'[x] = 0
             /\ ~ctx'[x].fin_sent /\ ~ctx'[x].fin_received /\ ~ctx'[x].fin_acked
      BY <1>0, <2>5, <3>1 DEF OpenInv, Opening, Ends
    <3>3. ~Unanswered'
      BY <2>5, <3>1 DEF Unanswered
    <3>4. Opening("active")' =>
             /\ thread'["passive"] # "loop" /\ sent'["passive"] = 0 /\ ~ctx'["passive"].fin_sent
             /\ \A i \in 1 .. Len(inbound'["passive"]) :
                   "ACK" \notin inbound'["passive"][i].flags
      <4>1. \A i \in 1 .. Len(inbound["passive"]) : "ACK" \notin inbound["passive"][i].flags
        BY <1>0, <1>3 DEF OpenInv
      <4> QED
        BY <1>2, <1>e, <2>5, <2>17, <3>1, <4>1
    <3>5. thread'["active"] \notin {"none", "started", "loop"}
      BY <1>3, <1>y, <2>5
    <3>6. thread'["active"] = "handshake" => ctx'["active"].connection_state = "SYN_SENT"
      BY <1>0, <2>5, <3>1 DEF OpenInv
    <3>7. inbound'["passive"] # <<>> => inbound'["passive"][1].len = 0
      BY <1>e, <2>18
    <3> QED
      BY <3>2, <3>3, <3>4, <3>5, <3>6, <3>7 DEF OpenInv
  <2>20. /\ w.initial_sequence_num = Isn(e) /\ w.connection_state \notin FinStates
         /\ w.fin_sent = FALSE /\ w.fin_received = FALSE /\ w.fin_acked = FALSE
    BY <2>8, <2>13 DEF FinStates
  <2>21. /\ thread' = [thread EXCEPT ![e] = "handshake"]
         /\ result' \in [Ends -> {"blocking", "connected", "refused"}]
         /\ app_send_queue' \in [Ends -> Seq(Buffer)]
         /\ app_send_queue'[Peer(e)] = app_send_queue[Peer(e)]
    BY <1>0, <1>1, <2>5 DEF TypeOK
  <2> QED
    BY <1>1, <1>4, <2>5, <2>10, <2>11, <2>12, <2>14, <2>15, <2>16, <2>19,
       <2>20, <2>21, HandshakeStep
<1> QED
  BY <1>5, <1>6

-----------------------------------------------------------------------------
(* CloseInv: the start of a connection.                                    *)

\* myconnect() starts the threads.
LEMMA MyConnectClose == Inv /\ CloseInv /\ MyConnect => CloseInv'
<1> SUFFICES ASSUME Inv, CloseInv, MyConnect PROVE CloseInv'
  OBVIOUS
<1>e. PICK e \in Ends : e = "active"
  BY PeerFacts
<1>1. /\ UNCHANGED <<ctx, inbound, result, app_recv_queue>> /\ app[e] = "idle"
      /\ app' = [app EXCEPT ![e] = "connecting"] /\ thread' = [thread EXCEPT ![e] = "started"]
  BY <1>e DEF MyConnect, netVars, sockVars, queueVars
<1>2. ResultInv(e) /\ EventInv(e)
  BY CloseFacts, EndFacts
<1>3. thread[e] = "none" /\ ~Gone(e)
  BY <1>1, <1>2 DEF EventInv, Gone
<1>4. Opening(e) /\ ~SynMayBeLate(e)
  BY <1>e, <1>3 DEF Opening, SynMayBeLate
<1>5. thread'[e] = "started" /\ app'[e] = "connecting" /\ result'[e] = result[e]
  BY <1>1 DEF Inv, TypeOK
<1>6. ResultInv(e)'
  BY <1>e, <1>2, <1>3, <1>5 DEF ResultInv
<1>7. \A x \in Ends : \A i \in 1 .. Len(app_recv_queue'[x]) : app_recv_queue'[x][i].len > 0
  BY <1>1, CloseFacts
<1>8. PICK t, v : t = "started" /\ v = "connecting"
  OBVIOUS
<1>9. /\ UNCHANGED <<ctx, inbound, result>> /\ thread' = [thread EXCEPT ![e] = t]
      /\ app' = [app EXCEPT ![e] = v] /\ ~(t \in {"loop", "handshake"})
  BY <1>1, <1>8
<1> QED
  BY <1>3, <1>4, <1>6, <1>7, <1>9, CallStep

\* A thread in transport_init() has seen nothing of the end of the connection.
LEMMA OpeningFacts ==
    ASSUME Inv, CloseInv, NEW e \in Ends, thread[e] \in {"started", "handshake"}
    PROVE  /\ ~ctx[e].fin_sent /\ ~ctx[e].fin_received /\ ~ctx[e].fin_acked /\ ~ctx[e].done
           /\ ~ctx[Peer(e)].fin_received /\ ~ctx[Peer(e)].fin_acked
           /\ ~Gone(e) /\ app[e] \notin {"open", "closed"} /\ result[e] # "connected"
           /\ e = "passive" => app[e] \in {"accepting", "failed", "killed"}
<1>1. Opening(e)
  BY DEF Opening
<1>2. ~ctx[e].fin_sent /\ ~ctx[e].fin_received /\ ~ctx[e].fin_acked
  BY <1>1 DEF Inv, OpenInv
<1>3. EventInv(e) /\ FinInv(Peer(e)) /\ Peer(Peer(e)) = e
  BY EndFacts, PeerFacts
<1>4. ~ctx[Peer(e)].fin_received /\ ~ctx[Peer(e)].fin_acked
  BY <1>2, <1>3 DEF FinInv
<1>5. StateInv(e) /\ ResultInv(e)
  BY CloseFacts
<1>6. ~ctx[e].done
  BY <1>1, <1>5 DEF StateInv
<1>7. ~Gone(e)
  BY <1>3 DEF EventInv
<1>8. /\ app[e] \notin {"open", "closed"} /\ result[e] # "connected"
      /\ e = "passive" => app[e] \in {"accepting", "failed", "killed"}
  BY <1>5 DEF ResultInv
<1> QED
  BY <1>2, <1>4, <1>6, <1>7, <1>8

\* The peer of a thread in transport_init() may get a packet from it.
LEMMA OpeningPeer ==
    ASSUME Inv, CloseInv, NEW e \in Ends, thread[e] \in {"started", "handshake"},
           NEW a \in Packet, ctx'[Peer(e)] = ctx[Peer(e)], thread'[Peer(e)] = thread[Peer(e)],
           result'[Peer(e)] = result[Peer(e)], UNCHANGED <<app, app_recv_queue>>,
           ~ctx'[e].fin_received,
           \/ inbound'[Peer(e)] = inbound[Peer(e)]
           \/ inbound'[Peer(e)] = Append(inbound[Peer(e)], a)
    PROVE  CloseEnd(Peer(e))'
<1>y. PICK y \in Ends : y = Peer(e) /\ Peer(y) = e
  BY PeerFacts
<1>1. /\ ~Gone(Peer(y)) /\ app[Peer(y)] # "killed" /\ ~ctx[y].fin_acked
      /\ StateInv(y) /\ ResultInv(y) /\ inbound[y] \in Seq(Packet)
      /\ \A i \in 1 .. Len(app_recv_queue[y]) : app_recv_queue[y][i].len > 0
  BY <1>y, OpeningFacts, CloseFacts, EndFacts DEF Gone
<1>2. /\ ctx'[y] = ctx[y] /\ thread'[y] = thread[y] /\ result'[y] = result[y]
      /\ app'[y] = app[y] /\ app_recv_queue'[y] = app_recv_queue[y]
  BY <1>y
<1>3. Opening(y)' => Opening(y)
  BY <1>2 DEF Opening
<1>4. StateInv(y)'
  BY <1>1, <1>2, <1>3, KeepState
<1>5. ResultInv(y)'
  BY <1>1, <1>2, KeepResult
<1>6. LastAck(inbound'[y], ctx'[y], ctx'[Peer(y)].fin_received)
  BY <1>y, <1>1, <1>2 DEF LastAck
<1>7. HangupLast(inbound'[y], SynMayBeLate(y)')
  <2>1. PICK q : q = inbound[y]
    OBVIOUS
  <2>2. q \in Seq(Packet) /\ \A i \in 1 .. Len(q) : q[i] # Hangup
    BY <1>1, <2>1, NoHangup
  <2>3. \A i \in 1 .. Len(q) - 1 : i \in 1 .. Len(q)
    BY <2>2, SMTT(30)
  <2>4. HangupLast(q, FALSE) /\ HangupLast(Append(q, a), FALSE)
    BY <2>2, <2>3, HangupAppend DEF HangupLast
  <2>5. inbound'[y] = q \/ inbound'[y] = Append(q, a)
    BY <1>y, <2>1
  <2>6. HangupLast(inbound'[y], FALSE)
    BY <2>4, <2>5
  <2> QED
    BY <2>6 DEF HangupLast
<1> QED
  BY <1>y, <1>1, <1>2, <1>4, <1>5, <1>6, <1>7 DEF CloseEnd

\* The end whose transport_init() makes a step.
LEMMA OpeningSelf ==
    ASSUME Inv, CloseInv, NEW e \in Ends, thread[e] \in {"started", "handshake"},
           NEW d, ctx'[e] = d, ctx'[Peer(e)] = ctx[Peer(e)],
           ~d.fin_sent, ~d.fin_received, ~d.fin_acked, ~d.done,
           d.connection_state \in {"CLOSED", "SYN_SENT", "SYN_RCVD", "ESTABLISHED"},
           thread'[e] = "loop" => d.connection_state # "SYN_SENT",
           ResultInv(e)', UNCHANGED app_recv_queue,
           HangupLast(inbound'[e], SynMayBeLate(e)')
    PROVE  CloseEnd(e)'
<1>1. ~ctx[Peer(e)].fin_received
  BY OpeningFacts
<1>2. StateInv(e)'
  BY DEF StateInv
<1>3. LastAck(inbound'[e], ctx'[e], ctx'[Peer(e)].fin_received)
  BY <1>1 DEF LastAck
<1>4. \A i \in 1 .. Len(app_recv_queue'[e]) : app_recv_queue'[e][i].len > 0
  BY CloseFacts
<1> QED
  BY <1>2, <1>3, <1>4 DEF CloseEnd

\* A thread that goes on has not been told anything yet, or is told now.
LEMMA OpeningResult ==
    ASSUME Inv, CloseInv, NEW e \in Ends, thread[e] \in {"started", "handshake"},
           UNCHANGED app, thread'[e] \in {"handshake", "loop"},
           result'[e] = result[e] \/ thread'[e] = "loop"
    PROVE  ResultInv(e)'
<1>1. /\ app'[e] \notin {"open", "closed"} /\ result[e] # "connected"
      /\ e = "passive" => app'[e] \in {"accepting", "failed", "killed"}
  BY OpeningFacts
<1> QED
  BY <1>1 DEF ResultInv

\* The listening socket hands a SYN over to a new context, possibly after the
\* end of the TCP connection.
LEMMA DispatchClose == Inv /\ CloseInv /\ Dispatch => CloseInv'
<1> SUFFICES ASSUME Inv, CloseInv, Dispatch PROVE CloseInv'
  OBVIOUS
<1>e. PICK e \in Ends, y \in Ends :
         /\ e = "passive" /\ y = "active" /\ y = Peer(e) /\ Peer(y) = e /\ y # e
         /\ \A x \in Ends : x = e \/ x = y
  BY PeerFacts
<1>1. /\ UNCHANGED <<ctx, result, app_recv_queue, app>> /\ thread[e] = "none"
      /\ thread' = [thread EXCEPT ![e] = "started"] /\ inbound[e] # <<>>
  BY <1>e DEF Dispatch, sockVars, queueVars
<1>2. thread'[e] = "started" /\ thread'[y] = thread[y]
  BY <1>e, <1>1 DEF Inv, TypeOK
<1>3. /\ inbound'[y] = inbound[y]
      /\ \A i \in 1 .. Len(inbound'[e]) : \E j \in 1 .. Len(inbound[e]) : inbound'[e][i] = inbound[e][j]
  <2>1. CASE UNCHANGED inbound
    BY <2>1
  <2>2. CASE Len(inbound[e]) = 2 /\ inbound' = [inbound EXCEPT ![e] = <<@[2], @[1]>>]
    <3>1. inbound'[y] = inbound[y] /\ inbound'[e] = <<inbound[e][2], inbound[e][1]>>
      BY <1>e, <2>2 DEF Inv, TypeOK
    <3> QED
      BY <2>2, <3>1, SMTT(30)
  <2> QED
    BY <1>e, <2>1, <2>2 DEF Dispatch
<1>4. /\ StateInv(e) /\ ResultInv(e) /\ Opening(e) /\ FinInv(y)
      /\ \A i \in 1 .. Len(app_recv_queue[e]) : app_recv_queue[e][i].len > 0
  BY <1>1, CloseFacts, EndFacts DEF Opening
<1>5. AnswerInv'
  <2>1. AnswerInv /\ thread'["active"] = thread["active"] /\ thread'["passive"] # "loop"
        /\ inbound'["active"] = inbound["active"]
    BY <1>e, <1>2, <1>3, CloseFacts
  <2>2. ctx["active"].connection_state = "SYN_SENT" =>
           \A i \in 1 .. Len(inbound'["passive"]) : "ACK" \notin inbound'["passive"][i].flags
    <3>1. ctx["active"].connection_state = "SYN_SENT" =>
             \A i \in 1 .. Len(inbound["passive"]) : "ACK" \notin inbound["passive"][i].flags
      BY <2>1 DEF AnswerInv
    <3>2. \A i \in 1 .. Len(inbound'["passive"]) : \E j \in 1 .. Len(inbound["passive"]) :
             inbound'["passive"][i] = inbound["passive"][j]
      BY <1>e, <1>3
    <3> QED
      BY <3>1, <3>2
  <2> QED
    BY <1>1, <2>1, <2>2 DEF AnswerInv, SynAckExpected
<1>6. CloseEnd(e)'
  <2>1. StateInv(e)'
    <3>1. ~ctx[e].done
      BY <1>4 DEF StateInv
    <3> QED
      BY <1>1, <1>2, <1>4, <3>1 DEF StateInv
  <2>2. ResultInv(e)'
    BY <1>e, <1>1, <1>2, <1>4 DEF ResultInv
  <2>3. ~ctx[e].fin_sent /\ ~ctx[e].fin_acked /\ ~ctx[y].fin_received
    <3>1. ~ctx[e].fin_sent /\ ~ctx[e].fin_acked
      BY <1>4 DEF Inv, OpenInv
    <3> QED
      BY <1>e, <1>4, <3>1 DEF FinInv
  <2>4. LastAck(inbound'[e], ctx'[e], ctx'[Peer(e)].fin_received)
    BY <1>e, <1>1, <2>3 DEF LastAck
  <2>5. SynMayBeLate(e)'
    BY <1>e, <1>2 DEF SynMayBeLate, Unanswered
  <2> QED
    BY <1>1, <1>4, <2>1, <2>2, <2>4, <2>5 DEF CloseEnd, HangupLast
<1>7. CloseEnd(y)'
  <2>1. CloseEnd(y) /\ Gone(Peer(y))' = Gone(Peer(y)) /\ app'[Peer(y)] = app[Peer(y)]
        /\ ctx'[Peer(y)].fin_received = ctx[Peer(y)].fin_received /\ ctx'[y] = ctx[y]
        /\ app'[y] = app[y] /\ result'[y] = result[y] /\ app_recv_queue'[y] = app_recv_queue[y]
    BY <1>1 DEF CloseInv, Gone
  <2> QED
    BY <1>2, <1>3, <2>1, KeepClose
<1> QED
  BY <1>e, <1>5, <1>6, <1>7 DEF CloseInv

\* The new context of the passive end.
LEMMA InitPassiveClose == Inv /\ CloseInv /\ InitPassive => CloseInv'
<1> SUFFICES ASSUME Inv, CloseInv, InitPassive PROVE CloseInv'
  OBVIOUS
<1>e. PICK e \in Ends, y \in Ends :
         /\ e = "passive" /\ y = "active" /\ y = Peer(e) /\ Peer(y) = e /\ y # e
         /\ \A x \in Ends : x = e \/ x = y
  BY PeerFacts
<1>1. PICK isn \in InitialSeqNums : ctx' = [ctx EXCEPT ![e] = NewContext(isn)]
  BY <1>e DEF InitPassive
<1>2. /\ UNCHANGED <<inbound, result, app_recv_queue, app>> /\ thread[e] = "started"
      /\ thread' = [thread EXCEPT ![e] = "handshake"]
  BY <1>e DEF InitPassive, netVars, sockVars, queueVars
<1>d. PICK d : d = NewContext(isn)
  OBVIOUS
<1>3. /\ thread'[e] = "handshake" /\ thread'[y] = thread[y] /\ ctx'[e] = d /\ ctx'[y] = ctx[y]
  BY <1>e, <1>1, <1>2, <1>d DEF Inv, TypeOK
<1>4. ~d.fin_sent /\ ~d.fin_received /\ ~d.fin_acked /\ ~d.done /\ d.connection_state = "CLOSED"
  BY <1>d DEF NewContext
<1>5. AnswerInv'
  <2>1. AnswerInv /\ thread'["active"] = thread["active"] /\ thread'["passive"] # "loop"
        /\ ctx'["active"] = ctx["active"]
    BY <1>e, <1>3, CloseFacts
  <2> QED
    BY <1>2, <2>1 DEF AnswerInv, SynAckExpected
<1>6. SynMayBeLate(e)'
  BY <1>e, <1>3, <1>4 DEF SynMayBeLate, Unanswered
<1>7. CloseEnd(e)'
  <2>1. ResultInv(e)'
    BY <1>2, <1>3, OpeningResult
  <2>2. HangupLast(inbound'[e], SynMayBeLate(e)')
    BY <1>6 DEF HangupLast
  <2>3. /\ d.connection_state \in {"CLOSED", "SYN_SENT", "SYN_RCVD", "ESTABLISHED"}
        /\ thread'[e] # "loop" /\ thread[e] \in {"started", "handshake"}
        /\ ctx'[Peer(e)] = ctx[Peer(e)] /\ UNCHANGED app_recv_queue
    BY <1>e, <1>2, <1>3, <1>4
  <2> QED
    BY <1>3, <1>4, <2>1, <2>2, <2>3, OpeningSelf
<1>8. CloseEnd(y)'
  <2>1. /\ thread[e] \in {"started", "handshake"} /\ ctx'[Peer(e)] = ctx[Peer(e)]
        /\ thread'[Peer(e)] = thread[Peer(e)] /\ result'[Peer(e)] = result[Peer(e)]
        /\ UNCHANGED <<app, app_recv_queue>> /\ ~ctx'[e].fin_received
        /\ inbound'[Peer(e)] = inbound[Peer(e)]
    BY <1>e, <1>2, <1>3, <1>4
  <2>2. CloseEnd(Peer(e))'
    BY <2>1, OpeningPeer, HangupType
  <2> QED
    BY <1>e, <2>2
<1> QED
  BY <1>e, <1>5, <1>7, <1>8 DEF CloseInv

\* The SYN of the active end, or that nobody listens.
LEMMA InitActiveClose == Inv /\ CloseInv /\ InitActive => CloseInv'
<1> SUFFICES ASSUME Inv, CloseInv, InitActive PROVE CloseInv'
  OBVIOUS
<1>e. PICK e \in Ends, y \in Ends :
         /\ e = "active" /\ y = "passive" /\ y = Peer(e) /\ Peer(y) = e /\ y # e
         /\ \A x \in Ends : x = e \/ x = y
  BY PeerFacts
<1> DEFINE c(isn) == [NewContext(isn) EXCEPT !.connection_state = "SYN_SENT"]
<1>1. PICK isn \in InitialSeqNums :
         /\ ctx' = [ctx EXCEPT ![e] = [c(isn) EXCEPT !.sequence_num = Wrap(isn + 1)]]
         /\ IF Gone(y) THEN inbound' = [inbound EXCEPT ![e] = <<Hangup>>]
            ELSE Send(e, <<MakePacket(c(isn), {"SYN"}, 0, 0)>>)
  BY <1>e DEF InitActive
<1>2. /\ UNCHANGED <<result, app_recv_queue, app>> /\ thread[e] = "started"
      /\ thread' = [thread EXCEPT ![e] = "handshake"]
  BY <1>e DEF InitActive, sockVars, queueVars
<1>d. PICK d, a : /\ d = [c(isn) EXCEPT !.sequence_num = Wrap(isn + 1)]
                  /\ a = MakePacket(c(isn), {"SYN"}, 0, 0)
  OBVIOUS
<1>3. /\ thread'[e] = "handshake" /\ thread'[y] = thread[y] /\ ctx'[e] = d /\ ctx'[y] = ctx[y]
  BY <1>e, <1>1, <1>2, <1>d DEF Inv, TypeOK
<1>4. ~d.fin_sent /\ ~d.fin_received /\ ~d.fin_acked /\ ~d.done /\ d.connection_state = "SYN_SENT"
  BY <1>d DEF NewContext
<1>5. a \in Packet /\ a.flags = {"SYN"}
  <2>1. isn \in SeqNums /\ RECEIVER_WINDOW_SIZE - 0 \in Nat /\ 0 \in SeqNums
    BY ConstantFacts, SMTT(30) DEF SeqNums
  <2> QED
    BY <1>d, <2>1, SMTT(30) DEF MakePacket, NewContext, Packet
<1>6. /\ inbound[e] = <<>> /\ inbound[y] = <<>> /\ thread[y] = "none"
  BY <1>e, <1>2 DEF Inv, OpenInv
<1>7. /\ inbound'[e] = <<>> \/ inbound'[e] = <<Hangup>>
      /\ inbound'[y] = inbound[y] \/ inbound'[y] = Append(inbound[y], a)
  <2>1. CASE Gone(y)
    BY <1>e, <1>1, <1>6, <2>1 DEF Inv, TypeOK
  <2>2. CASE ~Gone(y)
    <3>1. Send(e, <<a>>)
      BY <1>1, <1>d, <2>2
    <3> QED
      BY <1>e, <1>5, <1>6, <2>2, <3>1, SendOne
  <2> QED
    BY <2>1, <2>2
<1> HIDE DEF c
<1>8. AnswerInv'
  <2>1. \A i \in 1 .. Len(inbound'[e]) : inbound'[e][i] = Hangup
    BY <1>7, SMTT(30)
  <2>2. \A i \in 1 .. Len(inbound'[y]) : "ACK" \notin inbound'[y][i].flags
    BY <1>5, <1>6, <1>7, SMTT(30)
  <2> QED
    BY <1>e, <1>3, <1>6, <2>1, <2>2 DEF AnswerInv
<1>9. CloseEnd(e)'
  <2>1. ResultInv(e)'
    BY <1>2, <1>3, OpeningResult
  <2>2. HangupLast(inbound'[e], SynMayBeLate(e)')
    <3>0. PICK r : r = inbound'[e]
      OBVIOUS
    <3>h. r = <<>> \/ r = <<Hangup>>
      BY <1>7, <3>0
    <3>l. Len(r) = 0 \/ Len(r) = 1
      BY ONLY <3>h
    <3>1. Len(inbound'[e]) = 0 \/ Len(inbound'[e]) = 1
      BY <3>0, <3>l
    <3>2. \A i \in 1 .. Len(inbound'[e]) - 1 : FALSE
      BY <3>1, SMTT(30)
    <3> QED
      BY <3>2 DEF HangupLast
  <2>3. /\ d.connection_state \in {"CLOSED", "SYN_SENT", "SYN_RCVD", "ESTABLISHED"}
        /\ thread'[e] # "loop" /\ thread[e] \in {"started", "handshake"}
        /\ ctx'[Peer(e)] = ctx[Peer(e)] /\ UNCHANGED app_recv_queue
    BY <1>e, <1>2, <1>3, <1>4
  <2> QED
    BY <1>3, <1>4, <2>1, <2>2, <2>3, OpeningSelf
<1>10. CloseEnd(y)'
  <2>1. /\ thread[e] \in {"started", "handshake"} /\ ctx'[Peer(e)] = ctx[Peer(e)]
        /\ thread'[Peer(e)] = thread[Peer(e)] /\ result'[Peer(e)] = result[Peer(e)]
        /\ UNCHANGED <<app, app_recv_queue>> /\ ~ctx'[e].fin_received
        /\ inbound'[Peer(e)] = inbound[Peer(e)] \/ inbound'[Peer(e)] = Append(inbound[Peer(e)], a)
    BY <1>e, <1>2, <1>3, <1>4, <1>7
  <2>2. CloseEnd(Peer(e))'
    BY <1>5, <2>1, OpeningPeer
  <2> QED
    BY <1>e, <2>2
<1> QED
  BY <1>e, <1>8, <1>9, <1>10 DEF CloseInv

-----------------------------------------------------------------------------
(* CloseInv: the handshake.                                                *)

\* Only the first packet to the passive end can be an end of the connection
\* with more behind it.
LEMMA HangupFlow ==
    ASSUME NEW q \in Seq(Packet), q # <<>>, NEW n, NEW s, NEW over, Flow(q, n, s, over), NEW late
    PROVE  HangupLast(Tail(q), late)
<1> DEFINE r == Tail(q)
<1>1. /\ Len(q) \in Nat /\ Len(r) = Len(q) - 1 /\ \A i \in 1 .. Len(r) : r[i] = q[i + 1]
  BY TailFacts, SMTT(30)
<1> HIDE DEF r
<1>2. \A i \in 1 .. Len(q) : q[i] = Hangup /\ i < Len(q) => i = 1
  BY DEF Flow
<1>3. \A i \in 1 .. Len(r) - 1 : i \in 1 .. Len(r) /\ i + 1 \in 1 .. Len(q) /\ i + 1 < Len(q) /\ i + 1 # 1
  BY <1>1, SMTT(30)
<1>4. \A i \in 1 .. Len(r) - 1 : r[i] # Hangup
  BY <1>1, <1>2, <1>3
<1> QED
  BY <1>4 DEF HangupLast, r

\* What a thread in transport_init() leaves when it takes a packet.
LEMMA OpeningTake ==
    ASSUME Inv, NEW e \in Ends, thread[e] = "handshake", arrived[e] > 0, NEW p \in Packet,
           NEW ps, ps = <<>> \/ ps = <<p>>, TakeAndSend(e, ps)
    PROVE  /\ inbound[e] # <<>> /\ inbound[e] \in Seq(Packet) /\ Head(inbound[e]) = inbound[e][1]
           /\ inbound'[e] = Tail(inbound[e])
           /\ \A i \in 1 .. Len(inbound'[e]) : \E j \in 1 .. Len(inbound[e]) : inbound'[e][i] = inbound[e][j]
           /\ HangupLast(inbound'[e], FALSE)
           /\ ps = <<>> => inbound'[Peer(e)] = inbound[Peer(e)]
           /\ \/ inbound'[Peer(e)] = inbound[Peer(e)]
              \/ ~Gone(Peer(e)) /\ inbound'[Peer(e)] = Append(inbound[Peer(e)], p)
<1>1. /\ inbound[e] # <<>> /\ Head(inbound[e]) = inbound[e][1]
      /\ inbound'[e] = Tail(inbound[e])
      /\ ps = <<>> => inbound'[Peer(e)] = inbound[Peer(e)]
      /\ ps = <<p>> => inbound'[Peer(e)] = IF Gone(Peer(e)) THEN inbound[Peer(e)]
                                           ELSE Append(inbound[Peer(e)], p)
  BY TakeOne
<1>2. inbound[e] \in Seq(Packet) /\ FlowInv(e) /\ EventInv(e)
  BY EndFacts
<1>3. PICK q : q = inbound[e]
  OBVIOUS
<1>4. Flow(q, accepted[e], sent[Peer(e)], Gone(Peer(e)))
  BY <1>2, <1>3 DEF FlowInv, EventInv
<1>5. PICK n, s, over : Flow(q, n, s, over)
  BY <1>4
<1>6. q \in Seq(Packet) /\ q # <<>>
  BY <1>1, <1>2, <1>3
<1>7. HangupLast(Tail(q), FALSE)
  BY <1>5, <1>6, HangupFlow
<1>8. \A i \in 1 .. Len(Tail(q)) : \E j \in 1 .. Len(q) : Tail(q)[i] = q[j]
  BY <1>6, Members, SMTT(30)
<1>9. \/ inbound'[Peer(e)] = inbound[Peer(e)]
      \/ ~Gone(Peer(e)) /\ inbound'[Peer(e)] = Append(inbound[Peer(e)], p)
  BY <1>1
<1>10. inbound'[e] = Tail(q)
  BY <1>1, <1>3
<1>11. HangupLast(inbound'[e], FALSE)
  BY <1>7, <1>10
<1>12. \A i \in 1 .. Len(inbound'[e]) : \E j \in 1 .. Len(q) : inbound'[e][i] = q[j]
  BY <1>8, <1>10
<1>13. \A i \in 1 .. Len(inbound'[e]) : \E j \in 1 .. Len(inbound[e]) : inbound'[e][i] = inbound[e][j]
  BY <1>3, <1>12
<1> QED
  BY <1>1, <1>2, <1>9, <1>11, <1>13

\* The passive end gives up: its application is told.
LEMMA RefusePassiveClose ==
    ASSUME Inv, CloseInv, NEW e \in Ends, e = "passive", thread[e] = "handshake", arrived[e] > 0,
           ctx[e].connection_state \in {"CLOSED", "SYN_RCVD"}, Refuse(e)
    PROVE  CloseInv'
<1>y. PICK y \in Ends : /\ y = "active" /\ y = Peer(e) /\ Peer(y) = e /\ y # e
                        /\ \A x \in Ends : x = e \/ x = y
  BY PeerFacts
<1>1. /\ UNCHANGED <<ctx, app_recv_queue, app>> /\ thread' = [thread EXCEPT ![e] = "exited"]
      /\ result' = [result EXCEPT ![e] = "refused"] /\ TakeAndSend(e, <<>>)
  BY DEF Refuse
<1>2. PICK ps, a : ps = <<>> /\ a = Hangup
  OBVIOUS
<1>3. a \in Packet /\ TakeAndSend(e, ps)
  BY <1>1, <1>2, HangupType
<1>4. /\ \A i \in 1 .. Len(inbound'[e]) : \E j \in 1 .. Len(inbound[e]) : inbound'[e][i] = inbound[e][j]
      /\ HangupLast(inbound'[e], FALSE) /\ inbound'[Peer(e)] = inbound[Peer(e)]
  BY <1>2, <1>3, OpeningTake
<1>5. /\ thread'[e] = "exited" /\ thread'[y] = thread[y]
      /\ result'[e] = "refused" /\ result'[y] = result[y]
  BY <1>y, <1>1 DEF Inv, TypeOK
<1>6. /\ ~ctx[e].fin_sent /\ ~ctx[e].fin_received /\ ~ctx[e].fin_acked /\ ~ctx[e].done
      /\ app[e] \notin {"open", "closed"} /\ app[e] \in {"accepting", "failed", "killed"}
  BY OpeningFacts
<1>7. AnswerInv'
  <2>1. /\ AnswerInv /\ thread'["active"] = thread["active"] /\ thread'["passive"] # "loop"
        /\ inbound'["active"] = inbound["active"]
    BY <1>y, <1>4, <1>5, CloseFacts
  <2>2. ctx["active"].connection_state = "SYN_SENT" =>
           \A i \in 1 .. Len(inbound["passive"]) : "ACK" \notin inbound["passive"][i].flags
    BY <2>1 DEF AnswerInv
  <2>3. \A i \in 1 .. Len(inbound'["passive"]) : \E j \in 1 .. Len(inbound["passive"]) :
           inbound'["passive"][i] = inbound["passive"][j]
    BY <1>4
  <2>4. ctx["active"].connection_state = "SYN_SENT" =>
           \A i \in 1 .. Len(inbound'["passive"]) : "ACK" \notin inbound'["passive"][i].flags
    BY <2>2, <2>3
  <2> QED
    BY <1>1, <2>1, <2>4 DEF AnswerInv, SynAckExpected
<1>8. CloseEnd(e)'
  <2>1. ResultInv(e)'
    BY <1>1, <1>5, <1>6 DEF ResultInv
  <2>2. HangupLast(inbound'[e], SynMayBeLate(e)')
    BY <1>4 DEF HangupLast
  <2>3. PICK d : d = ctx[e]
    OBVIOUS
  <2>4. /\ ctx'[e] = d /\ ctx'[Peer(e)] = ctx[Peer(e)] /\ ~d.fin_sent /\ ~d.fin_received
        /\ ~d.fin_acked /\ ~d.done /\ thread'[e] # "loop" /\ UNCHANGED app_recv_queue
        /\ d.connection_state \in {"CLOSED", "SYN_SENT", "SYN_RCVD", "ESTABLISHED"}
        /\ thread[e] \in {"started", "handshake"}
    BY <1>1, <1>5, <1>6, <2>3
  <2> QED
    BY <2>1, <2>2, <2>4, OpeningSelf
<1>9. CloseEnd(y)'
  <2>1. /\ thread[e] \in {"started", "handshake"} /\ ctx'[Peer(e)] = ctx[Peer(e)]
        /\ thread'[Peer(e)] = thread[Peer(e)] /\ result'[Peer(e)] = result[Peer(e)]
        /\ UNCHANGED <<app, app_recv_queue>> /\ ~ctx'[e].fin_received
    BY <1>y, <1>1, <1>5, <1>6
  <2>2. CloseEnd(Peer(e))'
    BY <1>3, <1>4, <2>1, OpeningPeer
  <2> QED
    BY <1>y, <2>2
<1> QED
  BY <1>y, <1>7, <1>8, <1>9 DEF CloseInv

\* A connection is established: control_loop() starts.
LEMMA EstablishClose ==
    ASSUME Inv, CloseInv, NEW e \in Ends, thread[e] = "handshake", arrived[e] > 0, NEW c, NEW d,
           d = [c EXCEPT !.connection_state = "ESTABLISHED"], d.connection_state = "ESTABLISHED",
           ~d.fin_sent, ~d.fin_received, ~d.fin_acked, ~d.done,
           NEW a \in Packet, NEW ps, ps = <<>> \/ ps = <<a>>, Establish(e, c, ps),
           AnswerInv'
    PROVE  CloseInv'
<1>y. PICK y \in Ends : y = Peer(e) /\ Peer(y) = e /\ y # e /\ \A x \in Ends : x = e \/ x = y
  BY PeerFacts
<1>1. /\ UNCHANGED <<app_recv_queue, app>> /\ thread' = [thread EXCEPT ![e] = "loop"]
      /\ ctx' = [ctx EXCEPT ![e] = d] /\ TakeAndSend(e, ps)
  BY DEF Establish, queueVars
<1>2. PICK r : result' = [result EXCEPT ![e] = r]
  BY DEF Establish
<1>3. /\ thread'[e] = "loop" /\ thread'[y] = thread[y] /\ result'[y] = result[y]
      /\ ctx'[e] = d /\ ctx'[y] = ctx[y]
  BY <1>y, <1>1, <1>2 DEF Inv, TypeOK
<1>4. /\ HangupLast(inbound'[e], FALSE)
      /\ \/ inbound'[Peer(e)] = inbound[Peer(e)]
         \/ inbound'[Peer(e)] = Append(inbound[Peer(e)], a)
  BY <1>1, OpeningTake
<1>5. thread[e] \in {"started", "handshake"}
  OBVIOUS
<1>6. CloseEnd(e)'
  <2>1. ResultInv(e)'
    BY <1>1, <1>3, <1>5, OpeningResult
  <2>2. HangupLast(inbound'[e], SynMayBeLate(e)')
    BY <1>4 DEF HangupLast
  <2>3. /\ d.connection_state \in {"CLOSED", "SYN_SENT", "SYN_RCVD", "ESTABLISHED"}
        /\ d.connection_state # "SYN_SENT"
        /\ ctx'[Peer(e)] = ctx[Peer(e)] /\ UNCHANGED app_recv_queue
    BY <1>y, <1>1, <1>3
  <2> QED
    BY <1>3, <1>5, <2>1, <2>2, <2>3, OpeningSelf
<1>7. CloseEnd(y)'
  <2>1. /\ ctx'[Peer(e)] = ctx[Peer(e)] /\ thread'[Peer(e)] = thread[Peer(e)]
        /\ result'[Peer(e)] = result[Peer(e)]
        /\ UNCHANGED <<app, app_recv_queue>> /\ ~ctx'[e].fin_received
    BY <1>y, <1>1, <1>3
  <2>2. CloseEnd(Peer(e))'
    BY <1>4, <1>5, <2>1, OpeningPeer
  <2> QED
    BY <1>y, <2>2
<1> QED
  BY <1>y, <1>6, <1>7 DEF CloseInv

\* The active end gives up: the passive one is gone.
LEMMA RefuseActiveClose ==
    ASSUME Inv, CloseInv, NEW e \in Ends, e = "active", thread[e] = "handshake", arrived[e] > 0,
           ctx[e].connection_state = "SYN_SENT", ~SynAckExpected(ctx[e], Head(inbound[e])), Refuse(e)
    PROVE  CloseInv'
<1>y. PICK y \in Ends : /\ y = "passive" /\ y = Peer(e) /\ Peer(y) = e /\ y # e
                        /\ \A x \in Ends : x = e \/ x = y
  BY PeerFacts
<1>1. /\ UNCHANGED <<ctx, app_recv_queue, app>> /\ thread' = [thread EXCEPT ![e] = "exited"]
      /\ result' = [result EXCEPT ![e] = "refused"] /\ TakeAndSend(e, <<>>)
  BY DEF Refuse
<1>2. PICK ps, a : ps = <<>> /\ a = Hangup
  OBVIOUS
<1>3. a \in Packet /\ TakeAndSend(e, ps)
  BY <1>1, <1>2, HangupType
<1>4. /\ inbound[e] # <<>> /\ inbound[e] \in Seq(Packet) /\ Head(inbound[e]) = inbound[e][1]
      /\ inbound'[e] = Tail(inbound[e]) /\ inbound'[Peer(e)] = inbound[Peer(e)]
      /\ HangupLast(inbound'[e], FALSE)
  BY <1>2, <1>3, OpeningTake
<1>5. /\ thread'[e] = "exited" /\ thread'[y] = thread[y]
      /\ result'[e] = "refused" /\ result'[y] = result[y]
  BY <1>y, <1>1 DEF Inv, TypeOK
<1>6. /\ ~ctx[e].fin_sent /\ ~ctx[e].fin_received /\ ~ctx[e].fin_acked /\ ~ctx[e].done
      /\ app[e] \notin {"open", "closed"} /\ ~Gone(e)
  BY OpeningFacts
<1>7. 1 \in 1 .. Len(inbound[e])
  BY <1>4, SMTT(30)
<1>8. inbound[e][1] = Hangup
  <2>1. AnswerInv
    BY CloseFacts
  <2>2. inbound[e][1] = Hangup \/ SynAckExpected(ctx[e], inbound[e][1])
    BY <1>7, <2>1 DEF AnswerInv
  <2> QED
    BY <1>4, <2>2
<1>9. inbound'[e] = <<>> /\ Gone(Peer(e))
  <2>1. HangupLast(inbound[e], SynMayBeLate(e)) /\ ~SynMayBeLate(e) /\ FlowInv(e)
    BY CloseFacts, EndFacts DEF SynMayBeLate
  <2>2. PICK q : q = inbound[e]
    OBVIOUS
  <2>3. HangupLast(q, FALSE) /\ q \in Seq(Packet) /\ q # <<>> /\ q[1] = Hangup
    BY <1>4, <1>8, <2>1, <2>2 DEF HangupLast
  <2>4. Tail(q) = <<>>
    BY <2>3, HangupTake
  <2>5. Gone(Peer(e))
    BY <1>6, <1>7, <1>8, <2>1 DEF FlowInv, Flow
  <2> QED
    BY <1>4, <2>2, <2>4, <2>5
<1>10. AnswerInv'
  <2>1. /\ AnswerInv /\ thread'["active"] # "handshake" /\ thread'["passive"] = thread["passive"]
        /\ inbound'["passive"] = inbound["passive"]
    BY <1>y, <1>4, <1>5, CloseFacts
  <2> QED
    BY <1>1, <2>1 DEF AnswerInv
<1>11. CloseEnd(e)'
  <2>1. Gone(Peer(e))'
    BY <1>1, <1>9 DEF Gone
  <2>2. ResultInv(e)'
    BY <1>1, <1>5, <1>6, <1>9, <2>1 DEF ResultInv
  <2>3. HangupLast(inbound'[e], SynMayBeLate(e)')
    BY <1>4 DEF HangupLast
  <2>4. PICK d : d = ctx[e]
    OBVIOUS
  <2>5. /\ ctx'[e] = d /\ ctx'[Peer(e)] = ctx[Peer(e)] /\ ~d.fin_sent /\ ~d.fin_received
        /\ ~d.fin_acked /\ ~d.done /\ thread'[e] # "loop" /\ UNCHANGED app_recv_queue
        /\ d.connection_state \in {"CLOSED", "SYN_SENT", "SYN_RCVD", "ESTABLISHED"}
        /\ thread[e] \in {"started", "handshake"}
    BY <1>1, <1>5, <1>6, <2>4
  <2> QED
    BY <2>2, <2>3, <2>5, OpeningSelf
<1>12. CloseEnd(y)'
  <2>1. /\ thread[e] \in {"started", "handshake"} /\ ctx'[Peer(e)] = ctx[Peer(e)]
        /\ thread'[Peer(e)] = thread[Peer(e)] /\ result'[Peer(e)] = result[Peer(e)]
        /\ UNCHANGED <<app, app_recv_queue>> /\ ~ctx'[e].fin_received
    BY <1>y, <1>1, <1>5, <1>6
  <2>2. CloseEnd(Peer(e))'
    BY <1>3, <1>4, <2>1, OpeningPeer
  <2> QED
    BY <1>y, <2>2
<1> QED
  BY <1>y, <1>10, <1>11, <1>12 DEF CloseInv

\* The active end takes the answer to its SYN.
LEMMA HandshakeSynSentClose == Inv /\ CloseInv /\ HandshakeSynSent => CloseInv'
<1> SUFFICES ASSUME Inv, CloseInv, HandshakeSynSent PROVE CloseInv'
  OBVIOUS
<1>e. PICK e \in Ends : e = "active"
  BY PeerFacts
<1> DEFINE p == Head(inbound[e])
           c == [ctx[e] EXCEPT !.ack_num = Wrap(p.seq + 1),
                               !.next_seq_expected = Wrap(p.seq + 1),
                               !.peer_window_size = p.win]
<1>1. /\ thread[e] = "handshake" /\ ctx[e].connection_state = "SYN_SENT" /\ arrived[e] > 0
      /\ IF SynAckExpected(ctx[e], p)
           THEN Establish(e, c, <<MakePacket(c, {"ACK"}, 0, 0)>>)
           ELSE Refuse(e)
  BY <1>e DEF HandshakeSynSent, AwaitsPacket
<1>2. CASE ~SynAckExpected(ctx[e], p)
  <2>1. Refuse(e)
    BY <1>1, <1>2
  <2> QED
    BY <1>e, <1>1, <1>2, <2>1, RefuseActiveClose
<1>3. CASE SynAckExpected(ctx[e], p)
  <2>1. Establish(e, c, <<MakePacket(c, {"ACK"}, 0, 0)>>)
    BY <1>1, <1>3
  <2>2. ctx[e] \in Context /\ p \in Packet
    <3>1. /\ inbound[e] \in Seq(Packet) /\ arrived[e] <= Len(inbound[e]) /\ arrived[e] \in Nat
          /\ ctx[e] \in Context
      BY EndFacts
    <3>2. inbound[e] # <<>>
      BY <1>1, <3>1, SMTT(30)
    <3> QED
      BY <3>1, <3>2, TailFacts
  <2>3. p.win \in Int /\ Wrap(p.seq + 1) \in SeqNums
    BY <2>2, WrapType, SMTT(30) DEF Packet, SeqNums
  <2>4. /\ ~ctx[e].fin_sent /\ ~ctx[e].fin_received /\ ~ctx[e].fin_acked /\ ~ctx[e].done
    BY <1>1, OpeningFacts
  <2> HIDE DEF p
  <2>5. PICK b \in Context : b = c
    <3>1. c \in Context
      BY <2>2, <2>3 DEF Context
    <3> QED
      BY <3>1
  <2>6. ~b.fin_sent /\ ~b.fin_received /\ ~b.fin_acked /\ ~b.done
    BY <2>2, <2>4, <2>5 DEF Context
  <2> HIDE DEF c
  <2>7. PICK a \in Packet : a = MakePacket(b, {"ACK"}, 0, 0)
    BY MakePacketType
  <2>8. PICK ps : ps = <<a>> /\ Establish(e, b, ps)
    BY <2>1, <2>5, <2>7
  <2>9. PICK d : d = [b EXCEPT !.connection_state = "ESTABLISHED"]
    OBVIOUS
  <2>10. ~d.fin_sent /\ ~d.fin_received /\ ~d.fin_acked /\ ~d.done /\ d.connection_state = "ESTABLISHED"
    BY <2>6, <2>9 DEF Context
  <2>11. AnswerInv'
    <3>0. ctx' = [ctx EXCEPT ![e] = d] /\ thread' = [thread EXCEPT ![e] = "loop"]
      BY <2>8, <2>9 DEF Establish
    <3>1. thread'["active"] = "loop" /\ ctx'["active"].connection_state = "ESTABLISHED"
      BY <1>e, <2>10, <3>0 DEF Inv, TypeOK
    <3> QED
      BY <3>1 DEF AnswerInv
  <2> QED
    BY <1>1, <2>8, <2>9, <2>10, <2>11, EstablishClose
<1> QED
  BY <1>2, <1>3

\* The passive end takes the ACK of its SYN+ACK.
LEMMA HandshakeSynRcvdClose == Inv /\ CloseInv /\ HandshakeSynRcvd => CloseInv'
<1> SUFFICES ASSUME Inv, CloseInv, HandshakeSynRcvd PROVE CloseInv'
  OBVIOUS
<1>e. PICK e \in Ends : e = "passive"
  BY PeerFacts
<1> DEFINE p == Head(inbound[e])
           c == [ctx[e] EXCEPT !.peer_window_size = p.win]
<1>1. /\ thread[e] = "handshake" /\ ctx[e].connection_state = "SYN_RCVD" /\ arrived[e] > 0
      /\ IF AckExpected(ctx[e], p) THEN Establish(e, c, <<>>) ELSE Refuse(e)
  BY <1>e DEF HandshakeSynRcvd, AwaitsPacket
<1>2. CASE ~AckExpected(ctx[e], p)
  <2>1. Refuse(e) /\ ctx[e].connection_state \in {"CLOSED", "SYN_RCVD"}
    BY <1>1, <1>2
  <2> QED
    BY <1>e, <1>1, <2>1, RefusePassiveClose
<1>3. CASE AckExpected(ctx[e], p)
  <2>1. Establish(e, c, <<>>)
    BY <1>1, <1>3
  <2>2. /\ ctx[e] \in Context /\ p \in Packet /\ p = inbound[e][1] /\ 1 \in 1 .. Len(inbound[e])
    <3>1. /\ inbound[e] \in Seq(Packet) /\ arrived[e] <= Len(inbound[e]) /\ arrived[e] \in Nat
          /\ ctx[e] \in Context
      BY EndFacts
    <3>2. inbound[e] # <<>> /\ 1 \in 1 .. Len(inbound[e])
      BY <1>1, <3>1, SMTT(30)
    <3> QED
      BY <3>1, <3>2, TailFacts
  <2>3. ctx["active"].connection_state # "SYN_SENT" /\ thread["active"] # "handshake"
    <3>1. AnswerInv /\ OpenInv /\ "ACK" \in inbound["passive"][1].flags
      BY <1>e, <1>3, <2>2, CloseFacts DEF Inv, AckExpected
    <3>2. 1 \in 1 .. Len(inbound["passive"])
      BY <1>e, <2>2
    <3>3. ctx["active"].connection_state # "SYN_SENT"
      BY <3>1, <3>2 DEF AnswerInv
    <3> QED
      BY <3>1, <3>3 DEF OpenInv
  <2>4. /\ ~ctx[e].fin_sent /\ ~ctx[e].fin_received /\ ~ctx[e].fin_acked /\ ~ctx[e].done
    BY <1>1, OpeningFacts
  <2>5. p.win \in Int
    BY <2>2 DEF Packet
  <2> HIDE DEF p
  <2>6. PICK b : b = c
    OBVIOUS
  <2>7. ~b.fin_sent /\ ~b.fin_received /\ ~b.fin_acked /\ ~b.done /\ b \in Context
    BY <2>2, <2>4, <2>5, <2>6 DEF Context
  <2> HIDE DEF c
  <2>8. PICK ps, a : ps = <<>> /\ a = Hangup
    OBVIOUS
  <2>9. Establish(e, b, ps) /\ a \in Packet
    BY <2>1, <2>6, <2>8, HangupType
  <2>10. PICK d : d = [b EXCEPT !.connection_state = "ESTABLISHED"]
    OBVIOUS
  <2>11. ~d.fin_sent /\ ~d.fin_received /\ ~d.fin_acked /\ ~d.done /\ d.connection_state = "ESTABLISHED"
    BY <2>7, <2>10 DEF Context
  <2>12. AnswerInv'
    <3>0. ctx' = [ctx EXCEPT ![e] = d] /\ thread' = [thread EXCEPT ![e] = "loop"]
      BY <2>9, <2>10 DEF Establish
    <3>1. thread'["active"] = thread["active"] /\ ctx'["active"] = ctx["active"]
      <4>1. PICK y \in Ends : y = "active" /\ y # e
        BY <1>e, PeerFacts
      <4>2. thread'[y] = thread[y] /\ ctx'[y] = ctx[y]
        BY <3>0, <4>1 DEF Inv, TypeOK
      <4> QED
        BY <4>1, <4>2
    <3> QED
      BY <2>3, <3>1 DEF AnswerInv
  <2> QED
    BY <1>1, <2>8, <2>9, <2>10, <2>11, <2>12, EstablishClose
<1> QED
  BY <1>2, <1>3

\* The passive end takes a SYN and answers it.
LEMMA HandshakeListenClose == Inv /\ CloseInv /\ HandshakeListen => CloseInv'
<1> SUFFICES ASSUME Inv, CloseInv, HandshakeListen PROVE CloseInv'
  OBVIOUS
<1>e. PICK e \in Ends, y \in Ends :
         /\ e = "passive" /\ y = "active" /\ y = Peer(e) /\ Peer(y) = e /\ y # e
         /\ \A x \in Ends : x = e \/ x = y
  BY PeerFacts
<1> DEFINE p == Head(inbound[e])
           c == [ctx[e] EXCEPT !.ack_num = Wrap(p.seq + 1),
                               !.next_seq_expected = Wrap(p.seq + 1),
                               !.peer_window_size = p.win,
                               !.connection_state = "SYN_RCVD"]
           f == [c EXCEPT !.sequence_num = Wrap(c.sequence_num + 1)]
<1>1. /\ thread[e] = "handshake" /\ ctx[e].connection_state = "CLOSED" /\ arrived[e] > 0
      /\ "SYN" \notin p.flags => Refuse(e)
      /\ "SYN" \in p.flags =>
            /\ ctx' = [ctx EXCEPT ![e] = f]
            /\ TakeAndSend(e, <<MakePacket(c, {"SYN", "ACK"}, 0, 0)>>)
            /\ UNCHANGED <<thread, app_recv_queue, result, app>>
  BY <1>e DEF HandshakeListen, AwaitsPacket, queueVars, sockVars
<1>2. CASE "SYN" \notin p.flags
  <2>1. Refuse(e) /\ ctx[e].connection_state \in {"CLOSED", "SYN_RCVD"}
    BY <1>1, <1>2
  <2> QED
    BY <1>e, <1>1, <2>1, RefusePassiveClose
<1>3. CASE "SYN" \in p.flags
  <2>1. /\ ctx' = [ctx EXCEPT ![e] = f]
        /\ TakeAndSend(e, <<MakePacket(c, {"SYN", "ACK"}, 0, 0)>>)
        /\ UNCHANGED <<thread, app_recv_queue, result, app>>
    BY <1>1, <1>3
  <2>2. /\ ctx[e] \in Context /\ p \in Packet /\ p = inbound[e][1] /\ 1 \in 1 .. Len(inbound[e])
        /\ PacketInv(e)
    <3>1. /\ inbound[e] \in Seq(Packet) /\ arrived[e] <= Len(inbound[e]) /\ arrived[e] \in Nat
          /\ ctx[e] \in Context /\ PacketInv(e)
      BY EndFacts
    <3>2. inbound[e] # <<>> /\ 1 \in 1 .. Len(inbound[e])
      BY <1>1, <3>1, SMTT(30)
    <3> QED
      BY <3>1, <3>2, TailFacts
  <2>3. p.seq = Isn(y)
    BY <1>e, <1>3, <2>2 DEF PacketInv, PacketOK
  <2>4. /\ ~ctx[e].fin_sent /\ ~ctx[e].fin_received /\ ~ctx[e].fin_acked /\ ~ctx[e].done
        /\ thread[e] \in {"started", "handshake"}
    BY <1>1, OpeningFacts
  <2>5. p.win \in Int /\ Wrap(p.seq + 1) \in SeqNums
    <3>1. p.win \in Int /\ p.seq \in SeqNums
      BY <2>2 DEF Packet
    <3>2. p.seq + 1 \in Int
      BY <3>1, SMTT(30) DEF SeqNums
    <3> QED
      BY <3>1, <3>2, WrapType
  <2> HIDE DEF p
  <2>6. PICK b : b = c
    OBVIOUS
  <2>7. /\ b \in Context /\ ~b.fin_sent /\ ~b.fin_received /\ ~b.fin_acked /\ ~b.done
        /\ b.connection_state = "SYN_RCVD" /\ b.ack_num = Wrap(Isn(y) + 1)
    <3>1. b \in Context
      BY <2>2, <2>5, <2>6 DEF Context, CStates
    <3>2. /\ ~b.fin_sent /\ ~b.fin_received /\ ~b.fin_acked /\ ~b.done
          /\ b.connection_state = "SYN_RCVD" /\ b.ack_num = Wrap(p.seq + 1)
      BY <2>2, <2>4, <2>6 DEF Context
    <3> QED
      BY <2>3, <3>1, <3>2
  <2>8. PICK d : d = [b EXCEPT !.sequence_num = Wrap(b.sequence_num + 1)]
    OBVIOUS
  <2>9. ctx' = [ctx EXCEPT ![e] = d] /\ TakeAndSend(e, <<MakePacket(b, {"SYN", "ACK"}, 0, 0)>>)
    BY <2>1, <2>6, <2>8
  <2> HIDE DEF c, f
  <2>10. ~d.fin_sent /\ ~d.fin_received /\ ~d.fin_acked /\ ~d.done /\ d.connection_state = "SYN_RCVD"
    BY <2>7, <2>8 DEF Context
  <2>11. PICK a \in Packet : a = MakePacket(b, {"SYN", "ACK"}, 0, 0)
    BY <2>7, MakePacketType
  <2>12. a.flags = {"SYN", "ACK"} /\ a.ack = Wrap(Isn(y) + 1)
    BY <2>7, <2>11 DEF MakePacket
  <2>13. PICK ps : ps = <<a>> /\ TakeAndSend(e, ps)
    BY <2>9, <2>11
  <2>14. /\ \A i \in 1 .. Len(inbound'[e]) : \E j \in 1 .. Len(inbound[e]) : inbound'[e][i] = inbound[e][j]
         /\ HangupLast(inbound'[e], FALSE)
         /\ \/ inbound'[Peer(e)] = inbound[Peer(e)]
            \/ ~Gone(Peer(e)) /\ inbound'[Peer(e)] = Append(inbound[Peer(e)], a)
    BY <1>1, <2>13, OpeningTake
  <2>15. ctx'[e] = d /\ ctx'[y] = ctx[y]
    BY <1>e, <2>9 DEF Inv, TypeOK
  <2>16. thread[y] = "handshake" => SynAckExpected(ctx[y], a)
    <3>1. ASSUME thread[y] = "handshake" PROVE ctx[y].sequence_num = Wrap(Isn(y) + 1)
      <4>1. /\ ctx[y].connection_state = "SYN_SENT" /\ sent[y] = 0 /\ ~ctx[y].fin_sent
        BY <1>e, <3>1 DEF Inv, OpenInv, Opening
      <4>2. NumberInv(y) /\ Isn(y) \in Nat
        BY EndFacts
      <4>3. Bit(ctx[y].fin_sent) = 0
        BY <4>1 DEF Bit
      <4>4. ctx[y].sequence_num = Wrap(Isn(y) + 1 + sent[y] + Bit(ctx[y].fin_sent))
        BY <3>1, <4>1, <4>2 DEF NumberInv
      <4>5. Isn(y) + 1 + sent[y] + Bit(ctx[y].fin_sent) = Isn(y) + 1
        BY <4>1, <4>2, <4>3, SMTT(30)
      <4> QED
        BY <4>4, <4>5
    <3> QED
      BY <2>12, <3>1 DEF SynAckExpected
  <2>17. AnswerInv'
    <3>1. AnswerInv /\ thread[e] # "loop"
      BY <1>1, CloseFacts
    <3>2. ASSUME thread[y] = "handshake", NEW i \in 1 .. Len(inbound'[y])
          PROVE  inbound'[y][i] = Hangup \/ SynAckExpected(ctx[y], inbound'[y][i])
      <4>1. PICK q : q = inbound[y]
        OBVIOUS
      <4>2. /\ q \in Seq(Packet)
            /\ \A j \in 1 .. Len(q) : q[j] = Hangup \/ SynAckExpected(ctx[y], q[j])
        BY <1>e, <3>1, <3>2, <4>1, EndFacts DEF AnswerInv
      <4>3. inbound'[y] = q \/ inbound'[y] = Append(q, a)
        BY <1>e, <2>14, <4>1
      <4>4. inbound'[y][i] = a \/ \E j \in 1 .. Len(q) : inbound'[y][i] = q[j]
        <5>1. \A k \in 1 .. Len(Append(q, a)) :
                 Append(q, a)[k] = a \/ \E j \in 1 .. Len(q) : Append(q, a)[k] = q[j]
          BY <4>2, Members, SMTT(30)
        <5> QED
          BY <4>3, <5>1
      <4> QED
        BY <2>16, <3>2, <4>2, <4>4
    <3>3. ASSUME ctx[y].connection_state = "SYN_SENT", NEW i \in 1 .. Len(inbound'[e])
          PROVE  "ACK" \notin inbound'[e][i].flags
      <4>1. \A j \in 1 .. Len(inbound[e]) : "ACK" \notin inbound[e][j].flags
        BY <1>e, <3>1, <3>3 DEF AnswerInv
      <4> QED
        BY <2>14, <4>1
    <3>4. /\ thread' = thread /\ ctx'["active"] = ctx["active"]
      BY <1>e, <2>1, <2>15
    <3>5. \A q : SynAckExpected(ctx'["active"], q) <=> SynAckExpected(ctx["active"], q)
      BY <3>4 DEF SynAckExpected
    <3>6. thread'["active"] = "handshake" =>
             \A i \in 1 .. Len(inbound'["active"]) :
                \/ inbound'["active"][i] = Hangup
                \/ SynAckExpected(ctx["active"], inbound'["active"][i])
      BY <1>e, <3>2, <3>4
    <3>7. ctx'["active"].connection_state = "SYN_SENT" =>
             /\ thread'["passive"] # "loop"
             /\ \A i \in 1 .. Len(inbound'["passive"]) : "ACK" \notin inbound'["passive"][i].flags
      BY <1>e, <3>1, <3>3, <3>4
    <3> QED
      BY <3>4, <3>6, <3>7 DEF AnswerInv, SynAckExpected
  <2>18. CloseEnd(e)'
    <3>1. thread'[e] = "handshake" /\ result'[e] = result[e] /\ UNCHANGED app
      BY <1>1, <2>1
    <3>2. ResultInv(e)'
      BY <2>4, <3>1, OpeningResult
    <3>3. HangupLast(inbound'[e], SynMayBeLate(e)')
      BY <2>14 DEF HangupLast
    <3>4. /\ d.connection_state \in {"CLOSED", "SYN_SENT", "SYN_RCVD", "ESTABLISHED"}
          /\ thread'[e] # "loop" /\ ctx'[Peer(e)] = ctx[Peer(e)] /\ UNCHANGED app_recv_queue
      BY <1>e, <2>1, <2>10, <2>15, <3>1
    <3> QED
      BY <2>4, <2>10, <2>15, <3>2, <3>3, <3>4, OpeningSelf
  <2>19. CloseEnd(y)'
    <3>1. /\ ctx'[Peer(e)] = ctx[Peer(e)] /\ thread'[Peer(e)] = thread[Peer(e)]
          /\ result'[Peer(e)] = result[Peer(e)]
          /\ UNCHANGED <<app, app_recv_queue>> /\ ~ctx'[e].fin_received
      BY <1>e, <2>1, <2>10, <2>15
    <3>2. CloseEnd(Peer(e))'
      BY <2>4, <2>14, <3>1, OpeningPeer
    <3> QED
      BY <1>e, <3>2
  <2> QED
    BY <1>e, <2>17, <2>18, <2>19 DEF CloseInv
<1> QED
  BY <1>2, <1>3
=============================================================================
