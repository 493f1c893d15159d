----------------------------- MODULE StcpLoop -------------------------------
(***************************************************************************)
(* Proofs about Stcp: the steps of control_loop() preserve Inv and CloseInv.*)
(***************************************************************************)
EXTENDS StcpLemmas

USE ZenonT(20)

-----------------------------------------------------------------------------
(* Arithmetic on sequence numbers, and the FIN.                            *)

\* A FIN is sent once, after all data.
LEMMA FinAppend ==
    ASSUME NEW q \in Seq(Packet), NEW s, NEW t, NEW fin, FinQueue(q, s, FALSE),
           NEW p \in Packet, "FIN" \in p.flags => fin /\ p.len = 0 /\ p.pos = t
    PROVE  FinQueue(Append(q, p), t, fin)
<1> DEFINE r == Append(q, p)
<1>1. /\ Len(q) \in Nat /\ Len(r) = Len(q) + 1 /\ r[Len(q) + 1] = p
      /\ \A i \in 1 .. Len(q) : r[i] = q[i]
  BY AppendFacts, SMTT(30)
<1> HIDE DEF r
<1>2. ASSUME NEW i \in 1 .. Len(r), "FIN" \in r[i].flags PROVE i = Len(q) + 1 /\ r[i] = p
  <2>1. i \in 1 .. Len(q) \/ i = Len(q) + 1
    BY <1>1, SMTT(30)
  <2> QED
    BY <1>1, <1>2, <2>1 DEF FinQueue
<1>3. \A i \in 1 .. Len(r) : "FIN" \in r[i].flags => i + 1 .. Len(r) = {}
  BY <1>1, <1>2, SMTT(30)
<1> QED
  BY <1>2, <1>3 DEF FinQueue, r

\* A number that counts the SYN and the stream, before the FIN.
LEMMA NoFinBit ==
    ASSUME NEW a \in Nat, NEW b \in Nat
    PROVE  a + 1 + b + Bit(FALSE) = a + 1 + b
  BY SMTT(30) DEF Bit

\* Quotient and remainder by the size of the number space.
LEMMA DivMod ==
    ASSUME NEW x \in Int, NEW m \in Nat \ {0}
    PROVE  x = m * (x \div m) + (x % m) /\ x % m \in 0 .. m - 1 /\ (x \div m) \in Int
  BY SMTT(30)

\* Division with remainder has one result.
LEMMA ModUnique ==
    ASSUME NEW m \in Nat \ {0}, NEW k \in Int, NEW r \in 0 .. m - 1,
           NEW l \in Int, NEW s \in 0 .. m - 1, m * k + r = m * l + s
    PROVE  r = s
<1>1. m * (k - l) = s - r
  BY SMTT(30)
<1>2. CASE k - l >= 1
  <2>1. m * (k - l) >= m
    BY <1>2, SMTT(30)
  <2> QED
    BY <1>1, <2>1, SMTT(30)
<1>3. CASE k - l <= -1
  <2>1. m * (k - l) <= -m
    BY <1>3, SMTT(30)
  <2> QED
    BY <1>1, <2>1, SMTT(30)
<1>4. CASE k = l
  BY <1>4, SMTT(30)
<1> QED
  BY <1>2, <1>3, <1>4, SMTT(30)

\* Adding to a number that has wrapped wraps like adding to the number.
LEMMA WrapAdd ==
    ASSUME NEW x \in Nat, NEW n \in Nat
    PROVE  Wrap(Wrap(x) + n) = Wrap(x + n)
<1> DEFINE m == SeqMod
           y == (x % m) + n
           z == x + n
<1>0. m \in Nat \ {0}
  BY ConstantFacts
<1> HIDE DEF m
<1>1. x = m * (x \div m) + (x % m) /\ x % m \in 0 .. m - 1 /\ (x \div m) \in Int
  BY <1>0, DivMod, SMTT(30)
<1>2. y \in Int /\ z \in Int
  BY <1>0, <1>1, SMTT(30)
<1> HIDE DEF y, z
<1>3. y = m * (y \div m) + (y % m) /\ y % m \in 0 .. m - 1 /\ (y \div m) \in Int
  BY <1>0, <1>2, DivMod
<1>4. z = m * (z \div m) + (z % m) /\ z % m \in 0 .. m - 1 /\ (z \div m) \in Int
  BY <1>0, <1>2, DivMod
<1>5. z = m * (x \div m) + m * (y \div m) + (y % m)
  BY <1>0, <1>1, <1>3, SMTT(30) DEF y, z
<1>6. /\ m * (x \div m) + m * (y \div m) = m * ((x \div m) + (y \div m))
      /\ (x \div m) + (y \div m) \in Int
  <2>1. \A a, b \in Int : m * a + m * b = m * (a + b)
    BY <1>0, SMTT(30)
  <2>2. (x \div m) \in Int /\ (y \div m) \in Int
    BY <1>1, <1>3
  <2>3. (x \div m) + (y \div m) \in Int
    BY <2>2, SMTT(30)
  <2> QED
    BY <2>1, <2>2, <2>3
<1>7. m * ((x \div m) + (y \div m)) + (y % m) = m * (z \div m) + (z % m)
  BY <1>0, <1>4, <1>5, <1>6
<1>8. y % m = z % m
  BY <1>0, <1>3, <1>4, <1>6, <1>7, ModUnique
<1> QED
  BY <1>8 DEF Wrap, y, z, m

\* The acknowledgement number of an end that runs acknowledges what it accepted.
LEMMA AckNumber ==
    ASSUME Inv, NEW e \in Ends, Synced(e)
    PROVE  \E k \in 0 .. Acked(e) : ctx[e].ack_num = Wrap(Isn(Peer(e)) + 1 + k)
<1>1. ctx[e].ack_num = Wrap(Isn(Peer(e)) + 1 + Acked(e)) /\ Acked(e) \in Nat
  BY EndFacts DEF NumberInv
<1>2. Acked(e) \in 0 .. Acked(e)
  BY <1>1, SMTT(30)
<1> QED
  BY <1>1, <1>2

-----------------------------------------------------------------------------
(* Inv: data to send, the end of the TCP connection and a close request.   *)

\* control_loop() sends what the application wrote.
LEMMA HandleAppDataStep ==
    ASSUME Inv, NEW e \in Ends, HandleAppData(e) PROVE Inv'
<1>0. TypeOK
  BY DEF Inv
<1> DEFINE q == app_recv_queue[e]
           c == ctx[e]
           n == MIN(q[1].len, MaxToSend(c))
           r == DequeuePartial(q, n)
           s == Wrap(c.sequence_num + n)
           t == sent[e] + n
<1>1. /\ UNCHANGED <<thread, arrived, app_send_queue, close_requested, result, eof, app,
                     written, accepted, taken>>
      /\ thread[e] = "loop" /\ "APP_DATA" \in event[e]
      /\ event' = [event EXCEPT ![e] = event[e] \ {"APP_DATA"}]
  BY DEF HandleAppData, sockVars
<1>2. /\ q # <<>> /\ q \in Seq(Buffer) /\ c \in Context /\ ~Gone(e)
      /\ sent[e] \in Nat /\ written[e] \in Nat /\ q[1] \in Buffer /\ 1 \in 1 .. Len(q)
  <2>1. q \in Seq(Buffer) /\ c \in Context /\ EventInv(e) /\ sent[e] \in Nat /\ written[e] \in Nat
    BY EndFacts
  <2>2. q # <<>> /\ ~Gone(e)
    BY <1>1, <2>1 DEF EventInv
  <2> QED
    BY <2>1, <2>2, TailFacts, SMTT(30)
<1>3. /\ event'[e] = event[e] \ {"APP_DATA"} /\ event' \in [Ends -> SUBSET Events]
      /\ \A x \in Ends : x # e => event'[x] = event[x]
  BY <1>0, <1>1 DEF TypeOK
<1>4. \A x \in Ends : Gone(x)' = Gone(x)
  BY <1>1 DEF Gone
<1>5. CASE ~(MaxToSend(c) > 0)
  <2>1. UNCHANGED <<app_recv_queue, inbound, ctx, sent>>
    BY <1>5 DEF HandleAppData
  <2>2. TypeOK'
    BY <1>0, <1>1, <1>3, <2>1 DEF TypeOK
  <2>3. OpenInv'
    BY <1>1, <1>4, <2>1, KeepOpen, PeerFacts DEF Inv
  <2>4. ASSUME NEW x \in Ends PROVE EndInv(x)'
    <3>1. /\ EventInv(x) /\ NumberInv(x) /\ WriteInv(x) /\ ReadInv(x)
          /\ FlowInv(x) /\ PacketInv(x) /\ FinInv(x)
          /\ Isn(x)' = Isn(x) /\ Isn(Peer(x))' = Isn(Peer(x))
          /\ Gone(x)' = Gone(x) /\ Gone(Peer(x))' = Gone(Peer(x))
      BY <1>4, <2>1, EndFacts DEF Isn
    <3>2. EventInv(x)'
      <4>1. CASE x = e
        BY <1>1, <1>3, <2>1, <3>1, <4>1 DEF EventInv, Gone
      <4>2. CASE x # e
        BY <1>1, <1>3, <2>1, <3>1, <4>2, KeepEvent
      <4> QED
        BY <4>1, <4>2
    <3>3. NumberInv(x)' /\ WriteInv(x)' /\ ReadInv(x)'
      <4>1. NumberInv(x)'
        BY <1>1, <2>1, <3>1, KeepNumber
      <4>2. WriteInv(x)'
        BY <1>1, <2>1, <3>1, KeepWrite
      <4>3. ReadInv(x)'
        BY <1>1, <2>1, <3>1, KeepRead
      <4> QED
        BY <4>1, <4>2, <4>3
    <3>4. FlowInv(x)' /\ PacketInv(x)' /\ FinInv(x)'
      <4>1. FlowInv(x)'
        BY <1>1, <2>1, <3>1, KeepFlow
      <4>2. PacketInv(x)'
        BY <1>1, <2>1, <3>1, KeepPacket
      <4>3. FinInv(x)'
        BY <1>1, <2>1, <3>1, KeepFin
      <4> QED
        BY <4>1, <4>2, <4>3
    <3> QED
      BY <3>2, <3>3, <3>4 DEF EndInv
  <2> QED
    BY <2>2, <2>3, <2>4 DEF Inv
<1>6. CASE MaxToSend(c) > 0
  <2>1. PICK p : p = MakePacket(c, {"ACK"}, q[1].pos, n)
    OBVIOUS
  <2>2. /\ app_recv_queue' = [app_recv_queue EXCEPT ![e] = r]
        /\ Send(e, <<p>>)
        /\ ctx' = [ctx EXCEPT ![e] = [c EXCEPT !.sequence_num = s]]
        /\ sent' = [sent EXCEPT ![e] = t]
    <3>1. /\ app_recv_queue' = [app_recv_queue EXCEPT ![e] = r]
          /\ Send(e, <<p>>)
          /\ sent' = [sent EXCEPT ![e] = t]
      BY <1>6, <2>1 DEF HandleAppData
    <3>2. ctx' = [ctx EXCEPT ![e].sequence_num = s]
      BY <1>6 DEF HandleAppData
    <3> QED
      BY <3>1, <3>2
  <2>3. q[1].pos \in Nat /\ q[1].len \in Nat
    BY <1>2 DEF Buffer
  <2>4. MaxToSend(c) \in Nat
    <3>1. c.peer_window_size - (c.last_byte_sent - c.last_ack_received) \in Int
      <4>1. c.peer_window_size \in Int /\ c.last_byte_sent \in SeqNums /\ c.last_ack_received \in SeqNums
        BY <1>2 DEF Context
      <4> QED
        BY <4>1, ConstantFacts, SMTT(30) DEF SeqNums
    <3>2. Wrap(c.peer_window_size - (c.last_byte_sent - c.last_ack_received)) \in Nat
      BY <3>1, WrapType, ConstantFacts, SMTT(30) DEF SeqNums
    <3> QED
      BY <3>2, ConstantFacts DEF MaxToSend, MIN
  <2>5. n \in Nat /\ n <= q[1].len /\ MIN(n, q[1].len) = n
    <3>1. \A i, j \in Nat : /\ MIN(i, j) \in Nat /\ MIN(i, j) <= i
                            /\ MIN(MIN(i, j), i) = MIN(i, j)
      BY SMTT(30) DEF MIN
    <3> QED
      BY <2>3, <2>4, <3>1
  <2> HIDE DEF n
  <2>6. p \in Packet
    BY <1>2, <2>1, <2>3, <2>5, MakePacketType
  <2>7. p.flags = {"ACK"} /\ p.seq = c.sequence_num /\ p.ack = c.ack_num /\ p.pos = q[1].pos /\ p.len = n
    BY <2>1 DEF MakePacket
  <2>8. /\ r \in Seq(Buffer)
        /\ \A i \in 1 .. Len(r) : \/ \E j \in 1 .. Len(q) : r[i] = q[j]
                                  \/ r[i].pos + r[i].len = q[1].pos + q[1].len /\ r[i].len > 0
    BY <1>2, <2>5, DequeueFacts, DequeueMembers
  <2>9. Covers(q, sent[e], written[e]) => Covers(r, t, written[e])
    BY <1>2, <2>5, CoversDequeue
  <2>10. s \in SeqNums /\ t \in Nat
    <3>1. c.sequence_num \in SeqNums
      BY <1>2 DEF Context
    <3>2. \A i \in SeqNums, j \in Nat : i + j \in Int
      BY ConstantFacts, SMTT(30) DEF SeqNums
    <3>3. \A i, j \in Nat : i + j \in Nat
      BY SMTT(30)
    <3>4. sent[e] \in Nat
      BY <1>2
    <3> QED
      BY <2>5, <3>1, <3>2, <3>3, <3>4, WrapType
  <2>11. t = sent[e] + n /\ s = Wrap(c.sequence_num + n) /\ p # Hangup
    BY <2>7, HangupFacts
  <2> HIDE DEF r, s, t
  <2>12. /\ Covers(q, sent[e], written[e]) /\ q[1].pos = sent[e]
         /\ \A i \in 1 .. Len(q) : q[i].pos + q[i].len <= written[e]
         /\ c.fin_sent = FALSE
    <3>1. WriteInv(e)
      BY EndFacts
    <3>2. c.fin_sent \in BOOLEAN
      BY <1>2 DEF Context
    <3> QED
      BY <1>2, <3>1, <3>2 DEF WriteInv, Covers
  <2>13. c.sequence_num = Wrap(Isn(e) + 1 + sent[e])
    <3>1. NumberInv(e) /\ Isn(e) \in Nat
      BY EndFacts
    <3>2. c.sequence_num = Wrap(Isn(e) + 1 + sent[e] + Bit(FALSE))
      BY <1>1, <2>12, <3>1 DEF NumberInv
    <3>3. Isn(e) + 1 + sent[e] + Bit(FALSE) = Isn(e) + 1 + sent[e]
      BY <1>2, <3>1, SMTT(30) DEF Bit
    <3> QED
      BY <3>2, <3>3
  <2> DEFINE d == [c EXCEPT !.sequence_num = s]
  <2>14. /\ d \in Context /\ d.sequence_num = s
         /\ d.ack_num = c.ack_num /\ d.next_seq_expected = c.next_seq_expected
         /\ d.fin_sent = c.fin_sent /\ d.fin_received = c.fin_received
         /\ d.fin_acked = c.fin_acked /\ d.initial_sequence_num = c.initial_sequence_num
         /\ d.connection_state = c.connection_state
    BY <1>2, <2>10 DEF Context
  <2> HIDE DEF d
  <2>15. /\ ctx'[e] = d /\ ctx' \in [Ends -> Context]
         /\ sent'[e] = t /\ sent' \in [Ends -> Nat]
         /\ app_recv_queue'[e] = r /\ app_recv_queue' \in [Ends -> Seq(Buffer)]
         /\ \A x \in Ends : x # e => /\ ctx'[x] = ctx[x] /\ sent'[x] = sent[x]
                                     /\ app_recv_queue'[x] = app_recv_queue[x]
    <3>1. ctx' = [ctx EXCEPT ![e] = d]
      BY <2>2 DEF d
    <3>2. /\ ctx'[e] = d /\ ctx' \in [Ends -> Context]
          /\ \A x \in Ends : x # e => ctx'[x] = ctx[x]
      BY <1>0, <2>14, <3>1 DEF TypeOK
    <3>3. /\ sent'[e] = t /\ sent' \in [Ends -> Nat]
          /\ \A x \in Ends : x # e => sent'[x] = sent[x]
      BY <1>0, <2>2, <2>10 DEF TypeOK
    <3>4. /\ app_recv_queue'[e] = r /\ app_recv_queue' \in [Ends -> Seq(Buffer)]
          /\ \A x \in Ends : x # e => app_recv_queue'[x] = app_recv_queue[x]
      BY <1>0, <2>2, <2>8 DEF TypeOK
    <3> QED
      BY <3>2, <3>3, <3>4
  <2>16. /\ inbound' \in [Ends -> Seq(Packet)]
         /\ \A x \in Ends : Len(inbound[x]) <= Len(inbound'[x])
         /\ inbound'[e] = inbound[e]
         /\ inbound'[Peer(e)] = IF Gone(Peer(e)) THEN inbound[Peer(e)]
                                ELSE Append(inbound[Peer(e)], p)
    BY <2>2, <2>6, SendOne
  <2>17. TypeOK'
    <3>1. ASSUME NEW x \in Ends PROVE arrived'[x] <= Len(inbound'[x])
      <4>1. arrived[x] \in Nat /\ arrived[x] <= Len(inbound[x]) /\ Len(inbound[x]) \in Nat
            /\ Len(inbound'[x]) \in Nat
        BY <2>16, EndFacts, SMTT(60)
      <4> QED
        BY <1>1, <2>16, <4>1, SMTT(30)
    <3> QED
      BY <1>0, <1>1, <1>3, <2>15, <2>16, <3>1 DEF TypeOK
  <2>18. OpenInv'
    <3>1. inbound[Peer(e)] \in Seq(Packet)
      BY EndFacts, PeerFacts
    <3>2. inbound[Peer(e)] # <<>> =>
             inbound'[Peer(e)] # <<>> /\ inbound'[Peer(e)][1] = inbound[Peer(e)][1]
      BY <2>6, <2>16, <3>1, AppendedFacts
    <3> QED
      BY <1>1, <2>15, <3>2, OpenLoop, PeerFacts
  <2>19. \A x \in Ends : Isn(x)' = Isn(x) /\ Acked(x)' = Acked(x)
    BY <1>1, <2>14, <2>15 DEF Isn, Acked
  <2>20. EndInv(e)'
    <3>1. /\ EventInv(e) /\ NumberInv(e) /\ WriteInv(e) /\ ReadInv(e)
          /\ FlowInv(e) /\ PacketInv(e) /\ FinInv(e) /\ Isn(e) \in Nat
          /\ Peer(e) \in Ends /\ Peer(e) # e
      BY EndFacts
    <3>2. EventInv(e)'
      BY <1>1, <1>2, <1>3, <1>4, <3>1 DEF EventInv
    <3>3. NumberInv(e)'
      <4>1. s = Wrap(Isn(e) + 1 + sent[e] + n)
        <5> DEFINE m == Isn(e) + 1 + sent[e]
        <5>1. m \in Nat /\ s = Wrap(Wrap(m) + n)
          BY <1>2, <2>11, <2>13, <3>1, SMTT(30)
        <5> HIDE DEF m
        <5>2. s = Wrap(m + n)
          BY <2>5, <5>1, WrapAdd
        <5> QED
          BY <5>2 DEF m
      <4>2. Isn(e) + 1 + sent[e] + n = Isn(e) + 1 + t + Bit(FALSE)
        BY <1>2, <2>5, <2>11, <3>1, SMTT(30) DEF Bit
      <4>3. thread'[e] = "loop" /\ Synced(e)
        BY <1>1 DEF Synced
      <4> QED
        BY <1>1, <2>12, <2>14, <2>15, <2>19, <3>1, <4>1, <4>2, <4>3 DEF
           NumberInv, Synced
    <3>4. WriteInv(e)'
      <4>1. t <= written[e]
        <5>1. q[1].pos + q[1].len <= written[e]
          BY <1>2, <2>12
        <5> QED
          BY <1>2, <2>3, <2>5, <2>11, <2>12, <5>1, SMTT(30)
      <4>2. \A i \in 1 .. Len(r) : r[i].pos + r[i].len <= written[e]
        BY <1>2, <2>8, <2>12
      <4> QED
        BY <1>1, <2>9, <2>12, <2>14, <2>15, <4>1, <4>2 DEF WriteInv
    <3>5. ReadInv(e)'
      BY <1>1, <1>4, <2>14, <2>15, <3>1, KeepRead
    <3>6. FlowInv(e)' /\ PacketInv(e)'
      <4>1. /\ sent'[Peer(e)] = sent[Peer(e)] /\ inbound'[e] = inbound[e]
            /\ ctx'[Peer(e)] = ctx[Peer(e)]
        BY <2>15, <2>16, <3>1
      <4>2. FlowInv(e)'
        BY <1>1, <1>4, <2>19, <3>1, <4>1, KeepFlow
      <4>3. PacketInv(e)'
        BY <1>1, <1>4, <2>19, <3>1, <4>1, KeepPacket
      <4> QED
        BY <4>2, <4>3
    <3>7. FinInv(e)'
      BY <1>1, <2>14, <2>15, <2>16, <3>1 DEF FinInv
    <3> QED
      BY <3>2, <3>3, <3>4, <3>5, <3>6, <3>7 DEF EndInv
  <2>21. ASSUME NEW x \in Ends, x = Peer(e) PROVE EndInv(x)'
    <3>1. /\ x # e /\ Peer(x) = e /\ inbound[x] \in Seq(Packet) /\ FinInv(x)
          /\ Acked(e) \in Nat
      BY <2>21, EndFacts
    <3>2. EventInv(x)' /\ NumberInv(x)' /\ WriteInv(x)' /\ ReadInv(x)'
      BY <1>1, <1>3, <2>15, <2>19, <3>1, KeepEnd
    <3>3. inbound'[x] = IF Gone(x) THEN inbound[x] ELSE Append(inbound[x], p)
      BY <2>16, <2>21
    <3>4. FlowInv(x)'
      BY <1>1, <1>2, <1>4, <2>6, <2>7, <2>11, <2>12, <2>15, <3>1, <3>3,
         FlowSend
    <3>5. PacketInv(x)'
      <4>1. PacketOK(p, Isn(x), Isn(e), Acked(e)')
        <5>1. Synced(e)
          BY <1>1 DEF Synced
        <5>2. \E k \in 0 .. Acked(e) : c.ack_num = Wrap(Isn(x) + 1 + k)
          BY <2>21, <5>1, AckNumber
        <5> QED
          BY <2>7, <2>12, <2>13, <2>19, <5>2 DEF PacketOK
      <4>2. \A i \in 1 .. Len(inbound'[x]) :
               inbound'[x][i] = p \/ \E j \in 1 .. Len(inbound[x]) : inbound'[x][i] = inbound[x][j]
        BY <2>6, <3>1, <3>3, AppendedFacts
      <4> QED
        BY <2>19, <3>1, <4>1, <4>2, PacketStep, SMTT(30)
    <3>6. FinInv(x)'
      <4>1. ~ctx[x].fin_received /\ FinQueue(inbound[x], sent[e], FALSE)
        BY <2>12, <3>1 DEF FinInv
      <4>2. FinQueue(inbound'[x], t, FALSE)
        <5>1. CASE Gone(x)
          BY <3>3, <4>1, <5>1 DEF FinQueue
        <5>2. CASE ~Gone(x)
          BY <2>6, <2>7, <3>1, <3>3, <4>1, <5>2, FinAppend
        <5> QED
          BY <5>1, <5>2
      <4> QED
        BY <2>12, <2>14, <2>15, <3>1, <4>1, <4>2 DEF FinInv
    <3> QED
      BY <3>2, <3>4, <3>5, <3>6 DEF EndInv
  <2> QED
    BY <2>17, <2>18, <2>20, <2>21, PeerFacts DEF Inv
<1> QED
  BY <1>5, <1>6

\* control_loop() meets the end of the TCP connection.
LEMMA HandleHangupStep ==
    ASSUME Inv, NEW e \in Ends, HandleHangup(e) PROVE Inv'
<1>0. TypeOK
  BY DEF Inv
<1> DEFINE c == ctx[e]
           d == IF c.connection_state = "ESTABLISHED"
                  THEN [c EXCEPT !.connection_state = "CLOSED", !.done = TRUE] ELSE c
<1>1. /\ UNCHANGED <<thread, app_recv_queue, app_send_queue, close_requested, result, eof,
                     app, written, sent, accepted, taken>>
      /\ thread[e] = "loop" /\ "NETWORK_DATA" \in event[e] /\ Head(inbound[e]) = Hangup
      /\ event' = [event EXCEPT ![e] = {}]
      /\ TakeAndSend(e, <<>>)
      /\ ctx' = [ctx EXCEPT ![e] = d]
  BY DEF HandleHangup, TakesPacket, queueVars, sockVars, countVars
<1>2. /\ c \in Context /\ arrived[e] > 0 /\ inbound[e] \in Seq(Packet)
      /\ Peer(e) \in Ends /\ Peer(e) # e /\ Peer(Peer(e)) = e
      /\ EventInv(e) /\ NumberInv(e) /\ WriteInv(e) /\ ReadInv(e)
      /\ FlowInv(e) /\ PacketInv(e) /\ FinInv(e)
  BY <1>1, EndFacts DEF EventInv
<1>3. /\ d \in Context
      /\ d.sequence_num = c.sequence_num /\ d.ack_num = c.ack_num
      /\ d.next_seq_expected = c.next_seq_expected
      /\ d.fin_sent = c.fin_sent /\ d.fin_received = c.fin_received
      /\ d.fin_acked = c.fin_acked /\ d.initial_sequence_num = c.initial_sequence_num
      /\ d.connection_state = c.connection_state \/ d.connection_state = "CLOSED"
  BY <1>2 DEF Context, CStates
<1> HIDE DEF d
<1>4. /\ inbound' \in [Ends -> Seq(Packet)] /\ arrived' \in [Ends -> Nat]
      /\ \A x \in Ends : arrived'[x] <= Len(inbound'[x])
      /\ inbound[e] # <<>> /\ inbound[e][1] = Hangup
      /\ inbound'[e] = Tail(inbound[e]) /\ inbound'[Peer(e)] = inbound[Peer(e)]
      /\ arrived'[Peer(e)] = arrived[Peer(e)]
  <2>1. PICK ps : ps = <<>>
    OBVIOUS
  <2>2. TakeAndSend(e, ps)
    BY <1>1, <2>1
  <2>3. Hangup \in Packet /\ (ps = <<>> \/ ps = <<Hangup>>)
    BY <2>1, HangupType
  <2>4. /\ inbound' \in [Ends -> Seq(Packet)] /\ arrived' \in [Ends -> Nat]
        /\ \A x \in Ends : arrived'[x] <= Len(inbound'[x])
        /\ inbound[e] # <<>> /\ Head(inbound[e]) = inbound[e][1]
        /\ inbound'[e] = Tail(inbound[e])
        /\ ps = <<>> => inbound'[Peer(e)] = inbound[Peer(e)]
        /\ arrived'[Peer(e)] = arrived[Peer(e)]
    BY <1>2, <2>2, <2>3, TakeOne
  <2> QED
    BY <1>1, <2>1, <2>4
<1>5. /\ ctx'[e] = d /\ ctx' \in [Ends -> Context]
      /\ event'[e] = {} /\ event' \in [Ends -> SUBSET Events]
      /\ \A x \in Ends : x # e => ctx'[x] = ctx[x] /\ event'[x] = event[x]
  BY <1>0, <1>1, <1>3 DEF TypeOK
<1>6. \A x \in Ends : Gone(x)' = Gone(x) /\ Isn(x)' = Isn(x) /\ Acked(x)' = Acked(x)
  BY <1>1, <1>3, <1>5 DEF Gone, Isn, Acked
<1>7. TypeOK'
  BY <1>0, <1>1, <1>4, <1>5 DEF TypeOK
<1>8. OpenInv'
  BY <1>1, <1>2, <1>4, <1>5, OpenLoop
<1>9. EndInv(e)'
  <2>1. EventInv(e)'
    BY <1>1, <1>2, <1>5, <1>6 DEF EventInv
  <2>2. NumberInv(e)'
    BY <1>1, <1>2, <1>3, <1>5, <1>6 DEF NumberInv, Synced
  <2>3. WriteInv(e)' /\ ReadInv(e)'
    <3>1. /\ ctx'[e].fin_sent = ctx[e].fin_sent
          /\ ctx'[e].fin_received = ctx[e].fin_received
      BY <1>3, <1>5
    <3>2. WriteInv(e)'
      BY <1>1, <1>2, <3>1, KeepWrite
    <3>3. ReadInv(e)'
      BY <1>1, <1>2, <1>6, <3>1, KeepRead
    <3> QED
      BY <3>2, <3>3
  <2>4. FlowInv(e)'
    BY <1>1, <1>2, <1>4, <1>6, FlowReceive
  <2>m. \A i \in 1 .. Len(inbound'[e]) :
           \E j \in 1 .. Len(inbound[e]) : inbound'[e][i] = inbound[e][j]
    <3>1. inbound[e] \in Seq(Packet) /\ inbound[e] # <<>> /\ inbound'[e] = Tail(inbound[e])
      BY <1>2, <1>4
    <3> QED
      BY <3>1, TakenMembers, SMTT(30)
  <2>5. PacketInv(e)'
    BY <1>2, <1>6, <2>m DEF PacketInv
  <2>6. FinInv(e)'
    <3>1. FinQueue(Tail(inbound[e]), sent[Peer(e)], ctx[Peer(e)].fin_sent)
      BY <1>2, <1>4, FinTake DEF FinInv
    <3>2. ASSUME \A i \in 1 .. Len(inbound[e]) : Quiet(inbound[e][i])
          PROVE  \A i \in 1 .. Len(inbound'[e]) : Quiet(inbound'[e][i])
      BY <2>m, <3>2
    <3> QED
      BY <1>1, <1>2, <1>3, <1>4, <1>5, <3>1, <3>2 DEF FinInv, FinStates
  <2> QED
    BY <2>1, <2>2, <2>3, <2>4, <2>5, <2>6 DEF EndInv
<1>10. ASSUME NEW x \in Ends, x = Peer(e) PROVE EndInv(x)'
  <2>1. x # e /\ Peer(x) = e /\ FlowInv(x) /\ PacketInv(x) /\ FinInv(x)
    BY <1>10, EndFacts
  <2>2. EventInv(x)' /\ NumberInv(x)' /\ WriteInv(x)' /\ ReadInv(x)'
    BY <1>1, <1>4, <1>5, <1>6, <1>10, <2>1, KeepEnd
  <2>3. FlowInv(x)' /\ PacketInv(x)' /\ FinInv(x)'
    BY <1>1, <1>3, <1>4, <1>5, <1>6, <1>10, <2>1, KeepFlow, KeepPacket, KeepFin
  <2> QED
    BY <2>2, <2>3 DEF EndInv
<1> QED
  BY <1>7, <1>8, <1>9, <1>10, PeerFacts DEF Inv

\* control_loop() sends its FIN.
LEMMA HandleCloseStep ==
    ASSUME Inv, NEW e \in Ends, HandleClose(e) PROVE Inv'
<1>0. TypeOK
  BY DEF Inv
<1> DEFINE c == ctx[e]
           s == Wrap(c.sequence_num + 1)
           st == CASE c.connection_state = "ESTABLISHED" -> "FIN_WAIT_1"
                   [] c.connection_state = "CLOSE_WAIT"  -> "LAST_ACK"
                   [] OTHER -> c.connection_state
           d == [c EXCEPT !.fin_sent = TRUE, !.sequence_num = s, !.connection_state = st]
<1>1. /\ UNCHANGED <<thread, arrived, app_recv_queue, app_send_queue, close_requested,
                     result, eof, app, written, sent, accepted, taken>>
      /\ thread[e] = "loop" /\ "APP_CLOSE_REQUESTED" \in event[e]
      /\ event' = [event EXCEPT ![e] = {}]
  BY DEF HandleClose, queueVars, sockVars, countVars
<1>2. /\ c \in Context /\ sent[e] \in Nat /\ Isn(e) \in Nat
      /\ Peer(e) \in Ends /\ Peer(e) # e /\ Peer(Peer(e)) = e
      /\ EventInv(e) /\ NumberInv(e) /\ WriteInv(e) /\ ReadInv(e)
      /\ FlowInv(e) /\ PacketInv(e) /\ FinInv(e)
  BY EndFacts
<1>3. app[e] = "closing" /\ app_recv_queue[e] = <<>> /\ ~Gone(e)
  BY <1>1, <1>2 DEF EventInv, Gone
<1>4. /\ event'[e] = {} /\ event' \in [Ends -> SUBSET Events]
      /\ \A x \in Ends : x # e => event'[x] = event[x]
  BY <1>0, <1>1 DEF TypeOK
<1>5. \A x \in Ends : Gone(x)' = Gone(x)
  BY <1>1 DEF Gone
<1>8. sent[e] + 0 = sent[e]
  BY <1>2, SMTT(30)
<1>6. CASE c.fin_sent
  <2>1. UNCHANGED <<ctx, inbound>>
    BY <1>6 DEF HandleClose
  <2>2. TypeOK'
    BY <1>0, <1>1, <1>4, <2>1 DEF TypeOK
  <2>3. OpenInv'
    BY <1>1, <1>5, <2>1, KeepOpen, PeerFacts DEF Inv
  <2>4. ASSUME NEW x \in Ends PROVE EndInv(x)'
    <3>1. /\ EventInv(x) /\ NumberInv(x) /\ WriteInv(x) /\ ReadInv(x)
          /\ FlowInv(x) /\ PacketInv(x) /\ FinInv(x)
          /\ Isn(x)' = Isn(x) /\ Isn(Peer(x))' = Isn(Peer(x))
          /\ Gone(x)' = Gone(x) /\ Gone(Peer(x))' = Gone(Peer(x))
      BY <1>5, <2>1, EndFacts DEF Isn
    <3>2. EventInv(x)'
      <4>1. CASE x = e
        BY <1>1, <1>4, <2>1, <3>1, <4>1 DEF EventInv, Gone
      <4>2. CASE x # e
        BY <1>1, <1>4, <2>1, <3>1, <4>2, KeepEvent
      <4> QED
        BY <4>1, <4>2
    <3>3. NumberInv(x)' /\ WriteInv(x)' /\ ReadInv(x)'
      <4>1. NumberInv(x)'
        BY <1>1, <2>1, <3>1, KeepNumber
      <4>2. WriteInv(x)'
        BY <1>1, <2>1, <3>1, KeepWrite
      <4>3. ReadInv(x)'
        BY <1>1, <2>1, <3>1, KeepRead
      <4> QED
        BY <4>1, <4>2, <4>3
    <3>4. FlowInv(x)' /\ PacketInv(x)' /\ FinInv(x)'
      <4>1. FlowInv(x)'
        BY <1>1, <2>1, <3>1, KeepFlow
      <4>2. PacketInv(x)'
        BY <1>1, <2>1, <3>1, KeepPacket
      <4>3. FinInv(x)'
        BY <1>1, <2>1, <3>1, KeepFin
      <4> QED
        BY <4>1, <4>2, <4>3
    <3> QED
      BY <3>2, <3>3, <3>4 DEF EndInv
  <2> QED
    BY <2>2, <2>3, <2>4 DEF Inv
<1>7. CASE ~c.fin_sent
  <2>1. PICK p : p = MakePacket(c, {"FIN", "ACK"}, sent[e], 0)
    OBVIOUS
  <2>2. Send(e, <<p>>) /\ ctx' = [ctx EXCEPT ![e] = d]
    <3>1. Send(e, <<p>>)
      BY <1>7, <2>1 DEF HandleClose
    <3>2. ctx' = [ctx EXCEPT ![e].fin_sent = TRUE, ![e].sequence_num = s,
                             ![e].connection_state = st]
      BY <1>7 DEF HandleClose
    <3> QED
      BY <1>0, <3>1, <3>2 DEF TypeOK
  <2>3. c.fin_sent = FALSE /\ c.sequence_num \in SeqNums /\ c.connection_state \in CStates
    BY <1>2, <1>7 DEF Context
  <2>4. s \in SeqNums /\ st \in CStates
    <3>1. s \in SeqNums
      BY <2>3, WrapType, ConstantFacts, SMTT(30) DEF SeqNums
    <3> QED
      BY <2>3, <3>1 DEF CStates
  <2>5. s = Wrap(c.sequence_num + 1)
    OBVIOUS
  <2> HIDE DEF s, st
  <2>6. /\ d \in Context /\ d.sequence_num = s /\ d.fin_sent = TRUE
        /\ d.ack_num = c.ack_num /\ d.next_seq_expected = c.next_seq_expected
        /\ d.fin_received = c.fin_received
        /\ d.fin_acked = c.fin_acked /\ d.initial_sequence_num = c.initial_sequence_num
    BY <1>2, <2>4 DEF Context
  <2> HIDE DEF d
  <2>7. /\ ctx'[e] = d /\ ctx' \in [Ends -> Context]
        /\ \A x \in Ends : x # e => ctx'[x] = ctx[x]
    BY <1>0, <2>2, <2>6 DEF TypeOK
  <2>8. p \in Packet /\ p # Hangup
    BY <1>2, <2>1, MakePacketType DEF MakePacket, Hangup
  <2>9. /\ p.flags = {"FIN", "ACK"} /\ p.seq = c.sequence_num /\ p.ack = c.ack_num
        /\ p.pos = sent[e] /\ p.len = 0 /\ sent[e] + p.len = sent[e]
    <3>1. /\ p.flags = {"FIN", "ACK"} /\ p.seq = c.sequence_num /\ p.ack = c.ack_num
          /\ p.pos = sent[e] /\ p.len = 0
      BY <2>1 DEF MakePacket
    <3> QED
      BY <1>8, <3>1
  <2>10. sent[e] = written[e]
    BY <1>2, <1>3 DEF WriteInv, Covers
  <2>11. c.sequence_num = Wrap(Isn(e) + 1 + sent[e])
    <3>1. c.sequence_num = Wrap(Isn(e) + 1 + sent[e] + Bit(FALSE))
      BY <1>1, <1>2, <2>3 DEF NumberInv
    <3>2. Isn(e) + 1 + sent[e] + Bit(FALSE) = Isn(e) + 1 + sent[e]
      BY <1>2, NoFinBit
    <3> QED
      BY <3>1, <3>2
  <2>12. s = Wrap(Isn(e) + 1 + sent[e] + Bit(TRUE))
    <3> DEFINE m == Isn(e) + 1 + sent[e]
    <3>0. m \in Nat
      <4>1. Isn(e) \in Nat /\ sent[e] \in Nat
        BY <1>2
      <4> QED
        BY <4>1, SMTT(30)
    <3>1. s = Wrap(Wrap(m) + 1)
      BY <2>5, <2>11
    <3> HIDE DEF m
    <3>2. s = Wrap(m + 1) /\ Bit(TRUE) = 1
      BY <3>0, <3>1, WrapAdd DEF Bit
    <3> QED
      BY <3>2 DEF m
  <2>13. /\ inbound' \in [Ends -> Seq(Packet)]
         /\ \A x \in Ends : Len(inbound[x]) <= Len(inbound'[x])
         /\ inbound'[e] = inbound[e]
         /\ inbound'[Peer(e)] = IF Gone(Peer(e)) THEN inbound[Peer(e)]
                                ELSE Append(inbound[Peer(e)], p)
    BY <2>2, <2>8, SendOne
  <2>14. TypeOK'
    <3>1. ASSUME NEW x \in Ends PROVE arrived'[x] <= Len(inbound'[x])
      <4>1. arrived[x] \in Nat /\ arrived[x] <= Len(inbound[x]) /\ Len(inbound[x]) \in Nat
            /\ Len(inbound'[x]) \in Nat
        BY <2>13, EndFacts, SMTT(30)
      <4> QED
        BY <1>1, <2>13, <4>1, SMTT(30)
    <3> QED
      BY <1>0, <1>1, <1>4, <2>7, <2>13, <3>1 DEF TypeOK
  <2>15. OpenInv'
    <3>1. inbound[Peer(e)] \in Seq(Packet)
      BY EndFacts, PeerFacts
    <3>2. inbound[Peer(e)] # <<>> =>
             inbound'[Peer(e)] # <<>> /\ inbound'[Peer(e)][1] = inbound[Peer(e)][1]
      BY <2>8, <2>13, <3>1, AppendedFacts
    <3> QED
      BY <1>1, <1>2, <2>7, <3>2, OpenLoop
  <2>16. \A x \in Ends : Isn(x)' = Isn(x) /\ Acked(x)' = Acked(x)
    BY <1>1, <2>6, <2>7 DEF Isn, Acked
  <2>17. EndInv(e)'
    <3>1. EventInv(e)'
      BY <1>1, <1>2, <1>4, <1>5 DEF EventInv
    <3>2. NumberInv(e)'
      BY <1>1, <1>2, <2>6, <2>7, <2>12, <2>16 DEF NumberInv, Synced
    <3>3. WriteInv(e)'
      BY <1>1, <1>2, <1>3, <1>5, <2>10 DEF WriteInv
    <3>4. ReadInv(e)'
      BY <1>1, <1>2, <1>5, <2>6, <2>7, KeepRead
    <3>5. FlowInv(e)' /\ PacketInv(e)'
      <4>1. inbound'[e] = inbound[e] /\ ctx'[Peer(e)] = ctx[Peer(e)]
        BY <1>2, <2>7, <2>13
      <4> QED
        BY <1>1, <1>2, <1>5, <2>16, <4>1, KeepFlow, KeepPacket
    <3>6. FinInv(e)'
      BY <1>1, <1>2, <2>6, <2>7, <2>13 DEF FinInv
    <3> QED
      BY <3>1, <3>2, <3>3, <3>4, <3>5, <3>6 DEF EndInv
  <2>18. ASSUME NEW x \in Ends, x = Peer(e) PROVE EndInv(x)'
    <3>1. /\ x # e /\ Peer(x) = e /\ inbound[x] \in Seq(Packet) /\ FinInv(x)
          /\ Acked(e) \in Nat
      BY <2>18, EndFacts
    <3>2. EventInv(x)' /\ NumberInv(x)' /\ WriteInv(x)' /\ ReadInv(x)'
      BY <1>1, <1>4, <2>7, <2>16, <3>1, KeepEnd
    <3>3. inbound'[x] = IF Gone(x) THEN inbound[x] ELSE Append(inbound[x], p)
      BY <2>13, <2>18
    <3>4. FlowInv(x)'
      BY <1>1, <1>3, <1>5, <2>8, <2>9, <3>1, <3>3, FlowSend
    <3>5. PacketInv(x)'
      <4>1. PacketOK(p, Isn(x), Isn(e), Acked(e)')
        <5>1. Synced(e)
          BY <1>1 DEF Synced
        <5>2. \E k \in 0 .. Acked(e) : c.ack_num = Wrap(Isn(x) + 1 + k)
          BY <2>18, <5>1, AckNumber
        <5> QED
          BY <2>9, <2>11, <2>16, <5>2 DEF PacketOK
      <4>2. \A i \in 1 .. Len(inbound'[x]) :
               inbound'[x][i] = p \/ \E j \in 1 .. Len(inbound[x]) : inbound'[x][i] = inbound[x][j]
        BY <2>8, <3>1, <3>3, AppendedFacts
      <4> QED
        BY <2>16, <3>1, <4>1, <4>2, PacketStep, SMTT(30)
    <3>6. FinInv(x)'
      <4>1. ~ctx[x].fin_received /\ FinQueue(inbound[x], sent[e], FALSE)
        BY <2>3, <3>1 DEF FinInv
      <4>2. FinQueue(inbound'[x], sent[e], TRUE)
        <5>1. CASE Gone(x)
          BY <3>3, <4>1, <5>1 DEF FinQueue
        <5>2. CASE ~Gone(x)
          BY <2>8, <2>9, <3>1, <3>3, <4>1, <5>2, FinAppend
        <5> QED
          BY <5>1, <5>2
      <4> QED
        BY <1>1, <2>6, <2>7, <3>1, <4>1, <4>2 DEF FinInv
    <3> QED
      BY <3>2, <3>4, <3>5, <3>6 DEF EndInv
  <2> QED
    BY <2>14, <2>15, <2>17, <2>18, PeerFacts DEF Inv
<1> QED
  BY <1>6, <1>7

-----------------------------------------------------------------------------
(* Inv: a packet.                                                          *)

\* Numbers less than SeqMod apart wrap to different numbers.
LEMMA WrapInjective ==
    ASSUME NEW x \in Nat, NEW d \in Nat, d < SeqMod, Wrap(x) = Wrap(x + d)
    PROVE  d = 0
<1> DEFINE m == SeqMod
           z == x + d
           k == (z \div m) - (x \div m)
<1>0. m \in Nat \ {0} /\ d < m /\ z \in Int
  BY ConstantFacts, SMTT(30)
<1> HIDE DEF m, z
<1>1. x = m * (x \div m) + (x % m) /\ x % m \in 0 .. m - 1 /\ (x \div m) \in Int
  BY <1>0, DivMod, SMTT(30)
<1>2. z = m * (z \div m) + (z % m) /\ z % m \in 0 .. m - 1 /\ (z \div m) \in Int
  BY <1>0, DivMod
<1>3. x % m = z % m
  BY DEF Wrap, m, z
<1>4. d = m * k /\ k \in Int
  BY <1>0, <1>1, <1>2, <1>3, SMTT(30) DEF z
<1>5. CASE k >= 1
  <2>1. m * k >= m
    BY <1>0, <1>4, <1>5, SMTT(30)
  <2> QED
    BY <1>0, <1>4, <2>1, SMTT(30)
<1>6. CASE k <= 0
  <2>1. m * k <= 0
    BY <1>0, <1>4, <1>6, SMTT(30)
  <2> QED
    BY <1>4, <2>1, SMTT(30)
<1> QED
  BY <1>4, <1>5, <1>6, SMTT(30)

\* The FIN branch of control_loop() keeps the context well formed.
LEMMA OnFinType ==
    ASSUME NEW c \in Context, NEW p \in Packet PROVE OnFin(c, p) \in Context
<1> DEFINE a == Wrap(p.seq + 1)
<1> HIDE DEF a
<1>1. a \in SeqNums
  BY WrapType, SMTT(30) DEF a, Packet, SeqNums
<1>2. [c EXCEPT !.fin_received = TRUE, !.ack_num = a,
                !.done = @ \/ c.connection_state = "FIN_WAIT_2",
                !.connection_state = CASE @ = "ESTABLISHED" -> "CLOSE_WAIT"
                                       [] @ = "FIN_WAIT_1"  -> "CLOSING"
                                       [] OTHER             -> @] \in Context
  BY <1>1 DEF Context, CStates
<1> QED
  BY <1>2 DEF OnFin, a

\* What the FIN branch of control_loop() changes in the context.
LEMMA OnFinFacts ==
    ASSUME NEW c \in Context, NEW p \in Packet
    PROVE  LET d == OnFin(c, p)
           IN  /\ d \in Context
               /\ d.initial_sequence_num = c.initial_sequence_num
               /\ d.sequence_num = c.sequence_num
               /\ d.next_seq_expected = c.next_seq_expected
               /\ d.fin_sent = c.fin_sent /\ d.fin_acked = c.fin_acked
               /\ d.connection_state \in FinStates => c.connection_state \in FinStates
               /\ "FIN" \in p.flags => d.fin_received = TRUE /\ d.ack_num = Wrap(p.seq + 1)
               /\ "FIN" \notin p.flags => d = c
<1> DEFINE a == Wrap(p.seq + 1)
           b == c.done \/ c.connection_state = "FIN_WAIT_2"
           s == CASE c.connection_state = "ESTABLISHED" -> "CLOSE_WAIT"
                  [] c.connection_state = "FIN_WAIT_1"  -> "CLOSING"
                  [] OTHER                              -> c.connection_state
           d == [c EXCEPT !.fin_received = TRUE, !.ack_num = a, !.done = b,
                          !.connection_state = s]
<1>1. s \in FinStates => c.connection_state \in FinStates
  BY DEF FinStates
<1>2. OnFin(c, p) = IF "FIN" \notin p.flags THEN c ELSE d
  BY DEF OnFin
<1> HIDE DEF a, b, s
<1>3. /\ d.initial_sequence_num = c.initial_sequence_num
      /\ d.sequence_num = c.sequence_num
      /\ d.next_seq_expected = c.next_seq_expected
      /\ d.fin_sent = c.fin_sent /\ d.fin_acked = c.fin_acked
      /\ d.connection_state = s /\ d.fin_received = TRUE /\ d.ack_num = a
  BY DEF Context
<1>4. OnFin(c, p) \in Context
  BY OnFinType
<1> HIDE DEF d
<1>5. a = Wrap(p.seq + 1)
  BY DEF a
<1>6. CASE "FIN" \in p.flags
  <2>1. OnFin(c, p) = d
    BY <1>2, <1>6
  <2> QED
    BY <1>1, <1>3, <1>4, <1>5, <1>6, <2>1
<1>7. CASE "FIN" \notin p.flags
  <2>1. OnFin(c, p) = c
    BY <1>2, <1>7
  <2> QED
    BY <1>7, <2>1
<1> QED
  BY <1>6, <1>7

\* So does the ACK branch.
LEMMA OnAckType ==
    ASSUME NEW c \in Context, NEW p \in Packet PROVE OnAck(c, p) \in Context
  BY DEF OnAck, Context, Packet, CStates

\* What the ACK branch changes: fin_acked only in a state that waits for it.
LEMMA OnAckFacts ==
    ASSUME NEW c \in Context, NEW p \in Packet
    PROVE  LET d == OnAck(c, p)
           IN  /\ d \in Context
               /\ d.initial_sequence_num = c.initial_sequence_num
               /\ d.sequence_num = c.sequence_num /\ d.ack_num = c.ack_num
               /\ d.next_seq_expected = c.next_seq_expected
               /\ d.fin_sent = c.fin_sent /\ d.fin_received = c.fin_received
               /\ d.connection_state \in FinStates => c.connection_state \in FinStates
               /\ \/ d.fin_acked = c.fin_acked
                  \/ AckExpected(c, p) /\ c.connection_state \in FinStates
<1> DEFINE b == c.done \/ c.connection_state # "FIN_WAIT_1"
           s == CASE c.connection_state = "FIN_WAIT_1" -> "FIN_WAIT_2"
                  [] c.connection_state = "CLOSING"    -> "CLOSING"
                  [] c.connection_state = "LAST_ACK"   -> "CLOSED"
           d == [c EXCEPT !.fin_acked = TRUE, !.done = b, !.connection_state = s]
<1>1. OnAck(c, p) = IF AckExpected(c, p) /\ c.connection_state \in FinStates THEN d ELSE c
  BY DEF OnAck, FinStates
<1> HIDE DEF b, s
<1>2. /\ d.initial_sequence_num = c.initial_sequence_num
      /\ d.sequence_num = c.sequence_num /\ d.ack_num = c.ack_num
      /\ d.next_seq_expected = c.next_seq_expected
      /\ d.fin_sent = c.fin_sent /\ d.fin_received = c.fin_received
  BY DEF Context
<1>3. OnAck(c, p) \in Context
  BY OnAckType
<1> HIDE DEF d
<1>4. CASE AckExpected(c, p) /\ c.connection_state \in FinStates
  <2>1. OnAck(c, p) = d
    BY <1>1, <1>4
  <2> QED
    BY <1>2, <1>3, <1>4, <2>1
<1>5. CASE ~(AckExpected(c, p) /\ c.connection_state \in FinStates)
  <2>1. OnAck(c, p) = c
    BY <1>1, <1>5
  <2> QED
    BY <2>1
<1> QED
  BY <1>4, <1>5

\* So does the branch for data.
LEMMA OnDataType ==
    ASSUME NEW c \in Context, NEW p \in Packet PROVE OnData(c, p) \in Context
<1> DEFINE a == Wrap(c.ack_num + p.len)
           n == IF PassedUp(c, p) THEN Wrap(p.seq + p.len) ELSE c.next_seq_expected
           u == IF PassedUp(c, p) THEN c.recv_buffer_used ELSE c.recv_buffer_used + p.len
<1> HIDE DEF a, n, u
<1>1. a \in SeqNums /\ n \in SeqNums /\ u \in Nat
  BY WrapType, SMTT(30) DEF a, n, u, Packet, Context, SeqNums
<1>2. [c EXCEPT !.ack_num = a, !.recv_buffer_used = u, !.next_seq_expected = n] \in Context
  BY <1>1 DEF Context
<1> QED
  BY <1>2 DEF OnData, a, n, u

\* What the branch for data changes.
LEMMA OnDataFacts ==
    ASSUME NEW c \in Context, NEW p \in Packet
    PROVE  LET d == OnData(c, p)
           IN  /\ d \in Context
               /\ d.initial_sequence_num = c.initial_sequence_num
               /\ d.sequence_num = c.sequence_num
               /\ d.fin_sent = c.fin_sent /\ d.fin_received = c.fin_received
               /\ d.fin_acked = c.fin_acked /\ d.connection_state = c.connection_state
               /\ ~(p.len > 0) => d = c
               /\ PassedUp(c, p) => /\ d.ack_num = Wrap(c.ack_num + p.len)
                                    /\ d.next_seq_expected = Wrap(p.seq + p.len)
<1> DEFINE a == Wrap(c.ack_num + p.len)
           n == IF PassedUp(c, p) THEN Wrap(p.seq + p.len) ELSE c.next_seq_expected
           u == IF PassedUp(c, p) THEN c.recv_buffer_used ELSE c.recv_buffer_used + p.len
           d == [c EXCEPT !.ack_num = a, !.recv_buffer_used = u, !.next_seq_expected = n]
<1>1. OnData(c, p) = IF ~InOrder(c, p) THEN c ELSE d
  BY DEF OnData
<1>2. /\ a = Wrap(c.ack_num + p.len) /\ (PassedUp(c, p) => n = Wrap(p.seq + p.len))
      /\ (PassedUp(c, p) => InOrder(c, p)) /\ (InOrder(c, p) => p.len > 0)
  BY DEF PassedUp, InOrder
<1> HIDE DEF a, n, u
<1>3. /\ d.initial_sequence_num = c.initial_sequence_num
      /\ d.sequence_num = c.sequence_num
      /\ d.fin_sent = c.fin_sent /\ d.fin_received = c.fin_received
      /\ d.fin_acked = c.fin_acked /\ d.connection_state = c.connection_state
      /\ d.ack_num = a /\ d.next_seq_expected = n
  BY DEF Context
<1>4. OnData(c, p) \in Context
  BY OnDataType
<1> HIDE DEF d
<1>5. CASE InOrder(c, p)
  <2>1. OnData(c, p) = d
    BY <1>1, <1>5
  <2> QED
    BY <1>2, <1>3, <1>4, <1>5, <2>1
<1>6. CASE ~InOrder(c, p)
  <2>1. OnData(c, p) = c
    BY <1>1, <1>6
  <2> QED
    BY <1>2, <1>6, <2>1
<1> QED
  BY <1>5, <1>6

\* control_loop() takes a packet: first its FIN, then its ACK, then its data.
LEMMA HandleSegmentStep ==
    ASSUME Inv, NEW e \in Ends, HandleSegment(e) PROVE Inv'
<1>0. TypeOK
  BY DEF Inv
<1>y. PICK y \in Ends : y = Peer(e)
  BY PeerFacts
<1> DEFINE p  == Head(inbound[e])
           c  == ctx[e]
           c0 == [c EXCEPT !.peer_window_size = p.win]
           c1 == OnFin(c0, p)
           c2 == OnAck(c1, p)
           c3 == OnData(c2, p)
           finAck  == IF "FIN" \in p.flags
                        THEN <<MakePacket(c1, {"ACK"}, sent[e], 0)>> ELSE <<>>
           dataAck == IF p.len > 0
                        THEN <<MakePacket(c3, {"ACK"}, sent[e], 0)>> ELSE <<>>
           finMark == IF "FIN" \in p.flags
                        THEN <<[pos |-> accepted[e], len |-> 0]>> ELSE <<>>
           payload == IF PassedUp(c2, p) THEN <<[pos |-> p.pos, len |-> p.len]>> ELSE <<>>
           ps == finAck \o dataAck
           q  == app_send_queue[e]
           r  == q \o finMark \o payload
           ac == IF PassedUp(c2, p) THEN accepted[e] + p.len ELSE accepted[e]
<1>1. /\ UNCHANGED <<thread, app_recv_queue, close_requested, result, eof, app,
                     written, sent, taken>>
      /\ thread[e] = "loop" /\ "NETWORK_DATA" \in event[e] /\ p # Hangup
      /\ event' = [event EXCEPT ![e] = event[e] \ {"NETWORK_DATA"}]
  BY DEF HandleSegment, TakesPacket, sockVars
<1>2. /\ ctx' = [ctx EXCEPT ![e] = c3]
      /\ TakeAndSend(e, ps)
      /\ app_send_queue' = [app_send_queue EXCEPT ![e] = r]
      /\ accepted' = [accepted EXCEPT ![e] = ac]
  BY DEF HandleSegment
<1>3. /\ c \in Context /\ arrived[e] > 0 /\ inbound[e] \in Seq(Packet)
      /\ inbound[e] # <<>> /\ p = inbound[e][1] /\ p \in Packet /\ 1 \in 1 .. Len(inbound[e])
      /\ q \in Seq(Buffer) /\ sent[e] \in Nat /\ accepted[e] \in Nat /\ sent[y] \in Nat
      /\ Isn(e) \in Nat /\ Isn(y) \in Nat /\ taken[e] \in Nat
      /\ y # e /\ Peer(y) = e /\ y = Peer(e)
      /\ EventInv(e) /\ NumberInv(e) /\ WriteInv(e) /\ ReadInv(e)
      /\ FlowInv(e) /\ PacketInv(e) /\ FinInv(e)
  <2>1. /\ c \in Context /\ inbound[e] \in Seq(Packet) /\ EventInv(e)
        /\ arrived[e] \in Nat /\ arrived[e] <= Len(inbound[e]) /\ Peer(e) \in Ends
    BY EndFacts
  <2>2. arrived[e] > 0
    BY <1>1, <2>1 DEF EventInv
  <2>3. inbound[e] # <<>>
    BY <2>1, <2>2, SMTT(30)
  <2>4. p = inbound[e][1] /\ p \in Packet /\ 1 \in 1 .. Len(inbound[e])
    BY <2>1, <2>3, TailFacts, SMTT(30)
  <2>5. sent[y] \in Nat /\ Isn(y) \in Nat
    BY EndFacts
  <2> QED
    BY <1>y, <2>1, <2>2, <2>3, <2>4, <2>5, EndFacts, PeerFacts
<1>4. p.seq \in Nat /\ p.pos \in Nat /\ p.len \in Nat /\ p.flags \in SUBSET {"SYN", "ACK", "FIN"}
  <2>1. p.seq \in SeqNums /\ p.pos \in Nat /\ p.len \in Nat /\ p.flags \in SUBSET {"SYN", "ACK", "FIN"}
    BY <1>3 DEF Packet
  <2> QED
    BY <2>1, ConstantFacts, SMTT(30) DEF SeqNums
<1> HIDE DEF p
<1>5. /\ ~Gone(e) /\ p.pos = accepted[e] /\ p.pos + p.len <= sent[y]
      /\ accepted[e] <= sent[y]
  BY <1>1, <1>3 DEF FlowInv, Flow, Reached
<1>6. /\ PacketOK(p, Isn(e), Isn(y), Acked(y))
      /\ c.fin_received => p.len = 0 /\ "FIN" \notin p.flags
      /\ "FIN" \in p.flags => /\ ctx[y].fin_sent /\ p.len = 0 /\ p.pos = sent[y]
                              /\ \A i \in 1 .. Len(Tail(inbound[e])) : Quiet(Tail(inbound[e])[i])
  <2>1. PacketOK(p, Isn(e), Isn(y), Acked(y))
    BY <1>3 DEF PacketInv
  <2>2. c.fin_received => p.len = 0 /\ "FIN" \notin p.flags
    BY <1>3 DEF FinInv, Quiet
  <2>3. FinQueue(inbound[e], sent[y], ctx[y].fin_sent)
    BY <1>3 DEF FinInv
  <2> QED
    BY <1>3, <2>1, <2>2, <2>3, FinTake, SMTT(30)
<1>7. /\ c0 \in Context
      /\ c0.initial_sequence_num = c.initial_sequence_num
      /\ c0.sequence_num = c.sequence_num /\ c0.ack_num = c.ack_num
      /\ c0.next_seq_expected = c.next_seq_expected
      /\ c0.fin_sent = c.fin_sent /\ c0.fin_received = c.fin_received
      /\ c0.fin_acked = c.fin_acked /\ c0.connection_state = c.connection_state
  <2>1. p.win \in Int
    BY <1>3 DEF Packet
  <2> QED
    BY <1>3, <2>1 DEF Context
<1> HIDE DEF c0
<1>8. /\ c1 \in Context
      /\ c1.initial_sequence_num = c.initial_sequence_num
      /\ c1.sequence_num = c.sequence_num
      /\ c1.next_seq_expected = c.next_seq_expected
      /\ c1.fin_sent = c.fin_sent /\ c1.fin_acked = c.fin_acked
      /\ c1.connection_state \in FinStates => c.connection_state \in FinStates
      /\ "FIN" \in p.flags => c1.fin_received = TRUE /\ c1.ack_num = Wrap(p.seq + 1)
      /\ "FIN" \notin p.flags => c1.fin_received = c.fin_received /\ c1.ack_num = c.ack_num
  BY <1>3, <1>7, OnFinFacts
<1> HIDE DEF c1
<1>9. /\ c2 \in Context
      /\ c2.initial_sequence_num = c1.initial_sequence_num
      /\ c2.sequence_num = c1.sequence_num /\ c2.ack_num = c1.ack_num
      /\ c2.next_seq_expected = c1.next_seq_expected
      /\ c2.fin_sent = c1.fin_sent /\ c2.fin_received = c1.fin_received
      /\ c2.connection_state \in FinStates => c1.connection_state \in FinStates
      /\ \/ c2.fin_acked = c1.fin_acked
         \/ AckExpected(c1, p) /\ c1.connection_state \in FinStates
  BY <1>3, <1>8, OnAckFacts, SMTT(30)
<1> HIDE DEF c2
<1>10. /\ c3 \in Context
       /\ c3.initial_sequence_num = c2.initial_sequence_num
       /\ c3.sequence_num = c2.sequence_num
       /\ c3.fin_sent = c2.fin_sent /\ c3.fin_received = c2.fin_received
       /\ c3.fin_acked = c2.fin_acked /\ c3.connection_state = c2.connection_state
       /\ ~(p.len > 0) => c3 = c2
       /\ PassedUp(c2, p) => /\ c3.ack_num = Wrap(c2.ack_num + p.len)
                             /\ c3.next_seq_expected = Wrap(p.seq + p.len)
  BY <1>3, <1>9, OnDataFacts
<1> HIDE DEF c3
<1>11. c.fin_sent \in BOOLEAN /\ c.fin_received \in BOOLEAN
  BY <1>3 DEF Context
<1>12. /\ c.sequence_num = Wrap(Isn(e) + 1 + sent[e] + Bit(c.fin_sent))
       /\ c.ack_num = Wrap(Isn(y) + 1 + (accepted[e] + Bit(c.fin_received)))
       /\ c.next_seq_expected = Wrap(Isn(y) + 1 + accepted[e])
  BY <1>1, <1>3 DEF NumberInv, Synced, Acked
<1>13. ASSUME p.len > 0
       PROVE  /\ PassedUp(c2, p) /\ "FIN" \notin p.flags /\ c.fin_received = FALSE
              /\ p.seq = Wrap(Isn(y) + 1 + accepted[e]) /\ c2.ack_num = p.seq
  <2>1. "FIN" \notin p.flags /\ c.fin_received = FALSE
    BY <1>4, <1>6, <1>11, <1>13, SMTT(30)
  <2>2. p.seq = Wrap(Isn(y) + 1 + accepted[e])
    BY <1>5, <1>6, <1>13 DEF PacketOK
  <2>3. Isn(y) + 1 + (accepted[e] + Bit(FALSE)) = Isn(y) + 1 + accepted[e]
    BY <1>3, SMTT(30) DEF Bit
  <2>4. c2.ack_num = c.ack_num /\ c2.next_seq_expected = c.next_seq_expected
    BY <1>8, <1>9, <2>1
  <2>5. c2.ack_num = p.seq /\ c2.next_seq_expected = p.seq
    BY <1>12, <2>1, <2>2, <2>3, <2>4
  <2> QED
    BY <1>13, <2>1, <2>2, <2>5 DEF PassedUp, InOrder
<1>14. /\ ac = accepted[e] + p.len /\ ac \in Nat /\ ac <= sent[y] /\ accepted[e] <= ac
       /\ ~(p.len > 0) => ~PassedUp(c2, p) /\ ac = accepted[e]
  <2>1. ~(p.len > 0) => ~PassedUp(c2, p) /\ p.len = 0
    BY <1>4, SMTT(30) DEF PassedUp, InOrder
  <2>2. CASE p.len > 0
    <3>1. ac = accepted[e] + p.len
      BY <1>13, <2>2
    <3> QED
      BY <1>3, <1>4, <1>5, <2>2, <3>1, SMTT(60)
  <2>3. CASE ~(p.len > 0)
    <3>1. ac = accepted[e] /\ p.len = 0
      BY <2>1, <2>3
    <3> QED
      BY <1>3, <1>5, <2>1, <2>3, <3>1, SMTT(30)
  <2> QED
    BY <2>2, <2>3
<1> HIDE DEF ac
<1>15. /\ c3.ack_num = Wrap(Isn(y) + 1 + (ac + Bit(c3.fin_received)))
       /\ c3.next_seq_expected = Wrap(Isn(y) + 1 + ac)
       /\ c3.fin_received \in BOOLEAN
  <2> DEFINE m == Isn(y) + 1 + accepted[e]
  <2>1. m \in Nat
    BY <1>3, SMTT(30)
  <2>2. CASE p.len > 0
    <3>1. /\ c3.fin_received = FALSE /\ c3.ack_num = Wrap(Wrap(m) + p.len)
          /\ c3.next_seq_expected = Wrap(Wrap(m) + p.len)
      BY <1>8, <1>9, <1>10, <1>13, <2>2
    <3>2. Isn(y) + 1 + (ac + Bit(FALSE)) = m + p.len /\ Isn(y) + 1 + ac = m + p.len
      BY <1>3, <1>4, <1>14, SMTT(60) DEF Bit
    <3> HIDE DEF m
    <3> QED
      BY <1>4, <2>1, <3>1, <3>2, WrapAdd
  <2>3. CASE "FIN" \in p.flags
    <3>1. p.len = 0 /\ c3 = c2 /\ ac = accepted[e]
      BY <1>4, <1>6, <1>10, <1>14, <2>3, SMTT(30)
    <3>2. p.seq = Wrap(m)
      BY <1>5, <1>6, <2>3 DEF PacketOK
    <3>3. /\ c3.fin_received = TRUE /\ c3.ack_num = Wrap(Wrap(m) + 1)
          /\ c3.next_seq_expected = Wrap(m)
      BY <1>8, <1>9, <1>12, <2>3, <3>1, <3>2
    <3>4. Isn(y) + 1 + (ac + Bit(TRUE)) = m + 1 /\ Isn(y) + 1 + ac = m
      BY <1>3, <3>1, SMTT(30) DEF Bit
    <3> HIDE DEF m
    <3>5. Wrap(Wrap(m) + 1) = Wrap(m + 1)
      BY <2>1, WrapAdd
    <3> QED
      BY <3>3, <3>4, <3>5
  <2>4. CASE ~(p.len > 0) /\ "FIN" \notin p.flags
    BY <1>8, <1>9, <1>10, <1>11, <1>12, <1>14, <2>4
  <2> QED
    BY <2>2, <2>3, <2>4
<1>16. c3.fin_acked => c.fin_sent /\ ctx[y].fin_received
  <2>1. CASE c2.fin_acked = c1.fin_acked
    BY <1>3, <1>8, <1>10, <2>1 DEF FinInv
  <2>2. CASE AckExpected(c1, p) /\ c1.connection_state \in FinStates
    <3>1. c.fin_sent = TRUE
      BY <1>3, <1>8, <1>11, <2>2 DEF FinInv
    <3>2. "ACK" \in p.flags /\ p.ack = Wrap(Isn(e) + 1 + sent[e] + 1)
      <4>1. "ACK" \in p.flags /\ p.ack = Wrap(Isn(e) + 1 + sent[e] + Bit(TRUE))
        BY <1>8, <1>12, <2>2, <3>1 DEF AckExpected
      <4>2. Bit(TRUE) = 1
        BY DEF Bit
      <4> QED
        BY <4>1, <4>2
    <3>3. PICK k \in 0 .. Acked(y) : p.ack = Wrap(Isn(e) + 1 + k)
      BY <1>6, <3>2 DEF PacketOK
    <3>4. /\ accepted[y] \in Nat /\ accepted[y] <= sent[e] /\ sent[e] <= MaxBytes
          /\ Acked(y) \in Nat
      <4>1. accepted[y] \in Nat /\ FlowInv(y) /\ Acked(y) \in Nat
        BY <1>3, EndFacts
      <4>2. written[e] \in Nat /\ written[e] <= MaxBytes /\ sent[e] <= written[e]
        BY EndFacts DEF WriteInv
      <4> QED
        BY <1>3, <4>1, <4>2, ConstantFacts, SMTT(60) DEF FlowInv
    <3>5. k \in Nat /\ k <= sent[e] + Bit(ctx[y].fin_received)
      BY <1>3, <3>3, <3>4, SMTT(60) DEF Acked, Bit
    <3>6. k <= sent[e] + 1
      BY <1>3, <3>5, SMTT(30) DEF Bit
    <3> DEFINE m == Isn(e) + 1 + k
               d == sent[e] + 1 - k
    <3>t. Isn(e) \in Nat /\ sent[e] \in Nat /\ k \in Nat /\ k <= sent[e] + 1
      BY <1>3, <3>5, <3>6
    <3>a. m \in Nat /\ d \in Nat /\ d <= sent[e] + 1
      BY <3>t, SMTT(30)
    <3>b. d < SeqMod
      BY <1>3, <3>4, <3>a, ConstantFacts, SMTT(30)
    <3>7. Isn(e) + 1 + sent[e] + 1 = m + d
      BY <3>t, SMTT(30)
    <3>8. Wrap(m) = Wrap(m + d)
      <4>1. Wrap(m) = Wrap(Isn(e) + 1 + sent[e] + 1)
        BY <3>2, <3>3
      <4> QED
        BY <3>7, <4>1
    <3>9. d = 0 => k = sent[e] + 1
      BY <3>t, SMTT(30)
    <3> HIDE DEF m, d
    <3>10. d = 0
      BY <3>a, <3>b, <3>8, WrapInjective
    <3> QED
      BY <1>3, <3>1, <3>5, <3>9, <3>10, SMTT(30) DEF Bit
  <2> QED
    BY <1>9, <2>1, <2>2
<1>17. c3.connection_state \in FinStates => c.fin_sent
  BY <1>3, <1>8, <1>9, <1>10 DEF FinInv
<1>18. PICK a \in Packet : /\ ps = <<>> \/ ps = <<a>>
                           /\ a.flags = {"ACK"} /\ a.ack = c3.ack_num
                           /\ a.pos = sent[e] /\ a.len = 0
  <2> DEFINE a1 == MakePacket(c1, {"ACK"}, sent[e], 0)
             a3 == MakePacket(c3, {"ACK"}, sent[e], 0)
  <2>1. a1 \in Packet /\ a3 \in Packet
    BY <1>3, <1>8, <1>10, MakePacketType
  <2>2. /\ a1.flags = {"ACK"} /\ a1.ack = c1.ack_num /\ a1.pos = sent[e] /\ a1.len = 0
        /\ a3.flags = {"ACK"} /\ a3.ack = c3.ack_num /\ a3.pos = sent[e] /\ a3.len = 0
    BY DEF MakePacket
  <2>3. /\ "FIN" \in p.flags => finAck = <<a1>>
        /\ "FIN" \notin p.flags => finAck = <<>>
        /\ p.len > 0 => dataAck = <<a3>>
        /\ ~(p.len > 0) => dataAck = <<>>
    OBVIOUS
  <2> HIDE DEF a1, a3
  <2>4. <<>> \o <<a3>> = <<a3>> /\ <<a1>> \o <<>> = <<a1>> /\ <<>> \o <<>> = <<>>
    BY <2>1, SMTT(30)
  <2>5. ps = finAck \o dataAck
    OBVIOUS
  <2> HIDE DEF finAck, dataAck, ps
  <2>6. CASE p.len > 0
    <3>1. ps = <<a3>>
      BY <1>13, <2>3, <2>4, <2>5, <2>6
    <3> QED
      BY <2>1, <2>2, <3>1
  <2>7. CASE ~(p.len > 0) /\ "FIN" \in p.flags
    <3>1. ps = <<a1>> /\ c1.ack_num = c3.ack_num
      BY <1>9, <1>10, <2>3, <2>4, <2>5, <2>7
    <3> QED
      BY <2>1, <2>2, <3>1
  <2>8. CASE ~(p.len > 0) /\ "FIN" \notin p.flags
    <3>1. ps = <<>>
      BY <2>3, <2>4, <2>5, <2>8
    <3> QED
      BY <2>1, <2>2, <3>1
  <2> QED
    BY <2>6, <2>7, <2>8
<1>19. /\ r \in Seq(Buffer) /\ Covers(r, taken[e], ac)
       /\ \A i \in 1 .. Len(r) : /\ r[i].pos + r[i].len <= ac
                                 /\ r[i].len = 0 => r[i].pos = ac /\ c3.fin_received
  <2> DEFINE b0 == [pos |-> accepted[e], len |-> 0]
             b1 == [pos |-> p.pos, len |-> p.len]
  <2>1. b0 \in Buffer /\ b1 \in Buffer
    BY <1>3, <1>4 DEF Buffer
  <2>2. b0.pos = accepted[e] /\ b0.len = 0 /\ b1.pos = accepted[e] /\ b1.len = p.len
    BY <1>5
  <2>3. /\ "FIN" \in p.flags => finMark = <<b0>>
        /\ "FIN" \notin p.flags => finMark = <<>>
        /\ PassedUp(c2, p) => payload = <<b1>>
        /\ ~PassedUp(c2, p) => payload = <<>>
        /\ r = q \o finMark \o payload
    OBVIOUS
  <2>4. /\ Covers(q, taken[e], accepted[e]) /\ taken[e] <= accepted[e]
        /\ \A i \in 1 .. Len(q) : q[i] \in Buffer /\ q[i].pos + q[i].len <= accepted[e]
        /\ \A i \in 1 .. Len(q) : q[i].len = 0 => q[i].pos = accepted[e] /\ c.fin_received
    BY <1>1, <1>3, <1>5, SMTT(30) DEF ReadInv
  <2> HIDE DEF b0, b1, finMark, payload, q, r
  <2>5. /\ q \o <<>> \o <<b1>> = Append(q, b1) /\ q \o <<b0>> \o <<>> = Append(q, b0)
        /\ q \o <<>> \o <<>> = q
    BY <1>3, <2>1, SMTT(30)
  <2>6. CASE p.len > 0
    <3>1. r = Append(q, b1)
      BY <1>13, <2>3, <2>5, <2>6
    <3>2. Covers(r, taken[e], ac) /\ r \in Seq(Buffer)
      BY <1>3, <1>14, <2>1, <2>2, <2>4, <3>1, CoversAppend, AppendFacts
    <3>3. \A i \in 1 .. Len(r) : r[i] = b1 \/ \E j \in 1 .. Len(q) : r[i] = q[j]
      BY <1>3, <2>1, <3>1, Members, SMTT(60)
    <3>4. b1.pos + b1.len <= ac /\ b1.len # 0
      BY <1>3, <1>4, <1>14, <2>2, <2>6, SMTT(60)
    <3>5. ASSUME NEW j \in 1 .. Len(q) PROVE q[j].pos + q[j].len <= ac /\ q[j].len # 0
      <4>1. q[j].pos \in Nat /\ q[j].len \in Nat /\ q[j].pos + q[j].len <= accepted[e]
        <5>1. q[j] \in Buffer /\ q[j].pos + q[j].len <= accepted[e]
          BY <2>4
        <5> QED
          BY <5>1 DEF Buffer
      <4>2. q[j].len # 0
        BY <1>13, <2>4, <2>6
      <4> QED
        BY <1>3, <1>14, <4>1, <4>2, SMTT(60)
    <3> QED
      BY <3>2, <3>3, <3>4, <3>5
  <2>7. CASE ~(p.len > 0) /\ "FIN" \in p.flags
    <3>1. r = Append(q, b0) /\ ac = accepted[e] /\ c3.fin_received
      BY <1>8, <1>9, <1>10, <1>14, <2>3, <2>5, <2>7
    <3>2. accepted[e] = accepted[e] + b0.len /\ b0.pos + b0.len <= accepted[e]
      BY <1>3, <2>2, SMTT(30)
    <3>3. Covers(r, taken[e], ac) /\ r \in Seq(Buffer)
      BY <1>3, <2>1, <2>2, <2>4, <3>1, <3>2, CoversAppend, AppendFacts
    <3>4. \A i \in 1 .. Len(r) : r[i] = b0 \/ \E j \in 1 .. Len(q) : r[i] = q[j]
      BY <1>3, <2>1, <3>1, Members, SMTT(60)
    <3> QED
      BY <2>2, <2>4, <3>1, <3>2, <3>3, <3>4, SMTT(60)
  <2>8. CASE ~(p.len > 0) /\ "FIN" \notin p.flags
    <3>1. r = q /\ ac = accepted[e] /\ c3.fin_received = c.fin_received
      BY <1>8, <1>9, <1>10, <1>14, <2>3, <2>5, <2>8
    <3> QED
      BY <1>3, <2>4, <3>1
  <2> QED
    BY <2>6, <2>7, <2>8
<1>20. /\ c3.fin_received =>
             /\ ctx[y].fin_sent /\ ac = sent[y]
             /\ \A i \in 1 .. Len(Tail(inbound[e])) : Quiet(Tail(inbound[e])[i])
       /\ c.fin_received => c3.fin_received
  <2>1. CASE "FIN" \in p.flags
    BY <1>4, <1>5, <1>6, <1>8, <1>9, <1>10, <1>14, <2>1, SMTT(30)
  <2>2. CASE "FIN" \notin p.flags
    <3>1. c3.fin_received = c.fin_received
      BY <1>8, <1>9, <1>10, <2>2
    <3>2. CASE c.fin_received
      <4>1. /\ ctx[y].fin_sent /\ accepted[e] = sent[y] /\ ac = accepted[e]
            /\ \A i \in 1 .. Len(inbound[e]) : Quiet(inbound[e][i])
        <5>1. /\ ctx[y].fin_sent /\ accepted[e] = sent[y]
              /\ \A i \in 1 .. Len(inbound[e]) : Quiet(inbound[e][i])
          BY <1>3, <3>2 DEF FinInv
        <5>2. p.len = 0
          BY <1>6, <3>2
        <5> QED
          BY <1>3, <1>14, <5>1, <5>2, SMTT(30)
      <4>2. \A i \in 1 .. Len(Tail(inbound[e])) :
               \E j \in 1 .. Len(inbound[e]) : Tail(inbound[e])[i] = inbound[e][j]
        BY <1>3, Members
      <4> QED
        BY <3>1, <3>2, <4>1, <4>2
    <3> QED
      BY <3>1, <3>2
  <2> QED
    BY <2>1, <2>2
<1> HIDE DEF ps, q, r, c, finAck, dataAck, finMark, payload
<1>21. /\ inbound' \in [Ends -> Seq(Packet)] /\ arrived' \in [Ends -> Nat]
       /\ \A x \in Ends : arrived'[x] <= Len(inbound'[x])
       /\ inbound'[e] = Tail(inbound[e])
       /\ \/ inbound'[y] = inbound[y]
          \/ inbound'[y] = IF Gone(y) THEN inbound[y] ELSE Append(inbound[y], a)
       /\ arrived'[y] = arrived[y]
  <2>1. /\ inbound' \in [Ends -> Seq(Packet)] /\ arrived' \in [Ends -> Nat]
        /\ \A x \in Ends : arrived'[x] <= Len(inbound'[x])
        /\ inbound'[e] = Tail(inbound[e])
        /\ ps = <<>> => inbound'[Peer(e)] = inbound[Peer(e)]
        /\ ps = <<a>> => inbound'[Peer(e)] = IF Gone(Peer(e)) THEN inbound[Peer(e)]
                                             ELSE Append(inbound[Peer(e)], a)
        /\ arrived'[Peer(e)] = arrived[Peer(e)]
    BY <1>2, <1>3, <1>18, TakeOne
  <2> QED
    BY <1>3, <1>18, <2>1
<1>22. /\ ctx'[e] = c3 /\ ctx' \in [Ends -> Context]
       /\ \A x \in Ends : x # e => ctx'[x] = ctx[x]
  BY <1>0, <1>2, <1>10 DEF TypeOK
<1>23. /\ event'[e] = event[e] \ {"NETWORK_DATA"} /\ event' \in [Ends -> SUBSET Events]
       /\ accepted'[e] = ac /\ accepted' \in [Ends -> Nat]
       /\ app_send_queue'[e] = r /\ app_send_queue' \in [Ends -> Seq(Buffer)]
       /\ \A x \in Ends : x # e => /\ event'[x] = event[x] /\ accepted'[x] = accepted[x]
                                   /\ app_send_queue'[x] = app_send_queue[x]
  <2>1. /\ event'[e] = event[e] \ {"NETWORK_DATA"} /\ event' \in [Ends -> SUBSET Events]
        /\ \A x \in Ends : x # e => event'[x] = event[x]
    BY <1>0, <1>1 DEF TypeOK
  <2>2. /\ accepted'[e] = ac /\ accepted' \in [Ends -> Nat]
        /\ \A x \in Ends : x # e => accepted'[x] = accepted[x]
    BY <1>0, <1>2, <1>14 DEF TypeOK
  <2>3. /\ app_send_queue'[e] = r /\ app_send_queue' \in [Ends -> Seq(Buffer)]
        /\ \A x \in Ends : x # e => app_send_queue'[x] = app_send_queue[x]
    BY <1>0, <1>2, <1>19 DEF TypeOK
  <2> QED
    BY <2>1, <2>2, <2>3
<1>24. /\ c3.initial_sequence_num = c.initial_sequence_num /\ c3.sequence_num = c.sequence_num
       /\ c3.fin_sent = c.fin_sent /\ c = ctx[e]
  BY <1>8, <1>9, <1>10 DEF c
<1>25. /\ \A x \in Ends : Gone(x)' = Gone(x) /\ Isn(x)' = Isn(x)
       /\ Acked(y)' = Acked(y) /\ Acked(e)' = ac + Bit(c3.fin_received)
  BY <1>1, <1>3, <1>22, <1>23, <1>24 DEF Gone, Isn, Acked
<1>26. TypeOK'
  BY <1>0, <1>1, <1>21, <1>22, <1>23 DEF TypeOK
<1>27. OpenInv'
  <2>1. inbound[y] \in Seq(Packet)
    BY <1>3, EndFacts
  <2>2. inbound[y] # <<>> => inbound'[y] # <<>> /\ inbound'[y][1] = inbound[y][1]
    BY <1>18, <1>21, <2>1, AppendedFacts
  <2> QED
    BY <1>1, <1>3, <1>22, <1>23, <2>2, OpenLoop
<1>28. EndInv(e)'
  <2>1. EventInv(e)'
    BY <1>1, <1>3, <1>23, <1>25 DEF EventInv
  <2>2. NumberInv(e)'
    <3>1. /\ thread'[e] = "loop" /\ ctx'[e] = c3 /\ sent'[e] = sent[e] /\ accepted'[e] = ac
          /\ Isn(e)' = Isn(e) /\ Isn(Peer(e))' = Isn(y)
          /\ Acked(e)' = ac + Bit(c3.fin_received)
      BY <1>1, <1>y, <1>22, <1>23, <1>25
    <3>2. c3.sequence_num = Wrap(Isn(e) + 1 + sent[e] + Bit(c3.fin_sent))
      BY <1>12, <1>24
    <3> QED
      BY <1>15, <3>1, <3>2 DEF NumberInv
  <2>3. WriteInv(e)'
    BY <1>1, <1>3, <1>22, <1>24, KeepWrite
  <2>4. ReadInv(e)'
    <3>1. taken[e] <= ac
      <4>1. taken[e] \in Nat /\ accepted[e] \in Nat /\ taken[e] <= accepted[e]
        BY <1>3 DEF ReadInv
      <4> QED
        BY <1>14, <4>1, SMTT(60)
    <3>2. eof[e] => taken[e] = ac /\ c3.fin_received
      <4>1. eof[e] => taken[e] = accepted[e] /\ c.fin_received
        BY <1>1, <1>3, <1>24 DEF ReadInv
      <4>2. c.fin_received => accepted[e] = ac
        BY <1>3, <1>4, <1>6, <1>14, SMTT(30)
      <4> QED
        BY <1>20, <4>1, <4>2
    <3> QED
      BY <1>1, <1>19, <1>22, <1>23, <3>1, <3>2 DEF ReadInv
  <2>5. FlowInv(e)'
    BY <1>1, <1>3, <1>14, <1>21, <1>23, <1>25, FlowReceive
  <2>6. PacketInv(e)'
    <3>1. \A i \in 1 .. Len(inbound'[e]) :
             \E j \in 1 .. Len(inbound[e]) : inbound'[e][i] = inbound[e][j]
      <4>1. inbound[e] \in Seq(Packet) /\ inbound[e] # <<>>
        BY <1>3
      <4>2. inbound'[e] = Tail(inbound[e])
        BY <1>21
      <4>3. \A i \in 1 .. Len(Tail(inbound[e])) :
               \E j \in 1 .. Len(inbound[e]) : Tail(inbound[e])[i] = inbound[e][j]
        BY <4>1, Members, SMTT(30)
      <4> QED
        BY <4>2, <4>3
    <3>2. /\ PacketInv(e) /\ Isn(e)' = Isn(e) /\ Isn(Peer(e))' = Isn(Peer(e))
          /\ Acked(Peer(e))' = Acked(Peer(e))
      BY <1>3, <1>25
    <3> QED
      BY <3>1, <3>2 DEF PacketInv
  <2>7. FinInv(e)'
    <3>1. FinQueue(Tail(inbound[e]), sent[y], ctx[y].fin_sent)
      BY <1>3, FinTake DEF FinInv
    <3>2. /\ ctx'[e] = c3 /\ ctx'[Peer(e)] = ctx[y] /\ inbound'[e] = Tail(inbound[e])
          /\ sent'[Peer(e)] = sent[y] /\ accepted'[e] = ac
      <4>1. ctx'[e] = c3 /\ ctx'[Peer(e)] = ctx[y]
        BY <1>3, <1>22
      <4>2. sent'[Peer(e)] = sent[y]
        BY <1>1, <1>3
      <4> QED
        BY <1>21, <1>23, <4>1, <4>2
    <3>3. /\ c3.fin_acked => c3.fin_sent /\ ctx[y].fin_received
          /\ c3.connection_state \in FinStates => c3.fin_sent
      BY <1>16, <1>17, <1>24
    <3> QED
      BY <1>20, <3>1, <3>2, <3>3 DEF FinInv
  <2> QED
    BY <2>1, <2>2, <2>3, <2>4, <2>5, <2>6, <2>7 DEF EndInv
<1>29. EndInv(y)'
  <2>1. /\ inbound[y] \in Seq(Packet) /\ FlowInv(y) /\ PacketInv(y) /\ FinInv(y)
        /\ Acked(e) \in Nat
    BY <1>3, EndFacts
  <2>2. EventInv(y)' /\ NumberInv(y)' /\ WriteInv(y)' /\ ReadInv(y)'
    <3>1. /\ y \in Ends /\ app'[y] = app[y] /\ thread'[y] = thread[y]
          /\ close_requested'[y] = close_requested[y]
          /\ app_recv_queue'[y] = app_recv_queue[y] /\ eof'[y] = eof[y]
          /\ written'[y] = written[y] /\ sent'[y] = sent[y] /\ taken'[y] = taken[y]
      BY <1>1, <1>3
    <3>2. /\ event'[y] = event[y] /\ arrived'[y] = arrived[y] /\ ctx'[y] = ctx[y]
          /\ app_send_queue'[y] = app_send_queue[y] /\ accepted'[y] = accepted[y]
      BY <1>3, <1>21, <1>22, <1>23
    <3>3. Isn(Peer(y))' = Isn(Peer(y))
      BY <1>3, <1>25
    <3> QED
      BY <3>1, <3>2, <3>3, KeepEnd
  <2>3. a # Hangup /\ Quiet(a) /\ sent[e] + a.len = sent[e]
    <3>1. a # Hangup /\ Quiet(a) /\ a.len = 0
      BY <1>18, HangupFacts DEF Quiet
    <3>2. sent[e] \in Nat
      BY <1>3
    <3> QED
      BY <3>1, <3>2, SMTT(30)
  <2>4. Acked(e)' \in Nat /\ Acked(e) <= Acked(e)'
    <3>1. Bit(c.fin_received) \in 0 .. 1 /\ Bit(c3.fin_received) \in 0 .. 1
          /\ Bit(c.fin_received) <= Bit(c3.fin_received)
      BY <1>20, SMTT(30) DEF Bit
    <3>2. Acked(e) = accepted[e] + Bit(c.fin_received)
      BY <1>24 DEF Acked
    <3>3. Acked(e)' = ac + Bit(c3.fin_received)
      BY <1>25
    <3>4. accepted[e] \in Nat /\ ac \in Nat /\ accepted[e] <= ac
      BY <1>3, <1>14
    <3> QED
      BY <3>1, <3>2, <3>3, <3>4, SMTT(30)
  <2>5. PacketInv(y)'
    <3>1. PacketOK(a, Isn(y), Isn(e), Acked(e)')
      <4>1. Acked(e)' \in 0 .. Acked(e)' /\ a.ack = Wrap(Isn(y) + 1 + Acked(e)')
        BY <1>15, <1>18, <1>25, <2>4, SMTT(30)
      <4> QED
        BY <1>18, <4>1, SMTT(30) DEF PacketOK
    <3>2. \A i \in 1 .. Len(inbound'[y]) :
             inbound'[y][i] = a \/ \E j \in 1 .. Len(inbound[y]) : inbound'[y][i] = inbound[y][j]
      BY <1>18, <1>21, <2>1, AppendedFacts
    <3> QED
      BY <1>3, <1>25, <2>4, <3>1, <3>2, PacketStep
  <2>6. FlowInv(y)'
    <3>1. CASE inbound'[y] = inbound[y]
      BY <1>1, <1>3, <1>23, <1>25, <2>1, <3>1, KeepFlow
    <3>2. CASE inbound'[y] = IF Gone(y) THEN inbound[y] ELSE Append(inbound[y], a)
      <4>1. /\ y \in Ends /\ ~Gone(Peer(y)) /\ a # Hangup /\ a.pos = sent[Peer(y)]
            /\ sent'[Peer(y)] = sent[Peer(y)] + a.len
            /\ accepted'[y] = accepted[y] /\ Gone(y)' = Gone(y) /\ ~Gone(Peer(y))'
        BY <1>1, <1>3, <1>5, <1>18, <1>23, <1>25, <2>3
      <4> QED
        BY <1>18, <3>2, <4>1, FlowSend
    <3> QED
      BY <1>21, <3>1, <3>2
  <2>7. FinInv(y)'
    <3>1. CASE inbound'[y] = inbound[y]
      BY <1>1, <1>3, <1>20, <1>22, <1>23, <1>24, <2>1, <3>1, KeepFin
    <3>2. CASE inbound'[y] = IF Gone(y) THEN inbound[y] ELSE Append(inbound[y], a)
      BY <1>1, <1>3, <1>20, <1>22, <1>23, <1>24, <2>3, <3>2, FinSend
    <3> QED
      BY <1>21, <3>1, <3>2
  <2> QED
    BY <2>2, <2>5, <2>6, <2>7 DEF EndInv
<1> QED
  BY <1>3, <1>26, <1>27, <1>28, <1>29, PeerFacts, SMTT(30) DEF Inv

-----------------------------------------------------------------------------
(* CloseInv: data to send, the end of the TCP connection and a close request.*)

\* What is common to the steps of control_loop(): e works on its context, takes
\* at most one packet and sends at most packet a.
LEMMA LoopStep ==
    ASSUME Inv, CloseInv, NEW e \in Ends, thread[e] = "loop", UNCHANGED <<thread, app, result>>,
           NEW d, ctx' = [ctx EXCEPT ![e] = d], d.connection_state # "SYN_SENT",
           StateInv(e)', LastAck(inbound'[e], d, ctx[Peer(e)].fin_received),
           LastAck(inbound'[Peer(e)], ctx[Peer(e)], d.fin_received),
           inbound'[e] = inbound[e] \/ (inbound[e] # <<>> /\ inbound'[e] = Tail(inbound[e])),
           NEW a \in Packet,
           \/ inbound'[Peer(e)] = inbound[Peer(e)]
           \/ inbound'[Peer(e)] = Append(inbound[Peer(e)], a),
           \A x \in Ends : \A i \in 1 .. Len(app_recv_queue'[x]) : app_recv_queue'[x][i].len > 0
    PROVE  CloseInv'
<1>y. PICK y \in Ends : y = Peer(e)
  BY PeerFacts
<1>1. y # e /\ Peer(y) = e /\ \A x \in Ends : x = e \/ x = y
  BY <1>y, PeerFacts
<1>2. ~Gone(e) /\ app[e] # "killed"
  <2>1. EventInv(e)
    BY EndFacts
  <2> QED
    BY <2>1 DEF EventInv, Gone
<1>3. ctx'[e] = d /\ ctx'[y] = ctx[y]
  BY <1>1 DEF Inv, TypeOK
<1>4. AnswerInv'
  <2>1. AnswerInv /\ OpenInv
    BY DEF CloseInv, Inv
  <2>2. CASE e = "active"
    <3>1. thread'["active"] # "handshake" /\ ctx'["active"].connection_state # "SYN_SENT"
      BY <1>3, <2>2
    <3> QED
      BY <3>1 DEF AnswerInv
  <2>3. CASE e = "passive"
    <3>1. thread["active"] # "handshake"
      BY <2>1, <2>3 DEF OpenInv, Opening
    <3>2. ctx["active"].connection_state # "SYN_SENT"
      BY <2>1, <2>3 DEF AnswerInv
    <3>3. y = "active"
      BY <2>3, <1>1 DEF Ends
    <3> QED
      BY <1>3, <3>1, <3>2, <3>3 DEF AnswerInv
  <2> QED
    BY <2>2, <2>3 DEF Ends
<1>5. CloseEnd(e)'
  <2>1. ResultInv(e) /\ HangupLast(inbound[e], SynMayBeLate(e)) /\ inbound[e] \in Seq(Packet)
    BY CloseFacts, EndFacts
  <2>2. ~SynMayBeLate(e)
    BY DEF SynMayBeLate, Unanswered
  <2>3. HangupLast(inbound'[e], SynMayBeLate(e))
    BY <2>1, HangupTake
  <2>4. HangupLast(inbound'[e], SynMayBeLate(e)')
    BY <2>2, <2>3 DEF HangupLast
  <2>5. ResultInv(e)'
    BY <2>1 DEF ResultInv
  <2>6. LastAck(inbound'[e], ctx'[e], ctx'[Peer(e)].fin_received)
    BY <1>y, <1>3
  <2> QED
    BY <2>4, <2>5, <2>6 DEF CloseEnd
<1>6. CloseEnd(y)'
  <2>1. StateInv(y) /\ ResultInv(y) /\ inbound[y] \in Seq(Packet)
    BY CloseFacts, EndFacts
  <2>2. \A i \in 1 .. Len(inbound[y]) : inbound[y][i] # Hangup
    BY <1>1, <1>2, NoHangup
  <2>3. HangupLast(inbound[y], SynMayBeLate(y)')
    <3>1. \A i \in 1 .. Len(inbound[y]) - 1 : i \in 1 .. Len(inbound[y])
      BY <2>1, SMTT(30)
    <3> QED
      BY <2>2, <3>1 DEF HangupLast
  <2>4. HangupLast(inbound'[y], SynMayBeLate(y)')
    BY <1>y, <2>1, <2>2, <2>3, HangupAppend
  <2>5. StateInv(y)'
    <3>1. (Opening(y)' => Opening(y)) /\ app[Peer(y)] # "killed"
      BY <1>1, <1>2 DEF Opening
    <3> QED
      BY <1>3, <2>1, <3>1, KeepState
  <2>6. ResultInv(y)'
    BY <1>1, <1>2, <1>3, <2>1, KeepResult
  <2>7. LastAck(inbound'[y], ctx'[y], ctx'[Peer(y)].fin_received)
    BY <1>y, <1>1, <1>3
  <2> QED
    BY <2>4, <2>5, <2>6, <2>7 DEF CloseEnd
<1> QED
  BY <1>1, <1>4, <1>5, <1>6 DEF CloseInv

\* control_loop() sends what the application wrote: a packet with data.
LEMMA HandleAppDataClose ==
    ASSUME Inv, CloseInv, NEW e \in Ends, HandleAppData(e) PROVE CloseInv'
<1> DEFINE q == app_recv_queue[e]
           c == ctx[e]
           n == MIN(q[1].len, MaxToSend(c))
           s == Wrap(c.sequence_num + n)
<1>d. PICK d : d = [c EXCEPT !.sequence_num = s]
  OBVIOUS
<1>y. PICK y \in Ends : y = Peer(e) /\ y # e /\ Peer(y) = e
  BY PeerFacts
<1>1. UNCHANGED <<thread, app, result>> /\ thread[e] = "loop" /\ "APP_DATA" \in event[e]
  BY DEF HandleAppData, sockVars
<1>2. CASE ~(MaxToSend(c) > 0)
  <2>1. UNCHANGED <<app_recv_queue, inbound, ctx>>
    BY <1>2 DEF HandleAppData
  <2> QED
    BY <1>1, <2>1, CloseStutter
<1>3. CASE MaxToSend(c) > 0
  <2>1. PICK p : p = MakePacket(c, {"ACK"}, q[1].pos, n)
    OBVIOUS
  <2>2. /\ app_recv_queue' = [app_recv_queue EXCEPT ![e] = DequeuePartial(q, n)]
        /\ Send(e, <<p>>) /\ ctx' = [ctx EXCEPT ![e] = d]
    <3>1. app_recv_queue' = [app_recv_queue EXCEPT ![e] = DequeuePartial(q, n)] /\ Send(e, <<p>>)
      BY <1>3, <2>1 DEF HandleAppData
    <3>2. ctx' = [ctx EXCEPT ![e].sequence_num = s]
      BY <1>3 DEF HandleAppData
    <3> QED
      BY <1>d, <3>1, <3>2
  <2>3. /\ q # <<>> /\ q \in Seq(Buffer) /\ c \in Context /\ q[1] \in Buffer /\ 1 \in 1 .. Len(q)
        /\ \A i \in 1 .. Len(q) : q[i].len > 0
        /\ FinInv(e) /\ FinInv(y) /\ StateInv(e) /\ LastAck(inbound[y], ctx[y], c.fin_received)
        /\ inbound[y] \in Seq(Packet)
    <3>1. q \in Seq(Buffer) /\ c \in Context /\ EventInv(e) /\ FinInv(e) /\ FinInv(y)
          /\ inbound[y] \in Seq(Packet)
      BY EndFacts
    <3>2. q # <<>>
      BY <1>1, <3>1 DEF EventInv
    <3>3. /\ \A i \in 1 .. Len(q) : q[i].len > 0
          /\ StateInv(e) /\ LastAck(inbound[y], ctx[y], c.fin_received)
      BY <1>y, CloseFacts
    <3> QED
      BY <3>1, <3>2, <3>3, TailFacts, SMTT(30)
  <2>4. q[1].pos \in Nat /\ q[1].len \in Nat /\ q[1].len > 0
    BY <2>3 DEF Buffer
  <2>5. MaxToSend(c) \in Nat
    <3>1. c.peer_window_size - (c.last_byte_sent - c.last_ack_received) \in Int
      <4>1. c.peer_window_size \in Int /\ c.last_byte_sent \in SeqNums /\ c.last_ack_received \in SeqNums
        BY <2>3 DEF Context
      <4> QED
        BY <4>1, ConstantFacts, SMTT(30) DEF SeqNums
    <3>2. Wrap(c.peer_window_size - (c.last_byte_sent - c.last_ack_received)) \in Nat
      BY <3>1, WrapType, ConstantFacts, SMTT(30) DEF SeqNums
    <3> QED
      BY <3>2, ConstantFacts DEF MaxToSend, MIN
  <2>6. n \in Nat /\ n > 0
    BY <1>3, <2>4, <2>5 DEF MIN
  <2> HIDE DEF n
  <2>7. p \in Packet /\ p.len = n
    BY <2>1, <2>3, <2>4, <2>6, MakePacketType DEF MakePacket
  <2>8. ~Quiet(p)
    BY <2>6, <2>7, SMTT(30) DEF Quiet
  <2>9. ~c.fin_sent /\ ~ctx[y].fin_received /\ ~c.fin_acked
    <3>1. WriteInv(e)
      BY EndFacts
    <3>2. ~c.fin_sent
      BY <2>3, <3>1 DEF WriteInv
    <3> QED
      BY <1>y, <2>3, <3>2 DEF FinInv
  <2>10. /\ d.fin_sent = c.fin_sent /\ d.fin_received = c.fin_received /\ d.fin_acked = c.fin_acked
         /\ d.done = c.done /\ d.connection_state = c.connection_state
    BY <1>d, <2>3 DEF Context
  <2> HIDE DEF s
  <2>11. inbound'[e] = inbound[e] /\ (inbound'[y] = inbound[y] \/ inbound'[y] = Append(inbound[y], p))
    BY <1>y, <2>2, <2>7, SendOne
  <2>12. ctx'[e] = d
    BY <2>2 DEF Inv, TypeOK
  <2>13. StateInv(e)'
    BY <1>1, <2>3, <2>10, <2>11, <2>12 DEF StateInv, Opening, Finished
  <2>14. LastAck(inbound'[e], d, ctx[y].fin_received)
    BY <2>9, <2>10 DEF LastAck
  <2>15. LastAck(inbound'[y], ctx[y], d.fin_received)
    BY <2>3, <2>7, <2>8, <2>10, <2>11, LastAckAppend
  <2>16. ASSUME NEW x \in Ends, NEW i \in 1 .. Len(app_recv_queue'[x])
         PROVE  app_recv_queue'[x][i].len > 0
    <3>1. CASE x = e
      <4>1. app_recv_queue'[x] = DequeuePartial(q, n)
        BY <2>2, <3>1 DEF Inv, TypeOK
      <4>2. \/ \E j \in 1 .. Len(q) : app_recv_queue'[x][i] = q[j]
            \/ app_recv_queue'[x][i].len > 0
        BY <2>3, <2>6, <4>1, DequeueMembers
      <4> QED
        BY <2>3, <4>2
    <3>2. CASE x # e
      <4>1. app_recv_queue'[x] = app_recv_queue[x]
        BY <2>2, <3>2 DEF Inv, TypeOK
      <4> QED
        BY <4>1, CloseFacts
    <3> QED
      BY <3>1, <3>2
  <2>17. d.connection_state # "SYN_SENT"
    BY <1>1, <2>3, <2>10 DEF StateInv
  <2>18. /\ LastAck(inbound'[e], d, ctx[Peer(e)].fin_received)
         /\ LastAck(inbound'[Peer(e)], ctx[Peer(e)], d.fin_received)
         /\ \/ inbound'[Peer(e)] = inbound[Peer(e)]
            \/ inbound'[Peer(e)] = Append(inbound[Peer(e)], p)
    BY <1>y, <2>11, <2>14, <2>15
  <2> QED
    BY <1>1, <2>2, <2>7, <2>11, <2>13, <2>16, <2>17, <2>18, LoopStep
<1> QED
  BY <1>2, <1>3

\* A close request: the FIN, if it was not sent.
LEMMA HandleCloseClose ==
    ASSUME Inv, CloseInv, NEW e \in Ends, HandleClose(e) PROVE CloseInv'
<1> DEFINE c == ctx[e]
           s == Wrap(c.sequence_num + 1)
           st == CASE c.connection_state = "ESTABLISHED" -> "FIN_WAIT_1"
                   [] c.connection_state = "CLOSE_WAIT"  -> "LAST_ACK"
                   [] OTHER -> c.connection_state
<1>d. PICK d : d = [c EXCEPT !.fin_sent = TRUE, !.sequence_num = s, !.connection_state = st]
  OBVIOUS
<1>y. PICK y \in Ends : y = Peer(e) /\ y # e /\ Peer(y) = e
  BY PeerFacts
<1>1. UNCHANGED <<thread, app, result, app_recv_queue>> /\ thread[e] = "loop"
  BY DEF HandleClose, sockVars, queueVars
<1>2. CASE c.fin_sent
  <2>1. UNCHANGED <<inbound, ctx>>
    BY <1>2 DEF HandleClose
  <2> QED
    BY <1>1, <2>1, CloseStutter
<1>3. CASE ~c.fin_sent
  <2>1. PICK p : p = MakePacket(c, {"FIN", "ACK"}, sent[e], 0)
    OBVIOUS
  <2>2. Send(e, <<p>>) /\ ctx' = [ctx EXCEPT ![e] = d]
    BY <1>d, <1>3, <2>1 DEF HandleClose
  <2>3. /\ c \in Context /\ sent[e] \in Nat /\ FinInv(e) /\ FinInv(y) /\ StateInv(e)
        /\ LastAck(inbound[y], ctx[y], c.fin_received) /\ inbound[y] \in Seq(Packet)
    BY <1>y, EndFacts, CloseFacts
  <2>4. p \in Packet /\ p.flags = {"FIN", "ACK"}
    <3>1. {"FIN", "ACK"} \in SUBSET {"SYN", "ACK", "FIN"} /\ 0 \in Nat
      OBVIOUS
    <3> QED
      BY <2>1, <2>3, <3>1, MakePacketType DEF MakePacket
  <2>5. ~Quiet(p)
    BY <2>4 DEF Quiet
  <2>6. ~ctx[y].fin_received /\ ~c.fin_acked
    BY <1>y, <1>3, <2>3 DEF FinInv
  <2>7. /\ d.fin_sent = TRUE /\ d.fin_received = c.fin_received /\ d.fin_acked = c.fin_acked
        /\ d.done = c.done /\ d.connection_state = st
    BY <1>d, <2>3 DEF Context
  <2>8. /\ st # "ESTABLISHED" /\ (st = "FIN_WAIT_2" => c.connection_state = "FIN_WAIT_2")
        /\ (st = "SYN_SENT" => c.connection_state = "SYN_SENT")
        /\ st \in {"CLOSE_WAIT", "CLOSING", "LAST_ACK"} =>
              c.connection_state \in {"CLOSE_WAIT", "CLOSING", "LAST_ACK"}
    OBVIOUS
  <2> HIDE DEF s, st
  <2>9. inbound'[e] = inbound[e] /\ (inbound'[y] = inbound[y] \/ inbound'[y] = Append(inbound[y], p))
    BY <1>y, <2>2, <2>4, SendOne
  <2>10. ctx'[e] = d
    BY <2>2 DEF Inv, TypeOK
  <2>11. c.done => app[Peer(e)] = "killed" /\ inbound[e] = <<>>
    BY <1>3, <2>3 DEF StateInv, Finished
  <2>12. StateInv(e)'
    BY <1>1, <2>3, <2>7, <2>8, <2>9, <2>10, <2>11 DEF StateInv, Opening
  <2>13. LastAck(inbound'[e], d, ctx[y].fin_received)
    BY <2>6, <2>7 DEF LastAck
  <2>14. LastAck(inbound'[y], ctx[y], d.fin_received)
    BY <2>3, <2>4, <2>5, <2>7, <2>9, LastAckAppend
  <2>15. \A x \in Ends : \A i \in 1 .. Len(app_recv_queue'[x]) : app_recv_queue'[x][i].len > 0
    BY <1>1, CloseFacts
  <2>16. d.connection_state # "SYN_SENT"
    BY <1>1, <2>3, <2>7, <2>8 DEF StateInv
  <2>17. /\ LastAck(inbound'[e], d, ctx[Peer(e)].fin_received)
         /\ LastAck(inbound'[Peer(e)], ctx[Peer(e)], d.fin_received)
         /\ \/ inbound'[Peer(e)] = inbound[Peer(e)]
            \/ inbound'[Peer(e)] = Append(inbound[Peer(e)], p)
    BY <1>y, <2>9, <2>13, <2>14
  <2> QED
    BY <1>1, <2>2, <2>4, <2>9, <2>12, <2>15, <2>16, <2>17, LoopStep
<1> QED
  BY <1>2, <1>3

\* The end of the TCP connection.  In the state ESTABLISHED no FIN was sent, so
\* that the peer has not finished: its process has died.
LEMMA HandleHangupClose ==
    ASSUME Inv, CloseInv, NEW e \in Ends, HandleHangup(e) PROVE CloseInv'
<1> DEFINE c == ctx[e]
<1>d. PICK d : d = IF c.connection_state = "ESTABLISHED"
                     THEN [c EXCEPT !.connection_state = "CLOSED", !.done = TRUE] ELSE c
  OBVIOUS
<1>y. PICK y \in Ends : y = Peer(e) /\ y # e /\ Peer(y) = e
  BY PeerFacts
<1>1. /\ UNCHANGED <<thread, app_recv_queue, result, app>>
      /\ thread[e] = "loop" /\ "NETWORK_DATA" \in event[e] /\ Head(inbound[e]) = Hangup
      /\ TakeAndSend(e, <<>>)
      /\ ctx' = [ctx EXCEPT ![e] = d]
  BY <1>d DEF HandleHangup, TakesPacket, queueVars, sockVars
<1>2. /\ c \in Context /\ inbound[e] \in Seq(Packet) /\ EventInv(e) /\ FlowInv(e) /\ FinInv(y)
      /\ StateInv(e) /\ StateInv(y) /\ ResultInv(y) /\ AnswerInv
      /\ HangupLast(inbound[e], SynMayBeLate(e)) /\ LastAck(inbound[y], ctx[y], c.fin_received)
  BY <1>y, EndFacts, CloseFacts
<1>3. arrived[e] > 0 /\ ~Gone(e)
  BY <1>1, <1>2 DEF EventInv
<1>4. /\ inbound[e] # <<>> /\ inbound[e][1] = Hangup
      /\ inbound'[e] = Tail(inbound[e]) /\ inbound'[Peer(e)] = inbound[Peer(e)]
  <2>1. PICK ps : ps = <<>>
    OBVIOUS
  <2>2. TakeAndSend(e, ps)
    BY <1>1, <2>1
  <2>3. /\ inbound[e] # <<>> /\ Head(inbound[e]) = inbound[e][1]
        /\ inbound'[e] = Tail(inbound[e]) /\ inbound'[Peer(e)] = inbound[Peer(e)]
    BY <1>3, <2>1, <2>2, TakeOne, HangupType
  <2> QED
    BY <1>1, <2>3
<1>5. inbound'[e] = <<>>
  <2>1. ~SynMayBeLate(e)
    BY <1>1 DEF SynMayBeLate, Unanswered
  <2>2. HangupLast(inbound[e], FALSE)
    BY <1>2, <2>1 DEF HangupLast
  <2>3. Tail(inbound[e]) = <<>>
    BY <1>2, <1>4, <2>2, HangupTake
  <2> QED
    BY <1>4, <2>3
<1>6. Gone(y)
  <2>1. 1 \in 1 .. Len(inbound[e])
    BY <1>2, <1>4, SMTT(30)
  <2>2. Flow(inbound[e], accepted[e], sent[Peer(e)], Gone(Peer(e)))
    BY <1>2, <1>3 DEF FlowInv
  <2>3. Gone(Peer(e))
    BY <1>4, <2>1, <2>2 DEF Flow
  <2> QED
    BY <1>y, <2>3
<1>7. ASSUME c.connection_state = "ESTABLISHED" PROVE app[y] = "killed"
  <2> SUFFICES ASSUME app[y] = "closed" PROVE FALSE
    BY <1>6 DEF Gone
  <2>1. thread[y] = "exited"
    BY <1>2 DEF ResultInv
  <2>2. CASE ctx[y].done
    <3>1. ctx[y].fin_received
      BY <1>y, <1>2, <1>3, <2>2 DEF StateInv, Finished, Gone
    <3>2. c.fin_sent
      BY <1>y, <1>2, <3>1 DEF FinInv
    <3> QED
      BY <1>2, <1>7, <3>2 DEF StateInv
  <2>3. CASE result[y] = "refused" /\ y = "passive"
    <3>1. app[y] \in {"accepting", "failed", "killed"}
      BY <1>2, <2>3 DEF ResultInv
    <3> QED
      BY <3>1
  <2>4. CASE y = "active" /\ ctx[y].connection_state = "SYN_SENT"
    <3>1. e = "passive"
      BY <1>y, <2>4 DEF Ends
    <3> QED
      BY <1>1, <1>2, <2>4, <3>1 DEF AnswerInv
  <2> QED
    BY <1>2, <2>1, <2>2, <2>3, <2>4 DEF ResultInv
<1>8. /\ d.fin_sent = c.fin_sent /\ d.fin_received = c.fin_received /\ d.fin_acked = c.fin_acked
      /\ c.connection_state = "ESTABLISHED" => d.connection_state = "CLOSED"
      /\ c.connection_state # "ESTABLISHED" => d = c
  BY <1>d, <1>2 DEF Context
<1>9. ctx'[e] = d
  BY <1>1 DEF Inv, TypeOK
<1>10. d.connection_state # "SYN_SENT"
  BY <1>1, <1>2, <1>8 DEF StateInv
<1>11. StateInv(e)'
  <2>1. ~Opening(e)'
    BY <1>1 DEF Opening
  <2>2. CASE c.connection_state = "ESTABLISHED"
    <3>1. app'[Peer(e)] = "killed"
      BY <1>y, <1>1, <1>7, <2>2
    <3>2. ctx'[e].connection_state = "CLOSED"
      BY <1>8, <1>9, <2>2
    <3> QED
      BY <1>5, <2>1, <3>1, <3>2 DEF StateInv
  <2>3. CASE c.connection_state # "ESTABLISHED"
    <3>1. ctx'[e] = ctx[e]
      BY <1>8, <1>9, <2>3
    <3> QED
      BY <1>1, <1>2, <1>5, <2>1, <3>1, KeepState
  <2> QED
    BY <2>2, <2>3
<1>12. LastAck(inbound'[e], d, ctx[Peer(e)].fin_received)
  <2>1. \A i \in 1 .. Len(inbound'[e]) : FALSE
    BY <1>5, SMTT(30)
  <2> QED
    BY <2>1 DEF LastAck
<1>13. LastAck(inbound'[Peer(e)], ctx[Peer(e)], d.fin_received)
  BY <1>y, <1>2, <1>4, <1>8
<1>14. \A x \in Ends : \A i \in 1 .. Len(app_recv_queue'[x]) : app_recv_queue'[x][i].len > 0
  BY <1>1, CloseFacts
<1> QED
  BY <1>1, <1>4, <1>10, <1>11, <1>12, <1>13, <1>14, LoopStep, HangupType

-----------------------------------------------------------------------------
(* CloseInv: a packet.                                                     *)

\* What StateInv and FinInv say of the context of a connection that is up.
StateOK(c) ==
    /\ c.connection_state # "SYN_SENT"
    /\ c.connection_state = "ESTABLISHED" => ~c.fin_sent /\ ~c.fin_received /\ ~c.done
    /\ c.connection_state = "FIN_WAIT_2" => c.fin_sent /\ c.fin_acked
    /\ c.connection_state \in {"CLOSE_WAIT", "CLOSING", "LAST_ACK"} => c.fin_received
    /\ c.connection_state \in FinStates => c.fin_sent
    /\ c.done => Finished(c)

\* The FIN of the peer ends a connection only after our own was acknowledged.
LEMMA OnFinState ==
    ASSUME NEW c \in Context, NEW p \in Packet, StateOK(c) PROVE StateOK(OnFin(c, p))
<1>1. CASE "FIN" \notin p.flags
  BY <1>1 DEF OnFin
<1>2. CASE "FIN" \in p.flags
  <2> DEFINE a == Wrap(p.seq + 1)
             b == c.done \/ c.connection_state = "FIN_WAIT_2"
             s == CASE c.connection_state = "ESTABLISHED" -> "CLOSE_WAIT"
                    [] c.connection_state = "FIN_WAIT_1"  -> "CLOSING"
                    [] OTHER                              -> c.connection_state
  <2>1. PICK d : d = OnFin(c, p)
    OBVIOUS
  <2>2. d = [c EXCEPT !.fin_received = TRUE, !.ack_num = a, !.done = b, !.connection_state = s]
    BY <1>2, <2>1 DEF OnFin
  <2>3. /\ s \notin {"SYN_SENT", "ESTABLISHED", "FIN_WAIT_1"}
        /\ s = "FIN_WAIT_2" => c.connection_state = "FIN_WAIT_2"
        /\ s \in FinStates => c.connection_state \in FinStates
    BY DEF StateOK, FinStates
  <2> HIDE DEF a, b, s
  <2>4. /\ d.fin_received = TRUE /\ d.done = b /\ d.connection_state = s
        /\ d.fin_sent = c.fin_sent /\ d.fin_acked = c.fin_acked
    BY <2>2 DEF Context
  <2>5. d.done => c.fin_sent /\ c.fin_acked
    BY <2>4 DEF b, StateOK, Finished
  <2>6. StateOK(d)
    BY <2>3, <2>4, <2>5 DEF StateOK, Finished
  <2> QED
    BY <2>1, <2>6
<1> QED
  BY <1>1, <1>2

\* The ACK of our FIN ends it only after the peer's was received.
LEMMA OnAckState ==
    ASSUME NEW c \in Context, NEW p \in Packet, StateOK(c) PROVE StateOK(OnAck(c, p))
<1>1. CASE ~(AckExpected(c, p) /\ c.connection_state \in {"FIN_WAIT_1", "CLOSING", "LAST_ACK"})
  BY <1>1 DEF OnAck
<1>2. CASE AckExpected(c, p) /\ c.connection_state \in {"FIN_WAIT_1", "CLOSING", "LAST_ACK"}
  <2> DEFINE b == c.done \/ c.connection_state # "FIN_WAIT_1"
             s == CASE c.connection_state = "FIN_WAIT_1" -> "FIN_WAIT_2"
                    [] c.connection_state = "CLOSING"    -> "CLOSING"
                    [] c.connection_state = "LAST_ACK"   -> "CLOSED"
  <2>1. PICK d : d = OnAck(c, p)
    OBVIOUS
  <2>2. d = [c EXCEPT !.fin_acked = TRUE, !.done = b, !.connection_state = s]
    BY <1>2, <2>1 DEF OnAck
  <2>3. /\ s \in {"FIN_WAIT_2", "CLOSING", "CLOSED"}
        /\ s = "CLOSING" => c.connection_state = "CLOSING"
    BY <1>2
  <2> HIDE DEF b, s
  <2>4. /\ d.fin_acked = TRUE /\ d.done = b /\ d.connection_state = s
        /\ d.fin_sent = c.fin_sent /\ d.fin_received = c.fin_received
    BY <2>2 DEF Context
  <2>5. c.fin_sent /\ (c.connection_state # "FIN_WAIT_1" => c.fin_received)
    BY <1>2 DEF StateOK, FinStates
  <2>6. d.done => c.fin_received
    BY <2>4, <2>5 DEF b, StateOK, Finished
  <2>7. StateOK(d)
    BY <2>3, <2>4, <2>5, <2>6 DEF StateOK, Finished
  <2> QED
    BY <2>1, <2>7
<1> QED
  BY <1>1, <1>2

\* Data does not.
LEMMA OnDataState ==
    ASSUME NEW c \in Context, NEW p \in Packet, StateOK(c) PROVE StateOK(OnData(c, p))
<1> DEFINE a == Wrap(c.ack_num + p.len)
           n == IF PassedUp(c, p) THEN Wrap(p.seq + p.len) ELSE c.next_seq_expected
           u == IF PassedUp(c, p) THEN c.recv_buffer_used ELSE c.recv_buffer_used + p.len
<1>1. PICK d : d = OnData(c, p)
  OBVIOUS
<1>2. d = c \/ d = [c EXCEPT !.ack_num = a, !.recv_buffer_used = u, !.next_seq_expected = n]
  BY <1>1 DEF OnData
<1> HIDE DEF a, n, u
<1>3. /\ d.done = c.done /\ d.connection_state = c.connection_state /\ d.fin_sent = c.fin_sent
      /\ d.fin_received = c.fin_received /\ d.fin_acked = c.fin_acked
  BY <1>2 DEF Context
<1> QED
  BY <1>1, <1>3 DEF StateOK, Finished

\* The number a of a byte sent and the number after the FIN are less than a whole
\* cycle of sequence numbers apart.
LEMMA Distance ==
    ASSUME NEW a \in Nat, NEW b \in Nat, NEW l \in Nat, NEW n \in Nat, NEW j \in Nat,
           a <= b, b <= l, l + 2 < n, j <= a
    PROVE  a + 1 - j < n
  BY SMTT(30)

\* Until the peer has received the FIN of an end, no packet acknowledges it.
LEMMA NotYetAcked ==
    ASSUME Inv, NEW x \in Ends, thread[x] = "loop", ctx[x].fin_sent, ~ctx[Peer(x)].fin_received,
           NEW i \in 1 .. Len(inbound[x])
    PROVE  ~AckExpected(ctx[x], inbound[x][i])
<1>y. PICK y \in Ends : y = Peer(x) /\ Peer(y) = x
  BY PeerFacts
<1> SUFFICES ASSUME AckExpected(ctx[x], inbound[x][i]) PROVE FALSE
  OBVIOUS
<1>1. /\ ctx[x] \in Context /\ ctx[y] \in Context /\ Isn(x) \in Nat /\ sent[x] \in Nat
      /\ accepted[y] \in Nat /\ written[x] \in Nat /\ written[x] <= MaxBytes
      /\ NumberInv(x) /\ WriteInv(x) /\ FlowInv(y) /\ PacketInv(x)
  BY EndFacts
<1>2. sent[x] <= written[x] /\ accepted[y] <= sent[x]
  BY <1>y, <1>1 DEF WriteInv, FlowInv
<1>3. ctx[x].fin_sent = TRUE /\ ctx[y].fin_received = FALSE
  <2>1. ctx[x].fin_sent \in BOOLEAN /\ ctx[y].fin_received \in BOOLEAN
    BY <1>1 DEF Context
  <2> QED
    BY <1>y, <2>1
<1>4. Bit(TRUE) = 1 /\ Bit(FALSE) = 0
  BY DEF Bit
<1>5. ctx[x].sequence_num = Wrap(Isn(x) + 1 + sent[x] + 1)
  BY <1>1, <1>3, <1>4 DEF NumberInv
<1>6. Acked(y) = accepted[y] + 0
  BY <1>3, <1>4 DEF Acked
<1>7. PICK k \in 0 .. accepted[y] + 0 : inbound[x][i].ack = Wrap(Isn(x) + 1 + k)
  BY <1>y, <1>1, <1>6 DEF PacketInv, PacketOK, AckExpected
<1>8. k \in Nat /\ k <= sent[x]
  BY <1>1, <1>2, <1>7, SMTT(30)
<1> DEFINE m == Isn(x) + 1 + k
           d == sent[x] + 1 - k
<1>9. m \in Nat /\ d \in Nat /\ d < SeqMod /\ d # 0 /\ Isn(x) + 1 + sent[x] + 1 = m + d
  <2>1. PICK s, i0 \in Nat : s = sent[x] /\ i0 = Isn(x)
    BY <1>1
  <2>2. PICK w \in Nat : w = written[x] /\ w <= MaxBytes /\ s <= w
    BY <1>1, <1>2, <2>1
  <2>3. MaxBytes \in Nat /\ SeqMod \in Nat /\ MaxBytes + 2 < SeqMod
    BY ConstantFacts
  <2>4. k \in Nat /\ k <= s
    BY <1>8, <2>1
  <2>5. /\ i0 + 1 + k \in Nat /\ s + 1 - k \in Nat /\ s + 1 - k < SeqMod /\ s + 1 - k # 0
        /\ i0 + 1 + s + 1 = i0 + 1 + k + (s + 1 - k)
    <3>1. s \in Nat /\ i0 \in Nat /\ w \in Nat /\ s <= w /\ w <= MaxBytes
      BY <2>2
    <3>2. s + 1 - k < SeqMod
      BY ONLY <2>3, <2>4, <3>1, Distance, ZenonT(30)
    <3>3. \A a, j, n \in Nat :
             j <= a => /\ n + 1 + j \in Nat /\ a + 1 - j \in Nat /\ a + 1 - j # 0
                       /\ n + 1 + a + 1 = n + 1 + j + (a + 1 - j)
      BY SMTT(30)
    <3>4. /\ i0 + 1 + k \in Nat /\ s + 1 - k \in Nat /\ s + 1 - k # 0
          /\ i0 + 1 + s + 1 = i0 + 1 + k + (s + 1 - k)
      BY ONLY <2>4, <3>1, <3>3, ZenonT(30)
    <3> QED
      BY <3>2, <3>4
  <2> QED
    BY <2>1, <2>5
<1>10. Wrap(m) = Wrap(m + d)
  <2>1. Wrap(m) = Wrap(Isn(x) + 1 + sent[x] + 1)
    BY <1>5, <1>7 DEF AckExpected
  <2> QED
    BY <1>9, <2>1
<1> HIDE DEF m, d
<1> QED
  BY <1>9, <1>10, WrapInjective

\* Taking a packet keeps the ACK of the FIN the last one.  If it is the packet
\* taken, no other packet is only an ACK.
LEMMA LastAckTake ==
    ASSUME NEW q \in Seq(Packet), q # <<>>, NEW c, NEW fin, LastAck(q, c, fin)
    PROVE  /\ LastAck(Tail(q), c, fin)
           /\ fin /\ AckExpected(c, q[1]) =>
                 \A i \in 1 .. Len(Tail(q)) : Quiet(Tail(q)[i]) => Tail(q)[i] = Hangup
<1> DEFINE r == Tail(q)
<1>1. /\ Len(q) > 0 /\ Len(q) \in Nat /\ Len(r) = Len(q) - 1 /\ Len(r) \in Nat
      /\ \A i \in 1 .. Len(r) : r[i] = q[i + 1] /\ i + 1 \in 1 .. Len(q)
  BY TailFacts, SMTT(30)
<1> HIDE DEF r
<1>2. c.fin_acked => \A i \in 1 .. Len(r) : Quiet(r[i]) => r[i] = Hangup
  BY <1>1 DEF LastAck
<1>3. ASSUME fin, NEW j \in 1 .. Len(r), Quiet(r[j]), r[j] # Hangup
      PROVE  ~AckExpected(c, q[1]) /\ \A i \in 1 .. j - 1 : ~AckExpected(c, r[i])
  <2>1. \A i \in 1 .. (j + 1) - 1 : ~AckExpected(c, q[i])
    BY <1>1, <1>3 DEF LastAck
  <2>2. /\ 1 \in 1 .. (j + 1) - 1
        /\ \A i \in 1 .. j - 1 : i \in 1 .. Len(r) /\ i + 1 \in 1 .. (j + 1) - 1
    BY <1>1, SMTT(30)
  <2> QED
    BY <1>1, <2>1, <2>2
<1>4. LastAck(r, c, fin)
  BY <1>2, <1>3 DEF LastAck
<1> QED
  BY <1>3, <1>4 DEF r

\* A packet.  The one ACK it may be answered with is the last one if it is the
\* ACK of a FIN, and the one it brings is the last one if it is that of our FIN.
LEMMA HandleSegmentClose ==
    ASSUME Inv, Inv', CloseInv, NEW e \in Ends, HandleSegment(e) PROVE CloseInv'
<1> DEFINE p  == Head(inbound[e])
           c  == ctx[e]
           c0 == [c EXCEPT !.peer_window_size = p.win]
           c1 == OnFin(c0, p)
           c2 == OnAck(c1, p)
           a1 == MakePacket(c1, {"ACK"}, sent[e], 0)
           finAck == IF "FIN" \in p.flags THEN <<a1>> ELSE <<>>
<1>d. PICK d : d = OnData(c2, p)
  OBVIOUS
<1> DEFINE a3 == MakePacket(d, {"ACK"}, sent[e], 0)
           dataAck == IF p.len > 0 THEN <<a3>> ELSE <<>>
<1>y. PICK y \in Ends : y = Peer(e) /\ y # e /\ Peer(y) = e
  BY PeerFacts
<1>1. /\ UNCHANGED <<thread, app_recv_queue, result, app>>
      /\ thread[e] = "loop" /\ "NETWORK_DATA" \in event[e] /\ p # Hangup
      /\ TakeAndSend(e, finAck \o dataAck) /\ ctx' = [ctx EXCEPT ![e] = d]
  BY <1>d DEF HandleSegment, TakesPacket, sockVars
<1>2. /\ c \in Context /\ inbound[e] \in Seq(Packet) /\ EventInv(e) /\ FinInv(e) /\ FinInv(y)
      /\ inbound[y] \in Seq(Packet) /\ FlowInv(y) /\ sent[e] \in Nat
      /\ arrived[e] \in Nat /\ arrived[e] <= Len(inbound[e])
      /\ StateInv(e) /\ StateInv(y) /\ ResultInv(y)
      /\ LastAck(inbound[e], c, ctx[y].fin_received) /\ LastAck(inbound[y], ctx[y], c.fin_received)
  BY <1>y, EndFacts, CloseFacts
<1>3. arrived[e] > 0 /\ ~Gone(e) /\ inbound[e] # <<>>
  BY <1>1, <1>2, SMTT(30) DEF EventInv
<1>4. p = inbound[e][1] /\ p \in Packet /\ 1 \in 1 .. Len(inbound[e])
  BY <1>2, <1>3, TailFacts, SMTT(30)
<1>5. p.win \in Int /\ p.len \in Nat
  BY <1>4 DEF Packet
<1> HIDE DEF p
<1>6. /\ c0 \in Context /\ c0.sequence_num = c.sequence_num
      /\ c0.fin_sent = c.fin_sent /\ c0.fin_received = c.fin_received /\ c0.done = c.done
      /\ c0.fin_acked = c.fin_acked /\ c0.connection_state = c.connection_state
  BY <1>2, <1>5 DEF Context
<1>7. StateOK(c0)
  <2>1. c.done => Finished(c)
    BY <1>2, <1>3 DEF StateInv
  <2>2. c.fin_acked => c.fin_sent
    BY <1>2 DEF FinInv
  <2>3. c.connection_state \in FinStates => c.fin_sent
    BY <1>2 DEF FinInv
  <2> QED
    BY <1>1, <1>2, <1>6, <2>1, <2>2, <2>3 DEF StateOK, StateInv, Finished
<1> HIDE DEF c0
<1>8. /\ c1 \in Context /\ StateOK(c1) /\ c1.sequence_num = c.sequence_num
      /\ "FIN" \in p.flags => c1.fin_received
      /\ "FIN" \notin p.flags => c1.fin_received = c.fin_received
      /\ c1.fin_acked = c.fin_acked
  BY <1>4, <1>6, <1>7, OnFinFacts, OnFinState
<1> HIDE DEF c1
<1>9. /\ c2 \in Context /\ StateOK(c2) /\ c2.sequence_num = c1.sequence_num
      /\ c2.fin_received = c1.fin_received
      /\ c2.fin_acked = c1.fin_acked \/ AckExpected(c1, p)
  BY <1>4, <1>8, OnAckFacts, OnAckState
<1> HIDE DEF c2
<1>10. /\ d \in Context /\ StateOK(d) /\ d.sequence_num = c2.sequence_num
       /\ d.fin_received = c2.fin_received /\ d.fin_acked = c2.fin_acked
  BY <1>d, <1>4, <1>9, OnDataFacts, OnDataState
<1>11. ctx'[e] = d /\ ctx'[y] = ctx[y]
  BY <1>y, <1>1 DEF Inv, TypeOK
<1>12. /\ c.fin_received => p.len = 0 /\ "FIN" \notin p.flags
       /\ "FIN" \in p.flags => p.len = 0 /\ ctx[y].fin_sent
  <2>1. c.fin_received => Quiet(p)
    BY <1>2, <1>4 DEF FinInv
  <2>2. FinQueue(inbound[e], sent[y], ctx[y].fin_sent)
    BY <1>y, <1>2 DEF FinInv
  <2>3. "FIN" \in p.flags => p.len = 0 /\ ctx[y].fin_sent
    BY <1>4, <2>2 DEF FinQueue
  <2> QED
    BY <2>1, <2>3 DEF Quiet
<1>13. PICK a \in Packet : /\ finAck \o dataAck = <<>> \/ finAck \o dataAck = <<a>>
                           /\ "FIN" \notin p.flags /\ p.len = 0 => finAck \o dataAck = <<>>
  <2>1. a1 \in Packet /\ a3 \in Packet
    BY <1>2, <1>8, <1>10, MakePacketType
  <2>2. /\ "FIN" \in p.flags => finAck = <<a1>>
        /\ "FIN" \notin p.flags => finAck = <<>>
        /\ p.len > 0 => dataAck = <<a3>>
        /\ ~(p.len > 0) => dataAck = <<>>
    OBVIOUS
  <2> HIDE DEF a1, a3, finAck, dataAck
  <2>3. <<>> \o <<a3>> = <<a3>> /\ <<a1>> \o <<>> = <<a1>> /\ <<>> \o <<>> = <<>>
    BY <2>1, SMTT(30)
  <2>4. p.len = 0 => ~(p.len > 0)
    BY <1>5, SMTT(30)
  <2>5. CASE "FIN" \in p.flags
    BY <1>12, <2>1, <2>2, <2>3, <2>4, <2>5
  <2>6. CASE "FIN" \notin p.flags /\ p.len = 0
    BY <2>1, <2>2, <2>3, <2>4, <2>6
  <2>7. CASE "FIN" \notin p.flags /\ p.len > 0
    BY <2>1, <2>2, <2>3, <2>4, <2>7
  <2> QED
    BY <1>5, <2>5, <2>6, <2>7, SMTT(30)
<1>14. /\ inbound'[e] = Tail(inbound[e])
       /\ inbound'[y] = inbound[y] \/ inbound'[y] = Append(inbound[y], a)
       /\ "FIN" \notin p.flags /\ p.len = 0 => inbound'[y] = inbound[y]
  <2>1. PICK ps : ps = finAck \o dataAck
    OBVIOUS
  <2>2. (ps = <<>> \/ ps = <<a>>) /\ TakeAndSend(e, ps)
    BY <1>1, <1>13, <2>1
  <2>3. /\ inbound'[e] = Tail(inbound[e])
        /\ ps = <<>> => inbound'[y] = inbound[y]
        /\ ps = <<a>> => inbound'[y] = inbound[y] \/ inbound'[y] = Append(inbound[y], a)
    BY <1>y, <1>3, <2>2, TakeOne
  <2> QED
    BY <1>13, <2>1, <2>2, <2>3
<1> HIDE DEF finAck, dataAck
<1>15. LastAck(inbound'[e], d, ctx[Peer(e)].fin_received)
  <2>1. /\ LastAck(Tail(inbound[e]), c, ctx[y].fin_received)
        /\ ctx[y].fin_received /\ AckExpected(c, p) =>
              \A i \in 1 .. Len(Tail(inbound[e])) :
                 Quiet(Tail(inbound[e])[i]) => Tail(inbound[e])[i] = Hangup
    BY <1>2, <1>3, <1>4, LastAckTake
  <2>2. d.sequence_num = c.sequence_num
    BY <1>8, <1>9, <1>10
  <2>3. \A v : (AckExpected(d, v) <=> AckExpected(c, v)) /\ (AckExpected(c1, v) <=> AckExpected(c, v))
    BY <1>8, <2>2 DEF AckExpected
  <2>4. d.fin_acked => c.fin_acked \/ (ctx[y].fin_received /\ AckExpected(c, p))
    <3>1. d.fin_acked => c.fin_acked \/ AckExpected(c, p)
      BY <1>8, <1>9, <1>10, <2>3
    <3>2. FinInv(e)'
      BY DEF Inv, EndInv
    <3>3. d.fin_acked => ctx[y].fin_received
      BY <1>y, <1>11, <3>2 DEF FinInv
    <3> QED
      BY <3>1, <3>3
  <2> QED
    BY <1>y, <1>14, <2>1, <2>3, <2>4 DEF LastAck
<1>16. LastAck(inbound'[Peer(e)], ctx[Peer(e)], d.fin_received)
  <2>1. CASE "FIN" \notin p.flags /\ p.len = 0
    BY <1>y, <1>2, <1>8, <1>9, <1>10, <1>14, <2>1
  <2>2. CASE "FIN" \in p.flags \/ p.len # 0
    <3>1. ~c.fin_received
      BY <1>12, <2>2
    <3>2. ~ctx[y].fin_acked
      BY <1>y, <1>2, <3>1 DEF FinInv
    <3>3. CASE "FIN" \notin p.flags
      <4>1. ~d.fin_received
        BY <1>8, <1>9, <1>10, <3>1, <3>3
      <4> QED
        BY <1>y, <3>2, <4>1 DEF LastAck
    <3>4. CASE "FIN" \in p.flags
      <4>1. CASE Gone(y)
        <5>1. PICK ps : ps = finAck \o dataAck
          OBVIOUS
        <5>2. (ps = <<>> \/ ps = <<a>>) /\ TakeAndSend(e, ps)
          BY <1>1, <1>13, <5>1
        <5>3. inbound'[y] = inbound[y]
          BY <1>y, <1>3, <4>1, <5>2, TakeOne
        <5>4. inbound[y] = <<>>
          BY <1>2, <4>1 DEF FlowInv
        <5>5. \A i \in 1 .. Len(inbound'[y]) : FALSE
          BY <5>3, <5>4, SMTT(30)
        <5> QED
          BY <1>y, <5>5 DEF LastAck
      <4>2. CASE ~Gone(y)
        <5>1. ctx[y].fin_sent
          BY <1>12, <3>4
        <5>2. thread[y] = "loop"
          <6>1. ~Opening(y)
            BY <5>1 DEF Inv, OpenInv
          <6>2. ~ctx[y].done
            BY <1>y, <1>2, <1>3, <3>2 DEF StateInv, Finished, Gone
          <6>3. thread[y] # "exited"
            BY <1>y, <1>2, <1>3, <4>2, <5>1, <6>2 DEF ResultInv, Gone
          <6>4. thread[y] \in {"none", "started", "handshake", "loop", "exited"}
            BY DEF Inv, TypeOK
          <6> QED
            BY <6>1, <6>3, <6>4 DEF Opening
        <5>3. \A i \in 1 .. Len(inbound[y]) : ~AckExpected(ctx[y], inbound[y][i])
          BY <1>y, <3>1, <5>1, <5>2, NotYetAcked
        <5>4. LastAck(inbound[y], ctx[y], d.fin_received)
          <6>1. \A j \in 1 .. Len(inbound[y]) : \A i \in 1 .. j - 1 : i \in 1 .. Len(inbound[y])
            BY <1>2, SMTT(30)
          <6> QED
            BY <3>2, <5>3, <6>1 DEF LastAck
        <5>5. LastAck(Append(inbound[y], a), ctx[y], d.fin_received)
          BY <1>2, <3>2, <5>3, <5>4, LastAckAppend
        <5> QED
          BY <1>y, <1>14, <5>4, <5>5
      <4> QED
        BY <4>1, <4>2
    <3> QED
      BY <3>3, <3>4
  <2> QED
    BY <2>1, <2>2
<1>17. StateInv(e)'
  <2>1. ~Opening(e)'
    BY <1>1 DEF Opening
  <2> QED
    BY <1>10, <1>11, <2>1 DEF StateOK, StateInv
<1>18. \A x \in Ends : \A i \in 1 .. Len(app_recv_queue'[x]) : app_recv_queue'[x][i].len > 0
  BY <1>1, CloseFacts
<1>19. d.connection_state # "SYN_SENT"
  BY <1>10 DEF StateOK
<1>20. \/ inbound'[Peer(e)] = inbound[Peer(e)]
       \/ inbound'[Peer(e)] = Append(inbound[Peer(e)], a)
  BY <1>y, <1>14
<1> QED
  BY <1>1, <1>3, <1>14, <1>15, <1>16, <1>17, <1>18, <1>19, <1>20, LoopStep
=============================================================================
