---------------------------- MODULE StcpLemmas ------------------------------
(***************************************************************************)
(* Proofs about Stcp: facts about its operators and about both invariants, *)
(* and the steps of the application and of the threads besides control_loop(),*)
(* which preserve them.                                                    *)
(***************************************************************************)
EXTENDS StcpInvariant, TLAPS

USE ZenonT(20)

-----------------------------------------------------------------------------
(* Constants, sequences and queues.                                        *)

\* What the assumptions on the constants say, conjunct by conjunct.
LEMMA ConstantFacts ==
    /\ STCP_MSS \in Nat /\ STCP_MSS > 0
    /\ RECEIVER_WINDOW_SIZE \in Nat
    /\ WriteSizes \subseteq Nat /\ ReadSizes \subseteq Nat
    /\ \A n \in WriteSizes \cup ReadSizes : n > 0
    /\ MaxBytes \in Nat
    /\ SeqMod \in Nat /\ SeqMod # 0 /\ MaxBytes + 2 < SeqMod
    /\ InitialSeqNums \subseteq SeqNums
  BY SizesAssumption, SeqAssumption, SMTT(30) DEF SizesAssumption,
     SeqAssumption, SeqNums

\* A connection has two ends, each the peer of the other.
LEMMA PeerFacts ==
    /\ "active" \in Ends /\ "passive" \in Ends
    /\ Peer("active") = "passive" /\ Peer("passive") = "active"
    /\ \A e \in Ends : Peer(e) \in Ends /\ Peer(e) # e /\ Peer(Peer(e)) = e
    /\ \A e, x \in Ends : x = e \/ x = Peer(e)
  BY DEF Ends, Peer

\* The empty buffer of the receive thread counts as a packet.
LEMMA HangupType == Hangup \in Packet
  BY ConstantFacts, SMTT(30) DEF Hangup, Packet, SeqNums

\* It has no flags and carries nothing.
LEMMA HangupFacts ==
    Hangup.flags = {} /\ Hangup.pos = 0 /\ Hangup.len = 0
  BY DEF Hangup

\* What a queue looks like after the operations the actions perform on it.
LEMMA TailFacts ==
    ASSUME NEW S, NEW q \in Seq(S), q # <<>>
    PROVE  /\ Tail(q) \in Seq(S) /\ Len(Tail(q)) = Len(q) - 1 /\ Len(q) > 0
           /\ \A i \in 1 .. Len(q) - 1 : Tail(q)[i] = q[i + 1]
           /\ Head(q) = q[1] /\ q[1] \in S
  BY SMTT(30)

\* What Append() does, index by index.
LEMMA AppendFacts ==
    ASSUME NEW S, NEW q \in Seq(S), NEW x \in S
    PROVE  /\ Append(q, x) \in Seq(S) /\ Len(Append(q, x)) = Len(q) + 1
           /\ \A i \in 1 .. Len(q) : Append(q, x)[i] = q[i]
           /\ Append(q, x)[Len(q) + 1] = x
  BY SMTT(30)

\* What a prefix of a sequence holds.
LEMMA PrefixFacts ==
    ASSUME NEW S, NEW q \in Seq(S), NEW n \in 0 .. Len(q)
    PROVE  /\ SubSeq(q, 1, n) \in Seq(S) /\ Len(SubSeq(q, 1, n)) = n
           /\ \A i \in 1 .. n : SubSeq(q, 1, n)[i] = q[i]
  BY SMTT(30)

\* The empty sequence, and how to tell it by its length.
LEMMA EmptyFacts ==
    ASSUME NEW S
    PROVE  <<>> \in Seq(S) /\ Len(<<>>) = 0 /\ \A q \in Seq(S) : q \o <<>> = q /\ (q = <<>> <=> Len(q) = 0)
  BY SMTT(30)

\* _mysock_dequeue_buffer() leaves a queue of buffers.
LEMMA DequeueFacts ==
    ASSUME NEW q \in Seq(Buffer), q # <<>>, NEW n \in Nat
    PROVE  DequeuePartial(q, n) \in Seq(Buffer)
<1>1. q[1] \in Buffer /\ Tail(q) \in Seq(Buffer) /\ Len(q) > 0
  BY TailFacts
<1>2. CASE n < q[1].len
  <2>1. [pos |-> q[1].pos + n, len |-> q[1].len - n] \in Buffer
    BY <1>1, <1>2, SMTT(30) DEF Buffer
  <2> QED
    BY <1>1, <1>2, <2>1, SMTT(30) DEF DequeuePartial
<1> QED
  BY <1>1, <1>2 DEF DequeuePartial

\* A packet without data and FIN may follow a FIN.
LEMMA FinAppendQuiet ==
    ASSUME NEW q \in Seq(Packet), NEW s, NEW fin, FinQueue(q, s, fin),
           NEW p \in Packet, Quiet(p)
    PROVE  FinQueue(Append(q, p), s, fin)
<1> DEFINE r == Append(q, p)
<1>1. /\ Len(q) \in Nat /\ Len(r) = Len(q) + 1 /\ r[Len(q) + 1] = p
      /\ \A i \in 1 .. Len(q) : r[i] = q[i]
  BY AppendFacts, SMTT(30)
<1> HIDE DEF r
<1>2. ASSUME NEW i \in 1 .. Len(r), "FIN" \in r[i].flags
      PROVE  fin /\ r[i].len = 0 /\ r[i].pos = s /\ \A j \in i + 1 .. Len(r) : Quiet(r[j])
  <2>1. i \in 1 .. Len(q)
    BY <1>1, <1>2, SMTT(30) DEF Quiet
  <2>2. fin /\ q[i].len = 0 /\ q[i].pos = s /\ \A j \in i + 1 .. Len(q) : Quiet(q[j])
    BY <1>1, <1>2, <2>1 DEF FinQueue
  <2>3. ASSUME NEW j \in i + 1 .. Len(r) PROVE Quiet(r[j])
    <3>1. j = Len(q) + 1 \/ (j \in i + 1 .. Len(q) /\ j \in 1 .. Len(q))
      BY <1>1, SMTT(30)
    <3> QED
      BY <1>1, <2>2, <3>1
  <2> QED
    BY <1>1, <2>1, <2>2, <2>3
<1> QED
  BY <1>2 DEF FinQueue, r

\* Every element of a queue after an operation was in it before, or is new.
LEMMA Members ==
    ASSUME NEW S, NEW q \in Seq(S)
    PROVE  /\ q # <<>> => \A i \in 1 .. Len(Tail(q)) : \E j \in 1 .. Len(q) : Tail(q)[i] = q[j]
           /\ \A x \in S : \A i \in 1 .. Len(Append(q, x)) :
                 Append(q, x)[i] = x \/ \E j \in 1 .. Len(q) : Append(q, x)[i] = q[j]
           /\ \A x \in S : \A n \in 0 .. Len(q) :
                 \A i \in 1 .. Len(Append(SubSeq(q, 1, n), x)) :
                    \/ Append(SubSeq(q, 1, n), x)[i] = x
                    \/ \E j \in 1 .. Len(q) : Append(SubSeq(q, 1, n), x)[i] = q[j]
<1>1. ASSUME q # <<>>, NEW i \in 1 .. Len(Tail(q)) PROVE \E j \in 1 .. Len(q) : Tail(q)[i] = q[j]
  <2>1. i + 1 \in 1 .. Len(q) /\ Tail(q)[i] = q[i + 1]
    BY <1>1, TailFacts, SMTT(30)
  <2> QED
    BY <2>1
<1>2. ASSUME NEW x \in S, NEW i \in 1 .. Len(Append(q, x))
      PROVE  Append(q, x)[i] = x \/ \E j \in 1 .. Len(q) : Append(q, x)[i] = q[j]
  <2>1. i = Len(q) + 1 \/ i \in 1 .. Len(q)
    BY AppendFacts, SMTT(30)
  <2> QED
    BY <2>1, AppendFacts, SMTT(30)
<1>3. ASSUME NEW x \in S, NEW n \in 0 .. Len(q), NEW i \in 1 .. Len(Append(SubSeq(q, 1, n), x))
      PROVE  \/ Append(SubSeq(q, 1, n), x)[i] = x
             \/ \E j \in 1 .. Len(q) : Append(SubSeq(q, 1, n), x)[i] = q[j]
  <2> DEFINE u == SubSeq(q, 1, n)
  <2>1. u \in Seq(S) /\ Len(u) = n /\ \A j \in 1 .. n : u[j] = q[j] /\ j \in 1 .. Len(q)
    BY PrefixFacts, SMTT(30)
  <2>2. i \in 1 .. Len(Append(u, x))
    OBVIOUS
  <2> HIDE DEF u
  <2>3. i = n + 1 \/ i \in 1 .. n
    BY <2>1, <2>2, AppendFacts, SMTT(30)
  <2>4. Append(u, x)[i] = x \/ \E j \in 1 .. Len(q) : Append(u, x)[i] = q[j]
    BY <2>1, <2>3, AppendFacts, SMTT(30)
  <2> QED
    BY <2>4 DEF u
<1> QED
  BY <1>1, <1>2, <1>3

\* A buffer queued at the end of what a queue covers extends it.
LEMMA CoversAppend ==
    ASSUME NEW q \in Seq(Buffer), NEW lo, NEW hi, Covers(q, lo, hi),
           NEW b \in Buffer, b.pos = hi, NEW t, t = hi + b.len
    PROVE  Covers(Append(q, b), lo, t)
<1> DEFINE r == Append(q, b)
<1>1. /\ Len(q) \in Nat /\ Len(r) = Len(q) + 1 /\ r[Len(q) + 1] = b
      /\ \A i \in 1 .. Len(q) : r[i] = q[i]
      /\ r # <<>> /\ (q = <<>> <=> Len(q) = 0)
  <2>1. Len(q) \in Nat /\ Append(q, b) \in Seq(Buffer)
    BY AppendFacts, SMTT(30)
  <2> QED
    BY <2>1, AppendFacts, EmptyFacts, SMTT(30)
<1> HIDE DEF r
<1>2. r[1].pos = lo
  BY <1>1, SMTT(30) DEF Covers
<1>3. r[Len(r)].pos + r[Len(r)].len = t
  BY <1>1
<1>4. ASSUME NEW i \in 1 .. Len(r) - 1 PROVE r[i].pos + r[i].len = r[i + 1].pos
  <2>1. CASE i = Len(q)
    <3>1. q # <<>> /\ i \in 1 .. Len(q) /\ r[i] = q[i] /\ r[i + 1] = b
      BY <1>1, <2>1, SMTT(30)
    <3> QED
      BY <2>1, <3>1 DEF Covers
  <2>2. CASE i # Len(q)
    <3>1. /\ q # <<>> /\ i \in 1 .. Len(q) - 1 /\ i \in 1 .. Len(q) /\ i + 1 \in 1 .. Len(q)
      BY <1>1, <2>2, SMTT(30)
    <3> QED
      BY <1>1, <3>1 DEF Covers
  <2> QED
    BY <2>1, <2>2
<1> QED
  BY <1>1, <1>2, <1>3, <1>4 DEF Covers, r

\* n bytes asked for leave the head of what a queue covers, but no more than the
\* first buffer holds; the other buffers stay, and so does where each ends.
LEMMA CoversDequeue ==
    ASSUME NEW q \in Seq(Buffer), q # <<>>, NEW n \in Nat, NEW lo \in Nat, NEW hi \in Nat,
           Covers(q, lo, hi)
    PROVE  Covers(DequeuePartial(q, n), lo + MIN(n, q[1].len), hi)
<1>1. /\ Len(q) \in Nat /\ Len(q) > 0 /\ q[1] \in Buffer
      /\ Len(Tail(q)) = Len(q) - 1 /\ Tail(q) \in Seq(Buffer)
      /\ \A i \in 1 .. Len(q) - 1 : Tail(q)[i] = q[i + 1]
  BY TailFacts, SMTT(30)
<1>2. q[1].pos \in Nat /\ q[1].len \in Nat
  BY <1>1 DEF Buffer
<1>3. /\ q[1].pos = lo
      /\ q[Len(q)].pos + q[Len(q)].len = hi
      /\ \A i \in 1 .. Len(q) - 1 : q[i].pos + q[i].len = q[i + 1].pos
  BY DEF Covers
<1>4. CASE n < q[1].len
  <2> DEFINE b == [pos |-> q[1].pos + n, len |-> q[1].len - n]
             r == [q EXCEPT ![1] = b]
  <2>1. b \in Buffer /\ b.pos = lo + n /\ b.pos + b.len = q[1].pos + q[1].len
    <3>1. b.pos = q[1].pos + n /\ b.len = q[1].len - n
      OBVIOUS
    <3>2. b \in Buffer
      BY <1>2, <1>4, SMTT(30) DEF Buffer
    <3> HIDE DEF b
    <3> QED
      BY <1>2, <1>3, <3>1, <3>2, SMTT(30)
  <2> HIDE DEF b
  <2>2. /\ r \in Seq(Buffer) /\ Len(r) = Len(q) /\ r # <<>> /\ r[1] = b
        /\ \A i \in 1 .. Len(q) : i # 1 => r[i] = q[i]
    BY <1>1, <2>1, SMTT(30)
  <2> HIDE DEF r
  <2>3. \A i \in 1 .. Len(q) : r[i].pos + r[i].len = q[i].pos + q[i].len
    BY <2>1, <2>2
  <2>4. \A i \in 1 .. Len(q) - 1 : i \in 1 .. Len(q) /\ i + 1 \in 1 .. Len(q) /\ i + 1 # 1
    BY <1>1, SMTT(30)
  <2>5. Len(q) \in 1 .. Len(q)
    BY <1>1, SMTT(30)
  <2>6. Covers(r, lo + n, hi)
    BY <1>3, <2>1, <2>2, <2>3, <2>4, <2>5 DEF Covers
  <2>7. DequeuePartial(q, n) = r /\ MIN(n, q[1].len) = n
    BY <1>4 DEF DequeuePartial, MIN, r, b
  <2> QED
    BY <2>6, <2>7
<1>5. CASE ~(n < q[1].len)
  <2>1. DequeuePartial(q, n) = Tail(q) /\ MIN(n, q[1].len) = q[1].len
    BY <1>2, <1>5 DEF DequeuePartial, MIN
  <2> DEFINE r == Tail(q)
  <2>2. Len(r) = Len(q) - 1 /\ (r = <<>> <=> Len(r) = 0) /\ \A i \in 1 .. Len(r) : r[i] = q[i + 1]
    BY <1>1, EmptyFacts
  <2> HIDE DEF r
  <2>3. CASE Len(r) = 0
    <3>1. Len(q) = 1 /\ r = <<>>
      BY <1>1, <2>2, <2>3, SMTT(30)
    <3>2. Covers(r, lo + q[1].len, hi)
      BY <1>3, <3>1 DEF Covers
    <3> QED
      BY <2>1, <3>2 DEF r
  <2>4. CASE Len(r) # 0
    <3>1. r # <<>> /\ 1 \in 1 .. Len(r) /\ Len(r) \in 1 .. Len(r) /\ Len(r) + 1 = Len(q) /\ 1 \in 1 .. Len(q) - 1
      BY <1>1, <2>2, <2>4, SMTT(30)
    <3>2. r[1].pos = lo + q[1].len
      BY <1>2, <1>3, <2>2, <3>1
    <3>3. r[Len(r)].pos + r[Len(r)].len = hi
      BY <1>3, <2>2, <3>1
    <3>4. ASSUME NEW i \in 1 .. Len(r) - 1 PROVE r[i].pos + r[i].len = r[i + 1].pos
      <4>1. i \in 1 .. Len(r) /\ i + 1 \in 1 .. Len(r) /\ i + 1 \in 1 .. Len(q) - 1
        BY <1>1, <2>2, SMTT(30)
      <4> QED
        BY <1>3, <2>2, <4>1
    <3>5. Covers(r, lo + q[1].len, hi)
      BY <3>1, <3>2, <3>3, <3>4 DEF Covers
    <3> QED
      BY <2>1, <3>5 DEF r
  <2> QED
    BY <2>3, <2>4
<1> QED
  BY <1>4, <1>5

\* What _mysock_dequeue_buffer() leaves was there before, or is the rest of the
\* first buffer.
LEMMA DequeueMembers ==
    ASSUME NEW q \in Seq(Buffer), q # <<>>, NEW n \in Nat
    PROVE  \A i \in 1 .. Len(DequeuePartial(q, n)) :
              LET b == DequeuePartial(q, n)[i]
              IN  \/ \E j \in 1 .. Len(q) : b = q[j]
                  \/ b.pos + b.len = q[1].pos + q[1].len /\ b.len > 0
<1>1. Len(q) \in Nat /\ Len(q) > 0 /\ q[1] \in Buffer
  BY TailFacts, SMTT(30)
<1>2. q[1].pos \in Nat /\ q[1].len \in Nat
  BY <1>1 DEF Buffer
<1>3. CASE n < q[1].len
  <2> DEFINE b == [pos |-> q[1].pos + n, len |-> q[1].len - n]
             r == [q EXCEPT ![1] = b]
  <2>1. b \in Buffer /\ b.pos + b.len = q[1].pos + q[1].len /\ b.len > 0
    <3>1. b.pos = q[1].pos + n /\ b.len = q[1].len - n
      OBVIOUS
    <3>2. b \in Buffer
      BY <1>2, <1>3, SMTT(60) DEF Buffer
    <3> HIDE DEF b
    <3> QED
      BY <1>2, <1>3, <3>1, <3>2, SMTT(60)
  <2>2. DequeuePartial(q, n) = r
    BY <1>3 DEF DequeuePartial
  <2> HIDE DEF b
  <2>3. Len(r) = Len(q) /\ r[1] = b /\ \A i \in 1 .. Len(q) : i # 1 => r[i] = q[i]
    BY <1>1, <2>1, SMTT(30)
  <2> HIDE DEF r
  <2> QED
    BY <2>1, <2>2, <2>3
<1>4. CASE ~(n < q[1].len)
  BY <1>4, Members, SMTT(30) DEF DequeuePartial
<1> QED
  BY <1>3, <1>4

\* A packet that is more than an ACK, or the end of the TCP connection, may
\* follow; so may an ACK when the FIN was not yet acknowledged.
LEMMA LastAckAppend ==
    ASSUME NEW q \in Seq(Packet), NEW c, NEW fin, LastAck(q, c, fin), NEW p \in Packet,
           \/ ~Quiet(p) \/ p = Hangup
           \/ ~c.fin_acked /\ (fin => \A i \in 1 .. Len(q) : ~AckExpected(c, q[i]))
    PROVE  LastAck(Append(q, p), c, fin)
<1> DEFINE r == Append(q, p)
<1>1. /\ Len(q) \in Nat /\ Len(r) = Len(q) + 1 /\ r[Len(q) + 1] = p
      /\ \A i \in 1 .. Len(q) : r[i] = q[i]
  BY AppendFacts, SMTT(30)
<1> HIDE DEF r
<1>2. \A i \in 1 .. Len(r) : i \in 1 .. Len(q) \/ i = Len(q) + 1
  BY <1>1, SMTT(30)
<1>3. c.fin_acked => \A i \in 1 .. Len(r) : Quiet(r[i]) => r[i] = Hangup
  BY <1>1, <1>2 DEF LastAck
<1>4. ASSUME fin, NEW j \in 1 .. Len(r), Quiet(r[j]), r[j] # Hangup, NEW i \in 1 .. j - 1
      PROVE  ~AckExpected(c, r[i])
  <2>1. i \in 1 .. Len(q)
    BY <1>1, SMTT(30)
  <2>2. CASE j \in 1 .. Len(q)
    BY <1>1, <1>4, <2>1, <2>2 DEF LastAck
  <2>3. CASE j = Len(q) + 1
    <3>1. r[j] = p
      BY <1>1, <2>3
    <3>2. \A k \in 1 .. Len(q) : ~AckExpected(c, q[k])
      BY <1>4, <3>1
    <3> QED
      BY <1>1, <2>1, <3>2
  <2> QED
    BY <1>2, <2>2, <2>3
<1> QED
  BY <1>3, <1>4 DEF LastAck, r

\* A packet follows packets of a connection that has not ended.
LEMMA HangupAppend ==
    ASSUME NEW q \in Seq(Packet), NEW p \in Packet, NEW late,
           \A i \in 1 .. Len(q) : q[i] # Hangup
    PROVE  HangupLast(Append(q, p), late)
<1> DEFINE r == Append(q, p)
<1>1. Len(q) \in Nat /\ Len(r) = Len(q) + 1 /\ \A i \in 1 .. Len(q) : r[i] = q[i]
  BY AppendFacts, SMTT(30)
<1> HIDE DEF r
<1>2. \A i \in 1 .. Len(r) - 1 : i \in 1 .. Len(q)
  BY <1>1, SMTT(30)
<1> QED
  BY <1>1, <1>2 DEF HangupLast, r

-----------------------------------------------------------------------------
(* Conjuncts of the invariants whose variables a step leaves alone.        *)

\* The handshake part of the invariant depends on these variables only.
LEMMA KeepOpen ==
    OpenInv /\ Gone("active")' = Gone("active")
            /\ UNCHANGED <<thread, sent, accepted, ctx, inbound>> => OpenInv'
  BY DEF OpenInv, Opening, Unanswered

\* The same for the events of an end.
LEMMA KeepEvent ==
    ASSUME NEW x, EventInv(x), app'[x] = app[x], thread'[x] = thread[x],
           event'[x] = event[x], app_recv_queue'[x] = app_recv_queue[x],
           arrived'[x] = arrived[x], close_requested'[x] = close_requested[x]
    PROVE  EventInv(x)'
  BY DEF EventInv, Gone

\* The same for its sequence and acknowledgement numbers.
LEMMA KeepNumber ==
    ASSUME NEW x, NumberInv(x), thread'[x] = thread[x], ctx'[x] = ctx[x],
           sent'[x] = sent[x], accepted'[x] = accepted[x], Isn(Peer(x))' = Isn(Peer(x))
    PROVE  NumberInv(x)'
  BY DEF NumberInv, Isn, Synced, Acked

\* The same for what its application wrote.
LEMMA KeepWrite ==
    ASSUME NEW x, WriteInv(x), app_recv_queue'[x] = app_recv_queue[x],
           sent'[x] = sent[x], written'[x] = written[x], app'[x] = app[x],
           ctx'[x].fin_sent = ctx[x].fin_sent
    PROVE  WriteInv(x)'
  BY DEF WriteInv, Gone

\* The same for what its application reads.
LEMMA KeepRead ==
    ASSUME NEW x, ReadInv(x), app_send_queue'[x] = app_send_queue[x],
           taken'[x] = taken[x], accepted'[x] = accepted[x], eof'[x] = eof[x],
           thread[x] = "exited" => thread'[x] = "exited", Gone(x) => Gone(x)',
           ctx[x].fin_received => ctx'[x].fin_received
    PROVE  ReadInv(x)'
  BY DEF ReadInv

\* The same for the data on its way to it.
LEMMA KeepFlow ==
    ASSUME NEW x, FlowInv(x), inbound'[x] = inbound[x], accepted'[x] = accepted[x],
           sent'[Peer(x)] = sent[Peer(x)],
           Gone(x)' = Gone(x), Gone(Peer(x))' = Gone(Peer(x))
    PROVE  FlowInv(x)'
  BY DEF FlowInv, Flow, Reached

\* The same for the numbers of the packets on their way to it.
LEMMA KeepPacket ==
    ASSUME NEW x, PacketInv(x), inbound'[x] = inbound[x],
           Isn(x)' = Isn(x), Isn(Peer(x))' = Isn(Peer(x)),
           accepted'[Peer(x)] = accepted[Peer(x)],
           ctx'[Peer(x)].fin_received = ctx[Peer(x)].fin_received
    PROVE  PacketInv(x)'
  BY DEF PacketInv, PacketOK, Acked

\* The same for the FINs.
LEMMA KeepFin ==
    ASSUME NEW x, FinInv(x), inbound'[x] = inbound[x], accepted'[x] = accepted[x],
           sent'[Peer(x)] = sent[Peer(x)], ctx'[x] = ctx[x],
           ctx'[Peer(x)].fin_sent = ctx[Peer(x)].fin_sent,
           ctx[Peer(x)].fin_received => ctx'[Peer(x)].fin_received
    PROVE  FinInv(x)'
  BY DEF FinInv

\* The type and the invariant of one end, conjunct by conjunct.
LEMMA EndFacts ==
    ASSUME Inv, NEW x \in Ends
    PROVE  /\ Peer(x) \in Ends /\ Peer(x) # x /\ Peer(Peer(x)) = x
           /\ ctx[x] \in Context /\ Isn(x) \in Nat
           /\ inbound[x] \in Seq(Packet) /\ arrived[x] \in Nat
           /\ arrived[x] <= Len(inbound[x])
           /\ app_recv_queue[x] \in Seq(Buffer) /\ app_send_queue[x] \in Seq(Buffer)
           /\ written[x] \in Nat /\ written[x] <= MaxBytes
           /\ sent[x] \in Nat /\ accepted[x] \in Nat /\ taken[x] \in Nat
           /\ Acked(x) \in Nat
           /\ EventInv(x) /\ NumberInv(x) /\ WriteInv(x) /\ ReadInv(x)
           /\ FlowInv(x) /\ PacketInv(x) /\ FinInv(x)
<1>1. /\ ctx[x] \in Context
      /\ inbound[x] \in Seq(Packet) /\ arrived[x] \in Nat
      /\ arrived[x] <= Len(inbound[x])
      /\ app_recv_queue[x] \in Seq(Buffer) /\ app_send_queue[x] \in Seq(Buffer)
      /\ written[x] \in Nat /\ written[x] <= MaxBytes
      /\ sent[x] \in Nat /\ accepted[x] \in Nat /\ taken[x] \in Nat
  BY ConstantFacts, SMTT(30) DEF Inv, TypeOK
<1>2. Isn(x) \in Nat /\ Acked(x) \in Nat
  <2>1. ctx[x].initial_sequence_num \in SeqNums
    BY <1>1 DEF Context
  <2>2. Isn(x) \in Nat
    BY <2>1, ConstantFacts, SMTT(30) DEF Isn, SeqNums
  <2>3. Acked(x) \in Nat
    BY <1>1, SMTT(30) DEF Acked, Bit
  <2> QED
    BY <2>2, <2>3
<1> QED
  BY <1>1, <1>2, PeerFacts DEF Inv, EndInv

\* An end that a step leaves alone, but for the packets on their way to it.
LEMMA KeepEnd ==
    ASSUME Inv, NEW x \in Ends,
           app'[x] = app[x], thread'[x] = thread[x], event'[x] = event[x],
           arrived'[x] = arrived[x], close_requested'[x] = close_requested[x],
           app_recv_queue'[x] = app_recv_queue[x], app_send_queue'[x] = app_send_queue[x],
           eof'[x] = eof[x], ctx'[x] = ctx[x], written'[x] = written[x],
           sent'[x] = sent[x], accepted'[x] = accepted[x], taken'[x] = taken[x],
           Isn(Peer(x))' = Isn(Peer(x))
    PROVE  EventInv(x)' /\ NumberInv(x)' /\ WriteInv(x)' /\ ReadInv(x)'
<1>1. EventInv(x) /\ NumberInv(x) /\ WriteInv(x) /\ ReadInv(x) /\ (Gone(x) => Gone(x)')
  BY DEF Inv, EndInv, Gone
<1> QED
  BY <1>1, KeepEvent, KeepNumber, KeepWrite, KeepRead

\* A step of control_loop() at e.
LEMMA OpenLoop ==
    ASSUME Inv, NEW e \in Ends, thread[e] = "loop", thread'[e] \in {"loop", "exited"},
           thread'[Peer(e)] = thread[Peer(e)], ctx'[Peer(e)] = ctx[Peer(e)],
           sent'[Peer(e)] = sent[Peer(e)], accepted'[Peer(e)] = accepted[Peer(e)],
           inbound[Peer(e)] # <<>> =>
              inbound'[Peer(e)] # <<>> /\ inbound'[Peer(e)][1] = inbound[Peer(e)][1]
    PROVE  OpenInv'
<1>1. OpenInv
  BY DEF Inv
<1>2. CASE e = "active"
  <2>1. /\ thread["active"] = "loop" /\ thread'["active"] \in {"loop", "exited"}
        /\ thread'["passive"] = thread["passive"] /\ ctx'["passive"] = ctx["passive"]
        /\ sent'["passive"] = sent["passive"] /\ accepted'["passive"] = accepted["passive"]
        /\ inbound["passive"] # <<>> =>
              inbound'["passive"] # <<>> /\ inbound'["passive"][1] = inbound["passive"][1]
    BY <1>2, PeerFacts
  <2>2. ~Unanswered
    BY <1>1, <2>1 DEF OpenInv
  <2> QED
    BY <1>1, <2>1, <2>2 DEF OpenInv, Opening, Unanswered, Ends
<1>3. CASE e = "passive"
  <2>1. /\ thread["passive"] = "loop" /\ thread'["passive"] \in {"loop", "exited"}
        /\ thread'["active"] = thread["active"] /\ ctx'["active"] = ctx["active"]
        /\ sent'["active"] = sent["active"] /\ accepted'["active"] = accepted["active"]
    BY <1>3, PeerFacts
  <2>2. ~Opening("active")
    BY <1>1, <2>1 DEF OpenInv
  <2> QED
    BY <1>1, <2>1, <2>2 DEF OpenInv, Opening, Unanswered, Ends
<1> QED
  BY <1>2, <1>3 DEF Ends

\* What the invariant of both ends says of one of them.
LEMMA CloseFacts ==
    ASSUME CloseInv, NEW x \in Ends
    PROVE  /\ AnswerInv /\ StateInv(x) /\ ResultInv(x)
           /\ LastAck(inbound[x], ctx[x], ctx[Peer(x)].fin_received)
           /\ HangupLast(inbound[x], SynMayBeLate(x))
           /\ \A i \in 1 .. Len(app_recv_queue[x]) : app_recv_queue[x][i].len > 0
  BY DEF CloseInv, CloseEnd

\* While its peer is there an end does not see the end of the connection.
LEMMA NoHangup ==
    ASSUME Inv, NEW x \in Ends, ~Gone(Peer(x))
    PROVE  \A i \in 1 .. Len(inbound[x]) : inbound[x][i] # Hangup
<1>1. FlowInv(x)
  BY EndFacts
<1>2. CASE Gone(x)
  <2>1. inbound[x] = <<>>
    BY <1>1, <1>2 DEF FlowInv
  <2> QED
    BY <2>1, SMTT(30)
<1>3. CASE ~Gone(x)
  BY <1>1, <1>3 DEF FlowInv, Flow
<1> QED
  BY <1>2, <1>3

\* What the state of an end says is kept when it does not move.
LEMMA KeepState ==
    ASSUME NEW x, StateInv(x), ctx'[x] = ctx[x],
           Opening(x)' => Opening(x), thread'[x] = "loop" => thread[x] = "loop",
           app[Peer(x)] = "killed" =>
              app'[Peer(x)] = "killed" /\ (inbound[x] = <<>> => inbound'[x] = <<>>)
    PROVE  StateInv(x)'
  BY DEF StateInv

\* The same for what its application was told.
LEMMA KeepResult ==
    ASSUME NEW x, ResultInv(x), ctx'[x] = ctx[x], thread'[x] = thread[x],
           app'[x] = app[x], result'[x] = result[x],
           Gone(Peer(x)) => Gone(Peer(x))' /\ (inbound[x] = <<>> => inbound'[x] = <<>>)
    PROVE  ResultInv(x)'
  BY DEF ResultInv

\* What both ends say of the handshake is kept by other steps.
LEMMA KeepAnswer ==
    ASSUME AnswerInv, UNCHANGED <<ctx, inbound>>,
           thread'["active"] = "handshake" => thread["active"] = "handshake",
           thread'["passive"] = "loop" => thread["passive"] = "loop"
    PROVE  AnswerInv'
  BY DEF AnswerInv

-----------------------------------------------------------------------------
(* Inv: the calls of the application, the waits of both threads, and the end of*)
(* a thread, of a process or of its socket.                                *)

\* stcp_wait_for_event() reports what is there.
LEMMA WaitForEventStep ==
    ASSUME Inv, NEW e \in Ends, WaitForEvent(e) PROVE Inv'
<1> DEFINE v == ReadyEvents(e)
           w == close_requested[e] /\ "APP_CLOSE_REQUESTED" \notin v
<1>0. TypeOK
  BY DEF Inv
<1>1. /\ UNCHANGED <<ctx, thread, inbound, arrived, app_recv_queue, app_send_queue,
                     result, eof, app, written, sent, accepted, taken>>
      /\ thread[e] = "loop" /\ event[e] = {}
      /\ event' = [event EXCEPT ![e] = v]
      /\ close_requested' = [close_requested EXCEPT ![e] = w]
  BY DEF WaitForEvent, netVars, queueVars, countVars
<1>2. /\ v \in SUBSET Events
      /\ "APP_DATA" \in v => app_recv_queue[e] # <<>>
      /\ "NETWORK_DATA" \in v => arrived[e] > 0
      /\ "APP_CLOSE_REQUESTED" \in v => close_requested[e] /\ app_recv_queue[e] = <<>>
  BY DEF ReadyEvents
<1>3. w \in BOOLEAN /\ (w => close_requested[e])
  BY <1>0 DEF TypeOK
<1> HIDE DEF v, w
<1>4. /\ event'[e] = v /\ event' \in [Ends -> SUBSET Events]
      /\ close_requested'[e] = w /\ close_requested' \in [Ends -> BOOLEAN]
      /\ \A x \in Ends : x # e => event'[x] = event[x] /\ close_requested'[x] = close_requested[x]
  BY <1>0, <1>1, <1>2, <1>3 DEF TypeOK
<1>5. TypeOK'
  BY <1>0, <1>1, <1>4 DEF TypeOK
<1>6. OpenInv'
  BY <1>1, KeepOpen DEF Inv, Gone
<1>7. ASSUME NEW x \in Ends PROVE EndInv(x)'
  <2>1. /\ EventInv(x) /\ NumberInv(x) /\ WriteInv(x) /\ ReadInv(x)
        /\ FlowInv(x) /\ PacketInv(x) /\ FinInv(x)
        /\ Isn(x)' = Isn(x) /\ Isn(Peer(x))' = Isn(Peer(x))
        /\ Gone(x)' = Gone(x) /\ Gone(Peer(x))' = Gone(Peer(x))
    BY <1>1, EndFacts DEF Isn, Gone
  <2>2. EventInv(x)'
    <3>1. CASE x = e
      BY <1>1, <1>2, <1>3, <1>4, <2>1, <3>1 DEF EventInv, Gone
    <3>2. CASE x # e
      BY <1>1, <1>4, <2>1, <3>2, KeepEvent
    <3> QED
      BY <3>1, <3>2
  <2>3. NumberInv(x)' /\ WriteInv(x)' /\ ReadInv(x)'
    BY <1>1, <2>1, KeepNumber, KeepWrite, KeepRead
  <2>4. FlowInv(x)' /\ PacketInv(x)' /\ FinInv(x)'
    BY <1>1, <2>1, KeepFlow, KeepPacket, KeepFin
  <2> QED
    BY <2>2, <2>3, <2>4 DEF EndInv
<1> QED
  BY <1>5, <1>6, <1>7 DEF Inv

\* The receive thread queues a packet.
LEMMA ReceiveThreadStep ==
    ASSUME Inv, NEW e \in Ends, ReceiveThread(e) PROVE Inv'
<1> DEFINE n == arrived[e] + 1
<1>0. TypeOK
  BY DEF Inv
<1>1. /\ UNCHANGED <<ctx, thread, event, inbound, app_recv_queue, app_send_queue,
                     close_requested, result, eof, app, written, sent, accepted, taken>>
      /\ arrived[e] < Len(inbound[e])
      /\ arrived' = [arrived EXCEPT ![e] = n]
  BY DEF ReceiveThread, connVars, queueVars, sockVars, countVars
<1>2. n \in Nat /\ n <= Len(inbound[e]) /\ n > 0
  BY <1>1, EndFacts, SMTT(30)
<1> HIDE DEF n
<1>3. /\ arrived'[e] = n /\ arrived' \in [Ends -> Nat]
      /\ \A x \in Ends : x # e => arrived'[x] = arrived[x]
  BY <1>0, <1>1, <1>2 DEF TypeOK
<1>4. TypeOK'
  <2>1. ASSUME NEW x \in Ends PROVE arrived'[x] <= Len(inbound'[x])
    BY <1>0, <1>1, <1>2, <1>3 DEF TypeOK
  <2> QED
    BY <1>0, <1>1, <1>3, <2>1 DEF TypeOK
<1>5. OpenInv'
  BY <1>1, KeepOpen DEF Inv, Gone
<1>6. ASSUME NEW x \in Ends PROVE EndInv(x)'
  <2>1. /\ EventInv(x) /\ NumberInv(x) /\ WriteInv(x) /\ ReadInv(x)
        /\ FlowInv(x) /\ PacketInv(x) /\ FinInv(x)
        /\ Isn(x)' = Isn(x) /\ Isn(Peer(x))' = Isn(Peer(x))
        /\ Gone(x)' = Gone(x) /\ Gone(Peer(x))' = Gone(Peer(x))
    BY <1>1, EndFacts DEF Isn, Gone
  <2>2. EventInv(x)'
    <3>1. CASE x = e
      BY <1>1, <1>2, <1>3, <2>1, <3>1 DEF EventInv, Gone
    <3>2. CASE x # e
      BY <1>1, <1>3, <2>1, <3>2, KeepEvent
    <3> QED
      BY <3>1, <3>2
  <2>3. NumberInv(x)' /\ WriteInv(x)' /\ ReadInv(x)'
    BY <1>1, <2>1, KeepNumber, KeepWrite, KeepRead
  <2>4. FlowInv(x)' /\ PacketInv(x)' /\ FinInv(x)'
    BY <1>1, <2>1, KeepFlow, KeepPacket, KeepFin
  <2> QED
    BY <2>2, <2>3, <2>4 DEF EndInv
<1> QED
  BY <1>4, <1>5, <1>6 DEF Inv

\* The transport thread leaves control_loop() and marks the end of the data.
LEMMA ThreadExitStep ==
    ASSUME Inv, NEW e \in Ends, ThreadExit(e) PROVE Inv'
<1> DEFINE q == app_send_queue[e]
           b == [pos |-> accepted[e], len |-> 0]
           r == Append(q, b)
<1>0. TypeOK
  BY DEF Inv
<1>1. /\ UNCHANGED <<ctx, event, inbound, arrived, app_recv_queue,
                     close_requested, result, eof, app, written, sent, accepted, taken>>
      /\ thread[e] = "loop" /\ event[e] = {}
      /\ thread' = [thread EXCEPT ![e] = "exited"]
      /\ app_send_queue' = [app_send_queue EXCEPT ![e] = r]
  BY DEF ThreadExit, netVars, sockVars, countVars
<1>2. q \in Seq(Buffer) /\ accepted[e] \in Nat
  BY EndFacts
<1>3. b \in Buffer /\ b.pos = accepted[e] /\ b.len = 0
  BY <1>2 DEF Buffer
<1> HIDE DEF b
<1>4. /\ r \in Seq(Buffer)
      /\ \A i \in 1 .. Len(r) : r[i] = b \/ \E j \in 1 .. Len(q) : r[i] = q[j]
  <2>1. q \in Seq(Buffer) /\ b \in Buffer /\ r = Append(q, b)
    BY <1>2, <1>3
  <2> HIDE DEF q, r
  <2>2. r \in Seq(Buffer)
    BY <2>1, AppendFacts
  <2>3. \A i \in 1 .. Len(r) : r[i] = b \/ \E j \in 1 .. Len(q) : r[i] = q[j]
    BY <2>1, Members, SMTT(30)
  <2> QED
    BY <2>2, <2>3
<1>5. Covers(q, taken[e], accepted[e]) => Covers(r, taken[e], accepted[e])
  <2>1. accepted[e] = accepted[e] + b.len
    BY <1>2, <1>3, SMTT(30)
  <2> QED
    BY <1>2, <1>3, <2>1, CoversAppend
<1> HIDE DEF q, r
<1>6. /\ thread'[e] = "exited"
      /\ thread' \in [Ends -> {"none", "started", "handshake", "loop", "exited"}]
      /\ app_send_queue'[e] = r /\ app_send_queue' \in [Ends -> Seq(Buffer)]
      /\ \A x \in Ends : x # e =>
            thread'[x] = thread[x] /\ app_send_queue'[x] = app_send_queue[x]
  BY <1>0, <1>1, <1>4 DEF TypeOK
<1>7. TypeOK'
  BY <1>0, <1>1, <1>6 DEF TypeOK
<1>8. OpenInv'
  BY <1>1, <1>6, OpenLoop, PeerFacts
<1>9. ASSUME NEW x \in Ends PROVE EndInv(x)'
  <2>1. /\ EventInv(x) /\ NumberInv(x) /\ WriteInv(x) /\ ReadInv(x)
        /\ FlowInv(x) /\ PacketInv(x) /\ FinInv(x)
        /\ Isn(x)' = Isn(x) /\ Isn(Peer(x))' = Isn(Peer(x))
        /\ Gone(x)' = Gone(x) /\ Gone(Peer(x))' = Gone(Peer(x))
    BY <1>1, EndFacts DEF Isn, Gone
  <2>2. WriteInv(x)' /\ FlowInv(x)' /\ PacketInv(x)' /\ FinInv(x)'
    BY <1>1, <2>1, KeepWrite, KeepFlow, KeepPacket, KeepFin
  <2>3. CASE x = e
    <3>1. EventInv(x)'
      BY <1>1, <1>6, <2>1, <2>3 DEF EventInv, Gone
    <3>2. NumberInv(x)'
      BY <1>6, <2>3 DEF NumberInv, Synced
    <3>3. ReadInv(x)'
      <4>1. /\ \A i \in 1 .. Len(q) : q[i].pos + q[i].len <= accepted[e]
            /\ \A i \in 1 .. Len(q) : q[i].len = 0 => q[i].pos = accepted[e]
            /\ Gone(e) \/ Covers(r, taken[e], accepted[e])
        BY <1>5, <2>1, <2>3 DEF ReadInv, q
      <4>2. \A i \in 1 .. Len(r) : /\ r[i].pos + r[i].len <= accepted[e]
                                   /\ r[i].len = 0 => r[i].pos = accepted[e]
        <5>1. b.pos + b.len <= accepted[e]
          BY <1>2, <1>3, SMTT(30)
        <5> QED
          BY <1>3, <1>4, <4>1, <5>1
      <4> QED
        BY <1>1, <1>6, <2>1, <2>3, <4>1, <4>2 DEF ReadInv
    <3> QED
      BY <2>2, <3>1, <3>2, <3>3 DEF EndInv
  <2>4. CASE x # e
    BY <1>1, <1>6, <2>1, <2>2, <2>4, KeepEnd DEF EndInv
  <2> QED
    BY <2>3, <2>4
<1> QED
  BY <1>7, <1>8, <1>9 DEF Inv

\* myconnect() or myaccept() returns.
LEMMA OpenReturnsStep ==
    ASSUME Inv, NEW e \in Ends, OpenReturns(e) PROVE Inv'
<1> DEFINE v == IF result[e] = "connected" THEN "open" ELSE "failed"
<1>0. TypeOK
  BY DEF Inv
<1>1. /\ UNCHANGED <<ctx, thread, event, inbound, arrived, app_recv_queue, app_send_queue,
                     close_requested, result, eof, written, sent, accepted, taken>>
      /\ app[e] \in {"connecting", "accepting"}
      /\ app' = [app EXCEPT ![e] = v]
  BY DEF OpenReturns, connVars, netVars, queueVars, sockVars, countVars
<1>2. v \in {"open", "failed"}
  OBVIOUS
<1> HIDE DEF v
<1>3. /\ app'[e] = v /\ \A x \in Ends : x # e => app'[x] = app[x]
      /\ app' \in [Ends -> {"idle", "connecting", "accepting", "open", "failed",
                           "closing", "closed", "killed"}]
  BY <1>0, <1>1, <1>2 DEF TypeOK
<1>4. \A x \in Ends : Gone(x)' = Gone(x)
  BY <1>1, <1>2, <1>3, SMTT(30) DEF Gone
<1>5. TypeOK'
  BY <1>0, <1>1, <1>3 DEF TypeOK
<1>6. OpenInv'
  BY <1>1, <1>4, KeepOpen, PeerFacts DEF Inv
<1>7. ASSUME NEW x \in Ends PROVE EndInv(x)'
  <2>1. /\ EventInv(x) /\ NumberInv(x) /\ WriteInv(x) /\ ReadInv(x)
        /\ FlowInv(x) /\ PacketInv(x) /\ FinInv(x)
        /\ Isn(x)' = Isn(x) /\ Isn(Peer(x))' = Isn(Peer(x))
        /\ Gone(x)' = Gone(x) /\ Gone(Peer(x))' = Gone(Peer(x))
    BY <1>1, <1>4, EndFacts DEF Isn
  <2>2. EventInv(x)' /\ WriteInv(x)'
    <3>1. CASE x = e
      BY <1>1, <1>2, <1>3, <2>1, <3>1 DEF EventInv, WriteInv
    <3>2. CASE x # e
      BY <1>1, <1>3, <2>1, <3>2, KeepEvent, KeepWrite
    <3> QED
      BY <3>1, <3>2
  <2>3. NumberInv(x)' /\ ReadInv(x)'
    BY <1>1, <2>1, KeepNumber, KeepRead
  <2>4. FlowInv(x)' /\ PacketInv(x)' /\ FinInv(x)'
    BY <1>1, <2>1, KeepFlow, KeepPacket, KeepFin
  <2> QED
    BY <2>2, <2>3, <2>4 DEF EndInv
<1> QED
  BY <1>5, <1>6, <1>7 DEF Inv

\* When the sender is gone its packets end with an empty buffer.
LEMMA FlowHangup ==
    ASSUME NEW q \in Seq(Packet), NEW a \in Nat, NEW s \in Nat, NEW n \in 0 .. Len(q),
           Flow(q, a, s, FALSE)
    PROVE  Flow(Append(SubSeq(q, 1, n), Hangup), a, s, TRUE)
<1> DEFINE u == SubSeq(q, 1, n)
           r == Append(u, Hangup)
<1>1. /\ u \in Seq(Packet) /\ Len(u) = n /\ n \in Nat /\ n <= Len(q)
      /\ \A i \in 1 .. n : u[i] = q[i]
  BY PrefixFacts, SMTT(30)
<1> HIDE DEF u
<1>2. /\ Len(r) = n + 1 /\ r[n + 1] = Hangup
      /\ \A i \in 1 .. n : r[i] = q[i]
  BY <1>1, AppendFacts, HangupType, SMTT(30)
<1> HIDE DEF r
<1>3. ASSUME NEW i \in 1 .. n
      PROVE  r[i].pos + r[i].len <= s /\ r[i] # Hangup /\ r[i].pos = Reached(r, a, i)
  <2>1. /\ i \in 1 .. Len(q) /\ r[i] = q[i]
        /\ i # 1 => i - 1 \in 1 .. n
    BY <1>1, <1>2, SMTT(30)
  <2>2. q[i].pos + q[i].len <= s /\ q[i] # Hangup /\ q[i].pos = Reached(q, a, i)
    BY <2>1 DEF Flow
  <2>3. Reached(r, a, i) = Reached(q, a, i)
    BY <1>2, <2>1 DEF Reached
  <2> QED
    BY <2>1, <2>2, <2>3
<1>4. ASSUME NEW i \in 1 .. Len(r), i \notin 1 .. n PROVE i = Len(r) /\ r[i] = Hangup
  BY <1>1, <1>2, <1>4, SMTT(30)
<1>5. Flow(r, a, s, TRUE)
  BY <1>3, <1>4, HangupFacts, SMTT(30) DEF Flow
<1> QED
  BY <1>5 DEF r, u

\* A connection that breaks off leaves a prefix of the packets and the empty
\* buffer.
LEMMA FinPrefix ==
    ASSUME NEW q \in Seq(Packet), NEW n \in 0 .. Len(q), NEW s, NEW fin, FinQueue(q, s, fin)
    PROVE  FinQueue(Append(SubSeq(q, 1, n), Hangup), s, fin)
<1> DEFINE u == SubSeq(q, 1, n)
<1>1. /\ u \in Seq(Packet) /\ Len(u) = n /\ n \in Nat /\ n <= Len(q) /\ Len(q) \in Nat
      /\ \A i \in 1 .. n : u[i] = q[i]
  BY PrefixFacts, SMTT(30)
<1> HIDE DEF u
<1>2. FinQueue(u, s, fin)
  <2>1. ASSUME NEW i \in 1 .. n PROVE i \in 1 .. Len(q) /\ \A j \in i + 1 .. n : j \in i + 1 .. Len(q) /\ j \in 1 .. n
    BY <1>1, SMTT(30)
  <2> QED
    BY <1>1, <2>1 DEF FinQueue
<1>3. Quiet(Hangup) /\ Hangup \in Packet
  BY HangupType, HangupFacts DEF Quiet
<1>4. FinQueue(Append(u, Hangup), s, fin)
  BY <1>1, <1>2, <1>3, FinAppendQuiet
<1> QED
  BY <1>4 DEF u

\* What both ways of losing the TCP socket of e do: myclose() and a crash.
LEMMA DisconnectStep ==
    ASSUME Inv, NEW e \in Ends, NEW n \in 0 .. Len(inbound[Peer(e)]), arrived[Peer(e)] <= n,
           Disconnect(e, n), ~Gone(e), thread["active"] \notin {"none", "started"},
           NEW v \in {"closed", "killed"}, app' = [app EXCEPT ![e] = v],
           thread' = [thread EXCEPT ![e] = "exited"],
           event' = [event EXCEPT ![e] = {}],
           app_recv_queue' = [app_recv_queue EXCEPT ![e] = <<>>],
           app_send_queue' = [app_send_queue EXCEPT ![e] = <<>>],
           NEW b \in BOOLEAN, b => v = "closed",
           close_requested' = [close_requested EXCEPT ![e] = b],
           UNCHANGED <<ctx, result, eof, written, sent, accepted, taken>>
    PROVE  Inv'
<1>0. TypeOK /\ OpenInv
  BY DEF Inv
<1>y. PICK y \in Ends : y = Peer(e)
  BY PeerFacts
<1>1. y # e /\ Peer(y) = e /\ \A x \in Ends : x = e \/ x = y
  BY <1>y, PeerFacts
<1>2. PICK r : r = Append(SubSeq(inbound[y], 1, n), Hangup)
  OBVIOUS
<1>3. /\ inbound[y] \in Seq(Packet) /\ n \in 0 .. Len(inbound[y]) /\ arrived[y] \in Nat
      /\ arrived[y] <= n /\ arrived[y] <= Len(inbound[y]) /\ FlowInv(y) /\ PacketInv(y) /\ FinInv(y)
      /\ accepted[y] \in Nat /\ sent[e] \in Nat
  BY <1>y, EndFacts
<1>4. /\ r \in Seq(Packet) /\ Len(r) = n + 1
      /\ \A i \in 1 .. Len(r) : r[i] = Hangup \/ \E j \in 1 .. Len(inbound[y]) : r[i] = inbound[y][j]
      /\ r[1] = Hangup \/ (inbound[y] # <<>> /\ r[1] = inbound[y][1])
  <2> DEFINE u == SubSeq(inbound[y], 1, n)
  <2>1. u \in Seq(Packet) /\ Len(u) = n /\ \A i \in 1 .. n : u[i] = inbound[y][i]
    BY <1>3, PrefixFacts
  <2>2. \A i \in 1 .. Len(r) : r[i] = Hangup \/ \E j \in 1 .. Len(inbound[y]) : r[i] = inbound[y][j]
    BY <1>2, <1>3, HangupType, Members, SMTT(30)
  <2>3. r = Append(u, Hangup)
    BY <1>2
  <2> HIDE DEF u
  <2>4. /\ r \in Seq(Packet) /\ Len(r) = n + 1 /\ r[n + 1] = Hangup
        /\ \A i \in 1 .. n : r[i] = u[i]
    BY <1>3, <2>1, <2>3, HangupType, AppendFacts, SMTT(30)
  <2>5. CASE n = 0
    BY <2>2, <2>4, <2>5, SMTT(30)
  <2>6. CASE n # 0
    <3>1. n \in Nat /\ 1 \in 1 .. n /\ Len(inbound[y]) # 0
      BY <1>3, <2>6, SMTT(30)
    <3>2. r[1] = inbound[y][1] /\ inbound[y] # <<>>
      <4>1. r[1] = u[1] /\ u[1] = inbound[y][1]
        BY <2>1, <2>4, <3>1
      <4>2. inbound[y] # <<>>
        BY <3>1, EmptyFacts
      <4> QED
        BY <4>1, <4>2
    <3> QED
      BY <2>2, <2>4, <3>2
  <2> QED
    BY <2>5, <2>6
<1>5. /\ inbound' = [inbound EXCEPT ![e] = <<>>, ![y] = IF Gone(y) THEN <<>> ELSE r]
      /\ arrived' = [arrived EXCEPT ![e] = 0]
  BY <1>y, <1>2 DEF Disconnect
<1>6. /\ inbound'[e] = <<>> /\ inbound'[y] = IF Gone(y) THEN <<>> ELSE r
      /\ inbound' \in [Ends -> Seq(Packet)]
  <2> DEFINE w == IF Gone(y) THEN <<>> ELSE r
  <2>1. w \in Seq(Packet) /\ <<>> \in Seq(Packet)
    BY <1>4, EmptyFacts
  <2>2. inbound' = [inbound EXCEPT ![e] = <<>>, ![y] = w] /\ inbound \in [Ends -> Seq(Packet)]
    BY <1>0, <1>5 DEF TypeOK
  <2>3. w = IF Gone(y) THEN <<>> ELSE r
    OBVIOUS
  <2> HIDE DEF w
  <2>4. inbound'[e] = <<>> /\ inbound'[y] = w /\ inbound' \in [Ends -> Seq(Packet)]
    BY <1>1, <2>1, <2>2
  <2> QED
    BY <2>3, <2>4
<1>7. /\ arrived'[e] = 0 /\ arrived'[y] = arrived[y] /\ arrived' \in [Ends -> Nat]
  BY <1>0, <1>1, <1>5 DEF TypeOK
<1>8. \A x \in Ends : arrived'[x] <= Len(inbound'[x])
  <2>1. arrived'[e] <= Len(inbound'[e])
    BY <1>6, <1>7, SMTT(30)
  <2>2. CASE Gone(y)
    <3>1. inbound[y] = <<>>
      BY <1>3, <2>2 DEF FlowInv
    <3> QED
      BY <1>1, <1>3, <1>6, <1>7, <2>1, <2>2, <3>1
  <2>3. CASE ~Gone(y)
    <3>1. arrived'[y] <= Len(inbound'[y])
      BY <1>3, <1>4, <1>6, <1>7, <2>3, SMTT(30)
    <3> QED
      BY <1>1, <2>1, <3>1
  <2> QED
    BY <2>2, <2>3
<1>9. /\ app'[e] = v /\ thread'[e] = "exited" /\ event'[e] = {} /\ close_requested'[e] = b
      /\ app_recv_queue'[e] = <<>> /\ app_send_queue'[e] = <<>>
      /\ app'[y] = app[y] /\ thread'[y] = thread[y] /\ event'[y] = event[y]
      /\ close_requested'[y] = close_requested[y]
      /\ app_recv_queue'[y] = app_recv_queue[y] /\ app_send_queue'[y] = app_send_queue[y]
  BY <1>0, <1>1 DEF TypeOK
<1>10. Gone(e)' /\ Gone(y)' = Gone(y)
  BY <1>9 DEF Gone
<1>11. \A x \in Ends : Isn(x)' = Isn(x) /\ Acked(x)' = Acked(x)
  BY DEF Isn, Acked
<1>12. TypeOK'
  <2>1. /\ app' \in [Ends -> {"idle", "connecting", "accepting", "open", "failed",
                              "closing", "closed", "killed"}]
        /\ thread' \in [Ends -> {"none", "started", "handshake", "loop", "exited"}]
        /\ close_requested' \in [Ends -> BOOLEAN]
    BY <1>0 DEF TypeOK
  <2>2. event' \in [Ends -> SUBSET Events]
    BY <1>0 DEF TypeOK
  <2>3. <<>> \in Seq(Buffer)
    BY EmptyFacts
  <2>4. app_recv_queue' \in [Ends -> Seq(Buffer)] /\ app_send_queue' \in [Ends -> Seq(Buffer)]
    BY <1>0, <2>3 DEF TypeOK
  <2> QED
    BY <1>0, <1>6, <1>7, <1>8, <2>1, <2>2, <2>4 DEF TypeOK
<1>13. OpenInv'
  <2>1. CASE e = "active"
    <3>1. y = "passive" /\ thread'["active"] = "exited" /\ thread'["passive"] = thread["passive"]
      BY <1>9, <1>y, <2>1, PeerFacts
    <3>2. \A x \in Ends : Opening(x)' => Opening(x)
      BY <1>1, <1>9 DEF Opening
    <3>3. (\A i \in 1 .. Len(inbound["passive"]) : "ACK" \notin inbound["passive"][i].flags)
             => \A i \in 1 .. Len(inbound'["passive"]) : "ACK" \notin inbound'["passive"][i].flags
      <4>1. CASE Gone(y)
        <5>1. Len(inbound'["passive"]) = 0
          BY <1>6, <3>1, <4>1, EmptyFacts
        <5> QED
          BY <5>1, SMTT(30)
      <4>2. CASE ~Gone(y)
        <5>1. inbound'["passive"] = r
          BY <1>6, <3>1, <4>2
        <5>2. "ACK" \notin Hangup.flags
          BY HangupFacts
        <5> QED
          BY <1>4, <3>1, <5>1, <5>2
      <4> QED
        BY <4>1, <4>2
    <3>4. (inbound["passive"] # <<>> => inbound["passive"][1].len = 0)
             => (inbound'["passive"] # <<>> => inbound'["passive"][1].len = 0)
      BY <1>4, <1>6, <3>1, HangupFacts
    <3>5. Unanswered' => Unanswered
      BY <3>1 DEF Unanswered
    <3>6. inbound'["active"] = <<>>
      BY <1>6, <2>1
    <3>7. \A x \in Ends : Opening(x)' =>
             /\ sent'[x] = 0 /\ accepted'[x] = 0
             /\ ~ctx'[x].fin_sent /\ ~ctx'[x].fin_received /\ ~ctx'[x].fin_acked
      BY <1>0, <3>2 DEF OpenInv
    <3>8. /\ thread'["active"] \notin {"none", "started", "handshake"} /\ ~Opening("active")'
      BY <3>1 DEF Opening
    <3>9. Unanswered' =>
             /\ thread'["active"] # "loop" /\ sent'["active"] = 0 /\ ~ctx'["active"].fin_sent
             /\ \A i \in 1 .. Len(inbound'["active"]) : inbound'["active"][i] = Hangup
             /\ \A i \in 1 .. Len(inbound'["passive"]) : "ACK" \notin inbound'["passive"][i].flags
      BY <1>0, <3>1, <3>3, <3>5, <3>6, SMTT(30) DEF OpenInv
    <3>10. thread'["passive"] = "handshake" /\ ctx'["passive"].connection_state = "SYN_RCVD" =>
              /\ thread'["active"] = "loop" => inbound'["passive"] # <<>>
              /\ inbound'["passive"] # <<>> => inbound'["passive"][1].len = 0
      BY <1>0, <3>1, <3>4 DEF OpenInv
    <3> QED
      BY <3>7, <3>8, <3>9, <3>10 DEF OpenInv
  <2>2. CASE e = "passive"
    <3>1. y = "active" /\ thread'["passive"] = "exited" /\ thread'["active"] = thread["active"]
          /\ inbound'["passive"] = <<>>
      BY <1>6, <1>9, <1>y, <2>2, PeerFacts
    <3>2. \A x \in Ends : Opening(x)' => Opening(x)
      BY <1>1, <1>9 DEF Opening
    <3>3. ~Unanswered'
      BY <3>1 DEF Unanswered
    <3>4. \A x \in Ends : Opening(x)' =>
             /\ sent'[x] = 0 /\ accepted'[x] = 0
             /\ ~ctx'[x].fin_sent /\ ~ctx'[x].fin_received /\ ~ctx'[x].fin_acked
      BY <1>0, <3>2 DEF OpenInv
    <3>5. Opening("active")' =>
             /\ thread'["passive"] # "loop" /\ sent'["passive"] = 0 /\ ~ctx'["passive"].fin_sent
             /\ \A i \in 1 .. Len(inbound'["passive"]) : "ACK" \notin inbound'["passive"][i].flags
      BY <1>0, <3>1, <3>2, PeerFacts, SMTT(30) DEF OpenInv
    <3> QED
      BY <1>0, <3>1, <3>3, <3>4, <3>5 DEF OpenInv
  <2> QED
    BY <2>1, <2>2 DEF Ends
<1>14. EndInv(e)'
  <2>1. EventInv(e) /\ WriteInv(e) /\ ReadInv(e) /\ FlowInv(e) /\ FinInv(e)
    BY EndFacts
  <2>2. EventInv(e)' /\ NumberInv(e)'
    BY <1>9, <1>10 DEF EventInv, NumberInv, Synced
  <2>3. WriteInv(e)'
    BY <1>9, <1>10, <2>1, SMTT(30) DEF WriteInv
  <2>4. ReadInv(e)'
    BY <1>9, <1>10, <2>1, SMTT(30) DEF ReadInv
  <2>5. FlowInv(e)'
    BY <1>6, <1>10, <2>1 DEF FlowInv
  <2>6. PacketInv(e)'
    BY <1>6, SMTT(30) DEF PacketInv
  <2>7. FinInv(e)'
    BY <1>6, <2>1, SMTT(30) DEF FinInv, FinQueue
  <2> QED
    BY <2>2, <2>3, <2>4, <2>5, <2>6, <2>7 DEF EndInv
<1>15. EndInv(y)'
  <2>1. EventInv(y)' /\ NumberInv(y)' /\ WriteInv(y)' /\ ReadInv(y)'
    <3>1. Isn(Peer(y))' = Isn(Peer(y))
      BY <1>1, <1>11
    <3> QED
      BY <1>7, <1>9, <3>1, KeepEnd
  <2>2. CASE Gone(y)
    <3>1. inbound'[y] = <<>> /\ inbound[y] = <<>>
      BY <1>3, <1>6, <2>2 DEF FlowInv
    <3>2. FlowInv(y)'
      BY <1>3, <1>10, <2>2, <3>1 DEF FlowInv
    <3>3. PacketInv(y)' /\ FinInv(y)'
      <4>1. Len(inbound'[y]) = 0 /\ Len(inbound[y]) = 0
        BY <3>1
      <4>2. PacketInv(y)'
        BY <4>1, SMTT(30) DEF PacketInv
      <4>3. FinQueue(inbound'[y], sent'[Peer(y)], ctx'[Peer(y)].fin_sent)
        BY <4>1, SMTT(30) DEF FinQueue
      <4>4. FinInv(y)
        BY <1>3
      <4> QED
        BY <4>1, <4>2, <4>3, <4>4, SMTT(30) DEF FinInv
    <3> QED
      BY <2>1, <3>2, <3>3 DEF EndInv
  <2>3. CASE ~Gone(y)
    <3>1. inbound'[y] = r
      BY <1>6, <2>3
    <3>2. FlowInv(y)'
      <4>1. Flow(inbound[y], accepted[y], sent[e], FALSE) /\ accepted[y] <= sent[e]
        BY <1>1, <1>3, <2>3 DEF FlowInv, Flow
      <4>2. Flow(r, accepted[y], sent[e], TRUE)
        BY <1>2, <1>3, <4>1, FlowHangup
      <4>3. Gone(e)' = TRUE
        BY <1>10 DEF Gone
      <4> QED
        BY <1>1, <1>10, <2>3, <3>1, <4>1, <4>2, <4>3 DEF FlowInv
    <3>3. PacketInv(y)'
      <4>1. \A k, l, m : PacketOK(Hangup, k, l, m)
        BY HangupFacts, SMTT(30) DEF PacketOK
      <4> QED
        <5>1. \A i \in 1 .. Len(inbound[y]) :
                 PacketOK(inbound[y][i], Isn(y), Isn(e), Acked(e))
          BY <1>1, <1>3 DEF PacketInv
        <5>2. \A i \in 1 .. Len(r) : PacketOK(r[i], Isn(y), Isn(e), Acked(e))
          BY <1>4, <4>1, <5>1
        <5>3. Isn(y)' = Isn(y) /\ Isn(Peer(y))' = Isn(e) /\ Acked(Peer(y))' = Acked(e)
          BY <1>1, <1>11
        <5> QED
          BY <3>1, <5>2, <5>3 DEF PacketInv
    <3>4. FinInv(y)'
      <4>1. FinQueue(inbound[y], sent[Peer(y)], ctx[Peer(y)].fin_sent)
        BY <1>3 DEF FinInv
      <4>2. FinQueue(r, sent[Peer(y)], ctx[Peer(y)].fin_sent)
        BY <1>2, <1>3, <4>1, FinPrefix
      <4>3. (\A i \in 1 .. Len(inbound[y]) : Quiet(inbound[y][i])) =>
               \A i \in 1 .. Len(r) : Quiet(r[i])
        <5>1. Quiet(Hangup)
          BY HangupFacts DEF Quiet
        <5> QED
          BY <1>4, <5>1
      <4> QED
        BY <1>3, <3>1, <4>2, <4>3 DEF FinInv
    <3> QED
      BY <2>1, <3>2, <3>3, <3>4 DEF EndInv
  <2> QED
    BY <2>2, <2>3
<1> QED
  BY <1>1, <1>12, <1>13, <1>14, <1>15 DEF Inv

\* myclose() returns.
LEMMA MyCloseReturnsStep ==
    ASSUME Inv, NEW e \in Ends, MyCloseReturns(e) PROVE Inv'
<1> DEFINE n == Len(inbound[Peer(e)])
           b == close_requested[e]
<1>1. /\ app[e] = "closing" /\ thread[e] = "exited" /\ Disconnect(e, n)
      /\ app' = [app EXCEPT ![e] = "closed"]
      /\ app_recv_queue' = [app_recv_queue EXCEPT ![e] = <<>>]
      /\ app_send_queue' = [app_send_queue EXCEPT ![e] = <<>>]
      /\ UNCHANGED <<ctx, thread, event, close_requested, result, eof, written, sent,
                     accepted, taken>>
  BY DEF MyCloseReturns, connVars, sockVars, countVars
<1>2. /\ TypeOK /\ OpenInv /\ EventInv(e) /\ inbound[Peer(e)] \in Seq(Packet)
      /\ arrived[Peer(e)] <= Len(inbound[Peer(e)])
  BY EndFacts, PeerFacts DEF Inv
<1>3. n \in 0 .. Len(inbound[Peer(e)]) /\ arrived[Peer(e)] <= n
  BY <1>2, SMTT(30)
<1>4. thread["active"] \notin {"none", "started"} /\ ~Gone(e) /\ b \in BOOLEAN
  BY <1>1, <1>2 DEF OpenInv, Gone, Ends, TypeOK
<1>5. /\ thread' = [thread EXCEPT ![e] = "exited"] /\ event' = [event EXCEPT ![e] = {}]
      /\ close_requested' = [close_requested EXCEPT ![e] = b]
  BY <1>1, <1>2 DEF TypeOK, EventInv
<1> HIDE DEF n, b
<1>6. PICK k \in 0 .. Len(inbound[Peer(e)]) : arrived[Peer(e)] <= k /\ Disconnect(e, k)
  BY <1>1, <1>3
<1>7. PICK d \in BOOLEAN : close_requested' = [close_requested EXCEPT ![e] = d]
  BY <1>4, <1>5
<1> QED
  BY <1>1, <1>4, <1>5, <1>6, <1>7, DisconnectStep

\* The process of e dies.
LEMMA KillStep ==
    ASSUME Inv, NEW e \in Ends, Kill(e) PROVE Inv'
<1>1. arrived[Peer(e)] \in Nat
  BY EndFacts, PeerFacts
<1>2. PICK n \in arrived[Peer(e)] .. Len(inbound[Peer(e)]) : Disconnect(e, n)
  BY DEF Kill
<1>3. n \in 0 .. Len(inbound[Peer(e)]) /\ arrived[Peer(e)] <= n
  BY <1>1, EndFacts, PeerFacts, SMTT(30)
<1>4. /\ ~Gone(e) /\ thread["active"] \notin {"none", "started"}
      /\ app' = [app EXCEPT ![e] = "killed"]
      /\ thread' = [thread EXCEPT ![e] = "exited"] /\ event' = [event EXCEPT ![e] = {}]
      /\ app_recv_queue' = [app_recv_queue EXCEPT ![e] = <<>>]
      /\ app_send_queue' = [app_send_queue EXCEPT ![e] = <<>>]
      /\ close_requested' = [close_requested EXCEPT ![e] = FALSE]
      /\ UNCHANGED <<ctx, result, eof, written, sent, accepted, taken>>
  BY DEF Kill, countVars
<1> QED
  BY <1>2, <1>3, <1>4, DisconnectStep

\* The application calls myclose().
LEMMA MyCloseStep ==
    ASSUME Inv, NEW e \in Ends, MyClose(e) PROVE Inv'
<1>0. TypeOK
  BY DEF Inv
<1>1. /\ UNCHANGED <<ctx, thread, event, inbound, arrived, app_recv_queue, app_send_queue,
                     result, eof, written, sent, accepted, taken>>
      /\ app[e] \in {"open", "failed"}
      /\ app' = [app EXCEPT ![e] = "closing"]
      /\ close_requested' = [close_requested EXCEPT ![e] = TRUE]
  BY DEF MyClose, connVars, netVars, queueVars, countVars
<1>3. /\ app'[e] = "closing"
      /\ \A x \in Ends : x # e => app'[x] = app[x] /\ close_requested'[x] = close_requested[x]
      /\ app' \in [Ends -> {"idle", "connecting", "accepting", "open", "failed",
                           "closing", "closed", "killed"}]
      /\ close_requested' \in [Ends -> BOOLEAN]
  BY <1>0, <1>1 DEF TypeOK
<1>4. \A x \in Ends : Gone(x)' = Gone(x)
  BY <1>1, <1>3, SMTT(30) DEF Gone
<1>5. TypeOK'
  BY <1>0, <1>1, <1>3 DEF TypeOK
<1>6. OpenInv'
  BY <1>1, <1>4, KeepOpen, PeerFacts DEF Inv
<1>7. ASSUME NEW x \in Ends PROVE EndInv(x)'
  <2>1. /\ EventInv(x) /\ NumberInv(x) /\ WriteInv(x) /\ ReadInv(x)
        /\ FlowInv(x) /\ PacketInv(x) /\ FinInv(x)
        /\ Isn(x)' = Isn(x) /\ Isn(Peer(x))' = Isn(Peer(x))
        /\ Gone(x)' = Gone(x) /\ Gone(Peer(x))' = Gone(Peer(x))
    BY <1>1, <1>4, EndFacts DEF Isn
  <2>2. EventInv(x)' /\ WriteInv(x)'
    <3>1. CASE x = e
      BY <1>1, <1>3, <2>1, <3>1 DEF EventInv, WriteInv
    <3>2. CASE x # e
      BY <1>1, <1>3, <2>1, <3>2, KeepEvent, KeepWrite
    <3> QED
      BY <3>1, <3>2
  <2>3. NumberInv(x)' /\ ReadInv(x)'
    BY <1>1, <2>1, KeepNumber, KeepRead
  <2>4. FlowInv(x)' /\ PacketInv(x)' /\ FinInv(x)'
    BY <1>1, <2>1, KeepFlow, KeepPacket, KeepFin
  <2> QED
    BY <2>2, <2>3, <2>4 DEF EndInv
<1> QED
  BY <1>5, <1>6, <1>7 DEF Inv

\* The application calls mywrite().
LEMMA MyWriteStep ==
    ASSUME Inv, NEW e \in Ends, MyWrite(e) PROVE Inv'
<1>0. TypeOK
  BY DEF Inv
<1>1. /\ UNCHANGED <<ctx, thread, event, inbound, arrived, app_send_queue,
                     close_requested, result, eof, app, sent, accepted, taken>>
      /\ app[e] = "open"
  BY DEF MyWrite, connVars, netVars, sockVars
<1>2. PICK n \in WriteSizes :
         /\ written[e] + n <= MaxBytes
         /\ app_recv_queue' = [app_recv_queue EXCEPT
                                  ![e] = Append(@, [pos |-> written[e], len |-> n])]
         /\ written' = [written EXCEPT ![e] = @ + n]
  BY DEF MyWrite
<1> DEFINE q == app_recv_queue[e]
           b == [pos |-> written[e], len |-> n]
           r == Append(q, b)
           t == written[e] + n
<1>3. n \in Nat /\ q \in Seq(Buffer) /\ written[e] \in Nat /\ sent[e] \in Nat
  BY EndFacts, ConstantFacts
<1>4. b \in Buffer /\ b.pos = written[e] /\ b.len = n
  BY <1>3 DEF Buffer
<1>5. /\ app_recv_queue' = [app_recv_queue EXCEPT ![e] = r]
      /\ written' = [written EXCEPT ![e] = t]
      /\ t \in 0 .. MaxBytes /\ t = written[e] + b.len /\ t >= written[e] /\ t \in Nat
  BY <1>2, <1>3, <1>4, ConstantFacts, SMTT(30)
<1> HIDE DEF b, t
<1>6. /\ r \in Seq(Buffer) /\ r # <<>>
      /\ \A i \in 1 .. Len(r) : r[i] = b \/ \E j \in 1 .. Len(q) : r[i] = q[j]
  <2>1. r \in Seq(Buffer) /\ Len(r) = Len(q) + 1 /\ Len(q) \in Nat
    BY <1>3, <1>4, AppendFacts, SMTT(30)
  <2>2. r # <<>>
    <3>1. Len(r) # 0
      BY <2>1, SMTT(30)
    <3> QED
      BY <3>1, EmptyFacts
  <2> QED
    BY <1>3, <1>4, <2>1, <2>2, Members, SMTT(30)
<1>7. Covers(q, sent[e], written[e]) => Covers(r, sent[e], t)
  BY <1>3, <1>4, <1>5, CoversAppend
<1> HIDE DEF q, r
<1>8. /\ app_recv_queue'[e] = r /\ app_recv_queue' \in [Ends -> Seq(Buffer)]
      /\ written'[e] = t /\ written' \in [Ends -> 0 .. MaxBytes]
      /\ \A x \in Ends : x # e =>
            app_recv_queue'[x] = app_recv_queue[x] /\ written'[x] = written[x]
  BY <1>0, <1>5, <1>6 DEF TypeOK
<1>9. TypeOK'
  BY <1>0, <1>1, <1>8 DEF TypeOK
<1>10. OpenInv'
  BY <1>1, KeepOpen, PeerFacts DEF Inv, Gone
<1>11. ASSUME NEW x \in Ends PROVE EndInv(x)'
  <2>1. /\ EventInv(x) /\ NumberInv(x) /\ WriteInv(x) /\ ReadInv(x)
        /\ FlowInv(x) /\ PacketInv(x) /\ FinInv(x)
        /\ Isn(x)' = Isn(x) /\ Isn(Peer(x))' = Isn(Peer(x))
        /\ Gone(x)' = Gone(x) /\ Gone(Peer(x))' = Gone(Peer(x))
    BY <1>1, EndFacts DEF Isn, Gone
  <2>2. EventInv(x)' /\ WriteInv(x)'
    <3>1. CASE x = e
      <4>1. EventInv(x)'
        BY <1>1, <1>6, <1>8, <2>1, <3>1 DEF EventInv, Gone
      <4>2. /\ ~Gone(e) /\ ~ctx[e].fin_sent /\ sent[e] <= written[e]
            /\ Covers(q, sent[e], written[e])
            /\ \A i \in 1 .. Len(q) : q[i] \in Buffer /\ q[i].pos + q[i].len <= written[e]
        <5>1. ~Gone(e)
          BY <1>1 DEF Gone
        <5>2. WriteInv(e)
          BY <2>1, <3>1
        <5>3. ~ctx[e].fin_sent
          BY <1>1, <5>2 DEF WriteInv
        <5>4. /\ sent[e] <= written[e] /\ Covers(q, sent[e], written[e])
              /\ \A i \in 1 .. Len(q) : q[i].pos + q[i].len <= written[e]
          BY <5>1, <5>2 DEF WriteInv, q
        <5>5. \A i \in 1 .. Len(q) : q[i] \in Buffer
          BY <1>3, SMTT(30)
        <5> QED
          BY <5>1, <5>3, <5>4, <5>5
      <4>3. ASSUME NEW i \in 1 .. Len(r) PROVE r[i].pos + r[i].len <= t
        <5>1. b.pos + b.len <= t
          BY <1>3, <1>4, <1>5, SMTT(30)
        <5>2. ASSUME NEW j \in 1 .. Len(q) PROVE q[j].pos + q[j].len <= t
          <6>1. q[j] \in Buffer /\ q[j].pos + q[j].len <= written[e]
            BY <4>2
          <6>2. q[j].pos + q[j].len \in Nat
            BY <6>1, SMTT(30) DEF Buffer
          <6> QED
            BY <1>3, <1>5, <6>1, <6>2, SMTT(30)
        <5> QED
          BY <1>6, <5>1, <5>2
      <4>4. sent[e] <= t
        BY <1>3, <1>5, <4>2, SMTT(30)
      <4> QED
        BY <1>1, <1>7, <1>8, <3>1, <4>1, <4>2, <4>3, <4>4 DEF WriteInv
    <3>2. CASE x # e
      BY <1>1, <1>8, <2>1, <3>2, KeepEvent, KeepWrite
    <3> QED
      BY <3>1, <3>2
  <2>3. NumberInv(x)' /\ ReadInv(x)'
    BY <1>1, <2>1, KeepNumber, KeepRead
  <2>4. FlowInv(x)' /\ PacketInv(x)' /\ FinInv(x)'
    BY <1>1, <2>1, KeepFlow, KeepPacket, KeepFin
  <2> QED
    BY <2>2, <2>3, <2>4 DEF EndInv
<1> QED
  BY <1>9, <1>10, <1>11 DEF Inv

\* myread() takes data, all or part of a buffer, or the end-of-file mark.
LEMMA MyReadStep ==
    ASSUME Inv, NEW e \in Ends, MyRead(e) PROVE Inv'
<1>0. TypeOK
  BY DEF Inv
<1>1. /\ UNCHANGED <<ctx, thread, event, inbound, arrived, app_recv_queue,
                     close_requested, result, app, written, sent, accepted>>
      /\ app[e] = "open" /\ ~eof[e] /\ app_send_queue[e] # <<>>
  BY DEF MyRead, connVars, netVars
<1> DEFINE q == app_send_queue[e]
           z == q[1].len = 0
<1>2. PICK n \in ReadSizes :
         /\ app_send_queue' = [app_send_queue EXCEPT ![e] = DequeuePartial(q, n)]
         /\ taken' = [taken EXCEPT ![e] = taken[e] + MIN(n, q[1].len)]
         /\ eof' = [eof EXCEPT ![e] = z]
  BY DEF MyRead
<1> DEFINE r == DequeuePartial(q, n)
           t == taken[e] + MIN(n, q[1].len)
<1>3. /\ n \in Nat /\ q \in Seq(Buffer) /\ q # <<>> /\ q[1] \in Buffer
      /\ taken[e] \in Nat /\ accepted[e] \in Nat /\ z \in BOOLEAN /\ 1 \in 1 .. Len(q)
  BY <1>1, EndFacts, ConstantFacts, TailFacts, SMTT(30)
<1>4. q[1].pos \in Nat /\ q[1].len \in Nat
  BY <1>3 DEF Buffer
<1>5. t \in Nat /\ t <= taken[e] + q[1].len /\ (z => t = taken[e])
  <2>1. \A k \in Nat : MIN(n, k) \in Nat /\ MIN(n, k) <= k
    BY <1>3, SMTT(30) DEF MIN
  <2>2. MIN(n, q[1].len) \in Nat /\ MIN(n, q[1].len) <= q[1].len
    BY <1>4, <2>1
  <2> QED
    BY <1>3, <1>4, <2>2, SMTT(30)
<1>6. /\ r \in Seq(Buffer)
      /\ \A i \in 1 .. Len(r) : \/ \E j \in 1 .. Len(q) : r[i] = q[j]
                                \/ r[i].pos + r[i].len = q[1].pos + q[1].len /\ r[i].len > 0
  BY <1>3, DequeueFacts, DequeueMembers
<1>7. Covers(q, taken[e], accepted[e]) => Covers(r, t, accepted[e])
  BY <1>3, CoversDequeue
<1>7a. z <=> q[1].len = 0
  OBVIOUS
<1> HIDE DEF q, r, t, z
<1>8. /\ app_send_queue'[e] = r /\ app_send_queue' \in [Ends -> Seq(Buffer)]
      /\ taken'[e] = t /\ taken' \in [Ends -> Nat]
      /\ eof'[e] = z /\ eof' \in [Ends -> BOOLEAN]
      /\ \A x \in Ends : x # e => /\ app_send_queue'[x] = app_send_queue[x]
                                  /\ taken'[x] = taken[x] /\ eof'[x] = eof[x]
  <2>1. /\ app_send_queue' = [app_send_queue EXCEPT ![e] = r]
        /\ taken' = [taken EXCEPT ![e] = t]
        /\ eof' = [eof EXCEPT ![e] = z]
    BY <1>2 DEF r, t
  <2> QED
    BY <1>0, <1>3, <1>5, <1>6, <2>1 DEF TypeOK
<1>9. TypeOK'
  BY <1>0, <1>1, <1>8 DEF TypeOK
<1>10. OpenInv'
  BY <1>1, KeepOpen, PeerFacts DEF Inv, Gone
<1>11. ASSUME NEW x \in Ends PROVE EndInv(x)'
  <2>1. /\ EventInv(x) /\ NumberInv(x) /\ WriteInv(x) /\ ReadInv(x)
        /\ FlowInv(x) /\ PacketInv(x) /\ FinInv(x)
        /\ Isn(x)' = Isn(x) /\ Isn(Peer(x))' = Isn(Peer(x))
        /\ Gone(x)' = Gone(x) /\ Gone(Peer(x))' = Gone(Peer(x))
    BY <1>1, EndFacts DEF Isn, Gone
  <2>2. ReadInv(x)'
    <3>1. CASE x = e
      <4>1. /\ ~Gone(e) /\ Covers(q, taken[e], accepted[e])
            /\ \A i \in 1 .. Len(q) : q[i].pos + q[i].len <= accepted[e]
            /\ \A i \in 1 .. Len(q) : q[i].len = 0 =>
                  q[i].pos = accepted[e] /\ (ctx[e].fin_received \/ thread[e] = "exited")
        BY <1>1, <2>1, <3>1 DEF ReadInv, Gone, q
      <4>2. q[1].pos = taken[e]
        BY <1>3, <4>1 DEF Covers
      <4>3. t <= accepted[e] /\ (z => t = accepted[e])
        BY <1>3, <1>4, <1>5, <1>7a, <4>1, <4>2, SMTT(30)
      <4>4. \A i \in 1 .. Len(r) :
               /\ r[i].pos + r[i].len <= accepted[e]
               /\ r[i].len = 0 => /\ r[i].pos = accepted[e]
                                  /\ ctx[e].fin_received \/ thread[e] = "exited"
        BY <1>3, <1>6, <4>1, SMTT(30)
      <4>5. z => ctx[e].fin_received \/ thread[e] = "exited"
        BY <1>3, <1>7a, <4>1
      <4> QED
        BY <1>1, <1>7, <1>8, <3>1, <4>1, <4>3, <4>4, <4>5 DEF ReadInv
    <3>2. CASE x # e
      BY <1>1, <1>8, <2>1, <3>2, KeepRead
    <3> QED
      BY <3>1, <3>2
  <2>3. EventInv(x)' /\ NumberInv(x)' /\ WriteInv(x)'
    BY <1>1, <2>1, KeepEvent, KeepNumber, KeepWrite
  <2>4. FlowInv(x)' /\ PacketInv(x)' /\ FinInv(x)'
    BY <1>1, <2>1, KeepFlow, KeepPacket, KeepFin
  <2> QED
    BY <2>2, <2>3, <2>4 DEF EndInv
<1> QED
  BY <1>9, <1>10, <1>11 DEF Inv

-----------------------------------------------------------------------------
(* CloseInv: the same steps.                                               *)

\* A step in which e sends and takes nothing and its transport layer at most
\* ends, as control_loop() and the calls of the application do.
LEMMA CallStep ==
    ASSUME Inv, CloseInv, NEW e \in Ends, UNCHANGED <<ctx, inbound, result>>,
           NEW t, thread' = [thread EXCEPT ![e] = t],
           NEW v, app' = [app EXCEPT ![e] = v], ~Gone(e),
           Opening(e)' => Opening(e), t \in {"loop", "handshake"} => thread[e] = t,
           SynMayBeLate(e) => SynMayBeLate(e)', ResultInv(e)',
           \A x \in Ends : \A i \in 1 .. Len(app_recv_queue'[x]) : app_recv_queue'[x][i].len > 0
    PROVE  CloseInv'
<1>y. PICK y \in Ends : y = Peer(e) /\ y # e /\ Peer(y) = e /\ \A x \in Ends : x = e \/ x = y
  BY PeerFacts
<1>1. thread'[e] = t /\ thread'[y] = thread[y] /\ app'[y] = app[y] /\ app[e] # "killed"
  BY <1>y DEF Inv, TypeOK, Gone
<1>2. AnswerInv'
  <2>1. "active" \in Ends /\ "passive" \in Ends
    BY PeerFacts
  <2>2. /\ thread'["active"] = "handshake" => thread["active"] = "handshake"
        /\ thread'["passive"] = "loop" => thread["passive"] = "loop"
    BY <1>y, <1>1, <2>1
  <2> QED
    BY <2>2, KeepAnswer DEF CloseInv
<1>3. CloseEnd(e)'
  <2>1. CloseEnd(e) /\ ctx'[e] = ctx[e] /\ inbound'[e] = inbound[e] /\ ctx'[Peer(e)] = ctx[Peer(e)]
    BY DEF CloseInv
  <2>2. StateInv(e)'
    <3>1. app[Peer(e)] = "killed" => app'[Peer(e)] = "killed"
      BY <1>y, <1>1
    <3>2. thread'[e] = "loop" => thread[e] = "loop"
      BY <1>1
    <3> QED
      BY <2>1, <3>1, <3>2, KeepState DEF CloseEnd
  <2>3. HangupLast(inbound'[e], SynMayBeLate(e)')
    BY <2>1 DEF CloseEnd, HangupLast
  <2>4. LastAck(inbound'[e], ctx'[e], ctx'[Peer(e)].fin_received)
    BY <2>1 DEF CloseEnd
  <2> QED
    BY <2>2, <2>3, <2>4 DEF CloseEnd
<1>4. CloseEnd(y)'
  <2>1. /\ CloseEnd(y) /\ ctx'[y] = ctx[y] /\ inbound'[y] = inbound[y]
        /\ ctx'[Peer(y)] = ctx[Peer(y)] /\ result'[y] = result[y]
        /\ app[Peer(y)] # "killed" /\ ~Gone(Peer(y))
    BY <1>y, <1>1 DEF CloseInv
  <2>2. StateInv(y)'
    <3>1. Opening(y)' => Opening(y)
      BY <1>1 DEF Opening
    <3> QED
      BY <1>1, <2>1, <3>1, KeepState DEF CloseEnd
  <2>3. ResultInv(y)'
    BY <1>1, <2>1, KeepResult DEF CloseEnd
  <2>4. HangupLast(inbound'[y], SynMayBeLate(y)')
    <3>1. \A i \in 1 .. Len(inbound[y]) : inbound[y][i] # Hangup
      BY <2>1, NoHangup
    <3>2. inbound[y] \in Seq(Packet)
      BY EndFacts
    <3>3. \A i \in 1 .. Len(inbound[y]) - 1 : i \in 1 .. Len(inbound[y])
      BY <3>2, SMTT(30)
    <3> QED
      BY <2>1, <3>1, <3>3 DEF HangupLast
  <2>5. LastAck(inbound'[y], ctx'[y], ctx'[Peer(y)].fin_received)
    BY <2>1 DEF CloseEnd
  <2> QED
    BY <2>2, <2>3, <2>4, <2>5 DEF CloseEnd
<1> QED
  BY <1>y, <1>2, <1>3, <1>4 DEF CloseInv

\* control_loop() is over: it was done.
LEMMA ThreadExitClose ==
    ASSUME Inv, CloseInv, NEW e \in Ends, ThreadExit(e) PROVE CloseInv'
<1>1. /\ UNCHANGED <<ctx, inbound, result, app_recv_queue, app>> /\ thread[e] = "loop"
      /\ ctx[e].done /\ thread' = [thread EXCEPT ![e] = "exited"]
  BY DEF ThreadExit, netVars, sockVars
<1>2. ResultInv(e) /\ EventInv(e)
  BY CloseFacts, EndFacts
<1>3. ~Gone(e) /\ ~SynMayBeLate(e)
  BY <1>1, <1>2 DEF EventInv, SynMayBeLate, Unanswered
<1>4. thread'[e] = "exited" /\ app' = [app EXCEPT ![e] = app[e]]
  BY <1>1 DEF Inv, TypeOK
<1>5. ResultInv(e)' /\ ~Opening(e)'
  BY <1>1, <1>2, <1>4 DEF ResultInv, Opening
<1>6. \A x \in Ends : \A i \in 1 .. Len(app_recv_queue'[x]) : app_recv_queue'[x][i].len > 0
  BY <1>1, CloseFacts
<1>7. PICK t, v : t = "exited" /\ v = app[e]
  OBVIOUS
<1>8. /\ UNCHANGED <<ctx, inbound, result>> /\ thread' = [thread EXCEPT ![e] = t]
      /\ app' = [app EXCEPT ![e] = v] /\ ~(t \in {"loop", "handshake"})
  BY <1>1, <1>4, <1>7
<1> QED
  BY <1>3, <1>5, <1>6, <1>8, CallStep

\* What is common to the calls that only move the application.
LEMMA AppStep ==
    ASSUME Inv, CloseInv, NEW e \in Ends, NEW v, app' = [app EXCEPT ![e] = v], ~Gone(e),
           UNCHANGED <<ctx, thread, inbound, result, app_recv_queue>>, ResultInv(e)'
    PROVE  CloseInv'
<1>1. thread' = [thread EXCEPT ![e] = thread[e]]
  BY DEF Inv, TypeOK
<1>2. (Opening(e)' => Opening(e)) /\ (SynMayBeLate(e) => SynMayBeLate(e)')
  BY DEF Opening, SynMayBeLate, Unanswered
<1>3. \A x \in Ends : \A i \in 1 .. Len(app_recv_queue'[x]) : app_recv_queue'[x][i].len > 0
  BY CloseFacts
<1>4. PICK t : t = thread[e]
  OBVIOUS
<1>5. /\ UNCHANGED <<ctx, inbound, result>> /\ thread' = [thread EXCEPT ![e] = t]
      /\ t \in {"loop", "handshake"} => thread[e] = t
  BY <1>1, <1>4
<1> QED
  BY <1>2, <1>3, <1>5, CallStep

\* myconnect() or myaccept() returns.
LEMMA OpenReturnsClose ==
    ASSUME Inv, CloseInv, NEW e \in Ends, OpenReturns(e) PROVE CloseInv'
<1>1. PICK v : v = IF result[e] = "connected" THEN "open" ELSE "failed"
  OBVIOUS
<1>2. /\ UNCHANGED <<ctx, thread, inbound, result, app_recv_queue>>
      /\ app[e] \in {"connecting", "accepting"} /\ app' = [app EXCEPT ![e] = v]
  BY <1>1 DEF OpenReturns, connVars, netVars, sockVars, queueVars
<1>3. ResultInv(e) /\ app'[e] = v /\ ~Gone(e)
  BY <1>2, CloseFacts DEF Inv, TypeOK, Gone
<1>4. Gone(Peer(e))' = Gone(Peer(e))
  BY <1>2, PeerFacts DEF Inv, TypeOK, Gone
<1>5. ResultInv(e)'
  BY <1>1, <1>2, <1>3, <1>4, SMTT(30) DEF ResultInv
<1> QED
  BY <1>2, <1>3, <1>5, AppStep

\* myclose() asks the transport layer to close.
LEMMA MyCloseClose ==
    ASSUME Inv, CloseInv, NEW e \in Ends, MyClose(e) PROVE CloseInv'
<1>1. /\ UNCHANGED <<ctx, thread, inbound, result, app_recv_queue>>
      /\ app[e] = "open" \/ (app[e] = "failed" /\ e = "active")
      /\ app' = [app EXCEPT ![e] = "closing"]
  BY DEF MyClose, connVars, netVars, queueVars
<1>2. ResultInv(e) /\ app'[e] = "closing" /\ ~Gone(e)
  BY <1>1, CloseFacts DEF Inv, TypeOK, Gone
<1>3. Gone(Peer(e))' = Gone(Peer(e))
  BY <1>1, PeerFacts DEF Inv, TypeOK, Gone
<1>4. ResultInv(e)'
  BY <1>1, <1>2, <1>3 DEF ResultInv
<1> QED
  BY <1>1, <1>2, <1>4, AppStep

\* A queue without empty buffers that gets another one that is not empty.
LEMMA AppendNonEmpty ==
    ASSUME NEW q \in Seq(Buffer), NEW b \in Buffer, b.len > 0, \A i \in 1 .. Len(q) : q[i].len > 0
    PROVE  \A i \in 1 .. Len(Append(q, b)) : Append(q, b)[i].len > 0
<1>1. /\ Len(q) \in Nat /\ Len(Append(q, b)) = Len(q) + 1 /\ Append(q, b)[Len(q) + 1] = b
      /\ \A i \in 1 .. Len(q) : Append(q, b)[i] = q[i]
  BY AppendFacts, SMTT(30)
<1>2. \A i \in 1 .. Len(q) + 1 : i \in 1 .. Len(q) \/ i = Len(q) + 1
  BY <1>1, SMTT(30)
<1> QED
  BY <1>1, <1>2

\* mywrite() queues no empty buffer.
LEMMA MyWriteClose ==
    ASSUME Inv, CloseInv, NEW e \in Ends, MyWrite(e) PROVE CloseInv'
<1>1. PICK n \in WriteSizes :
         app_recv_queue' = [app_recv_queue EXCEPT
                               ![e] = Append(@, [pos |-> written[e], len |-> n])]
  BY DEF MyWrite
<1>2. UNCHANGED <<ctx, thread, inbound, result, app>> /\ app[e] = "open"
  BY DEF MyWrite, connVars, netVars, sockVars
<1>3. PICK b : b = [pos |-> written[e], len |-> n]
  OBVIOUS
<1>4. /\ b \in Buffer /\ b.len > 0 /\ app_recv_queue[e] \in Seq(Buffer)
      /\ app_recv_queue'[e] = Append(app_recv_queue[e], b)
      /\ \A x \in Ends : x # e => app_recv_queue'[x] = app_recv_queue[x]
  <2>1. n \in Nat /\ n > 0 /\ written[e] \in Nat /\ app_recv_queue[e] \in Seq(Buffer)
    BY EndFacts, ConstantFacts
  <2>2. b \in Buffer /\ b.len > 0
    BY <1>3, <2>1 DEF Buffer
  <2> QED
    BY <1>1, <1>3, <2>1, <2>2 DEF Inv, TypeOK
<1>5. ASSUME NEW x \in Ends, NEW i \in 1 .. Len(app_recv_queue'[x])
      PROVE  app_recv_queue'[x][i].len > 0
  <2>1. \A j \in 1 .. Len(app_recv_queue[x]) : app_recv_queue[x][j].len > 0
    BY CloseFacts
  <2>2. CASE x = e
    <3>1. PICK q : q = app_recv_queue[x]
      OBVIOUS
    <3>2. /\ q \in Seq(Buffer) /\ app_recv_queue'[x] = Append(q, b) /\ b \in Buffer
          /\ \A j \in 1 .. Len(q) : q[j].len > 0
      BY <1>4, <2>1, <2>2, <3>1
    <3>3. \A j \in 1 .. Len(Append(q, b)) : Append(q, b)[j].len > 0
      BY <1>4, <3>2, AppendNonEmpty
    <3> QED
      BY <3>2, <3>3
  <2>3. CASE x # e
    BY <1>4, <2>1, <2>3
  <2> QED
    BY <2>2, <2>3
<1>6. AnswerInv'
  BY <1>2, KeepAnswer DEF CloseInv
<1>7. ASSUME NEW x \in Ends PROVE CloseEnd(x)'
  <2>1. CloseEnd(x) /\ Gone(Peer(x))' = Gone(Peer(x)) /\ (Opening(x)' => Opening(x))
    BY <1>2 DEF CloseInv, Gone, Opening
  <2>2. SynMayBeLate(x)' = SynMayBeLate(x)
    BY <1>2 DEF SynMayBeLate, Unanswered
  <2>3. StateInv(x)' /\ ResultInv(x)'
    BY <1>2, <2>1, KeepState, KeepResult DEF CloseEnd
  <2>4. /\ LastAck(inbound'[x], ctx'[x], ctx'[Peer(x)].fin_received)
        /\ HangupLast(inbound'[x], SynMayBeLate(x)')
    BY <1>2, <2>1, <2>2 DEF CloseEnd
  <2> QED
    BY <1>5, <2>3, <2>4 DEF CloseEnd
<1> QED
  BY <1>6, <1>7 DEF CloseInv

\* A prefix of the packets and the empty buffer.
LEMMA LastAckPrefix ==
    ASSUME NEW q \in Seq(Packet), NEW n \in 0 .. Len(q), NEW c, NEW fin, LastAck(q, c, fin)
    PROVE  LastAck(Append(SubSeq(q, 1, n), Hangup), c, fin)
<1> DEFINE u == SubSeq(q, 1, n)
<1>1. u \in Seq(Packet) /\ Len(u) = n /\ n \in Nat /\ n <= Len(q) /\ \A i \in 1 .. n : u[i] = q[i]
  BY PrefixFacts, SMTT(30)
<1>2. \A i \in 1 .. n : i \in 1 .. Len(q) /\ \A j \in 1 .. i - 1 : j \in 1 .. n
  BY <1>1, SMTT(30)
<1> HIDE DEF u
<1>3. LastAck(u, c, fin)
  BY <1>1, <1>2 DEF LastAck
<1>4. LastAck(Append(u, Hangup), c, fin)
  BY <1>1, <1>3, LastAckAppend, HangupType
<1> QED
  BY <1>4 DEF u

\* The empty buffer after a prefix of such packets.
LEMMA HangupPrefix ==
    ASSUME NEW q \in Seq(Packet), NEW n \in 0 .. Len(q), NEW late,
           \A i \in 1 .. Len(q) : q[i] # Hangup
    PROVE  HangupLast(Append(SubSeq(q, 1, n), Hangup), late)
<1> DEFINE u == SubSeq(q, 1, n)
<1>1. u \in Seq(Packet) /\ \A i \in 1 .. Len(u) : u[i] # Hangup
  BY PrefixFacts, SMTT(30)
<1> HIDE DEF u
<1>2. HangupLast(Append(u, Hangup), late)
  BY <1>1, HangupAppend, HangupType
<1> QED
  BY <1>2 DEF u

\* The TCP connection of e ends: a Hangup follows what its peer still gets.
LEMMA DisconnectClose ==
    ASSUME Inv, CloseInv, NEW e \in Ends, NEW n \in 0 .. Len(inbound[Peer(e)]),
           Disconnect(e, n), ~Gone(e), NEW v, app' = [app EXCEPT ![e] = v],
           v = "killed" \/ (v = "closed" /\ app[e] = "closing" /\ thread[e] = "exited"),
           thread' = [thread EXCEPT ![e] = "exited"],
           app_recv_queue' = [app_recv_queue EXCEPT ![e] = <<>>], UNCHANGED <<ctx, result>>
    PROVE  CloseInv'
<1>y. PICK y \in Ends : y = Peer(e) /\ y # e /\ Peer(y) = e /\ \A x \in Ends : x = e \/ x = y
  BY PeerFacts
<1>1. /\ thread'[e] = "exited" /\ thread'[y] = thread[y] /\ app'[e] = v /\ app'[y] = app[y]
      /\ app_recv_queue'[e] = <<>> /\ app_recv_queue'[y] = app_recv_queue[y]
  BY <1>y DEF Inv, TypeOK
<1>q. PICK q : q = inbound[y]
  OBVIOUS
<1>2. inbound'[e] = <<>> /\ inbound'[y] = IF Gone(y) THEN <<>> ELSE Append(SubSeq(q, 1, n), Hangup)
  BY <1>y, <1>q DEF Disconnect, Inv, TypeOK
<1>3. q \in Seq(Packet) /\ n \in 0 .. Len(q) /\ \A i \in 1 .. Len(q) : q[i] # Hangup
  BY <1>y, <1>q, EndFacts, NoHangup
<1>4. \A i \in 1 .. Len(inbound'[y]) :
         inbound'[y][i] = Hangup \/ \E j \in 1 .. Len(q) : inbound'[y][i] = q[j]
  <2>1. CASE Gone(y)
    BY <1>2, <2>1, SMTT(30)
  <2>2. CASE ~Gone(y)
    <3>1. \A i \in 1 .. Len(Append(SubSeq(q, 1, n), Hangup)) :
             \/ Append(SubSeq(q, 1, n), Hangup)[i] = Hangup
             \/ \E j \in 1 .. Len(q) : Append(SubSeq(q, 1, n), Hangup)[i] = q[j]
      BY <1>3, Members, HangupType, SMTT(30)
    <3> QED
      BY <1>2, <2>2, <3>1
  <2> QED
    BY <2>1, <2>2
<1>5. AnswerInv'
  <2>0. AnswerInv
    BY DEF CloseInv
  <2>1. CASE e = "active"
    <3>1. y = "passive" /\ thread'["active"] # "handshake" /\ thread'["passive"] = thread["passive"]
      BY <1>y, <1>1, <2>1, PeerFacts
    <3>2. ctx["active"].connection_state = "SYN_SENT" =>
             thread["passive"] # "loop" /\ \A i \in 1 .. Len(q) : "ACK" \notin q[i].flags
      BY <1>q, <2>0, <3>1 DEF AnswerInv
    <3>3. "ACK" \notin Hangup.flags
      BY DEF Hangup
    <3> QED
      BY <1>4, <3>1, <3>2, <3>3 DEF AnswerInv
  <2>2. CASE e = "passive"
    <3>1. y = "active" /\ thread'["passive"] # "loop" /\ inbound'["passive"] = <<>>
          /\ thread'["active"] = thread["active"]
      BY <1>y, <1>1, <1>2, <2>2, PeerFacts
    <3>2. thread["active"] = "handshake" =>
             \A i \in 1 .. Len(q) : q[i] = Hangup \/ SynAckExpected(ctx["active"], q[i])
      BY <1>q, <2>0, <3>1 DEF AnswerInv
    <3>3. thread'["active"] = "handshake" =>
             \A i \in 1 .. Len(inbound'["active"]) :
                inbound'["active"][i] = Hangup \/ SynAckExpected(ctx["active"], inbound'["active"][i])
      BY <1>4, <3>1, <3>2
    <3>4. \A i \in 1 .. Len(inbound'["passive"]) : FALSE
      BY <3>1, SMTT(30)
    <3>5. \A p : SynAckExpected(ctx["active"], p) => SynAckExpected(ctx'["active"], p)
      OBVIOUS
    <3> QED
      BY <3>1, <3>3, <3>4 DEF AnswerInv, SynAckExpected
  <2> QED
    BY <2>1, <2>2 DEF Ends
<1>6. CloseEnd(e)'
  <2>1. StateInv(e) /\ ResultInv(e) /\ Gone(Peer(e))' = Gone(Peer(e))
    BY <1>y, <1>1, CloseFacts DEF Gone
  <2>2. ~Opening(e)'
    BY <1>1 DEF Opening
  <2>3. StateInv(e)'
    BY <1>y, <1>1, <1>2, <2>1, <2>2, KeepState
  <2>4. ResultInv(e)'
    BY <1>1, <1>2, <2>1 DEF ResultInv
  <2>5. /\ LastAck(inbound'[e], ctx'[e], ctx'[Peer(e)].fin_received)
        /\ HangupLast(inbound'[e], SynMayBeLate(e)')
    <3>1. (\A i \in 1 .. Len(inbound'[e]) : FALSE) /\ (\A i \in 1 .. Len(inbound'[e]) - 1 : FALSE)
      BY <1>2, SMTT(30)
    <3> QED
      BY <3>1 DEF LastAck, HangupLast
  <2>6. \A i \in 1 .. Len(app_recv_queue'[e]) : app_recv_queue'[e][i].len > 0
    BY <1>1, SMTT(30)
  <2> QED
    BY <2>3, <2>4, <2>5, <2>6 DEF CloseEnd
<1>7. CloseEnd(y)'
  <2>1. /\ StateInv(y) /\ ResultInv(y) /\ LastAck(q, ctx[y], ctx[e].fin_received)
        /\ \A i \in 1 .. Len(app_recv_queue[y]) : app_recv_queue[y][i].len > 0
        /\ ~Gone(Peer(y)) /\ app[Peer(y)] # "killed"
    BY <1>y, <1>q, CloseFacts DEF Gone
  <2>2. StateInv(y)'
    <3>1. Opening(y)' => Opening(y)
      BY <1>1 DEF Opening
    <3> QED
      BY <1>1, <2>1, <3>1, KeepState
  <2>3. ResultInv(y)'
    BY <1>1, <2>1, KeepResult
  <2>4. /\ LastAck(inbound'[y], ctx'[y], ctx'[Peer(y)].fin_received)
        /\ HangupLast(inbound'[y], SynMayBeLate(y)')
    <3>1. PICK c, fin : c = ctx[y] /\ fin = ctx[e].fin_received
      OBVIOUS
    <3>2. CASE Gone(y)
      <4>1. (\A i \in 1 .. Len(inbound'[y]) : FALSE) /\ (\A i \in 1 .. Len(inbound'[y]) - 1 : FALSE)
        BY <1>2, <3>2, SMTT(30)
      <4> QED
        BY <4>1 DEF LastAck, HangupLast
    <3>3. CASE ~Gone(y)
      <4>1. LastAck(q, c, fin)
        BY <2>1, <3>1
      <4>2. LastAck(Append(SubSeq(q, 1, n), Hangup), c, fin)
        BY <1>3, <4>1, LastAckPrefix
      <4>3. HangupLast(Append(SubSeq(q, 1, n), Hangup), FALSE)
        BY <1>3, HangupPrefix
      <4> QED
        BY <1>y, <1>2, <3>1, <3>3, <4>2, <4>3 DEF HangupLast
    <3> QED
      BY <3>2, <3>3
  <2> QED
    BY <1>1, <2>1, <2>2, <2>3, <2>4 DEF CloseEnd
<1> QED
  BY <1>y, <1>5, <1>6, <1>7 DEF CloseInv

\* myclose() returns: the socket is closed.
LEMMA MyCloseReturnsClose ==
    ASSUME Inv, CloseInv, NEW e \in Ends, MyCloseReturns(e) PROVE CloseInv'
<1>1. PICK n : n = Len(inbound[Peer(e)])
  OBVIOUS
<1>2. PICK v : v = "closed"
  OBVIOUS
<1>3. n \in 0 .. Len(inbound[Peer(e)])
  <2>1. inbound[Peer(e)] \in Seq(Packet)
    BY EndFacts, PeerFacts
  <2> QED
    BY <1>1, <2>1, SMTT(30)
<1>4. /\ Disconnect(e, n) /\ app' = [app EXCEPT ![e] = v] /\ app[e] = "closing"
      /\ thread[e] = "exited" /\ app_recv_queue' = [app_recv_queue EXCEPT ![e] = <<>>]
      /\ UNCHANGED <<ctx, thread, result>>
  BY <1>1, <1>2 DEF MyCloseReturns, connVars, sockVars
<1>5. thread' = [thread EXCEPT ![e] = "exited"] /\ ~Gone(e) /\ UNCHANGED <<ctx, result>>
  BY <1>4 DEF Inv, TypeOK, Gone
<1> QED
  BY <1>2, <1>3, <1>4, <1>5, DisconnectClose

\* The process of an end dies.
LEMMA KillClose ==
    ASSUME Inv, CloseInv, NEW e \in Ends, Kill(e) PROVE CloseInv'
<1>1. PICK n \in arrived[Peer(e)] .. Len(inbound[Peer(e)]) : Disconnect(e, n)
  BY DEF Kill
<1>2. PICK v : v = "killed"
  OBVIOUS
<1>3. n \in 0 .. Len(inbound[Peer(e)])
  <2>1. arrived[Peer(e)] \in Nat
    BY EndFacts, PeerFacts
  <2> QED
    BY <1>1, <2>1, SMTT(30)
<1>4. /\ app' = [app EXCEPT ![e] = v] /\ ~Gone(e) /\ thread' = [thread EXCEPT ![e] = "exited"]
      /\ app_recv_queue' = [app_recv_queue EXCEPT ![e] = <<>>] /\ UNCHANGED <<ctx, result>>
  BY <1>2 DEF Kill
<1> QED
  BY <1>1, <1>2, <1>3, <1>4, DisconnectClose

-----------------------------------------------------------------------------
(* Packets taken and sent.                                                 *)

\* Arithmetic on tcp_seq stays in the number space.
LEMMA WrapType == \A n \in Int : Wrap(n) \in SeqNums
  BY ConstantFacts, SMTT(30) DEF Wrap, SeqNums

\* The context that transport_init() allocates is well formed.
LEMMA NewContextType == \A isn \in SeqNums : NewContext(isn) \in Context
  BY ConstantFacts, SMTT(30) DEF NewContext, Context, SeqNums, CStates

\* send_packet() builds well-formed packets.
LEMMA MakePacketType ==
    ASSUME NEW c \in Context, NEW flags \in SUBSET {"SYN", "ACK", "FIN"},
           NEW pos \in Nat, NEW len \in Nat
    PROVE  MakePacket(c, flags, pos, len) \in Packet
  BY ConstantFacts, SMTT(30) DEF MakePacket, Context, Packet

\* What concatenation does, index by index.
LEMMA ConcatFacts ==
    ASSUME NEW S, NEW q \in Seq(S), NEW r \in Seq(S)
    PROVE  /\ q \o r \in Seq(S) /\ Len(q \o r) = Len(q) + Len(r)
           /\ \A i \in 1 .. Len(q) : (q \o r)[i] = q[i]
           /\ \A i \in 1 .. Len(r) : (q \o r)[Len(q) + i] = r[i]
  BY SMTT(30)

\* What a sequence of one element holds.
LEMMA SingletonFacts ==
    ASSUME NEW S, NEW x \in S
    PROVE  <<x>> \in Seq(S) /\ Len(<<x>>) = 1 /\ <<x>>[1] = x
  BY SMTT(30)

\* The packets of a queue, their positions and their lengths.
LEMMA QueueFacts ==
    ASSUME NEW q \in Seq(Packet)
    PROVE  /\ Len(q) \in Nat
           /\ \A i \in 1 .. Len(q) : q[i] \in Packet /\ q[i].pos \in Nat /\ q[i].len \in Nat
<1>1. Len(q) \in Nat
  BY SMTT(30)
<1>2. ASSUME NEW i \in 1 .. Len(q) PROVE q[i] \in Packet /\ q[i].pos \in Nat /\ q[i].len \in Nat
  <2>1. q[i] \in Packet
    BY SMTT(30)
  <2> QED
    BY <2>1 DEF Packet
<1> QED
  BY <1>1, <1>2

\* When the first packet has been taken and its payload accepted, the others
\* continue what was accepted.
LEMMA FlowTake ==
    ASSUME NEW q \in Seq(Packet), q # <<>>, NEW a \in Nat, NEW b \in Nat, NEW s \in Nat,
           NEW over \in BOOLEAN, Flow(q, a, s, over),
           b = IF q[1] = Hangup THEN a ELSE a + q[1].len
    PROVE  /\ Flow(Tail(q), b, s, over)
           /\ a <= s => b <= s
<1> DEFINE r == Tail(q)
<1>1. /\ Len(q) > 0 /\ r \in Seq(Packet) /\ Len(r) = Len(q) - 1
      /\ \A i \in 1 .. Len(r) : r[i] = q[i + 1]
  BY TailFacts
<1>2. /\ Len(q) \in Nat /\ Len(r) \in Nat /\ 1 \in 1 .. Len(q)
      /\ \A i \in 1 .. Len(q) : q[i] \in Packet /\ q[i].pos \in Nat /\ q[i].len \in Nat
  BY <1>1, QueueFacts, SMTT(30)
<1> HIDE DEF r
<1>3. /\ q[1] # Hangup => q[1].pos = a
      /\ q[1] = Hangup /\ Len(q) > 1 => a = 0
      /\ q[1].pos + q[1].len <= s
  BY <1>2 DEF Flow, Reached
<1>4. /\ Len(q) > 1 \/ q[1] # Hangup => b = q[1].pos + q[1].len
      /\ a <= s => b <= s
  BY <1>2, <1>3, HangupFacts, SMTT(30)
<1>5. ASSUME NEW i \in 1 .. Len(r)
      PROVE  /\ r[i].pos + r[i].len <= s
             /\ r[i] # Hangup => r[i].pos = Reached(r, b, i)
             /\ r[i] = Hangup => over /\ (i < Len(r) => i = 1 /\ b = 0)
  <2>1. /\ i \in Nat /\ i + 1 \in 1 .. Len(q) /\ r[i] = q[i + 1] /\ (i + 1) - 1 = i
        /\ i + 1 # 1 /\ (i < Len(r) => i + 1 < Len(q)) /\ Len(q) > 1
    BY <1>1, <1>2, SMTT(30)
  <2>2. Reached(r, b, i) = q[i].pos + q[i].len
    <3>1. CASE i = 1
      BY <1>4, <2>1, <3>1 DEF Reached
    <3>2. CASE i # 1
      <4>1. i - 1 \in 1 .. Len(r) /\ (i - 1) + 1 = i
        BY <1>2, <3>2, SMTT(30)
      <4> QED
        BY <1>1, <3>2, <4>1 DEF Reached
    <3> QED
      BY <3>1, <3>2
  <2>3. /\ q[i + 1].pos + q[i + 1].len <= s
        /\ q[i + 1] # Hangup => q[i + 1].pos = Reached(q, a, i + 1)
        /\ q[i + 1] = Hangup => over /\ ~(i + 1 < Len(q))
    BY <2>1 DEF Flow
  <2>4. Reached(q, a, i + 1) = q[i].pos + q[i].len
    BY <2>1 DEF Reached
  <2> QED
    BY <2>1, <2>2, <2>3, <2>4
<1>6. ~over => Reached(r, b, Len(r) + 1) = s
  <2> SUFFICES ASSUME ~over PROVE Reached(r, b, Len(r) + 1) = s
    OBVIOUS
  <2>1. q[Len(q)].pos + q[Len(q)].len = s /\ q[1] # Hangup
    BY <1>1, <1>2, SMTT(30) DEF Flow, Reached
  <2>2. CASE Len(r) = 0
    <3>1. Len(q) = 1
      BY <1>1, <1>2, <2>2, SMTT(30)
    <3> QED
      BY <1>4, <2>1, <2>2, <3>1, SMTT(30) DEF Reached
  <2>3. CASE Len(r) # 0
    <3>1. Len(r) \in 1 .. Len(r) /\ Len(r) + 1 = Len(q) /\ Len(r) + 1 # 1 /\ (Len(r) + 1) - 1 = Len(r)
      BY <1>1, <1>2, <2>3, SMTT(30)
    <3>2. r[Len(r)] = q[Len(q)]
      BY <1>1, <3>1
    <3> QED
      BY <2>1, <3>1, <3>2 DEF Reached
  <2> QED
    BY <2>2, <2>3
<1>7. Flow(r, b, s, over)
  BY <1>5, <1>6 DEF Flow
<1> QED
  BY <1>4, <1>7 DEF r

\* A packet sent at the end of the stream continues it.
LEMMA FlowAppend ==
    ASSUME NEW q \in Seq(Packet), NEW a \in Nat, NEW s \in Nat, NEW t \in Nat,
           NEW p \in Packet, p # Hangup, p.pos = s, p.len \in Nat, t = s + p.len,
           Flow(q, a, s, FALSE)
    PROVE  Flow(Append(q, p), a, t, FALSE)
<1> DEFINE r == Append(q, p)
<1>1. /\ Len(q) \in Nat /\ Len(r) = Len(q) + 1 /\ r[Len(q) + 1] = p
      /\ \A i \in 1 .. Len(q) : r[i] = q[i] /\ q[i].pos \in Nat /\ q[i].len \in Nat
  BY AppendFacts, QueueFacts, SMTT(30)
<1> HIDE DEF r
<1>2. ASSUME NEW i \in 1 .. Len(q) + 1 PROVE Reached(r, a, i) = Reached(q, a, i)
  <2>1. i # 1 => i - 1 \in 1 .. Len(q)
    BY <1>1, SMTT(30)
  <2> QED
    BY <1>1, <2>1 DEF Reached
<1>3. Reached(r, a, Len(r) + 1) = t
  BY <1>1, SMTT(30) DEF Reached
<1>4. ASSUME NEW i \in 1 .. Len(r)
      PROVE  r[i].pos + r[i].len <= t /\ r[i] # Hangup /\ r[i].pos = Reached(r, a, i)
  <2>1. i \in 1 .. Len(q) + 1 /\ (i \in 1 .. Len(q) \/ i = Len(q) + 1)
    BY <1>1, SMTT(30)
  <2>2. CASE i \in 1 .. Len(q)
    <3>1. q[i].pos + q[i].len <= s /\ q[i] # Hangup /\ q[i].pos = Reached(q, a, i)
      BY <2>2 DEF Flow
    <3> QED
      BY <1>1, <1>2, <2>1, <2>2, <3>1, SMTT(30)
  <2>3. CASE i = Len(q) + 1
    <3>1. Reached(q, a, Len(q) + 1) = s
      BY DEF Flow
    <3> QED
      BY <1>1, <1>2, <2>1, <2>3, <3>1, SMTT(30)
  <2> QED
    BY <2>1, <2>2, <2>3
<1>5. Flow(r, a, t, FALSE)
  BY <1>3, <1>4 DEF Flow
<1> QED
  BY <1>5 DEF r

\* FINs stay the last packets when one is taken, when an ACK or the end of the
\* connection follows, and when the sender that has sent none appends a packet.
LEMMA FinTake ==
    ASSUME NEW q \in Seq(Packet), q # <<>>, NEW s, NEW fin, FinQueue(q, s, fin)
    PROVE  /\ FinQueue(Tail(q), s, fin)
           /\ "FIN" \in q[1].flags =>
                 /\ fin /\ q[1].len = 0 /\ q[1].pos = s
                 /\ \A i \in 1 .. Len(Tail(q)) : Quiet(Tail(q)[i])
<1> DEFINE r == Tail(q)
<1>1. /\ Len(q) > 0 /\ Len(q) \in Nat /\ Len(r) = Len(q) - 1 /\ Len(r) \in Nat
      /\ \A i \in 1 .. Len(r) : r[i] = q[i + 1]
  BY TailFacts, SMTT(30)
<1> HIDE DEF r
<1>2. ASSUME NEW i \in 1 .. Len(r), "FIN" \in r[i].flags
      PROVE  fin /\ r[i].len = 0 /\ r[i].pos = s /\ \A j \in i + 1 .. Len(r) : Quiet(r[j])
  <2>1. i + 1 \in 1 .. Len(q) /\ r[i] = q[i + 1]
    BY <1>1, SMTT(30)
  <2>2. fin /\ q[i + 1].len = 0 /\ q[i + 1].pos = s /\ \A j \in i + 1 + 1 .. Len(q) : Quiet(q[j])
    BY <1>2, <2>1 DEF FinQueue
  <2>3. ASSUME NEW j \in i + 1 .. Len(r) PROVE Quiet(r[j])
    <3>1. j \in 1 .. Len(r) /\ j + 1 \in i + 1 + 1 .. Len(q)
      BY <1>1, SMTT(30)
    <3> QED
      BY <1>1, <2>2, <3>1
  <2> QED
    BY <2>1, <2>2, <2>3
<1>3. ASSUME "FIN" \in q[1].flags
      PROVE  fin /\ q[1].len = 0 /\ q[1].pos = s /\ \A i \in 1 .. Len(r) : Quiet(r[i])
  <2>1. 1 \in 1 .. Len(q) /\ \A i \in 1 .. Len(r) : i + 1 \in 1 + 1 .. Len(q)
    BY <1>1, SMTT(30)
  <2>2. fin /\ q[1].len = 0 /\ q[1].pos = s /\ \A j \in 1 + 1 .. Len(q) : Quiet(q[j])
    BY <1>3, <2>1 DEF FinQueue
  <2> QED
    BY <1>1, <2>1, <2>2
<1>4. FinQueue(r, s, fin)
  BY <1>2 DEF FinQueue
<1> QED
  BY <1>3, <1>4 DEF r

\* What is left of a sequence was in it.
LEMMA TailMembers ==
    ASSUME NEW S, NEW q \in Seq(S), q # <<>>
    PROVE  \A i \in 1 .. Len(Tail(q)) : \E j \in 1 .. Len(q) : Tail(q)[i] = q[j]
  BY Members

\* The same for a queue of packets of which the first is taken.
LEMMA TakenMembers ==
    ASSUME NEW q \in Seq(Packet), q # <<>>, NEW r, r = Tail(q)
    PROVE  \A i \in 1 .. Len(r) : \E j \in 1 .. Len(q) : r[i] = q[j]
  BY TailMembers

\* What stcp_network_send() does to the packets on their way.
LEMMA SendFacts ==
    ASSUME TypeOK, NEW e \in Ends, NEW ps \in Seq(Packet), Send(e, ps)
    PROVE  /\ inbound' \in [Ends -> Seq(Packet)]
           /\ inbound'[e] = inbound[e]
           /\ Gone(Peer(e)) => inbound'[Peer(e)] = inbound[Peer(e)]
           /\ ~Gone(Peer(e)) => inbound'[Peer(e)] = inbound[Peer(e)] \o ps
           /\ \A x \in Ends : Len(inbound[x]) <= Len(inbound'[x])
<1>1. inbound[e] \in Seq(Packet) /\ inbound[Peer(e)] \in Seq(Packet) /\ Peer(e) \in Ends
  BY PeerFacts DEF TypeOK
<1>2. inbound[Peer(e)] \o ps \in Seq(Packet) /\ Len(inbound[Peer(e)] \o ps) >= Len(inbound[Peer(e)])
  BY <1>1, ConcatFacts, SMTT(30)
<1>3. inbound' \in [Ends -> Seq(Packet)]
  <2> DEFINE v == IF Gone(Peer(e)) THEN inbound[Peer(e)] ELSE inbound[Peer(e)] \o ps
  <2>1. v \in Seq(Packet)
    BY <1>1, <1>2
  <2>2. inbound' = [inbound EXCEPT ![Peer(e)] = v]
    BY DEF Send
  <2> HIDE DEF v
  <2> QED
    BY <1>1, <2>1, <2>2 DEF TypeOK
<1>4. /\ inbound'[e] = inbound[e]
      /\ Gone(Peer(e)) => inbound'[Peer(e)] = inbound[Peer(e)]
      /\ ~Gone(Peer(e)) => inbound'[Peer(e)] = inbound[Peer(e)] \o ps
  BY PeerFacts DEF Send, TypeOK
<1>5. ASSUME NEW x \in Ends PROVE Len(inbound[x]) <= Len(inbound'[x])
  <2>1. CASE x = e
    BY <1>1, <1>4, <2>1, SMTT(30)
  <2>2. CASE x = Peer(e)
    BY <1>1, <1>2, <1>4, <2>2, SMTT(30)
  <2> QED
    BY <2>1, <2>2, PeerFacts
<1> QED
  BY <1>3, <1>4, <1>5

\* What stcp_network_recv() and an answer do to the packets on their way.
LEMMA TakeFacts ==
    ASSUME TypeOK, NEW e \in Ends, NEW ps \in Seq(Packet), arrived[e] > 0,
           TakeAndSend(e, ps)
    PROVE  /\ inbound' \in [Ends -> Seq(Packet)] /\ arrived' \in [Ends -> Nat]
           /\ \A x \in Ends : arrived'[x] <= Len(inbound'[x])
           /\ inbound[e] # <<>> /\ inbound[e][1] \in Packet
           /\ Head(inbound[e]) = inbound[e][1]
           /\ inbound'[e] = Tail(inbound[e])
           /\ Gone(Peer(e)) => inbound'[Peer(e)] = inbound[Peer(e)]
           /\ ~Gone(Peer(e)) => inbound'[Peer(e)] = inbound[Peer(e)] \o ps
           /\ arrived'[Peer(e)] = arrived[Peer(e)]
           /\ arrived'[e] = arrived[e] - 1
<1> DEFINE v == IF Gone(Peer(e)) THEN inbound[Peer(e)] ELSE inbound[Peer(e)] \o ps
<1>1. /\ inbound[e] \in Seq(Packet) /\ inbound[Peer(e)] \in Seq(Packet)
      /\ arrived[e] \in Nat /\ arrived[Peer(e)] \in Nat
      /\ arrived[e] <= Len(inbound[e]) /\ arrived[Peer(e)] <= Len(inbound[Peer(e)])
      /\ Peer(e) \in Ends /\ Peer(e) # e
  BY PeerFacts DEF TypeOK
<1>2. /\ inbound[e] # <<>> /\ Tail(inbound[e]) \in Seq(Packet) /\ inbound[e][1] \in Packet
      /\ Len(Tail(inbound[e])) = Len(inbound[e]) - 1 /\ Head(inbound[e]) = inbound[e][1]
  BY <1>1, SMTT(30)
<1>3. v \in Seq(Packet) /\ Len(v) >= Len(inbound[Peer(e)])
  BY <1>1, ConcatFacts, SMTT(30)
<1>4. inbound' = [inbound EXCEPT ![e] = Tail(inbound[e]), ![Peer(e)] = v]
  BY DEF TakeAndSend
<1>5. arrived' = [arrived EXCEPT ![e] = arrived[e] - 1]
  BY DEF TakeAndSend
<1> HIDE DEF v
<1>6. inbound' \in [Ends -> Seq(Packet)] /\ inbound'[e] = Tail(inbound[e]) /\ inbound'[Peer(e)] = v
  BY <1>1, <1>2, <1>3, <1>4 DEF TypeOK
<1>7. arrived' \in [Ends -> Nat] /\ arrived'[e] = arrived[e] - 1 /\ arrived'[Peer(e)] = arrived[Peer(e)]
  <2> DEFINE n == arrived[e] - 1
  <2>1. n \in Nat /\ arrived' = [arrived EXCEPT ![e] = n]
    BY <1>1, <1>5, SMTT(30)
  <2> HIDE DEF n
  <2>2. arrived' \in [Ends -> Nat] /\ arrived'[e] = n /\ arrived'[Peer(e)] = arrived[Peer(e)]
    BY <1>1, <2>1 DEF TypeOK
  <2> QED
    BY <2>2 DEF n
<1>8. ASSUME NEW x \in Ends PROVE arrived'[x] <= Len(inbound'[x])
  <2>1. CASE x = e
    BY <1>1, <1>2, <1>6, <1>7, <2>1, SMTT(30)
  <2>2. CASE x = Peer(e)
    BY <1>1, <1>3, <1>6, <1>7, <2>2, SMTT(30)
  <2> QED
    BY <2>1, <2>2, PeerFacts
<1>9. (Gone(Peer(e)) => v = inbound[Peer(e)]) /\ (~Gone(Peer(e)) => v = inbound[Peer(e)] \o ps)
  BY DEF v
<1> QED
  BY <1>2, <1>6, <1>7, <1>8, <1>9

\* The packets to x when its peer, which is not gone, sends packet p.
LEMMA FlowSend ==
    ASSUME Inv, NEW x \in Ends, NEW p \in Packet, ~Gone(Peer(x)),
           p # Hangup, p.pos = sent[Peer(x)], sent'[Peer(x)] = sent[Peer(x)] + p.len,
           accepted'[x] = accepted[x],
           inbound'[x] = IF Gone(x) THEN inbound[x] ELSE Append(inbound[x], p),
           Gone(x)' <=> Gone(x), ~Gone(Peer(x))'
    PROVE  FlowInv(x)'
<1>1. /\ FlowInv(x) /\ inbound[x] \in Seq(Packet) /\ accepted[x] \in Nat /\ sent[Peer(x)] \in Nat
      /\ p.len \in Nat
  BY EndFacts, PeerFacts DEF Packet
<1> DEFINE t == sent'[Peer(x)]
<1>2. t \in Nat /\ t = sent[Peer(x)] + p.len
  BY <1>1, SMTT(30)
<1> HIDE DEF t
<1>3. CASE Gone(x)
  BY <1>1, <1>2, <1>3, SMTT(30) DEF FlowInv, t
<1>4. CASE ~Gone(x)
  <2>1. Flow(inbound[x], accepted[x], sent[Peer(x)], FALSE) /\ accepted[x] <= sent[Peer(x)]
    BY <1>1, <1>4 DEF FlowInv, Flow
  <2>2. Flow(Append(inbound[x], p), accepted[x], t, FALSE)
    BY <1>1, <1>2, <2>1, FlowAppend
  <2>3. accepted[x] <= t
    BY <1>1, <1>2, <2>1, SMTT(30)
  <2> QED
    BY <1>4, <2>2, <2>3 DEF FlowInv, Flow, t
<1> QED
  BY <1>3, <1>4

\* The packets to x when its peer does not send.
LEMMA FlowReceive ==
    ASSUME Inv, NEW x \in Ends, inbound[x] # <<>>, inbound'[x] = Tail(inbound[x]),
           sent'[Peer(x)] = sent[Peer(x)],
           accepted'[x] = IF inbound[x][1] = Hangup THEN accepted[x]
                          ELSE accepted[x] + inbound[x][1].len,
           Gone(x)' <=> Gone(x), Gone(Peer(x))' <=> Gone(Peer(x))
    PROVE  FlowInv(x)'
<1>1. /\ FlowInv(x) /\ inbound[x] \in Seq(Packet) /\ accepted[x] \in Nat /\ sent[Peer(x)] \in Nat
      /\ inbound[x][1].len \in Nat
  <2>1. inbound[x] \in Seq(Packet) /\ FlowInv(x) /\ accepted[x] \in Nat /\ sent[Peer(x)] \in Nat
    BY EndFacts, PeerFacts
  <2>2. inbound[x][1] \in Packet
    BY <2>1, TailFacts
  <2> QED
    BY <2>1, <2>2 DEF Packet
<1> DEFINE b == accepted'[x]
           over == Gone(Peer(x))
<1>2. b \in Nat /\ over \in BOOLEAN
  BY <1>1, SMTT(30) DEF Gone
<1>3. /\ ~Gone(x) /\ Flow(inbound[x], accepted[x], sent[Peer(x)], over)
      /\ accepted[x] <= sent[Peer(x)]
  BY <1>1 DEF FlowInv
<1> HIDE DEF b, over
<1>4. b = IF inbound[x][1] = Hangup THEN accepted[x] ELSE accepted[x] + inbound[x][1].len
  BY DEF b
<1>5. Flow(Tail(inbound[x]), b, sent[Peer(x)], over) /\ b <= sent[Peer(x)]
  BY <1>1, <1>2, <1>3, <1>4, FlowTake, SMTT(30)
<1> QED
  BY <1>3, <1>5 DEF FlowInv, Flow, b, over

\* The numbers in the packets to x after a step that adds at most packet p.
LEMMA PacketStep ==
    ASSUME Inv, NEW x \in Ends, NEW p,
           Isn(x)' = Isn(x), Isn(Peer(x))' = Isn(Peer(x)),
           Acked(Peer(x))' \in Nat, Acked(Peer(x)) <= Acked(Peer(x))',
           PacketOK(p, Isn(x), Isn(Peer(x)), Acked(Peer(x))'),
           \A i \in 1 .. Len(inbound'[x]) :
              inbound'[x][i] = p \/ \E j \in 1 .. Len(inbound[x]) : inbound'[x][i] = inbound[x][j]
    PROVE  PacketInv(x)'
<1> DEFINE m == Acked(Peer(x))
           n == Acked(Peer(x))'
<1>1. PacketInv(x) /\ m \in Nat /\ n \in Nat /\ m <= n
  BY EndFacts, PeerFacts
<1>2. \A i \in 1 .. Len(inbound[x]) : PacketOK(inbound[x][i], Isn(x), Isn(Peer(x)), m)
  BY <1>1 DEF PacketInv
<1> HIDE DEF m, n
<1>3. \A k \in 0 .. m : k \in 0 .. n
  BY <1>1, SMTT(30)
<1>4. \A i \in 1 .. Len(inbound[x]) : PacketOK(inbound[x][i], Isn(x), Isn(Peer(x)), n)
  BY <1>2, <1>3 DEF PacketOK
<1>5. PacketOK(p, Isn(x), Isn(Peer(x)), n)
  BY DEF n
<1>6. \A i \in 1 .. Len(inbound'[x]) : PacketOK(inbound'[x][i], Isn(x), Isn(Peer(x)), n)
  BY <1>4, <1>5
<1> QED
  BY <1>6 DEF PacketInv, n

\* The queue of x when packet p is sent to it.
LEMMA AppendedFacts ==
    ASSUME NEW x, NEW p \in Packet, inbound[x] \in Seq(Packet),
           inbound'[x] = IF Gone(x) THEN inbound[x] ELSE Append(inbound[x], p)
    PROVE  /\ inbound[x] # <<>> => inbound'[x] # <<>> /\ inbound'[x][1] = inbound[x][1]
           /\ \A i \in 1 .. Len(inbound'[x]) :
                 inbound'[x][i] = p \/ \E j \in 1 .. Len(inbound[x]) : inbound'[x][i] = inbound[x][j]
<1> DEFINE q == inbound[x]
           r == Append(q, p)
<1>1. /\ q \in Seq(Packet) /\ Len(q) \in Nat /\ r = Append(q, p)
      /\ inbound'[x] = IF Gone(x) THEN q ELSE r
  BY SMTT(30)
<1> HIDE DEF q, r
<1>2. r \in Seq(Packet) /\ Len(r) = Len(q) + 1 /\ \A i \in 1 .. Len(q) : r[i] = q[i]
  BY <1>1, AppendFacts, SMTT(30)
<1>3. \A i \in 1 .. Len(r) : r[i] = p \/ \E j \in 1 .. Len(q) : r[i] = q[j]
  BY <1>1, Members, SMTT(30)
<1>4. q # <<>> => r # <<>> /\ r[1] = q[1]
  <2>1. (q # <<>> => Len(q) # 0) /\ (r = <<>> => Len(r) = 0)
    BY <1>1, <1>2, EmptyFacts
  <2> QED
    BY <1>1, <1>2, <2>1, SMTT(30)
<1>5. CASE Gone(x)
  BY <1>1, <1>5 DEF q
<1>6. CASE ~Gone(x)
  BY <1>1, <1>3, <1>4, <1>6 DEF q
<1> QED
  BY <1>5, <1>6

\* stcp_network_send() of one packet.
LEMMA SendOne ==
    ASSUME Inv, NEW e \in Ends, NEW p \in Packet, Send(e, <<p>>)
    PROVE  /\ inbound' \in [Ends -> Seq(Packet)]
           /\ \A x \in Ends : Len(inbound[x]) <= Len(inbound'[x])
           /\ inbound'[e] = inbound[e]
           /\ inbound'[Peer(e)] = IF Gone(Peer(e)) THEN inbound[Peer(e)]
                                  ELSE Append(inbound[Peer(e)], p)
<1> DEFINE ps == <<p>>
<1>1. Send(e, ps) /\ ps \in Seq(Packet) /\ inbound[Peer(e)] \o ps = Append(inbound[Peer(e)], p)
  BY EndFacts, PeerFacts, SMTT(30)
<1>2. TypeOK
  BY DEF Inv
<1> HIDE DEF ps
<1> QED
  BY <1>1, <1>2, SendFacts

\* stcp_network_recv() and at most one packet in return.
LEMMA TakeOne ==
    ASSUME Inv, NEW e \in Ends, NEW p \in Packet, NEW ps, ps = <<>> \/ ps = <<p>>,
           arrived[e] > 0, TakeAndSend(e, ps)
    PROVE  /\ inbound' \in [Ends -> Seq(Packet)] /\ arrived' \in [Ends -> Nat]
           /\ \A x \in Ends : arrived'[x] <= Len(inbound'[x])
           /\ inbound[e] # <<>> /\ inbound[e][1] \in Packet
           /\ Head(inbound[e]) = inbound[e][1]
           /\ inbound'[e] = Tail(inbound[e])
           /\ ps = <<>> => inbound'[Peer(e)] = inbound[Peer(e)]
           /\ ps = <<p>> => inbound'[Peer(e)] = IF Gone(Peer(e)) THEN inbound[Peer(e)]
                                                ELSE Append(inbound[Peer(e)], p)
           /\ arrived'[Peer(e)] = arrived[Peer(e)]
<1> DEFINE q == inbound[Peer(e)]
<1>1. /\ ps \in Seq(Packet) /\ TypeOK
      /\ ps = <<>> => q \o ps = q
      /\ ps = <<p>> => q \o ps = Append(q, p)
  <2>1. q \in Seq(Packet) /\ TypeOK
    BY EndFacts, PeerFacts DEF Inv
  <2> HIDE DEF q
  <2>2. q \o <<>> = q /\ q \o <<p>> = Append(q, p)
    BY <2>1, SMTT(30)
  <2>3. <<>> \in Seq(Packet) /\ <<p>> \in Seq(Packet)
    BY EmptyFacts, SingletonFacts
  <2> QED
    BY <2>1, <2>2, <2>3
<1>2. /\ Gone(Peer(e)) => inbound'[Peer(e)] = q
      /\ ~Gone(Peer(e)) => inbound'[Peer(e)] = q \o ps
  BY <1>1, TakeFacts
<1>3. /\ ps = <<>> => inbound'[Peer(e)] = q
      /\ ps = <<p>> => inbound'[Peer(e)] = IF Gone(Peer(e)) THEN q ELSE Append(q, p)
  BY <1>1, <1>2
<1> QED
  BY <1>1, <1>3, TakeFacts

\* FINs and what follows them when the peer of x sends an ACK.
LEMMA FinSend ==
    ASSUME Inv, NEW x \in Ends, NEW p \in Packet, Quiet(p),
           inbound'[x] = IF Gone(x) THEN inbound[x] ELSE Append(inbound[x], p),
           accepted'[x] = accepted[x], sent'[Peer(x)] = sent[Peer(x)], ctx'[x] = ctx[x],
           ctx'[Peer(x)].fin_sent = ctx[Peer(x)].fin_sent,
           ctx[Peer(x)].fin_received => ctx'[Peer(x)].fin_received
    PROVE  FinInv(x)'
<1>1. FinInv(x) /\ inbound[x] \in Seq(Packet)
  BY EndFacts
<1>2. CASE Gone(x)
  BY <1>1, <1>2, KeepFin
<1>3. CASE ~Gone(x)
  <2>1. FinQueue(inbound'[x], sent[Peer(x)], ctx[Peer(x)].fin_sent)
    BY <1>1, <1>3, FinAppendQuiet DEF FinInv
  <2>2. (\A i \in 1 .. Len(inbound[x]) : Quiet(inbound[x][i])) =>
           \A i \in 1 .. Len(inbound'[x]) : Quiet(inbound'[x][i])
    BY <1>1, AppendedFacts
  <2> QED
    BY <1>1, <2>1, <2>2 DEF FinInv
<1> QED
  BY <1>2, <1>3

\* What is left when a packet is taken ends where it ended.
LEMMA HangupTake ==
    ASSUME NEW q \in Seq(Packet), q # <<>>, NEW late, HangupLast(q, late)
    PROVE  /\ HangupLast(Tail(q), late)
           /\ q[1] = Hangup /\ ~late => Tail(q) = <<>>
<1> DEFINE r == Tail(q)
<1>1. /\ r \in Seq(Packet) /\ Len(q) > 0 /\ Len(q) \in Nat /\ Len(r) = Len(q) - 1 /\ Len(r) \in Nat
      /\ \A i \in 1 .. Len(r) : r[i] = q[i + 1]
  BY TailFacts, SMTT(30)
<1> HIDE DEF r
<1>2. HangupLast(r, late)
  <2>1. \A i \in 1 .. Len(r) - 1 : i \in 1 .. Len(r) /\ i + 1 \in 1 .. Len(q) - 1
    BY <1>1, SMTT(30)
  <2> QED
    BY <1>1, <2>1 DEF HangupLast
<1>3. ASSUME q[1] = Hangup, ~late PROVE r = <<>>
  <2>1. 1 \notin 1 .. Len(q) - 1
    BY <1>3 DEF HangupLast
  <2>2. Len(r) = 0
    BY <1>1, <2>1, SMTT(30)
  <2> QED
    BY <1>1, <2>2, EmptyFacts
<1> QED
  BY <1>2, <1>3 DEF r

\* An end that a step leaves alone.
LEMMA KeepClose ==
    ASSUME NEW x \in Ends, CloseEnd(x), ctx'[x] = ctx[x], inbound'[x] = inbound[x],
           thread'[x] = thread[x], app'[x] = app[x], result'[x] = result[x],
           app_recv_queue'[x] = app_recv_queue[x],
           ctx'[Peer(x)].fin_received = ctx[Peer(x)].fin_received,
           app[Peer(x)] = "killed" => app'[Peer(x)] = "killed",
           Gone(Peer(x)) => Gone(Peer(x))'
    PROVE  CloseEnd(x)'
<1>1. Opening(x)' => Opening(x)
  BY DEF Opening
<1>2. StateInv(x)'
  BY <1>1, KeepState DEF CloseEnd
<1>3. ResultInv(x)'
  BY KeepResult DEF CloseEnd
<1>4. SynMayBeLate(x)' = SynMayBeLate(x)
  BY DEF SynMayBeLate, Unanswered
<1>5. LastAck(inbound'[x], ctx'[x], ctx'[Peer(x)].fin_received)
  BY DEF CloseEnd
<1>6. HangupLast(inbound'[x], SynMayBeLate(x)')
  BY <1>4 DEF CloseEnd
<1>7. \A i \in 1 .. Len(app_recv_queue'[x]) : app_recv_queue'[x][i].len > 0
  BY DEF CloseEnd
<1> QED
  BY <1>2, <1>3, <1>5, <1>6, <1>7 DEF CloseEnd

\* stcp_wait_for_event(), the receive thread and myread() do not matter here.
LEMMA CloseStutter ==
    ASSUME CloseInv, UNCHANGED <<ctx, inbound, thread, app, result, app_recv_queue>>
    PROVE  CloseInv'
<1>1. AnswerInv'
  BY KeepAnswer DEF CloseInv
<1>2. ASSUME NEW x \in Ends PROVE CloseEnd(x)'
  <2>1. CloseEnd(x) /\ (Gone(Peer(x)) => Gone(Peer(x))')
    BY DEF CloseInv, Gone
  <2> QED
    BY <2>1, KeepClose
<1> QED
  BY <1>1, <1>2 DEF CloseInv
=============================================================================
