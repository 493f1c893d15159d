---------------------------- MODULE StcpProofs ------------------------------
(***************************************************************************)
(* Proofs about Stcp: both invariants are inductive, what follows from them,*)
(* and that the implementation refines the byte stream, for every value of *)
(* the constants.                                                          *)
(***************************************************************************)
EXTENDS StcpLoop, StcpOpen, StcpRefinement

USE ZenonT(20)

-----------------------------------------------------------------------------
(* All steps together.                                                     *)

\* The initial state is well formed.
LEMMA InitType == Init => TypeOK
  BY NewContextType, ConstantFacts, SMTT(30) DEF Init, TypeOK, Ends, SeqNums

\* Before the first call the invariant holds.
LEMMA InitInv == Init => Inv
<1> SUFFICES ASSUME Init PROVE Inv
  OBVIOUS
<1>1. TypeOK
  BY InitType
<1>2. /\ \A e \in Ends : /\ thread[e] = "none" /\ event[e] = {} /\ inbound[e] = <<>>
                         /\ app_recv_queue[e] = <<>> /\ app_send_queue[e] = <<>>
                         /\ close_requested[e] = FALSE /\ eof[e] = FALSE
                         /\ written[e] = 0 /\ sent[e] = 0 /\ accepted[e] = 0 /\ taken[e] = 0
      /\ app["active"] = "idle" /\ app["passive"] # "idle"
  BY PeerFacts DEF Init
<1>3. \A e \in Ends : /\ ~ctx[e].fin_sent /\ ~ctx[e].fin_received /\ ~ctx[e].fin_acked
                      /\ ctx[e].connection_state = "CLOSED"
  BY DEF Init, NewContext
<1>4. OpenInv
  <2>1. "active" \in Ends /\ "passive" \in Ends
    BY DEF Ends
  <2>2. \A i \in 1 .. Len(<<>>) : FALSE
    BY SMTT(30)
  <2>3. \A i \in 1 .. Len(inbound["active"]) : FALSE
    BY <1>2, <2>1, <2>2
  <2>4. \A i \in 1 .. Len(inbound["passive"]) : FALSE
    BY <1>2, <2>1, <2>2
  <2> QED
    BY <1>2, <1>3, <2>1, <2>3, <2>4 DEF OpenInv, Gone, Unanswered
<1>5. ASSUME NEW e \in Ends PROVE EndInv(e)
  <2>0. Peer(e) \in Ends /\ (e = "active" \/ e = "passive")
    BY PeerFacts DEF Ends
  <2>1. EventInv(e)
    BY <1>2, <2>0 DEF EventInv
  <2>2. NumberInv(e)
    BY <1>2 DEF NumberInv, Synced
  <2>3. WriteInv(e) /\ ReadInv(e)
    BY <1>2, <1>3, SMTT(60) DEF WriteInv, ReadInv, Covers
  <2>4. FlowInv(e)
    BY <1>2, <2>0, SMTT(30) DEF FlowInv, Flow, Reached
  <2>5. PacketInv(e)
    BY <1>2, SMTT(30) DEF PacketInv
  <2>6. FinInv(e)
    BY <1>2, <1>3, SMTT(60) DEF FinInv, FinQueue, FinStates
  <2> QED
    BY <2>1, <2>2, <2>3, <2>4, <2>5, <2>6 DEF EndInv
<1> QED
  BY <1>1, <1>4, <1>5 DEF Inv

\* A step that changes no variable keeps the invariant.
LEMMA StutterStep == Inv /\ UNCHANGED vars => Inv'
<1> SUFFICES ASSUME Inv, UNCHANGED vars PROVE Inv'
  OBVIOUS
<1>1. UNCHANGED <<ctx, thread, event, inbound, arrived, app_recv_queue, app_send_queue,
                  close_requested, result, eof, app, written, sent, accepted, taken>>
  BY DEF vars, connVars, netVars, queueVars, sockVars, countVars
<1>2. TypeOK /\ OpenInv /\ \A e \in Ends : Gone(e)' = Gone(e) /\ Isn(e)' = Isn(e)
  BY <1>1 DEF Inv, Gone, Isn
<1>3. TypeOK' /\ OpenInv'
  BY <1>1, <1>2 DEF TypeOK, OpenInv, Opening, Unanswered, Gone
<1>4. ASSUME NEW e \in Ends PROVE EndInv(e)'
  <2>1. /\ FlowInv(e) /\ PacketInv(e) /\ FinInv(e)
        /\ Isn(Peer(e))' = Isn(Peer(e)) /\ Gone(Peer(e))' = Gone(Peer(e))
    BY <1>2, EndFacts
  <2>2. EventInv(e)' /\ NumberInv(e)' /\ WriteInv(e)' /\ ReadInv(e)'
    BY <1>1, <2>1, KeepEnd
  <2>3. FlowInv(e)'
    BY <1>1, <1>2, <2>1, KeepFlow
  <2>4. PacketInv(e)'
    BY <1>1, <1>2, <2>1, KeepPacket
  <2>5. FinInv(e)'
    BY <1>1, <2>1, KeepFin
  <2> QED
    BY <2>2, <2>3, <2>4, <2>5 DEF EndInv
<1> QED
  BY <1>3, <1>4 DEF Inv

\* Every step of either end, of its threads or of its application keeps the
\* invariant.
LEMMA NextInv == Inv /\ [Next]_vars => Inv'
<1> SUFFICES ASSUME Inv, [Next]_vars PROVE Inv'
  OBVIOUS
<1>1. CASE MyConnect
  BY <1>1, MyConnectStep
<1>2. CASE Handshake
  BY <1>2, InitActiveStep, DispatchStep, InitPassiveStep, HandshakeSynSentStep,
     HandshakeListenStep, HandshakeSynRcvdStep DEF Handshake
<1>3. ASSUME NEW e \in Ends, ControlLoop(e) PROVE Inv'
  BY <1>3, WaitForEventStep, HandleAppDataStep, HandleHangupStep, HandleSegmentStep,
     HandleCloseStep, ThreadExitStep DEF ControlLoop
<1>4. ASSUME NEW e \in Ends, Application(e) PROVE Inv'
  BY <1>4, MyWriteStep, MyReadStep, MyCloseStep DEF Application
<1>5. ASSUME NEW e \in Ends, ReceiveThread(e) PROVE Inv'
  BY <1>5, ReceiveThreadStep
<1>6. ASSUME NEW e \in Ends, OpenReturns(e) PROVE Inv'
  BY <1>6, OpenReturnsStep
<1>7. ASSUME NEW e \in Ends, MyCloseReturns(e) PROVE Inv'
  BY <1>7, MyCloseReturnsStep
<1>8. ASSUME NEW e \in Ends, Kill(e) PROVE Inv'
  BY <1>8, KillStep
<1>9. CASE UNCHANGED vars
  BY <1>9, StutterStep
<1> QED
  BY <1>1, <1>2, <1>3, <1>4, <1>5, <1>6, <1>7, <1>8, <1>9 DEF Next

\* Before myconnect() nothing has begun.
LEMMA InitClose == Init => CloseInv
<1> SUFFICES ASSUME Init PROVE CloseInv
  OBVIOUS
<1>1. \A e \in Ends : /\ thread[e] = "none" /\ inbound[e] = <<>> /\ app_recv_queue[e] = <<>>
                      /\ result[e] = "blocking" /\ ctx[e] = NewContext(0)
                      /\ app[e] \in {"idle", "accepting", "killed"}
                      /\ e = "passive" => app[e] # "idle"
  BY DEF Init
<1>2. \A e \in Ends : /\ ~ctx[e].fin_acked /\ ~ctx[e].done /\ ~ctx[e].fin_received
                      /\ ctx[e].connection_state = "CLOSED"
  BY <1>1, SMTT(30) DEF NewContext
<1>3. "active" \in Ends /\ "passive" \in Ends
  BY PeerFacts
<1>4. AnswerInv
  BY <1>1, <1>2, <1>3 DEF AnswerInv
<1>5. ASSUME NEW e \in Ends PROVE CloseEnd(e)
  <2>1. StateInv(e)
    BY <1>1, <1>2 DEF StateInv
  <2>2. ResultInv(e)
    BY <1>1, <1>2 DEF ResultInv
  <2>3. (\A i \in 1 .. Len(inbound[e]) : FALSE) /\ (\A i \in 1 .. Len(inbound[e]) - 1 : FALSE)
        /\ (\A i \in 1 .. Len(app_recv_queue[e]) : FALSE)
    BY <1>1, SMTT(30)
  <2>4. /\ LastAck(inbound[e], ctx[e], ctx[Peer(e)].fin_received)
        /\ HangupLast(inbound[e], SynMayBeLate(e))
    BY <2>3 DEF LastAck, HangupLast
  <2> QED
    BY <2>1, <2>2, <2>3, <2>4 DEF CloseEnd
<1> QED
  BY <1>4, <1>5 DEF CloseInv

\* stcp_wait_for_event(), the receive thread, myread() and a step that changes
\* nothing leave alone what the second invariant is about.
LEMMA QuietClose ==
    ASSUME CloseInv, \/ \E e \in Ends : WaitForEvent(e) \/ ReceiveThread(e) \/ MyRead(e)
                     \/ UNCHANGED vars
    PROVE  CloseInv'
<1>1. ASSUME NEW e \in Ends, WaitForEvent(e) PROVE CloseInv'
  <2>1. UNCHANGED <<ctx, inbound, thread, app, result, app_recv_queue>>
    BY <1>1 DEF WaitForEvent, netVars, queueVars
  <2> QED
    BY <2>1, CloseStutter
<1>2. ASSUME NEW e \in Ends, ReceiveThread(e) PROVE CloseInv'
  <2>1. UNCHANGED <<ctx, inbound, thread, app, result, app_recv_queue>>
    BY <1>2 DEF ReceiveThread, connVars, queueVars, sockVars
  <2> QED
    BY <2>1, CloseStutter
<1>3. ASSUME NEW e \in Ends, MyRead(e) PROVE CloseInv'
  <2>1. UNCHANGED <<ctx, inbound, thread, app, result, app_recv_queue>>
    BY <1>3 DEF MyRead, connVars, netVars, sockVars
  <2> QED
    BY <2>1, CloseStutter
<1>4. CASE UNCHANGED vars
  <2>1. UNCHANGED <<ctx, inbound, thread, app, result, app_recv_queue>>
    BY <1>4 DEF vars, connVars, netVars, queueVars, sockVars, countVars
  <2> QED
    BY <2>1, CloseStutter
<1> QED
  BY <1>1, <1>2, <1>3, <1>4

\* Every step between two states with the first invariant keeps the second one.
LEMMA NextClose == Inv /\ Inv' /\ CloseInv /\ [Next]_vars => CloseInv'
<1> SUFFICES ASSUME Inv, Inv', CloseInv, [Next]_vars PROVE CloseInv'
  OBVIOUS
<1>1. CASE MyConnect
  BY <1>1, MyConnectClose
<1>2. CASE Handshake
  BY <1>2, InitActiveClose, DispatchClose, InitPassiveClose,
     HandshakeSynSentClose, HandshakeListenClose, HandshakeSynRcvdClose DEF
     Handshake
<1>3. ASSUME NEW e \in Ends, ControlLoop(e) PROVE CloseInv'
  BY <1>3, QuietClose, HandleAppDataClose, HandleHangupClose,
     HandleSegmentClose, HandleCloseClose, ThreadExitClose DEF ControlLoop
<1>4. ASSUME NEW e \in Ends, Application(e) PROVE CloseInv'
  BY <1>4, QuietClose, MyWriteClose, MyCloseClose DEF Application
<1>5. ASSUME NEW e \in Ends, ReceiveThread(e) \/ OpenReturns(e) \/ MyCloseReturns(e) \/ Kill(e)
      PROVE  CloseInv'
  BY <1>5, QuietClose, OpenReturnsClose, MyCloseReturnsClose, KillClose
<1>6. CASE UNCHANGED vars
  BY <1>6, QuietClose
<1> QED
  BY <1>1, <1>2, <1>3, <1>4, <1>5, <1>6 DEF Next

-----------------------------------------------------------------------------
(* The theorems.                                                           *)

\* The inductive invariant: the numbers, queues and packets of both ends agree
\* in every state that the handshake, control_loop(), the receive threads, the
\* socket calls and crashes reach.
THEOREM Invariance == Spec => []Inv
  BY InitInv, NextInv, PTL DEF Spec

\* Every variable keeps its type, whatever the sizes, windows and initial
\* numbers are.
THEOREM TypeCorrect == Spec => []TypeOK
<1>1. Inv => TypeOK
  BY DEF Inv
<1> QED
  BY <1>1, Invariance, PTL

\* myread() returns the bytes that the peer passed to mywrite(), in order and
\* without a gap, for every write, read and packet size.
THEOREM Delivery == Spec => []DeliveredInOrder
<1>1. Inv => DeliveredInOrder
  BY DEF Inv, EndInv, DeliveredInOrder, WriteInv, ReadInv, FlowInv
<1> QED
  BY <1>1, Invariance, PTL

\* The end-of-file that the FIN of the peer causes comes after all its data.
THEOREM EofAfterData == Spec => []CleanEof
<1>1. Inv => CleanEof
  <2> SUFFICES ASSUME Inv, NEW e \in Ends, eof[e], ctx[e].fin_received
               PROVE  /\ taken[e] = written[Peer(e)]
                      /\ app[Peer(e)] \in {"closing", "closed", "killed"}
    BY DEF CleanEof
  <2>1. ReadInv(e) /\ FinInv(e) /\ WriteInv(Peer(e))
    BY EndFacts, PeerFacts
  <2> QED
    BY <2>1 DEF ReadInv, FinInv, WriteInv
<1> QED
  BY <1>1, Invariance, PTL

\* An ACK that control_loop() takes for the ACK of its FIN is one: numbers that
\* wrap around do not make an older ACK pass for it.
THEOREM FinAcknowledged == Spec => []FinAckSound
<1>1. Inv => FinAckSound
  <2> SUFFICES ASSUME Inv, NEW e \in Ends, ctx[e].fin_acked
               PROVE  ctx[Peer(e)].fin_received /\ accepted[Peer(e)] = written[e]
    BY DEF FinAckSound
  <2>1. FinInv(e) /\ FinInv(Peer(e)) /\ WriteInv(e) /\ Peer(Peer(e)) = e
    BY EndFacts, PeerFacts
  <2> QED
    BY <2>1 DEF FinInv, WriteInv
<1> QED
  BY <1>1, Invariance, PTL

\* Data never reaches control_loop() out of order, so that none is dropped.
THEOREM InSequence == Spec => []NeverOutOfOrder
<1>1. Inv => NeverOutOfOrder
  <2> SUFFICES ASSUME Inv, NEW e \in Ends, thread[e] = "loop", arrived[e] > 0,
                      Head(inbound[e]).len > 0
               PROVE  PassedUp(ctx[e], Head(inbound[e]))
    BY DEF NeverOutOfOrder
  <2> DEFINE p == Head(inbound[e])
  <2>1. /\ EventInv(e) /\ NumberInv(e) /\ FlowInv(e) /\ PacketInv(e) /\ FinInv(e)
        /\ ctx[e] \in Context /\ Isn(Peer(e)) \in Nat /\ accepted[e] \in Nat
    BY EndFacts, PeerFacts
  <2>2. inbound[e] \in Seq(Packet) /\ inbound[e] # <<>>
    <3>1. inbound[e] \in Seq(Packet) /\ arrived[e] \in Nat /\ arrived[e] <= Len(inbound[e])
      BY EndFacts
    <3> QED
      BY <3>1, SMTT(30)
  <2>3. p = inbound[e][1] /\ p \in Packet /\ 1 \in 1 .. Len(inbound[e])
    BY <2>2, TailFacts, SMTT(30)
  <2>4. ~Gone(e) /\ p.len \in Nat
    BY <2>1, <2>3 DEF EventInv, Packet
  <2>5. p # Hangup
    BY HangupFacts, SMTT(30)
  <2> HIDE DEF p
  <2>6. p.pos = accepted[e]
    BY <2>1, <2>3, <2>4, <2>5 DEF FlowInv, Flow, Reached
  <2>7. p.seq = Wrap(Isn(Peer(e)) + 1 + accepted[e])
    BY <2>1, <2>3, <2>6 DEF PacketInv, PacketOK, p
  <2>8. ctx[e].fin_received = FALSE
    <3>1. ctx[e].fin_received \in BOOLEAN
      BY <2>1 DEF Context
    <3>2. p.len # 0
      BY <2>4, SMTT(30) DEF p
    <3> QED
      BY <2>1, <2>3, <3>1, <3>2 DEF FinInv, Quiet
  <2>9. Acked(e) = accepted[e]
    BY <2>1, <2>8, SMTT(30) DEF Acked, Bit
  <2>10. ctx[e].ack_num = p.seq /\ ctx[e].next_seq_expected = p.seq
    BY <2>1, <2>7, <2>9 DEF NumberInv, Synced
  <2> QED
    BY <2>10 DEF PassedUp, InOrder, p
<1> QED
  BY <1>1, Invariance, PTL

\* The second inductive invariant: what the connection states say of the FINs,
\* what the applications were told, and what is still on its way when an end
\* finishes.
THEOREM CloseInvariance == Spec => []CloseInv
  BY InitClose, NextClose, Invariance, PTL DEF Spec

\* control_loop() ends only when both FINs were exchanged and acknowledged, or
\* because the process of the peer died.
THEOREM GracefulEnd == Spec => []GracefulDone
<1>1. CloseInv => GracefulDone
  BY DEF CloseInv, CloseEnd, StateInv, Finished, GracefulDone
<1> QED
  BY <1>1, CloseInvariance, PTL

\* When myclose() closes the TCP socket nothing is left unread on it, so that
\* the peer gets the ACK of its FIN.
THEOREM CloseLosesNothing == Spec => []QuiescentClose
<1>1. Inv /\ CloseInv => QuiescentClose
  <2> SUFFICES ASSUME Inv, CloseInv, NEW e \in Ends, app[e] = "closing", thread[e] = "exited",
                      NEW i \in 1 .. Len(inbound[e])
               PROVE  inbound[e][i] = Hangup
    BY DEF QuiescentClose
  <2>1. /\ StateInv(e) /\ ResultInv(e) /\ FinInv(e)
        /\ LastAck(inbound[e], ctx[e], ctx[Peer(e)].fin_received)
    BY CloseFacts, EndFacts
  <2>2. inbound[e] # <<>>
    BY SMTT(30)
  <2>3. ctx[e].done
    <3>1. e = "passive" => result[e] = "connected"
      BY <2>1 DEF ResultInv
    <3> QED
      BY <2>1, <2>2, <3>1 DEF ResultInv
  <2>4. Finished(ctx[e])
    BY <2>1, <2>2, <2>3 DEF StateInv
  <2>5. Quiet(inbound[e][i])
    BY <2>1, <2>4 DEF Finished, FinInv
  <2> QED
    BY <2>1, <2>4, <2>5 DEF Finished, LastAck
<1> QED
  BY <1>1, Invariance, CloseInvariance, PTL

-----------------------------------------------------------------------------
(* The byte stream: every step of the implementation is a step of the      *)
(* abstract stream or leaves it alone.                                     *)

Closed == {e \in Ends : app[e] \in {"closing", "closed", "killed"}}
Lost   == {e \in Ends : app[e] = "killed"}
Ended  == {e \in Ends : eof[e]}

\* A step in which no end closes, is lost or learns of the end of the stream.
LEMMA KeepSets ==
    ASSUME \A x \in Ends : /\ app'[x] \in {"closing", "closed", "killed"}
                                 <=> app[x] \in {"closing", "closed", "killed"}
                           /\ app'[x] = "killed" <=> app[x] = "killed"
    PROVE  Closed' = Closed /\ Lost' = Lost
  BY DEF Closed, Lost

\* A step that the applications do not see.
LEMMA StreamStutter ==
    ASSUME UNCHANGED <<written, taken, eof>>,
           \A x \in Ends : /\ app'[x] \in {"closing", "closed", "killed"}
                                 <=> app[x] \in {"closing", "closed", "killed"}
                           /\ app'[x] = "killed" <=> app[x] = "killed"
    PROVE  UNCHANGED Stream!streamVars
<1>1. Closed' = Closed /\ Lost' = Lost /\ Ended' = Ended
  BY KeepSets DEF Ended
<1> QED
  BY <1>1 DEF Stream!streamVars, Closed, Lost, Ended

\* mywrite() writes to the stream.
LEMMA StreamWrite ==
    ASSUME Inv, NEW e \in Ends, MyWrite(e) PROVE Stream!Write(e)
<1>1. PICK n \in WriteSizes : written' = [written EXCEPT ![e] = @ + n]
  BY DEF MyWrite
<1>2. UNCHANGED <<app, eof, taken>> /\ app[e] = "open"
  BY DEF MyWrite, sockVars
<1>3. Closed' = Closed /\ Lost' = Lost /\ Ended' = Ended /\ e \notin Closed
  BY <1>2 DEF Closed, Lost, Ended
<1>4. PICK m : m = written[e] + n
  OBVIOUS
<1>5. n \in Nat /\ n > 0 /\ written[e] \in Nat
  BY EndFacts, ConstantFacts
<1>6. m \in Nat /\ m > written[e]
  BY <1>4, <1>5, SMTT(30)
<1>7. written'[e] = m /\ written' = [written EXCEPT ![e] = m]
  BY <1>1, <1>4 DEF Inv, TypeOK
<1>8. written'[e] \in Nat /\ written'[e] > written[e] /\ written' = [written EXCEPT ![e] = written'[e]]
  BY <1>6, <1>7
<1> QED
  BY <1>2, <1>3, <1>8 DEF Stream!Write, Closed, Lost, Ended

\* myread() reads from the stream what was written, or learns of its end.
LEMMA StreamRead ==
    ASSUME Inv, Inv', CloseInv, NEW e \in Ends, MyRead(e) PROVE Stream!Read(e) \/ Stream!ReadEof(e)
<1> DEFINE b == app_send_queue[e][1].len
<1>1. PICK n \in ReadSizes : /\ taken' = [taken EXCEPT ![e] = @ + MIN(n, b)]
                             /\ eof' = [eof EXCEPT ![e] = b = 0]
  BY DEF MyRead
<1>2. UNCHANGED <<ctx, thread, app, written, sent, accepted>> /\ app[e] = "open" /\ ~eof[e]
  BY DEF MyRead, connVars
<1>3. Closed' = Closed /\ Lost' = Lost /\ e \notin Closed \cup Ended
  BY <1>2 DEF Closed, Lost, Ended
<1>4. /\ n \in Nat /\ n > 0 /\ b \in Nat /\ taken[e] \in Nat
  <2>1. app_send_queue[e] \in Seq(Buffer) /\ taken[e] \in Nat /\ app_send_queue[e] # <<>>
    BY EndFacts DEF MyRead
  <2>2. app_send_queue[e][1] \in Buffer
    BY <2>1, TailFacts
  <2> QED
    BY <2>1, <2>2, ConstantFacts DEF Buffer
<1> HIDE DEF b
<1>5. PICK m : m = MIN(n, b)
  OBVIOUS
<1>6. m \in Nat /\ (b = 0 => m = 0) /\ (b # 0 => m > 0)
  BY <1>4, <1>5, SMTT(30) DEF MIN
<1>y. PICK y \in Ends : y = Peer(e)
  BY PeerFacts
<1>7. /\ taken'[e] = taken[e] + m /\ taken' = [taken EXCEPT ![e] = @ + m]
      /\ eof'[e] = (b = 0) /\ \A x \in Ends : x # e => eof'[x] = eof[x]
  BY <1>1, <1>5 DEF Inv, TypeOK
<1>8. /\ taken'[e] <= accepted[e] /\ accepted[e] <= sent[y] /\ sent[y] <= written[y]
      /\ eof'[e] => taken'[e] = accepted[e] /\ (ctx[e].fin_received \/ thread[e] = "exited")
  <2>1. ReadInv(e)' /\ FlowInv(e) /\ WriteInv(y)
    BY EndFacts DEF Inv, EndInv
  <2> QED
    BY <1>2, <1>y, <2>1 DEF ReadInv, FlowInv, WriteInv
<1>9. sent[y] \in Nat /\ written[y] \in Nat /\ accepted[e] \in Nat
  BY EndFacts
<1>10. CASE b # 0
  <2>1. m \in 1 .. written[y] - taken[e]
    BY <1>4, <1>6, <1>7, <1>8, <1>9, <1>10, SMTT(30)
  <2>2. Ended' = Ended
    BY <1>2, <1>7, <1>10 DEF Ended
  <2>3. Stream!Read(e)
    BY <1>2, <1>3, <1>7, <1>y, <2>1, <2>2 DEF Stream!Read, Closed, Lost, Ended
  <2> QED
    BY <2>3
<1>11. CASE b = 0
  <2>1. taken' = taken /\ taken'[e] = taken[e]
    <3>1. m = 0 /\ taken[e] + m = taken[e]
      BY <1>4, <1>6, <1>11, SMTT(30)
    <3>2. taken' = [taken EXCEPT ![e] = taken[e]] /\ taken \in [Ends -> Nat]
      BY <1>7, <3>1 DEF Inv, TypeOK
    <3> QED
      BY <3>2
  <2>2. Ended' = Ended \cup {e}
    BY <1>7, <1>11 DEF Ended
  <2>3. y \in Lost \/ (y \in Closed /\ taken[e] = written[y])
    <3>1. StateInv(e) /\ ResultInv(e) /\ FinInv(e) /\ WriteInv(y)
      BY CloseFacts, EndFacts
    <3>2. ctx[e].fin_received \/ app[y] = "killed"
      <4>1. thread[e] = "exited" => ctx[e].done
        BY <1>2, <3>1 DEF ResultInv
      <4> QED
        BY <1>7, <1>8, <1>11, <1>y, <3>1, <4>1 DEF StateInv, Finished
    <3>3. CASE ctx[e].fin_received
      <4>1. accepted[e] = sent[y] /\ ctx[y].fin_sent
        BY <1>y, <3>1, <3>3 DEF FinInv
      <4>2. sent[y] = written[y] /\ app[y] \in {"closing", "closed", "killed"}
        BY <3>1, <4>1 DEF WriteInv
      <4> QED
        BY <1>7, <1>8, <1>11, <2>1, <4>1, <4>2 DEF Closed
    <3> QED
      BY <3>2, <3>3 DEF Lost
  <2>4. Stream!ReadEof(e)
    BY <1>2, <1>3, <1>y, <2>1, <2>2, <2>3 DEF Stream!ReadEof, Closed, Lost,
       Ended
  <2> QED
    BY <2>4
<1> QED
  BY <1>10, <1>11

\* myclose() ends what an end writes.
LEMMA StreamClose ==
    ASSUME Inv, NEW e \in Ends, MyClose(e) PROVE Stream!Close(e)
<1>1. /\ UNCHANGED <<eof, written, taken>> /\ app[e] \in {"open", "failed"}
      /\ app' = [app EXCEPT ![e] = "closing"]
  BY DEF MyClose, countVars
<1>2. app'[e] = "closing" /\ \A x \in Ends : x # e => app'[x] = app[x]
  BY <1>1 DEF Inv, TypeOK
<1>3. Closed' = Closed \cup {e} /\ Lost' = Lost /\ Ended' = Ended /\ e \notin Closed
  BY <1>1, <1>2 DEF Closed, Lost, Ended
<1> QED
  BY <1>1, <1>3 DEF Stream!Close, Closed, Lost, Ended

\* A process that dies is lost.
LEMMA StreamLose ==
    ASSUME Inv, NEW e \in Ends, Kill(e) PROVE Stream!Lose(e)
<1>1. UNCHANGED <<eof, written, taken>> /\ app' = [app EXCEPT ![e] = "killed"]
  BY DEF Kill, countVars
<1>2. app'[e] = "killed" /\ \A x \in Ends : x # e => app'[x] = app[x]
  BY <1>1 DEF Inv, TypeOK
<1>3. Closed' = Closed \cup {e} /\ Lost' = Lost \cup {e} /\ Ended' = Ended
  BY <1>1, <1>2 DEF Closed, Lost, Ended
<1> QED
  BY <1>1, <1>3 DEF Stream!Lose, Closed, Lost, Ended

\* The steps of transport_init(), control_loop() and the receive threads, and
\* the calls that only return, are not seen in the stream.
LEMMA StreamSilent ==
    ASSUME Inv,
           \/ MyConnect \/ Handshake \/ UNCHANGED vars
           \/ \E e \in Ends : \/ ControlLoop(e) \/ ReceiveThread(e)
                              \/ OpenReturns(e) \/ MyCloseReturns(e)
    PROVE  UNCHANGED Stream!streamVars
<1> DEFINE Same == \A x \in Ends : /\ app'[x] \in {"closing", "closed", "killed"}
                                         <=> app[x] \in {"closing", "closed", "killed"}
                                   /\ app'[x] = "killed" <=> app[x] = "killed"
<1>0. UNCHANGED app => Same
  OBVIOUS
<1>1. CASE MyConnect
  <2>e. PICK e \in Ends : e = "active"
    BY PeerFacts
  <2>1. /\ UNCHANGED <<written, taken, eof>> /\ app[e] = "idle"
        /\ app' = [app EXCEPT ![e] = "connecting"]
    BY <1>1, <2>e DEF MyConnect, sockVars, countVars
  <2>2. Same
    BY <2>1 DEF Inv, TypeOK
  <2> QED
    BY <2>1, <2>2, StreamStutter
<1>2. CASE Handshake
  <2>1. UNCHANGED <<written, taken, eof>> /\ UNCHANGED app
    <3>1. CASE InitActive \/ Dispatch \/ InitPassive
      BY <3>1 DEF InitActive, Dispatch, InitPassive, sockVars, countVars
    <3>2. \A e, c, ps : Establish(e, c, ps) => UNCHANGED <<written, taken, eof, app>>
      BY DEF Establish, countVars
    <3>3. \A e : Refuse(e) => UNCHANGED <<written, taken, eof, app>>
      BY DEF Refuse, countVars
    <3>4. CASE HandshakeSynSent
      BY <3>2, <3>3, <3>4 DEF HandshakeSynSent
    <3>5. CASE HandshakeListen
      <4>1. UNCHANGED <<sockVars, app, countVars>> \/ Refuse("passive")
        BY <3>5 DEF HandshakeListen
      <4> QED
        BY <3>3, <4>1 DEF sockVars, countVars
    <3>6. CASE HandshakeSynRcvd
      BY <3>2, <3>3, <3>6 DEF HandshakeSynRcvd
    <3> QED
      BY <1>2, <3>1, <3>4, <3>5, <3>6 DEF Handshake
  <2> QED
    BY <1>0, <2>1, StreamStutter
<1>3. ASSUME NEW e \in Ends, ControlLoop(e) \/ ReceiveThread(e)
      PROVE  UNCHANGED Stream!streamVars
  <2>1. UNCHANGED <<written, taken, eof>> /\ UNCHANGED app
    <3>1. CASE WaitForEvent(e)
      BY <3>1 DEF WaitForEvent, countVars
    <3>2. CASE HandleAppData(e)
      BY <3>2 DEF HandleAppData, sockVars
    <3>3. CASE HandleHangup(e)
      BY <3>3 DEF HandleHangup, sockVars, countVars
    <3>4. CASE HandleSegment(e)
      BY <3>4 DEF HandleSegment, sockVars, countVars
    <3>5. CASE HandleClose(e)
      BY <3>5 DEF HandleClose, sockVars, countVars
    <3>6. CASE ThreadExit(e)
      BY <3>6 DEF ThreadExit, sockVars, countVars
    <3>7. CASE ReceiveThread(e)
      BY <3>7 DEF ReceiveThread, sockVars, countVars
    <3> QED
      BY <1>3, <3>1, <3>2, <3>3, <3>4, <3>5, <3>6, <3>7 DEF ControlLoop
  <2> QED
    BY <1>0, <2>1, StreamStutter
<1>4. ASSUME NEW e \in Ends, OpenReturns(e) PROVE UNCHANGED Stream!streamVars
  <2>1. /\ UNCHANGED <<written, taken, eof>> /\ app[e] \in {"connecting", "accepting"}
        /\ app' = [app EXCEPT ![e] = IF result[e] = "connected" THEN "open" ELSE "failed"]
    BY <1>4 DEF OpenReturns, sockVars, countVars
  <2>2. Same
    BY <2>1 DEF Inv, TypeOK
  <2> QED
    BY <2>1, <2>2, StreamStutter
<1>5. ASSUME NEW e \in Ends, MyCloseReturns(e) PROVE UNCHANGED Stream!streamVars
  <2>1. /\ UNCHANGED <<written, taken, eof>> /\ app[e] = "closing"
        /\ app' = [app EXCEPT ![e] = "closed"]
    BY <1>5 DEF MyCloseReturns, sockVars, countVars
  <2>2. Same
    BY <2>1 DEF Inv, TypeOK
  <2> QED
    BY <2>1, <2>2, StreamStutter
<1>6. CASE UNCHANGED vars
  <2>1. UNCHANGED <<written, taken, eof>> /\ UNCHANGED app
    BY <1>6 DEF vars, sockVars, countVars
  <2> QED
    BY <1>0, <2>1, StreamStutter
<1> QED
  BY <1>1, <1>2, <1>3, <1>4, <1>5, <1>6

\* Every step of the implementation is a step of the stream, or none.
LEMMA StreamStep == Inv /\ Inv' /\ CloseInv /\ [Next]_vars => [Stream!Next]_Stream!streamVars
<1> SUFFICES ASSUME Inv, Inv', CloseInv, [Next]_vars
             PROVE  Stream!Next \/ UNCHANGED Stream!streamVars
  OBVIOUS
<1>1. ASSUME NEW e \in Ends, Application(e) PROVE Stream!Next
  <2>1. Stream!Write(e) \/ Stream!Read(e) \/ Stream!ReadEof(e) \/ Stream!Close(e)
    BY <1>1, StreamWrite, StreamRead, StreamClose DEF Application
  <2> QED
    BY <2>1 DEF Stream!Next
<1>2. ASSUME NEW e \in Ends, Kill(e) PROVE Stream!Next
  <2>1. Stream!Lose(e)
    BY <1>2, StreamLose
  <2> QED
    BY <2>1 DEF Stream!Next
<1> QED
  BY <1>1, <1>2, StreamSilent DEF Next

\* The connection starts as an empty stream, in which the server may be missing.
LEMMA StreamInit == Init => Stream!Init
  BY SMTT(30) DEF Init, Stream!Init, Ends

\* Both transport layers with their threads, queues, packets and crashes behave
\* as the byte stream that the mysocket interface promises.
THEOREM Refinement == Spec => StreamSpec
  BY StreamInit, StreamStep, Invariance, CloseInvariance, PTL DEF Spec, StreamSpec, Stream!Spec
=============================================================================
