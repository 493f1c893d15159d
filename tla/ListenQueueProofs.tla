-------------------------- MODULE ListenQueueProofs --------------------------
(***************************************************************************)
(* Every connection of a listening socket is in one place, for any number  *)
(* of clients, slots and descriptors.                                      *)
(***************************************************************************)
EXTENDS ListenQueue, WellFoundedInduction, TLAPS

USE ZenonT(20)

\* The slot that the receive thread has chosen stays free until it is filled, and
\* the thread has ended when the queue is locked.
RecvInv ==
    /\ recv.pc \in {"load", "store", "create"} =>
          recv.slot \in Slots /\ connection_queue[recv.slot].sd = -1
    /\ app.pc \in {"closing", "joining", "closed"} => recv.pc = "stopped"

\* A cleared slot is the one that myaccept() is at, and the connection it has taken
\* out of the queue is nowhere else.
AppInv ==
    /\ \A k \in Slots : connection_queue[k].sd = 0 => app.pc = "clearing" /\ app.k = k
    /\ app.pc = "clearing" => /\ app.k \in Slots
                              /\ Running => connection_queue[app.k].sd = 0
    /\ app.pc \in {"clearing", "taking"} =>
          /\ app.sd \in Sockets /\ sock[app.sd].state \in {"open", "exited"}
          /\ app.sd \notin held
          /\ \A k \in Pending : connection_queue[k].sd # app.sd
    /\ app.pc = "taking" => app.count > 0
    /\ app.pc \in {"closing", "joining"} => app.k >= 1
    /\ app.pc = "joining" => /\ app.k \in Slots /\ app.sd \in Sockets
                             /\ connection_queue[app.k].sd = app.sd

\* A handshake that is not over has a slot, and myaccept() returns no connection
\* before its handshake is over.
SockInv ==
    /\ \A s \in Sockets : sock[s].state \in {"handshake", "completing"} =>
          \E k \in Pending : connection_queue[k].sd = s
    /\ \A s \in held : sock[s].state \in {"open", "exited"}

QueueInv == TypeOK /\ OnePlace /\ RecvInv /\ AppInv /\ SockInv /\ FindsItsSlot

-----------------------------------------------------------------------------
(* Types.                                                                  *)

\* Changing fields of a record.
LEMMA RecvFields ==
    ASSUME NEW r \in RecvType, NEW x \in RecvPcs
    PROVE  /\ [r EXCEPT !.pc = x] \in RecvType
           /\ \A y \in Peers \cup {NoPeer} : [r EXCEPT !.pc = x, !.peer = y] \in RecvType
           /\ \A y \in Slots : [r EXCEPT !.pc = x, !.slot = y] \in RecvType
           /\ \A y \in 0 .. CountMod - 1 : [r EXCEPT !.pc = x, !.count = y] \in RecvType
<1>1. [r EXCEPT !.pc = x] \in RecvType
  BY DEF RecvType
<1>2. ASSUME NEW y \in Peers \cup {NoPeer} PROVE [r EXCEPT !.pc = x, !.peer = y] \in RecvType
  BY DEF RecvType
<1>3. ASSUME NEW y \in Slots PROVE [r EXCEPT !.pc = x, !.slot = y] \in RecvType
  BY DEF RecvType
<1>4. ASSUME NEW y \in 0 .. CountMod - 1 PROVE [r EXCEPT !.pc = x, !.count = y] \in RecvType
  BY DEF RecvType
<1> QED
  BY <1>1, <1>2, <1>3, <1>4

\* The same for the record of the application.
LEMMA AppFields ==
    ASSUME NEW a \in AppType, NEW x \in AppPcs
    PROVE  /\ [a EXCEPT !.pc = x] \in AppType
           /\ \A y \in Sockets \cup {0} : [a EXCEPT !.pc = x, !.sd = y] \in AppType
           /\ \A z \in 0 .. MaxLen + 1 :
                 /\ [a EXCEPT !.pc = x, !.k = z] \in AppType
                 /\ [a EXCEPT !.k = z] \in AppType
                 /\ \A y \in Sockets \cup {0} : [a EXCEPT !.pc = x, !.sd = y, !.k = z] \in AppType
                 /\ \A y \in 0 .. CountMod - 1 :
                       [a EXCEPT !.pc = x, !.count = y, !.k = z] \in AppType
<1>1. [a EXCEPT !.pc = x] \in AppType
  BY DEF AppType
<1>2. ASSUME NEW y \in Sockets \cup {0} PROVE [a EXCEPT !.pc = x, !.sd = y] \in AppType
  BY DEF AppType
<1>3. ASSUME NEW z \in 0 .. MaxLen + 1
      PROVE  [a EXCEPT !.pc = x, !.k = z] \in AppType /\ [a EXCEPT !.k = z] \in AppType
  BY DEF AppType
<1>4. ASSUME NEW z \in 0 .. MaxLen + 1, NEW y \in Sockets \cup {0}
      PROVE  [a EXCEPT !.pc = x, !.sd = y, !.k = z] \in AppType
  BY DEF AppType
<1>5. ASSUME NEW z \in 0 .. MaxLen + 1, NEW y \in 0 .. CountMod - 1
      PROVE  [a EXCEPT !.pc = x, !.count = y, !.k = z] \in AppType
  BY DEF AppType
<1> QED
  BY <1>1, <1>2, <1>3, <1>4, <1>5

\* Slots, descriptors and counters in the ranges the provers need.
LEMMA Ranges ==
    /\ MaxLen \in Nat \ {0} /\ MaxSockets \in Nat /\ CountMod \in Nat /\ CountMod > 1
    /\ Slots \subseteq Nat \ {0} /\ Slots \subseteq 0 .. MaxLen + 1
    /\ Sockets \subseteq Nat \ {0} /\ -1 \notin Sockets /\ 0 \notin Sockets
    /\ \A k \in Slots : k <= MaxLen
    /\ \A n \in Int : n % CountMod \in 0 .. CountMod - 1
    /\ FreeSlot \in SlotType /\ FreeSlot.sd = -1
    /\ ClearedSlot \in SlotType /\ ClearedSlot.sd = 0
    /\ FreeSock \in SockType /\ FreeSock.state = "free"
    /\ IdleRecv \in RecvType /\ IdleApp \in AppType
<1>1. /\ MaxLen \in Nat \ {0} /\ MaxSockets \in Nat /\ CountMod \in Nat /\ CountMod > 1
      /\ Slots \subseteq Nat \ {0} /\ Slots \subseteq 0 .. MaxLen + 1
      /\ Sockets \subseteq Nat \ {0} /\ -1 \notin Sockets /\ 0 \notin Sockets
      /\ \A k \in Slots : k <= MaxLen
  BY QueueAssumption, SMTT(30) DEF Slots, Sockets
<1>2. \A n \in Int : n % CountMod \in 0 .. CountMod - 1
  BY <1>1, SMTT(30)
<1>3. /\ FreeSlot \in SlotType /\ FreeSlot.sd = -1
      /\ ClearedSlot \in SlotType /\ ClearedSlot.sd = 0
  BY DEF FreeSlot, ClearedSlot, SlotType
<1>4. FreeSock \in SockType /\ FreeSock.state = "free"
  BY DEF FreeSock, SockType, SockStates
<1>5. IdleRecv \in RecvType /\ IdleApp \in AppType
  BY <1>1, SMTT(30) DEF IdleRecv, RecvType, RecvPcs, IdleApp, AppType, AppPcs
<1> QED
  BY <1>1, <1>2, <1>3, <1>4, <1>5

\* A set of numbers that is not empty has a least element.
LEMMA LeastExists ==
    ASSUME NEW T, T \subseteq Nat, T # {} PROVE Least(T) \in T
<1> DEFINE R == OpToRel(<, Nat)
<1>1. IsWellFoundedOn(R, Nat)
  BY NatLessThanWellFounded
<1>2. \A x, y \in Nat : <<y, x>> \in R <=> y < x
  BY DEF OpToRel
<1> HIDE DEF R
<1>3. PICK x \in T : \A y \in T : ~(<<y, x>> \in R)
  BY <1>1, WFMin
<1>4. ASSUME NEW y \in T PROVE x <= y
  <2>1. x \in Nat /\ y \in Nat
    OBVIOUS
  <2>2. ~(y < x)
    BY <1>2, <1>3, <2>1
  <2> QED
    BY <2>1, <2>2, SMTT(30)
<1> QED
  BY <1>4 DEF Least

-----------------------------------------------------------------------------
(* Steps of the clients and of the receive thread.                         *)

\* A step that leaves the queue, the sockets and the application alone.
LEMMA QueueKept ==
    ASSUME QueueInv, UNCHANGED <<connection_queue, completed_queue, sock, held, app>>,
           TypeOK', RecvInv', FindsItsSlot', Running
    PROVE  QueueInv'
<1>1. Pending' = Pending
  BY DEF Pending, WriteLocked
<1>2. OnePlace'
  BY <1>1, SMTT(30) DEF QueueInv, OnePlace
<1>3. AppInv'
  BY <1>1 DEF QueueInv, AppInv
<1>4. SockInv'
  BY <1>1 DEF QueueInv, SockInv
<1> QED
  BY <1>2, <1>3, <1>4 DEF QueueInv

\* A client connects, and sends its SYN or dies.
LEMMA ClientConnectsStep ==
    ASSUME QueueInv, ClientConnects PROVE QueueInv'
<1>1. /\ Running /\ UNCHANGED <<connection_queue, completed_queue, sock, held, app>>
      /\ UNCHANGED <<new_socket, recv, cur_len, assertion>>
      /\ connects < MaxConnects /\ connects' = connects + 1
  BY DEF ClientConnects, queueVars
<1>2. PICK p \in Peers, syn \in BOOLEAN : incoming' = Append(incoming, [peer |-> p, syn |-> syn])
  BY DEF ClientConnects
<1>3. TypeOK'
  <2>1. incoming' \in Seq([peer : Peers, syn : BOOLEAN])
    BY <1>2, SMTT(30) DEF QueueInv, TypeOK
  <2>2. connects' \in 0 .. MaxConnects
    BY <1>1, QueueAssumption, SMTT(30) DEF QueueInv, TypeOK
  <2> QED
    BY <1>1, <2>1, <2>2 DEF QueueInv, TypeOK
<1>4. RecvInv' /\ FindsItsSlot'
  BY <1>1 DEF QueueInv, RecvInv, FindsItsSlot
<1> QED
  BY <1>1, <1>3, <1>4, QueueKept

\* accept() of the receive thread.
LEMMA TcpAcceptStep ==
    ASSUME QueueInv, TcpAccept PROVE QueueInv'
<1>1. /\ Running /\ UNCHANGED <<connection_queue, completed_queue, sock, held, app>>
      /\ UNCHANGED <<connects, cur_len>> /\ recv.pc = "poll"
      /\ incoming # <<>> /\ incoming' = Tail(incoming)
  BY DEF TcpAccept, queueVars
<1> DEFINE p == Head(incoming).peer
<1>2. /\ incoming' \in Seq([peer : Peers, syn : BOOLEAN])
      /\ p \in Peers
  <2>1. PICK T : T = [peer : Peers, syn : BOOLEAN]
    OBVIOUS
  <2>2. incoming \in Seq(T)
    BY <2>1 DEF QueueInv, TypeOK
  <2>3. incoming' \in Seq(T) /\ Head(incoming) \in T
    BY <1>1, <2>2, SMTT(30)
  <2>4. Head(incoming).peer \in Peers
    BY <2>1, <2>3
  <2> QED
    BY <2>1, <2>3, <2>4
<1> HIDE DEF p
<1>3. \/ assertion' = "new_socket" /\ UNCHANGED <<new_socket, recv>>
      \/ /\ new_socket' = p /\ assertion' = assertion
         /\ \/ recv' = [recv EXCEPT !.pc = "dispatch", !.peer = p]
            \/ recv' = [recv EXCEPT !.pc = "stopped"]
  BY DEF TcpAccept, p
<1>4. recv \in RecvType /\ "dispatch" \in RecvPcs /\ "stopped" \in RecvPcs
  BY DEF QueueInv, TypeOK, RecvPcs
<1>5. recv' \in RecvType /\ recv'.pc \in {"poll", "dispatch", "stopped"}
  <2>1. [recv EXCEPT !.pc = "dispatch", !.peer = p] \in RecvType
    BY <1>2, <1>4, RecvFields
  <2>2. [recv EXCEPT !.pc = "stopped"] \in RecvType
    BY <1>4, RecvFields
  <2>3. /\ [recv EXCEPT !.pc = "dispatch", !.peer = p].pc = "dispatch"
        /\ [recv EXCEPT !.pc = "stopped"].pc = "stopped"
    BY <1>4 DEF RecvType
  <2> QED
    BY <1>1, <1>3, <1>4, <2>1, <2>2, <2>3
<1>6. TypeOK'
  BY <1>1, <1>2, <1>3, <1>5 DEF QueueInv, TypeOK, Asserts
<1>7. RecvInv' /\ FindsItsSlot'
  BY <1>1, <1>3, <1>5 DEF QueueInv, RecvInv, FindsItsSlot
<1> QED
  BY <1>1, <1>6, <1>7, QueueKept

\* The receive thread ends.
LEMMA RecvStopsStep ==
    ASSUME QueueInv, RecvStops PROVE QueueInv'
<1>1. /\ Running /\ UNCHANGED <<connection_queue, completed_queue, sock, held, app>>
      /\ UNCHANGED <<netVars, cur_len, assertion>> /\ recv' = [recv EXCEPT !.pc = "stopped"]
  BY DEF RecvStops, queueVars
<1>2. recv \in RecvType /\ "stopped" \in RecvPcs
  BY DEF QueueInv, TypeOK, RecvPcs
<1>3. recv' \in RecvType /\ recv'.pc = "stopped"
  <2>1. recv' \in RecvType
    BY <1>1, <1>2, RecvFields
  <2>2. recv'.pc = "stopped"
    BY <1>1, <1>2 DEF RecvType
  <2> QED
    BY <2>1, <2>2
<1>4. TypeOK'
  BY <1>1, <1>3 DEF QueueInv, TypeOK, netVars
<1>5. RecvInv' /\ FindsItsSlot'
  BY <1>1, <1>3 DEF QueueInv, RecvInv, FindsItsSlot
<1> QED
  BY <1>1, <1>4, <1>5, QueueKept

\* Where the receive thread is when it looks for a slot or counts.
LEMMA RecvMoves ==
    ASSUME QueueInv, Running, recv.pc \notin {"poll", "stopped"},
           UNCHANGED <<connection_queue, completed_queue, sock, held, app>>,
           UNCHANGED <<netVars>>, cur_len' \in 0 .. CountMod - 1, recv' \in RecvType,
           assertion' \in {"none", "peer_addr_len", "queue_entry"},
           recv'.pc \in {"load", "store", "create"} =>
              recv'.slot \in Slots /\ connection_queue[recv'.slot].sd = -1
    PROVE  QueueInv'
<1>1. TypeOK'
  BY DEF QueueInv, TypeOK, netVars, Asserts
<1>2. RecvInv'
  BY DEF QueueInv, RecvInv
<1>3. FindsItsSlot'
  BY DEF FindsItsSlot
<1> QED
  BY <1>1, <1>2, <1>3, QueueKept

\* The receive thread chooses a free slot, or drops the SYN.
LEMMA FindSlotStep ==
    ASSUME QueueInv, FindSlot PROVE QueueInv'
<1>1. /\ Running /\ UNCHANGED <<connection_queue, completed_queue, sock, held, app>>
      /\ UNCHANGED <<netVars>> /\ cur_len' = cur_len /\ recv.pc = "dispatch"
  BY DEF FindSlot, queueVars
<1> DEFINE k == Least(EmptySlots)
<1>2. \/ assertion' \in {"peer_addr_len", "queue_entry"} /\ recv' = recv
      \/ recv' = IdleRecv /\ assertion' = assertion
      \/ /\ EmptySlots # {} /\ assertion' = assertion
         /\ recv' = [recv EXCEPT !.pc = "load", !.slot = k]
  BY DEF FindSlot
<1>3. recv \in RecvType /\ "load" \in RecvPcs /\ cur_len' \in 0 .. CountMod - 1
  BY <1>1 DEF QueueInv, TypeOK, RecvPcs
<1>4. CASE assertion' \in {"peer_addr_len", "queue_entry"} /\ recv' = recv
  BY <1>1, <1>3, <1>4, RecvMoves
<1>5. CASE recv' = IdleRecv /\ assertion' = assertion
  <2>1. IdleRecv \in RecvType /\ IdleRecv.pc = "poll" /\ assertion = "none"
    BY <1>1, Ranges DEF IdleRecv, Running
  <2> QED
    BY <1>1, <1>3, <1>5, <2>1, RecvMoves
<1>6. CASE /\ EmptySlots # {} /\ assertion' = assertion
           /\ recv' = [recv EXCEPT !.pc = "load", !.slot = k]
  <2>1. k \in EmptySlots
    <3>1. EmptySlots \subseteq Nat
      BY Ranges DEF EmptySlots
    <3> QED
      BY <1>6, <3>1, LeastExists
  <2> HIDE DEF k
  <2>2. k \in Slots /\ connection_queue[k].sd < 0
    BY <2>1 DEF EmptySlots
  <2>3. connection_queue[k].sd = -1
    <3>1. connection_queue[k].sd \in Sockets \cup {-1, 0}
      BY <2>2 DEF QueueInv, TypeOK, SlotType
    <3>2. \A d \in Sockets : ~(d < 0)
      BY Ranges, SMTT(30)
    <3>3. ~(0 < 0)
      BY SMTT(30)
    <3> QED
      BY <2>2, <3>1, <3>2, <3>3
  <2>4. recv' \in RecvType
    BY <1>3, <1>6, <2>2, RecvFields
  <2>5. recv'.pc = "load" /\ recv'.slot = k
    BY <1>3, <1>6 DEF RecvType
  <2>6. assertion' = "none"
    BY <1>1, <1>6 DEF Running
  <2> QED
    BY <1>1, <1>3, <2>2, <2>3, <2>4, <2>5, <2>6, RecvMoves
<1> QED
  BY <1>2, <1>4, <1>5, <1>6

\* The receive thread loads cur_len.
LEMMA LoadCountStep ==
    ASSUME QueueInv, LoadCount PROVE QueueInv'
<1>1. /\ Running /\ UNCHANGED <<connection_queue, completed_queue, sock, held, app>>
      /\ UNCHANGED <<netVars>> /\ cur_len' = cur_len /\ assertion' = assertion
      /\ recv.pc \in {"load", "undo_load"}
  BY DEF LoadCount, queueVars
<1>2. PICK x \in {"store", "undo_store"} :
         /\ x = "store" => recv.pc = "load"
         /\ recv' = [recv EXCEPT !.pc = x, !.count = cur_len]
  BY DEF LoadCount
<1>3. recv \in RecvType /\ x \in RecvPcs /\ cur_len \in 0 .. CountMod - 1
  BY DEF QueueInv, TypeOK, RecvPcs
<1>4. recv' \in RecvType
  BY <1>2, <1>3, RecvFields
<1>5. recv'.pc = x /\ recv'.slot = recv.slot
  BY <1>2, <1>3 DEF RecvType
<1>6. recv'.pc \in {"load", "store", "create"} =>
         recv'.slot \in Slots /\ connection_queue[recv'.slot].sd = -1
  BY <1>2, <1>5 DEF QueueInv, RecvInv
<1> QED
  BY <1>1, <1>3, <1>4, <1>6, RecvMoves DEF Running

\* The receive thread stores cur_len.
LEMMA StoreCountStep ==
    ASSUME QueueInv, StoreCount PROVE QueueInv'
<1>1. /\ Running /\ UNCHANGED <<connection_queue, completed_queue, sock, held, app>>
      /\ UNCHANGED <<netVars>> /\ assertion' = assertion
      /\ recv.pc \in {"store", "undo_store"}
  BY DEF StoreCount
<1>2. recv \in RecvType /\ "create" \in RecvPcs /\ 0 \in 0 .. CountMod - 1
  BY Ranges, SMTT(30) DEF QueueInv, TypeOK, RecvPcs
<1>3. cur_len' \in 0 .. CountMod - 1
  <2>1. recv.count \in Int
    BY <1>2, SMTT(30) DEF RecvType
  <2>2. PICK n \in Int : cur_len' = n % CountMod
    BY <2>1, SMTT(30) DEF StoreCount
  <2> QED
    BY <2>2, Ranges
<1>4. CASE recv.pc = "store" /\ recv' = [recv EXCEPT !.pc = "create", !.count = 0]
  <2>1. recv' \in RecvType
    BY <1>2, <1>4, RecvFields
  <2>2. recv'.pc = "create" /\ recv'.slot = recv.slot
    BY <1>2, <1>4 DEF RecvType
  <2>3. recv'.slot \in Slots /\ connection_queue[recv'.slot].sd = -1
    BY <1>4, <2>2 DEF QueueInv, RecvInv
  <2> QED
    BY <1>1, <1>3, <2>1, <2>3, RecvMoves DEF Running
<1>5. CASE recv' = IdleRecv
  <2>1. IdleRecv \in RecvType /\ IdleRecv.pc = "poll"
    BY Ranges DEF IdleRecv
  <2> QED
    BY <1>1, <1>3, <1>5, <2>1, RecvMoves DEF Running
<1> QED
  BY <1>4, <1>5 DEF StoreCount

\* The slots whose handshake is over, and those that completed_queue names.
Over == {k \in Pending : sock[connection_queue[k].sd].state \in {"open", "exited"}}

Completed == {completed_queue[i] : i \in 1 .. Len(completed_queue)}

\* What OnePlace says of a pending slot.
InPlace(k) ==
    /\ sock[connection_queue[k].sd].state # "free"
    /\ sock[connection_queue[k].sd].peer = connection_queue[k].peer
    /\ connection_queue[k].sd \notin held

NoneTwice ==
    \A i, j \in 1 .. Len(completed_queue) : completed_queue[i] = completed_queue[j] => i = j

\* OnePlace in parts that a step changes one at a time.
LEMMA OnePlaceParts ==
    OnePlace <=> /\ \A k \in Pending : InPlace(k)
                 /\ \A j, k \in Pending : connection_queue[j].sd = connection_queue[k].sd => j = k
                 /\ NoneTwice
                 /\ app.pc \notin {"closing", "joining"} => Completed = Over
  BY DEF OnePlace, InPlace, NoneTwice, Completed, Over

\* The same in the next state.
LEMMA OnePlaceNext ==
    OnePlace' <=> /\ \A k \in Pending' : InPlace(k)'
                  /\ \A j, k \in Pending' :
                        connection_queue'[j].sd = connection_queue'[k].sd => j = k
                  /\ NoneTwice'
                  /\ app'.pc \notin {"closing", "joining"} => Completed' = Over'
  BY DEF OnePlace, InPlace, NoneTwice, Completed, Over

\* A pending slot has a descriptor.
LEMMA PendingFacts ==
    ASSUME QueueInv
    PROVE  /\ Pending \subseteq Slots /\ \A k \in Pending : connection_queue[k].sd \in Sockets
           /\ ~WriteLocked => Pending = {k \in Slots : connection_queue[k].sd \in Sockets}
  BY DEF Pending

\* The receive thread fills the slot with a new connection.
LEMMA CreateSocketStep ==
    ASSUME QueueInv, CreateSocket PROVE QueueInv'
<1>1. Running /\ recv.pc = "create" /\ recv \in RecvType /\ "undo_load" \in RecvPcs
  BY DEF CreateSocket, QueueInv, TypeOK, RecvPcs
<1>2. CASE /\ recv' = [recv EXCEPT !.pc = "undo_load"]
           /\ UNCHANGED <<connection_queue, sock, new_socket>>
  <2>1. recv' \in RecvType
    BY <1>1, <1>2, RecvFields
  <2>2. recv'.pc = "undo_load"
    BY <1>1, <1>2 DEF RecvType
  <2>3. /\ UNCHANGED <<connection_queue, completed_queue, sock, held, app>>
        /\ UNCHANGED <<netVars>> /\ cur_len' = cur_len /\ assertion' = assertion
    BY <1>2 DEF CreateSocket, netVars
  <2>4. cur_len \in 0 .. CountMod - 1
    BY DEF QueueInv, TypeOK
  <2> QED
    BY <1>1, <2>1, <2>2, <2>3, <2>4, RecvMoves DEF Running
<1>3. ASSUME NEW s \in FreeSockets,
             connection_queue' = [connection_queue EXCEPT ![recv.slot] =
                                     [sd |-> s, peer |-> recv.peer]],
             sock' = [sock EXCEPT ![s] =
                         [FreeSock EXCEPT !.state = "handshake", !.peer = recv.peer]],
             new_socket' = NoPeer, recv' = IdleRecv
      PROVE  QueueInv'
  <2>1. /\ UNCHANGED <<incoming, connects, completed_queue, cur_len, held, app, assertion>>
        /\ s \in Sockets /\ sock[s].state = "free"
    BY DEF CreateSocket, FreeSockets
  <2>2. PICK n : n = recv.slot
    OBVIOUS
  <2>3. n \in Slots /\ connection_queue[n].sd = -1 /\ ~WriteLocked /\ app.pc # "closed"
    BY <1>1, <2>2 DEF QueueInv, RecvInv, WriteLocked
  <2>4. recv.peer \in Peers \cup {NoPeer}
    BY <1>1 DEF RecvType
  <2>5. PICK c : c = [sd |-> s, peer |-> recv.peer]
    OBVIOUS
  <2>6. c \in SlotType /\ c.sd = s /\ c.peer = recv.peer
    BY <2>1, <2>4, <2>5 DEF SlotType
  <2>7. /\ connection_queue' \in [Slots -> SlotType] /\ connection_queue'[n] = c
        /\ \A k \in Slots \ {n} : connection_queue'[k] = connection_queue[k]
    <3>1. connection_queue \in [Slots -> SlotType]
      BY DEF QueueInv, TypeOK
    <3> QED
      BY <1>3, <2>2, <2>3, <2>5, <2>6, <3>1
  <2>8. PICK t : t = [FreeSock EXCEPT !.state = "handshake", !.peer = recv.peer]
    OBVIOUS
  <2>9. t \in SockType /\ t.state = "handshake" /\ t.peer = recv.peer
    BY <2>4, <2>8 DEF SockType, SockStates, FreeSock
  <2>10. /\ sock' \in [Sockets -> SockType] /\ sock'[s] = t
         /\ \A d \in Sockets \ {s} : sock'[d] = sock[d]
    <3>1. sock \in [Sockets -> SockType]
      BY DEF QueueInv, TypeOK
    <3> QED
      BY <1>3, <2>1, <2>8, <2>9, <3>1
  <2>11. TypeOK'
    BY <1>3, <2>1, <2>7, <2>10, Ranges DEF QueueInv, TypeOK
  <2>12. /\ n \notin Pending /\ Pending \subseteq Slots
         /\ \A k \in Pending : k \in Slots \ {n} /\ connection_queue[k].sd \in Sockets \ {s}
    <3>1. n \notin Pending
      BY <2>3, PendingFacts, Ranges
    <3>2. \A k \in Pending : connection_queue[k].sd # s
      BY <2>1, OnePlaceParts DEF QueueInv, InPlace
    <3> QED
      BY <3>1, <3>2, PendingFacts
  <2>13. Pending' = Pending \cup {n}
    <3>1. ~WriteLocked'
      BY <2>1, <2>3 DEF WriteLocked
    <3>2. Pending' = {k \in Slots : connection_queue'[k].sd \in Sockets}
      BY <3>1 DEF Pending
    <3>3. Pending = {k \in Slots : connection_queue[k].sd \in Sockets}
      BY <2>3, PendingFacts
    <3> QED
      BY <2>1, <2>3, <2>6, <2>7, <3>2, <3>3
  <2>14. \A k \in Pending : /\ connection_queue'[k] = connection_queue[k]
                            /\ sock'[connection_queue'[k].sd] = sock[connection_queue[k].sd]
                            /\ connection_queue'[k].sd # s
    BY <2>7, <2>10, <2>12
  <2>15. s \notin held
    BY <2>1 DEF QueueInv, SockInv
  <2>16. OnePlace'
    <3>1. ASSUME NEW k \in Pending' PROVE InPlace(k)'
      <4>1. CASE k = n
        BY <2>1, <2>6, <2>7, <2>9, <2>10, <2>15, <4>1 DEF InPlace
      <4>2. CASE k \in Pending
        <5>1. InPlace(k)
          BY <4>2, OnePlaceParts DEF QueueInv
        <5> QED
          BY <2>1, <2>14, <4>2, <5>1 DEF InPlace
      <4> QED
        BY <2>13, <4>1, <4>2
    <3>2. ASSUME NEW j \in Pending', NEW k \in Pending',
                 connection_queue'[j].sd = connection_queue'[k].sd
          PROVE  j = k
      <4>1. \A i \in Pending, m \in Pending : connection_queue[i].sd = connection_queue[m].sd => i = m
        BY OnePlaceParts DEF QueueInv
      <4>2. connection_queue'[n].sd = s
        BY <2>6, <2>7
      <4> QED
        BY <2>13, <2>14, <3>2, <4>1, <4>2
    <3>3. NoneTwice' /\ Completed' = Completed
      BY <2>1, OnePlaceParts DEF QueueInv, NoneTwice, Completed
    <3>4. Over' = Over
      <4>1. \A k \in Pending : k \in Over' <=> k \in Over
        BY <2>13, <2>14 DEF Over
      <4>2. n \notin Over'
        BY <2>6, <2>7, <2>9, <2>10 DEF Over
      <4>3. Over \subseteq Pending /\ Over' \subseteq Pending'
        BY DEF Over
      <4> QED
        BY <2>13, <4>1, <4>2, <4>3
    <3>5. app'.pc \notin {"closing", "joining"} => Completed' = Over'
      BY <2>1, <3>3, <3>4, OnePlaceParts DEF QueueInv
    <3> QED
      BY <3>1, <3>2, <3>3, <3>5, OnePlaceNext
  <2>17. RecvInv'
    <3>1. recv'.pc = "poll"
      BY <1>3 DEF IdleRecv
    <3> QED
      BY <2>1, <2>3, <3>1 DEF RecvInv, WriteLocked
  <2>18. AppInv'
    <3>1. ASSUME NEW k \in Slots, connection_queue'[k].sd = 0
          PROVE  app'.pc = "clearing" /\ app'.k = k
      <4>1. k # n
        BY <2>1, <2>6, <2>7, <3>1, Ranges
      <4> QED
        BY <2>1, <2>7, <3>1, <4>1 DEF QueueInv, AppInv
    <3>2. ASSUME app'.pc = "clearing"
          PROVE  app'.k \in Slots /\ (Running' => connection_queue'[app'.k].sd = 0)
      <4>1. app.pc = "clearing" /\ app.k \in Slots /\ connection_queue[app.k].sd = 0 /\ app' = app
        BY <1>1, <2>1, <3>2 DEF QueueInv, AppInv
      <4>2. app.k # n
        BY <2>3, <4>1, SMTT(30)
      <4> QED
        BY <2>7, <4>1, <4>2
    <3>3. ASSUME app'.pc \in {"clearing", "taking"}
          PROVE  /\ app'.sd \in Sockets /\ sock'[app'.sd].state \in {"open", "exited"}
                 /\ app'.sd \notin held'
                 /\ \A k \in Pending' : connection_queue'[k].sd # app'.sd
      <4>1. /\ app.sd \in Sockets /\ sock[app.sd].state \in {"open", "exited"}
            /\ app.sd \notin held /\ \A k \in Pending : connection_queue[k].sd # app.sd
        BY <2>1, <3>3 DEF QueueInv, AppInv
      <4>2. app.sd # s
        BY <2>1, <4>1
      <4>3. sock'[app.sd] = sock[app.sd]
        BY <2>10, <4>1, <4>2
      <4>4. \A k \in Pending' : connection_queue'[k].sd # app.sd
        BY <2>6, <2>7, <2>13, <2>14, <4>1, <4>2
      <4> QED
        BY <2>1, <4>1, <4>3, <4>4
    <3> QED
      BY <2>1, <2>3, <3>1, <3>2, <3>3 DEF QueueInv, AppInv, WriteLocked
  <2>19. SockInv'
    <3>1. ASSUME NEW d \in Sockets, sock'[d].state \in {"handshake", "completing"}
          PROVE  \E k \in Pending' : connection_queue'[k].sd = d
      <4>1. CASE d = s
        BY <2>6, <2>7, <2>13, <4>1
      <4>2. CASE d # s
        <5>1. sock[d].state \in {"handshake", "completing"}
          BY <2>10, <3>1, <4>2
        <5>2. PICK k \in Pending : connection_queue[k].sd = d
          BY <5>1 DEF QueueInv, SockInv
        <5> QED
          BY <2>13, <2>14, <5>2
      <4> QED
        BY <4>1, <4>2
    <3>2. ASSUME NEW d \in held' PROVE sock'[d].state \in {"open", "exited"}
      BY <2>1, <2>10, <2>15, <3>2 DEF QueueInv, SockInv, TypeOK
    <3> QED
      BY <3>1, <3>2 DEF SockInv
  <2>20. FindsItsSlot'
    BY <2>1 DEF QueueInv, FindsItsSlot
  <2> QED
    BY <2>11, <2>16, <2>17, <2>18, <2>19, <2>20 DEF QueueInv
<1>4. FreeSockets # {} => Least(FreeSockets) \in FreeSockets
  <2>1. FreeSockets \subseteq Nat
    BY Ranges DEF FreeSockets
  <2> QED
    BY <2>1, LeastExists
<1> QED
  BY <1>2, <1>3, <1>4 DEF CreateSocket

-----------------------------------------------------------------------------
(* Steps of the transport threads and of the connections' owners.          *)

\* One socket changes its state, and none that is over becomes unfinished.
LEMMA SockMoves ==
    ASSUME QueueInv, NEW s \in Sockets, NEW t \in SockType, sock' = [sock EXCEPT ![s] = t],
           t.peer = sock[s].peer,
           \/ t.state = sock[s].state
           \/ t.state = "completing" /\ sock[s].state = "handshake"
           \/ t.state = "exited" /\ sock[s].state = "open",
           UNCHANGED <<connection_queue, completed_queue, held, app>>,
           UNCHANGED <<netVars, recv, cur_len, assertion>>
    PROVE  QueueInv'
<1>1. /\ sock' \in [Sockets -> SockType] /\ sock'[s] = t
      /\ \A d \in Sockets \ {s} : sock'[d] = sock[d]
  BY DEF QueueInv, TypeOK
<1>2. \A d \in Sockets :
         /\ sock'[d].peer = sock[d].peer
         /\ sock'[d].state = "free" <=> sock[d].state = "free"
         /\ sock'[d].state \in {"open", "exited"} <=> sock[d].state \in {"open", "exited"}
         /\ sock'[d].state \in {"handshake", "completing"} =>
               sock[d].state \in {"handshake", "completing"}
  BY <1>1
<1>3. Pending' = Pending /\ \A k \in Pending : connection_queue[k].sd \in Sockets
  BY PendingFacts DEF Pending, WriteLocked
<1>4. TypeOK'
  BY <1>1 DEF QueueInv, TypeOK, netVars
<1>5. OnePlace'
  <2>1. \A k \in Pending' : InPlace(k)'
    BY <1>2, <1>3, OnePlaceParts, SMTT(30) DEF QueueInv, InPlace
  <2>2. Over' = Over
    BY <1>2, <1>3 DEF Over
  <2>3. NoneTwice' /\ Completed' = Completed
    BY OnePlaceParts DEF QueueInv, NoneTwice, Completed
  <2>4. \A j, k \in Pending' : connection_queue'[j].sd = connection_queue'[k].sd => j = k
    BY <1>3, OnePlaceParts DEF QueueInv
  <2>5. app'.pc \notin {"closing", "joining"} => Completed' = Over'
    BY <2>2, <2>3, OnePlaceParts DEF QueueInv
  <2> QED
    BY <2>1, <2>3, <2>4, <2>5, OnePlaceNext
<1>6. RecvInv'
  BY DEF QueueInv, RecvInv
<1>7. AppInv'
  BY <1>2, <1>3 DEF QueueInv, AppInv, Running
<1>8. SockInv'
  <2>1. held \subseteq Sockets
    BY DEF QueueInv, TypeOK
  <2> QED
    BY <1>2, <1>3, <2>1 DEF QueueInv, SockInv
<1> QED
  BY <1>4, <1>5, <1>6, <1>7, <1>8 DEF QueueInv, FindsItsSlot

\* transport_init() is over.
LEMMA HandshakeEndsStep ==
    ASSUME QueueInv, NEW s \in Sockets, HandshakeEnds(s) PROVE QueueInv'
<1>1. /\ sock[s].state = "handshake"
      /\ UNCHANGED <<connection_queue, completed_queue, held, app>>
      /\ UNCHANGED <<netVars, recv, cur_len, assertion>>
  BY DEF HandshakeEnds, queueVars
<1>2. PICK r \in BOOLEAN :
         sock' = [sock EXCEPT ![s].state = "completing", ![s].stcp_errno = r]
  BY DEF HandshakeEnds
<1>3. PICK t : t = [sock[s] EXCEPT !.state = "completing", !.stcp_errno = r]
  OBVIOUS
<1>4. sock \in [Sockets -> SockType]
  BY DEF QueueInv, TypeOK
<1>5. sock[s] \in SockType
  BY <1>4
<1>6. t \in SockType /\ t.state = "completing" /\ t.peer = sock[s].peer
  BY <1>3, <1>5 DEF SockType, SockStates
<1>7. sock' = [sock EXCEPT ![s] = t]
  BY <1>2, <1>3, <1>4
<1> QED
  BY <1>1, <1>6, <1>7, SockMoves

\* A transport thread exits.
LEMMA TransportExitsStep ==
    ASSUME QueueInv, NEW s \in Sockets, TransportExits(s) PROVE QueueInv'
<1>1. /\ sock[s].state = "open"
      /\ UNCHANGED <<connection_queue, completed_queue, held, app>>
      /\ UNCHANGED <<netVars, recv, cur_len, assertion>>
  BY DEF TransportExits, queueVars
<1>2. PICK t : t = [sock[s] EXCEPT !.state = "exited"]
  OBVIOUS
<1>3. sock \in [Sockets -> SockType]
  BY DEF QueueInv, TypeOK
<1>4. sock[s] \in SockType
  BY <1>3
<1>5. t \in SockType /\ t.state = "exited" /\ t.peer = sock[s].peer
  BY <1>2, <1>4 DEF SockType, SockStates
<1>6. sock' = [sock EXCEPT ![s] = t]
  BY <1>2, <1>3 DEF TransportExits
<1> QED
  BY <1>1, <1>5, <1>6, SockMoves

\* The application closes a connection it holds.
LEMMA CloseConnectionStep ==
    ASSUME QueueInv, NEW s \in Sockets, CloseConnection(s) PROVE QueueInv'
<1>1. /\ UNCHANGED <<connection_queue, completed_queue, held, app>>
      /\ UNCHANGED <<netVars, recv, cur_len, assertion>>
  BY DEF CloseConnection, queueVars
<1>2. PICK t : t = [sock[s] EXCEPT !.close_requested = TRUE]
  OBVIOUS
<1>3. sock \in [Sockets -> SockType]
  BY DEF QueueInv, TypeOK
<1>4. sock[s] \in SockType
  BY <1>3
<1>5. t \in SockType /\ t.state = sock[s].state /\ t.peer = sock[s].peer
  BY <1>2, <1>4 DEF SockType, SockStates
<1>6. sock' = [sock EXCEPT ![s] = t]
  BY <1>2, <1>3 DEF CloseConnection
<1> QED
  BY <1>1, <1>5, <1>6, SockMoves

\* A socket that is in no slot and with no myaccept() is given back.
LEMMA CloseConnectionReturnsStep ==
    ASSUME QueueInv, NEW s \in Sockets, CloseConnectionReturns(s) PROVE QueueInv'
<1>1. /\ s \in held /\ sock[s].state = "exited" /\ held' = held \ {s}
      /\ sock' = [sock EXCEPT ![s] = FreeSock]
      /\ UNCHANGED <<connection_queue, completed_queue, app>>
      /\ UNCHANGED <<netVars, recv, cur_len, assertion>>
  BY DEF CloseConnectionReturns, queueVars
<1>2. /\ sock' \in [Sockets -> SockType] /\ sock'[s] = FreeSock
      /\ \A d \in Sockets \ {s} : sock'[d] = sock[d]
  BY <1>1, Ranges DEF QueueInv, TypeOK
<1>3. TypeOK'
  BY <1>1, <1>2 DEF QueueInv, TypeOK, netVars
<1>4. /\ Pending' = Pending /\ \A k \in Pending : connection_queue[k].sd \in Sockets \ {s}
  <2>1. \A k \in Pending : connection_queue[k].sd # s
    BY <1>1, OnePlaceParts DEF QueueInv, InPlace
  <2> QED
    BY <1>1, <2>1, PendingFacts DEF Pending, WriteLocked
<1>5. OnePlace'
  <2>1. \A k \in Pending' : InPlace(k)'
    BY <1>1, <1>2, <1>4, OnePlaceParts DEF QueueInv, InPlace
  <2>2. Over' = Over
    BY <1>1, <1>2, <1>4 DEF Over
  <2>3. NoneTwice' /\ Completed' = Completed
    BY <1>1, OnePlaceParts DEF QueueInv, NoneTwice, Completed
  <2>4. \A j, k \in Pending' : connection_queue'[j].sd = connection_queue'[k].sd => j = k
    BY <1>1, <1>4, OnePlaceParts DEF QueueInv
  <2>5. app'.pc \notin {"closing", "joining"} => Completed' = Over'
    BY <1>1, <2>2, <2>3, OnePlaceParts DEF QueueInv
  <2> QED
    BY <2>1, <2>3, <2>4, <2>5, OnePlaceNext
<1>6. RecvInv'
  BY <1>1 DEF QueueInv, RecvInv
<1>7. AppInv'
  <2>1. app.pc \in {"clearing", "taking"} => app.sd \in Sockets \ {s}
    BY <1>1 DEF QueueInv, AppInv
  <2> QED
    BY <1>1, <1>2, <1>4, <2>1 DEF QueueInv, AppInv, Running
<1>8. SockInv'
  <2>1. FreeSock.state = "free" /\ held \subseteq Sockets
    BY Ranges DEF QueueInv, TypeOK
  <2> QED
    BY <1>1, <1>2, <1>4, <2>1 DEF QueueInv, SockInv
<1> QED
  BY <1>1, <1>3, <1>5, <1>6, <1>7, <1>8 DEF QueueInv, FindsItsSlot

\* stcp_unblock_application() finds the slot and adds it to completed_queue.
LEMMA CompleteStep ==
    ASSUME QueueInv, NEW s \in Sockets, Complete(s) PROVE QueueInv'
<1>1. /\ sock[s].state = "completing" /\ ~WriteLocked /\ app.pc \notin {"clearing", "taking"}
      /\ UNCHANGED <<connection_queue, held, app>> /\ UNCHANGED <<netVars, recv, cur_len>>
  BY DEF Complete, ConnectionLocked
<1>2. Pending' = Pending /\ Pending = {k \in Slots : connection_queue[k].sd \in Sockets}
  BY <1>1, PendingFacts DEF Pending, WriteLocked
<1>3. PICK n \in Pending : connection_queue[n].sd = s
  BY <1>1 DEF QueueInv, SockInv
<1>4. SlotsOf(s) = {n}
  <2>1. SlotsOf(s) \subseteq Pending /\ n \in SlotsOf(s)
    BY <1>2, <1>3 DEF SlotsOf
  <2>2. \A k \in SlotsOf(s) : k = n
    <3>1. \A k \in SlotsOf(s) : connection_queue[k].sd = connection_queue[n].sd
      BY <1>3 DEF SlotsOf
    <3> QED
      BY <1>3, <2>1, <3>1, OnePlaceParts DEF QueueInv
  <2> QED
    BY <2>1, <2>2
<1>5. Least(SlotsOf(s)) = n
  <2>1. {n} \subseteq Nat /\ {n} # {}
    BY <1>2, <1>3, Ranges
  <2>2. Least({n}) \in {n}
    BY <2>1, LeastExists
  <2> QED
    BY <1>4, <2>2
<1>6. PICK x \in {"open", "exited"} :
         /\ completed_queue' = Append(completed_queue, n)
         /\ sock' = [sock EXCEPT ![s].state = x] /\ assertion' = assertion
  <2>1. SlotsOf(s) # {}
    BY <1>4
  <2> QED
    BY <1>5, <2>1 DEF Complete
<1>7. PICK t : t = [sock[s] EXCEPT !.state = x]
  OBVIOUS
<1>8. sock \in [Sockets -> SockType]
  BY DEF QueueInv, TypeOK
<1>9. sock[s] \in SockType
  BY <1>8
<1>10. t \in SockType /\ t.state = x /\ t.peer = sock[s].peer
  BY <1>7, <1>9 DEF SockType, SockStates
<1>11. /\ sock' \in [Sockets -> SockType] /\ sock'[s] = t
       /\ \A d \in Sockets \ {s} : sock'[d] = sock[d]
  BY <1>6, <1>7, <1>8, <1>10
<1>12. /\ completed_queue \in Seq(Slots) /\ n \in Slots
       /\ completed_queue' \in Seq(Slots) /\ Len(completed_queue') = Len(completed_queue) + 1
       /\ completed_queue'[Len(completed_queue) + 1] = n
       /\ \A i \in 1 .. Len(completed_queue) : completed_queue'[i] = completed_queue[i]
       /\ Len(completed_queue) \in Nat
  BY <1>2, <1>3, <1>6, SMTT(30) DEF QueueInv, TypeOK
<1>13. TypeOK'
  BY <1>1, <1>6, <1>11, <1>12 DEF QueueInv, TypeOK, netVars
<1>14. \A k \in Pending \ {n} : connection_queue[k].sd \in Sockets \ {s}
  BY <1>2, <1>3, OnePlaceParts DEF QueueInv
<1>15. Completed = Over /\ n \notin Over
  <2>1. Completed = Over
    BY <1>1, OnePlaceParts DEF QueueInv, WriteLocked
  <2> QED
    BY <1>1, <1>3, <2>1 DEF Over
<1>16. OnePlace'
  <2>1. ASSUME NEW k \in Pending' PROVE InPlace(k)'
    <3>1. InPlace(k)
      BY <1>2, OnePlaceParts DEF QueueInv
    <3>2. CASE k = n
      BY <1>1, <1>3, <1>10, <1>11, <3>1, <3>2 DEF InPlace
    <3>3. CASE k # n
      BY <1>1, <1>2, <1>11, <1>14, <3>1, <3>3 DEF InPlace
    <3> QED
      BY <3>2, <3>3
  <2>2. \A j, k \in Pending' : connection_queue'[j].sd = connection_queue'[k].sd => j = k
    BY <1>1, <1>2, OnePlaceParts DEF QueueInv
  <2>3. Over' = Over \cup {n}
    <3>1. \A k \in Pending \ {n} : k \in Over' <=> k \in Over
      BY <1>1, <1>2, <1>11, <1>14 DEF Over
    <3>2. n \in Over'
      BY <1>1, <1>2, <1>3, <1>10, <1>11 DEF Over
    <3>3. Over \subseteq Pending /\ Over' \subseteq Pending
      BY <1>2 DEF Over
    <3> QED
      BY <3>1, <3>2, <3>3
  <2>4. Completed' = Completed \cup {n}
    <3>1. ASSUME NEW k PROVE k \in Completed' <=> k \in Completed \cup {n}
      BY <1>12, SMTT(30) DEF Completed
    <3> QED
      BY <3>1
  <2>5. NoneTwice'
    <3>1. \A i \in 1 .. Len(completed_queue) : completed_queue[i] # n
      BY <1>15 DEF Completed
    <3>2. NoneTwice
      BY OnePlaceParts DEF QueueInv
    <3>3. ASSUME NEW i \in 1 .. Len(completed_queue) + 1, NEW j \in 1 .. Len(completed_queue) + 1,
                 completed_queue'[i] = completed_queue'[j]
          PROVE  i = j
      <4>1. /\ i \in 1 .. Len(completed_queue) \/ i = Len(completed_queue) + 1
            /\ j \in 1 .. Len(completed_queue) \/ j = Len(completed_queue) + 1
        BY <1>12, SMTT(30)
      <4> QED
        BY <1>12, <3>1, <3>2, <3>3, <4>1 DEF NoneTwice
    <3> QED
      BY <1>12, <3>3 DEF NoneTwice
  <2> QED
    BY <1>15, <2>1, <2>2, <2>3, <2>4, <2>5, OnePlaceNext
<1>17. RecvInv'
  BY <1>1 DEF QueueInv, RecvInv
<1>18. AppInv'
  BY <1>1, <1>2 DEF QueueInv, AppInv, Running
<1>19. SockInv'
  <2>1. ASSUME NEW d \in Sockets, sock'[d].state \in {"handshake", "completing"}
        PROVE  \E k \in Pending' : connection_queue'[k].sd = d
    <3>1. d # s
      BY <1>10, <1>11, <2>1
    <3> QED
      BY <1>1, <1>2, <1>11, <2>1, <3>1 DEF QueueInv, SockInv
  <2>2. \A d \in held' : sock'[d].state \in {"open", "exited"}
    BY <1>1, <1>10, <1>11 DEF QueueInv, SockInv, TypeOK
  <2> QED
    BY <2>1, <2>2 DEF SockInv
<1> QED
  BY <1>6, <1>13, <1>16, <1>17, <1>18, <1>19 DEF QueueInv, FindsItsSlot

-----------------------------------------------------------------------------
(* Steps of the application.                                               *)

\* The application moves on, and no connection leaves or changes its place.
LEMMA AppMoves ==
    ASSUME QueueInv, UNCHANGED <<connection_queue, completed_queue, held>>,
           UNCHANGED <<netVars, recv, cur_len, assertion>>, app' \in AppType, Pending' = Pending,
           sock' \in [Sockets -> SockType],
           \A d \in Sockets : sock'[d].state = sock[d].state /\ sock'[d].peer = sock[d].peer,
           app.pc # "clearing", app'.pc \in {"accepting", "stopping", "closing", "joining"},
           app.pc \in {"closing", "joining"} => app'.pc \in {"closing", "joining"},
           app'.pc \in {"closing", "joining"} => app'.k >= 1 /\ recv.pc = "stopped",
           app'.pc = "joining" => /\ app'.k \in Slots /\ app'.sd \in Sockets
                                  /\ connection_queue[app'.k].sd = app'.sd
    PROVE  QueueInv'
<1>1. TypeOK'
  BY DEF QueueInv, TypeOK, netVars
<1>2. \A k \in Pending : connection_queue[k].sd \in Sockets
  BY PendingFacts
<1>3. OnePlace'
  <2>1. \A k \in Pending' : InPlace(k)'
    BY <1>2, OnePlaceParts DEF QueueInv, InPlace
  <2>2. Over' = Over
    BY <1>2 DEF Over
  <2>3. NoneTwice' /\ Completed' = Completed
    BY OnePlaceParts DEF QueueInv, NoneTwice, Completed
  <2>4. \A j, k \in Pending' : connection_queue'[j].sd = connection_queue'[k].sd => j = k
    BY OnePlaceParts DEF QueueInv
  <2>5. app'.pc \notin {"closing", "joining"} => Completed' = Over'
    BY <2>2, <2>3, OnePlaceParts DEF QueueInv
  <2> QED
    BY <2>1, <2>3, <2>4, <2>5, OnePlaceNext
<1>4. RecvInv'
  BY DEF QueueInv, RecvInv
<1>5. AppInv'
  BY DEF QueueInv, AppInv
<1>6. SockInv'
  BY DEF QueueInv, SockInv, TypeOK
<1> QED
  BY <1>1, <1>3, <1>4, <1>5, <1>6 DEF QueueInv, FindsItsSlot

\* The application calls myaccept() or myclose().
LEMMA AppStartsStep ==
    ASSUME QueueInv, AcceptStarts \/ CloseListener PROVE QueueInv'
<1>1. /\ UNCHANGED <<connection_queue, completed_queue, held>>
      /\ UNCHANGED <<netVars, recv, cur_len, assertion>> /\ sock' = sock /\ app.pc = "ready"
  BY DEF AcceptStarts, CloseListener, queueVars
<1>2. PICK x \in {"accepting", "stopping"} : app' = [app EXCEPT !.pc = x]
  BY DEF AcceptStarts, CloseListener
<1>3. app \in AppType /\ x \in AppPcs /\ sock \in [Sockets -> SockType]
  BY DEF QueueInv, TypeOK, AppPcs
<1>4. app' \in AppType
  BY <1>2, <1>3, AppFields
<1>5. app'.pc = x
  BY <1>2, <1>3 DEF AppType
<1>6. Pending' = Pending
  BY <1>1, <1>5 DEF Pending, WriteLocked
<1> QED
  BY <1>1, <1>3, <1>4, <1>5, <1>6, AppMoves

\* myclose() of the listener takes the lock for writing.
LEMMA LockTableStep ==
    ASSUME QueueInv, LockTable PROVE QueueInv'
<1>1. /\ UNCHANGED <<connection_queue, completed_queue, held>>
      /\ UNCHANGED <<netVars, recv, cur_len, assertion>> /\ sock' = sock
      /\ app.pc = "stopping" /\ recv.pc = "stopped"
      /\ app' = [app EXCEPT !.pc = "closing", !.k = 1]
  BY DEF LockTable, queueVars
<1>2. /\ app \in AppType /\ "closing" \in AppPcs /\ sock \in [Sockets -> SockType]
      /\ 1 \in 0 .. MaxLen + 1
  BY Ranges, SMTT(30) DEF QueueInv, TypeOK, AppPcs
<1>3. app' \in AppType
  BY <1>1, <1>2, AppFields
<1>4. app'.pc = "closing" /\ app'.k = 1
  BY <1>1, <1>2 DEF AppType
<1>5. Pending' = Pending
  <2>1. \A k \in Slots : ~(k < 1)
    BY Ranges, SMTT(30)
  <2> QED
    BY <1>1, <1>4, <2>1 DEF Pending, WriteLocked
<1> QED
  BY <1>1, <1>2, <1>3, <1>4, <1>5, AppMoves, SMTT(30)

\* myclose() of the listener goes to the next slot.
LEMMA CloseQueuedStep ==
    ASSUME QueueInv, CloseQueued PROVE QueueInv'
<1>1. /\ UNCHANGED <<connection_queue, completed_queue, held>>
      /\ UNCHANGED <<netVars, recv, cur_len, assertion>>
      /\ app.pc = "closing" /\ app.k <= MaxLen
  BY DEF CloseQueued, queueVars
<1>2. /\ app \in AppType /\ "joining" \in AppPcs /\ sock \in [Sockets -> SockType]
  BY DEF QueueInv, TypeOK, AppPcs
<1>3. /\ app.k \in Slots /\ app.k \in Nat /\ app.k + 1 \in 0 .. MaxLen + 1 /\ app.k + 1 >= 1
      /\ app.k >= 1 /\ recv.pc = "stopped"
  BY <1>1, <1>2, Ranges, SMTT(30) DEF QueueInv, AppInv, RecvInv, AppType, Slots
<1>4. CASE connection_queue[app.k].sd = -1
  <2>1. app' = [app EXCEPT !.k = app.k + 1] /\ sock' = sock
    BY <1>4 DEF CloseQueued
  <2>2. app' \in AppType
    BY <1>2, <1>3, <2>1, AppFields
  <2>3. app'.pc = "closing" /\ app'.k = app.k + 1
    BY <1>1, <1>2, <2>1 DEF AppType
  <2>4. Pending' = Pending
    <3>1. ASSUME NEW k \in Slots, connection_queue[k].sd \in Sockets
          PROVE  k < app.k <=> k < app.k + 1
      <4>1. k # app.k
        BY <1>4, <3>1, Ranges
      <4> QED
        BY <1>3, <4>1, Ranges, SMTT(30)
    <3> QED
      BY <1>1, <2>3, <3>1 DEF Pending, WriteLocked
  <2> QED
    BY <1>1, <1>2, <1>3, <2>1, <2>2, <2>3, <2>4, AppMoves
<1>5. CASE connection_queue[app.k].sd # -1
  <2>1. PICK s : s = connection_queue[app.k].sd
    OBVIOUS
  <2>2. /\ app' = [app EXCEPT !.pc = "joining", !.sd = s]
        /\ sock' = [sock EXCEPT ![s].close_requested = TRUE]
    BY <1>5, <2>1 DEF CloseQueued
  <2>3. s \in Sockets
    <3>1. connection_queue[app.k].sd \in Sockets \cup {-1, 0}
      BY <1>3 DEF QueueInv, TypeOK, SlotType
    <3>2. connection_queue[app.k].sd # 0
      BY <1>1, <1>3 DEF QueueInv, AppInv
    <3> QED
      BY <1>5, <2>1, <3>1, <3>2
  <2>4. app' \in AppType
    BY <1>2, <2>2, <2>3, AppFields
  <2>5. app'.pc = "joining" /\ app'.sd = s /\ app'.k = app.k
    BY <1>2, <2>2 DEF AppType
  <2>6. Pending' = Pending
    BY <1>1, <2>5 DEF Pending, WriteLocked
  <2>7. PICK t : t = [sock[s] EXCEPT !.close_requested = TRUE]
    OBVIOUS
  <2>8. t \in SockType /\ t.state = sock[s].state /\ t.peer = sock[s].peer
    <3>1. sock[s] \in SockType
      BY <1>2, <2>3
    <3> QED
      BY <2>7, <3>1 DEF SockType, SockStates
  <2>9. /\ sock' \in [Sockets -> SockType] /\ sock'[s] = t
        /\ \A d \in Sockets \ {s} : sock'[d] = sock[d]
    BY <1>2, <2>2, <2>3, <2>7, <2>8
  <2>10. \A d \in Sockets : sock'[d].state = sock[d].state /\ sock'[d].peer = sock[d].peer
    BY <2>8, <2>9
  <2> QED
    BY <1>1, <1>3, <2>1, <2>3, <2>4, <2>5, <2>6, <2>9, <2>10, AppMoves
<1> QED
  BY <1>4, <1>5

\* The thread of a queued connection was joined.
LEMMA CloseQueuedReturnsStep ==
    ASSUME QueueInv, CloseQueuedReturns PROVE QueueInv'
<1>1. /\ UNCHANGED <<connection_queue, completed_queue, held>>
      /\ UNCHANGED <<netVars, recv, cur_len, assertion>> /\ app.pc = "joining"
      /\ sock[app.sd].state = "exited" /\ sock' = [sock EXCEPT ![app.sd] = FreeSock]
      /\ app' = [app EXCEPT !.pc = "closing", !.sd = 0, !.k = app.k + 1]
  BY DEF CloseQueuedReturns, queueVars
<1>2. PICK s, n : s = app.sd /\ n = app.k
  OBVIOUS
<1>3. /\ n \in Slots /\ s \in Sockets /\ connection_queue[n].sd = s /\ recv.pc = "stopped"
      /\ n \in Nat /\ n + 1 \in 0 .. MaxLen + 1 /\ n + 1 >= 1 /\ n <= MaxLen
  BY <1>1, <1>2, Ranges, SMTT(30) DEF QueueInv, AppInv, RecvInv
<1>4. app \in AppType /\ "closing" \in AppPcs /\ 0 \in Sockets \cup {0}
  BY DEF QueueInv, TypeOK, AppPcs
<1>5. app' \in AppType
  BY <1>1, <1>2, <1>3, <1>4, AppFields
<1>6. app'.pc = "closing" /\ app'.k = n + 1
  BY <1>1, <1>2, <1>4 DEF AppType
<1>7. /\ sock' \in [Sockets -> SockType] /\ sock'[s] = FreeSock
      /\ \A d \in Sockets \ {s} : sock'[d] = sock[d]
  BY <1>1, <1>2, <1>3, Ranges DEF QueueInv, TypeOK
<1>8. TypeOK'
  BY <1>1, <1>5, <1>7 DEF QueueInv, TypeOK, netVars
<1>9. n \in Pending /\ Pending' = Pending \ {n}
  <2>1. n \in Pending
    BY <1>1, <1>2, <1>3, SMTT(30) DEF Pending
  <2>2. \A k \in Slots : k < n + 1 <=> k < n \/ k = n
    BY <1>3, Ranges, SMTT(30)
  <2> QED
    BY <1>1, <1>2, <1>6, <2>1, <2>2 DEF Pending, WriteLocked
<1>10. \A k \in Pending \ {n} : connection_queue[k].sd \in Sockets \ {s}
  BY <1>3, <1>9, PendingFacts, OnePlaceParts DEF QueueInv
<1>11. OnePlace'
  <2>1. \A k \in Pending' : InPlace(k)'
    BY <1>1, <1>7, <1>9, <1>10, OnePlaceParts DEF QueueInv, InPlace
  <2>2. NoneTwice'
    BY <1>1, OnePlaceParts DEF QueueInv, NoneTwice
  <2>3. \A j, k \in Pending' : connection_queue'[j].sd = connection_queue'[k].sd => j = k
    BY <1>1, <1>9, OnePlaceParts DEF QueueInv
  <2> QED
    BY <1>6, <2>1, <2>2, <2>3, OnePlaceNext
<1>12. RecvInv'
  BY <1>1, <1>3, <1>6 DEF RecvInv
<1>13. AppInv'
  BY <1>1, <1>3, <1>6 DEF QueueInv, AppInv
<1>14. SockInv'
  <2>1. ASSUME NEW d \in Sockets, sock'[d].state \in {"handshake", "completing"}
        PROVE  \E k \in Pending' : connection_queue'[k].sd = d
    <3>1. d # s
      BY <1>7, <2>1, Ranges
    <3>2. PICK k \in Pending : connection_queue[k].sd = d
      BY <1>7, <2>1, <3>1 DEF QueueInv, SockInv
    <3> QED
      BY <1>1, <1>3, <1>9, <3>1, <3>2
  <2>2. s \notin held
    BY <1>3, <1>9, OnePlaceParts DEF QueueInv, InPlace
  <2>3. \A d \in held' : sock'[d].state \in {"open", "exited"}
    BY <1>1, <1>7, <2>2 DEF QueueInv, SockInv, TypeOK
  <2> QED
    BY <2>1, <2>3 DEF SockInv
<1> QED
  BY <1>1, <1>8, <1>11, <1>12, <1>13, <1>14 DEF QueueInv, FindsItsSlot

\* myclose() of the listener returns.
LEMMA CloseListenerReturnsStep ==
    ASSUME QueueInv, CloseListenerReturns PROVE QueueInv'
<1>1. /\ UNCHANGED <<sock, held>> /\ UNCHANGED <<netVars, recv, assertion>>
      /\ app.pc = "closing" /\ app.k > MaxLen /\ app' = [app EXCEPT !.pc = "closed"]
      /\ connection_queue' = [k \in Slots |-> FreeSlot]
      /\ completed_queue' = <<>> /\ cur_len' = 0
  BY DEF CloseListenerReturns
<1>2. app \in AppType /\ "closed" \in AppPcs
  BY DEF QueueInv, TypeOK, AppPcs
<1>3. app' \in AppType
  BY <1>1, <1>2, AppFields
<1>4. app'.pc = "closed"
  BY <1>1, <1>2 DEF AppType
<1>5. TypeOK'
  BY <1>1, <1>3, Ranges, SMTT(30) DEF QueueInv, TypeOK, netVars
<1>6. \A k \in Slots : connection_queue'[k].sd = -1
  BY <1>1, Ranges
<1>7. Pending' = {}
  BY <1>6, Ranges DEF Pending
<1>8. Pending = {}
  <2>1. app.k \in Nat /\ \A k \in Slots : k < app.k
    BY <1>1, <1>2, Ranges, SMTT(30) DEF AppType
  <2> QED
    BY <1>1, <2>1 DEF Pending, WriteLocked
<1>9. OnePlace'
  <2>1. Len(completed_queue') = 0
    BY <1>1
  <2>2. 1 .. Len(completed_queue') = {}
    BY <2>1, SMTT(30)
  <2>3. NoneTwice' /\ Completed' = {}
    BY <2>2 DEF NoneTwice, Completed
  <2>4. Over' = {}
    BY <1>7 DEF Over
  <2> QED
    BY <1>7, <2>3, <2>4, OnePlaceNext
<1>10. RecvInv'
  BY <1>1 DEF QueueInv, RecvInv
<1>11. AppInv'
  BY <1>4, <1>6, SMTT(30) DEF AppInv
<1>12. SockInv'
  BY <1>1, <1>8 DEF QueueInv, SockInv
<1> QED
  BY <1>1, <1>5, <1>9, <1>10, <1>11, <1>12 DEF QueueInv, FindsItsSlot

\* The head of completed_queue leaves it.
LEMMA TailNames ==
    ASSUME NEW q \in Seq(Slots), q # <<>>,
           \A i, j \in 1 .. Len(q) : q[i] = q[j] => i = j
    PROVE  /\ Head(q) = q[1] /\ 1 \in 1 .. Len(q) /\ Tail(q) \in Seq(Slots)
           /\ \A i, j \in 1 .. Len(Tail(q)) : Tail(q)[i] = Tail(q)[j] => i = j
           /\ \A x : (\E i \in 1 .. Len(Tail(q)) : x = Tail(q)[i])
                        <=> x # q[1] /\ \E i \in 1 .. Len(q) : x = q[i]
<1>1. PICK r : r = Tail(q)
  OBVIOUS
<1>2. PICK n : n = Len(q)
  OBVIOUS
<1>3. n \in Nat \ {0} /\ r \in Seq(Slots) /\ Len(r) = n - 1 /\ Head(q) = q[1]
  BY <1>1, <1>2, SMTT(30)
<1>4. \A i \in 1 .. n - 1 : r[i] = q[i + 1]
  BY <1>1, <1>2, <1>3, SMTT(30)
<1>5. ASSUME NEW i \in 1 .. n - 1, NEW j \in 1 .. n - 1, r[i] = r[j] PROVE i = j
  <2>1. i + 1 \in 1 .. n /\ j + 1 \in 1 .. n /\ i \in Int /\ j \in Int
    BY <1>3, SMTT(30)
  <2>2. i + 1 = j + 1
    BY <1>2, <1>4, <1>5, <2>1
  <2> QED
    BY <2>1, <2>2, SMTT(30)
<1>6. ASSUME NEW i \in 1 .. n - 1 PROVE \E j \in 1 .. n : r[i] = q[j] /\ q[j] # q[1]
  <2>1. i + 1 \in 1 .. n /\ 1 \in 1 .. n /\ i + 1 # 1
    BY <1>3, SMTT(30)
  <2> QED
    BY <1>2, <1>4, <2>1
<1>7. ASSUME NEW j \in 1 .. n, q[j] # q[1] PROVE \E i \in 1 .. n - 1 : r[i] = q[j]
  <2>1. j # 1
    BY <1>7
  <2>2. j - 1 \in 1 .. n - 1 /\ (j - 1) + 1 = j
    BY <1>3, <2>1, SMTT(30)
  <2>3. r[j - 1] = q[j]
    BY <1>4, <2>2
  <2> QED
    BY <2>2, <2>3
<1>8. 1 \in 1 .. n
  BY <1>3, SMTT(30)
<1>9. ASSUME NEW x
      PROVE  (\E i \in 1 .. n - 1 : x = r[i]) <=> x # q[1] /\ \E i \in 1 .. n : x = q[i]
  <2>1. ASSUME NEW i \in 1 .. n - 1, x = r[i]
        PROVE  x # q[1] /\ \E j \in 1 .. n : x = q[j]
    BY <1>6, <2>1
  <2>2. ASSUME NEW j \in 1 .. n, x = q[j], x # q[1] PROVE \E i \in 1 .. n - 1 : x = r[i]
    BY <1>7, <2>2
  <2> QED
    BY <2>1, <2>2
<1>10. 1 .. Len(r) = 1 .. n - 1
  BY <1>3
<1>11. \A i, j \in 1 .. Len(r) : r[i] = r[j] => i = j
  BY <1>5, <1>10
<1>12. \A x : (\E i \in 1 .. Len(r) : x = r[i]) <=> x # q[1] /\ \E i \in 1 .. n : x = q[i]
  BY <1>9, <1>10
<1>13. r \in Seq(Slots) /\ Head(q) = q[1]
  BY <1>3
<1>14. \A i, j \in 1 .. Len(Tail(q)) : Tail(q)[i] = Tail(q)[j] => i = j
  BY ONLY <1>1, <1>11, Zenon
<1>15. \A x : (\E i \in 1 .. Len(Tail(q)) : x = Tail(q)[i])
                <=> x # q[1] /\ \E i \in 1 .. Len(q) : x = q[i]
  BY ONLY <1>1, <1>2, <1>12, Zenon
<1>16. Head(q) = q[1] /\ 1 \in 1 .. Len(q) /\ Tail(q) \in Seq(Slots)
  BY ONLY <1>1, <1>2, <1>8, <1>13, Zenon
<1> QED
  BY <1>14, <1>15, <1>16

\* myaccept() takes a connection and clears its slot.
LEMMA AcceptTakesStep ==
    ASSUME QueueInv, AcceptTakes PROVE QueueInv'
<1>1. PICK n, s : n = Head(completed_queue) /\ s = connection_queue[n].sd
  OBVIOUS
<1>2. /\ Running /\ app.pc = "accepting" /\ completed_queue # <<>>
      /\ completed_queue' = Tail(completed_queue)
      /\ app' = [app EXCEPT !.pc = "clearing", !.sd = s, !.k = n]
      /\ connection_queue' = [connection_queue EXCEPT ![n] = ClearedSlot]
      /\ UNCHANGED <<netVars, recv, cur_len, assertion>> /\ UNCHANGED <<sock, held>>
  BY <1>1 DEF AcceptTakes
<1>3. completed_queue \in Seq(Slots) /\ NoneTwice /\ Completed = Over /\ ~WriteLocked
  BY <1>2, OnePlaceParts DEF QueueInv, TypeOK, WriteLocked
<1>4. /\ n = completed_queue[1] /\ 1 \in 1 .. Len(completed_queue)
      /\ completed_queue' \in Seq(Slots) /\ NoneTwice'
      /\ \A x : x \in Completed' <=> x \in Completed \ {n}
  <2>1. PICK q : q = completed_queue
    OBVIOUS
  <2>2. q \in Seq(Slots) /\ q # <<>> /\ \A i, j \in 1 .. Len(q) : q[i] = q[j] => i = j
    BY <1>2, <1>3, <2>1 DEF NoneTwice
  <2>3. /\ Head(q) = q[1] /\ 1 \in 1 .. Len(q) /\ Tail(q) \in Seq(Slots)
        /\ \A i, j \in 1 .. Len(Tail(q)) : Tail(q)[i] = Tail(q)[j] => i = j
        /\ \A x : (\E i \in 1 .. Len(Tail(q)) : x = Tail(q)[i])
                     <=> x # q[1] /\ \E i \in 1 .. Len(q) : x = q[i]
    BY <2>2, TailNames
  <2>4. completed_queue' = Tail(q) /\ n = q[1]
    BY <1>1, <1>2, <2>1, <2>3
  <2>5. NoneTwice'
    BY <2>3, <2>4 DEF NoneTwice
  <2>6. /\ \A x : x \in Completed' <=> \E i \in 1 .. Len(Tail(q)) : x = Tail(q)[i]
        /\ \A x : x \in Completed <=> \E i \in 1 .. Len(q) : x = q[i]
    BY <2>1, <2>4 DEF Completed
  <2>7. ASSUME NEW x PROVE x \in Completed' <=> x \in Completed \ {n}
    BY ONLY <2>3, <2>4, <2>6
  <2>8. /\ n = completed_queue[1] /\ 1 \in 1 .. Len(completed_queue)
        /\ completed_queue' \in Seq(Slots)
    BY <2>1, <2>3, <2>4
  <2> QED
    BY <2>5, <2>7, <2>8
<1>5. n \in Over
  BY <1>3, <1>4 DEF Completed
<1>6. /\ n \in Pending /\ n \in Slots /\ s \in Sockets /\ sock[s].state \in {"open", "exited"}
  BY <1>1, <1>5, PendingFacts DEF Over
<1>7. app \in AppType /\ "clearing" \in AppPcs /\ n \in 0 .. MaxLen + 1
  BY <1>6, Ranges DEF QueueInv, TypeOK, AppPcs
<1>8. app' \in AppType
  BY <1>2, <1>6, <1>7, AppFields
<1>9. app'.pc = "clearing" /\ app'.sd = s /\ app'.k = n
  BY <1>2, <1>7 DEF AppType
<1>10. /\ connection_queue' \in [Slots -> SlotType] /\ connection_queue'[n] = ClearedSlot
       /\ \A k \in Slots \ {n} : connection_queue'[k] = connection_queue[k]
  BY <1>2, <1>6, Ranges DEF QueueInv, TypeOK
<1>11. TypeOK'
  BY <1>2, <1>4, <1>8, <1>10 DEF QueueInv, TypeOK, netVars
<1>12. Pending' = Pending \ {n} /\ Pending \subseteq Slots
  <2>1. Pending = {k \in Slots : connection_queue[k].sd \in Sockets}
    BY <1>3, PendingFacts
  <2>2. Pending' = {k \in Slots : connection_queue'[k].sd \in Sockets}
    BY <1>9 DEF Pending, WriteLocked
  <2>3. connection_queue'[n].sd \notin Sockets
    BY <1>10, Ranges
  <2> QED
    BY <1>10, <2>1, <2>2, <2>3, SMTT(30)
<1>13. \A k \in Pending' : connection_queue'[k] = connection_queue[k] /\ connection_queue[k].sd # s
  <2>1. \A k \in Pending \ {n} : connection_queue[k].sd # s
    BY <1>1, <1>6, OnePlaceParts DEF QueueInv
  <2> QED
    BY <1>10, <1>12, <2>1
<1>14. OnePlace'
  <2>1. \A k \in Pending' : InPlace(k)'
    BY <1>2, <1>12, <1>13, OnePlaceParts, SMTT(30) DEF QueueInv, InPlace
  <2>2. \A j, k \in Pending' : connection_queue'[j].sd = connection_queue'[k].sd => j = k
    <3>1. \A j, k \in Pending : connection_queue[j].sd = connection_queue[k].sd => j = k
      BY OnePlaceParts DEF QueueInv
    <3>2. \A k \in Pending' : k \in Pending /\ connection_queue'[k].sd = connection_queue[k].sd
      BY <1>12, <1>13
    <3> QED
      BY <3>1, <3>2
  <2>3. Over' = Over \ {n}
    BY <1>2, <1>12, <1>13 DEF Over
  <2>4. Completed' = Over'
    BY <1>3, <1>4, <2>3
  <2> QED
    BY <1>4, <2>1, <2>2, <2>4, OnePlaceNext
<1>15. RecvInv'
  <2>1. recv.pc \in {"load", "store", "create"} => recv.slot \in Slots \ {n}
    BY <1>1, <1>6, Ranges DEF QueueInv, RecvInv
  <2> QED
    BY <1>2, <1>9, <1>10, <2>1 DEF QueueInv, RecvInv
<1>16. AppInv'
  <2>1. \A k \in Slots : connection_queue'[k].sd = 0 => k = n
    BY <1>2, <1>10 DEF QueueInv, AppInv
  <2>2. connection_queue'[n].sd = 0
    BY <1>10, Ranges
  <2>3. s \notin held
    BY <1>1, <1>6, OnePlaceParts DEF QueueInv, InPlace
  <2> QED
    BY <1>2, <1>6, <1>9, <1>13, <2>1, <2>2, <2>3, SMTT(30) DEF AppInv
<1>17. SockInv'
  <2>1. ASSUME NEW d \in Sockets, sock'[d].state \in {"handshake", "completing"}
        PROVE  \E k \in Pending' : connection_queue'[k].sd = d
    <3>1. d # s
      BY <1>2, <1>6, <2>1
    <3>2. PICK k \in Pending : connection_queue[k].sd = d
      BY <1>2, <2>1 DEF QueueInv, SockInv
    <3> QED
      BY <1>1, <1>12, <1>13, <3>1, <3>2
  <2> QED
    BY <1>2, <2>1 DEF QueueInv, SockInv
<1> QED
  BY <1>2, <1>11, <1>14, <1>15, <1>16, <1>17 DEF QueueInv, FindsItsSlot

\* myaccept() frees the slot and loads cur_len.
LEMMA AcceptFreesStep ==
    ASSUME QueueInv, AcceptFrees PROVE QueueInv'
<1>1. PICK n : n = app.k
  OBVIOUS
<1>2. /\ Running /\ app.pc = "clearing"
      /\ connection_queue' = [connection_queue EXCEPT ![n] = FreeSlot]
      /\ UNCHANGED <<netVars, recv, cur_len>> /\ UNCHANGED <<completed_queue, sock, held>>
      /\ \/ /\ cur_len > 0 /\ app' = [app EXCEPT !.pc = "taking", !.count = cur_len, !.k = 0]
            /\ assertion' = assertion
         \/ app' = app /\ assertion' = "cur_len"
  BY <1>1 DEF AcceptFrees
<1>3. n \in Slots /\ connection_queue[n].sd = 0
  BY <1>1, <1>2 DEF QueueInv, AppInv
<1>4. /\ app \in AppType /\ "taking" \in AppPcs /\ cur_len \in 0 .. CountMod - 1
      /\ 0 \in 0 .. MaxLen + 1
  BY Ranges, SMTT(30) DEF QueueInv, TypeOK, AppPcs
<1>5. /\ app' \in AppType /\ app'.sd = app.sd
      /\ \/ app'.pc = "taking" /\ app'.count > 0
         \/ app' = app /\ ~Running'
  <2>1. [app EXCEPT !.pc = "taking", !.count = cur_len, !.k = 0] \in AppType
    BY <1>4, AppFields
  <2>2. /\ [app EXCEPT !.pc = "taking", !.count = cur_len, !.k = 0].pc = "taking"
        /\ [app EXCEPT !.pc = "taking", !.count = cur_len, !.k = 0].sd = app.sd
        /\ [app EXCEPT !.pc = "taking", !.count = cur_len, !.k = 0].count = cur_len
    BY <1>4 DEF AppType
  <2> QED
    BY <1>2, <1>4, <2>1, <2>2 DEF Running
<1>6. /\ connection_queue' \in [Slots -> SlotType] /\ connection_queue'[n].sd = -1
      /\ \A k \in Slots \ {n} : connection_queue'[k] = connection_queue[k]
  BY <1>2, <1>3, Ranges DEF QueueInv, TypeOK
<1>7. TypeOK'
  BY <1>2, <1>5, <1>6 DEF QueueInv, TypeOK, netVars, Asserts
<1>8. ~WriteLocked /\ ~WriteLocked' /\ app'.pc \in {"clearing", "taking"}
  BY <1>2, <1>5 DEF WriteLocked
<1>9. Pending' = Pending /\ \A k \in Pending : connection_queue'[k] = connection_queue[k]
  <2>1. Pending = {k \in Slots : connection_queue[k].sd \in Sockets}
    BY <1>8, PendingFacts
  <2>2. Pending' = {k \in Slots : connection_queue'[k].sd \in Sockets}
    BY <1>8 DEF Pending
  <2>3. connection_queue'[n].sd \notin Sockets /\ connection_queue[n].sd \notin Sockets
    BY <1>3, <1>6, Ranges
  <2> QED
    BY <1>6, <2>1, <2>2, <2>3
<1>10. OnePlace'
  <2>1. \A k \in Pending' : InPlace(k)'
    BY <1>2, <1>9, OnePlaceParts, SMTT(30) DEF QueueInv, InPlace
  <2>2. \A j, k \in Pending' : connection_queue'[j].sd = connection_queue'[k].sd => j = k
    <3>1. \A j, k \in Pending : connection_queue[j].sd = connection_queue[k].sd => j = k
      BY OnePlaceParts DEF QueueInv
    <3>2. \A k \in Pending' : k \in Pending /\ connection_queue'[k].sd = connection_queue[k].sd
      BY <1>9
    <3> QED
      BY <3>1, <3>2
  <2>3. NoneTwice' /\ Completed' = Completed
    BY <1>2, OnePlaceParts DEF QueueInv, NoneTwice, Completed
  <2>4. Over' = Over
    BY <1>2, <1>9 DEF Over
  <2>5. Completed = Over
    BY <1>2, OnePlaceParts DEF QueueInv
  <2> QED
    BY <2>1, <2>2, <2>3, <2>4, <2>5, OnePlaceNext
<1>11. RecvInv'
  BY <1>2, <1>6, <1>8 DEF QueueInv, RecvInv
<1>12. AppInv'
  <2>1. \A k \in Slots : connection_queue'[k].sd # 0
    BY <1>1, <1>2, <1>6, SMTT(30) DEF QueueInv, AppInv
  <2> QED
    BY <1>1, <1>2, <1>3, <1>5, <1>9, <2>1 DEF QueueInv, AppInv
<1>13. SockInv'
  BY <1>2, <1>9, SMTT(30) DEF QueueInv, SockInv
<1> QED
  BY <1>2, <1>7, <1>10, <1>11, <1>12, <1>13 DEF QueueInv, FindsItsSlot

\* myaccept() stores cur_len and returns.
LEMMA AcceptReturnsStep ==
    ASSUME QueueInv, AcceptReturns PROVE QueueInv'
<1>1. /\ app.pc = "taking" /\ cur_len' = app.count - 1 /\ app' = IdleApp
      /\ held' \in {held, held \cup {app.sd}}
      /\ UNCHANGED <<connection_queue, completed_queue, sock>>
      /\ UNCHANGED <<netVars, recv, assertion>>
  BY DEF AcceptReturns
<1>2. /\ app.sd \in Sockets /\ sock[app.sd].state \in {"open", "exited"} /\ app.count > 0
      /\ \A k \in Pending : connection_queue[k].sd # app.sd
  BY <1>1 DEF QueueInv, AppInv
<1>3. cur_len' \in 0 .. CountMod - 1
  <2>1. app.count \in 0 .. CountMod - 1
    BY DEF QueueInv, TypeOK, AppType
  <2> QED
    BY <1>1, <1>2, <2>1, Ranges, SMTT(30)
<1>4. IdleApp.pc = "ready"
  BY DEF IdleApp
<1>5. TypeOK'
  BY <1>1, <1>2, <1>3, Ranges DEF QueueInv, TypeOK, netVars
<1>6. Pending' = Pending
  BY <1>1, <1>4 DEF Pending, WriteLocked
<1>7. OnePlace'
  <2>1. \A k \in Pending' : InPlace(k)'
    BY <1>1, <1>2, <1>6, OnePlaceParts DEF QueueInv, InPlace
  <2>2. \A j, k \in Pending' : connection_queue'[j].sd = connection_queue'[k].sd => j = k
    BY <1>1, <1>6, OnePlaceParts DEF QueueInv
  <2>3. NoneTwice' /\ Completed' = Completed
    BY <1>1, OnePlaceParts DEF QueueInv, NoneTwice, Completed
  <2>4. Over' = Over
    BY <1>1, <1>6 DEF Over
  <2>5. Completed = Over
    BY <1>1, OnePlaceParts DEF QueueInv
  <2> QED
    BY <2>1, <2>2, <2>3, <2>4, <2>5, OnePlaceNext
<1>8. RecvInv'
  BY <1>1, <1>4 DEF QueueInv, RecvInv
<1>9. AppInv'
  BY <1>1, <1>4 DEF QueueInv, AppInv
<1>10. SockInv'
  BY <1>1, <1>2, <1>6 DEF QueueInv, SockInv
<1> QED
  BY <1>1, <1>5, <1>7, <1>8, <1>9, <1>10 DEF QueueInv, FindsItsSlot

-----------------------------------------------------------------------------
(* The theorems.                                                           *)

\* The invariant holds when the socket starts to listen.
LEMMA InitQueue == ASSUME Init PROVE QueueInv
<1>1. /\ \A k \in Slots : connection_queue[k].sd = -1
      /\ \A s \in Sockets : sock[s].state = "free"
      /\ held = {} /\ completed_queue = <<>> /\ assertion = "none"
      /\ app.pc = "ready" /\ recv.pc = "poll"
  BY Ranges DEF Init, IdleApp, IdleRecv
<1>2. TypeOK
  <2>1. /\ connection_queue \in [Slots -> SlotType] /\ sock \in [Sockets -> SockType]
        /\ recv \in RecvType /\ app \in AppType
    BY Ranges DEF Init
  <2>2. /\ incoming \in Seq([peer : Peers, syn : BOOLEAN]) /\ completed_queue \in Seq(Slots)
        /\ connects \in 0 .. MaxConnects /\ cur_len \in 0 .. CountMod - 1
    BY Ranges, QueueAssumption, SMTT(30) DEF Init
  <2>3. /\ new_socket \in Peers \cup {NoPeer} /\ held \subseteq Sockets /\ assertion \in Asserts
    BY DEF Init, Asserts
  <2> QED
    BY <2>1, <2>2, <2>3 DEF TypeOK
<1>3. Pending = {}
  BY <1>1, Ranges DEF Pending
<1>4. OnePlace
  <2>1. 1 .. Len(completed_queue) = {}
    BY <1>1, SMTT(30)
  <2>2. NoneTwice /\ Completed = {}
    BY <2>1 DEF NoneTwice, Completed
  <2>3. Over = {}
    BY <1>3 DEF Over
  <2> QED
    BY <1>3, <2>2, <2>3, OnePlaceParts
<1>5. RecvInv /\ AppInv /\ SockInv /\ FindsItsSlot
  BY <1>1, SMTT(30) DEF RecvInv, AppInv, SockInv, FindsItsSlot
<1> QED
  BY <1>2, <1>4, <1>5 DEF QueueInv

\* A step that changes nothing keeps the invariant.
LEMMA QueueStutters ==
    ASSUME QueueInv, UNCHANGED vars PROVE QueueInv'
<1>1. /\ UNCHANGED <<connection_queue, completed_queue, held, app>>
      /\ UNCHANGED <<sock, netVars, recv, cur_len, assertion>>
  BY DEF vars, queueVars
<1>2. Pending' = Pending
  BY <1>1 DEF Pending, WriteLocked
<1>3. TypeOK'
  BY <1>1 DEF QueueInv, TypeOK, netVars
<1>4. OnePlace'
  BY <1>1, <1>2, SMTT(30) DEF QueueInv, OnePlace
<1>5. RecvInv'
  BY <1>1 DEF QueueInv, RecvInv
<1>6. AppInv'
  BY <1>1, <1>2 DEF QueueInv, AppInv, Running
<1>7. SockInv' /\ FindsItsSlot'
  BY <1>1, <1>2 DEF QueueInv, SockInv, FindsItsSlot
<1> QED
  BY <1>3, <1>4, <1>5, <1>6, <1>7 DEF QueueInv

\* Every step keeps the invariant.
LEMMA QueueStep ==
    ASSUME QueueInv, [Next]_vars PROVE QueueInv'
<1>1. CASE ClientConnects
  BY <1>1, ClientConnectsStep
<1>2. CASE ReceiveThread
  BY <1>2, TcpAcceptStep, RecvStopsStep, FindSlotStep, LoadCountStep,
     StoreCountStep, CreateSocketStep DEF ReceiveThread
<1>3. ASSUME NEW s \in Sockets, TransportThread(s) PROVE QueueInv'
  BY <1>3, HandshakeEndsStep, CompleteStep, TransportExitsStep DEF
     TransportThread
<1>4. ASSUME NEW s \in Sockets, CloseConnection(s) \/ CloseConnectionReturns(s)
      PROVE  QueueInv'
  BY <1>4, CloseConnectionStep, CloseConnectionReturnsStep
<1>5. CASE AcceptStarts \/ AcceptTakes \/ AcceptFrees \/ AcceptReturns \/ CloseListener
  BY <1>5, AppStartsStep, AcceptTakesStep, AcceptFreesStep, AcceptReturnsStep
<1>6. CASE Closing
  BY <1>6, LockTableStep, CloseQueuedStep, CloseQueuedReturnsStep,
     CloseListenerReturnsStep DEF Closing
<1>7. CASE UNCHANGED vars
  BY <1>7, QueueStutters
<1> QED
  BY <1>1, <1>2, <1>3, <1>4, <1>5, <1>6, <1>7 DEF Next

\* The slot chosen by _mysock_enqueue_connection() stays free until it is filled,
\* a cleared slot is the one myaccept() is at, and a handshake that is not over
\* has a slot, through every interleaving of the threads.
THEOREM QueueInvariance == Spec => []QueueInv
  BY InitQueue, QueueStep, PTL DEF Spec

\* cur_len stays an unsigned int although two threads update it, and every index
\* into connection_queue lies inside it.
THEOREM QueueTypes == Spec => []TypeOK
<1>1. QueueInv => TypeOK
  BY DEF QueueInv
<1> QED
  BY <1>1, QueueInvariance, PTL

\* A connection is in one slot until myaccept() takes it and then with the
\* application, and completed_queue names each slot whose handshake is over once.
THEOREM ConnectionsInOnePlace == Spec => []OnePlace
<1>1. QueueInv => OnePlace
  BY DEF QueueInv
<1> QED
  BY <1>1, QueueInvariance, PTL

\* assert(connection_req) in _mysock_passive_connection_complete() never fails.
THEOREM SlotIsFound == Spec => []FindsItsSlot
<1>1. QueueInv => FindsItsSlot
  BY DEF QueueInv
<1> QED
  BY <1>1, QueueInvariance, PTL
=============================================================================
