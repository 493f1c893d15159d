---------------------------- MODULE RouterProofs ----------------------------
(***************************************************************************)
(* The list of ARP requests stays sound, a next hop is given up only after *)
(* MaxTries attempts, and a packet has one outcome, for any number of      *)
(* hops, routes, packets and nested calls.                                 *)
(***************************************************************************)
EXTENDS Router, TLAPS

USE ZenonT(20)

PacketType == [id : Packets, kind : {"forwarded", "answered", "host unreachable"},
               src : Addresses, dst : Addresses]

RequestType == [ip : Hops \cup {None}, age : Nat, times_sent : Nat,
                packets : Seq(PacketType), broadcasts : Nat]

CallType == [req : Requests, pc : {"check", "send", "sent", "count", "give up"},
             age : Nat, waiting : Seq(PacketType), count : Nat]

Outcomes == {"dropped", "forwarded", "answered", "host unreachable"}

\* The variables the properties depend on have their types.
TypeInv ==
    /\ arpreq \in [Requests -> RequestType]
    /\ requests \in Seq(Requests)
    /\ stack \in [Threads -> Seq(CallType)]
    /\ sweep \in [awake : BOOLEAN, slept : BOOLEAN, next : 0 .. MaxRequests]
    /\ arrived \in 0 .. MaxPackets
    /\ fate \in [Packets -> SUBSET Outcomes]

Live(r) == arpreq[r] # Freed

\* The packets that wait in request r: none if it is freed.
Waiting(r) == Range(arpreq[r].packets)

\* The calls below the innermost one wait for an error to be sent; the timeout
\* thread makes calls only while it is awake.
StackInv ==
    /\ \A t \in Threads : \A i \in DOMAIN stack[t] : i > 1 => stack[t][i].pc = "give up"
    /\ ~sweep.awake => stack["timeout"] = <<>>

\* What QueueSound says, with what its proof needs: the requests on the list are
\* live, and a live request is for a next hop.
ListInv ==
    /\ \A i \in DOMAIN requests : Live(requests[i])
    /\ \A i, j \in DOMAIN requests :
          arpreq[requests[i]].ip = arpreq[requests[j]].ip => i = j
    /\ \A r \in Requests : Live(r) =>
          /\ \E i \in DOMAIN requests : requests[i] = r
          /\ arpreq[r].ip \in Hops
          /\ arpreq[r].packets # <<>>

\* 1 if thread t has sent an ARP request for r that times_sent does not count.
Uncounted(t, r) ==
    IF stack[t] # <<>> /\ Top(t).pc = "sent" /\ Top(t).req = r THEN 1 ELSE 0

\* What a call knows of its request, if that is still there: the attempt it is
\* about to count was made, or enough were, and the packets it reports wait.
CallInv(c) ==
    Live(c.req) =>
       /\ c.pc = "count" =>
             c.count + 1 + Uncounted("main", c.req) + Uncounted("timeout", c.req)
                <= arpreq[c.req].broadcasts
       /\ c.pc = "give up" =>
             /\ arpreq[c.req].broadcasts >= MaxTries
             /\ Range(c.waiting) \subseteq Waiting(c.req)

\* times_sent never runs ahead of the ARP requests sent.
CountInv ==
    /\ \A r \in Requests : Live(r) =>
          arpreq[r].times_sent + Uncounted("main", r) + Uncounted("timeout", r)
             <= arpreq[r].broadcasts
    /\ \A t \in Threads : \A i \in DOMAIN stack[t] : CallInv(stack[t][i])

GivingUp(r) == \E t \in Threads : \E i \in DOMAIN stack[t] :
                  stack[t][i].req = r /\ stack[t][i].pc = "give up"

Error(p) == p.kind = "host unreachable"

\* The fate of a packet p that waits in request r.
WaitsIn(p, r) ==
    /\ p.id <= arrived
    /\ Error(p) => fate[p.id] = {"host unreachable"}
    /\ ~Error(p) => \/ fate[p.id] = {}
                    \/ fate[p.id] = {"host unreachable"} /\ GivingUp(r)

\* A packet that waits has no fate yet, unless its request is being given up, and
\* it waits in one place.
FateInv ==
    /\ \A r \in Requests : \A p \in Waiting(r) : WaitsIn(p, r)
    /\ \A r, s \in Requests : \A p \in Waiting(r), q \in Waiting(s) :
          p.id = q.id /\ ~Error(p) /\ ~Error(q) => r = s /\ p.kind = q.kind
    /\ \A n \in Packets : n > arrived => fate[n] = {}

OneFate == \A n \in Packets : \E k \in Outcomes : fate[n] \subseteq {k}

RunInv == StackInv /\ ListInv /\ CountInv /\ FateInv

\* The inductive invariant.  Once the process has faulted, only the fates stand.
RouterInv ==
    /\ TypeInv
    /\ OneFate
    /\ Running => RunInv

-----------------------------------------------------------------------------
(* Sequences and lists.                                                    *)

\* The first of no places, and of one.
LEMMA FirstOfOne == First({}) = 0 /\ \A k \in Int : First({k}) = k
  BY SMTT(30) DEF First, Min

\* The constants as the provers need them.
LEMMA Constants ==
    /\ MaxTries \in Nat /\ MaxTries > 0 /\ MaxPackets \in Nat /\ MaxRequests \in Nat
    /\ MaxDepth \in Nat /\ MaxDepth # 0
    /\ None \notin Hops
    /\ \A x \in Addresses : Route[x] \in Hops \cup {None}
    /\ Own \in Addresses /\ Sources \subseteq Addresses
  BY RouterAssumption, SMTT(30) DEF Addresses

\* Queued() finds the request for a next hop, or 0 if there is none.
LEMMA QueuedFinds ==
    ASSUME TypeInv, ListInv, NEW ip
    PROVE  /\ Queued(ip) # 0 => /\ Queued(ip) \in DOMAIN requests
                                /\ requests[Queued(ip)] \in Requests
                                /\ arpreq[requests[Queued(ip)]].ip = ip
           /\ Queued(ip) = 0 => \A i \in DOMAIN requests : arpreq[requests[i]].ip # ip
<1> DEFINE I == {i \in DOMAIN requests : arpreq[requests[i]].ip = ip}
<1>1. Queued(ip) = First(I)
  BY DEF Queued
<1>2. DOMAIN requests \subseteq Nat \ {0}
  BY SMTT(30) DEF TypeInv
<1>3. CASE I = {}
  BY <1>1, <1>3, FirstOfOne
<1>4. CASE I # {}
  <2>1. PICK k \in DOMAIN requests : arpreq[requests[k]].ip = ip
    BY <1>4
  <2>2. I = {k}
    BY <2>1, SMTT(30) DEF ListInv
  <2>3. Queued(ip) = k /\ k # 0
    BY <1>1, <1>2, <2>2, FirstOfOne, SMTT(30)
  <2>4. requests[k] \in Requests
    BY <2>1, SMTT(30) DEF TypeInv
  <2> QED
    BY <2>1, <2>3, <2>4
<1> QED
  BY <1>3, <1>4

\* Position() finds the place of a request, which is on the list once.
LEMMA PositionFinds ==
    ASSUME TypeInv, ListInv, NEW k \in DOMAIN requests PROVE Position(requests[k]) = k
<1>1. k \in Int
  BY SMTT(30) DEF TypeInv
<1>2. {i \in DOMAIN requests : requests[i] = requests[k]} = {k}
  BY SMTT(30) DEF ListInv
<1> QED
  BY <1>1, <1>2, FirstOfOne DEF Position

\* What is left of a list when one place is taken out.
Omit(s, k) == [i \in 1 .. Len(s) - 1 |-> s[IF i < k THEN i ELSE i + 1]]

\* It has all the other places, in their order.
LEMMA Unlinked ==
    ASSUME NEW S, NEW s \in Seq(S), NEW k \in DOMAIN s, NEW q, q = Omit(s, k)
    PROVE  /\ q \in Seq(S)
           /\ \A i \in DOMAIN q : \E j \in DOMAIN s : /\ j = IF i < k THEN i ELSE i + 1
                                                     /\ q[i] = s[j]
           /\ \A j \in DOMAIN s : j # k => \E i \in DOMAIN q : q[i] = s[j]
<1>1. DOMAIN s = 1 .. Len(s) /\ Len(s) \in Nat /\ k \in 1 .. Len(s)
  BY SMTT(30)
<1>2. \A i \in 1 .. Len(s) - 1 : (IF i < k THEN i ELSE i + 1) \in DOMAIN s
  BY <1>1, SMTT(30)
<1>3. q \in [1 .. Len(s) - 1 -> S]
  BY <1>2, SMTT(30) DEF Omit
<1>4. Len(s) - 1 \in Nat
  BY <1>1, SMTT(30)
<1>5. q \in Seq(S) /\ DOMAIN q = 1 .. Len(s) - 1
  BY <1>3, <1>4, SMTT(30)
<1>6. \A i \in DOMAIN q : \E j \in DOMAIN s : /\ j = IF i < k THEN i ELSE i + 1
                                              /\ q[i] = s[j]
  BY <1>2, <1>5 DEF Omit
<1>7. \A j \in DOMAIN s : j # k => \E i \in DOMAIN q : q[i] = s[j]
  <2> TAKE j \in DOMAIN s
  <2> HAVE j # k
  <2>1. PICK i : i = IF j < k THEN j ELSE j - 1
    OBVIOUS
  <2>2. i \in 1 .. Len(s) - 1 /\ (IF i < k THEN i ELSE i + 1) = j
    BY <1>1, <2>1, SMTT(30)
  <2> QED
    BY <1>5, <2>2 DEF Omit
<1> QED
  BY <1>5, <1>6, <1>7

\* The provers need these two spelled out where many facts are around.
LEMMA EmptyList == <<>> \in Seq(PacketType) /\ <<>> \in Seq(CallType)
  BY SMTT(30)

\* Sums that the provers do not compute by themselves.
LEMMA Counts == \A m \in {0, 1} : \A b \in Nat : 0 + b <= m + b /\ b <= b
  BY SMTT(30)

\* A sequence that is not empty has a first element.
LEMMA NotEmpty ==
    ASSUME NEW S, NEW s \in Seq(S), s # <<>> PROVE 1 \in DOMAIN s
  BY SMTT(30)

\* The innermost call of a stack is replaced.
LEMMA TopSet ==
    ASSUME NEW s \in Seq(CallType), s # <<>>, NEW c \in CallType
    PROVE  LET q == [s EXCEPT ![1] = c]
           IN  /\ q \in Seq(CallType) /\ q # <<>> /\ q[1] = c
               /\ DOMAIN q = DOMAIN s /\ 1 \in DOMAIN s
               /\ \A i \in DOMAIN q : i > 1 => q[i] = s[i]
<1> DEFINE q == [s EXCEPT ![1] = c]
<1>1. Len(s) \in Nat /\ Len(s) > 0 /\ DOMAIN s = 1 .. Len(s)
  BY SMTT(30)
<1>2. 1 \in DOMAIN s
  BY <1>1, SMTT(30)
<1>3. q \in [1 .. Len(s) -> CallType]
  BY <1>1, SMTT(30)
<1>4. q \in Seq(CallType) /\ Len(q) = Len(s)
  BY <1>1, <1>3, SMTT(30)
<1> QED
  BY <1>1, <1>2, <1>4, SMTT(30)

\* The innermost call returns.
LEMMA Popped ==
    ASSUME NEW S, NEW s \in Seq(S), s # <<>>
    PROVE  /\ Tail(s) \in Seq(S)
           /\ \A i \in DOMAIN Tail(s) : i + 1 \in DOMAIN s /\ Tail(s)[i] = s[i + 1]
           /\ \A i \in DOMAIN s : i > 1 =>
                 i - 1 \in DOMAIN Tail(s) /\ Tail(s)[i - 1] = s[i]
<1>1. Tail(s) \in Seq(S) /\ Len(Tail(s)) = Len(s) - 1
  BY SMTT(30)
<1>2. \A i \in 1 .. Len(Tail(s)) : Tail(s)[i] = s[i + 1]
  BY SMTT(30)
<1>3. Len(s) \in Nat /\ DOMAIN s = 1 .. Len(s) /\ DOMAIN Tail(s) = 1 .. Len(s) - 1
  BY <1>1, SMTT(30)
<1>4. \A i \in DOMAIN Tail(s) : i + 1 \in DOMAIN s
  BY <1>3, SMTT(30)
<1>5. \A i \in DOMAIN s : i > 1 => i - 1 \in DOMAIN Tail(s) /\ (i - 1) + 1 = i
  BY <1>3, SMTT(30)
<1> QED
  BY <1>1, <1>2, <1>3, <1>4, <1>5

\* A call is made, or a packet put in front of a list.
LEMMA Pushed ==
    ASSUME NEW S, NEW s \in Seq(S), NEW c \in S
    PROVE  /\ <<c>> \o s \in Seq(S) /\ <<c>> \o s # <<>> /\ (<<c>> \o s)[1] = c
           /\ \A i \in DOMAIN (<<c>> \o s) : i > 1 =>
                 i - 1 \in DOMAIN s /\ (<<c>> \o s)[i] = s[i - 1]
           /\ \A i \in DOMAIN s : i + 1 \in DOMAIN (<<c>> \o s) /\ (<<c>> \o s)[i + 1] = s[i]
           /\ 1 \in DOMAIN (<<c>> \o s)
           /\ Range(<<c>> \o s) = {c} \cup Range(s)
<1>1. <<c>> \in Seq(S) /\ Len(<<c>>) = 1 /\ <<c>>[1] = c
  BY SMTT(30)
<1>2. PICK q : q = <<c>> \o s
  OBVIOUS
<1>3. q \in Seq(S) /\ Len(q) = 1 + Len(s)
  BY <1>1, <1>2, SMTT(30)
<1>4. \A i \in 1 .. 1 + Len(s) : q[i] = IF i <= 1 THEN <<c>>[i] ELSE s[i - 1]
  <2>1. \A i \in 1 .. Len(<<c>>) + Len(s) :
           q[i] = IF i <= Len(<<c>>) THEN <<c>>[i] ELSE s[i - Len(<<c>>)]
    BY <1>1, <1>2, SMTT(30)
  <2> QED
    BY <1>1, <2>1
<1>5. Len(s) \in Nat /\ DOMAIN s = 1 .. Len(s) /\ DOMAIN q = 1 .. 1 + Len(s)
  BY <1>3, SMTT(30)
<1>6. q # <<>> /\ q[1] = c /\ 1 \in DOMAIN q
  BY <1>1, <1>3, <1>4, <1>5, SMTT(30)
<1>7. \A i \in DOMAIN q : i > 1 => i - 1 \in DOMAIN s /\ q[i] = s[i - 1]
  BY <1>4, <1>5, SMTT(30)
<1>8. \A i \in DOMAIN s : i + 1 \in DOMAIN q /\ q[i + 1] = s[i]
  BY <1>4, <1>5, SMTT(30)
<1>9. \A i \in DOMAIN q : i = 1 \/ i > 1
  BY <1>5, SMTT(30)
<1>10. Range(q) = {c} \cup Range(s)
  <2>1. ASSUME NEW x \in Range(q) PROVE x \in {c} \cup Range(s)
    <3>1. PICK i \in DOMAIN q : x = q[i]
      BY DEF Range
    <3> QED
      BY <1>6, <1>7, <1>9, <3>1 DEF Range
  <2>2. ASSUME NEW x \in Range(s) PROVE x \in Range(q)
    BY <1>8 DEF Range
  <2>3. c \in Range(q)
    BY <1>6 DEF Range
  <2> QED
    BY <2>1, <2>2, <2>3
<1> QED
  BY <1>2, <1>3, <1>6, <1>7, <1>8, <1>10
-----------------------------------------------------------------------------
(* What a step keeps.                                                      *)

\* The parts of a request and of a call, with their types.
LEMMA Parts ==
    ASSUME TypeInv
    PROVE  /\ \A r \in Requests :
                 /\ arpreq[r] \in RequestType
                 /\ arpreq[r].times_sent \in Nat /\ arpreq[r].broadcasts \in Nat
                 /\ arpreq[r].age \in Nat /\ arpreq[r].ip \in Hops \cup {None}
                 /\ arpreq[r].packets \in Seq(PacketType)
           /\ \A t \in Threads : stack[t] \in Seq(CallType)
           /\ \A t \in Threads : \A i \in DOMAIN stack[t] :
                 /\ stack[t][i] \in CallType /\ stack[t][i].req \in Requests
                 /\ stack[t][i].count \in Nat /\ stack[t][i].waiting \in Seq(PacketType)
                 /\ stack[t][i].age \in Nat
<1>1. \A r \in Requests : arpreq[r] \in RequestType
  BY DEF TypeInv
<1>2. \A t \in Threads : stack[t] \in Seq(CallType)
  BY DEF TypeInv
<1>3. \A t \in Threads : \A i \in DOMAIN stack[t] : stack[t][i] \in CallType
  BY <1>2, SMTT(30)
<1>4. \A c \in CallType : c.req \in Requests /\ c.count \in Nat /\ c.age \in Nat
                          /\ c.waiting \in Seq(PacketType)
  BY DEF CallType
<1>5. \A q \in RequestType : /\ q.times_sent \in Nat /\ q.broadcasts \in Nat /\ q.age \in Nat
                             /\ q.ip \in Hops \cup {None} /\ q.packets \in Seq(PacketType)
  BY DEF RequestType
<1> QED
  BY <1>1, <1>2, <1>3, <1>4, <1>5

\* A thread has one attempt at most to count.
LEMMA UncountedBit ==
    ASSUME NEW t, NEW r PROVE Uncounted(t, r) \in {0, 1}
  BY DEF Uncounted

\* A call that is in no new place keeps what it knows of its request while that
\* stays: attempts are made before they can be counted, packets are only added.
LEMMA CallKept ==
    ASSUME TypeInv, TypeInv', NEW c \in CallType, CallInv(c),
           Live(c.req)' => Live(c.req),
           LET r == c.req
           IN  Live(r)' =>
                  /\ Waiting(r) \subseteq Waiting(r)'
                  /\ arpreq[r].broadcasts <= arpreq'[r].broadcasts
                  /\ Uncounted("main", r)' + Uncounted("timeout", r)' + arpreq[r].broadcasts
                        <= Uncounted("main", r) + Uncounted("timeout", r) + arpreq'[r].broadcasts
    PROVE  CallInv(c)'
<1> SUFFICES ASSUME Live(c.req)'
             PROVE  /\ c.pc = "count" =>
                          c.count + 1 + Uncounted("main", c.req)' + Uncounted("timeout", c.req)'
                             <= arpreq'[c.req].broadcasts
                    /\ c.pc = "give up" =>
                          /\ arpreq'[c.req].broadcasts >= MaxTries
                          /\ Range(c.waiting) \subseteq Waiting(c.req)'
  BY DEF CallInv
<1>1. PICK r : r = c.req
  OBVIOUS
<1>2. r \in Requests /\ c.count \in Nat
  BY <1>1 DEF CallType
<1>3. Live(r) /\ Live(r)'
  BY <1>1
<1>4. PICK m : m = Uncounted("main", r)
  OBVIOUS
<1>5. PICK o : o = Uncounted("timeout", r)
  OBVIOUS
<1>6. PICK b : b = arpreq[r].broadcasts
  OBVIOUS
<1>7. PICK m1 : m1 = Uncounted("main", r)'
  OBVIOUS
<1>8. PICK o1 : o1 = Uncounted("timeout", r)'
  OBVIOUS
<1>9. PICK b1 : b1 = arpreq'[r].broadcasts
  OBVIOUS
<1>10. m \in {0, 1} /\ o \in {0, 1} /\ m1 \in {0, 1} /\ o1 \in {0, 1}
  BY <1>4, <1>5, <1>7, <1>8 DEF Uncounted
<1>11. b \in Nat /\ b1 \in Nat
  <2>1. arpreq[r] \in RequestType /\ arpreq'[r] \in RequestType
    BY <1>2 DEF TypeInv
  <2> QED
    BY <1>6, <1>9, <2>1 DEF RequestType
<1>12. b <= b1 /\ m1 + o1 + b <= m + o + b1 /\ Waiting(r) \subseteq Waiting(r)'
  BY <1>1, <1>3, <1>4, <1>5, <1>6, <1>7, <1>8, <1>9
<1>13. /\ c.pc = "count" => c.count + 1 + m + o <= b
       /\ c.pc = "give up" => b >= MaxTries /\ Range(c.waiting) \subseteq Waiting(r)
  BY <1>1, <1>3, <1>4, <1>5, <1>6 DEF CallInv
<1>14. c.pc = "count" => c.count + 1 + m1 + o1 <= b1
  BY ONLY <1>2, <1>10, <1>11, <1>12, <1>13
<1>15. c.pc = "give up" => b1 >= MaxTries
  <2> SUFFICES ASSUME c.pc = "give up" PROVE b1 >= MaxTries
    OBVIOUS
  <2>1. MaxTries \in Nat
    BY Constants
  <2>2. b >= MaxTries
    BY <1>13
  <2>3. b <= b1
    BY <1>12
  <2> QED
    BY ONLY <1>11, <2>1, <2>2, <2>3
<1> QED
  BY <1>1, <1>7, <1>8, <1>9, <1>12, <1>13, <1>14, <1>15

\* The counts stay sound when thread t moves on: the calls it has then are old
\* ones, or know what they must, a new request has no calls yet, and times_sent
\* stays as it is or is set within its bound.
LEMMA CountKept ==
    ASSUME TypeInv, TypeInv', CountInv, NEW t \in Threads,
           \A u \in Threads : u # t => stack'[u] = stack[u],
           \A i \in DOMAIN stack'[t] :
              CallInv(stack[t][i])' \/ \E j \in DOMAIN stack[t] : stack'[t][i] = stack[t][j],
           \A r \in Requests : Live(r) /\ Live(r)' =>
              /\ Waiting(r) \subseteq Waiting(r)'
              /\ arpreq[r].broadcasts <= arpreq'[r].broadcasts
              /\ Uncounted(t, r)' + arpreq[r].broadcasts <= Uncounted(t, r) + arpreq'[r].broadcasts,
           \A r \in Requests : Live(r)' /\ ~Live(r) =>
              /\ \A u \in Threads : \A i \in DOMAIN stack[u] : stack[u][i].req # r
              /\ Uncounted(t, r)' = 0
              /\ arpreq'[r].times_sent = 0,
           \A r \in Requests : Live(r)' /\ Live(r) =>
              \/ arpreq'[r].times_sent = arpreq[r].times_sent
              \/ arpreq'[r].times_sent + Uncounted("main", r)' + Uncounted("timeout", r)'
                    <= arpreq'[r].broadcasts
    PROVE  CountInv'
<1>1. \A u \in Threads : u # t => \A r : Uncounted(u, r)' = Uncounted(u, r)
  BY DEF Uncounted, Top
<1>2. \A r \in Requests : Live(r) /\ Live(r)' =>
         Uncounted("main", r)' + Uncounted("timeout", r)' + arpreq[r].broadcasts
            <= Uncounted("main", r) + Uncounted("timeout", r) + arpreq'[r].broadcasts
  <2> TAKE r \in Requests
  <2> HAVE Live(r) /\ Live(r)'
  <2>1. Uncounted(t, r)' + arpreq[r].broadcasts <= Uncounted(t, r) + arpreq'[r].broadcasts
    OBVIOUS
  <2>2. /\ Uncounted("main", r) \in {0, 1} /\ Uncounted("timeout", r) \in {0, 1}
        /\ Uncounted("main", r)' \in {0, 1} /\ Uncounted("timeout", r)' \in {0, 1}
    BY DEF Uncounted
  <2>3. arpreq[r].broadcasts \in Nat /\ arpreq'[r].broadcasts \in Nat
    BY DEF TypeInv, RequestType
  <2>4. CASE t = "main"
    <3>1. Uncounted("timeout", r)' = Uncounted("timeout", r)
      BY <1>1, <2>4 DEF Threads
    <3> QED
      BY <2>1, <2>2, <2>3, <2>4, <3>1, SMTT(30)
  <2>5. CASE t = "timeout"
    <3>1. Uncounted("main", r)' = Uncounted("main", r)
      BY <1>1, <2>5 DEF Threads
    <3> QED
      BY <2>1, <2>2, <2>3, <2>5, <3>1, SMTT(30)
  <2> QED
    BY <2>4, <2>5 DEF Threads
<1>3. \A u \in Threads : \A j \in DOMAIN stack[u] : CallInv(stack[u][j]) =>
         \A c : c = stack[u][j] => CallInv(c)'
  <2> TAKE u \in Threads
  <2> TAKE j \in DOMAIN stack[u]
  <2> HAVE CallInv(stack[u][j])
  <2> TAKE c
  <2> HAVE c = stack[u][j]
  <2>1. c \in CallType /\ c.req \in Requests
    BY Parts
  <2>2. CallInv(c)
    OBVIOUS
  <2>3. Live(c.req)' => Live(c.req)
    BY <2>1
  <2>4. LET r == c.req
        IN  Live(r)' =>
               /\ Waiting(r) \subseteq Waiting(r)'
               /\ arpreq[r].broadcasts <= arpreq'[r].broadcasts
               /\ Uncounted("main", r)' + Uncounted("timeout", r)' + arpreq[r].broadcasts
                     <= Uncounted("main", r) + Uncounted("timeout", r) + arpreq'[r].broadcasts
    BY <1>2, <2>1, <2>3
  <2> QED
    BY <2>1, <2>2, <2>3, <2>4, CallKept
<1>4. \A u \in Threads : \A j \in DOMAIN stack[u] : \A c : c = stack[u][j] => CallInv(c)'
  BY <1>3 DEF CountInv
<1>5. (\A u \in Threads : \A i \in DOMAIN stack[u] : CallInv(stack[u][i]))'
  <2> SUFFICES ASSUME NEW u \in Threads, NEW i \in DOMAIN stack'[u]
               PROVE  CallInv(stack[u][i])'
    OBVIOUS
  <2>1. CASE u # t
    <3>1. i \in DOMAIN stack[u] /\ stack'[u][i] = stack[u][i]
      BY <2>1
    <3>2. PICK c : c = stack[u][i]
      OBVIOUS
    <3>3. CallInv(c)' /\ c = stack'[u][i]
      BY <1>4, <3>1, <3>2
    <3> QED
      BY <3>3
  <2>2. CASE u = t /\ ~CallInv(stack[u][i])'
    <3>1. PICK j \in DOMAIN stack[t] : stack'[t][i] = stack[t][j]
      BY <2>2
    <3>2. PICK c : c = stack[t][j]
      OBVIOUS
    <3>3. CallInv(c)' /\ c = stack'[u][i]
      BY <1>4, <2>2, <3>1, <3>2
    <3> QED
      BY <3>3
  <2> QED
    BY <2>1, <2>2
<1>6. ASSUME NEW r \in Requests, Live(r)'
      PROVE  arpreq'[r].times_sent + Uncounted("main", r)' + Uncounted("timeout", r)'
                <= arpreq'[r].broadcasts
  <2>1. /\ Uncounted("main", r) \in {0, 1} /\ Uncounted("timeout", r) \in {0, 1}
        /\ Uncounted("main", r)' \in {0, 1} /\ Uncounted("timeout", r)' \in {0, 1}
    BY DEF Uncounted
  <2>2. /\ arpreq[r].broadcasts \in Nat /\ arpreq'[r].broadcasts \in Nat
        /\ arpreq[r].times_sent \in Nat
    BY DEF TypeInv, RequestType
  <2>3. CASE Live(r)
    <3>1. arpreq[r].times_sent + Uncounted("main", r) + Uncounted("timeout", r)
             <= arpreq[r].broadcasts
      BY <2>3 DEF CountInv
    <3>2. Uncounted("main", r)' + Uncounted("timeout", r)' + arpreq[r].broadcasts
            <= Uncounted("main", r) + Uncounted("timeout", r) + arpreq'[r].broadcasts
      BY <1>2, <1>6, <2>3
    <3>3. CASE arpreq'[r].times_sent = arpreq[r].times_sent
      BY <2>1, <2>2, <3>1, <3>2, <3>3, SMTT(30)
    <3> QED
      BY <1>6, <2>3, <3>3
  <2>4. CASE ~Live(r)
    <3>1. /\ \A u \in Threads : \A i \in DOMAIN stack[u] : stack[u][i].req # r
          /\ Uncounted(t, r)' = 0
          /\ arpreq'[r].times_sent = 0
      BY <1>6, <2>4
    <3>2. \A u \in Threads : stack[u] # <<>> => 1 \in DOMAIN stack[u]
      <4> TAKE u \in Threads
      <4>1. stack[u] \in Seq(CallType)
        BY DEF TypeInv
      <4> QED
        BY <4>1, NotEmpty
    <3>3. \A u \in Threads : Uncounted(u, r) = 0
      BY <3>1, <3>2 DEF Uncounted, Top
    <3>4. \A u \in Threads : Uncounted(u, r)' = 0
      BY <1>1, <3>1, <3>3, SMTT(30)
    <3>5. Uncounted("main", r)' = 0 /\ Uncounted("timeout", r)' = 0
      BY <3>4 DEF Threads
    <3> QED
      BY <2>2, <3>1, <3>5, SMTT(30)
  <2> QED
    BY <2>3, <2>4
<1>7. (\A r \in Requests : Live(r) =>
          arpreq[r].times_sent + Uncounted("main", r) + Uncounted("timeout", r)
             <= arpreq[r].broadcasts)'
  BY <1>6
<1> QED
  BY <1>5, <1>7 DEF CountInv

\* The list stays sound if requests keep their hops and their packets.
LEMMA ListKept ==
    ASSUME ListInv, TypeInv, requests' = requests,
           \A r \in Requests : Live(r) =>
              arpreq'[r].ip = arpreq[r].ip /\ arpreq'[r].packets # <<>>,
           \A r \in Requests : Live(r)' => Live(r)
    PROVE  ListInv'
<1>1. \A i \in DOMAIN requests : requests[i] \in Requests
  BY SMTT(30) DEF TypeInv
<1>2. \A r \in Requests : Live(r) => Live(r)'
  <2> TAKE r \in Requests
  <2> HAVE Live(r)
  <2>1. arpreq'[r].packets # Freed.packets
    BY DEF Freed
  <2> QED
    BY <2>1 DEF Live, Freed
<1>3. (\A i \in DOMAIN requests : Live(requests[i]))'
  <2> SUFFICES ASSUME NEW i \in DOMAIN requests PROVE Live(requests[i])'
    OBVIOUS
  <2>1. PICK r : r = requests[i]
    OBVIOUS
  <2>2. r \in Requests /\ Live(r) /\ r = requests'[i]
    BY <1>1, <2>1 DEF ListInv
  <2>3. Live(r)'
    BY <1>2, <2>2
  <2> QED
    BY <2>2, <2>3 DEF Live
<1>4. \A i \in DOMAIN requests : arpreq'[requests[i]].ip = arpreq[requests[i]].ip
  BY <1>1 DEF ListInv
<1>5. (\A i, j \in DOMAIN requests :
          arpreq[requests[i]].ip = arpreq[requests[j]].ip => i = j)'
  BY <1>4, SMTT(30) DEF ListInv
<1>6. (\A r \in Requests : Live(r) =>
          /\ \E i \in DOMAIN requests : requests[i] = r
          /\ arpreq[r].ip \in Hops
          /\ arpreq[r].packets # <<>>)'
  BY DEF ListInv
<1> QED
  BY <1>3, <1>5, <1>6 DEF ListInv

\* The packets that wait keep their fate while nothing is sent, and while their
\* request is given up if it was.
LEMMA FateKept ==
    ASSUME FateInv, arrived' = arrived, fate' = fate,
           \A r \in Requests : Waiting(r)' \subseteq Waiting(r),
           \A r \in Requests : GivingUp(r) => GivingUp(r)' \/ Waiting(r)' = {}
    PROVE  FateInv'
<1>1. ASSUME NEW r \in Requests, NEW p \in Waiting(r)' PROVE WaitsIn(p, r)'
  <2>1. p \in Waiting(r) /\ Waiting(r)' # {}
    BY <1>1
  <2>2. WaitsIn(p, r)
    BY <2>1 DEF FateInv
  <2>3. GivingUp(r) => GivingUp(r)'
    BY <2>1
  <2> QED
    BY <2>2, <2>3 DEF WaitsIn
<1>2. (\A r, s \in Requests : \A p \in Waiting(r), q \in Waiting(s) :
          p.id = q.id /\ ~Error(p) /\ ~Error(q) => r = s /\ p.kind = q.kind)'
  <2> SUFFICES ASSUME NEW r \in Requests, NEW s \in Requests,
                      NEW p \in Waiting(r)', NEW q \in Waiting(s)',
                      p.id = q.id, ~Error(p), ~Error(q)
               PROVE  r = s /\ p.kind = q.kind
    BY DEF Error
  <2>1. p \in Waiting(r) /\ q \in Waiting(s)
    OBVIOUS
  <2> QED
    BY <2>1 DEF FateInv
<1>3. (\A r \in Requests : \A p \in Waiting(r) : WaitsIn(p, r))'
  BY <1>1
<1>4. (\A n \in Packets : n > arrived => fate[n] = {})'
  BY DEF FateInv
<1> QED
  BY <1>2, <1>3, <1>4 DEF FateInv

\* The innermost call of a stack and its fields.
LEMMA TopFacts ==
    ASSUME TypeInv, NEW t \in Threads, stack[t] # <<>>
    PROVE  /\ stack[t] \in Seq(CallType) /\ 1 \in DOMAIN stack[t]
           /\ Top(t) \in CallType /\ Top(t).req \in Requests
           /\ Top(t).count \in Nat /\ Top(t).age \in Nat /\ Top(t).waiting \in Seq(PacketType)
<1>1. stack[t] \in Seq(CallType)
  BY DEF TypeInv
<1>2. 1 \in DOMAIN stack[t]
  BY <1>1, NotEmpty
<1> QED
  BY <1>1, <1>2, Parts DEF Top

\* What the stack of a thread is changed to keeps the shape of the stacks.
LEMMA StackKept ==
    ASSUME TypeInv, StackInv, NEW t \in Threads, NEW q \in Seq(CallType),
           stack' = [stack EXCEPT ![t] = q],
           \A i \in DOMAIN q : i > 1 => q[i].pc = "give up",
           t = "timeout" => sweep'.awake,
           t = "main" => sweep' = sweep
    PROVE  /\ StackInv' /\ stack' \in [Threads -> Seq(CallType)] /\ stack'[t] = q
           /\ \A u \in Threads : u # t => stack'[u] = stack[u]
<1>1. stack' \in [Threads -> Seq(CallType)]
  BY DEF TypeInv
<1>2. stack'[t] = q /\ \A u \in Threads : u # t => stack'[u] = stack[u]
  BY DEF TypeInv
<1>3. (\A u \in Threads : \A i \in DOMAIN stack[u] : i > 1 => stack[u][i].pc = "give up")'
  <2> SUFFICES ASSUME NEW u \in Threads, NEW i \in DOMAIN stack'[u], i > 1
               PROVE  stack'[u][i].pc = "give up"
    OBVIOUS
  <2>1. CASE u = t
    BY <1>2, <2>1
  <2>2. CASE u # t
    <3>1. stack'[u] = stack[u]
      BY <1>2, <2>2
    <3>2. i \in DOMAIN stack[u]
      BY <3>1
    <3> QED
      BY <3>1, <3>2 DEF StackInv
  <2> QED
    BY <2>1, <2>2
<1>4. (~sweep.awake => stack["timeout"] = <<>>)'
  BY <1>2 DEF StackInv, Threads
<1> QED
  BY <1>1, <1>2, <1>3, <1>4 DEF StackInv
\* A step of thread t that changes its stack and leaves the sweep alone.
StackStep(t, q) ==
    /\ stack[t] # <<>>
    /\ stack' = [stack EXCEPT ![t] = q]
    /\ sweep' = sweep

\* A thread that changes only its own stack keeps the shape of both.
LEMMA StackStepKept ==
    ASSUME TypeInv, StackInv, NEW t \in Threads, NEW q \in Seq(CallType), StackStep(t, q),
           \A i \in DOMAIN q : i > 1 => q[i].pc = "give up"
    PROVE  /\ StackInv' /\ stack' \in [Threads -> Seq(CallType)] /\ stack'[t] = q
           /\ \A u \in Threads : u # t => stack'[u] = stack[u]
<1>1. t = "timeout" => sweep'.awake
  BY DEF StackStep, StackInv
<1> QED
  BY <1>1, StackKept DEF StackStep

\* A request is still being given up if the calls that do so are still there.
LEMMA GivingUpKept ==
    ASSUME NEW t \in Threads, NEW r, \A u \in Threads : u # t => stack'[u] = stack[u],
           \A i \in DOMAIN stack[t] : stack[t][i].pc = "give up" /\ stack[t][i].req = r =>
              \E j \in DOMAIN stack'[t] : stack'[t][j].pc = "give up" /\ stack'[t][j].req = r
    PROVE  GivingUp(r) => GivingUp(r)'
<1> HAVE GivingUp(r)
<1>1. PICK u \in Threads : \E i \in DOMAIN stack[u] :
         stack[u][i].req = r /\ stack[u][i].pc = "give up"
  BY DEF GivingUp
<1>2. \E j \in DOMAIN stack'[u] : stack'[u][j].pc = "give up" /\ stack'[u][j].req = r
  <2>1. CASE u = t
    BY <1>1, <2>1
  <2>2. CASE u # t
    BY <1>1, <2>2
  <2> QED
    BY <2>1, <2>2
<1> QED
  BY <1>2 DEF GivingUp

\* The innermost call of t returns.
LEMMA Returns ==
    ASSUME TypeInv, StackInv, NEW t \in Threads, StackStep(t, Tail(stack[t]))
    PROVE  /\ StackInv' /\ stack' \in [Threads -> Seq(CallType)]
           /\ \A u \in Threads : u # t => stack'[u] = stack[u]
           /\ \A i \in DOMAIN stack'[t] : \E j \in DOMAIN stack[t] : stack'[t][i] = stack[t][j]
           /\ \A r : Uncounted(t, r)' = 0
           /\ \A r : Top(t).pc # "give up" \/ Top(t).req # r => (GivingUp(r) => GivingUp(r)')
<1>1. stack[t] \in Seq(CallType) /\ stack[t] # <<>>
  BY DEF TypeInv, StackStep
<1>2. PICK q : q = Tail(stack[t])
  OBVIOUS
<1>3. /\ q \in Seq(CallType)
      /\ \A i \in DOMAIN q : i + 1 \in DOMAIN stack[t] /\ q[i] = stack[t][i + 1]
      /\ \A i \in DOMAIN stack[t] : i > 1 => i - 1 \in DOMAIN q /\ q[i - 1] = stack[t][i]
  BY <1>1, <1>2, Popped
<1>4. \A i \in DOMAIN q : i \in Nat /\ i > 0
  BY <1>3, SMTT(30)
<1>5. \A i \in DOMAIN q : q[i].pc = "give up"
  <2>1. \A i \in DOMAIN q : i + 1 > 1
    BY <1>4, SMTT(30)
  <2> QED
    BY <1>3, <2>1 DEF StackInv
<1>6. StackStep(t, q)
  BY <1>2
<1>7. /\ StackInv' /\ stack' \in [Threads -> Seq(CallType)] /\ stack'[t] = q
      /\ \A u \in Threads : u # t => stack'[u] = stack[u]
  BY <1>3, <1>5, <1>6, StackStepKept
<1>8. \A i \in DOMAIN stack'[t] : \E j \in DOMAIN stack[t] : stack'[t][i] = stack[t][j]
  BY <1>3, <1>7
<1>9. \A r : Uncounted(t, r)' = 0
  <2>1. stack'[t] # <<>> => 1 \in DOMAIN stack'[t]
    BY <1>3, <1>7, NotEmpty
  <2>2. stack'[t] # <<>> => stack'[t][1].pc = "give up"
    BY <1>5, <1>7, <2>1
  <2>3. "give up" # "sent"
    OBVIOUS
  <2> QED
    BY <2>2, <2>3 DEF Uncounted, Top
<1>10. ASSUME NEW r, Top(t).pc # "give up" \/ Top(t).req # r
       PROVE  GivingUp(r) => GivingUp(r)'
  <2>1. \A i \in DOMAIN stack[t] : i = 1 \/ i > 1
    BY <1>1, SMTT(30)
  <2>2. \A i \in DOMAIN stack[t] : stack[t][i].pc = "give up" /\ stack[t][i].req = r =>
           \E j \in DOMAIN stack'[t] : stack'[t][j].pc = "give up" /\ stack'[t][j].req = r
    <3> TAKE i \in DOMAIN stack[t]
    <3> HAVE stack[t][i].pc = "give up" /\ stack[t][i].req = r
    <3>1. i > 1
      BY <1>10, <2>1 DEF Top
    <3>2. i - 1 \in DOMAIN stack'[t] /\ stack'[t][i - 1] = stack[t][i]
      BY <1>3, <1>7, <3>1
    <3> QED
      BY <3>2
  <2> QED
    BY <1>7, <2>2, GivingUpKept
<1> QED
  BY <1>7, <1>8, <1>9, <1>10

\* The innermost call of t goes on.
LEMMA Moves ==
    ASSUME TypeInv, StackInv, NEW t \in Threads, NEW c \in CallType,
           StackStep(t, [stack[t] EXCEPT ![1] = c]),
           c.req = Top(t).req, Top(t).pc = "give up" => c.pc = "give up"
    PROVE  /\ StackInv' /\ stack' \in [Threads -> Seq(CallType)]
           /\ \A u \in Threads : u # t => stack'[u] = stack[u]
           /\ 1 \in DOMAIN stack'[t] /\ stack'[t] # <<>> /\ stack'[t][1] = c
           /\ \A i \in DOMAIN stack'[t] :
                 i # 1 => \E j \in DOMAIN stack[t] : stack'[t][i] = stack[t][j]
           /\ \A r : Uncounted(t, r)' = IF c.pc = "sent" /\ c.req = r THEN 1 ELSE 0
           /\ \A r : GivingUp(r) => GivingUp(r)'
<1>1. stack[t] \in Seq(CallType) /\ stack[t] # <<>>
  BY DEF TypeInv, StackStep
<1>2. PICK q : q = [stack[t] EXCEPT ![1] = c]
  OBVIOUS
<1>3. /\ q \in Seq(CallType) /\ q # <<>> /\ q[1] = c
      /\ DOMAIN q = DOMAIN stack[t] /\ 1 \in DOMAIN stack[t]
      /\ \A i \in DOMAIN q : i > 1 => q[i] = stack[t][i]
  <2>1. PICK s : s = stack[t]
    OBVIOUS
  <2>2. s \in Seq(CallType) /\ s # <<>> /\ q = [s EXCEPT ![1] = c]
    BY <1>1, <1>2, <2>1
  <2>3. /\ q \in Seq(CallType) /\ q # <<>> /\ q[1] = c
        /\ DOMAIN q = DOMAIN s /\ 1 \in DOMAIN s
        /\ \A i \in DOMAIN q : i > 1 => q[i] = s[i]
    BY <2>2, TopSet
  <2> QED
    BY <2>1, <2>3
<1>4. \A i \in DOMAIN q : i = 1 \/ i > 1
  <2>1. q \in Seq(CallType)
    BY <1>3
  <2> QED
    BY ONLY <2>1
<1>5. \A i \in DOMAIN q : i > 1 => q[i].pc = "give up"
  BY <1>3 DEF StackInv
<1>6. StackStep(t, q)
  BY <1>2
<1>7. /\ StackInv' /\ stack' \in [Threads -> Seq(CallType)] /\ stack'[t] = q
      /\ \A u \in Threads : u # t => stack'[u] = stack[u]
  BY <1>3, <1>5, <1>6, StackStepKept
<1>8. \A i \in DOMAIN stack'[t] : i # 1 => \E j \in DOMAIN stack[t] : stack'[t][i] = stack[t][j]
  BY <1>3, <1>4, <1>7
<1>9. \A r : Uncounted(t, r)' = IF c.pc = "sent" /\ c.req = r THEN 1 ELSE 0
  BY <1>3, <1>7 DEF Uncounted, Top
<1>10. ASSUME NEW r PROVE GivingUp(r) => GivingUp(r)'
  <2>1. \A i \in DOMAIN stack[t] : stack[t][i].pc = "give up" /\ stack[t][i].req = r =>
           \E j \in DOMAIN stack'[t] : stack'[t][j].pc = "give up" /\ stack'[t][j].req = r
    BY <1>3, <1>4, <1>7 DEF Top
  <2> QED
    BY <1>7, <2>1, GivingUpKept
<1> QED
  BY <1>3, <1>7, <1>8, <1>9, <1>10
-----------------------------------------------------------------------------
(* handle_arpreq().                                                        *)

\* A step of thread t that leaves the requests and the packets alone.
LEMMA QuietStep ==
    ASSUME TypeInv, RunInv, NEW t \in Threads, UNCHANGED <<arpreq, requests, arrived, fate>>,
           sweep' \in [awake : BOOLEAN, slept : BOOLEAN, next : 0 .. MaxRequests],
           StackInv', stack' \in [Threads -> Seq(CallType)],
           \A u \in Threads : u # t => stack'[u] = stack[u],
           \A i \in DOMAIN stack'[t] :
              CallInv(stack[t][i])' \/ \E j \in DOMAIN stack[t] : stack'[t][i] = stack[t][j],
           \A r : Uncounted(t, r)' = 0,
           \A r : GivingUp(r) => GivingUp(r)'
    PROVE  TypeInv' /\ RunInv'
<1>1. TypeInv'
  BY DEF TypeInv
<1>2. \A r : (Live(r)' <=> Live(r)) /\ Waiting(r)' = Waiting(r)
  BY DEF Live, Waiting
<1>3. ListInv'
  <2>1. \A r \in Requests : Live(r) =>
           arpreq'[r].ip = arpreq[r].ip /\ arpreq'[r].packets # <<>>
    BY DEF RunInv, ListInv
  <2> QED
    BY <1>2, <2>1, ListKept DEF RunInv
<1>4. FateInv'
  BY <1>2, FateKept DEF RunInv
<1>5. CountInv'
  <2>1. \A r \in Requests : Live(r) /\ Live(r)' =>
           /\ Waiting(r) \subseteq Waiting(r)'
           /\ arpreq[r].broadcasts <= arpreq'[r].broadcasts
           /\ Uncounted(t, r)' + arpreq[r].broadcasts <= Uncounted(t, r) + arpreq'[r].broadcasts
    <3> TAKE r \in Requests
    <3>1. arpreq[r].broadcasts \in Nat /\ arpreq'[r].broadcasts = arpreq[r].broadcasts
      BY DEF TypeInv, RequestType
    <3>2. Uncounted(t, r)' = 0 /\ Uncounted(t, r) \in {0, 1}
      BY UncountedBit
    <3>3. Uncounted(t, r)' + arpreq[r].broadcasts <= Uncounted(t, r) + arpreq'[r].broadcasts
      BY <3>1, <3>2, SMTT(30)
    <3>4. arpreq[r].broadcasts <= arpreq'[r].broadcasts
      BY <3>1, SMTT(30)
    <3> QED
      BY <1>2, <3>3, <3>4
  <2>2. \A r \in Requests : Live(r)' /\ ~Live(r) =>
           /\ \A u \in Threads : \A i \in DOMAIN stack[u] : stack[u][i].req # r
           /\ Uncounted(t, r)' = 0
           /\ arpreq'[r].times_sent = 0
    BY <1>2
  <2>3. \A r \in Requests : Live(r)' /\ Live(r) =>
           \/ arpreq'[r].times_sent = arpreq[r].times_sent
           \/ arpreq'[r].times_sent + Uncounted("main", r)' + Uncounted("timeout", r)'
                 <= arpreq'[r].broadcasts
    OBVIOUS
  <2> QED
    BY <1>1, <2>1, <2>2, <2>3, CountKept DEF RunInv
<1> QED
  BY <1>1, <1>3, <1>4, <1>5 DEF RunInv

\* The process stops in a step that changes nothing else.
LEMMA CrashStep ==
    ASSUME RouterInv, Crash PROVE RouterInv'
<1>1. TypeInv' /\ OneFate'
  BY DEF RouterInv, TypeInv, OneFate, Crash, cacheVars
<1>2. ~Running'
  BY DEF Crash, Running
<1> QED
  BY <1>1, <1>2 DEF RouterInv

\* handle_arpreq() compares the times and the attempts.
LEMMA CheckStep ==
    ASSUME RouterInv, NEW t \in Threads, Check(t) PROVE RouterInv'
<1>1. CASE Dangling(t)
  BY <1>1, CrashStep DEF Check
<1> SUFFICES ASSUME ~Dangling(t) PROVE RouterInv'
  BY <1>1
<1>2. /\ TypeInv /\ RunInv /\ OneFate /\ Running /\ stack[t] # <<>> /\ Top(t).pc = "check"
      /\ UNCHANGED <<arpreq, requests, arrived, fate>> /\ sweep' = sweep /\ fault' = fault
  BY DEF Check, At, RouterInv, cacheVars
<1>3. PICK r : r = Top(t).req
  OBVIOUS
<1>4. /\ stack[t] \in Seq(CallType) /\ 1 \in DOMAIN stack[t]
      /\ Top(t) \in CallType /\ r \in Requests
  BY <1>2, <1>3, TopFacts
<1>5. /\ arpreq[r].packets \in Seq(PacketType) /\ Live(r)
      /\ arpreq[r].times_sent \in Nat /\ arpreq[r].broadcasts \in Nat
  BY <1>2, <1>3, <1>4, Parts DEF Live, Dangling
<1>6. sweep' \in [awake : BOOLEAN, slept : BOOLEAN, next : 0 .. MaxRequests]
  BY <1>2 DEF TypeInv
<1>7. StackInv
  BY <1>2 DEF RunInv
<1>8. SUFFICES TypeInv' /\ RunInv'
  BY <1>2 DEF RouterInv, OneFate, Running
<1>9. \/ stack' = [stack EXCEPT ![t] = Tail(@)]
      \/ /\ arpreq[r].times_sent >= MaxTries
         /\ stack' = [stack EXCEPT ![t][1].pc = "give up", ![t][1].waiting = arpreq[r].packets]
      \/ Resend(t)
  BY <1>3 DEF Check
<1>10. CASE stack' = [stack EXCEPT ![t] = Tail(@)]
  <2>1. StackStep(t, Tail(stack[t]))
    BY <1>2, <1>10 DEF StackStep
  <2>2. Top(t).pc # "give up"
    BY <1>2
  <2>3. /\ StackInv' /\ stack' \in [Threads -> Seq(CallType)]
        /\ \A u \in Threads : u # t => stack'[u] = stack[u]
        /\ \A i \in DOMAIN stack'[t] : \E j \in DOMAIN stack[t] : stack'[t][i] = stack[t][j]
        /\ \A s : Uncounted(t, s)' = 0
        /\ \A s : GivingUp(s) => GivingUp(s)'
    BY <1>2, <1>7, <2>1, <2>2, Returns
  <2> QED
    BY <1>2, <1>6, <2>3, QuietStep
<1>11. ASSUME NEW c \in CallType, stack' = [stack EXCEPT ![t] = [stack[t] EXCEPT ![1] = c]],
              c.req = r, c.pc # "sent", CallInv(c)'
       PROVE  TypeInv' /\ RunInv'
  <2>1. StackStep(t, [stack[t] EXCEPT ![1] = c])
    BY <1>2, <1>11 DEF StackStep
  <2>2. c.req = Top(t).req /\ (Top(t).pc = "give up" => c.pc = "give up")
    BY <1>2, <1>3, <1>11
  <2>3. /\ StackInv' /\ stack' \in [Threads -> Seq(CallType)]
        /\ \A u \in Threads : u # t => stack'[u] = stack[u]
        /\ stack'[t][1] = c
        /\ \A i \in DOMAIN stack'[t] :
              i # 1 => \E j \in DOMAIN stack[t] : stack'[t][i] = stack[t][j]
        /\ \A s : Uncounted(t, s)' = IF c.pc = "sent" /\ c.req = s THEN 1 ELSE 0
        /\ \A s : GivingUp(s) => GivingUp(s)'
    BY <1>2, <1>7, <2>1, <2>2, Moves
  <2>4. \A s : Uncounted(t, s)' = 0
    BY <1>11, <2>3
  <2>5. \A i \in DOMAIN stack'[t] :
           CallInv(stack[t][i])' \/ \E j \in DOMAIN stack[t] : stack'[t][i] = stack[t][j]
    <3> TAKE i \in DOMAIN stack'[t]
    <3>1. CASE i = 1
      BY <1>11, <2>3, <3>1 DEF CallInv
    <3>2. CASE i # 1
      BY <2>3, <3>2
    <3> QED
      BY <3>1, <3>2
  <2> QED
    BY <1>2, <1>6, <2>3, <2>4, <2>5, QuietStep
<1>12. CASE /\ arpreq[r].times_sent >= MaxTries
            /\ stack' = [stack EXCEPT ![t][1].pc = "give up",
                                      ![t][1].waiting = arpreq[r].packets]
  <2>1. PICK c : c = [Top(t) EXCEPT !.pc = "give up", !.waiting = arpreq[r].packets]
    OBVIOUS
  <2>2. c \in CallType /\ c.req = r /\ c.pc = "give up" /\ c.waiting = arpreq[r].packets
    <3>1. PICK w \in Seq(PacketType) : w = arpreq[r].packets
      BY <1>5
    <3>2. PICK d \in CallType : d = Top(t)
      BY <1>4
    <3>3. c = [d EXCEPT !.pc = "give up", !.waiting = w]
      BY <2>1, <3>1, <3>2
    <3>4. c \in CallType /\ c.req = d.req /\ c.pc = "give up" /\ c.waiting = w
      BY <3>3 DEF CallType
    <3> QED
      BY <1>3, <3>1, <3>2, <3>4
  <2>3. stack' = [stack EXCEPT ![t] = [stack[t] EXCEPT ![1] = c]]
    BY <1>2, <1>4, <1>12, <2>1 DEF Top, TypeInv
  <2>4. arpreq[r].broadcasts >= MaxTries
    <3>1. arpreq[r].times_sent + Uncounted("main", r) + Uncounted("timeout", r)
             <= arpreq[r].broadcasts
      BY <1>2, <1>4, <1>5 DEF RunInv, CountInv
    <3>2. Uncounted("main", r) \in {0, 1} /\ Uncounted("timeout", r) \in {0, 1}
      BY UncountedBit
    <3>3. MaxTries \in Nat
      BY Constants
    <3>4. \A a, d, m \in Nat : \A b, x \in {0, 1} : a + b + x <= d /\ a >= m => d >= m
      BY SMTT(30)
    <3> QED
      BY <1>5, <1>12, <3>1, <3>2, <3>3, <3>4
  <2>5. CallInv(c)'
    <3>1. Range(c.waiting) = Waiting(c.req)' /\ arpreq'[c.req].broadcasts >= MaxTries
      BY <1>2, <2>2, <2>4 DEF Waiting
    <3>2. c.pc # "count"
      BY <2>2
    <3> QED
      BY <3>1, <3>2 DEF CallInv
  <2>6. c.pc # "sent"
    BY <2>2
  <2> QED
    BY <1>11, <2>2, <2>3, <2>5, <2>6
<1>13. CASE Resend(t)
  <2>1. PICK c : c = [Top(t) EXCEPT !.pc = "send", !.age = 0]
    OBVIOUS
  <2>2. c \in CallType /\ c.req = r /\ c.pc = "send"
    <3>1. PICK d \in CallType : d = Top(t)
      BY <1>4
    <3>2. c = [d EXCEPT !.pc = "send", !.age = 0]
      BY <2>1, <3>1
    <3>3. c \in CallType /\ c.req = d.req /\ c.pc = "send"
      BY <3>2 DEF CallType
    <3> QED
      BY <1>3, <3>1, <3>3
  <2>3. stack' = [stack EXCEPT ![t] = [stack[t] EXCEPT ![1] = c]]
    BY <1>2, <1>4, <1>13, <2>1 DEF Top, TypeInv, Resend
  <2>4. c.pc # "sent" /\ c.pc # "count" /\ c.pc # "give up"
    BY <2>2
  <2>5. CallInv(c)'
    BY <2>4 DEF CallInv
  <2> QED
    BY <1>11, <2>2, <2>3, <2>4, <2>5
<1> QED
  BY <1>9, <1>10, <1>12, <1>13

\* A step of thread t on a request r that stays in its place with its packets.
LEMMA RequestStep ==
    ASSUME TypeInv, RunInv, NEW r \in Requests, NEW q \in RequestType, Live(r),
           arpreq' = [arpreq EXCEPT ![r] = q],
           q.ip = arpreq[r].ip, q.packets = arpreq[r].packets,
           UNCHANGED <<requests, sweep, arrived, fate>>,
           StackInv', stack' \in [Threads -> Seq(CallType)],
           \A s : GivingUp(s) => GivingUp(s)'
    PROVE  /\ TypeInv'
           /\ arpreq'[r] = q /\ \A s \in Requests : s # r => arpreq'[s] = arpreq[s]
           /\ \A s \in Requests : (Live(s)' <=> Live(s)) /\ Waiting(s)' = Waiting(s)
           /\ CountInv' => RunInv'
<1>1. arpreq' \in [Requests -> RequestType]
  BY DEF TypeInv
<1>2. TypeInv'
  BY <1>1 DEF TypeInv
<1>3. arpreq'[r] = q /\ \A s \in Requests : s # r => arpreq'[s] = arpreq[s]
  BY DEF TypeInv
<1>4. \A s \in Requests : arpreq'[s].ip = arpreq[s].ip /\ arpreq'[s].packets = arpreq[s].packets
  BY <1>3
<1>5. Live(r)'
  <2>1. arpreq[r].packets # <<>>
    BY DEF RunInv, ListInv
  <2>2. Freed.packets = <<>>
    BY DEF Freed
  <2>3. arpreq'[r].packets # Freed.packets
    BY <1>4, <2>1, <2>2
  <2> QED
    BY <2>3 DEF Live
<1>6. \A s \in Requests : (Live(s)' <=> Live(s)) /\ Waiting(s)' = Waiting(s)
  <2> TAKE s \in Requests
  <2>1. Waiting(s)' = Waiting(s)
    BY <1>4 DEF Waiting
  <2>2. s # r => (Live(s)' <=> Live(s))
    BY <1>3 DEF Live
  <2>3. s = r => (Live(s)' <=> Live(s))
    BY <1>5 DEF Live
  <2> QED
    BY <2>1, <2>2, <2>3
<1>7. ListInv'
  <2>1. \A s \in Requests : Live(s) =>
           arpreq'[s].ip = arpreq[s].ip /\ arpreq'[s].packets # <<>>
    BY <1>4 DEF RunInv, ListInv
  <2> QED
    BY <1>6, <2>1, ListKept DEF RunInv
<1>8. FateInv'
  BY <1>6, FateKept DEF RunInv
<1> QED
  BY <1>2, <1>3, <1>6, <1>7, <1>8 DEF RunInv

\* handle_arpreq() sends an ARP request.
LEMMA BroadcastStep ==
    ASSUME RouterInv, NEW t \in Threads, Broadcast(t) PROVE RouterInv'
<1>1. CASE Dangling(t)
  BY <1>1, CrashStep DEF Broadcast
<1> SUFFICES ASSUME ~Dangling(t) PROVE RouterInv'
  BY <1>1
<1>2. PICK r : r = Top(t).req
  OBVIOUS
<1>3. /\ TypeInv /\ RunInv /\ OneFate /\ Running /\ stack[t] # <<>> /\ Top(t).pc = "send"
      /\ UNCHANGED <<requests, sweep, arrived, fate>> /\ fault' = fault
      /\ Goto(t, "sent") /\ arpreq' = [arpreq EXCEPT ![r].broadcasts = @ + 1]
  BY <1>2 DEF Broadcast, At, RouterInv
<1>4. /\ stack[t] \in Seq(CallType) /\ 1 \in DOMAIN stack[t]
      /\ Top(t) \in CallType /\ r \in Requests
  BY <1>2, <1>3, TopFacts
<1>5. Live(r) /\ arpreq[r] \in RequestType /\ arpreq[r].broadcasts \in Nat
  BY <1>2, <1>3, <1>4, Parts DEF Live, Dangling
<1>6. PICK q : q = [arpreq[r] EXCEPT !.broadcasts = @ + 1]
  OBVIOUS
<1>7. /\ q \in RequestType /\ q.ip = arpreq[r].ip /\ q.packets = arpreq[r].packets
      /\ q.broadcasts = arpreq[r].broadcasts + 1 /\ q.times_sent = arpreq[r].times_sent
  BY <1>5, <1>6, SMTT(30) DEF RequestType
<1>8. arpreq' = [arpreq EXCEPT ![r] = q]
  BY <1>3, <1>6
<1>9. PICK d \in CallType : d = Top(t)
  BY <1>4
<1>10. PICK c : c = [d EXCEPT !.pc = "sent"]
  OBVIOUS
<1>11. c \in CallType /\ c.req = r /\ c.pc = "sent"
  <2>1. c \in CallType /\ c.req = d.req /\ c.pc = "sent"
    BY <1>10 DEF CallType
  <2> QED
    BY <1>2, <1>9, <2>1
<1>12. StackStep(t, [stack[t] EXCEPT ![1] = c])
  <2>1. stack' = [stack EXCEPT ![t] = [stack[t] EXCEPT ![1] = c]]
    BY <1>3, <1>4, <1>9, <1>10 DEF Top, TypeInv, Goto
  <2> QED
    BY <1>3, <2>1 DEF StackStep
<1>13. c.req = Top(t).req /\ (Top(t).pc = "give up" => c.pc = "give up") /\ StackInv
  BY <1>2, <1>3, <1>11 DEF RunInv
<1>14. /\ StackInv' /\ stack' \in [Threads -> Seq(CallType)]
       /\ \A u \in Threads : u # t => stack'[u] = stack[u]
       /\ stack'[t][1] = c
       /\ \A i \in DOMAIN stack'[t] :
             i # 1 => \E j \in DOMAIN stack[t] : stack'[t][i] = stack[t][j]
       /\ \A s : Uncounted(t, s)' = IF c.pc = "sent" /\ c.req = s THEN 1 ELSE 0
       /\ \A s : GivingUp(s) => GivingUp(s)'
  <2>1. TypeInv /\ StackInv /\ c \in CallType
    BY <1>3, <1>11, <1>13
  <2>2. c.req = Top(t).req /\ (Top(t).pc = "give up" => c.pc = "give up")
    BY <1>13
  <2> QED
    BY ONLY <1>12, <2>1, <2>2, t \in Threads, Moves, ZenonT(30)
<1>15. /\ TypeInv'
       /\ arpreq'[r] = q /\ \A s \in Requests : s # r => arpreq'[s] = arpreq[s]
       /\ \A s \in Requests : (Live(s)' <=> Live(s)) /\ Waiting(s)' = Waiting(s)
       /\ CountInv' => RunInv'
  BY <1>3, <1>4, <1>5, <1>7, <1>8, <1>14, RequestStep
<1>16. CountInv'
  <2>1. \A i \in DOMAIN stack'[t] :
           CallInv(stack[t][i])' \/ \E j \in DOMAIN stack[t] : stack'[t][i] = stack[t][j]
    <3> TAKE i \in DOMAIN stack'[t]
    <3>1. CASE i = 1
      <4>1. stack'[t][i].pc = "sent"
        BY <1>11, <1>14, <3>1
      <4>2. "sent" # "count" /\ "sent" # "give up"
        OBVIOUS
      <4> QED
        BY <4>1, <4>2 DEF CallInv
    <3>2. CASE i # 1
      BY <1>14, <3>2
    <3> QED
      BY <3>1, <3>2
  <2>2. \A s \in Requests : Live(s) /\ Live(s)' =>
           /\ Waiting(s) \subseteq Waiting(s)'
           /\ arpreq[s].broadcasts <= arpreq'[s].broadcasts
           /\ Uncounted(t, s)' + arpreq[s].broadcasts <= Uncounted(t, s) + arpreq'[s].broadcasts
    <3> TAKE s \in Requests
    <3>1. Uncounted(t, s) \in {0, 1} /\ arpreq[s].broadcasts \in Nat
      BY <1>3, UncountedBit, Parts
    <3>2. \/ Uncounted(t, s)' = 1 /\ arpreq'[s].broadcasts = arpreq[s].broadcasts + 1
          \/ Uncounted(t, s)' = 0 /\ arpreq'[s].broadcasts = arpreq[s].broadcasts
      <4>1. CASE s = r
        BY <1>7, <1>11, <1>14, <1>15, <4>1
      <4>2. CASE s # r
        BY <1>11, <1>14, <1>15, <4>2
      <4> QED
        BY <4>1, <4>2
    <3>3. \A m \in {0, 1} : \A b \in Nat : /\ 1 + b <= m + (b + 1) /\ 0 + b <= m + b
                                           /\ b <= b /\ b <= b + 1
      BY SMTT(30)
    <3> QED
      BY <1>15, <3>1, <3>2, <3>3
  <2>3. \A s \in Requests : Live(s)' /\ ~Live(s) =>
           /\ \A u \in Threads : \A i \in DOMAIN stack[u] : stack[u][i].req # s
           /\ Uncounted(t, s)' = 0
           /\ arpreq'[s].times_sent = 0
    BY <1>15
  <2>4. \A s \in Requests : Live(s)' /\ Live(s) =>
           \/ arpreq'[s].times_sent = arpreq[s].times_sent
           \/ arpreq'[s].times_sent + Uncounted("main", s)' + Uncounted("timeout", s)'
                 <= arpreq'[s].broadcasts
    BY <1>7, <1>15
  <2> QED
    BY <1>3, <1>14, <1>15, <2>1, <2>2, <2>3, <2>4, CountKept DEF RunInv
<1> QED
  BY <1>3, <1>15, <1>16 DEF RouterInv, OneFate

\* When thread t has no attempt left to count, the others' count as before.
LEMMA UncountedSum ==
    ASSUME NEW t \in Threads, NEW r, \A u \in Threads : u # t => stack'[u] = stack[u],
           Uncounted(t, r)' = 0
    PROVE  Uncounted("main", r)' + Uncounted("timeout", r)' + Uncounted(t, r)
              = Uncounted("main", r) + Uncounted("timeout", r)
<1>1. \A u \in Threads : u # t => Uncounted(u, r)' = Uncounted(u, r)
  BY DEF Uncounted, Top
<1>2. Uncounted("main", r) \in {0, 1} /\ Uncounted("timeout", r) \in {0, 1}
  BY UncountedBit
<1>3. CASE t = "main"
  <2>1. Uncounted("timeout", r)' = Uncounted("timeout", r)
    BY <1>1, <1>3 DEF Threads
  <2> QED
    BY <1>2, <1>3, <2>1, SMTT(30)
<1>4. CASE t = "timeout"
  <2>1. Uncounted("main", r)' = Uncounted("main", r)
    BY <1>1, <1>4 DEF Threads
  <2> QED
    BY <1>2, <1>4, <2>1, SMTT(30)
<1> QED
  BY <1>3, <1>4 DEF Threads

\* handle_arpreq() notes the time and loads the counter.
LEMMA StampStep ==
    ASSUME RouterInv, NEW t \in Threads, Stamp(t) PROVE RouterInv'
<1>1. CASE Dangling(t)
  BY <1>1, CrashStep DEF Stamp
<1> SUFFICES ASSUME ~Dangling(t) PROVE RouterInv'
  BY <1>1
<1>2. PICK r : r = Top(t).req
  OBVIOUS
<1>3. /\ TypeInv /\ RunInv /\ OneFate /\ Running /\ stack[t] # <<>> /\ Top(t).pc = "sent"
      /\ UNCHANGED <<requests, sweep, arrived, fate>> /\ fault' = fault
      /\ arpreq' = [arpreq EXCEPT ![r].age = Top(t).age]
      /\ stack' = [stack EXCEPT ![t][1].pc = "count", ![t][1].count = arpreq[r].times_sent]
  BY <1>2 DEF Stamp, At, RouterInv
<1>4. /\ stack[t] \in Seq(CallType) /\ 1 \in DOMAIN stack[t]
      /\ Top(t) \in CallType /\ r \in Requests /\ Top(t).age \in Nat
  BY <1>2, <1>3, TopFacts
<1>5. /\ Live(r) /\ arpreq[r] \in RequestType
      /\ arpreq[r].broadcasts \in Nat /\ arpreq[r].times_sent \in Nat
  BY <1>2, <1>3, <1>4, Parts DEF Live, Dangling
<1>6. PICK q : q = [arpreq[r] EXCEPT !.age = Top(t).age]
  OBVIOUS
<1>7. /\ q \in RequestType /\ q.ip = arpreq[r].ip /\ q.packets = arpreq[r].packets
      /\ q.broadcasts = arpreq[r].broadcasts /\ q.times_sent = arpreq[r].times_sent
  BY <1>4, <1>5, <1>6 DEF RequestType
<1>8. arpreq' = [arpreq EXCEPT ![r] = q]
  BY <1>3, <1>6
<1>9. PICK d \in CallType : d = Top(t)
  BY <1>4
<1>10. PICK n \in Nat : n = arpreq[r].times_sent
  BY <1>5
<1>11. PICK c : c = [d EXCEPT !.pc = "count", !.count = n]
  OBVIOUS
<1>12. c \in CallType /\ c.req = r /\ c.pc = "count" /\ c.count = n
  <2>1. c \in CallType /\ c.req = d.req /\ c.pc = "count" /\ c.count = n
    BY <1>11 DEF CallType
  <2> QED
    BY <1>2, <1>9, <2>1
<1>13. StackStep(t, [stack[t] EXCEPT ![1] = c])
  <2>1. stack' = [stack EXCEPT ![t] = [stack[t] EXCEPT ![1] = c]]
    BY <1>3, <1>4, <1>9, <1>10, <1>11 DEF Top, TypeInv
  <2> QED
    BY <1>3, <2>1 DEF StackStep
<1>14. /\ StackInv' /\ stack' \in [Threads -> Seq(CallType)]
       /\ \A u \in Threads : u # t => stack'[u] = stack[u]
       /\ stack'[t][1] = c
       /\ \A i \in DOMAIN stack'[t] :
             i # 1 => \E j \in DOMAIN stack[t] : stack'[t][i] = stack[t][j]
       /\ \A s : Uncounted(t, s)' = IF c.pc = "sent" /\ c.req = s THEN 1 ELSE 0
       /\ \A s : GivingUp(s) => GivingUp(s)'
  <2>1. TypeInv /\ StackInv /\ c \in CallType
    BY <1>3, <1>12 DEF RunInv
  <2>2. c.req = Top(t).req /\ (Top(t).pc = "give up" => c.pc = "give up")
    BY <1>2, <1>3, <1>12
  <2> QED
    BY ONLY <1>13, <2>1, <2>2, t \in Threads, Moves, ZenonT(30)
<1>15. \A s : Uncounted(t, s)' = 0
  <2>1. c.pc # "sent"
    BY <1>12
  <2> QED
    BY <1>14, <2>1
<1>16. /\ TypeInv'
       /\ arpreq'[r] = q /\ \A s \in Requests : s # r => arpreq'[s] = arpreq[s]
       /\ \A s \in Requests : (Live(s)' <=> Live(s)) /\ Waiting(s)' = Waiting(s)
       /\ CountInv' => RunInv'
  <2>1. /\ TypeInv /\ RunInv /\ r \in Requests /\ q \in RequestType /\ Live(r)
        /\ q.ip = arpreq[r].ip /\ q.packets = arpreq[r].packets
        /\ StackInv' /\ stack' \in [Threads -> Seq(CallType)]
        /\ \A s : GivingUp(s) => GivingUp(s)'
    BY <1>3, <1>4, <1>5, <1>7, <1>14
  <2>2. UNCHANGED <<requests, sweep, arrived, fate>>
    BY <1>3
  <2> QED
    BY ONLY <1>8, <2>1, <2>2, RequestStep
<1>17. \A s \in Requests : /\ arpreq'[s].broadcasts = arpreq[s].broadcasts
                           /\ arpreq'[s].times_sent = arpreq[s].times_sent
  BY <1>7, <1>16
<1>18. CallInv(c)'
  <2>1. n + 1 + Uncounted("main", r)' + Uncounted("timeout", r)' <= arpreq[r].broadcasts
    <3>1. n + Uncounted("main", r) + Uncounted("timeout", r) <= arpreq[r].broadcasts
      BY <1>3, <1>4, <1>5, <1>10 DEF RunInv, CountInv
    <3>2. Uncounted(t, r) = 1
      BY <1>2, <1>3 DEF Uncounted
    <3>3. Uncounted("main", r)' + Uncounted("timeout", r)' + Uncounted(t, r)
             = Uncounted("main", r) + Uncounted("timeout", r)
      BY <1>14, <1>15, UncountedSum
    <3>4. /\ Uncounted("main", r) \in {0, 1} /\ Uncounted("timeout", r) \in {0, 1}
          /\ Uncounted("main", r)' \in {0, 1} /\ Uncounted("timeout", r)' \in {0, 1}
      BY DEF Uncounted
    <3> QED
      BY <1>5, <3>1, <3>2, <3>3, <3>4, SMTT(30)
  <2>2. c.pc # "give up"
    BY <1>12
  <2> QED
    BY <1>4, <1>12, <1>17, <2>1, <2>2 DEF CallInv
<1>19. CountInv'
  <2>1. \A i \in DOMAIN stack'[t] :
           CallInv(stack[t][i])' \/ \E j \in DOMAIN stack[t] : stack'[t][i] = stack[t][j]
    <3> TAKE i \in DOMAIN stack'[t]
    <3>1. CASE i = 1
      BY <1>14, <1>18, <3>1 DEF CallInv
    <3>2. CASE i # 1
      BY <1>14, <3>2
    <3> QED
      BY <3>1, <3>2
  <2>2. \A s \in Requests : Live(s) /\ Live(s)' =>
           /\ Waiting(s) \subseteq Waiting(s)'
           /\ arpreq[s].broadcasts <= arpreq'[s].broadcasts
           /\ Uncounted(t, s)' + arpreq[s].broadcasts <= Uncounted(t, s) + arpreq'[s].broadcasts
    <3> TAKE s \in Requests
    <3>1. Uncounted(t, s) \in {0, 1} /\ arpreq[s].broadcasts \in Nat
      BY <1>3, UncountedBit, Parts
    <3>2. \A m \in {0, 1} : \A b \in Nat : 0 + b <= m + b /\ b <= b
      BY Counts
    <3> QED
      BY <1>15, <1>16, <1>17, <3>1, <3>2
  <2>3. \A s \in Requests : Live(s)' /\ ~Live(s) =>
           /\ \A u \in Threads : \A i \in DOMAIN stack[u] : stack[u][i].req # s
           /\ Uncounted(t, s)' = 0
           /\ arpreq'[s].times_sent = 0
    BY <1>16
  <2>4. \A s \in Requests : Live(s)' /\ Live(s) =>
           \/ arpreq'[s].times_sent = arpreq[s].times_sent
           \/ arpreq'[s].times_sent + Uncounted("main", s)' + Uncounted("timeout", s)'
                 <= arpreq'[s].broadcasts
    BY <1>17
  <2> QED
    BY <1>3, <1>14, <1>16, <2>1, <2>2, <2>3, <2>4, CountKept DEF RunInv
<1> QED
  BY <1>3, <1>16, <1>19 DEF RouterInv, OneFate

\* handle_arpreq() stores the counter and returns.
LEMMA CountStep ==
    ASSUME RouterInv, NEW t \in Threads, Count(t) PROVE RouterInv'
<1>1. CASE Dangling(t)
  BY <1>1, CrashStep DEF Count
<1> SUFFICES ASSUME ~Dangling(t) PROVE RouterInv'
  BY <1>1
<1>2. PICK r : r = Top(t).req
  OBVIOUS
<1>3. /\ TypeInv /\ RunInv /\ OneFate /\ Running /\ stack[t] # <<>> /\ Top(t).pc = "count"
      /\ UNCHANGED <<requests, sweep, arrived, fate>> /\ fault' = fault
      /\ arpreq' = [arpreq EXCEPT ![r].times_sent = Top(t).count + 1]
      /\ stack' = [stack EXCEPT ![t] = Tail(@)]
  BY <1>2 DEF Count, At, RouterInv
<1>4. /\ stack[t] \in Seq(CallType) /\ 1 \in DOMAIN stack[t]
      /\ Top(t) \in CallType /\ r \in Requests /\ Top(t).count \in Nat
  BY <1>2, <1>3, TopFacts
<1>5. /\ Live(r) /\ arpreq[r] \in RequestType /\ arpreq[r].broadcasts \in Nat
  BY <1>2, <1>3, <1>4, Parts DEF Live, Dangling
<1>6. PICK n \in Nat : n = Top(t).count
  BY <1>4
<1>7. PICK q : q = [arpreq[r] EXCEPT !.times_sent = n + 1]
  OBVIOUS
<1>8. /\ q \in RequestType /\ q.ip = arpreq[r].ip /\ q.packets = arpreq[r].packets
      /\ q.broadcasts = arpreq[r].broadcasts /\ q.times_sent = n + 1
  <2>1. n + 1 \in Nat
    BY SMTT(30)
  <2> QED
    BY ONLY <1>5, <1>7, <2>1 DEF RequestType
<1>9. arpreq' = [arpreq EXCEPT ![r] = q]
  BY <1>3, <1>6, <1>7
<1>10. StackStep(t, Tail(stack[t]))
  BY <1>3 DEF StackStep
<1>11. /\ StackInv' /\ stack' \in [Threads -> Seq(CallType)]
       /\ \A u \in Threads : u # t => stack'[u] = stack[u]
       /\ \A i \in DOMAIN stack'[t] : \E j \in DOMAIN stack[t] : stack'[t][i] = stack[t][j]
       /\ \A s : Uncounted(t, s)' = 0
       /\ \A s : GivingUp(s) => GivingUp(s)'
  <2>1. TypeInv /\ StackInv /\ Top(t).pc # "give up"
    BY <1>3 DEF RunInv
  <2> QED
    BY ONLY <1>10, <2>1, t \in Threads, Returns
<1>12. /\ TypeInv'
       /\ arpreq'[r] = q /\ \A s \in Requests : s # r => arpreq'[s] = arpreq[s]
       /\ \A s \in Requests : (Live(s)' <=> Live(s)) /\ Waiting(s)' = Waiting(s)
       /\ CountInv' => RunInv'
  <2>1. /\ TypeInv /\ RunInv /\ r \in Requests /\ q \in RequestType /\ Live(r)
        /\ q.ip = arpreq[r].ip /\ q.packets = arpreq[r].packets
        /\ StackInv' /\ stack' \in [Threads -> Seq(CallType)]
        /\ \A s : GivingUp(s) => GivingUp(s)'
    BY <1>3, <1>4, <1>5, <1>8, <1>11
  <2>2. UNCHANGED <<requests, sweep, arrived, fate>>
    BY <1>3
  <2> QED
    BY ONLY <1>9, <2>1, <2>2, RequestStep
<1>13. \A s \in Requests : /\ arpreq'[s].broadcasts = arpreq[s].broadcasts
                           /\ s # r => arpreq'[s].times_sent = arpreq[s].times_sent
  BY <1>8, <1>12
<1>14. arpreq'[r].times_sent + Uncounted("main", r)' + Uncounted("timeout", r)'
          <= arpreq'[r].broadcasts
  <2>1. n + 1 + Uncounted("main", r) + Uncounted("timeout", r) <= arpreq[r].broadcasts
    <3>1. CallInv(Top(t))
      BY <1>3, <1>4 DEF RunInv, CountInv, Top
    <3> QED
      BY <1>2, <1>3, <1>5, <1>6, <3>1 DEF CallInv
  <2>2. Uncounted("main", r)' + Uncounted("timeout", r)' + Uncounted(t, r)
           = Uncounted("main", r) + Uncounted("timeout", r)
    BY <1>11, UncountedSum
  <2>3. /\ Uncounted("main", r) \in {0, 1} /\ Uncounted("timeout", r) \in {0, 1}
        /\ Uncounted("main", r)' \in {0, 1} /\ Uncounted("timeout", r)' \in {0, 1}
        /\ Uncounted(t, r) \in {0, 1}
    BY DEF Uncounted
  <2>4. \A a, b \in Nat : \A k, l, m, o, x \in {0, 1} :
           a + 1 + k + l <= b /\ m + o + x = k + l => (a + 1) + m + o <= b
    BY SMTT(30)
  <2>5. (n + 1) + Uncounted("main", r)' + Uncounted("timeout", r)' <= arpreq[r].broadcasts
    BY <1>5, <2>1, <2>2, <2>3, <2>4
  <2> QED
    BY <1>4, <1>8, <1>12, <1>13, <2>5
<1>15. CountInv'
  <2>1. \A i \in DOMAIN stack'[t] :
           CallInv(stack[t][i])' \/ \E j \in DOMAIN stack[t] : stack'[t][i] = stack[t][j]
    BY <1>11
  <2>2. \A s \in Requests : Live(s) /\ Live(s)' =>
           /\ Waiting(s) \subseteq Waiting(s)'
           /\ arpreq[s].broadcasts <= arpreq'[s].broadcasts
           /\ Uncounted(t, s)' + arpreq[s].broadcasts <= Uncounted(t, s) + arpreq'[s].broadcasts
    <3> TAKE s \in Requests
    <3>1. Uncounted(t, s) \in {0, 1} /\ arpreq[s].broadcasts \in Nat
      BY <1>3, UncountedBit, Parts
    <3>2. \A m \in {0, 1} : \A b \in Nat : 0 + b <= m + b /\ b <= b
      BY Counts
    <3> QED
      BY <1>11, <1>12, <1>13, <3>1, <3>2
  <2>3. \A s \in Requests : Live(s)' /\ ~Live(s) =>
           /\ \A u \in Threads : \A i \in DOMAIN stack[u] : stack[u][i].req # s
           /\ Uncounted(t, s)' = 0
           /\ arpreq'[s].times_sent = 0
    BY <1>12
  <2>4. \A s \in Requests : Live(s)' /\ Live(s) =>
           \/ arpreq'[s].times_sent = arpreq[s].times_sent
           \/ arpreq'[s].times_sent + Uncounted("main", s)' + Uncounted("timeout", s)'
                 <= arpreq'[s].broadcasts
    BY <1>13, <1>14
  <2> QED
    BY <1>3, <1>11, <1>12, <2>1, <2>2, <2>3, <2>4, CountKept DEF RunInv
<1> QED
  BY <1>3, <1>12, <1>15 DEF RouterInv, OneFate

\* A request is unlinked and freed.
LEMMA Removal ==
    ASSUME TypeInv, ListInv, NEW r \in Requests, Live(r),
           requests' = Without(r), arpreq' = [arpreq EXCEPT ![r] = Freed]
    PROVE  /\ ListInv' /\ requests' \in Seq(Requests) /\ arpreq' \in [Requests -> RequestType]
           /\ ~Live(r)' /\ Waiting(r)' = {}
           /\ \A s \in Requests : s # r => arpreq'[s] = arpreq[s]
<1>1. Freed \in RequestType
  <2>1. <<>> \in Seq(PacketType)
    BY EmptyList
  <2> QED
    BY <2>1 DEF Freed, RequestType
<1>2. arpreq' \in [Requests -> RequestType]
  BY <1>1 DEF TypeInv
<1>3. arpreq'[r] = Freed /\ \A s \in Requests : s # r => arpreq'[s] = arpreq[s]
  BY DEF TypeInv
<1>4. ~Live(r)'
  BY <1>3 DEF Live
<1>5. Waiting(r)' = {}
  BY <1>3, SMTT(30) DEF Waiting, Freed, Range
<1>6. PICK k \in DOMAIN requests : requests[k] = r
  BY DEF ListInv
<1>7. PICK l \in Seq(Requests) : l = requests
  BY DEF TypeInv
<1>8. \A i \in DOMAIN l : l[i] = l[k] => i = k
  BY <1>6, <1>7 DEF ListInv
<1>9. PICK q : q = Omit(l, k)
  OBVIOUS
<1>10. /\ q \in Seq(Requests)
       /\ \A i \in DOMAIN q : \E j \in DOMAIN l : /\ j = IF i < k THEN i ELSE i + 1
                                                  /\ q[i] = l[j]
       /\ \A j \in DOMAIN l : j # k => \E i \in DOMAIN q : q[i] = l[j]
  <2>1. l \in Seq(Requests) /\ k \in DOMAIN l
    BY <1>6, <1>7
  <2> QED
    BY ONLY <1>9, <2>1, Unlinked, SMT
<1>11. requests' = q
  <2>1. Position(r) = k
    BY <1>6, PositionFinds
  <2>2. k # 0
    BY <1>7, SMTT(30)
  <2> QED
    BY <1>7, <1>9, <2>1, <2>2 DEF Without, Omit
<1>12. k \in Nat /\ DOMAIN q \subseteq Nat
  BY <1>6, <1>7, <1>10, SMTT(30)
<1>13. \A i \in DOMAIN q : \E j \in DOMAIN l : /\ j = (IF i < k THEN i ELSE i + 1) /\ j # k
                                               /\ q[i] = l[j] /\ q[i] # r /\ q[i] \in Requests
  <2> TAKE i \in DOMAIN q
  <2>1. PICK j \in DOMAIN l : j = (IF i < k THEN i ELSE i + 1) /\ q[i] = l[j]
    BY <1>10
  <2>2. j # k
    BY <1>12, <2>1, SMTT(30)
  <2>3. q[i] # r
    BY <1>6, <1>7, <1>8, <2>1, <2>2
  <2>4. q[i] \in Requests
    BY <1>10, SMTT(30)
  <2> QED
    BY <2>1, <2>2, <2>3, <2>4
<1>14. \A i \in DOMAIN q : arpreq'[q[i]] = arpreq[q[i]]
  BY <1>3, <1>13
<1>15. (\A i \in DOMAIN requests : Live(requests[i]))'
  <2> SUFFICES ASSUME NEW i \in DOMAIN q PROVE arpreq'[q[i]] # Freed
    BY <1>11 DEF Live
  <2>1. PICK j \in DOMAIN l : q[i] = l[j]
    BY <1>13
  <2>2. arpreq[l[j]] # Freed
    BY <1>7, <2>1 DEF ListInv, Live
  <2> QED
    BY <1>14, <2>1, <2>2
<1>16. (\A i, j \in DOMAIN requests :
           arpreq[requests[i]].ip = arpreq[requests[j]].ip => i = j)'
  <2> SUFFICES ASSUME NEW i \in DOMAIN requests', NEW j \in DOMAIN requests',
                      arpreq'[requests'[i]].ip = arpreq'[requests'[j]].ip
               PROVE  i = j
    OBVIOUS
  <2>0. i \in DOMAIN q /\ j \in DOMAIN q /\ arpreq[q[i]].ip = arpreq[q[j]].ip
    BY <1>11, <1>14
  <2>1. PICK x \in DOMAIN l : x = (IF i < k THEN i ELSE i + 1) /\ q[i] = l[x]
    BY <1>10, <2>0
  <2>2. PICK y \in DOMAIN l : y = (IF j < k THEN j ELSE j + 1) /\ q[j] = l[y]
    BY <1>10, <2>0
  <2>3. x = y
    <3>1. arpreq[l[x]].ip = arpreq[l[y]].ip
      BY <2>0, <2>1, <2>2
    <3> QED
      BY <1>7, <3>1 DEF ListInv
  <2> QED
    BY <1>12, <2>0, <2>1, <2>2, <2>3, SMTT(30)
<1>17. (\A s \in Requests : Live(s) =>
           /\ \E i \in DOMAIN requests : requests[i] = s
           /\ arpreq[s].ip \in Hops
           /\ arpreq[s].packets # <<>>)'
  <2> SUFFICES ASSUME NEW s \in Requests, Live(s)'
               PROVE  /\ \E i \in DOMAIN q : q[i] = s
                      /\ arpreq'[s].ip \in Hops
                      /\ arpreq'[s].packets # <<>>
    BY <1>11
  <2>1. s # r
    BY <1>4 DEF Live
  <2>2. arpreq'[s] = arpreq[s] /\ Live(s)
    BY <1>3, <2>1 DEF Live
  <2>3. PICK j \in DOMAIN l : l[j] = s
    BY <1>7, <2>2 DEF ListInv
  <2>4. j # k
    BY <1>6, <1>7, <2>1, <2>3
  <2>5. \E i \in DOMAIN q : q[i] = s
    BY <1>10, <2>3, <2>4
  <2> QED
    BY <2>2, <2>5 DEF ListInv
<1>18. ListInv'
  BY <1>15, <1>16, <1>17 DEF ListInv
<1> QED
  BY <1>2, <1>3, <1>4, <1>5, <1>10, <1>11, <1>18

\* The request that was given up is destroyed.
LEMMA DestroyStep ==
    ASSUME RouterInv, NEW t \in Threads, Destroy(t) PROVE RouterInv'
<1>1. CASE Dangling(t)
  BY <1>1, CrashStep DEF Destroy
<1> SUFFICES ASSUME ~Dangling(t) PROVE RouterInv'
  BY <1>1
<1>2. PICK r : r = Top(t).req
  OBVIOUS
<1>3. /\ TypeInv /\ RunInv /\ OneFate /\ Running /\ stack[t] # <<>>
      /\ UNCHANGED <<sweep, arrived, fate>> /\ fault' = fault
      /\ requests' = Without(r)
      /\ arpreq' = [arpreq EXCEPT ![r] = Freed]
      /\ stack' = [stack EXCEPT ![t] = Tail(@)]
  BY <1>2 DEF Destroy, At, RouterInv
<1>4. r \in Requests /\ Live(r)
  <2>1. r \in Requests
    BY <1>2, <1>3, TopFacts
  <2> QED
    BY <1>2, <2>1 DEF Live, Dangling
<1>5. StackStep(t, Tail(stack[t]))
  BY <1>3 DEF StackStep
<1>6. /\ StackInv' /\ stack' \in [Threads -> Seq(CallType)]
      /\ \A u \in Threads : u # t => stack'[u] = stack[u]
      /\ \A i \in DOMAIN stack'[t] : \E j \in DOMAIN stack[t] : stack'[t][i] = stack[t][j]
      /\ \A s : Uncounted(t, s)' = 0
      /\ \A s : r # s => (GivingUp(s) => GivingUp(s)')
  <2>1. TypeInv /\ StackInv
    BY <1>3 DEF RunInv
  <2>2. /\ StackInv' /\ stack' \in [Threads -> Seq(CallType)]
        /\ \A u \in Threads : u # t => stack'[u] = stack[u]
        /\ \A i \in DOMAIN stack'[t] : \E j \in DOMAIN stack[t] : stack'[t][i] = stack[t][j]
        /\ \A s : Uncounted(t, s)' = 0
        /\ \A s : Top(t).pc # "give up" \/ Top(t).req # s => (GivingUp(s) => GivingUp(s)')
    BY ONLY <1>5, <2>1, t \in Threads, Returns
  <2> QED
    BY <1>2, <2>2
<1>7. /\ ListInv' /\ requests' \in Seq(Requests) /\ arpreq' \in [Requests -> RequestType]
      /\ ~Live(r)' /\ Waiting(r)' = {}
      /\ \A s \in Requests : s # r => arpreq'[s] = arpreq[s]
  BY <1>3, <1>4, Removal DEF RunInv
<1>8. TypeInv'
  BY <1>3, <1>6, <1>7 DEF TypeInv
<1>9. \A s \in Requests : Live(s)' => s # r /\ Live(s) /\ arpreq'[s] = arpreq[s]
  <2> TAKE s \in Requests
  <2> HAVE Live(s)'
  <2>1. s # r
    BY <1>7 DEF Live
  <2>2. arpreq'[s] = arpreq[s]
    BY <1>7, <2>1
  <2> QED
    BY <2>1, <2>2 DEF Live
<1>10. FateInv'
  <2>1. \A s \in Requests : s # r => Waiting(s)' = Waiting(s)
    BY <1>7 DEF Waiting
  <2>2. \A s \in Requests : s = r => Waiting(s)' = {}
    BY <1>7 DEF Waiting
  <2>3. \A s \in Requests : Waiting(s)' \subseteq Waiting(s)
    BY <2>1, <2>2
  <2>4. \A s \in Requests : GivingUp(s) => GivingUp(s)' \/ Waiting(s)' = {}
    BY <1>6, <2>2
  <2>5. FateInv /\ arrived' = arrived /\ fate' = fate
    BY <1>3 DEF RunInv
  <2> QED
    BY ONLY <2>3, <2>4, <2>5, FateKept
<1>11. CountInv'
  <2>1. \A i \in DOMAIN stack'[t] :
           CallInv(stack[t][i])' \/ \E j \in DOMAIN stack[t] : stack'[t][i] = stack[t][j]
    BY <1>6
  <2>2. \A s \in Requests : Live(s) /\ Live(s)' =>
           /\ Waiting(s) \subseteq Waiting(s)'
           /\ arpreq[s].broadcasts <= arpreq'[s].broadcasts
           /\ Uncounted(t, s)' + arpreq[s].broadcasts <= Uncounted(t, s) + arpreq'[s].broadcasts
    <3> TAKE s \in Requests
    <3> HAVE Live(s) /\ Live(s)'
    <3>1. Uncounted(t, s) \in {0, 1} /\ arpreq[s].broadcasts \in Nat
      BY <1>3, UncountedBit, Parts
    <3>2. \A m \in {0, 1} : \A b \in Nat : 0 + b <= m + b /\ b <= b
      BY Counts
    <3>3. arpreq'[s] = arpreq[s]
      BY <1>9
    <3>4. Waiting(s)' = Waiting(s)
      BY <3>3 DEF Waiting
    <3> QED
      BY <1>6, <3>1, <3>2, <3>3, <3>4
  <2>3. \A s \in Requests : Live(s)' /\ ~Live(s) =>
           /\ \A u \in Threads : \A i \in DOMAIN stack[u] : stack[u][i].req # s
           /\ Uncounted(t, s)' = 0
           /\ arpreq'[s].times_sent = 0
    BY <1>9
  <2>4. \A s \in Requests : Live(s)' /\ Live(s) =>
           \/ arpreq'[s].times_sent = arpreq[s].times_sent
           \/ arpreq'[s].times_sent + Uncounted("main", s)' + Uncounted("timeout", s)'
                 <= arpreq'[s].broadcasts
    BY <1>9
  <2> QED
    BY <1>3, <1>6, <1>8, <2>1, <2>2, <2>3, <2>4, CountKept DEF RunInv
<1> QED
  BY <1>3, <1>6, <1>7, <1>8, <1>10, <1>11 DEF RouterInv, OneFate, RunInv
-----------------------------------------------------------------------------
(* A packet is queued for a next hop.                                      *)

\* A packet in front of the list of a request.
LEMMA WithPacket ==
    ASSUME NEW q \in RequestType, NEW p \in PacketType
    PROVE  LET n == [q EXCEPT !.packets = <<p>> \o @]
           IN  /\ n \in RequestType /\ n.ip = q.ip /\ n.packets # <<>>
               /\ Range(n.packets) = {p} \cup Range(q.packets)
               /\ n.times_sent = q.times_sent /\ n.broadcasts = q.broadcasts
<1>1. PICK l \in Seq(PacketType) : l = q.packets
  BY DEF RequestType
<1>2. /\ <<p>> \o l \in Seq(PacketType) /\ <<p>> \o l # <<>>
      /\ Range(<<p>> \o l) = {p} \cup Range(l)
  BY Pushed
<1>3. PICK m \in Seq(PacketType) : m = <<p>> \o l
  BY <1>2
<1>4. PICK n : n = [q EXCEPT !.packets = m]
  OBVIOUS
<1>5. /\ n \in RequestType /\ n.ip = q.ip /\ n.packets = m
      /\ n.times_sent = q.times_sent /\ n.broadcasts = q.broadcasts
  BY <1>4 DEF RequestType
<1>6. n = [q EXCEPT !.packets = <<p>> \o @]
  BY <1>1, <1>3, <1>4
<1> QED
  BY <1>1, <1>2, <1>3, <1>5, <1>6

\* A new request for a next hop that has none is put on the list.
LEMMA Linked ==
    ASSUME TypeInv, ListInv, NEW r \in Requests, ~Live(r), NEW ip \in Hops, Queued(ip) = 0,
           NEW n \in RequestType, n.ip = ip, n.packets # <<>>,
           arpreq' = [arpreq EXCEPT ![r] = n], requests' = <<r>> \o requests
    PROVE  requests' \in Seq(Requests) /\ ListInv'
<1>1. PICK l \in Seq(Requests) : l = requests
  BY DEF TypeInv
<1>2. PICK q : q = <<r>> \o l
  OBVIOUS
<1>3. /\ q \in Seq(Requests) /\ q[1] = r /\ 1 \in DOMAIN q
      /\ \A i \in DOMAIN q : i > 1 => i - 1 \in DOMAIN l /\ q[i] = l[i - 1]
      /\ \A i \in DOMAIN l : i + 1 \in DOMAIN q /\ q[i + 1] = l[i]
  BY <1>2, Pushed, SMTT(30)
<1>4. requests' = q
  BY <1>1, <1>2
<1>5. arpreq'[r] = n /\ \A s \in Requests : s # r => arpreq'[s] = arpreq[s]
  BY DEF TypeInv
<1>6. n # Freed
  <2>1. n.packets # Freed.packets
    BY DEF Freed
  <2> QED
    BY <2>1
<1>7. \A i \in DOMAIN l : /\ l[i] \in Requests /\ l[i] # r /\ arpreq[l[i]] # Freed
                          /\ arpreq[l[i]].ip # ip /\ arpreq'[l[i]] = arpreq[l[i]]
  <2> TAKE i \in DOMAIN l
  <2>1. l[i] \in Requests
    BY SMTT(30)
  <2>2. arpreq[l[i]] # Freed
    BY <1>1 DEF ListInv, Live
  <2>3. arpreq[l[i]].ip # ip
    BY <1>1, QueuedFinds
  <2>4. l[i] # r
    BY <2>2 DEF Live
  <2> QED
    BY <1>5, <2>1, <2>2, <2>3, <2>4
<1>8. \A i \in DOMAIN q : i = 1 \/ i > 1
  <2>1. q \in Seq(Requests)
    BY <1>3
  <2> QED
    BY ONLY <2>1
<1>9. (\A i \in DOMAIN requests : Live(requests[i]))'
  <2> SUFFICES ASSUME NEW i \in DOMAIN q PROVE arpreq'[q[i]] # Freed
    BY <1>4 DEF Live
  <2>1. CASE i = 1
    BY <1>3, <1>5, <1>6, <2>1
  <2>2. CASE i > 1
    <3>1. PICK x \in DOMAIN l : q[i] = l[x]
      BY <1>3, <2>2
    <3> QED
      BY <1>7, <3>1
  <2> QED
    BY <1>8, <2>1, <2>2
<1>10. (\A i, j \in DOMAIN requests :
           arpreq[requests[i]].ip = arpreq[requests[j]].ip => i = j)'
  <2> SUFFICES ASSUME NEW i \in DOMAIN requests', NEW j \in DOMAIN requests',
                      arpreq'[requests'[i]].ip = arpreq'[requests'[j]].ip
               PROVE  i = j
    OBVIOUS
  <2>1. i \in DOMAIN q /\ j \in DOMAIN q /\ arpreq'[q[i]].ip = arpreq'[q[j]].ip
    BY <1>4
  <2>2. CASE i = 1
    <3>1. arpreq'[q[j]].ip = ip
      BY <1>3, <1>5, <2>1, <2>2
    <3>2. \A x \in DOMAIN l : q[j] # l[x]
      BY <1>7, <3>1
    <3>3. ~(j > 1)
      BY <1>3, <2>1, <3>2
    <3> QED
      BY <1>8, <2>1, <2>2, <3>3
  <2>3. CASE j = 1
    <3>1. arpreq'[q[i]].ip = ip
      BY <1>3, <1>5, <2>1, <2>3
    <3>2. \A x \in DOMAIN l : q[i] # l[x]
      BY <1>7, <3>1
    <3>3. ~(i > 1)
      BY <1>3, <2>1, <3>2
    <3> QED
      BY <1>8, <2>1, <2>3, <3>3
  <2>4. CASE i > 1 /\ j > 1
    <3>1. PICK x : x = i - 1
      OBVIOUS
    <3>2. PICK y : y = j - 1
      OBVIOUS
    <3>3. x \in DOMAIN l /\ q[i] = l[x] /\ y \in DOMAIN l /\ q[j] = l[y]
      BY <1>3, <2>1, <2>4, <3>1, <3>2
    <3>4. arpreq[l[x]].ip = arpreq[l[y]].ip
      BY <1>7, <2>1, <3>3
    <3>5. x = y
      BY <1>1, <3>3, <3>4 DEF ListInv
    <3>6. i \in Nat /\ j \in Nat
      BY <1>3, <2>1, SMTT(30)
    <3> QED
      BY ONLY <3>1, <3>2, <3>5, <3>6
  <2> QED
    BY <1>8, <2>1, <2>2, <2>3, <2>4
<1>11. (\A s \in Requests : Live(s) =>
           /\ \E i \in DOMAIN requests : requests[i] = s
           /\ arpreq[s].ip \in Hops
           /\ arpreq[s].packets # <<>>)'
  <2> SUFFICES ASSUME NEW s \in Requests, Live(s)'
               PROVE  /\ \E i \in DOMAIN q : q[i] = s
                      /\ arpreq'[s].ip \in Hops
                      /\ arpreq'[s].packets # <<>>
    BY <1>4
  <2>1. CASE s = r
    BY <1>3, <1>5, <2>1
  <2>2. CASE s # r
    <3>1. arpreq'[s] = arpreq[s] /\ Live(s)
      BY <1>5, <2>2 DEF Live
    <3>2. PICK j \in DOMAIN l : l[j] = s
      BY <1>1, <3>1 DEF ListInv
    <3>3. \E i \in DOMAIN q : q[i] = s
      BY <1>3, <3>2
    <3> QED
      BY <3>1, <3>3 DEF ListInv
  <2> QED
    BY <2>1, <2>2
<1> QED
  BY <1>3, <1>4, <1>9, <1>10, <1>11 DEF ListInv

\* The request for a next hop gets the packet, or a new one is put on the list.
LEMMA Queueing ==
    ASSUME TypeInv, RunInv, NEW t \in Threads, NEW rest, NEW ip \in Hops,
           NEW p \in PacketType, QueueAndHandle(t, rest, ip, p)
    PROVE  \E r \in Requests :
              /\ Enter(t, rest, r)
              /\ arpreq' \in [Requests -> RequestType] /\ requests' \in Seq(Requests)
              /\ ListInv'
              /\ \A s \in Requests : s # r => arpreq'[s] = arpreq[s]
              /\ Waiting(r)' = Waiting(r) \cup {p}
              /\ Live(r) => /\ arpreq'[r].broadcasts = arpreq[r].broadcasts
                            /\ arpreq'[r].times_sent = arpreq[r].times_sent
              /\ ~Live(r) => r \in Fresh /\ arpreq'[r].times_sent = 0
<1>1. CASE Queued(ip) # 0
  <2>1. PICK r : r = requests[Queued(ip)]
    OBVIOUS
  <2>2. Queued(ip) \in DOMAIN requests /\ r \in Requests
    BY <1>1, <2>1, QueuedFinds DEF RunInv
  <2>3. Live(r) /\ arpreq[r] \in RequestType
    BY <2>1, <2>2, Parts DEF RunInv, ListInv
  <2>4. PICK n : n = [arpreq[r] EXCEPT !.packets = <<p>> \o @]
    OBVIOUS
  <2>5. /\ n \in RequestType /\ n.ip = arpreq[r].ip /\ n.packets # <<>>
        /\ Range(n.packets) = {p} \cup Waiting(r)
        /\ n.times_sent = arpreq[r].times_sent /\ n.broadcasts = arpreq[r].broadcasts
    <3>1. PICK q \in RequestType : q = arpreq[r]
      BY <2>3
    <3>2. n = [q EXCEPT !.packets = <<p>> \o @]
      BY <2>4, <3>1
    <3>3. /\ n \in RequestType /\ n.ip = q.ip /\ n.packets # <<>>
          /\ Range(n.packets) = {p} \cup Range(q.packets)
          /\ n.times_sent = q.times_sent /\ n.broadcasts = q.broadcasts
      BY <3>2, WithPacket
    <3> QED
      BY <3>1, <3>3 DEF Waiting
  <2>6. /\ arpreq' = [arpreq EXCEPT ![r] = n] /\ requests' = requests /\ Enter(t, rest, r)
    BY <1>1, <2>1, <2>4 DEF QueueAndHandle
  <2>7. /\ arpreq' \in [Requests -> RequestType] /\ arpreq'[r] = n
        /\ \A s \in Requests : s # r => arpreq'[s] = arpreq[s]
    BY <2>2, <2>5, <2>6 DEF TypeInv
  <2>8. requests' \in Seq(Requests)
    BY <2>6 DEF TypeInv
  <2>9. ListInv'
    <3>1. \A s \in Requests : Live(s) =>
             arpreq'[s].ip = arpreq[s].ip /\ arpreq'[s].packets # <<>>
      BY <2>5, <2>7 DEF RunInv, ListInv
    <3>2. \A s \in Requests : Live(s)' => Live(s)
      <4> TAKE s \in Requests
      <4> HAVE Live(s)'
      <4>1. CASE s = r
        BY <2>3, <4>1
      <4>2. CASE s # r
        BY <2>7, <4>2 DEF Live
      <4> QED
        BY <4>1, <4>2
    <3> QED
      BY <2>6, <3>1, <3>2, ListKept DEF RunInv
  <2>10. Waiting(r)' = Waiting(r) \cup {p}
    BY <2>5, <2>7 DEF Waiting
  <2> QED
    BY <2>2, <2>3, <2>5, <2>6, <2>7, <2>8, <2>9, <2>10
<1>2. CASE Queued(ip) = 0
  <2>1. PICK r : r = CHOOSE x \in Fresh : TRUE
    OBVIOUS
  <2>2. r \in Fresh
    <3>1. Fresh # {}
      BY <1>2 DEF QueueAndHandle
    <3> QED
      BY <2>1, <3>1
  <2>3. r \in Requests /\ arpreq[r] = Freed
    BY <2>2 DEF Fresh
  <2>4. PICK q : q = NewRequest(ip)
    OBVIOUS
  <2>5. q \in RequestType /\ q.ip = ip /\ q.packets = <<>> /\ q.times_sent = 0
    <3>1. <<>> \in Seq(PacketType)
      BY EmptyList
    <3> QED
      BY <2>4, <3>1 DEF NewRequest, Freed, RequestType, LongAgo
  <2>6. PICK n : n = [q EXCEPT !.packets = <<p>> \o @]
    OBVIOUS
  <2>7. /\ n \in RequestType /\ n.ip = ip /\ n.packets # <<>>
        /\ Range(n.packets) = {p} \cup Waiting(r) /\ n.times_sent = 0
    <3>1. /\ n \in RequestType /\ n.ip = q.ip /\ n.packets # <<>>
          /\ Range(n.packets) = {p} \cup Range(q.packets)
          /\ n.times_sent = q.times_sent
      BY <2>5, <2>6, WithPacket
    <3>2. arpreq[r].packets = <<>>
      BY <2>3, SMTT(30) DEF Freed
    <3> QED
      BY <2>5, <3>1, <3>2 DEF Waiting
  <2>8. /\ arpreq' = [arpreq EXCEPT ![r] = n] /\ requests' = <<r>> \o requests
        /\ Enter(t, rest, r)
    BY <1>2, <2>1, <2>4, <2>6 DEF QueueAndHandle
  <2>9. /\ arpreq' \in [Requests -> RequestType] /\ arpreq'[r] = n
        /\ \A s \in Requests : s # r => arpreq'[s] = arpreq[s]
    BY <2>3, <2>7, <2>8 DEF TypeInv
  <2>10. requests' \in Seq(Requests) /\ ListInv'
    <3>1. ~Live(r)
      BY <2>3 DEF Live
    <3> QED
      BY <1>2, <2>3, <2>7, <2>8, <3>1, Linked DEF RunInv
  <2>11. Waiting(r)' = Waiting(r) \cup {p}
    BY <2>7, <2>9 DEF Waiting
  <2>12. ~Live(r)
    BY <2>3 DEF Live
  <2> QED
    BY <2>2, <2>3, <2>7, <2>8, <2>9, <2>10, <2>11, <2>12
<1> QED
  BY <1>1, <1>2

\* handle_arpreq() is called: it stands at its beginning, above the calls that
\* wait for it, or the stack has no room for it.
LEMMA Enters ==
    ASSUME TypeInv, StackInv, NEW t \in Threads, NEW rest \in Seq(CallType),
           \A i \in DOMAIN rest : rest[i].pc = "give up",
           NEW r \in Requests, Enter(t, rest, r),
           t = "timeout" => sweep'.awake,
           t = "main" => sweep' = sweep
    PROVE  /\ stack' \in [Threads -> Seq(CallType)]
           /\ Running' =>
                 /\ StackInv'
                 /\ \A u \in Threads : u # t => stack'[u] = stack[u]
                 /\ \A i \in DOMAIN stack'[t] :
                       stack'[t][i].pc = "check" \/ \E j \in DOMAIN rest : stack'[t][i] = rest[j]
                 /\ \A j \in DOMAIN rest : \E i \in DOMAIN stack'[t] : stack'[t][i] = rest[j]
                 /\ \A s : Uncounted(t, s)' = 0
<1>1. CASE Len(rest) = MaxDepth
  <2>1. fault' = "stack" /\ stack' = [stack EXCEPT ![t] = rest]
    BY <1>1 DEF Enter
  <2>2. ~Running'
    BY <2>1 DEF Running
  <2>3. stack' \in [Threads -> Seq(CallType)]
    BY <2>1 DEF TypeInv
  <2> QED
    BY <2>2, <2>3
<1>2. CASE Len(rest) # MaxDepth
  <2>1. PICK c : c = Call(r)
    OBVIOUS
  <2>2. c \in CallType /\ c.pc = "check"
    <3>1. <<>> \in Seq(PacketType)
      BY EmptyList
    <3> QED
      BY <2>1, <3>1 DEF Call, CallType
  <2>3. PICK q : q = <<c>> \o rest
    OBVIOUS
  <2>4. /\ q \in Seq(CallType) /\ q # <<>> /\ q[1] = c
        /\ \A i \in DOMAIN q : i > 1 => i - 1 \in DOMAIN rest /\ q[i] = rest[i - 1]
        /\ \A i \in DOMAIN rest : i + 1 \in DOMAIN q /\ q[i + 1] = rest[i]
    BY ONLY <2>2, <2>3, rest \in Seq(CallType), Pushed
  <2>5. stack' = [stack EXCEPT ![t] = q]
    BY <1>2, <2>1, <2>3 DEF Enter
  <2>6. \A i \in DOMAIN q : i > 1 => \E j \in DOMAIN rest : q[i] = rest[j]
    BY <2>4
  <2>7. \A i \in DOMAIN q : i > 1 => q[i].pc = "give up"
    BY <2>6
  <2>8. /\ StackInv' /\ stack' \in [Threads -> Seq(CallType)] /\ stack'[t] = q
        /\ \A u \in Threads : u # t => stack'[u] = stack[u]
    BY <2>4, <2>5, <2>7, StackKept
  <2>9. \A i \in DOMAIN q : i = 1 \/ i > 1
    <3>1. q \in Seq(CallType)
      BY <2>4
    <3> QED
      BY ONLY <3>1
  <2>10. \A i \in DOMAIN stack'[t] :
            stack'[t][i].pc = "check" \/ \E j \in DOMAIN rest : stack'[t][i] = rest[j]
    BY <2>2, <2>4, <2>6, <2>8, <2>9
  <2>11. \A j \in DOMAIN rest : \E i \in DOMAIN stack'[t] : stack'[t][i] = rest[j]
    <3>1. \A j \in DOMAIN rest : \E i \in DOMAIN q : q[i] = rest[j]
      BY <2>4
    <3> QED
      BY <2>8, <3>1
  <2>12. \A s : Uncounted(t, s)' = 0
    <3>1. stack'[t][1].pc # "sent"
      BY <2>2, <2>4, <2>8
    <3> QED
      BY <3>1 DEF Uncounted, Top
  <2> QED
    BY <2>8, <2>10, <2>11, <2>12
<1> QED
  BY <1>1, <1>2

\* The calls of thread t that wait for the one it is about to make.
Suspended(t, rest) ==
    /\ rest \in Seq(CallType)
    /\ \A i \in DOMAIN rest : /\ rest[i].pc = "give up" /\ CallInv(rest[i])
                              /\ \E j \in DOMAIN stack[t] : rest[i].req = stack[t][j].req

\* Packet p is added to those that wait.
Queues(p) ==
    \E r \in Requests : /\ Waiting(r)' = Waiting(r) \cup {p}
                        /\ \A s \in Requests : s # r => Waiting(s)' = Waiting(s)

\* A packet is queued by a thread whose calls all wait, or that had none.
LEMMA QueueStep ==
    ASSUME TypeInv, RunInv, NEW t \in Threads, NEW rest, Suspended(t, rest),
           NEW ip \in Hops, NEW p \in PacketType, QueueAndHandle(t, rest, ip, p),
           t = "timeout" => sweep.awake, sweep' = sweep,
           arrived' \in 0 .. MaxPackets, fate' \in [Packets -> SUBSET Outcomes]
    PROVE  /\ TypeInv'
           /\ Running' =>
                /\ StackInv' /\ ListInv' /\ CountInv'
                /\ \A u \in Threads : u # t => stack'[u] = stack[u]
                /\ \A j \in DOMAIN rest : \E i \in DOMAIN stack'[t] : stack'[t][i] = rest[j]
                /\ Queues(p)
<1>0. /\ rest \in Seq(CallType)
      /\ \A i \in DOMAIN rest : /\ rest[i].pc = "give up" /\ CallInv(rest[i])
                                /\ \E j \in DOMAIN stack[t] : rest[i].req = stack[t][j].req
  BY DEF Suspended
<1>1. PICK r \in Requests :
         /\ Enter(t, rest, r)
         /\ arpreq' \in [Requests -> RequestType] /\ requests' \in Seq(Requests)
         /\ ListInv'
         /\ \A s \in Requests : s # r => arpreq'[s] = arpreq[s]
         /\ Waiting(r)' = Waiting(r) \cup {p}
         /\ Live(r) => /\ arpreq'[r].broadcasts = arpreq[r].broadcasts
                       /\ arpreq'[r].times_sent = arpreq[r].times_sent
         /\ ~Live(r) => r \in Fresh /\ arpreq'[r].times_sent = 0
  BY Queueing
<1>2. /\ stack' \in [Threads -> Seq(CallType)]
      /\ Running' =>
            /\ StackInv'
            /\ \A u \in Threads : u # t => stack'[u] = stack[u]
            /\ \A i \in DOMAIN stack'[t] :
                  stack'[t][i].pc = "check" \/ \E j \in DOMAIN rest : stack'[t][i] = rest[j]
            /\ \A j \in DOMAIN rest : \E i \in DOMAIN stack'[t] : stack'[t][i] = rest[j]
            /\ \A s : Uncounted(t, s)' = 0
  <2>1. /\ \A i \in DOMAIN rest : rest[i].pc = "give up"
        /\ t = "timeout" => sweep'.awake
        /\ t = "main" => sweep' = sweep
        /\ StackInv
    BY <1>0 DEF RunInv
  <2> QED
    BY <1>0, <1>1, <2>1, Enters
<1>3. TypeInv'
  BY <1>1, <1>2 DEF TypeInv
<1> SUFFICES ASSUME Running' PROVE CountInv' /\ \A s \in Requests : s # r => Waiting(s)' = Waiting(s)
  BY <1>1, <1>2, <1>3 DEF Queues
<1>4. \A s \in Requests : s # r => Waiting(s)' = Waiting(s)
  BY <1>1 DEF Waiting
<1>5. \A s \in Requests : Waiting(s) \subseteq Waiting(s)'
  <2> TAKE s \in Requests
  <2>1. CASE s = r
    BY <1>1, <2>1
  <2>2. CASE s # r
    BY <1>4, <2>2
  <2> QED
    BY <2>1, <2>2
<1>6. \A s \in Requests : Live(s) => /\ arpreq'[s].broadcasts = arpreq[s].broadcasts
                                     /\ arpreq'[s].times_sent = arpreq[s].times_sent
  BY <1>1
<1>7. \A s \in Requests : Live(s)' /\ ~Live(s) => s = r
  BY <1>1 DEF Live
<1>8. \A s \in Requests : Live(s) /\ Live(s)' =>
         /\ Waiting(s) \subseteq Waiting(s)'
         /\ arpreq[s].broadcasts <= arpreq'[s].broadcasts
         /\ Uncounted(t, s)' + arpreq[s].broadcasts <= Uncounted(t, s) + arpreq'[s].broadcasts
  <2> TAKE s \in Requests
  <2> HAVE Live(s) /\ Live(s)'
  <2>1. Uncounted(t, s) \in {0, 1} /\ arpreq[s].broadcasts \in Nat
    BY UncountedBit, Parts
  <2>2. \A m \in {0, 1} : \A b \in Nat : 0 + b <= m + b /\ b <= b
    BY Counts
  <2>3. arpreq'[s].broadcasts = arpreq[s].broadcasts
    BY <1>6
  <2>4. Waiting(s) \subseteq Waiting(s)'
    BY <1>5
  <2>5. Uncounted(t, s)' = 0
    BY <1>2
  <2> QED
    BY <2>1, <2>2, <2>3, <2>4, <2>5
<1>9. \A s \in Requests : Live(s)' /\ ~Live(s) =>
         /\ \A u \in Threads : \A i \in DOMAIN stack[u] : stack[u][i].req # s
         /\ Uncounted(t, s)' = 0
         /\ arpreq'[s].times_sent = 0
  BY <1>1, <1>2, <1>7 DEF Fresh
<1>10. \A s \in Requests : Live(s)' /\ Live(s) =>
          \/ arpreq'[s].times_sent = arpreq[s].times_sent
          \/ arpreq'[s].times_sent + Uncounted("main", s)' + Uncounted("timeout", s)'
                <= arpreq'[s].broadcasts
  BY <1>6
<1>11. \A i \in DOMAIN stack'[t] : CallInv(stack[t][i])'
  <2> SUFFICES ASSUME NEW i \in DOMAIN stack'[t], stack'[t][i].pc # "check"
               PROVE  CallInv(stack[t][i])'
    <3>1. \A i \in DOMAIN stack'[t] : stack'[t][i].pc = "check" => CallInv(stack[t][i])'
      BY DEF CallInv
    <3> QED
      BY <3>1
  <2>1. PICK j \in DOMAIN rest : stack'[t][i] = rest[j]
    BY <1>2
  <2>2. PICK c : c = rest[j]
    OBVIOUS
  <2>3. c \in CallType /\ c.pc = "give up" /\ CallInv(c)
    <3>1. rest \in Seq(CallType)
      BY <1>0
    <3>2. c \in CallType
      BY ONLY <2>2, <3>1, j \in DOMAIN rest
    <3> QED
      BY <1>0, <2>2, <3>2
  <2>4. c.req \in Requests
    BY <2>3 DEF CallType
  <2>5. Live(c.req)' => Live(c.req)
    <3>1. c.req \notin Fresh
      BY <1>0, <2>2 DEF Fresh
    <3> QED
      BY <1>1, <1>7, <2>4, <3>1
  <2>6. Live(c.req) => arpreq[c.req].broadcasts >= MaxTries /\ Range(c.waiting) \subseteq Waiting(c.req)
    BY <2>3 DEF CallInv
  <2>7. Live(c.req)' => /\ arpreq'[c.req].broadcasts >= MaxTries
                        /\ Range(c.waiting) \subseteq Waiting(c.req)'
    <3>1. Waiting(c.req) \subseteq Waiting(c.req)'
      BY <1>5, <2>4
    <3>2. Range(c.waiting) \subseteq Waiting(c.req) => Range(c.waiting) \subseteq Waiting(c.req)'
      BY <3>1
    <3> QED
      BY <1>6, <2>4, <2>5, <2>6, <3>2
  <2>8. c.pc # "count"
    BY <2>3
  <2>9. CallInv(c)' /\ c = stack'[t][i]
    BY <2>1, <2>2, <2>7, <2>8 DEF CallInv
  <2> QED
    BY <2>9
<1>12. \A i \in DOMAIN stack'[t] :
          CallInv(stack[t][i])' \/ \E j \in DOMAIN stack[t] : stack'[t][i] = stack[t][j]
  BY <1>11
<1> QED
  BY <1>1, <1>2, <1>3, <1>4, <1>8, <1>9, <1>10, <1>12, CountKept DEF RunInv
-----------------------------------------------------------------------------
(* The senders of the packets that wait for a next hop are told.           *)

\* What waits is packets.
LEMMA WaitingPackets ==
    ASSUME TypeInv, NEW r \in Requests, NEW p \in Waiting(r)
    PROVE  p \in PacketType /\ p.id \in Packets /\ p.id \in Nat
<1>1. PICK l \in Seq(PacketType) : l = arpreq[r].packets
  BY Parts
<1>2. \A x \in Range(l) : x \in PacketType
  BY SMTT(30) DEF Range
<1>3. p \in PacketType
  BY <1>1, <1>2 DEF Waiting
<1>4. p.id \in Packets
  BY <1>3 DEF PacketType
<1> QED
  BY <1>3, <1>4, SMTT(30) DEF Packets

\* The fate of a packet whose request is given up, when its sender is told.
LEMMA Reported ==
    ASSUME TypeInv, FateInv, OneFate, NEW r \in Requests, NEW p \in Waiting(r),
           fate' = [fate EXCEPT ![p.id] = @ \cup {"host unreachable"}]
    PROVE  /\ fate' \in [Packets -> SUBSET Outcomes] /\ OneFate'
           /\ fate'[p.id] = {"host unreachable"}
           /\ \A n \in Packets : n # p.id => fate'[n] = fate[n]
<1>1. p.id \in Packets
  BY WaitingPackets
<1>2. WaitsIn(p, r)
  BY DEF FateInv
<1>3. fate[p.id] = {} \/ fate[p.id] = {"host unreachable"}
  BY <1>2 DEF WaitsIn
<1>4. "host unreachable" \in Outcomes
  BY DEF Outcomes
<1>5. /\ fate'[p.id] = {"host unreachable"}
      /\ \A n \in Packets : n # p.id => fate'[n] = fate[n]
  BY <1>1, <1>3 DEF TypeInv
<1>6. fate' \in [Packets -> SUBSET Outcomes]
  BY <1>1, <1>3, <1>4 DEF TypeInv
<1>7. OneFate'
  <2> SUFFICES ASSUME NEW n \in Packets PROVE \E k \in Outcomes : fate'[n] \subseteq {k}
    BY DEF OneFate
  <2>1. CASE n = p.id
    BY <1>4, <1>5, <2>1
  <2>2. CASE n # p.id
    <3>1. fate'[n] = fate[n]
      BY <1>5, <2>2
    <3> QED
      BY <3>1 DEF OneFate
  <2> QED
    BY <2>1, <2>2
<1> QED
  BY <1>5, <1>6, <1>7

\* The error e that says so may have to wait itself.
LEMMA ReportedWaits ==
    ASSUME TypeInv, FateInv, NEW r \in Requests, NEW p \in Waiting(r), GivingUp(r),
           arrived' = arrived, fate'[p.id] = {"host unreachable"},
           \A n \in Packets : n # p.id => fate'[n] = fate[n],
           NEW e, e.id = p.id, Error(e),
           \A s \in Requests : Waiting(s)' \subseteq Waiting(s) \cup {e},
           \A s \in Requests : GivingUp(s) => GivingUp(s)'
    PROVE  FateInv'
<1>1. p.id \in Packets /\ p.id \in Nat /\ p.id <= arrived
  BY WaitingPackets DEF FateInv, WaitsIn
<1>2. ASSUME NEW s \in Requests, NEW q \in Waiting(s)' PROVE WaitsIn(q, s)'
  <2>1. CASE q = e
    BY <1>1, <2>1 DEF WaitsIn
  <2>2. CASE q \in Waiting(s)
    <3>1. WaitsIn(q, s) /\ q.id \in Packets
      BY <2>2, WaitingPackets DEF FateInv
    <3>2. CASE q.id # p.id
      <4>1. fate'[q.id] = fate[q.id]
        BY <3>1, <3>2
      <4> QED
        BY <3>1, <4>1 DEF WaitsIn
    <3>3. CASE q.id = p.id /\ ~Error(q)
      <4>1. GivingUp(s)
        <5>1. CASE Error(p)
          <6>1. fate[p.id] = {"host unreachable"}
            BY <5>1 DEF FateInv, WaitsIn
          <6>2. fate[q.id] # {}
            BY <3>3, <6>1
          <6> QED
            BY <3>1, <3>3, <6>2 DEF WaitsIn
        <5>2. CASE ~Error(p)
          <6>1. s = r
            BY <2>2, <3>3, <5>2 DEF FateInv
          <6> QED
            BY <6>1
        <5> QED
          BY <5>1, <5>2
      <4>2. GivingUp(s)'
        BY <4>1
      <4>3. q.id <= arrived
        BY <3>1 DEF WaitsIn
      <4> QED
        BY <3>3, <4>2, <4>3 DEF WaitsIn, Error
    <3>4. CASE q.id = p.id /\ Error(q)
      <4>1. q.id <= arrived
        BY <3>1 DEF WaitsIn
      <4> QED
        BY <3>4, <4>1 DEF WaitsIn, Error
    <3> QED
      BY <3>2, <3>3, <3>4
  <2> QED
    BY <1>2, <2>1, <2>2
<1>3. (\A s \in Requests : \A q \in Waiting(s) : WaitsIn(q, s))'
  BY <1>2
<1>4. (\A s, u \in Requests : \A x \in Waiting(s), y \in Waiting(u) :
          x.id = y.id /\ ~Error(x) /\ ~Error(y) => s = u /\ x.kind = y.kind)'
  <2> SUFFICES \A s, u \in Requests : \A x \in Waiting(s)', y \in Waiting(u)' :
                  x.id = y.id /\ ~Error(x) /\ ~Error(y) => s = u /\ x.kind = y.kind
    BY DEF Error
  <2> TAKE s, u \in Requests
  <2> TAKE x \in Waiting(s)', y \in Waiting(u)'
  <2> HAVE x.id = y.id /\ ~Error(x) /\ ~Error(y)
  <2>1. x # e /\ y # e
    OBVIOUS
  <2>2. x \in Waiting(s) /\ y \in Waiting(u)
    BY <2>1
  <2>3. \A a, b \in Requests : \A v \in Waiting(a), w \in Waiting(b) :
           v.id = w.id /\ ~Error(v) /\ ~Error(w) => a = b /\ v.kind = w.kind
    BY DEF FateInv
  <2> QED
    BY ONLY s \in Requests, u \in Requests, x.id = y.id, ~Error(x), ~Error(y),
       <2>2, <2>3
<1>5. (\A n \in Packets : n > arrived => fate[n] = {})'
  <2> SUFFICES ASSUME NEW n \in Packets, n > arrived PROVE fate'[n] = {}
    OBVIOUS
  <2>1. n # p.id
    <3>1. n \in Nat
      BY ONLY n \in Packets DEF Packets
    <3>2. arrived \in Nat
      BY ONLY TypeInv DEF TypeInv
    <3> QED
      BY ONLY <1>1, <3>1, <3>2, n > arrived
  <2> QED
    BY <2>1 DEF FateInv
<1> QED
  BY <1>3, <1>4, <1>5 DEF FateInv

\* The first packet of a list, and the rest of it.
LEMMA FirstAndRest ==
    ASSUME NEW l \in Seq(PacketType), l # <<>>
    PROVE  /\ l[1] \in Range(l) /\ l[1] \in PacketType
           /\ Tail(l) \in Seq(PacketType) /\ Range(Tail(l)) \subseteq Range(l)
<1>1. 1 \in DOMAIN l
  BY NotEmpty
<1>2. l[1] \in Range(l)
  BY <1>1 DEF Range
<1>3. l[1] \in PacketType
  BY <1>1, SMTT(30)
<1>4. /\ Tail(l) \in Seq(PacketType)
      /\ \A i \in DOMAIN Tail(l) : i + 1 \in DOMAIN l /\ Tail(l)[i] = l[i + 1]
  BY Popped
<1>5. \A x \in Range(Tail(l)) : x \in Range(l)
  BY <1>4 DEF Range
<1> QED
  BY <1>2, <1>3, <1>4, <1>5

\* The call of t that gives up goes on to its next packet: what is left of its
\* stack, and what is known of the packet.
LEMMA Reporting ==
    ASSUME TypeInv, RunInv, NEW t \in Threads, At(t, "give up"), ~Dangling(t),
           Top(t).waiting # <<>>
    PROVE  LET p == Top(t).waiting[1]
               c == [Top(t) EXCEPT !.waiting = Tail(@)]
           IN  /\ Top(t).req \in Requests /\ GivingUp(Top(t).req)
               /\ p \in Waiting(Top(t).req) /\ p \in PacketType
               /\ c \in CallType /\ c.req = Top(t).req /\ c.pc = "give up" /\ CallInv(c)
<1>1. PICK d : d = Top(t)
  OBVIOUS
<1>2. /\ stack[t] # <<>> /\ d.pc = "give up" /\ d \in CallType /\ d.req \in Requests
      /\ d.waiting \in Seq(PacketType) /\ 1 \in DOMAIN stack[t]
  BY <1>1, TopFacts DEF At
<1>3. Live(d.req)
  BY <1>1 DEF Dangling, Live
<1>4. CallInv(d)
  BY <1>1, <1>2 DEF RunInv, CountInv, Top
<1>5. arpreq[d.req].broadcasts >= MaxTries /\ Range(d.waiting) \subseteq Waiting(d.req)
  BY <1>2, <1>3, <1>4 DEF CallInv
<1>6. GivingUp(d.req)
  BY <1>1, <1>2 DEF GivingUp, Top
<1>7. PICK l : l = d.waiting
  OBVIOUS
<1>8. l \in Seq(PacketType) /\ l # <<>>
  BY <1>1, <1>2, <1>7
<1>9. /\ l[1] \in Range(l) /\ l[1] \in PacketType
      /\ Tail(l) \in Seq(PacketType) /\ Range(Tail(l)) \subseteq Range(l)
  BY ONLY <1>8, FirstAndRest
<1>10. PICK m \in Seq(PacketType) : m = Tail(l)
  BY <1>9
<1>11. PICK c : c = [d EXCEPT !.waiting = m]
  OBVIOUS
<1>12. c \in CallType /\ c.req = d.req /\ c.pc = "give up" /\ c.waiting = m
  BY ONLY <1>2, <1>10, <1>11 DEF CallType
<1>13. CallInv(c)
  <2>1. Range(c.waiting) \subseteq Waiting(c.req)
    BY <1>5, <1>7, <1>9, <1>10, <1>12
  <2>2. c.pc # "count"
    BY <1>12
  <2> QED
    BY <1>5, <1>12, <2>1, <2>2 DEF CallInv
<1>14. l[1] \in Waiting(d.req)
  BY <1>5, <1>7, <1>9
<1>15. c = [d EXCEPT !.waiting = Tail(@)]
  BY <1>7, <1>10, <1>11
<1> QED
  BY <1>1, <1>2, <1>6, <1>7, <1>9, <1>12, <1>13, <1>14, <1>15

\* No packet has to wait for its message.
LEMMA ReportSent ==
    ASSUME TypeInv, RunInv, NEW t \in Threads, NEW c \in CallType,
           stack[t] # <<>>, c.req = Top(t).req, c.pc = "give up", CallInv(c),
           stack' = [stack EXCEPT ![t] = [stack[t] EXCEPT ![1] = c]],
           UNCHANGED <<arpreq, requests, sweep, arrived>>,
           fate' \in [Packets -> SUBSET Outcomes]
    PROVE  /\ TypeInv' /\ StackInv' /\ ListInv' /\ CountInv'
           /\ \A s : GivingUp(s) => GivingUp(s)'
<1>1. StackStep(t, [stack[t] EXCEPT ![1] = c])
  BY DEF StackStep
<1>2. TypeInv /\ StackInv /\ (Top(t).pc = "give up" => c.pc = "give up")
  BY DEF RunInv
<1>3. /\ StackInv' /\ stack' \in [Threads -> Seq(CallType)]
      /\ \A u \in Threads : u # t => stack'[u] = stack[u]
      /\ 1 \in DOMAIN stack'[t] /\ stack'[t] # <<>> /\ stack'[t][1] = c
      /\ \A i \in DOMAIN stack'[t] :
            i # 1 => \E j \in DOMAIN stack[t] : stack'[t][i] = stack[t][j]
      /\ \A r : Uncounted(t, r)' = IF c.pc = "sent" /\ c.req = r THEN 1 ELSE 0
      /\ \A r : GivingUp(r) => GivingUp(r)'
  BY ONLY <1>1, <1>2, t \in Threads, c \in CallType, c.req = Top(t).req, Moves
<1>4. TypeInv'
  BY <1>3 DEF TypeInv
<1>5. \A r : (Live(r)' <=> Live(r)) /\ Waiting(r)' = Waiting(r)
  BY DEF Live, Waiting
<1>6. ListInv'
  <2>1. \A r \in Requests : Live(r) =>
           arpreq'[r].ip = arpreq[r].ip /\ arpreq'[r].packets # <<>>
    BY DEF RunInv, ListInv
  <2> QED
    BY <1>5, <2>1, ListKept DEF RunInv
<1>7. \A r : Uncounted(t, r)' = 0
  BY <1>3
<1>8. CallInv(c)'
  <2>1. c.pc # "count"
    OBVIOUS
  <2> QED
    BY <2>1 DEF CallInv, Live, Waiting
<1>9. \A i \in DOMAIN stack'[t] :
         CallInv(stack[t][i])' \/ \E j \in DOMAIN stack[t] : stack'[t][i] = stack[t][j]
  <2>1. ASSUME NEW i \in DOMAIN stack'[t], i = 1 PROVE CallInv(stack[t][i])'
    <3>1. c = stack'[t][i]
      BY <1>3, <2>1
    <3> QED
      BY <1>8, <3>1
  <2> QED
    BY <1>3, <2>1
<1>10. \A r \in Requests : Live(r) /\ Live(r)' =>
          /\ Waiting(r) \subseteq Waiting(r)'
          /\ arpreq[r].broadcasts <= arpreq'[r].broadcasts
          /\ Uncounted(t, r)' + arpreq[r].broadcasts <= Uncounted(t, r) + arpreq'[r].broadcasts
  <2> TAKE r \in Requests
  <2>1. Uncounted(t, r) \in {0, 1} /\ arpreq[r].broadcasts \in Nat
    BY UncountedBit, Parts
  <2>2. Waiting(r) \subseteq Waiting(r)'
    BY <1>5
  <2> QED
    BY <1>7, <2>1, <2>2, Counts
<1>11. \A r \in Requests : Live(r)' /\ ~Live(r) =>
          /\ \A u \in Threads : \A i \in DOMAIN stack[u] : stack[u][i].req # r
          /\ Uncounted(t, r)' = 0
          /\ arpreq'[r].times_sent = 0
  BY <1>5
<1>12. \A r \in Requests : Live(r)' /\ Live(r) =>
          \/ arpreq'[r].times_sent = arpreq[r].times_sent
          \/ arpreq'[r].times_sent + Uncounted("main", r)' + Uncounted("timeout", r)'
                <= arpreq'[r].broadcasts
  OBVIOUS
<1>13. CountInv'
  BY <1>3, <1>4, <1>9, <1>10, <1>11, <1>12, CountKept DEF RunInv
<1> QED
  BY <1>3, <1>4, <1>6, <1>13

\* The message waits for a next hop itself.
LEMMA ReportQueued ==
    ASSUME TypeInv, RunInv, NEW t \in Threads, NEW c \in CallType,
           stack[t] # <<>>, c.req = Top(t).req, c.pc = "give up", CallInv(c),
           NEW ip \in Hops, NEW e \in PacketType,
           QueueAndHandle(t, [stack[t] EXCEPT ![1] = c], ip, e),
           UNCHANGED <<sweep, arrived>>,
           fate' \in [Packets -> SUBSET Outcomes]
    PROVE  /\ TypeInv'
           /\ Running' =>
                 /\ StackInv' /\ ListInv' /\ CountInv'
                 /\ \A s \in Requests : GivingUp(s) => GivingUp(s)'
                 /\ \A s \in Requests : Waiting(s)' \subseteq Waiting(s) \cup {e}
<1>1. PICK st : st = stack[t]
  OBVIOUS
<1>2. st \in Seq(CallType) /\ st # <<>>
  BY <1>1, Parts
<1>3. PICK rest : rest = [st EXCEPT ![1] = c]
  OBVIOUS
<1>4. /\ rest \in Seq(CallType) /\ rest[1] = c
      /\ DOMAIN rest = DOMAIN st /\ 1 \in DOMAIN st
      /\ \A i \in DOMAIN rest : i > 1 => rest[i] = st[i]
  BY ONLY <1>2, <1>3, c \in CallType, TopSet
<1>5. \A i \in DOMAIN rest : i = 1 \/ i > 1
  BY ONLY <1>4
<1>6. \A i \in DOMAIN rest : /\ rest[i].pc = "give up" /\ CallInv(rest[i])
                             /\ \E j \in DOMAIN stack[t] : rest[i].req = stack[t][j].req
  <2> TAKE i \in DOMAIN rest
  <2>1. CASE i = 1
    BY <1>1, <1>4, <2>1 DEF Top
  <2>2. CASE i > 1
    <3>1. i \in DOMAIN stack[t] /\ rest[i] = stack[t][i]
      BY <1>1, <1>4, <2>2
    <3>2. stack[t][i].pc = "give up" /\ CallInv(stack[t][i])
      BY <2>2, <3>1 DEF RunInv, StackInv, CountInv
    <3> QED
      BY <3>1, <3>2
  <2> QED
    BY <1>5, <2>1, <2>2
<1>7. QueueAndHandle(t, rest, ip, e)
  BY <1>1, <1>3
<1>8. /\ t = "timeout" => sweep.awake
      /\ arrived' \in 0 .. MaxPackets /\ sweep' = sweep
  <2>1. t = "timeout" => sweep.awake
    BY DEF RunInv, StackInv
  <2> QED
    BY <2>1 DEF TypeInv
<1>9. /\ TypeInv'
      /\ Running' =>
           /\ StackInv' /\ ListInv' /\ CountInv'
           /\ \A u \in Threads : u # t => stack'[u] = stack[u]
           /\ \A j \in DOMAIN rest : \E i \in DOMAIN stack'[t] : stack'[t][i] = rest[j]
           /\ Queues(e)
  <2>1. /\ TypeInv /\ RunInv /\ t \in Threads /\ ip \in Hops
        /\ e \in PacketType /\ fate' \in [Packets -> SUBSET Outcomes]
    OBVIOUS
  <2>2. Suspended(t, rest)
    BY <1>4, <1>6 DEF Suspended
  <2> QED
    BY ONLY <1>7, <1>8, <2>1, <2>2, QueueStep
<1> SUFFICES ASSUME Running'
             PROVE  /\ \A x \in Requests : GivingUp(x) => GivingUp(x)'
                    /\ \A x \in Requests : Waiting(x)' \subseteq Waiting(x) \cup {e}
  BY <1>9
<1>10. \A x \in Requests : Waiting(x)' \subseteq Waiting(x) \cup {e}
  <2>1. PICK r \in Requests : /\ Waiting(r)' = Waiting(r) \cup {e}
                              /\ \A s \in Requests : s # r => Waiting(s)' = Waiting(s)
    BY <1>9 DEF Queues
  <2> TAKE x \in Requests
  <2>2. CASE x = r
    BY <2>1, <2>2
  <2>3. CASE x # r
    BY <2>1, <2>3
  <2> QED
    BY <2>2, <2>3
<1>11. ASSUME NEW x \in Requests PROVE GivingUp(x) => GivingUp(x)'
  <2>1. \A i \in DOMAIN stack[t] : stack[t][i].pc = "give up" /\ stack[t][i].req = x =>
           \E j \in DOMAIN stack'[t] : stack'[t][j].pc = "give up" /\ stack'[t][j].req = x
    <3> TAKE i \in DOMAIN stack[t]
    <3> HAVE stack[t][i].pc = "give up" /\ stack[t][i].req = x
    <3>1. i \in DOMAIN rest
      BY <1>1, <1>4
    <3>2. rest[i].pc = "give up" /\ rest[i].req = x
      <4>1. CASE i = 1
        BY <1>4, <4>1 DEF Top
      <4>2. CASE i > 1
        BY <1>1, <1>4, <3>1, <4>2
      <4> QED
        BY <1>5, <3>1, <4>1, <4>2
    <3> QED
      BY <1>9, <3>1, <3>2
  <2>2. \A u \in Threads : u # t => stack'[u] = stack[u]
    BY <1>9
  <2> QED
    BY <2>1, <2>2, GivingUpKept
<1> QED
  BY <1>10, <1>11

\* One error is sent for a packet of a request that is given up.
LEMMA UnreachableStep ==
    ASSUME RouterInv, NEW t \in Threads, Unreachable(t) PROVE RouterInv'
<1>1. CASE Dangling(t)
  BY <1>1, CrashStep DEF Unreachable
<1> SUFFICES ASSUME ~Dangling(t) PROVE RouterInv'
  BY <1>1
<1>2. PICK r : r = Top(t).req
  OBVIOUS
<1>3. PICK p : p = Top(t).waiting[1]
  OBVIOUS
<1>4. PICK c : c = [Top(t) EXCEPT !.waiting = Tail(@)]
  OBVIOUS
<1>5. PICK e : e = ReplyTo(p, "host unreachable")
  OBVIOUS
<1>6. PICK ip : ip = Route[p.src]
  OBVIOUS
<1>7. PICK rest : rest = [stack[t] EXCEPT ![1].waiting = Tail(@)]
  OBVIOUS
<1>8. rest = [stack[t] EXCEPT ![1] = c]
  BY <1>4, <1>7 DEF Top
<1>9. /\ TypeInv /\ RunInv /\ OneFate /\ Running /\ At(t, "give up") /\ stack[t] # <<>>
      /\ Top(t).waiting # <<>>
      /\ UNCHANGED <<sweep, arrived>>
      /\ fate' = [fate EXCEPT ![p.id] = @ \cup {"host unreachable"}]
  BY <1>3 DEF Unreachable, At, RouterInv
<1>10. \/ /\ stack' = [stack EXCEPT ![t] = rest]
          /\ UNCHANGED <<arpreq, requests, fault>>
       \/ ip # None /\ QueueAndHandle(t, rest, ip, e)
  BY <1>3, <1>5, <1>6, <1>7 DEF Unreachable, SendOrQueue
<1>11. /\ r \in Requests /\ GivingUp(r) /\ p \in Waiting(r) /\ p \in PacketType
       /\ c \in CallType /\ c.req = Top(t).req /\ c.pc = "give up" /\ CallInv(c)
  BY <1>2, <1>3, <1>4, <1>9, Reporting
<1>12. e \in PacketType /\ e.id = p.id /\ Error(e)
  <2>1. Own \in Addresses
    BY Constants
  <2> QED
    BY <1>5, <1>11, <2>1 DEF ReplyTo, PacketType, Error
<1>13. ip \in Hops \cup {None}
  <2>1. p.src \in Addresses
    BY <1>11 DEF PacketType
  <2> QED
    BY <1>6, <2>1, Constants
<1>14. /\ fate' \in [Packets -> SUBSET Outcomes] /\ OneFate'
       /\ fate'[p.id] = {"host unreachable"}
       /\ \A n \in Packets : n # p.id => fate'[n] = fate[n]
  <2>1. FateInv
    BY <1>9 DEF RunInv
  <2> QED
    BY <1>9, <1>11, <2>1, Reported
<1>15. /\ TypeInv'
       /\ Running' =>
             /\ StackInv' /\ ListInv' /\ CountInv'
             /\ \A s \in Requests : GivingUp(s) => GivingUp(s)'
             /\ \A s \in Requests : Waiting(s)' \subseteq Waiting(s) \cup {e}
  <2>1. CASE stack' = [stack EXCEPT ![t] = rest] /\ UNCHANGED <<arpreq, requests, fault>>
    <3>1. /\ TypeInv' /\ StackInv' /\ ListInv' /\ CountInv'
          /\ \A s : GivingUp(s) => GivingUp(s)'
      <4>1. stack' = [stack EXCEPT ![t] = [stack[t] EXCEPT ![1] = c]]
        BY <1>8, <2>1
      <4>2. UNCHANGED <<arpreq, requests, sweep, arrived>>
        BY <1>9, <2>1
      <4> QED
        BY <1>9, <1>11, <1>14, <4>1, <4>2, ReportSent
    <3>2. \A s \in Requests : Waiting(s)' \subseteq Waiting(s) \cup {e}
      BY <2>1 DEF Waiting
    <3> QED
      BY <3>1, <3>2
  <2>2. CASE ip # None /\ QueueAndHandle(t, rest, ip, e)
    <3>1. QueueAndHandle(t, [stack[t] EXCEPT ![1] = c], ip, e)
      BY <1>8, <2>2
    <3>2. ip \in Hops
      BY <1>13, <2>2
    <3> QED
      BY <1>9, <1>11, <1>12, <1>14, <3>1, <3>2, ReportQueued
  <2> QED
    BY <1>10, <2>1, <2>2
<1>16. Running' => FateInv'
  <2>1. FateInv
    BY <1>9 DEF RunInv
  <2> QED
    BY <1>9, <1>11, <1>12, <1>14, <1>15, <2>1, ReportedWaits
<1> QED
  BY <1>14, <1>15, <1>16 DEF RouterInv, RunInv
-----------------------------------------------------------------------------
(* Packets that arrive.                                                    *)

\* Nothing that waits is as new as the packet that arrives.
LEMMA Newest ==
    ASSUME TypeInv, FateInv, arrived < MaxPackets
    PROVE  /\ arrived + 1 \in Packets /\ fate[arrived + 1] = {}
           /\ arrived + 1 \in 0 .. MaxPackets
           /\ \A r \in Requests : \A p \in Waiting(r) :
                 p.id \in Packets /\ p.id # arrived + 1 /\ p.id <= arrived + 1
           /\ \A n \in Packets : n > arrived + 1 => n # arrived + 1 /\ n > arrived
<1>1. arrived \in Nat /\ MaxPackets \in Nat
  BY Constants, SMTT(30) DEF TypeInv
<1>2. arrived + 1 \in Packets /\ arrived + 1 > arrived /\ arrived + 1 \in 0 .. MaxPackets
  BY <1>1, SMTT(30) DEF Packets
<1>3. fate[arrived + 1] = {}
  BY <1>2 DEF FateInv
<1>4. ASSUME NEW r \in Requests, NEW p \in Waiting(r)
      PROVE  p.id \in Packets /\ p.id # arrived + 1 /\ p.id <= arrived + 1
  <2>1. p.id <= arrived
    BY <1>4 DEF FateInv, WaitsIn
  <2>2. p.id \in Nat /\ p.id \in Packets
    BY <1>4, WaitingPackets
  <2> QED
    BY ONLY <1>1, <2>1, <2>2
<1>5. \A n \in Packets : n > arrived + 1 => n # arrived + 1 /\ n > arrived
  BY <1>1, SMTT(30) DEF Packets
<1> QED
  BY <1>2, <1>3, <1>4, <1>5

\* Nothing that the list and the counts depend on changes.
LEMMA Same ==
    ASSUME ListInv, CountInv, UNCHANGED <<arpreq, requests, stack>>
    PROVE  /\ ListInv' /\ CountInv'
           /\ \A r : Waiting(r)' = Waiting(r) /\ (GivingUp(r) => GivingUp(r)')
<1>1. \A r : (Live(r)' <=> Live(r)) /\ Waiting(r)' = Waiting(r)
  BY DEF Live, Waiting
<1>2. \A r : GivingUp(r) => GivingUp(r)'
  BY DEF GivingUp
<1>3. ListInv'
  BY DEF ListInv, Live
<1>4. \A t, r : Uncounted(t, r)' = Uncounted(t, r)
  BY DEF Uncounted, Top
<1>5. \A c : CallInv(c) => CallInv(c)'
  BY <1>1, <1>4 DEF CallInv
<1>6. (\A t \in Threads : \A i \in DOMAIN stack[t] : CallInv(stack[t][i]))'
  <2> SUFFICES ASSUME NEW t \in Threads, NEW i \in DOMAIN stack[t]
               PROVE  CallInv(stack[t][i])'
    OBVIOUS
  <2>1. PICK c : c = stack[t][i]
    OBVIOUS
  <2>2. CallInv(c)' /\ c = stack'[t][i]
    BY <1>5, <2>1 DEF CountInv
  <2> QED
    BY <2>2
<1>7. (\A r \in Requests : Live(r) =>
          arpreq[r].times_sent + Uncounted("main", r) + Uncounted("timeout", r)
             <= arpreq[r].broadcasts)'
  BY <1>1, <1>4 DEF CountInv
<1>8. CountInv'
  BY <1>6, <1>7 DEF CountInv
<1> QED
  BY <1>1, <1>2, <1>3, <1>8

\* The packet is dropped or sent at once.
LEMMA ArrivalDone ==
    ASSUME TypeInv, RunInv, OneFate, arrived < MaxPackets, arrived' = arrived + 1,
           NEW k \in Outcomes, fate' = [fate EXCEPT ![arrived + 1] = {k}],
           UNCHANGED <<arpreq, requests, stack, sweep>>
    PROVE  TypeInv' /\ RunInv' /\ OneFate'
<1>1. FateInv
  BY DEF RunInv
<1>2. PICK m : m = arrived + 1
  OBVIOUS
<1>3. /\ m \in Packets /\ m \in 0 .. MaxPackets
      /\ \A r \in Requests : \A p \in Waiting(r) :
            p.id \in Packets /\ p.id # m /\ p.id <= m
      /\ \A n \in Packets : n > m => n # m /\ n > arrived
  BY <1>1, <1>2, Newest
<1>4. fate'[m] = {k} /\ \A n \in Packets : n # m => fate'[n] = fate[n]
  BY <1>2, <1>3 DEF TypeInv
<1>5. fate' \in [Packets -> SUBSET Outcomes]
  BY <1>2, <1>3 DEF TypeInv
<1>6. TypeInv'
  BY <1>2, <1>3, <1>5 DEF TypeInv
<1>7. OneFate'
  <2> SUFFICES ASSUME NEW n \in Packets PROVE \E j \in Outcomes : fate'[n] \subseteq {j}
    BY DEF OneFate
  <2>1. CASE n = m
    BY <1>4, <2>1
  <2>2. CASE n # m
    <3>1. fate'[n] = fate[n]
      BY <1>4, <2>2
    <3> QED
      BY <3>1 DEF OneFate
  <2> QED
    BY <2>1, <2>2
<1>8. StackInv' /\ ListInv'
  BY DEF RunInv, StackInv, ListInv, Live
<1>9. CountInv'
  <2>1. \A t, r : Uncounted(t, r)' = Uncounted(t, r)
    BY DEF Uncounted, Top
  <2>2. \A r : (Live(r)' <=> Live(r)) /\ Waiting(r)' = Waiting(r)
    BY DEF Live, Waiting
  <2>3. \A c : CallInv(c) => CallInv(c)'
    BY <2>1, <2>2 DEF CallInv
  <2>4. (\A t \in Threads : \A i \in DOMAIN stack[t] : CallInv(stack[t][i]))'
    <3> SUFFICES ASSUME NEW t \in Threads, NEW i \in DOMAIN stack[t]
                 PROVE  CallInv(stack[t][i])'
      OBVIOUS
    <3>1. PICK c : c = stack[t][i]
      OBVIOUS
    <3>2. CallInv(c)' /\ c = stack'[t][i]
      BY <2>3, <3>1 DEF RunInv, CountInv
    <3> QED
      BY <3>2
  <2>5. (\A r \in Requests : Live(r) =>
            arpreq[r].times_sent + Uncounted("main", r) + Uncounted("timeout", r)
               <= arpreq[r].broadcasts)'
    BY <2>1, <2>2 DEF RunInv, CountInv
  <2> QED
    BY <2>4, <2>5 DEF CountInv
<1>10. FateInv'
  <2>1. \A r : Waiting(r)' = Waiting(r) /\ (GivingUp(r) => GivingUp(r)')
    BY DEF Waiting, GivingUp
  <2>2. ASSUME NEW r \in Requests, NEW p \in Waiting(r)' PROVE WaitsIn(p, r)'
    <3>1. p \in Waiting(r)
      BY <2>1, <2>2
    <3>2. WaitsIn(p, r) /\ p.id <= arrived' /\ fate'[p.id] = fate[p.id]
      BY <1>1, <1>2, <1>3, <1>4, <3>1 DEF FateInv
    <3> QED
      BY <2>1, <3>2 DEF WaitsIn
  <2>3. (\A r \in Requests : \A p \in Waiting(r) : WaitsIn(p, r))'
    BY <2>2
  <2>4. (\A r, s \in Requests : \A p \in Waiting(r), q \in Waiting(s) :
            p.id = q.id /\ ~Error(p) /\ ~Error(q) => r = s /\ p.kind = q.kind)'
    <3> SUFFICES \A r, s \in Requests : \A p \in Waiting(r)', q \in Waiting(s)' :
                    p.id = q.id /\ ~Error(p) /\ ~Error(q) => r = s /\ p.kind = q.kind
      BY DEF Error
    <3> QED
      BY <1>1, <2>1 DEF FateInv
  <2>5. (\A n \in Packets : n > arrived => fate[n] = {})'
    BY <1>1, <1>2, <1>3, <1>4 DEF FateInv
  <2> QED
    BY <2>3, <2>4, <2>5 DEF FateInv
<1> QED
  BY <1>6, <1>7, <1>8, <1>9, <1>10 DEF RunInv

\* The packet waits.
LEMMA ArrivalWaits ==
    ASSUME TypeInv, FateInv, arrived < MaxPackets, arrived' = arrived + 1, fate' = fate,
           NEW q, q.id = arrived + 1, ~Error(q), Queues(q),
           \A s \in Requests : GivingUp(s) => GivingUp(s)'
    PROVE  FateInv'
<1>1. PICK m : m = arrived + 1
  OBVIOUS
<1>2. /\ m \in Packets /\ fate[m] = {} /\ m \in 0 .. MaxPackets
      /\ \A s \in Requests : \A p \in Waiting(s) :
            p.id \in Packets /\ p.id # m /\ p.id <= m
      /\ \A n \in Packets : n > m => n # m /\ n > arrived
  BY <1>1, Newest
<1>3. PICK r \in Requests : /\ Waiting(r)' = Waiting(r) \cup {q}
                            /\ \A s \in Requests : s # r => Waiting(s)' = Waiting(s)
  BY DEF Queues
<1>4. \A s \in Requests : \A p \in Waiting(s)' :
         \/ p \in Waiting(s) /\ p # q /\ p.id # m
         \/ p = q /\ s = r /\ p.id = m
  <2> TAKE s \in Requests
  <2> TAKE p \in Waiting(s)'
  <2>1. p \in Waiting(s) \/ (p = q /\ s = r)
    BY <1>3
  <2>2. p \in Waiting(s) => p.id # m
    BY <1>2
  <2> QED
    BY <1>1, <2>1, <2>2
<1>5. m <= m
  BY <1>2, SMTT(30)
<1>6. ASSUME NEW s \in Requests, NEW p \in Waiting(s)' PROVE WaitsIn(p, s)'
  <2>1. CASE p \in Waiting(s)
    <3>1. WaitsIn(p, s) /\ p.id <= arrived'
      BY <1>1, <1>2, <2>1 DEF FateInv
    <3> QED
      BY <3>1 DEF WaitsIn
  <2>2. CASE p = q
    BY <1>1, <1>2, <1>5, <2>2 DEF WaitsIn
  <2> QED
    BY <1>4, <1>6, <2>1, <2>2
<1>7. (\A s \in Requests : \A p \in Waiting(s) : WaitsIn(p, s))'
  BY <1>6
<1>8. (\A s, u \in Requests : \A x \in Waiting(s), y \in Waiting(u) :
          x.id = y.id /\ ~Error(x) /\ ~Error(y) => s = u /\ x.kind = y.kind)'
  <2> SUFFICES \A s, u \in Requests : \A x \in Waiting(s)', y \in Waiting(u)' :
                  x.id = y.id /\ ~Error(x) /\ ~Error(y) => s = u /\ x.kind = y.kind
    BY DEF Error
  <2> TAKE s, u \in Requests
  <2> TAKE x \in Waiting(s)', y \in Waiting(u)'
  <2> HAVE x.id = y.id /\ ~Error(x) /\ ~Error(y)
  <2>1. CASE x.id = m
    BY <1>4, <2>1
  <2>2. CASE x.id # m
    <3>1. x \in Waiting(s) /\ y \in Waiting(u)
      BY <1>4, <2>2
    <3>2. \A a, b \in Requests : \A v \in Waiting(a), w \in Waiting(b) :
             v.id = w.id /\ ~Error(v) /\ ~Error(w) => a = b /\ v.kind = w.kind
      BY DEF FateInv
    <3> QED
      BY ONLY s \in Requests, u \in Requests, x.id = y.id, ~Error(x),
         ~Error(y), <3>1, <3>2
  <2> QED
    BY <2>1, <2>2
<1>9. (\A n \in Packets : n > arrived => fate[n] = {})'
  BY <1>1, <1>2 DEF FateInv
<1> QED
  BY <1>7, <1>8, <1>9 DEF FateInv

\* An IP packet arrives.
LEMMA ReceiveIpStep ==
    ASSUME RouterInv, ReceiveIp PROVE RouterInv'
<1>1. /\ TypeInv /\ RunInv /\ OneFate /\ Running /\ stack["main"] = <<>>
      /\ arrived < MaxPackets /\ arrived' = arrived + 1 /\ sweep' = sweep
  BY DEF ReceiveIp, RouterInv
<1>2. PICK src \in Sources, dst \in Addresses, ttl \in Ttls, kind \in Kinds :
         LET p == [id |-> arrived + 1, kind |-> "forwarded", src |-> src, dst |-> dst]
             q == IF Answers(p, ttl) THEN ReplyTo(p, "answered") ELSE p
         IN  IF Ignored(p, kind) \/ Route[q.dst] = None
               THEN /\ fate' = [fate EXCEPT ![p.id] = {"dropped"}]
                    /\ UNCHANGED <<arpreq, requests, stack, fault>>
               ELSE /\ SendOrQueue("main", <<>>, Route[q.dst], q)
                    /\ fate' = IF Cached(Route[q.dst]) THEN [fate EXCEPT ![p.id] = {q.kind}]
                               ELSE fate
  BY DEF ReceiveIp
<1>3. PICK p : p = [id |-> arrived + 1, kind |-> "forwarded", src |-> src, dst |-> dst]
  OBVIOUS
<1>4. PICK q : q = IF Answers(p, ttl) THEN ReplyTo(p, "answered") ELSE p
  OBVIOUS
<1>5. PICK ip : ip = Route[q.dst]
  OBVIOUS
<1>6. \/ /\ fate' = [fate EXCEPT ![p.id] = {"dropped"}]
         /\ UNCHANGED <<arpreq, requests, stack, fault>>
      \/ /\ stack' = [stack EXCEPT !["main"] = <<>>]
         /\ UNCHANGED <<arpreq, requests, fault>>
         /\ fate' = [fate EXCEPT ![p.id] = {q.kind}]
      \/ /\ ip # None /\ QueueAndHandle("main", <<>>, ip, q)
         /\ fate' = fate
  BY <1>2, <1>3, <1>4, <1>5 DEF SendOrQueue
<1>7. arrived + 1 \in Packets /\ arrived + 1 \in 0 .. MaxPackets
  BY <1>1, Newest DEF RunInv
<1>8. /\ q \in PacketType /\ p.id = arrived + 1 /\ q.id = arrived + 1 /\ ~Error(q)
      /\ q.kind \in Outcomes
  <2>1. src \in Addresses /\ Own \in Addresses
    BY Constants
  <2>2. p \in PacketType /\ p.id = arrived + 1 /\ p.kind = "forwarded"
    BY <1>3, <1>7, <2>1 DEF PacketType
  <2>3. CASE q = p
    BY <2>2, <2>3 DEF Error, Outcomes
  <2>4. CASE q = ReplyTo(p, "answered")
    <3>1. p.src \in Addresses /\ p.id \in Packets
      BY <2>2 DEF PacketType
    <3> QED
      BY <2>1, <2>2, <2>4, <3>1 DEF ReplyTo, PacketType, Error, Outcomes
  <2> QED
    BY <1>4, <2>3, <2>4
<1>9. CASE /\ fate' = [fate EXCEPT ![p.id] = {"dropped"}]
           /\ UNCHANGED <<arpreq, requests, stack, fault>>
  <2>1. PICK k \in Outcomes : k = "dropped"
    BY DEF Outcomes
  <2>2. /\ fate' = [fate EXCEPT ![arrived + 1] = {k}]
        /\ UNCHANGED <<arpreq, requests, stack, sweep>>
    BY <1>1, <1>8, <1>9, <2>1
  <2>3. TypeInv' /\ RunInv' /\ OneFate'
    BY <1>1, <2>2, ArrivalDone
  <2> QED
    BY <2>3 DEF RouterInv
<1>10. CASE /\ stack' = [stack EXCEPT !["main"] = <<>>]
            /\ UNCHANGED <<arpreq, requests, fault>>
            /\ fate' = [fate EXCEPT ![p.id] = {q.kind}]
  <2>1. PICK k \in Outcomes : k = q.kind
    BY <1>8
  <2>2. stack' = stack
    BY <1>1, <1>10 DEF TypeInv
  <2>3. /\ fate' = [fate EXCEPT ![arrived + 1] = {k}]
        /\ UNCHANGED <<arpreq, requests, stack, sweep>>
    BY <1>1, <1>8, <1>10, <2>1, <2>2
  <2>4. TypeInv' /\ RunInv' /\ OneFate'
    BY <1>1, <2>3, ArrivalDone
  <2> QED
    BY <2>4 DEF RouterInv
<1>11. CASE ip # None /\ QueueAndHandle("main", <<>>, ip, q) /\ fate' = fate
  <2>1. ip \in Hops
    <3>1. q.dst \in Addresses
      BY <1>8 DEF PacketType
    <3> QED
      BY <1>5, <1>11, <3>1, Constants
  <2>2. PICK rest : rest = <<>>
    OBVIOUS
  <2>3. PICK t \in Threads : t = "main"
    BY DEF Threads
  <2>4. Suspended(t, rest)
    BY <2>2, SMTT(30) DEF Suspended
  <2>5. /\ QueueAndHandle(t, rest, ip, q) /\ sweep' = sweep
        /\ t = "timeout" => sweep.awake
        /\ arrived' \in 0 .. MaxPackets /\ fate' \in [Packets -> SUBSET Outcomes]
    <3>1. t # "timeout"
      BY <2>3
    <3> QED
      BY <1>1, <1>7, <1>11, <2>2, <2>3, <3>1 DEF TypeInv
  <2>6. /\ TypeInv'
        /\ Running' =>
             /\ StackInv' /\ ListInv' /\ CountInv'
             /\ \A u \in Threads : u # t => stack'[u] = stack[u]
             /\ \A j \in DOMAIN rest : \E i \in DOMAIN stack'[t] : stack'[t][i] = rest[j]
             /\ Queues(q)
    <3>1. TypeInv /\ RunInv /\ t \in Threads /\ ip \in Hops /\ q \in PacketType
      BY <1>1, <1>8, <2>1
    <3> QED
      BY ONLY <2>4, <2>5, <3>1, QueueStep
  <2>7. ASSUME Running' PROVE \A s \in Requests : GivingUp(s) => GivingUp(s)'
    <3> TAKE s \in Requests
    <3>1. \A u \in Threads : u # t => stack'[u] = stack[u]
      BY <2>6, <2>7
    <3>2. \A i \in DOMAIN stack[t] : FALSE
      BY <1>1, <2>3, SMTT(30)
    <3> QED
      BY <3>1, <3>2, GivingUpKept
  <2>8. ASSUME Running' PROVE FateInv'
    <3>1. FateInv /\ Queues(q) /\ \A s \in Requests : GivingUp(s) => GivingUp(s)'
      BY <1>1, <2>6, <2>7, <2>8 DEF RunInv
    <3> QED
      BY <1>1, <1>8, <1>11, <3>1, ArrivalWaits
  <2>9. OneFate'
    BY <1>1, <1>11 DEF OneFate
  <2> QED
    BY <2>6, <2>8, <2>9 DEF RouterInv, RunInv
<1> QED
  BY <1>6, <1>9, <1>10, <1>11
-----------------------------------------------------------------------------
(* An ARP reply arrives.                                                   *)

\* Nothing is given up, nor is an attempt uncounted, while no call is made.
LEMMA NoCalls ==
    ASSUME \A t \in Threads : stack[t] = <<>>
    PROVE  /\ \A r : ~GivingUp(r)
           /\ \A t \in Threads : \A r : Uncounted(t, r) = 0
<1>1. \A t \in Threads : DOMAIN stack[t] = {}
  BY SMTT(30)
<1>2. \A r : ~GivingUp(r)
  BY <1>1 DEF GivingUp
<1>3. \A t \in Threads : \A r : Uncounted(t, r) = 0
  BY DEF Uncounted
<1> QED
  BY <1>2, <1>3

\* What sending the packets of request r makes of packet n.
LEMMA SentKinds ==
    ASSUME NEW r, NEW n, NEW k
    PROVE  k \in Sent(arpreq[r].packets, n) <=>
              \E p \in Waiting(r) : p.id = n /\ ~Error(p) /\ p.kind = k
  BY DEF Sent, Waiting, Error

\* The packets of a request that is not being given up are sent: a packet that
\* was sent had no fate, and no copy of it waits elsewhere.
LEMMA SentFates ==
    ASSUME TypeInv, FateInv, OneFate, NEW r \in Requests, ~GivingUp(r),
           fate' = [n \in Packets |-> fate[n] \cup Sent(arpreq[r].packets, n)]
    PROVE  /\ fate' \in [Packets -> SUBSET Outcomes] /\ OneFate'
           /\ \A s \in Requests : s # r => \A p \in Waiting(s) : fate'[p.id] = fate[p.id]
           /\ \A n \in Packets : n > arrived => fate'[n] = {}
<1>1. \A n \in Packets : fate'[n] = fate[n] \cup Sent(arpreq[r].packets, n)
  OBVIOUS
<1>2. \A p \in Waiting(r) : ~Error(p) => fate[p.id] = {}
  BY DEF FateInv, WaitsIn
<1>3. \A p \in Waiting(r) : ~Error(p) => p.kind \in Outcomes
  <2> TAKE p \in Waiting(r)
  <2>1. p \in PacketType
    BY WaitingPackets
  <2> QED
    BY <2>1 DEF PacketType, Outcomes
<1>4. ASSUME NEW n \in Packets
      PROVE  /\ Sent(arpreq[r].packets, n) \subseteq Outcomes
             /\ \/ fate'[n] = fate[n]
                \/ fate[n] = {} /\ \E k \in Outcomes : fate'[n] \subseteq {k}
  <2>1. PICK S : S = Sent(arpreq[r].packets, n)
    OBVIOUS
  <2>2. \A k : k \in S <=> \E p \in Waiting(r) : p.id = n /\ ~Error(p) /\ p.kind = k
    <3> TAKE k
    <3>1. k \in Sent(arpreq[r].packets, n) <=>
             \E p \in Waiting(r) : p.id = n /\ ~Error(p) /\ p.kind = k
      BY ONLY SentKinds
    <3> QED
      BY <2>1, <3>1
  <2>3. S \subseteq Outcomes
    BY <1>3, <2>2
  <2>4. CASE S = {}
    BY <1>1, <2>1, <2>3, <2>4
  <2>5. CASE S # {}
    <3>1. PICK k \in S : TRUE
      BY <2>5
    <3>2. PICK p \in Waiting(r) : p.id = n /\ ~Error(p) /\ p.kind = k
      BY <2>2
    <3>3. fate[n] = {}
      BY <1>2, <3>2
    <3>4. \A j \in S : j = k
      <4> TAKE j \in S
      <4>1. PICK q \in Waiting(r) : q.id = n /\ ~Error(q) /\ q.kind = j
        BY <2>2
      <4> QED
        BY <3>2, <4>1, SMTT(30) DEF FateInv
    <3>5. fate'[n] \subseteq {k} /\ k \in Outcomes
      BY <1>1, <2>1, <2>3, <3>3, <3>4
    <3> QED
      BY <2>1, <2>3, <3>3, <3>5
  <2> QED
    BY <2>4, <2>5
<1>5. fate' \in [Packets -> SUBSET Outcomes]
  <2>1. \A n \in Packets : fate[n] \cup Sent(arpreq[r].packets, n) \in SUBSET Outcomes
    BY <1>4 DEF TypeInv
  <2> QED
    BY <2>1
<1>6. OneFate'
  <2> SUFFICES ASSUME NEW n \in Packets PROVE \E k \in Outcomes : fate'[n] \subseteq {k}
    BY DEF OneFate
  <2> QED
    BY <1>4 DEF OneFate
<1>7. ASSUME NEW n \in Packets, \A p \in Waiting(r) : p.id = n => Error(p)
      PROVE  fate'[n] = fate[n]
  <2>1. Sent(arpreq[r].packets, n) = {}
    BY <1>7, SentKinds
  <2> QED
    BY <1>1, <2>1
<1>8. ASSUME NEW s \in Requests, s # r, NEW p \in Waiting(s) PROVE fate'[p.id] = fate[p.id]
  <2>1. WaitsIn(p, s) /\ p.id \in Packets
    BY <1>8, WaitingPackets DEF FateInv
  <2>2. \A q \in Waiting(r) : q.id = p.id => Error(q)
    <3> SUFFICES ASSUME NEW q \in Waiting(r), q.id = p.id, ~Error(q) PROVE FALSE
      OBVIOUS
    <3>1. CASE ~Error(p)
      BY <1>8, <3>1 DEF FateInv
    <3>2. CASE Error(p)
      <4>1. fate[p.id] = {"host unreachable"}
        BY <2>1, <3>2 DEF WaitsIn
      <4>2. fate[p.id] = {}
        BY <1>2
      <4> QED
        BY <4>1, <4>2
    <3> QED
      BY <3>1, <3>2
  <2> QED
    BY <1>7, <2>1, <2>2
<1>9. ASSUME NEW n \in Packets, n > arrived PROVE fate'[n] = {}
  <2>1. \A p \in Waiting(r) : p.id # n
    <3> TAKE p \in Waiting(r)
    <3>1. p.id <= arrived /\ p.id \in Nat
      BY WaitingPackets DEF FateInv, WaitsIn
    <3>2. n \in Nat
      BY ONLY n \in Packets DEF Packets
    <3>3. arrived \in Nat
      BY ONLY TypeInv DEF TypeInv
    <3> QED
      BY ONLY <1>9, <3>1, <3>2, <3>3
  <2>2. fate[n] = {}
    BY <1>9 DEF FateInv
  <2> QED
    BY <1>7, <2>1, <2>2
<1> QED
  BY <1>5, <1>6, <1>8, <1>9

\* An ARP reply arrives.
LEMMA ReceiveReplyStep ==
    ASSUME RouterInv, NEW ip \in Hops, ReceiveReply(ip) PROVE RouterInv'
<1>1. /\ TypeInv /\ RunInv /\ OneFate /\ Running /\ stack["main"] = <<>> /\ ~sweep.awake
      /\ UNCHANGED <<stack, sweep, arrived, fault>>
  <2>1. "main" # "timeout"
    OBVIOUS
  <2> QED
    BY <2>1 DEF ReceiveReply, RouterInv, HasLock
<1>2. \A t \in Threads : stack[t] = <<>>
  BY <1>1 DEF RunInv, StackInv, Threads
<1>3. /\ \A r : ~GivingUp(r)
      /\ \A t \in Threads : \A r : Uncounted(t, r) = 0
  BY <1>2, NoCalls
<1>4. CASE Queued(ip) = 0
  <2>1. UNCHANGED <<arpreq, requests, fate>>
    BY <1>4 DEF ReceiveReply
  <2>2. ListInv' /\ CountInv' /\ \A r : Waiting(r)' = Waiting(r) /\ (GivingUp(r) => GivingUp(r)')
    BY <1>1, <2>1, Same DEF RunInv
  <2>3. FateInv'
    <3>1. \A r \in Requests : Waiting(r)' \subseteq Waiting(r)
      BY <2>2
    <3> QED
      BY <1>1, <2>1, <2>2, <3>1, FateKept DEF RunInv
  <2>4. TypeInv' /\ OneFate' /\ StackInv'
    BY <1>1, <2>1 DEF TypeInv, OneFate, RunInv, StackInv
  <2> QED
    BY <2>2, <2>3, <2>4 DEF RouterInv, RunInv
<1>5. CASE Queued(ip) # 0
  <2>1. PICK r : r = requests[Queued(ip)]
    OBVIOUS
  <2>2. r \in Requests /\ Live(r)
    BY <1>1, <1>5, <2>1, QueuedFinds DEF RunInv, ListInv
  <2>3. /\ requests' = Without(r)
        /\ arpreq' = [arpreq EXCEPT ![r] = Freed]
        /\ fate' = [n \in Packets |-> fate[n] \cup Sent(arpreq[r].packets, n)]
    BY <1>5, <2>1 DEF ReceiveReply
  <2>4. /\ ListInv' /\ requests' \in Seq(Requests) /\ arpreq' \in [Requests -> RequestType]
        /\ ~Live(r)' /\ Waiting(r)' = {}
        /\ \A s \in Requests : s # r => arpreq'[s] = arpreq[s]
    BY <1>1, <2>2, <2>3, Removal DEF RunInv
  <2>5. /\ fate' \in [Packets -> SUBSET Outcomes] /\ OneFate'
        /\ \A s \in Requests : s # r => \A p \in Waiting(s) : fate'[p.id] = fate[p.id]
        /\ \A n \in Packets : n > arrived => fate'[n] = {}
    BY <1>1, <1>3, <2>2, <2>3, SentFates DEF RunInv
  <2>6. TypeInv' /\ StackInv'
    BY <1>1, <2>4, <2>5 DEF TypeInv, RunInv, StackInv
  <2>7. \A s \in Requests : Live(s)' => s # r /\ Live(s) /\ arpreq'[s] = arpreq[s]
    <3> TAKE s \in Requests
    <3> HAVE Live(s)'
    <3>1. s # r
      BY <2>4 DEF Live
    <3>2. arpreq'[s] = arpreq[s]
      BY <2>4, <3>1
    <3> QED
      BY <3>1, <3>2 DEF Live
  <2>8. \A s \in Requests : \A p \in Waiting(s)' : s # r /\ p \in Waiting(s)
    <3>1. \A s \in Requests : s # r => Waiting(s)' = Waiting(s)
      BY <2>4 DEF Waiting
    <3>2. \A s \in Requests : s = r => Waiting(s)' = {}
      BY <2>4 DEF Waiting
    <3> QED
      BY <3>1, <3>2
  <2>9. FateInv'
    <3>1. ASSUME NEW s \in Requests, NEW p \in Waiting(s)' PROVE WaitsIn(p, s)'
      <4>1. s # r /\ p \in Waiting(s)
        BY <2>8, <3>1
      <4>2. WaitsIn(p, s) /\ fate'[p.id] = fate[p.id]
        BY <1>1, <2>5, <4>1 DEF RunInv, FateInv
      <4> QED
        BY <1>1, <1>3, <4>2 DEF WaitsIn
    <3>2. (\A s \in Requests : \A p \in Waiting(s) : WaitsIn(p, s))'
      BY <3>1
    <3>3. (\A s, u \in Requests : \A x \in Waiting(s), y \in Waiting(u) :
              x.id = y.id /\ ~Error(x) /\ ~Error(y) => s = u /\ x.kind = y.kind)'
      <4> SUFFICES \A s, u \in Requests : \A x \in Waiting(s)', y \in Waiting(u)' :
                      x.id = y.id /\ ~Error(x) /\ ~Error(y) => s = u /\ x.kind = y.kind
        BY DEF Error
      <4>1. FateInv
        BY <1>1 DEF RunInv
      <4> QED
        BY <2>8, <4>1 DEF FateInv
    <3>4. (\A n \in Packets : n > arrived => fate[n] = {})'
      BY <1>1, <2>5
    <3> QED
      BY <3>2, <3>3, <3>4 DEF FateInv
  <2>10. CountInv'
    <3>1. PICK t \in Threads : t = "main"
      BY DEF Threads
    <3>2. \A u \in Threads : u # t => stack'[u] = stack[u]
      BY <1>1
    <3>3. \A i \in DOMAIN stack'[t] :
             CallInv(stack[t][i])' \/ \E j \in DOMAIN stack[t] : stack'[t][i] = stack[t][j]
      BY <1>1
    <3>4. \A s : Uncounted(t, s)' = 0
      BY <1>1, <1>3 DEF Uncounted, Top
    <3>5. \A s \in Requests : Live(s) /\ Live(s)' =>
             /\ Waiting(s) \subseteq Waiting(s)'
             /\ arpreq[s].broadcasts <= arpreq'[s].broadcasts
             /\ Uncounted(t, s)' + arpreq[s].broadcasts <= Uncounted(t, s) + arpreq'[s].broadcasts
      <4> TAKE s \in Requests
      <4> HAVE Live(s) /\ Live(s)'
      <4>1. Uncounted(t, s) \in {0, 1} /\ arpreq[s].broadcasts \in Nat
        BY <1>1, UncountedBit, Parts
      <4>2. arpreq'[s] = arpreq[s]
        BY <2>7
      <4>3. Waiting(s) \subseteq Waiting(s)'
        BY <4>2 DEF Waiting
      <4> QED
        BY <3>4, <4>1, <4>2, <4>3, Counts
    <3>6. \A s \in Requests : Live(s)' /\ ~Live(s) =>
             /\ \A u \in Threads : \A i \in DOMAIN stack[u] : stack[u][i].req # s
             /\ Uncounted(t, s)' = 0
             /\ arpreq'[s].times_sent = 0
      BY <2>7
    <3>7. \A s \in Requests : Live(s)' /\ Live(s) =>
             \/ arpreq'[s].times_sent = arpreq[s].times_sent
             \/ arpreq'[s].times_sent + Uncounted("main", s)' + Uncounted("timeout", s)'
                   <= arpreq'[s].broadcasts
      BY <2>7
    <3> QED
      BY <1>1, <2>6, <3>2, <3>3, <3>5, <3>6, <3>7, CountKept DEF RunInv
  <2> QED
    BY <2>4, <2>5, <2>6, <2>9, <2>10 DEF RouterInv, RunInv
<1> QED
  BY <1>4, <1>5
-----------------------------------------------------------------------------
(* Time and the timeout thread.                                            *)

\* A second later.
AgedCalls(s) ==
    [i \in DOMAIN s |-> IF s[i].pc \notin {"send", "sent"} THEN s[i]
                        ELSE [s[i] EXCEPT !.age = Older(@, LongAgo)]]

\* The ages of the calls of a stack change, and nothing else does.
LEMMA Aged ==
    ASSUME NEW s \in Seq(CallType), NEW q, q = AgedCalls(s)
    PROVE  /\ q \in Seq(CallType) /\ DOMAIN q = DOMAIN s /\ (q = <<>> <=> s = <<>>)
           /\ \A i \in DOMAIN s : /\ q[i].req = s[i].req /\ q[i].pc = s[i].pc
                                  /\ q[i].waiting = s[i].waiting
                                  /\ q[i].count = s[i].count
<1> DEFINE F(c) == IF c.pc \notin {"send", "sent"} THEN c
                   ELSE [c EXCEPT !.age = Older(@, LongAgo)]
<1>0. q = [i \in DOMAIN s |-> F(s[i])]
  BY DEF AgedCalls
<1>1. \A c \in CallType : /\ F(c) \in CallType /\ F(c).req = c.req /\ F(c).pc = c.pc
                          /\ F(c).waiting = c.waiting /\ F(c).count = c.count
  <2> TAKE c \in CallType
  <2>1. PICK a : a = Older(c.age, LongAgo)
    OBVIOUS
  <2>2. a \in Nat
    <3>1. c.age \in Nat
      BY DEF CallType
    <3> QED
      BY <2>1, <3>1, SMTT(30) DEF Older, LongAgo
  <2>3. PICK d : d = [c EXCEPT !.age = a]
    OBVIOUS
  <2>4. /\ d \in CallType /\ d.req = c.req /\ d.pc = c.pc
        /\ d.waiting = c.waiting /\ d.count = c.count
    BY <2>2, <2>3 DEF CallType
  <2> QED
    BY <2>1, <2>3, <2>4
<1> HIDE DEF F
<1>2. Len(s) \in Nat /\ DOMAIN s = 1 .. Len(s) /\ \A i \in DOMAIN s : s[i] \in CallType
  BY SMTT(30)
<1>3. q \in [1 .. Len(s) -> CallType]
  BY <1>0, <1>1, <1>2
<1>4. q \in Seq(CallType) /\ Len(q) = Len(s) /\ DOMAIN q = DOMAIN s
  BY <1>2, <1>3, SMTT(30)
<1>5. q = <<>> <=> s = <<>>
  BY <1>4, SMTT(30)
<1>6. \A i \in DOMAIN s : /\ q[i].req = s[i].req /\ q[i].pc = s[i].pc
                          /\ q[i].waiting = s[i].waiting
                          /\ q[i].count = s[i].count
  BY <1>0, <1>1, <1>2
<1> QED
  BY <1>4, <1>5, <1>6

\* So does the age of a request.
LEMMA AgedRequest ==
    ASSUME NEW r \in RequestType
    PROVE  LET q == [r EXCEPT !.age = Older(@, LongAgo)]
           IN  /\ q \in RequestType /\ q.ip = r.ip /\ q.packets = r.packets
               /\ q.times_sent = r.times_sent /\ q.broadcasts = r.broadcasts
<1>1. PICK a : a = Older(r.age, LongAgo)
  OBVIOUS
<1>2. a \in Nat
  <2>1. r.age \in Nat
    BY DEF RequestType
  <2> QED
    BY <1>1, <2>1, SMTT(30) DEF Older, LongAgo
<1>3. PICK q : q = [r EXCEPT !.age = a]
  OBVIOUS
<1>4. /\ q \in RequestType /\ q.ip = r.ip /\ q.packets = r.packets
      /\ q.times_sent = r.times_sent /\ q.broadcasts = r.broadcasts
  BY <1>2, <1>3 DEF RequestType
<1> QED
  BY <1>1, <1>3, <1>4

\* A second passes.
LEMMA SecondStep ==
    ASSUME RouterInv, Second PROVE RouterInv'
<1>1. /\ TypeInv /\ RunInv /\ OneFate
      /\ UNCHANGED <<requests, arrived, fate>>
      /\ sweep' = [sweep EXCEPT !.slept = ~sweep.awake]
  BY DEF Second, RouterInv
<1>2. \A r \in Requests : /\ arpreq'[r] \in RequestType /\ arpreq'[r].ip = arpreq[r].ip
                          /\ arpreq'[r].packets = arpreq[r].packets
                          /\ arpreq'[r].times_sent = arpreq[r].times_sent
                          /\ arpreq'[r].broadcasts = arpreq[r].broadcasts
  <2> TAKE r \in Requests
  <2>1. PICK q \in RequestType : q = arpreq[r]
    BY <1>1, Parts
  <2>2. arpreq'[r] = IF q = Freed THEN Freed ELSE [q EXCEPT !.age = Older(@, LongAgo)]
    BY <2>1 DEF Second
  <2>3. CASE q = Freed
    BY <2>1, <2>2, <2>3
  <2>4. CASE q # Freed
    BY <2>1, <2>2, <2>4, AgedRequest
  <2> QED
    BY <2>3, <2>4
<1>3. arpreq' \in [Requests -> RequestType]
  <2>1. arpreq' = [r \in Requests |-> arpreq'[r]]
    BY DEF Second
  <2> QED
    BY <1>2, <2>1
<1>4. \A r \in Requests : (Live(r)' <=> Live(r)) /\ Waiting(r)' = Waiting(r)
  <2> TAKE r \in Requests
  <2>1. Waiting(r)' = Waiting(r)
    BY <1>2 DEF Waiting
  <2>2. CASE Live(r)
    <3>1. arpreq'[r].packets # Freed.packets
      BY <1>1, <1>2, <2>2 DEF RunInv, ListInv, Freed
    <3>2. Live(r)'
      BY <3>1 DEF Live
    <3> QED
      BY <2>1, <2>2, <3>2
  <2>3. CASE ~Live(r)
    <3>1. ~Live(r)'
      BY <2>3 DEF Second, Live
    <3> QED
      BY <2>1, <2>3, <3>1
  <2> QED
    BY <2>2, <2>3
<1>5. \A t \in Threads :
         /\ stack'[t] \in Seq(CallType) /\ DOMAIN stack'[t] = DOMAIN stack[t]
         /\ stack'[t] = <<>> <=> stack[t] = <<>>
         /\ \A i \in DOMAIN stack[t] : /\ stack'[t][i].req = stack[t][i].req
                                       /\ stack'[t][i].pc = stack[t][i].pc
                                       /\ stack'[t][i].waiting = stack[t][i].waiting
                                       /\ stack'[t][i].count = stack[t][i].count
  <2> TAKE t \in Threads
  <2>1. PICK s \in Seq(CallType) : s = stack[t]
    BY <1>1, Parts
  <2>2. stack'[t] = AgedCalls(s)
    BY <2>1 DEF Second, AgedCalls
  <2>3. PICK q : q = stack'[t]
    OBVIOUS
  <2>4. q = AgedCalls(s)
    BY <2>2, <2>3
  <2>5. /\ q \in Seq(CallType) /\ DOMAIN q = DOMAIN s /\ (q = <<>> <=> s = <<>>)
        /\ \A i \in DOMAIN s : /\ q[i].req = s[i].req /\ q[i].pc = s[i].pc
                               /\ q[i].waiting = s[i].waiting
                               /\ q[i].count = s[i].count
    BY ONLY s \in Seq(CallType), <2>4, Aged
  <2> QED
    BY <2>1, <2>3, <2>5
<1>6. stack' \in [Threads -> Seq(CallType)]
  <2>1. stack' = [t \in Threads |-> stack'[t]]
    BY DEF Second
  <2> QED
    BY <1>5, <2>1
<1>7. /\ sweep' \in [awake : BOOLEAN, slept : BOOLEAN, next : 0 .. MaxRequests]
      /\ sweep'.awake = sweep.awake
  BY <1>1 DEF TypeInv
<1>8. TypeInv'
  BY <1>1, <1>3, <1>6, <1>7 DEF TypeInv
<1>9. StackInv'
  <2>1. (\A t \in Threads : \A i \in DOMAIN stack[t] : i > 1 => stack[t][i].pc = "give up")'
    <3> SUFFICES ASSUME NEW t \in Threads, NEW i \in DOMAIN stack'[t], i > 1
                 PROVE  stack'[t][i].pc = "give up"
      OBVIOUS
    <3>1. i \in DOMAIN stack[t]
      BY <1>5
    <3> QED
      BY <1>1, <1>5, <3>1 DEF RunInv, StackInv
  <2>2. "timeout" \in Threads
    BY DEF Threads
  <2>3. (~sweep.awake => stack["timeout"] = <<>>)'
    BY <1>1, <1>5, <1>7, <2>2 DEF RunInv, StackInv
  <2> QED
    BY <2>1, <2>3 DEF StackInv
<1>10. ListInv'
  <2>1. \A r \in Requests : Live(r) =>
           arpreq'[r].ip = arpreq[r].ip /\ arpreq'[r].packets # <<>>
    BY <1>1, <1>2 DEF RunInv, ListInv
  <2> QED
    BY <1>1, <1>4, <2>1, ListKept DEF RunInv
<1>11. \A t \in Threads : \A r : Uncounted(t, r)' = Uncounted(t, r)
  <2> TAKE t \in Threads
  <2>1. stack[t] # <<>> => 1 \in DOMAIN stack[t]
    <3>1. stack[t] \in Seq(CallType)
      BY <1>1, Parts
    <3> QED
      BY <3>1, NotEmpty
  <2>2. stack[t] # <<>> => Top(t)'.pc = Top(t).pc /\ Top(t)'.req = Top(t).req
    BY <1>5, <2>1 DEF Top
  <2>3. stack'[t] # <<>> <=> stack[t] # <<>>
    BY <1>5
  <2> QED
    BY <2>2, <2>3 DEF Uncounted
<1>12. \A r : /\ Uncounted("main", r)' = Uncounted("main", r)
              /\ Uncounted("timeout", r)' = Uncounted("timeout", r)
  BY <1>11 DEF Threads
<1>13. (\A t \in Threads : \A i \in DOMAIN stack[t] : CallInv(stack[t][i]))'
  <2> SUFFICES ASSUME NEW t \in Threads, NEW i \in DOMAIN stack'[t]
               PROVE  CallInv(stack[t][i])'
    OBVIOUS
  <2>1. i \in DOMAIN stack[t]
    BY <1>5
  <2>2. PICK c : c = stack[t][i]
    OBVIOUS
  <2>3. PICK d : d = stack'[t][i]
    OBVIOUS
  <2>4. d.req = c.req /\ d.pc = c.pc /\ d.waiting = c.waiting /\ d.count = c.count
    BY <1>5, <2>1, <2>2, <2>3
  <2>5. CallInv(c) /\ c.req \in Requests
    BY <1>1, <2>1, <2>2, Parts DEF RunInv, CountInv
  <2>6. CallInv(d)'
    BY <1>2, <1>4, <1>12, <2>4, <2>5 DEF CallInv
  <2> QED
    BY <2>3, <2>6
<1>14. (\A r \in Requests : Live(r) =>
           arpreq[r].times_sent + Uncounted("main", r) + Uncounted("timeout", r)
              <= arpreq[r].broadcasts)'
  BY <1>1, <1>2, <1>4, <1>12 DEF RunInv, CountInv
<1>15. FateInv'
  <2>1. \A r \in Requests : Waiting(r)' \subseteq Waiting(r)
    BY <1>4
  <2>2. ASSUME NEW r \in Requests, GivingUp(r) PROVE GivingUp(r)'
    <3>1. PICK t \in Threads : \E i \in DOMAIN stack[t] :
             stack[t][i].req = r /\ stack[t][i].pc = "give up"
      BY <2>2 DEF GivingUp
    <3>2. PICK i \in DOMAIN stack[t] : stack[t][i].req = r /\ stack[t][i].pc = "give up"
      BY <3>1
    <3>3. i \in DOMAIN stack'[t]
      BY <1>5, <3>2
    <3>4. stack'[t][i].req = r /\ stack'[t][i].pc = "give up"
      BY <1>5, <3>2
    <3> QED
      BY <3>3, <3>4 DEF GivingUp
  <2> QED
    BY <1>1, <2>1, <2>2, FateKept DEF RunInv
<1>16. OneFate'
  BY <1>1 DEF OneFate
<1> QED
  BY <1>8, <1>9, <1>10, <1>13, <1>14, <1>15, <1>16 DEF RouterInv, RunInv,
     CountInv

\* The timeout thread wakes or sleeps; what it works on stays as it is.
LEMMA SweepStep ==
    ASSUME TypeInv, RunInv, OneFate, UNCHANGED <<arpreq, requests, stack, arrived, fate>>,
           sweep' \in [awake : BOOLEAN, slept : BOOLEAN, next : 0 .. MaxRequests],
           ~sweep'.awake => stack["timeout"] = <<>>
    PROVE  RouterInv'
<1>1. ListInv' /\ CountInv' /\ \A r : Waiting(r)' = Waiting(r) /\ (GivingUp(r) => GivingUp(r)')
  BY Same DEF RunInv
<1>2. FateInv'
  <2>1. \A r \in Requests : Waiting(r)' \subseteq Waiting(r)
    BY <1>1
  <2> QED
    BY <1>1, <2>1, FateKept DEF RunInv
<1>3. TypeInv' /\ OneFate'
  BY DEF TypeInv, OneFate
<1>4. StackInv'
  BY DEF RunInv, StackInv
<1> QED
  BY <1>1, <1>2, <1>3, <1>4 DEF RouterInv, RunInv

\* The timeout thread begins its sweep.
LEMMA WakeUpStep ==
    ASSUME RouterInv, WakeUp PROVE RouterInv'
<1>1. /\ TypeInv /\ RunInv /\ OneFate /\ UNCHANGED <<arpreq, requests, stack, arrived, fate>>
      /\ sweep' = [awake |-> TRUE, slept |-> FALSE,
                   next |-> IF requests = <<>> THEN 0 ELSE requests[1]]
  BY DEF WakeUp, RouterInv
<1>2. PICK n : n = IF requests = <<>> THEN 0 ELSE requests[1]
  OBVIOUS
<1>3. n \in 0 .. MaxRequests
  <2>1. requests \in Seq(Requests)
    BY <1>1 DEF TypeInv
  <2>2. requests # <<>> => requests[1] \in Requests
    BY <2>1, NotEmpty, SMTT(30)
  <2>3. 0 \in 0 .. MaxRequests
    BY Constants, SMTT(30)
  <2>4. Requests \subseteq 0 .. MaxRequests
    BY SMTT(30) DEF Requests
  <2> QED
    BY <1>2, <2>2, <2>3, <2>4
<1>4. sweep' = [awake |-> TRUE, slept |-> FALSE, next |-> n]
  BY <1>1, <1>2
<1>5. /\ sweep' \in [awake : BOOLEAN, slept : BOOLEAN, next : 0 .. MaxRequests]
      /\ sweep'.awake
  BY <1>3, <1>4
<1> QED
  BY <1>1, <1>5, SweepStep

\* The sweep goes to the next request, or ends.
LEMMA WalkStep ==
    ASSUME RouterInv, Walk PROVE RouterInv'
<1>1. /\ TypeInv /\ RunInv /\ OneFate /\ sweep.awake /\ stack["timeout"] = <<>>
      /\ UNCHANGED <<arpreq, requests, arrived, fate>>
  BY DEF Walk, RouterInv, cacheVars
<1>2. CASE sweep.next = 0
  <2>1. sweep' = Asleep /\ stack' = stack
    BY <1>2 DEF Walk
  <2>2. sweep' \in [awake : BOOLEAN, slept : BOOLEAN, next : 0 .. MaxRequests]
    <3>1. 0 \in 0 .. MaxRequests
      BY Constants, SMTT(30)
    <3> QED
      BY <2>1, <3>1 DEF Asleep
  <2> QED
    BY <1>1, <2>1, <2>2, SweepStep
<1>3. CASE sweep.next # 0 /\ arpreq[sweep.next] = Freed
  <2>1. Crash
    BY <1>3 DEF Walk, Crash
  <2> QED
    BY <2>1, CrashStep
<1>4. CASE sweep.next # 0 /\ arpreq[sweep.next] # Freed
  <2>1. PICK n : n = IF Position(sweep.next) = Len(requests) THEN 0
                     ELSE requests[Position(sweep.next) + 1]
    OBVIOUS
  <2>2. sweep' = [sweep EXCEPT !.next = n] /\ Enter("timeout", <<>>, sweep.next)
    BY <1>4, <2>1 DEF Walk
  <2>3. n \in 0 .. MaxRequests
    <3>1. PICK k \in DOMAIN requests : requests[k] = sweep.next
      <4>1. sweep.next \in Requests
        BY <1>1, <1>4, SMTT(30) DEF TypeInv, Requests
      <4> QED
        BY <1>1, <1>4, <4>1 DEF RunInv, ListInv, Live
    <3>2. Position(sweep.next) = k
      BY <1>1, <3>1, PositionFinds DEF RunInv
    <3>3. requests \in Seq(Requests)
      BY <1>1 DEF TypeInv
    <3>4. k # Len(requests) => requests[k + 1] \in Requests
      BY <3>3, SMTT(30)
    <3>5. 0 \in 0 .. MaxRequests
      BY Constants, SMTT(30)
    <3>6. Requests \subseteq 0 .. MaxRequests
      BY SMTT(30) DEF Requests
    <3> QED
      BY <2>1, <3>2, <3>4, <3>5, <3>6
  <2>4. /\ sweep' \in [awake : BOOLEAN, slept : BOOLEAN, next : 0 .. MaxRequests]
        /\ sweep'.awake
    BY <1>1, <2>2, <2>3 DEF TypeInv
  <2>5. PICK r : r = sweep.next
    OBVIOUS
  <2>6. r \in Requests
    BY <1>1, <1>4, <2>5, SMTT(30) DEF TypeInv, Requests
  <2>7. PICK rest \in Seq(CallType) : rest = <<>>
    BY EmptyList
  <2>8. PICK t \in Threads : t = "timeout"
    BY DEF Threads
  <2>9. t # "main"
    BY <2>8
  <2>10. \A i \in DOMAIN rest : FALSE
    BY <2>7, SMTT(30)
  <2>11. Enter(t, rest, r)
    BY <2>2, <2>5, <2>7, <2>8
  <2>12. /\ stack' \in [Threads -> Seq(CallType)]
         /\ Running' =>
               /\ StackInv'
               /\ \A u \in Threads : u # t => stack'[u] = stack[u]
               /\ \A i \in DOMAIN stack'[t] :
                     stack'[t][i].pc = "check" \/ \E j \in DOMAIN rest : stack'[t][i] = rest[j]
               /\ \A j \in DOMAIN rest : \E i \in DOMAIN stack'[t] : stack'[t][i] = rest[j]
               /\ \A s : Uncounted(t, s)' = 0
    <3>1. /\ TypeInv /\ StackInv /\ t \in Threads /\ rest \in Seq(CallType) /\ r \in Requests
          /\ \A i \in DOMAIN rest : rest[i].pc = "give up"
          /\ t = "timeout" => sweep'.awake
          /\ t = "main" => sweep' = sweep
      BY <1>1, <2>4, <2>6, <2>9, <2>10 DEF RunInv
    <3> QED
      BY ONLY <2>11, <3>1, Enters
  <2>13. TypeInv' /\ OneFate'
    BY <1>1, <2>4, <2>12 DEF TypeInv, OneFate
  <2>14. ASSUME Running' PROVE RunInv'
    <3>1. /\ StackInv' /\ stack' \in [Threads -> Seq(CallType)]
          /\ \A u \in Threads : u # t => stack'[u] = stack[u]
          /\ \A s : Uncounted(t, s)' = 0
      BY <2>12, <2>14
    <3>2. \A i \in DOMAIN stack'[t] : stack'[t][i].pc = "check"
      BY <2>10, <2>12, <2>14
    <3>3. \A i \in DOMAIN stack'[t] :
             CallInv(stack[t][i])' \/ \E j \in DOMAIN stack[t] : stack'[t][i] = stack[t][j]
      <4>1. \A i \in DOMAIN stack'[t] : stack'[t][i].pc = "check" => CallInv(stack[t][i])'
        BY DEF CallInv
      <4> QED
        BY <3>2, <4>1
    <3>4. \A s : GivingUp(s) => GivingUp(s)'
      <4> TAKE s
      <4>1. \A i \in DOMAIN stack[t] : FALSE
        BY <1>1, <2>8, SMTT(30)
      <4> QED
        BY <3>1, <4>1, GivingUpKept
    <3>5. UNCHANGED <<arpreq, requests, arrived, fate>>
      BY <1>1
    <3>6. TypeInv /\ RunInv /\ t \in Threads
      BY <1>1
    <3> QED
      BY ONLY <2>4, <3>1, <3>3, <3>4, <3>5, <3>6, QuietStep
  <2> QED
    BY <2>13, <2>14 DEF RouterInv
<1> QED
  BY <1>2, <1>3, <1>4

-----------------------------------------------------------------------------
(* The theorems.                                                           *)

\* The invariant holds when the router starts.
LEMMA InitRouter ==
    ASSUME Init PROVE RouterInv
<1>1. Freed \in RequestType
  BY EmptyList DEF Freed, RequestType
<1>2. TypeInv
  <2>1. 0 \in 0 .. MaxPackets /\ 0 \in 0 .. MaxRequests
    BY Constants, SMTT(30)
  <2>2. sweep \in [awake : BOOLEAN, slept : BOOLEAN, next : 0 .. MaxRequests]
    BY <2>1 DEF Init, Asleep
  <2>3. arpreq \in [Requests -> RequestType] /\ requests \in Seq(Requests)
    BY <1>1, SMTT(30) DEF Init
  <2>4. stack \in [Threads -> Seq(CallType)]
    BY SMTT(30) DEF Init
  <2>5. fate \in [Packets -> SUBSET Outcomes] /\ arrived \in 0 .. MaxPackets
    BY <2>1 DEF Init
  <2> QED
    BY <2>2, <2>3, <2>4, <2>5 DEF TypeInv
<1>3. OneFate
  BY DEF Init, OneFate, Outcomes
<1>4. \A t \in Threads : DOMAIN stack[t] = {} /\ stack[t] = <<>>
  BY SMTT(30) DEF Init
<1>5. \A r \in Requests : ~Live(r) /\ Waiting(r) = {}
  BY SMTT(30) DEF Init, Live, Waiting, Freed, Range
<1>6. StackInv
  <2>1. "timeout" \in Threads
    BY DEF Threads
  <2> QED
    BY <1>4, <2>1 DEF StackInv
<1>7. ListInv
  <2>1. DOMAIN requests = {}
    BY SMTT(30) DEF Init
  <2> QED
    BY <1>5, <2>1 DEF ListInv
<1>8. CountInv
  BY <1>4, <1>5 DEF CountInv
<1>9. FateInv
  <2>1. \A n \in Packets : fate[n] = {}
    BY DEF Init
  <2> QED
    BY <1>5, <2>1 DEF FateInv
<1> QED
  BY <1>2, <1>3, <1>6, <1>7, <1>8, <1>9 DEF RouterInv, RunInv

\* Every step keeps the invariant.
LEMMA NextRouter ==
    ASSUME RouterInv, [Next]_vars PROVE RouterInv'
<1>1. CASE ReceiveIp
  BY <1>1, ReceiveIpStep
<1>2. ASSUME NEW ip \in Hops, ReceiveReply(ip) PROVE RouterInv'
  BY <1>2, ReceiveReplyStep
<1>3. ASSUME NEW t \in Threads, HandleArpreq(t) PROVE RouterInv'
  <2>1. CASE Check(t)
    BY <1>3, <2>1, CheckStep
  <2>2. CASE Broadcast(t)
    BY <1>3, <2>2, BroadcastStep
  <2>3. CASE Stamp(t)
    BY <1>3, <2>3, StampStep
  <2>4. CASE Count(t)
    BY <1>3, <2>4, CountStep
  <2>5. CASE Unreachable(t)
    BY <1>3, <2>5, UnreachableStep
  <2>6. CASE Destroy(t)
    BY <1>3, <2>6, DestroyStep
  <2> QED
    BY <1>3, <2>1, <2>2, <2>3, <2>4, <2>5, <2>6 DEF HandleArpreq
<1>4. CASE Second
  BY <1>4, SecondStep
<1>5. CASE WakeUp
  BY <1>5, WakeUpStep
<1>6. CASE Walk
  BY <1>6, WalkStep
<1>7. CASE UNCHANGED vars
  <2>1. UNCHANGED <<arpreq, requests, stack, sweep, arrived, fate, fault>>
    BY <1>7 DEF vars, cacheVars
  <2>2. CASE Running
    <3>1. /\ TypeInv /\ RunInv /\ OneFate
          /\ sweep' \in [awake : BOOLEAN, slept : BOOLEAN, next : 0 .. MaxRequests]
          /\ ~sweep'.awake => stack["timeout"] = <<>>
      BY <2>1, <2>2 DEF RouterInv, TypeInv, RunInv, StackInv
    <3> QED
      BY <2>1, <3>1, SweepStep
  <2>3. CASE ~Running
    <3>1. TypeInv' /\ OneFate' /\ ~Running'
      BY <2>1, <2>3 DEF RouterInv, TypeInv, OneFate, Running
    <3> QED
      BY <3>1 DEF RouterInv
  <2> QED
    BY <2>2, <2>3
<1> QED
  BY <1>1, <1>2, <1>3, <1>4, <1>5, <1>6, <1>7 DEF Next

\* The inductive invariant of the router holds in every reachable state,
\* whatever arrives and however the two threads interleave.
THEOREM RouterInvariance == Spec => []RouterInv
<1>1. Init => RouterInv
  BY InitRouter
<1>2. RouterInv /\ [Next]_vars => RouterInv'
  BY NextRouter
<1> QED
  BY <1>1, <1>2, PTL DEF Spec

\* The list of requests is sound: allocated requests only, one for a next hop,
\* each with a packet, and every allocated request is on it.
THEOREM ListSound == Spec => []QueueSound
<1>1. RouterInv => QueueSound
  <2> SUFFICES ASSUME RouterInv, Running PROVE QueueSound
    BY DEF QueueSound
  <2>1. TypeInv /\ ListInv
    BY DEF RouterInv, RunInv
  <2>2. \A i \in DOMAIN requests : requests[i] \in Requests
    BY <2>1, SMTT(30) DEF TypeInv
  <2>3. \A i \in DOMAIN requests : arpreq[requests[i]].packets # <<>>
    BY <2>1, <2>2 DEF ListInv
  <2>4. \A r \in Requests : arpreq[r] # Freed => r \in Range(requests)
    BY <2>1 DEF ListInv, Live, Range
  <2> QED
    BY <2>1, <2>3, <2>4 DEF ListInv, QueueSound
<1> QED
  BY <1>1, RouterInvariance, PTL

\* No next hop is given up before MaxTries ARP requests went out for it, although
\* the two threads count the attempts without a lock.
THEOREM GiveUpAfterTries == Spec => []GivenUpLate
<1>1. RouterInv => GivenUpLate
  BY DEF RouterInv, RunInv, CountInv, CallInv, Live, GivenUpLate
<1> QED
  BY <1>1, RouterInvariance, PTL

\* No packet is both delivered and reported as undeliverable, or reported in two
\* ways.
THEOREM OneOutcomeEach == Spec => []OneOutcome
<1>1. RouterInv => OneOutcome
  BY DEF RouterInv, OneFate, OneOutcome
<1> QED
  BY <1>1, RouterInvariance, PTL
=============================================================================
