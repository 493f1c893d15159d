----------------------------- MODULE ProxyProofs -----------------------------
(***************************************************************************)
(* Proofs about the proxy.  Its children relay the response in order and   *)
(* the parent loses neither a child nor a socket, for any clients,         *)
(* requests, responses and buffer size.  The header table of a parse       *)
(* object stays inside its array and is the map it should be, and every    *)
(* block the object allocates is freed once, for all keys, values, table   *)
(* sizes and requests.                                                     *)
(***************************************************************************)
EXTENDS HttpProxy, ParsedRequest, WellFoundedInduction, TLAPS

USE ZenonT(20)

-----------------------------------------------------------------------------
(* The processes: module HttpProxy.                                        *)

ChildStates == {"none", "reading", "parsing", "connecting", "fetching", "relaying",
                "relayed", "exit", "zombie", "reaped"}

ErrorReplies == {<<>>, <<"400">>, <<"501">>}

ProxyType ==
    /\ parent \in [pc : {"accept", "fork", "close"}, client : Clients \cup {"none"}]
    /\ handler \in BOOLEAN /\ sigchld \in BOOLEAN
    /\ conn \in [Clients -> {"none", "queued", "accepted"}]
    /\ holders \in [Clients -> SUBSET {"parent", "child"}]
    /\ child \in [Clients -> ChildStates]
    /\ unread \in [Clients -> Seq(Unit)]
    /\ response \in [Clients -> Seq(Unit)]
    /\ buffer \in [Clients -> Seq(Unit)]
    /\ got \in [Clients -> Seq(Unit \cup {"400", "501"})]

\* The parent forks for a connection that no child has been given yet, and has no
\* other socket open.
ParentInv ==
    /\ parent.pc = "accept" <=> parent.client = "none"
    /\ parent.pc = "fork" => /\ conn[parent.client] = "accepted"
                             /\ child[parent.client] = "none"
    /\ \A c \in Clients :
          /\ conn[c] # "accepted" => child[c] = "none" /\ holders[c] = {}
          /\ "parent" \in holders[c] => parent.client = c
          /\ "child" \in holders[c] => child[c] \notin {"none", "zombie", "reaped"}

\* What the client has, what the child holds and what is still to come are the
\* response, from the moment the child asks for it.
ChatInv(c) ==
    /\ child[c] \in {"none", "reading", "parsing", "connecting"} => got[c] = <<>>
    /\ child[c] = "connecting" => buffer[c] = <<>>
    /\ child[c] = "fetching" => got[c] = <<>> /\ buffer[c] \o unread[c] = response[c]
    /\ child[c] = "relaying" => /\ got[c] \in Seq(Unit)
                                /\ got[c] \o (buffer[c] \o unread[c]) = response[c]
    /\ child[c] \in {"relayed", "exit", "zombie", "reaped"} =>
          got[c] \in ErrorReplies \/ IsPrefix(got[c], response[c])

ProxyInv ==
    /\ ProxyType
    /\ ParentInv
    /\ NoneForgotten
    /\ \A c \in Clients : ChatInv(c)

-----------------------------------------------------------------------------
(* Sequences of units.                                                     *)

\* Sequences that agree unit by unit are the same.
LEMMA SameUnits ==
    ASSUME NEW S, NEW s \in Seq(S), NEW t \in Seq(S), Len(s) = Len(t),
           \A k \in 1 .. Len(s) : s[k] = t[k]
    PROVE  s = t
  BY SMTT(30)

\* A sequence in two parts.
LEMMA Cut ==
    ASSUME NEW S, NEW s \in Seq(S), NEW k \in 1 .. Len(s)
    PROVE  /\ SubSeq(s, 1, k) \in Seq(S) /\ SubSeq(s, k + 1, Len(s)) \in Seq(S)
           /\ SubSeq(s, 1, k) \o SubSeq(s, k + 1, Len(s)) = s
<1> DEFINE a == SubSeq(s, 1, k)
           b == SubSeq(s, k + 1, Len(s))
<1>1. k \in Nat /\ Len(s) \in Nat /\ k <= Len(s) /\ k >= 1
  BY SMTT(30)
<1>2. a \in Seq(S) /\ Len(a) = k /\ \A i \in 1 .. k : a[i] = s[i]
  BY <1>1, SMTT(30)
<1>3. /\ b \in Seq(S) /\ Len(b) = Len(s) - k
      /\ \A i \in 1 .. Len(s) - k : b[i] = s[k + i]
  <2>1. b \in Seq(S) /\ Len(b) = Len(s) - k
    BY <1>1, SMTT(30)
  <2>2. ASSUME NEW i \in 1 .. Len(s) - k PROVE b[i] = s[k + i]
    BY <1>1, <2>2, SMTT(30)
  <2> HIDE DEF b
  <2> QED
    BY <2>1, <2>2
<1> HIDE DEF a, b
<1>4. a \o b \in Seq(S) /\ Len(a \o b) = Len(s)
  <2>1. a \in Seq(S) /\ b \in Seq(S) /\ Len(a) = k /\ Len(b) = Len(s) - k
    BY <1>2, <1>3
  <2>2. a \o b \in Seq(S) /\ Len(a \o b) = Len(a) + Len(b)
    BY <2>1, SMTT(30)
  <2> QED
    BY <1>1, <2>1, <2>2, SMTT(30)
<1>5. ASSUME NEW i \in 1 .. Len(s) PROVE (a \o b)[i] = s[i]
  <2>1. CASE i <= k
    BY <1>1, <1>2, <1>3, <2>1, SMTT(30)
  <2>2. CASE i > k
    <3>1. (a \o b)[i] = b[i - k]
      BY <1>1, <1>2, <1>3, <2>2, SMTT(30)
    <3>2. i - k \in 1 .. Len(s) - k /\ k + (i - k) = i
      BY <1>1, <2>2, SMTT(30)
    <3> QED
      BY <1>3, <3>1, <3>2
  <2>3. i <= k \/ i > k
    BY <1>1, SMTT(30)
  <2> QED
    BY <2>1, <2>2, <2>3
<1>6. a \o b = s
  BY <1>4, <1>5, SameUnits
<1> QED
  BY <1>2, <1>3, <1>6 DEF a, b

\* Concatenation is associative.
LEMMA Regroup ==
    \A a, b, c \in Seq(Unit) : (a \o b) \o c = a \o (b \o c) /\ a \o b \in Seq(Unit)
  BY SMTT(30)

\* A sequence begins every sequence made by appending to it.
LEMMA PrefixOf ==
    ASSUME NEW S, NEW a \in Seq(S), NEW b \in Seq(S)
    PROVE  IsPrefix(a, a \o b)
<1> DEFINE s == a \o b
           n == Len(a)
<1>1. /\ s \in Seq(S) /\ n \in Nat /\ n <= Len(s)
      /\ \A i \in 1 .. n : s[i] = a[i]
  BY SMTT(30)
<1> HIDE DEF s
<1>2. /\ SubSeq(s, 1, n) \in Seq(S) /\ Len(SubSeq(s, 1, n)) = n
      /\ \A i \in 1 .. n : SubSeq(s, 1, n)[i] = s[i]
  BY <1>1, SMTT(30)
<1>3. /\ SubSeq(a, 1, n) \in Seq(S) /\ Len(SubSeq(a, 1, n)) = n
      /\ \A i \in 1 .. n : SubSeq(a, 1, n)[i] = a[i]
  BY <1>1, SMTT(30)
<1>4. SubSeq(a, 1, n) = SubSeq(s, 1, n)
  BY <1>1, <1>2, <1>3, SameUnits
<1> QED
  BY <1>1, <1>4 DEF IsPrefix, s

-----------------------------------------------------------------------------
(* Every step preserves the invariant.                                     *)

\* The invariant holds when the proxy starts.
LEMMA InitProxy == Init => ProxyInv
<1> SUFFICES ASSUME Init PROVE ProxyInv
  OBVIOUS
<1>1. /\ unread \in [Clients -> Seq(Unit)] /\ response \in [Clients -> Seq(Unit)]
  BY ProxyAssumption DEF Init
<1>2. ProxyType
  <2>1. /\ <<>> \in Seq(Unit) /\ <<>> \in Seq(Unit \cup {"400", "501"})
        /\ "none" \in ChildStates
    BY SMTT(30) DEF ChildStates
  <2>2. /\ buffer \in [Clients -> Seq(Unit)] /\ child \in [Clients -> ChildStates]
        /\ got \in [Clients -> Seq(Unit \cup {"400", "501"})]
    BY <2>1 DEF Init
  <2>3. parent \in [pc : {"accept", "fork", "close"}, client : Clients \cup {"none"}]
    BY DEF Init
  <2> QED
    BY <1>1, <2>2, <2>3 DEF Init, ProxyType
<1>3. ParentInv
  BY DEF Init, ParentInv
<1>4. NoneForgotten
  BY DEF Init, NoneForgotten, Zombies
<1>5. \A c \in Clients : ChatInv(c)
  BY DEF Init, ChatInv
<1> QED
  BY <1>2, <1>3, <1>4, <1>5 DEF ProxyInv

\* The exchange of a client goes on as before, or has just begun or ended.
SameChat(c) ==
    /\ \/ child'[c] = child[c]
       \/ child[c] = "none" /\ child'[c] = "reading"
       \/ child[c] \in {"exit", "relayed"} /\ child'[c] = "zombie"
       \/ child[c] = "zombie" /\ child'[c] = "reaped"
    /\ unread'[c] = unread[c] /\ response'[c] = response[c]
    /\ buffer'[c] = buffer[c] /\ got'[c] = got[c]

\* A child whose data do not change keeps its part of the invariant.
LEMMA ChatKept ==
    ASSUME NEW c \in Clients, ChatInv(c), SameChat(c) PROVE ChatInv(c)'
  BY DEF ChatInv, SameChat

\* A client connects.
LEMMA ConnectsStep ==
    ASSUME ProxyInv, NEW d \in Clients, ClientConnects(d) PROVE ProxyInv'
<1>1. /\ conn[d] = "none" /\ conn' = [conn EXCEPT ![d] = "queued"]
      /\ UNCHANGED <<parent, handler, sigchld, holders, child>>
      /\ UNCHANGED chatVars
  BY DEF ClientConnects
<1>2. ProxyType' /\ NoneForgotten'
  BY <1>1 DEF ProxyInv, ProxyType, chatVars, NoneForgotten, Zombies
<1>3. ParentInv'
  BY <1>1 DEF ProxyInv, ProxyType, ParentInv
<1>4. \A c \in Clients : ChatInv(c)'
  BY <1>1, ChatKept DEF ProxyInv, SameChat, chatVars
<1> QED
  BY <1>2, <1>3, <1>4 DEF ProxyInv

\* accept() in the parent.
LEMMA AcceptStep ==
    ASSUME ProxyInv, Accept PROVE ProxyInv'
<1>1. PICK d \in Clients :
         /\ conn[d] = "queued" /\ conn' = [conn EXCEPT ![d] = "accepted"]
         /\ holders' = [holders EXCEPT ![d] = {"parent"}]
         /\ parent' = [pc |-> "fork", client |-> d]
         /\ parent.pc = "accept"
         /\ UNCHANGED <<handler, sigchld, child>> /\ UNCHANGED chatVars
  BY DEF Accept
<1>2. ProxyType'
  BY <1>1 DEF ProxyInv, ProxyType, chatVars
<1>3. ParentInv'
  <2>1. /\ parent'.pc = "fork" /\ parent'.client = d /\ d # "none"
        /\ conn'[d] = "accepted" /\ child'[d] = "none"
    BY <1>1, ProxyAssumption DEF ProxyInv, ProxyType, ParentInv
  <2>2. parent.client \notin Clients
    BY <1>1, ProxyAssumption DEF ProxyInv, ParentInv
  <2>3. ASSUME NEW c \in Clients
        PROVE  /\ conn'[c] # "accepted" => child'[c] = "none" /\ holders'[c] = {}
               /\ "parent" \in holders'[c] => parent'.client = c
               /\ "child" \in holders'[c] => child'[c] \notin {"none", "zombie", "reaped"}
    <3>1. CASE c = d
      BY <1>1, <2>1, <3>1 DEF ProxyInv, ProxyType
    <3>2. CASE c # d
      BY <1>1, <2>2, <3>2 DEF ProxyInv, ProxyType, ParentInv
    <3> QED
      BY <3>1, <3>2
  <2> QED
    BY <2>1, <2>3 DEF ParentInv
<1>4. \A c \in Clients : ChatInv(c)'
  BY <1>1, ChatKept DEF ProxyInv, SameChat, chatVars
<1>5. NoneForgotten'
  BY <1>1 DEF ProxyInv, NoneForgotten, Zombies
<1> QED
  BY <1>2, <1>3, <1>4, <1>5 DEF ProxyInv

\* fork(), which may fail.
LEMMA ForkStep ==
    ASSUME ProxyInv, Fork PROVE ProxyInv'
<1> DEFINE d == parent.client
<1>1. /\ parent.pc = "fork" /\ parent' = [parent EXCEPT !.pc = "close"]
      /\ UNCHANGED <<handler, sigchld, conn>> /\ UNCHANGED chatVars
      /\ \/ /\ child' = [child EXCEPT ![d] = "reading"]
            /\ holders' = [holders EXCEPT ![d] = @ \cup {"child"}]
         \/ child' = child /\ holders' = holders
  BY DEF Fork
<1>2. d \in Clients /\ child[d] = "none" /\ conn[d] = "accepted"
  BY <1>1 DEF ProxyInv, ProxyType, ParentInv
<1>3. parent'.pc = "close" /\ parent'.client = d
      /\ parent' \in [pc : {"accept", "fork", "close"}, client : Clients \cup {"none"}]
  BY <1>1 DEF ProxyInv, ProxyType
<1> HIDE DEF d
<1>4. ProxyType'
  <2>1. child' \in [Clients -> ChildStates]
    BY <1>1, <1>2 DEF ProxyInv, ProxyType, ChildStates
  <2>2. holders' \in [Clients -> SUBSET {"parent", "child"}]
    <3>1. holders[d] \cup {"child"} \in SUBSET {"parent", "child"}
      BY <1>2 DEF ProxyInv, ProxyType
    <3>2. holders' = holders \/ holders' = [holders EXCEPT ![d] = holders[d] \cup {"child"}]
      BY <1>1
    <3>3. holders \in [Clients -> SUBSET {"parent", "child"}]
      BY DEF ProxyInv, ProxyType
    <3> QED
      BY <1>2, <3>1, <3>2, <3>3
  <2> QED
    BY <1>1, <1>3, <2>1, <2>2 DEF ProxyInv, ProxyType, chatVars
<1>5. ParentInv'
  <2>1. d # "none"
    BY <1>2, ProxyAssumption
  <2> QED
    BY <1>1, <1>2, <1>3, <2>1, SMTT(30) DEF ProxyInv, ProxyType, ParentInv, d
<1>6. \A c \in Clients : ChatInv(c)'
  <2>1. \A c \in Clients : SameChat(c)
    BY <1>1, <1>2 DEF ProxyInv, ProxyType, SameChat, chatVars
  <2> QED
    BY <2>1, ChatKept DEF ProxyInv
<1>7. NoneForgotten'
  BY <1>1, <1>2, SMTT(30) DEF ProxyInv, ProxyType, NoneForgotten, Zombies
<1> QED
  BY <1>4, <1>5, <1>6, <1>7 DEF ProxyInv

\* The parent closes its copy of the socket.
LEMMA CloseClientStep ==
    ASSUME ProxyInv, CloseClient PROVE ProxyInv'
<1> DEFINE d == parent.client
<1>1. /\ parent.pc = "close" /\ parent' = [pc |-> "accept", client |-> "none"]
      /\ holders' = [holders EXCEPT ![d] = @ \ {"parent"}]
      /\ UNCHANGED <<handler, sigchld, conn, child>> /\ UNCHANGED chatVars
  BY DEF CloseClient
<1>2. d \in Clients
  BY <1>1 DEF ProxyInv, ProxyType, ParentInv
<1>3. ProxyType'
  BY <1>1, <1>2 DEF ProxyInv, ProxyType, chatVars
<1>4. ParentInv'
  BY <1>1, <1>2 DEF ProxyInv, ProxyType, ParentInv
<1>5. \A c \in Clients : ChatInv(c)'
  BY <1>1, ChatKept DEF ProxyInv, SameChat, chatVars
<1>6. NoneForgotten'
  BY <1>1 DEF ProxyInv, NoneForgotten, Zombies
<1> QED
  BY <1>3, <1>4, <1>5, <1>6 DEF ProxyInv

\* The SIGCHLD handler starts, and calls waitpid().
LEMMA SignalStep ==
    ASSUME ProxyInv, HandlerStarts \/ Waitpid PROVE ProxyInv'
<1>1. CASE HandlerStarts
  <2>1. /\ handler' = TRUE /\ sigchld' = FALSE
        /\ UNCHANGED <<parent, conn, holders, child>> /\ UNCHANGED chatVars
    BY <1>1 DEF HandlerStarts
  <2>2. ProxyType' /\ NoneForgotten'
    BY <2>1 DEF ProxyInv, ProxyType, chatVars, NoneForgotten
  <2>3. ParentInv'
    BY <2>1 DEF ProxyInv, ParentInv
  <2>4. \A c \in Clients : ChatInv(c)'
    BY <2>1, ChatKept DEF ProxyInv, SameChat, chatVars
  <2> QED
    BY <2>2, <2>3, <2>4 DEF ProxyInv
<1>2. CASE Waitpid
  <2>1. /\ handler /\ UNCHANGED <<parent, sigchld, conn, holders>> /\ UNCHANGED chatVars
        /\ IF Zombies = {} THEN handler' = FALSE /\ child' = child
           ELSE /\ handler' = handler
                /\ \E c \in Zombies : child' = [child EXCEPT ![c] = "reaped"]
    BY <1>2 DEF Waitpid
  <2>2. CASE Zombies = {}
    <3>1. handler' = FALSE /\ child' = child
      BY <2>1, <2>2
    <3>2. ProxyType' /\ NoneForgotten'
      BY <2>1, <2>2, <3>1 DEF ProxyInv, ProxyType, chatVars, NoneForgotten, Zombies
    <3>3. ParentInv'
      BY <2>1, <3>1 DEF ProxyInv, ParentInv
    <3>4. \A c \in Clients : ChatInv(c)'
      BY <2>1, <3>1, ChatKept DEF ProxyInv, SameChat, chatVars
    <3> QED
      BY <3>2, <3>3, <3>4 DEF ProxyInv
  <2>3. CASE Zombies # {}
    <3>1. handler' = handler
      BY <2>1, <2>3
    <3>2. PICK d \in Zombies : child' = [child EXCEPT ![d] = "reaped"]
      BY <2>1, <2>3
    <3>3. d \in Clients /\ child[d] = "zombie"
      BY DEF Zombies
    <3>4. ProxyType' /\ NoneForgotten'
      BY <2>1, <3>1, <3>2, <3>3 DEF ProxyInv, ProxyType, chatVars, NoneForgotten, ChildStates
    <3>5. ParentInv'
      BY <2>1, <3>2, <3>3 DEF ProxyInv, ProxyType, ParentInv
    <3>6. \A c \in Clients : SameChat(c)
      BY <2>1, <3>2, <3>3 DEF ProxyInv, ProxyType, SameChat, chatVars
    <3>7. \A c \in Clients : ChatInv(c)'
      BY <3>6, ChatKept DEF ProxyInv
    <3> QED
      BY <3>4, <3>5, <3>7 DEF ProxyInv
  <2> QED
    BY <2>2, <2>3
<1> QED
  BY <1>1, <1>2

\* A step of the child of d leaves everything else alone.
ChildKeeps(d) ==
    /\ UNCHANGED <<parent, handler, conn, response>>
    /\ child' \in [Clients -> ChildStates] /\ unread' \in [Clients -> Seq(Unit)]
    /\ buffer' \in [Clients -> Seq(Unit)]
    /\ got' \in [Clients -> Seq(Unit \cup {"400", "501"})]
    /\ \A c \in Clients \ {d} : /\ child'[c] = child[c] /\ unread'[c] = unread[c]
                                /\ buffer'[c] = buffer[c] /\ got'[c] = got[c]

\* A step of a child inside chat_with_client().
LEMMA ChildStep ==
    ASSUME ProxyInv, NEW d \in Clients, ChildKeeps(d), UNCHANGED <<sigchld, holders>>,
           child[d] \notin {"none", "zombie", "reaped"},
           child'[d] \notin {"none", "zombie", "reaped"},
           ChatInv(d)'
    PROVE  ProxyInv'
<1>1. ProxyType'
  BY DEF ProxyInv, ProxyType, ChildKeeps
<1>2. ParentInv'
  <2>1. ASSUME NEW c \in Clients
        PROVE  /\ conn'[c] # "accepted" => child'[c] = "none" /\ holders'[c] = {}
               /\ "parent" \in holders'[c] => parent'.client = c
               /\ "child" \in holders'[c] => child'[c] \notin {"none", "zombie", "reaped"}
    BY DEF ProxyInv, ParentInv, ChildKeeps
  <2>2. parent.pc = "fork" => parent.client \in Clients /\ parent.client # d
    BY ProxyAssumption DEF ProxyInv, ProxyType, ParentInv
  <2>3. parent'.pc = "fork" => conn'[parent'.client] = "accepted" /\ child'[parent'.client] = "none"
    BY <2>2 DEF ProxyInv, ParentInv, ChildKeeps
  <2>4. parent'.pc = "accept" <=> parent'.client = "none"
    BY DEF ProxyInv, ParentInv, ChildKeeps
  <2> QED
    BY <2>1, <2>3, <2>4 DEF ParentInv
<1>3. NoneForgotten'
  <2>1. Zombies' = Zombies
    BY DEF Zombies, ChildKeeps
  <2> QED
    BY <2>1 DEF ProxyInv, NoneForgotten, ChildKeeps
<1>4. ASSUME NEW c \in Clients PROVE ChatInv(c)'
  <2>1. CASE c = d
    BY <2>1
  <2>2. CASE c # d
    BY <2>2, ChatKept DEF ProxyInv, ChildKeeps, SameChat
  <2> QED
    BY <2>1, <2>2
<1> QED
  BY <1>1, <1>2, <1>3, <1>4 DEF ProxyInv

\* The types of what a client's child works with.
LEMMA ClientType ==
    ASSUME ProxyInv, NEW d \in Clients
    PROVE  /\ unread[d] \in Seq(Unit) /\ buffer[d] \in Seq(Unit) /\ response[d] \in Seq(Unit)
           /\ got[d] \in Seq(Unit \cup {"400", "501"}) /\ child[d] \in ChildStates
           /\ ChatInv(d)
  BY DEF ProxyInv, ProxyType

\* A child receives part of the request or of the response.
LEMMA ReceiveStep ==
    ASSUME ProxyInv, NEW d \in Clients, NEW from, NEW to, Receive(d, from, to),
           \/ from = "reading" /\ to = "parsing"
           \/ from = "fetching" /\ to = "relaying"
    PROVE  ProxyInv'
<1>1. /\ child[d] = from /\ UNCHANGED <<procVars, sigchld, holders, request, response, got>>
      /\ \/ \E k \in 1 .. Len(unread[d]) :
               /\ buffer' = [buffer EXCEPT ![d] = @ \o SubSeq(unread[d], 1, k)]
               /\ unread' = [unread EXCEPT ![d] = SubSeq(@, k + 1, Len(@))]
               /\ child' = [child EXCEPT ![d] = to] \/ child' = [child EXCEPT ![d] = from]
         \/ child' = [child EXCEPT ![d] = to] /\ UNCHANGED <<buffer, unread>>
         \/ child' = [child EXCEPT ![d] = "exit"] /\ UNCHANGED <<buffer, unread>>
  BY DEF Receive, Goto
<1>2. /\ unread[d] \in Seq(Unit) /\ buffer[d] \in Seq(Unit) /\ ChatInv(d)
      /\ from \in ChildStates /\ to \in ChildStates /\ "exit" \in ChildStates
  BY ClientType DEF ChildStates
<1>3. /\ UNCHANGED <<parent, handler, conn, response>> /\ UNCHANGED <<sigchld, holders>>
      /\ got' = got
  BY <1>1 DEF procVars
<1>4. /\ child' \in [Clients -> ChildStates] /\ child'[d] \in {from, to, "exit"}
      /\ \A c \in Clients \ {d} : child'[c] = child[c]
  <2>1. PICK s \in {from, to, "exit"} : child' = [child EXCEPT ![d] = s]
    BY <1>1
  <2>2. s \in ChildStates /\ child \in [Clients -> ChildStates]
    BY <1>2 DEF ProxyInv, ProxyType
  <2> QED
    BY <2>1, <2>2
<1>5. /\ unread' \in [Clients -> Seq(Unit)] /\ buffer' \in [Clients -> Seq(Unit)]
      /\ buffer'[d] \o unread'[d] = buffer[d] \o unread[d]
      /\ \A c \in Clients \ {d} : unread'[c] = unread[c] /\ buffer'[c] = buffer[c]
  <2>1. CASE UNCHANGED <<buffer, unread>>
    BY <2>1 DEF ProxyInv, ProxyType
  <2>2. ASSUME NEW k \in 1 .. Len(unread[d]),
               buffer' = [buffer EXCEPT ![d] = @ \o SubSeq(unread[d], 1, k)],
               unread' = [unread EXCEPT ![d] = SubSeq(@, k + 1, Len(@))]
        PROVE  /\ unread' \in [Clients -> Seq(Unit)] /\ buffer' \in [Clients -> Seq(Unit)]
               /\ buffer'[d] \o unread'[d] = buffer[d] \o unread[d]
               /\ \A c \in Clients \ {d} : unread'[c] = unread[c] /\ buffer'[c] = buffer[c]
    <3>1. PICK u : u = unread[d]
      OBVIOUS
    <3>2. PICK a : a = SubSeq(u, 1, k)
      OBVIOUS
    <3>3. PICK b : b = SubSeq(u, k + 1, Len(u))
      OBVIOUS
    <3>4. a \in Seq(Unit) /\ b \in Seq(Unit) /\ a \o b = u
      BY <1>2, <3>1, <3>2, <3>3, Cut
    <3>5. buffer[d] \o a \in Seq(Unit) /\ (buffer[d] \o a) \o b = buffer[d] \o u
      <4>1. buffer[d] \in Seq(Unit) /\ a \in Seq(Unit) /\ b \in Seq(Unit)
        BY <1>2, <3>4
      <4>2. buffer[d] \o a \in Seq(Unit) /\ (buffer[d] \o a) \o b = buffer[d] \o (a \o b)
        BY <4>1, Regroup
      <4> QED
        BY <3>4, <4>2
    <3>6. /\ buffer' = [buffer EXCEPT ![d] = buffer[d] \o a]
          /\ unread' = [unread EXCEPT ![d] = b]
      BY <2>2, <3>1, <3>2, <3>3
    <3>7. buffer'[d] = buffer[d] \o a /\ unread'[d] = b
      BY <3>6 DEF ProxyInv, ProxyType
    <3>8. /\ unread' \in [Clients -> Seq(Unit)] /\ buffer' \in [Clients -> Seq(Unit)]
          /\ \A c \in Clients \ {d} : unread'[c] = unread[c] /\ buffer'[c] = buffer[c]
      BY <3>4, <3>5, <3>6 DEF ProxyInv, ProxyType
    <3> QED
      BY <3>1, <3>5, <3>7, <3>8
  <2> QED
    BY <1>1, <2>1, <2>2
<1>6. ChildKeeps(d)
  BY <1>3, <1>4, <1>5 DEF ChildKeeps, ProxyInv, ProxyType
<1>7. ChatInv(d)'
  <2>1. got[d] = <<>>
    BY <1>1, <1>2 DEF ChatInv
  <2>2. CASE from = "reading"
    BY <1>3, <1>4, <2>1, <2>2 DEF ChatInv, ErrorReplies
  <2>3. CASE from = "fetching"
    <3>1. buffer'[d] \o unread'[d] = response'[d]
      BY <1>1, <1>2, <1>3, <1>5, <2>3 DEF ChatInv
    <3>2. got'[d] = <<>> /\ <<>> \in Seq(Unit)
      BY <1>3, <2>1, SMTT(30)
    <3>3. got'[d] \o (buffer'[d] \o unread'[d]) = response'[d]
      <4>1. buffer'[d] \o unread'[d] \in Seq(Unit)
        BY <1>2, <1>5, SMTT(30)
      <4> QED
        BY <3>1, <3>2, <4>1, SMTT(30)
    <3> QED
      BY <1>4, <2>3, <3>1, <3>2, <3>3 DEF ChatInv, ErrorReplies
  <2> QED
    BY <2>2, <2>3
<1> QED
  BY <1>1, <1>3, <1>4, <1>6, <1>7, ChildStep

\* A child parses its request.
LEMMA ParseStep ==
    ASSUME ProxyInv, NEW d \in Clients, Parse(d) PROVE ProxyInv'
<1>1. /\ child[d] = "parsing" /\ UNCHANGED <<parent, handler, conn, response>>
      /\ UNCHANGED <<sigchld, holders>> /\ unread' = unread
      /\ buffer' = [buffer EXCEPT ![d] = <<>>]
      /\ \/ child' = [child EXCEPT ![d] = "connecting"] /\ got' = got
         \/ /\ child' = [child EXCEPT ![d] = "exit"]
            /\ \/ got' = got
               \/ \E v \in {"400", "501"} : got' = [got EXCEPT ![d] = <<v>>]
  BY DEF Parse, Goto, procVars
<1>2. got[d] = <<>>
  BY <1>1, ClientType DEF ChatInv
<1>3. /\ child' \in [Clients -> ChildStates] /\ child'[d] \in {"connecting", "exit"}
      /\ \A c \in Clients \ {d} : child'[c] = child[c]
  <2>1. PICK s \in {"connecting", "exit"} : child' = [child EXCEPT ![d] = s]
    BY <1>1
  <2>2. s \in ChildStates /\ child \in [Clients -> ChildStates]
    BY DEF ProxyInv, ProxyType, ChildStates
  <2> QED
    BY <2>1, <2>2
<1>4. /\ buffer' \in [Clients -> Seq(Unit)] /\ buffer'[d] = <<>>
      /\ \A c \in Clients \ {d} : buffer'[c] = buffer[c]
  <2>1. <<>> \in Seq(Unit) /\ buffer \in [Clients -> Seq(Unit)]
    BY SMTT(30) DEF ProxyInv, ProxyType
  <2> QED
    BY <1>1, <2>1
<1>5. /\ got' \in [Clients -> Seq(Unit \cup {"400", "501"})]
      /\ \A c \in Clients \ {d} : got'[c] = got[c]
      /\ got'[d] \in ErrorReplies /\ (child'[d] = "connecting" => got'[d] = <<>>)
  <2>1. got \in [Clients -> Seq(Unit \cup {"400", "501"})] /\ child \in [Clients -> ChildStates]
    BY DEF ProxyInv, ProxyType
  <2>2. CASE got' = got
    BY <1>2, <2>1, <2>2 DEF ErrorReplies
  <2>3. ASSUME NEW v \in {"400", "501"}, got' = [got EXCEPT ![d] = <<v>>],
               child' = [child EXCEPT ![d] = "exit"]
        PROVE  /\ got' \in [Clients -> Seq(Unit \cup {"400", "501"})]
               /\ \A c \in Clients \ {d} : got'[c] = got[c]
               /\ got'[d] \in ErrorReplies /\ child'[d] = "exit"
    <3>1. <<v>> \in Seq(Unit \cup {"400", "501"}) /\ <<v>> \in ErrorReplies
      BY SMTT(30) DEF ErrorReplies
    <3> QED
      BY <2>1, <2>3, <3>1
  <2> QED
    BY <1>1, <2>2, <2>3
<1>6. ChildKeeps(d)
  BY <1>1, <1>3, <1>4, <1>5 DEF ChildKeeps, ProxyInv, ProxyType
<1>7. ChatInv(d)'
  BY <1>3, <1>4, <1>5 DEF ChatInv
<1> QED
  BY <1>1, <1>3, <1>6, <1>7, ChildStep

\* A child connects to the server, or fails to.
LEMMA ConnectStep ==
    ASSUME ProxyInv, NEW d \in Clients, Connect(d) PROVE ProxyInv'
<1>1. /\ child[d] = "connecting" /\ UNCHANGED <<parent, handler, conn, response>>
      /\ UNCHANGED <<sigchld, holders>> /\ UNCHANGED <<buffer, got>>
      /\ \/ /\ child' = [child EXCEPT ![d] = "fetching"]
            /\ unread' = [unread EXCEPT ![d] = response[d]]
         \/ child' = [child EXCEPT ![d] = "exit"] /\ unread' = unread
  BY DEF Connect, Goto, procVars
<1>2. /\ got[d] = <<>> /\ buffer[d] = <<>> /\ response[d] \in Seq(Unit)
  BY <1>1, ClientType DEF ChatInv
<1>3. /\ child' \in [Clients -> ChildStates] /\ unread' \in [Clients -> Seq(Unit)]
      /\ \/ child'[d] = "fetching" /\ unread'[d] = response[d]
         \/ child'[d] = "exit"
      /\ \A c \in Clients \ {d} : child'[c] = child[c] /\ unread'[c] = unread[c]
  <2>1. /\ "fetching" \in ChildStates /\ "exit" \in ChildStates
        /\ child \in [Clients -> ChildStates] /\ unread \in [Clients -> Seq(Unit)]
    BY DEF ProxyInv, ProxyType, ChildStates
  <2> QED
    BY <1>1, <1>2, <2>1
<1>4. ChildKeeps(d)
  BY <1>1, <1>3 DEF ChildKeeps, ProxyInv, ProxyType
<1>5. ChatInv(d)'
  <2>1. child'[d] = "fetching" => buffer'[d] \o unread'[d] = response'[d]
    BY <1>1, <1>2, <1>3, SMTT(30)
  <2> QED
    BY <1>1, <1>2, <1>3, <2>1 DEF ChatInv, ErrorReplies
<1> QED
  BY <1>1, <1>3, <1>4, <1>5, ChildStep

\* A child sends part of its buffer to the client.
LEMMA RelayStep ==
    ASSUME ProxyInv, NEW d \in Clients, Relay(d) PROVE ProxyInv'
<1>1. /\ child[d] = "relaying" /\ UNCHANGED <<parent, handler, conn, response>>
      /\ UNCHANGED <<sigchld, holders>> /\ unread' = unread
      /\ \/ \E k \in 1 .. Len(buffer[d]) :
               /\ got' = [got EXCEPT ![d] = @ \o SubSeq(buffer[d], 1, k)]
               /\ buffer' = [buffer EXCEPT ![d] = SubSeq(@, k + 1, Len(@))]
               /\ child' = child
         \/ child' = [child EXCEPT ![d] = "relayed"] /\ UNCHANGED <<got, buffer>>
         \/ child' = [child EXCEPT ![d] = "exit"] /\ UNCHANGED <<got, buffer>>
  BY DEF Relay, Goto, procVars
<1>2. /\ got[d] \in Seq(Unit) /\ buffer[d] \in Seq(Unit) /\ unread[d] \in Seq(Unit)
      /\ got[d] \o (buffer[d] \o unread[d]) = response[d]
  BY <1>1, ClientType DEF ChatInv
<1>3. ASSUME NEW k \in 1 .. Len(buffer[d]),
             got' = [got EXCEPT ![d] = @ \o SubSeq(buffer[d], 1, k)],
             buffer' = [buffer EXCEPT ![d] = SubSeq(@, k + 1, Len(@))],
             child' = child
      PROVE  ProxyInv'
  <2>1. PICK q : q = buffer[d]
    OBVIOUS
  <2>2. PICK a : a = SubSeq(q, 1, k)
    OBVIOUS
  <2>3. PICK b : b = SubSeq(q, k + 1, Len(q))
    OBVIOUS
  <2>4. a \in Seq(Unit) /\ b \in Seq(Unit) /\ a \o b = q
    BY <1>2, <1>3, <2>1, <2>2, <2>3, Cut
  <2>5. /\ got' = [got EXCEPT ![d] = got[d] \o a]
        /\ buffer' = [buffer EXCEPT ![d] = b]
    BY <1>3, <2>1, <2>2, <2>3
  <2>6. /\ got[d] \o a \in Seq(Unit)
        /\ (got[d] \o a) \o (b \o unread[d]) = response[d]
    <3>1. PICK g, u : g = got[d] /\ u = unread[d]
      OBVIOUS
    <3>2. /\ a \in Seq(Unit) /\ b \in Seq(Unit)
          /\ g \in Seq(Unit) /\ u \in Seq(Unit)
      BY <1>2, <2>4, <3>1
    <3>3. (a \o b) \o u = a \o (b \o u)
      BY ONLY <3>2, SMTT(20)
    <3>4. b \o u \in Seq(Unit)
      BY <3>2, Regroup
    <3>5. g \o a \in Seq(Unit) /\ (g \o a) \o (b \o u) = g \o (a \o (b \o u))
      BY ONLY <3>2, <3>4, SMTT(20)
    <3> QED
      BY <1>2, <2>1, <2>4, <3>1, <3>3, <3>5
  <2>7. got[d] \o a \in Seq(Unit \cup {"400", "501"})
    BY <2>6, SMTT(30)
  <2>8. /\ got' \in [Clients -> Seq(Unit \cup {"400", "501"})]
        /\ buffer' \in [Clients -> Seq(Unit)]
        /\ got'[d] = got[d] \o a /\ buffer'[d] = b
        /\ \A c \in Clients \ {d} : got'[c] = got[c] /\ buffer'[c] = buffer[c]
    BY <2>4, <2>5, <2>7 DEF ProxyInv, ProxyType
  <2>9. ChildKeeps(d)
    BY <1>1, <1>3, <2>8 DEF ChildKeeps, ProxyInv, ProxyType
  <2>10. ChatInv(d)'
    <3>1. child'[d] = "relaying" /\ unread'[d] = unread[d] /\ response'[d] = response[d]
      BY <1>1, <1>3
    <3>2. got'[d] \in Seq(Unit) /\ got'[d] \o (buffer'[d] \o unread'[d]) = response'[d]
      BY <2>6, <2>8, <3>1
    <3> QED
      BY <3>1, <3>2 DEF ChatInv
  <2> QED
    BY <1>1, <1>3, <2>9, <2>10, ChildStep
<1>4. ASSUME NEW s \in {"relayed", "exit"}, child' = [child EXCEPT ![d] = s],
             UNCHANGED <<got, buffer>>
      PROVE  ProxyInv'
  <2>1. /\ child' \in [Clients -> ChildStates] /\ child'[d] = s
        /\ \A c \in Clients \ {d} : child'[c] = child[c]
    <3>1. s \in ChildStates /\ child \in [Clients -> ChildStates]
      BY DEF ProxyInv, ProxyType, ChildStates
    <3> QED
      BY <1>4, <3>1
  <2>2. ChildKeeps(d)
    BY <1>1, <1>4, <2>1 DEF ChildKeeps, ProxyInv, ProxyType
  <2>3. IsPrefix(got[d], response[d])
    <3>1. buffer[d] \o unread[d] \in Seq(Unit)
      BY <1>2, SMTT(30)
    <3>2. IsPrefix(got[d], got[d] \o (buffer[d] \o unread[d]))
      BY <1>2, <3>1, PrefixOf
    <3> QED
      BY <1>2, <3>2
  <2>4. got'[d] = got[d] /\ response'[d] = response[d]
    BY <1>1, <1>4
  <2>5. ChatInv(d)'
    BY <2>1, <2>3, <2>4 DEF ChatInv
  <2> QED
    BY <1>1, <1>4, <2>1, <2>2, <2>5, ChildStep
<1> QED
  BY <1>1, <1>3, <1>4

\* A child exits.
LEMMA ExitStep ==
    ASSUME ProxyInv, NEW d \in Clients, Exit(d) PROVE ProxyInv'
<1>1. /\ child[d] \in {"exit", "relayed"}
      /\ holders' = [holders EXCEPT ![d] = holders[d] \ {"child"}]
      /\ child' = [child EXCEPT ![d] = "zombie"] /\ sigchld' = TRUE
      /\ UNCHANGED <<parent, handler, conn>>
      /\ UNCHANGED <<unread, response, buffer, got>>
  BY DEF Exit, Goto, procVars, chatVars
<1>2. /\ child \in [Clients -> ChildStates]
      /\ holders \in [Clients -> SUBSET {"parent", "child"}]
  BY DEF ProxyInv, ProxyType
<1>3. /\ child' \in [Clients -> ChildStates] /\ child'[d] = "zombie"
      /\ \A c \in Clients \ {d} : child'[c] = child[c]
  BY <1>1, <1>2 DEF ChildStates
<1>4. /\ holders' \in [Clients -> SUBSET {"parent", "child"}]
      /\ holders'[d] = holders[d] \ {"child"}
      /\ \A c \in Clients \ {d} : holders'[c] = holders[c]
  <2>1. holders[d] \ {"child"} \in SUBSET {"parent", "child"}
    BY <1>2
  <2> QED
    BY <1>1, <1>2, <2>1
<1>5. ProxyType'
  BY <1>1, <1>3, <1>4 DEF ProxyInv, ProxyType
<1>6. ParentInv'
  <2>1. conn[d] = "accepted" /\ child[d] # "none"
    BY <1>1 DEF ProxyInv, ParentInv
  <2>2. parent.pc = "fork" => conn[parent.client] = "accepted" /\ child[parent.client] = "none"
    BY DEF ProxyInv, ParentInv
  <2>3. parent.pc = "fork" => child'[parent.client] = "none"
    <3>1. parent.client \in Clients \cup {"none"}
      BY DEF ProxyInv, ProxyType
    <3>2. parent.pc = "fork" => parent.client \in Clients \ {d}
      BY <2>1, <2>2, <3>1 DEF ProxyInv, ParentInv
    <3> QED
      BY <1>3, <2>2, <3>2
  <2>4. ASSUME NEW c \in Clients
        PROVE  /\ conn'[c] # "accepted" => child'[c] = "none" /\ holders'[c] = {}
               /\ "parent" \in holders'[c] => parent'.client = c
               /\ "child" \in holders'[c] => child'[c] \notin {"none", "zombie", "reaped"}
    <3>1. CASE c = d
      BY <1>1, <1>3, <1>4, <2>1, <3>1 DEF ProxyInv, ParentInv
    <3>2. CASE c # d
      BY <1>1, <1>3, <1>4, <3>2 DEF ProxyInv, ParentInv
    <3> QED
      BY <3>1, <3>2
  <2>5. parent' = parent /\ conn' = conn /\ (parent.pc = "accept" <=> parent.client = "none")
    BY <1>1 DEF ProxyInv, ParentInv
  <2> QED
    BY <2>2, <2>3, <2>4, <2>5 DEF ParentInv
<1>7. NoneForgotten'
  BY <1>1 DEF NoneForgotten
<1>8. ASSUME NEW c \in Clients PROVE ChatInv(c)'
  <2>1. CASE c = d
    BY <1>1, <1>3, <2>1 DEF ProxyInv, ChatInv
  <2>2. CASE c # d
    BY <1>1, <1>3, <2>2 DEF ProxyInv, ChatInv
  <2> QED
    BY <2>1, <2>2
<1> QED
  BY <1>5, <1>6, <1>7, <1>8 DEF ProxyInv

\* A step that changes nothing keeps the invariant.
LEMMA ProxyStutters ==
    ASSUME ProxyInv, UNCHANGED vars PROVE ProxyInv'
  BY DEF ProxyInv, ProxyType, ParentInv, NoneForgotten, Zombies, ChatInv, vars, chatVars

\* Every step keeps the invariant.
LEMMA ProxyStep ==
    ASSUME ProxyInv, [Next]_vars PROVE ProxyInv'
<1>1. CASE Parent
  BY <1>1, AcceptStep, ForkStep, CloseClientStep, SignalStep DEF Parent
<1>2. ASSUME NEW c \in Clients, ClientConnects(c) \/ Child(c) PROVE ProxyInv'
  BY <1>2, ConnectsStep, ReceiveStep, ParseStep, ConnectStep, RelayStep, ExitStep
     DEF Child, ReceiveRequest, ReceiveResponse
<1> QED
  BY <1>1, <1>2, ProxyStutters DEF Next

-----------------------------------------------------------------------------
(* The theorems.                                                           *)

\* The processes of the proxy keep to their types, each child's buffer and its
\* client's copy make up the response, and the parent holds one socket at a time.
THEOREM ProxyInvariance == Spec => []ProxyInv
  BY InitProxy, ProxyStep, PTL DEF Spec

\* However recv() and send() in chat_with_client() cut what they move, the client
\* receives the response from its beginning and without gaps, or an error message.
THEOREM ResponseInOrder == Spec => []RelayedInOrder
<1>1. ProxyInv => RelayedInOrder
  <2> SUFFICES ASSUME ProxyInv, NEW c \in Clients
               PROVE  got[c] \in {<<>>, <<"400">>, <<"501">>} \/ IsPrefix(got[c], response[c])
    BY DEF RelayedInOrder
  <2>1. ChatInv(c) /\ child[c] \in ChildStates
    BY DEF ProxyInv, ProxyType
  <2>2. CASE child[c] = "relaying"
    <3>1. /\ got[c] \in Seq(Unit) /\ buffer[c] \in Seq(Unit) /\ unread[c] \in Seq(Unit)
          /\ got[c] \o (buffer[c] \o unread[c]) = response[c]
      BY <2>1, <2>2 DEF ChatInv, ProxyInv, ProxyType
    <3>2. buffer[c] \o unread[c] \in Seq(Unit)
      BY <3>1, Regroup
    <3>3. IsPrefix(got[c], got[c] \o (buffer[c] \o unread[c]))
      BY <3>1, <3>2, PrefixOf
    <3> QED
      BY <3>1, <3>3
  <2>3. CASE child[c] # "relaying"
    BY <2>1, <2>3 DEF ChatInv, ChildStates, ErrorReplies
  <2> QED
    BY <2>2, <2>3
<1> QED
  BY <1>1, ProxyInvariance, PTL

\* The loop over waitpid() in the SIGCHLD handler leaves no dead child behind,
\* although the deaths of several children make one signal.
THEOREM NoChildForgotten == Spec => []NoneForgotten
<1>1. ProxyInv => NoneForgotten
  BY DEF ProxyInv
<1> QED
  BY <1>1, ProxyInvariance, PTL

\* Between them close() in start_proxy() and the exit of the child leave no copy
\* of a client's socket open that nobody uses.
THEOREM SocketsClosed == Spec => []NoSocketKept
<1>1. ProxyInv => NoSocketKept
  BY DEF ProxyInv, ParentInv, NoSocketKept
<1> QED
  BY <1>1, ProxyInvariance, PTL
-----------------------------------------------------------------------------
(* The parse object: module ParsedRequest.                                 *)

HeaderType ==
    /\ headers \in Seq(Header)
    /\ headerslen \in Nat
    /\ meant \in [Keys -> Values \cup {NULL}]

\* There is always a free slot, which is more than InBounds says.
HeaderInv == HeaderType /\ Len(headers) < headerslen /\ IsMap

\* The headers that have not been removed, and the blocks of such headers.
Live == {i \in 1 .. Len(headers) : headers[i].key # NULL}

Blocks(S) == UNION {Slot(i) : i \in S}

\* What is allocated besides the keys and values of the headers.
Frame ==
    Object \cup ({buf, path} \ {Nil}) \cup (IF pc = "headers" THEN {Tmp} ELSE {})

HeaderLine == [key : Keys \ {Joined}, value : Values] \cup {NoColon}

\* The object owns exactly the blocks that ParsedRequest_destroy() frees, and a
\* temporary one while headers are parsed; buf and path come and go together.
RequestInv ==
    /\ pc \in {"created", "headers", "failed", "parsed", "destroyed"}
    /\ (buf = Nil /\ path = Nil) \/ (buf = Buf /\ path = Path)
    /\ rest \in Seq(HeaderLine)
    /\ pc # "destroyed" => HeaderInv /\ heap = Frame \cup Blocks(Live)
    /\ pc = "destroyed" => /\ HeaderType /\ IsMap /\ heap = {}
                           /\ headers = <<>> /\ headerslen = 0
    /\ fault = FALSE

-----------------------------------------------------------------------------
(* The table.                                                              *)

\* Removing a key leaves the other headers in place and the key nowhere.
LEMMA WithoutFacts ==
    ASSUME headers \in Seq(Header), NEW k \in Keys, IsMap
    PROVE  /\ Without(k) \in Seq(Header) /\ Len(Without(k)) = Len(headers)
           /\ \A i \in 1 .. Len(headers) :
                 IF headers[i].key = k THEN Without(k)[i].key = NULL
                 ELSE Without(k)[i] = headers[i]
<1>1. /\ Len(headers) \in Nat
      /\ \A i \in 1 .. Len(headers) : headers[i] \in Header
  BY SMTT(30)
<1>2. \A i \in 1 .. Len(headers) :
         [headers[i] EXCEPT !.key = NULL] \in Header /\ [headers[i] EXCEPT !.key = NULL].key = NULL
  BY <1>1 DEF Header
<1>3. Without(k) \in Seq(Header) /\ Len(Without(k)) = Len(headers)
  BY <1>1, <1>2, SMTT(30) DEF Without
<1>4. ASSUME NEW i \in 1 .. Len(headers), headers[i].key = k PROVE IsSlotOf(i, k)
  BY <1>1, <1>4, SMTT(30) DEF IsMap, IsSlotOf
<1>5. ASSUME NEW i \in 1 .. Len(headers)
      PROVE  IF headers[i].key = k THEN Without(k)[i].key = NULL
             ELSE Without(k)[i] = headers[i]
  <2>1. Without(k)[i] = IF IsSlotOf(i, k) THEN [headers[i] EXCEPT !.key = NULL]
                        ELSE headers[i]
    BY DEF Without
  <2>2. CASE headers[i].key = k
    BY <1>2, <1>4, <2>1, <2>2
  <2>3. CASE headers[i].key # k
    BY <2>1, <2>3 DEF IsSlotOf
  <2> QED
    BY <2>2, <2>3
<1> QED
  BY <1>3, <1>5

\* ParsedHeader_remove() preserves the invariant.
LEMMA RemoveStep ==
    ASSUME HeaderInv, NEW k \in Keys, HeaderRemove(k) PROVE HeaderInv'
<1> DEFINE w == Without(k)
<1>1. /\ headers' = w /\ headerslen' = headerslen
      /\ meant' = [meant EXCEPT ![k] = NULL]
  BY DEF HeaderRemove
<1>2. /\ w \in Seq(Header) /\ Len(w) = Len(headers) /\ Len(headers) \in Nat
      /\ \A i \in 1 .. Len(headers) :
            IF headers[i].key = k THEN w[i].key = NULL ELSE w[i] = headers[i]
  BY WithoutFacts, SMTT(30) DEF HeaderInv, HeaderType
<1> HIDE DEF w
<1>3. /\ meant' \in [Keys -> Values \cup {NULL}] /\ meant'[k] = NULL
      /\ \A m \in Keys : m # k => meant'[m] = meant[m]
  BY <1>1 DEF HeaderInv, HeaderType
<1>4. HeaderType' /\ (Len(headers) < headerslen)'
  BY <1>1, <1>2, <1>3 DEF HeaderInv, HeaderType
<1>5. ASSUME NEW m \in Keys, NEW i \in 1 .. Len(w), w[i].key = m
      PROVE  m # k /\ headers[i].key = m /\ w[i] = headers[i]
  BY <1>2, <1>5, HeaderAssumption
<1>6. IsMap'
  <2> SUFFICES ASSUME NEW m \in Keys
               PROVE  /\ \A i \in 1 .. Len(w) : w[i].key = m => w[i].value = meant'[m]
                      /\ \A i, j \in 1 .. Len(w) : w[i].key = m /\ w[j].key = m => i = j
                      /\ meant'[m] # NULL => \E i \in 1 .. Len(w) : w[i].key = m
    BY <1>1, SMTT(30) DEF IsMap
  <2>1. \A i \in 1 .. Len(w) : w[i].key = m => w[i].value = meant'[m]
    BY <1>2, <1>3, <1>5, SMTT(30) DEF HeaderInv, IsMap
  <2>2. \A i, j \in 1 .. Len(w) : w[i].key = m /\ w[j].key = m => i = j
    BY <1>2, <1>5, SMTT(30) DEF HeaderInv, IsMap
  <2>3. ASSUME meant'[m] # NULL PROVE \E i \in 1 .. Len(w) : w[i].key = m
    <3>1. m # k /\ meant[m] # NULL
      BY <1>3, <2>3
    <3>2. PICK i \in 1 .. Len(headers) : headers[i].key = m
      BY <3>1 DEF HeaderInv, IsMap
    <3> QED
      BY <1>2, <3>1, <3>2
  <2> QED
    BY <2>1, <2>2, <2>3
<1> QED
  BY <1>4, <1>6 DEF HeaderInv

\* ParsedHeader_set() preserves the invariant.
LEMMA SetStep ==
    ASSUME HeaderInv, NEW k \in Keys, NEW v \in Values, HeaderSet(k, v) PROVE HeaderInv'
<1> DEFINE w == Without(k)
           h == [key |-> k, value |-> v]
           n == Len(headers)
           s == Append(w, h)
<1>1. /\ headers' = s
      /\ headerslen' = IF headerslen <= n + 1 THEN headerslen * 2 ELSE headerslen
      /\ meant' = [meant EXCEPT ![k] = v]
  BY DEF HeaderSet
<1>2. /\ w \in Seq(Header) /\ Len(w) = n /\ n \in Nat
      /\ \A i \in 1 .. n :
            IF headers[i].key = k THEN w[i].key = NULL ELSE w[i] = headers[i]
  BY WithoutFacts, SMTT(30) DEF HeaderInv, HeaderType
<1>3. h \in Header /\ h.key = k /\ h.value = v
  BY DEF Header
<1> HIDE DEF w, h, n
<1>4. /\ s \in Seq(Header) /\ Len(s) = n + 1 /\ s[n + 1] = h
      /\ \A i \in 1 .. n : s[i] = w[i]
  BY <1>2, <1>3, SMTT(30)
<1> HIDE DEF s
<1>5. /\ meant' \in [Keys -> Values \cup {NULL}] /\ meant'[k] = v
      /\ \A m \in Keys : m # k => meant'[m] = meant[m]
  BY <1>1 DEF HeaderInv, HeaderType
<1>6. headerslen \in Nat /\ n < headerslen
  BY DEF HeaderInv, HeaderType, n
<1>7. headerslen' \in Nat /\ n + 1 < headerslen'
  BY <1>1, <1>2, <1>6, SMTT(30)
<1>8. HeaderType' /\ (Len(headers) < headerslen)'
  BY <1>1, <1>4, <1>5, <1>7 DEF HeaderType
<1>9. ASSUME NEW m \in Keys, NEW i \in 1 .. n + 1, s[i].key = m
      PROVE  \/ i = n + 1 /\ m = k /\ s[i] = h
             \/ i \in 1 .. n /\ m # k /\ headers[i].key = m /\ s[i] = headers[i]
  <2>1. CASE i = n + 1
    BY <1>3, <1>4, <1>9, <2>1
  <2>2. CASE i \in 1 .. n
    BY <1>2, <1>4, <1>9, <2>2, HeaderAssumption
  <2> QED
    BY <1>2, <2>1, <2>2, SMTT(30)
<1>10. IsMap'
  <2> SUFFICES ASSUME NEW m \in Keys
               PROVE  /\ \A i \in 1 .. n + 1 : s[i].key = m => s[i].value = meant'[m]
                      /\ \A i, j \in 1 .. n + 1 : s[i].key = m /\ s[j].key = m => i = j
                      /\ meant'[m] # NULL => \E i \in 1 .. n + 1 : s[i].key = m
    BY <1>1, <1>4, SMTT(30) DEF IsMap
  <2>1. ASSUME NEW i \in 1 .. n + 1, s[i].key = m PROVE s[i].value = meant'[m]
    BY <1>3, <1>5, <1>9, <2>1, SMTT(30) DEF HeaderInv, IsMap, n
  <2>2. ASSUME NEW i \in 1 .. n + 1, NEW j \in 1 .. n + 1, s[i].key = m, s[j].key = m
        PROVE  i = j
    BY <1>9, <2>2, SMTT(30) DEF HeaderInv, IsMap, n
  <2>3. ASSUME meant'[m] # NULL PROVE \E i \in 1 .. n + 1 : s[i].key = m
    <3>1. CASE m = k
      BY <1>2, <1>3, <1>4, <3>1, SMTT(30)
    <3>2. CASE m # k
      <4>1. PICK i \in 1 .. n : headers[i].key = m
        BY <1>5, <2>3, <3>2 DEF HeaderInv, IsMap, n
      <4> QED
        BY <1>2, <1>4, <3>2, <4>1, SMTT(30)
    <3> QED
      BY <3>1, <3>2
  <2> QED
    BY <2>1, <2>2, <2>3
<1> QED
  BY <1>8, <1>10 DEF HeaderInv

-----------------------------------------------------------------------------
(* Memory.                                                                 *)

\* The blocks of a set of headers.
LEMMA InBlocks ==
    ASSUME NEW S, NEW x
    PROVE  x \in Blocks(S) <=> \E i \in S : x = <<"key", i>> \/ x = <<"value", i>>
  BY DEF Blocks, Slot

\* The blocks of different headers are different.
LEMMA BlockFacts ==
    ASSUME NEW S, NEW T
    PROVE  /\ Blocks(S) \ Blocks(T) = Blocks(S \ T)
           /\ Blocks(S) \cup Blocks(T) = Blocks(S \cup T)
           /\ T \subseteq S => Blocks(T) \subseteq Blocks(S)
           /\ Blocks({}) = {}
<1>1. ASSUME NEW x
      PROVE  /\ x \in Blocks(S) \ Blocks(T) <=> x \in Blocks(S \ T)
             /\ x \in Blocks(S) \/ x \in Blocks(T) <=> x \in Blocks(S \cup T)
             /\ T \subseteq S /\ x \in Blocks(T) => x \in Blocks(S)
             /\ x \notin Blocks({})
  <2> DEFINE Of(i) == x = <<"key", i>> \/ x = <<"value", i>>
  <2>1. /\ x \in Blocks(S) <=> \E i \in S : Of(i)
        /\ x \in Blocks(T) <=> \E i \in T : Of(i)
        /\ x \in Blocks(S \ T) <=> \E i \in S \ T : Of(i)
        /\ x \in Blocks(S \cup T) <=> \E i \in S \cup T : Of(i)
        /\ x \in Blocks({}) <=> \E i \in {} : Of(i)
    <3>1. x \in Blocks(S) <=> \E i \in S : Of(i)
      BY InBlocks, SMTT(30)
    <3>2. x \in Blocks(T) <=> \E i \in T : Of(i)
      BY InBlocks, SMTT(30)
    <3>3. x \in Blocks(S \ T) <=> \E i \in S \ T : Of(i)
      BY InBlocks, SMTT(30)
    <3>4. x \in Blocks(S \cup T) <=> \E i \in S \cup T : Of(i)
      BY InBlocks, SMTT(30)
    <3>5. x \in Blocks({}) <=> \E i \in {} : Of(i)
      BY InBlocks, SMTT(30)
    <3> QED
      BY <3>1, <3>2, <3>3, <3>4, <3>5
  <2>2. \A i, j : Of(i) /\ Of(j) => i = j
    BY SMTT(30)
  <2> HIDE DEF Of
  <2> QED
    BY ONLY <2>1, <2>2
<1> QED
  BY <1>1

\* The other blocks of the object are not those of headers.
LEMMA FrameApart ==
    ASSUME NEW S, NEW x \in Object \cup {Buf, Path, Tmp, Nil} PROVE x \notin Blocks(S)
<1>1. \A i : x # <<"key", i>> /\ x # <<"value", i>>
  BY SMTT(30) DEF Object, Buf, Path, Tmp, Nil
<1> QED
  BY <1>1 DEF Blocks, Slot

\* The blocks of the object are all different.
LEMMA FrameFacts ==
    /\ Buf # Nil /\ Path # Nil /\ Tmp # Nil /\ Buf # Path /\ Tmp # Buf /\ Tmp # Path
    /\ Object \cap {Buf, Path, Tmp, Nil} = {}
  BY SMTT(30) DEF Object, Buf, Path, Tmp, Nil

\* ParsedHeader_remove() frees the blocks of one live header, or none.
LEMMA RemovedFacts ==
    ASSUME HeaderInv, NEW k \in Keys
    PROVE  \E R \in SUBSET Live :
              /\ Removed(k) = Blocks(R)
              /\ \A i \in 1 .. Len(headers) : i \in R <=> headers[i].key = k
<1> DEFINE R == {i \in 1 .. Len(headers) : IsSlotOf(i, k)}
<1>1. Removed(k) = Blocks(R)
  BY DEF Removed, Blocks
<1>2. ASSUME NEW i \in 1 .. Len(headers) PROVE i \in R <=> headers[i].key = k
  <2>1. Len(headers) \in Nat /\ i \in Nat /\ i <= Len(headers)
    BY SMTT(30) DEF HeaderInv, HeaderType
  <2>2. IsSlotOf(i, k) => headers[i].key = k
    BY DEF IsSlotOf
  <2>3. ASSUME headers[i].key = k, NEW j \in 1 .. i - 1 PROVE headers[j].key # k
    <3>1. j \in 1 .. Len(headers) /\ j # i
      BY <2>1, SMTT(30)
    <3> QED
      BY <2>3, <3>1 DEF HeaderInv, IsMap
  <2> QED
    BY <2>2, <2>3 DEF IsSlotOf
<1>3. R \subseteq Live
  BY <1>2, HeaderAssumption DEF Live
<1> HIDE DEF R
<1> QED
  BY <1>1, <1>2, <1>3

\* Which headers are live when one was removed, and when one was set.
LEMMA LiveFacts ==
    ASSUME HeaderInv, NEW k \in Keys, NEW R \in SUBSET Live,
           \A i \in 1 .. Len(headers) : i \in R <=> headers[i].key = k
    PROVE  /\ HeaderRemove(k) => Live' = Live \ R
           /\ \A v \in Values : HeaderSet(k, v) => Live' = (Live \ R) \cup {Len(headers) + 1}
<1> DEFINE w == Without(k)
           n == Len(headers)
<1>1. /\ w \in Seq(Header) /\ Len(w) = n /\ n \in Nat
      /\ \A i \in 1 .. n :
            IF headers[i].key = k THEN w[i].key = NULL ELSE w[i] = headers[i]
  BY WithoutFacts, SMTT(30) DEF HeaderInv, HeaderType
<1> HIDE DEF w
<1>2. \A i \in 1 .. n : w[i].key # NULL <=> i \in Live \ R
  BY <1>1 DEF Live
<1>3. ASSUME HeaderRemove(k) PROVE Live' = Live \ R
  <2>1. headers' = w
    BY <1>3 DEF HeaderRemove, w
  <2> QED
    BY <1>1, <1>2, <2>1 DEF Live
<1>4. ASSUME NEW v \in Values, HeaderSet(k, v) PROVE Live' = (Live \ R) \cup {n + 1}
  <2> DEFINE h == [key |-> k, value |-> v]
             s == Append(w, h)
  <2>1. headers' = s
    BY <1>4 DEF HeaderSet, w
  <2>2. h.key # NULL /\ h \in Header
    BY HeaderAssumption DEF Header
  <2> HIDE DEF h
  <2>3. Len(s) = n + 1 /\ s[n + 1] = h /\ \A i \in 1 .. n : s[i] = w[i]
    BY <1>1, <2>2, SMTT(30)
  <2> HIDE DEF s
  <2>4. \A i \in 1 .. n + 1 : s[i].key # NULL <=> i \in (Live \ R) \cup {n + 1}
    BY <1>1, <1>2, <2>2, <2>3, SMTT(30)
  <2>5. Live' = {i \in 1 .. n + 1 : s[i].key # NULL}
    BY <2>1, <2>3 DEF Live
  <2>6. (Live \ R) \cup {n + 1} \subseteq 1 .. n + 1
    BY <1>1, SMTT(30) DEF Live
  <2> QED
    BY <2>4, <2>5, <2>6
<1> QED
  BY <1>3, <1>4

-----------------------------------------------------------------------------
(* The steps.                                                              *)

\* The heap follows the table when headers R go and headers N come.
LEMMA HeapFollows ==
    ASSUME RequestInv, pc # "destroyed", UNCHANGED <<pc, buf, path>>,
           NEW R \in SUBSET Live, NEW N, Live' = (Live \ R) \cup N,
           Reallocate(Blocks(R), Blocks(N))
    PROVE  heap' = Frame' \cup Blocks(Live') /\ fault' = FALSE
<1>1. /\ heap = Frame \cup Blocks(Live) /\ fault = FALSE /\ Frame' = Frame
      /\ fault' = (fault \/ ~(Blocks(R) \subseteq heap))
      /\ heap' = (heap \ Blocks(R)) \cup Blocks(N)
  BY DEF RequestInv, Reallocate, Frame
<1>2. Blocks(R) \subseteq Blocks(Live)
  BY BlockFacts
<1>3. \A x \in Frame : x \notin Blocks(R)
  BY FrameApart DEF Frame, RequestInv
<1>4. Blocks(Live \ R) = Blocks(Live) \ Blocks(R)
  BY BlockFacts
<1>5. Blocks(Live') = Blocks(Live \ R) \cup Blocks(N)
  BY BlockFacts
<1>6. heap' = Frame \cup Blocks(Live')
  BY ONLY <1>1, <1>3, <1>4, <1>5
<1> QED
  BY <1>1, <1>2, <1>6

\* ParsedHeader_set() with its memory.
LEMMA SetHeaderStep ==
    ASSUME RequestInv, pc # "destroyed", NEW k \in Keys, NEW v \in Values, SetHeader(k, v),
           UNCHANGED <<pc, reqVars>>, rest' \in Seq(HeaderLine)
    PROVE  RequestInv'
<1>1. HeaderInv /\ UNCHANGED <<pc, buf, path>>
  BY DEF RequestInv, reqVars
<1>2. HeaderSet(k, v) /\ Reallocate(Removed(k), Slot(Len(headers) + 1))
  BY DEF SetHeader
<1>3. PICK R \in SUBSET Live :
         /\ Removed(k) = Blocks(R)
         /\ \A i \in 1 .. Len(headers) : i \in R <=> headers[i].key = k
  BY <1>1, RemovedFacts
<1>4. Live' = (Live \ R) \cup {Len(headers) + 1}
  BY <1>1, <1>2, <1>3, LiveFacts
<1>5. Slot(Len(headers) + 1) = Blocks({Len(headers) + 1})
  BY DEF Blocks
<1>6. Reallocate(Blocks(R), Blocks({Len(headers) + 1}))
  BY <1>2, <1>3, <1>5
<1>7. heap' = Frame' \cup Blocks(Live') /\ fault' = FALSE
  BY <1>1, <1>4, <1>6, HeapFollows
<1>8. HeaderInv'
  BY <1>1, <1>2, SetStep
<1> QED
  BY <1>1, <1>7, <1>8 DEF RequestInv

\* A caller removes a header.
LEMMA CallerRemovesStep ==
    ASSUME RequestInv, NEW k \in Keys, CallerRemoves(k) PROVE RequestInv'
<1>1. /\ HeaderInv /\ UNCHANGED <<pc, buf, path>> /\ rest' = rest /\ pc # "destroyed"
      /\ HeaderRemove(k) /\ Reallocate(Removed(k), {})
  BY DEF RequestInv, reqVars, CallerRemoves, Ready
<1>2. PICK R \in SUBSET Live :
         /\ Removed(k) = Blocks(R)
         /\ \A i \in 1 .. Len(headers) : i \in R <=> headers[i].key = k
  BY <1>1, RemovedFacts
<1>3. Live' = (Live \ R) \cup {}
  BY <1>1, <1>2, LiveFacts
<1>4. Reallocate(Blocks(R), Blocks({}))
  <2>1. Blocks({}) = {}
    BY BlockFacts
  <2> QED
    BY <1>1, <1>2, <2>1
<1>5. heap' = Frame' \cup Blocks(Live') /\ fault' = FALSE
  BY <1>1, <1>3, <1>4, HeapFollows
<1>6. HeaderInv'
  BY <1>1, RemoveStep
<1> QED
  BY <1>1, <1>5, <1>6 DEF RequestInv

\* A caller sets a header.
LEMMA CallerSetsStep ==
    ASSUME RequestInv, NEW k \in Keys, NEW v \in Values, CallerSets(k, v) PROVE RequestInv'
<1>1. pc # "destroyed" /\ SetHeader(k, v) /\ UNCHANGED <<pc, reqVars>> /\ rest' = rest
  BY DEF CallerSets, Ready
<1>2. rest' \in Seq(HeaderLine)
  BY <1>1 DEF RequestInv
<1> QED
  BY <1>1, <1>2, SetHeaderStep

\* A set of numbers that is not empty has a least element.
LEMMA LeastExists ==
    ASSUME NEW T, T \subseteq Nat, T # {}
    PROVE  \E x \in T : \A y \in T : x <= y
<1> DEFINE R == OpToRel(<, Nat)
<1>1. IsWellFoundedOn(R, Nat)
  BY NatLessThanWellFounded
<1>2. \A x, y \in Nat : <<y, x>> \in R <=> y < x
  BY DEF OpToRel
<1> HIDE DEF R
<1>3. PICK x \in T : \A y \in T : ~(<<y, x>> \in R)
  BY <1>1, WFMin
<1>4. ASSUME NEW y \in T PROVE x <= y
  <2>1. x \in Nat /\ y \in Nat
    OBVIOUS
  <2>2. ~(y < x)
    BY <1>2, <1>3, <2>1
  <2> QED
    BY <2>1, <2>2, SMTT(30)
<1> QED
  BY <1>4

\* A header line is parsed.
LEMMA ParseHeaderStep ==
    ASSUME RequestInv, ParseHeader PROVE RequestInv'
<1> DEFINE j == CHOOSE m \in Colons : \A i \in Colons : m <= i
           k == IF j = 1 THEN rest[1].key ELSE Joined
           v == rest[j].value
<1>1. /\ pc = "headers" /\ rest # <<>> /\ Colons # {} /\ SetHeader(k, v)
      /\ rest' = Tail(rest) /\ UNCHANGED <<pc, reqVars>>
  BY DEF ParseHeader
<1>2. rest \in Seq(HeaderLine)
  BY DEF RequestInv
<1>3. Colons \subseteq Nat
  BY <1>2, SMTT(30) DEF Colons
<1>4. \E m \in Colons : \A i \in Colons : m <= i
  BY <1>1, <1>3, LeastExists
<1>5. j \in Colons
  BY <1>4
<1> HIDE DEF j
<1>6. j \in 1 .. Len(rest) /\ rest[j] # NoColon
  BY <1>5 DEF Colons
<1>7. rest[j] \in HeaderLine
  BY <1>2, <1>6, SMTT(30)
<1>8. rest[j] \in [key : Keys \ {Joined}, value : Values]
  BY <1>6, <1>7 DEF HeaderLine
<1>9. k \in Keys /\ v \in Values
  BY <1>8, RequestAssumption
<1>10. rest' \in Seq(HeaderLine)
  BY <1>1, <1>2, SMTT(30)
<1> HIDE DEF k, v
<1> QED
  BY <1>1, <1>9, <1>10, SetHeaderStep

\* A step that leaves the table alone, and the heap in keeping with the object.
LEMMA TableKept ==
    ASSUME RequestInv, pc # "destroyed", UNCHANGED headerVars,
           pc' \in {"created", "headers", "failed", "parsed"},
           (buf' = Nil /\ path' = Nil) \/ (buf' = Buf /\ path' = Path),
           rest' \in Seq(HeaderLine), heap' = Frame' \cup Blocks(Live), fault' = FALSE
    PROVE  RequestInv'
<1>1. HeaderInv' /\ Live' = Live
  BY SMTT(30) DEF RequestInv, headerVars, HeaderInv, HeaderType, IsMap, Live
<1> QED
  BY <1>1 DEF RequestInv

\* The request line is refused.
LEMMA RejectStep ==
    ASSUME RequestInv, RejectLine \/ RejectTwoSlashes \/ RejectHost PROVE RequestInv'
<1>1. /\ pc \in {"created", "failed", "parsed"} /\ buf = Nil /\ pc' = "failed" /\ buf' = Nil
      /\ path' \in {path, Nil} /\ UNCHANGED headerVars /\ rest' = rest
      /\ heap' = heap /\ fault' = fault
  BY DEF RejectLine, RejectTwoSlashes, RejectHost, Parses, Ready
<1>2. path = Nil /\ path' = Nil
  BY <1>1, FrameFacts DEF RequestInv
<1>3. Frame' = Frame
  BY <1>1, <1>2 DEF Frame
<1>4. heap' = Frame' \cup Blocks(Live) /\ fault' = FALSE /\ rest' \in Seq(HeaderLine)
  BY <1>1, <1>3 DEF RequestInv
<1> QED
  BY <1>1, <1>2, <1>4, TableKept

\* The request line is accepted.
LEMMA AcceptLineStep ==
    ASSUME RequestInv, AcceptLine PROVE RequestInv'
<1>1. /\ pc \in {"created", "failed", "parsed"} /\ buf = Nil /\ pc' = "headers"
      /\ buf' = Buf /\ path' = Path /\ UNCHANGED headerVars /\ rest' \in HeaderLines
      /\ heap' = (heap \ {}) \cup {Tmp, Buf, Path} /\ fault' = (fault \/ ~({} \subseteq heap))
  BY DEF AcceptLine, Parses, Ready, Reallocate
<1>2. path = Nil /\ heap = Frame \cup Blocks(Live) /\ fault = FALSE
  BY <1>1, FrameFacts DEF RequestInv
<1>3. Frame = Object /\ Frame' = Object \cup {Tmp, Buf, Path}
  BY <1>1, <1>2, FrameFacts DEF Frame
<1>4. heap' = Frame' \cup Blocks(Live) /\ fault' = FALSE
  BY <1>1, <1>2, <1>3
<1>5. rest' \in Seq(HeaderLine)
  BY <1>1, RequestAssumption DEF HeaderLine
<1> QED
  BY <1>1, <1>4, <1>5, TableKept

\* Parsing ends at a line without a colon or at the empty line.
LEMMA ParseEndsStep ==
    ASSUME RequestInv, RejectHeader \/ ParseDone PROVE RequestInv'
<1>1. /\ pc = "headers" /\ pc' \in {"failed", "parsed"} /\ UNCHANGED <<buf, path>>
      /\ UNCHANGED headerVars /\ rest' \in {<<>>, rest}
      /\ heap' = (heap \ {Tmp}) \cup {} /\ fault' = (fault \/ ~({Tmp} \subseteq heap))
  BY DEF RejectHeader, ParseDone, Reallocate, reqVars
<1>2. /\ heap = Frame \cup Blocks(Live) /\ fault = FALSE
      /\ (buf = Nil /\ path = Nil) \/ (buf = Buf /\ path = Path)
  BY <1>1 DEF RequestInv
<1>3. Tmp \in Frame /\ Frame' = Frame \ {Tmp}
  BY <1>1, <1>2, FrameFacts DEF Frame
<1>4. Tmp \notin Blocks(Live)
  BY FrameApart
<1>5. heap' = Frame' \cup Blocks(Live) /\ fault' = FALSE
  BY <1>1, <1>2, <1>3, <1>4
<1>6. rest' \in Seq(HeaderLine)
  <2>1. <<>> \in Seq(HeaderLine) /\ rest \in Seq(HeaderLine)
    BY SMTT(30) DEF RequestInv
  <2> QED
    BY <1>1, <2>1
<1> QED
  BY <1>1, <1>2, <1>5, <1>6, TableKept

\* The proxy fills in the port.
LEMMA DefaultPortStep ==
    ASSUME RequestInv, DefaultPort PROVE RequestInv'
<1>1. /\ pc = "parsed" /\ UNCHANGED <<pc, buf, path, rest, heap, fault>>
      /\ UNCHANGED headerVars
  BY DEF DefaultPort
<1>2. Frame' = Frame
  BY <1>1 DEF Frame
<1>3. heap' = Frame' \cup Blocks(Live) /\ fault' = FALSE
  BY <1>1, <1>2 DEF RequestInv
<1>4. /\ (buf' = Nil /\ path' = Nil) \/ (buf' = Buf /\ path' = Path)
      /\ rest' \in Seq(HeaderLine)
  BY <1>1 DEF RequestInv
<1> QED
  BY <1>1, <1>3, <1>4, TableKept

\* The invariant holds for a new object.
LEMMA InitRequest == ASSUME RequestInit PROVE RequestInv
<1>1. /\ pc = "created" /\ headers = <<>> /\ headerslen = DEFAULT_NHDRS
      /\ meant = [k \in Keys |-> NULL] /\ buf = Nil /\ path = Nil /\ rest = <<>>
      /\ heap = Object /\ fault = FALSE
  BY DEF RequestInit, HeaderInit
<1>2. headerslen \in Nat \ {0} /\ rest \in Seq(HeaderLine)
  BY <1>1, HeaderAssumption, SMTT(30)
<1>3. HeaderType /\ Len(headers) = 0
  BY <1>1, <1>2, SMTT(30) DEF HeaderType
<1>4. 1 .. Len(headers) = {} /\ \A k \in Keys : meant[k] = NULL
  BY <1>1, <1>3, SMTT(30)
<1>5. IsMap /\ Live = {}
  BY <1>4 DEF IsMap, Live
<1>6. HeaderInv
  BY <1>2, <1>3, <1>5, SMTT(30) DEF HeaderInv
<1>7. Frame = Object /\ Blocks({}) = {}
  BY <1>1, BlockFacts DEF Frame
<1>8. heap = Frame \cup Blocks(Live)
  BY <1>1, <1>5, <1>7
<1> QED
  BY <1>1, <1>2, <1>6, <1>8 DEF RequestInv

\* Another object is created.
LEMMA CreateStep ==
    ASSUME RequestInv, Create PROVE RequestInv'
<1>1. /\ pc = "destroyed" /\ pc' = "created" /\ headers' = <<>>
      /\ headerslen' = DEFAULT_NHDRS /\ meant' = [k \in Keys |-> NULL]
      /\ buf' = Nil /\ path' = Nil /\ rest' = rest
      /\ heap' = (heap \ {}) \cup Object /\ fault' = (fault \/ ~({} \subseteq heap))
  BY DEF Create, Reallocate
<1>2. heap = {} /\ fault = FALSE /\ rest \in Seq(HeaderLine)
  BY <1>1 DEF RequestInv
<1>3. heap' = Object /\ fault' = FALSE /\ rest' \in Seq(HeaderLine)
  BY <1>1, <1>2
<1>4. headerslen' \in Nat \ {0}
  BY <1>1, HeaderAssumption
<1>5. HeaderType' /\ IsMap' /\ Live' = {} /\ Len(headers') = 0
  <2>1. HeaderType' /\ Len(headers') = 0
    BY <1>1, <1>4, SMTT(30) DEF HeaderType
  <2>2. 1 .. Len(headers') = {} /\ \A k \in Keys : meant'[k] = NULL
    BY <1>1, <2>1, SMTT(30)
  <2>3. IsMap' /\ Live' = {}
    BY <2>2 DEF IsMap, Live
  <2> QED
    BY <2>1, <2>3
<1>6. HeaderInv'
  BY <1>4, <1>5, SMTT(30) DEF HeaderInv
<1>7. Frame' = Object /\ Blocks({}) = {}
  BY <1>1, BlockFacts DEF Frame
<1>8. heap' = Frame' \cup Blocks(Live')
  BY <1>3, <1>5, <1>7
<1> QED
  BY <1>1, <1>3, <1>6, <1>8 DEF RequestInv

\* The object is destroyed.
LEMMA DestroyStep ==
    ASSUME RequestInv, Destroy PROVE RequestInv'
<1> DEFINE freed == ({buf, path} \ {Nil}) \cup Blocks(Live) \cup Object
<1>1. /\ pc \in {"created", "failed", "parsed"} /\ pc' = "destroyed"
      /\ headers' = <<>> /\ headerslen' = 0 /\ meant' = [k \in Keys |-> NULL]
      /\ UNCHANGED <<buf, path>> /\ rest' = rest /\ Reallocate(freed, {})
  BY DEF Destroy, Ready, reqVars, Live, Blocks
<1>2. heap = freed /\ fault = FALSE
  BY <1>1 DEF RequestInv, Frame
<1>3. heap' = {} /\ fault' = FALSE
  BY <1>1, <1>2 DEF Reallocate
<1>4. HeaderType' /\ IsMap'
  <2>1. HeaderType' /\ Len(headers') = 0
    BY <1>1, SMTT(30) DEF HeaderType
  <2>2. 1 .. Len(headers') = {} /\ \A k \in Keys : meant'[k] = NULL
    BY <1>1, <2>1, SMTT(30)
  <2>3. IsMap'
    BY <2>2 DEF IsMap
  <2> QED
    BY <2>1, <2>3
<1> QED
  BY <1>1, <1>3, <1>4 DEF RequestInv

\* A step that changes nothing keeps the invariant.
LEMMA RequestStutters ==
    ASSUME RequestInv, UNCHANGED requestVars PROVE RequestInv'
  BY SMTT(30) DEF RequestInv, HeaderInv, HeaderType, IsMap, Frame, Live,
     requestVars, headerVars, reqVars

\* Every step keeps the invariant.
LEMMA RequestStep ==
    ASSUME RequestInv, [RequestNext]_requestVars PROVE RequestInv'
<1>1. CASE \E k \in Keys : CallerRemoves(k) \/ \E v \in Values : CallerSets(k, v)
  BY <1>1, CallerRemovesStep, CallerSetsStep
<1> QED
  BY <1>1, CreateStep, RejectStep, AcceptLineStep, ParseHeaderStep,
     ParseEndsStep, DefaultPortStep, DestroyStep, RequestStutters DEF
     RequestNext

-----------------------------------------------------------------------------
(* The theorems.                                                           *)

\* Whatever ParsedRequest_parse() reads and its caller does, the object owns
\* exactly the blocks that its fields and the headers in use point to.
THEOREM RequestInvariance == RequestSpec => []RequestInv
  BY InitRequest, RequestStep, PTL DEF RequestSpec

\* The slot that ParsedHeader_set() writes is always inside the array.
THEOREM SlotsInBounds == RequestSpec => []InBounds
<1>1. RequestInv => InBounds
  <2>1. Len(<<>>) = 0
    OBVIOUS
  <2> QED
    BY <2>1, SMTT(30) DEF RequestInv, HeaderInv, HeaderType, InBounds
<1> QED
  BY <1>1, RequestInvariance, PTL

\* ParsedHeader_get() finds the value last set for a key, and nothing for a key
\* that was removed.
THEOREM TableIsMap == RequestSpec => []IsMap
<1>1. RequestInv => IsMap
  BY DEF RequestInv, HeaderInv
<1> QED
  BY <1>1, RequestInvariance, PTL

\* No block is freed twice, and ParsedRequest_destroy() leaves none allocated.
THEOREM BlocksFreedOnce == RequestSpec => []FreedOnce
<1>1. RequestInv => FreedOnce
  BY DEF RequestInv, FreedOnce
<1> QED
  BY <1>1, RequestInvariance, PTL
=============================================================================
