------------------------------- MODULE Router -------------------------------
(***************************************************************************)
(* The router: the packet handlers of sr_router.c over the ARP cache and   *)
(* the request queue of sr_arpcache.c.                                     *)
(*                                                                         *)
(* Two threads work on the cache.  The main thread handles one packet      *)
(* after the other; the timeout thread wakes every second.  The timeout    *)
(* thread holds cache->lock for its whole sweep.  The main thread takes it *)
(* for single operations only, so those are single steps here, and runs    *)
(* handle_arpreq() without it.  handle_arpreq() can call itself through    *)
(* the ICMP errors it sends: each thread has a stack of calls.             *)
(*                                                                         *)
(* Requests are heap objects named by their address.  A step that follows  *)
(* a pointer to a freed request sets fault, as does a call stack that      *)
(* outgrows its bound; what the process does after that is undefined and   *)
(* not modelled.  The sender of a frame, its checksums and its layout are  *)
(* left out.                                                               *)
(***************************************************************************)
EXTENDS Integers, Sequences, FiniteSetsExt

CONSTANTS
    Hops,          \* next hop addresses: rt->gw of the routes
    Route,         \* address |-> next hop of its longest prefix match, or None
    Own,           \* the address of the router's interfaces
    Sources,       \* the addresses packets come from
    None,          \* no route
    MaxRequests,   \* bound: sr_arpreq objects the heap has room for
    CacheSize,     \* SR_ARPCACHE_SZ
    CacheTimeout,  \* SR_ARPCACHE_TO, in seconds
    MaxTries,      \* ARP requests sent before a next hop is given up: 5
    Ttls,          \* TTL fields of arriving packets
    MaxPackets,    \* bound: IP packets that arrive
    MaxDepth       \* bound: nested calls of handle_arpreq() the stack has room for

Addresses == DOMAIN Route
Packets == 1 .. MaxPackets
Requests == 1 .. MaxRequests
Threads == {"main", "timeout"}

ASSUME RouterAssumption ==
    /\ Own \in Addresses /\ Sources \subseteq Addresses \ {Own}
    /\ Route \in [Addresses -> Hops \cup {None}]
    /\ None \notin Hops
    /\ CacheSize \in Nat \ {0} /\ CacheTimeout \in Nat /\ MaxTries \in Nat \ {0}
    /\ Ttls \subseteq 0 .. 255
    /\ MaxPackets \in Nat /\ MaxDepth \in Nat \ {0} /\ MaxRequests \in Nat

VARIABLES
    entries,   \* slot |-> [ip, age] of a valid entry, or Invalid
    arpreq,    \* address |-> request object, or Freed
    requests,  \* cache->requests: addresses of the queued requests
    stack,     \* thread |-> its calls of handle_arpreq(), innermost first
    sweep,     \* the timeout thread: asleep, or the rest of its walk
    arrived,   \* number of IP packets that have arrived
    fate,      \* packet |-> what the router has made of it
    fault      \* why the process is no longer defined

cacheVars == <<entries, arpreq, requests>>
vars == <<cacheVars, stack, sweep, arrived, fate, fault>>

Freed == [ip |-> None, age |-> 0, times_sent |-> 0, packets |-> <<>>, broadcasts |-> 0]

Invalid == [ip |-> None, age |-> 0]

\* time() - sent in seconds: only whether it exceeds 1 matters.  A request that
\* was never sent has sent = 0.
LongAgo == 2

Older(age, most) == IF age < most THEN age + 1 ELSE age

Asleep == [awake |-> FALSE, slept |-> FALSE, next |-> 0]

Init ==
    /\ entries = [i \in 1 .. CacheSize |-> Invalid]
    /\ arpreq = [r \in Requests |-> Freed]
    /\ requests = <<>>
    /\ stack = [t \in Threads |-> <<>>]
    /\ sweep = Asleep
    /\ arrived = 0
    /\ fate = [n \in Packets |-> {}]
    /\ fault = "none"

Running == fault = "none"

\* The first of the given places on a list, or 0.
First(places) == IF places = {} THEN 0 ELSE Min(places)

-----------------------------------------------------------------------------
(* The cache.                                                              *)

\* The main thread gets cache->lock only while the timeout thread sleeps.
HasLock(t) == t = "timeout" \/ ~sweep.awake

Cached(ip) == \E i \in 1 .. CacheSize : entries[i].ip = ip

Queued(ip) == First({i \in DOMAIN requests : arpreq[requests[i]].ip = ip})

\* malloc() may return an address that a call still holds.  The model takes
\* another one, so that the use of such a pointer never goes unnoticed.
Fresh == {r \in Requests :
            /\ arpreq[r] = Freed
            /\ r # sweep.next
            /\ \A t \in Threads : \A i \in DOMAIN stack[t] : stack[t][i].req # r}

NewRequest(ip) == [Freed EXCEPT !.ip = ip, !.age = LongAgo]

Call(r) == [req |-> r, pc |-> "check", age |-> 0, waiting |-> <<>>, count |-> 0]

\* A nested call of handle_arpreq(r), below a stack that is already rest.
Enter(t, rest, r) ==
    IF Len(rest) = MaxDepth
      THEN fault' = "stack" /\ stack' = [stack EXCEPT ![t] = rest]
      ELSE stack' = [stack EXCEPT ![t] = <<Call(r)>> \o rest] /\ UNCHANGED fault

\* sr_arpcache_queuereq() with a packet, and the handle_arpreq() that follows.
\* The heap has room for a new request.
QueueAndHandle(t, rest, ip, p) ==
    LET found == Queued(ip) # 0
        r     == IF found THEN requests[Queued(ip)] ELSE CHOOSE x \in Fresh : TRUE
        req   == IF found THEN arpreq[r] ELSE NewRequest(ip)
    IN  /\ found \/ Fresh # {}
        /\ arpreq' = [arpreq EXCEPT ![r] = [req EXCEPT !.packets = <<p>> \o @]]
        /\ requests' = IF found THEN requests ELSE <<r>> \o requests
        /\ Enter(t, rest, r)

\* The end of the handlers that send a packet p to the next hop ip: look the
\* next hop up, then send or queue.  A sweep between the two changes nothing: it
\* adds no entry.
SendOrQueue(t, rest, ip, p) ==
    IF Cached(ip)
      THEN /\ stack' = [stack EXCEPT ![t] = rest]
           /\ UNCHANGED <<arpreq, requests, fault>>
      ELSE QueueAndHandle(t, rest, ip, p)

-----------------------------------------------------------------------------
(* Packets that arrive.                                                    *)

\* sr_send_error() and sr_handle_icmp_echo_request(): a message from the router
\* to the source of p.
ReplyTo(p, kind) == [id |-> p.id, kind |-> kind, src |-> Own, dst |-> p.src]

\* ip_ttl is a byte, decremented before it is compared.
Decremented(ttl) == (ttl - 1) % 256

\* The kinds of packets sr_handle_ip_packet() tells apart: a bad length or
\* checksum, an ICMP echo request, other ICMP, anything else.
Kinds == {"damaged", "echo request", "icmp", "other"}

Ignored(p, kind) == kind = "damaged" \/ (kind = "icmp" /\ p.dst = Own)

\* The router answers the packet itself: an echo reply, port unreachable, time
\* exceeded or net unreachable.
Answers(p, ttl) == p.dst = Own \/ Decremented(ttl) <= 0 \/ Route[p.dst] = None

\* sr_handlepacket() with an IP packet.
ReceiveIp ==
    /\ Running
    /\ stack["main"] = <<>>
    /\ HasLock("main")
    /\ arrived < MaxPackets
    /\ arrived' = arrived + 1
    /\ \E src \in Sources, dst \in Addresses, ttl \in Ttls, kind \in Kinds :
          LET p == [id |-> arrived + 1, kind |-> "forwarded", src |-> src, dst |-> dst]
              q == IF Answers(p, ttl) THEN ReplyTo(p, "answered") ELSE p
          IN  IF Ignored(p, kind) \/ Route[q.dst] = None
                THEN /\ fate' = [fate EXCEPT ![p.id] = {"dropped"}]
                     /\ UNCHANGED <<arpreq, requests, stack, fault>>
                ELSE /\ SendOrQueue("main", <<>>, Route[q.dst], q)
                     /\ fate' = IF Cached(Route[q.dst]) THEN [fate EXCEPT ![p.id] = {q.kind}]
                                ELSE fate
    /\ UNCHANGED <<entries, sweep>>

FreeSlots == {i \in 1 .. CacheSize : entries[i] = Invalid}

\* sr_arpcache_insert(): the first free slot, or none.
Learn(ip) ==
    entries' = IF FreeSlots = {} THEN entries
               ELSE [entries EXCEPT ![Min(FreeSlots)] = [ip |-> ip, age |-> 0]]

Position(r) == First({i \in DOMAIN requests : requests[i] = r})

\* A request is unlinked from the list.
Without(r) ==
    LET i == Position(r)
    IN  IF i = 0 THEN requests
        ELSE [j \in 1 .. Len(requests) - 1 |-> requests[IF j < i THEN j ELSE j + 1]]

\* What sending the packets of a list makes of packet n.  That its sender was
\* told of the host was noted when the message was made.
Sent(packets, n) ==
    {p.kind : p \in {q \in Range(packets) : q.id = n /\ q.kind # "host unreachable"}}

\* Slip: the request stays on the queue when its packets were sent.
ReceiveReplyKeepsRequest(ip) ==
    /\ Running
    /\ stack["main"] = <<>>
    /\ HasLock("main")
    /\ Learn(ip)
    /\ fate' = [n \in Packets |->
                   IF Queued(ip) = 0 THEN fate[n]
                   ELSE fate[n] \cup Sent(arpreq[requests[Queued(ip)]].packets, n)]
    /\ UNCHANGED <<arpreq, requests, stack, sweep, arrived, fault>>

\* sr_handle_arp_packet() with a reply: the mapping is stored, the request taken
\* off the queue, its packets sent and the request destroyed.  Only the main
\* thread can reach the request once it is off the queue.  A reply is taken
\* whether it was asked for or not.
ReceiveReply(ip) ==
    /\ Running
    /\ stack["main"] = <<>>
    /\ HasLock("main")
    /\ Learn(ip)
    /\ IF Queued(ip) = 0
         THEN UNCHANGED <<arpreq, requests, fate>>
         ELSE LET r == requests[Queued(ip)]
              IN  /\ requests' = Without(r)
                  /\ arpreq' = [arpreq EXCEPT ![r] = Freed]
                  /\ fate' = [n \in Packets |-> fate[n] \cup Sent(arpreq[r].packets, n)]
    /\ UNCHANGED <<stack, sweep, arrived, fault>>

-----------------------------------------------------------------------------
(* handle_arpreq(), one step at a time, by either thread.                  *)

Top(t) == stack[t][1]

\* The current call of t is at pc.
At(t, pc) == /\ Running
             /\ stack[t] # <<>>
             /\ Top(t).pc = pc

Dangling(t) == arpreq[Top(t).req] = Freed

\* A pointer to a freed request is followed.
Crash ==
    /\ fault' = "freed request"
    /\ UNCHANGED <<cacheVars, stack, sweep, arrived, fate>>

Goto(t, pc) == stack' = [stack EXCEPT ![t][1].pc = pc]

\* Another attempt; now is the time of this check.
Resend(t) == stack' = [stack EXCEPT ![t][1].pc = "send", ![t][1].age = 0]

\* Slip: one attempt too few.
CheckOneEarly(t) ==
    /\ At(t, "check")
    /\ IF Dangling(t) THEN Crash
       ELSE /\ LET req == arpreq[Top(t).req]
               IN  IF req.age < LongAgo
                     THEN stack' = [stack EXCEPT ![t] = Tail(@)]
                   ELSE IF req.times_sent >= MaxTries - 1
                     THEN stack' = [stack EXCEPT ![t][1].pc = "give up",
                                                 ![t][1].waiting = req.packets]
                   ELSE Resend(t)
            /\ UNCHANGED <<cacheVars, sweep, arrived, fate, fault>>

\* now, req->sent and req->times_sent are read.
Check(t) ==
    /\ At(t, "check")
    /\ IF Dangling(t) THEN Crash
       ELSE /\ LET req == arpreq[Top(t).req]
               IN  IF req.age < LongAgo
                     THEN stack' = [stack EXCEPT ![t] = Tail(@)]
                   ELSE IF req.times_sent >= MaxTries
                     THEN stack' = [stack EXCEPT ![t][1].pc = "give up",
                                                 ![t][1].waiting = req.packets]
                   ELSE Resend(t)
            /\ UNCHANGED <<cacheVars, sweep, arrived, fate, fault>>

\* sr_send_arp_request() on the interface of the first waiting packet.
Broadcast(t) ==
    /\ At(t, "send")
    /\ IF Dangling(t) THEN Crash
       ELSE /\ arpreq' = [arpreq EXCEPT ![Top(t).req].broadcasts = @ + 1]
            /\ Goto(t, "sent")
            /\ UNCHANGED <<entries, requests, sweep, arrived, fate, fault>>

\* req->sent = now, and times_sent is loaded ...
Stamp(t) ==
    /\ At(t, "sent")
    /\ IF Dangling(t) THEN Crash
       ELSE /\ arpreq' = [arpreq EXCEPT ![Top(t).req].age = Top(t).age]
            /\ stack' = [stack EXCEPT ![t][1].pc = "count",
                                      ![t][1].count = arpreq[Top(t).req].times_sent]
            /\ UNCHANGED <<entries, requests, sweep, arrived, fate, fault>>

\* ... and stored, one higher.
Count(t) ==
    /\ At(t, "count")
    /\ IF Dangling(t) THEN Crash
       ELSE /\ arpreq' = [arpreq EXCEPT ![Top(t).req].times_sent = Top(t).count + 1]
            /\ stack' = [stack EXCEPT ![t] = Tail(@)]
            /\ UNCHANGED <<entries, requests, sweep, arrived, fate, fault>>

\* Slip: only the first waiting packet is reported.
UnreachableFirst(t) ==
    /\ At(t, "give up")
    /\ Top(t).waiting # <<>>
    /\ IF Dangling(t) THEN Crash
       ELSE LET p    == Top(t).waiting[1]
                rest == [stack[t] EXCEPT ![1].waiting = <<>>]
            IN  /\ fate' = [fate EXCEPT ![p.id] = @ \cup {"host unreachable"}]
                /\ IF Route[p.src] = None
                     THEN /\ stack' = [stack EXCEPT ![t] = rest]
                          /\ UNCHANGED <<arpreq, requests, fault>>
                     ELSE /\ HasLock(t)
                          /\ SendOrQueue(t, rest, Route[p.src], ReplyTo(p, "host unreachable"))
                /\ UNCHANGED <<entries, sweep, arrived>>

\* sr_send_icmp_host_unreachable() for the next waiting packet.  The error can
\* itself have to wait, for another next hop or for this one.
Unreachable(t) ==
    /\ At(t, "give up")
    /\ Top(t).waiting # <<>>
    /\ IF Dangling(t) THEN Crash
       ELSE LET p    == Top(t).waiting[1]
                rest == [stack[t] EXCEPT ![1].waiting = Tail(@)]
            IN  /\ fate' = [fate EXCEPT ![p.id] = @ \cup {"host unreachable"}]
                /\ IF Route[p.src] = None
                     THEN /\ stack' = [stack EXCEPT ![t] = rest]
                          /\ UNCHANGED <<arpreq, requests, fault>>
                     ELSE /\ HasLock(t)
                          /\ SendOrQueue(t, rest, Route[p.src], ReplyTo(p, "host unreachable"))
                /\ UNCHANGED <<entries, sweep, arrived>>

\* Slip: the object is freed and stays on the queue.
DestroyKeepsQueue(t) ==
    /\ At(t, "give up")
    /\ Top(t).waiting = <<>>
    /\ HasLock(t)
    /\ IF Dangling(t) THEN Crash
       ELSE /\ arpreq' = [arpreq EXCEPT ![Top(t).req] = Freed]
            /\ stack' = [stack EXCEPT ![t] = Tail(@)]
            /\ UNCHANGED <<entries, requests, sweep, arrived, fate, fault>>

\* sr_arpreq_destroy().
Destroy(t) ==
    /\ At(t, "give up")
    /\ Top(t).waiting = <<>>
    /\ HasLock(t)
    /\ IF Dangling(t) THEN Crash
       ELSE /\ requests' = Without(Top(t).req)
            /\ arpreq' = [arpreq EXCEPT ![Top(t).req] = Freed]
            /\ stack' = [stack EXCEPT ![t] = Tail(@)]
            /\ UNCHANGED <<entries, sweep, arrived, fate, fault>>

HandleArpreq(t) == Check(t) \/ Broadcast(t) \/ Stamp(t) \/ Count(t)
                   \/ Unreachable(t) \/ Destroy(t)

-----------------------------------------------------------------------------
(* Time and the timeout thread.                                            *)

\* A second passes.
Second ==
    /\ Running
    /\ entries' = [i \in 1 .. CacheSize |->
                      IF entries[i] = Invalid THEN Invalid
                      ELSE [entries[i] EXCEPT !.age = Older(@, CacheTimeout + 1)]]
    /\ arpreq' = [r \in Requests |->
                      IF arpreq[r] = Freed THEN Freed
                      ELSE [arpreq[r] EXCEPT !.age = Older(@, LongAgo)]]
    /\ stack' = [t \in Threads |->
                    [i \in DOMAIN stack[t] |->
                        IF stack[t][i].pc \notin {"send", "sent"} THEN stack[t][i]
                        ELSE [stack[t][i] EXCEPT !.age = Older(@, LongAgo)]]]
    /\ sweep' = [sweep EXCEPT !.slept = ~sweep.awake]
    /\ UNCHANGED <<requests, arrived, fate, fault>>

\* sr_arpcache_timeout() takes the lock, invalidates old entries and begins its
\* walk over the requests.
WakeUp ==
    /\ Running
    /\ sweep.slept
    /\ entries' = [i \in 1 .. CacheSize |->
                      IF entries[i].age > CacheTimeout THEN Invalid ELSE entries[i]]
    /\ sweep' = [awake |-> TRUE, slept |-> FALSE,
                  next |-> IF requests = <<>> THEN 0 ELSE requests[1]]
    /\ UNCHANGED <<arpreq, requests, stack, arrived, fate, fault>>

\* sr_arpcache_sweepreqs(): the next pointer is saved, then the request handled.
Walk ==
    /\ Running
    /\ sweep.awake
    /\ stack["timeout"] = <<>>
    /\ IF sweep.next = 0
         THEN /\ sweep' = Asleep
              /\ UNCHANGED <<stack, fault>>
       ELSE IF arpreq[sweep.next] = Freed
         THEN /\ fault' = "freed request"
              /\ UNCHANGED <<stack, sweep>>
       ELSE /\ sweep' = [sweep EXCEPT !.next = IF Position(@) = Len(requests) THEN 0
                                               ELSE requests[Position(@) + 1]]
            /\ Enter("timeout", <<>>, sweep.next)
    /\ UNCHANGED <<cacheVars, arrived, fate>>

-----------------------------------------------------------------------------
Next ==
    \/ ReceiveIp
    \/ \E ip \in Hops : ReceiveReply(ip)
    \/ \E t \in Threads : HandleArpreq(t)
    \/ Second \/ WakeUp \/ Walk

Spec == Init /\ [][Next]_vars

\* Both threads are scheduled and time passes.  Nothing is assumed about what
\* arrives.
Fairness ==
    /\ \A t \in Threads : WF_vars(HandleArpreq(t))
    /\ WF_vars(Second)
    /\ WF_vars(WakeUp)
    /\ WF_vars(Walk)

FairSpec == Spec /\ Fairness

-----------------------------------------------------------------------------
\* cache->requests is a list of allocated requests, at most one for a next hop,
\* each with a packet to take the interface from (handle_arpreq() reads
\* req->packets->iface), whatever the two threads and the errors they send do to
\* it; and no request is allocated that is not on the list.
QueueSound ==
    Running =>
       /\ \A i \in DOMAIN requests : arpreq[requests[i]].packets # <<>>
       /\ \A i, j \in DOMAIN requests :
             arpreq[requests[i]].ip = arpreq[requests[j]].ip => i = j
       /\ \A r \in Requests : arpreq[r] # Freed => r \in Range(requests)

\* A next hop is given up only after MaxTries ARP requests went out for it, even
\* if both threads count at the same time.
GivenUpLate ==
    Running => \A t \in Threads : \A i \in DOMAIN stack[t] :
       stack[t][i].pc = "give up" /\ arpreq[stack[t][i].req] # Freed
          => arpreq[stack[t][i].req].broadcasts >= MaxTries

\* A packet whose sender is told that the host is unreachable is not delivered as
\* well: an ARP reply after the last attempt finds either the request with its
\* packets or nothing.
OneOutcome == \A n \in Packets : \A x, y \in fate[n] : x = y

\* "the ICMP host unreachable message is generated even if no more packets
\* arrive": every packet that arrives is forwarded, answered or reported in the
\* end, unless the process faults.
EveryPacketAnswered ==
    \A n \in Packets : arrived >= n ~> fate[n] # {} \/ fault # "none"

-----------------------------------------------------------------------------
(* What the documentation says and the code does not do.                   *)

\* "Since handle_arpreq ... could destroy your current request, make sure to save
\* the next pointer": the saved pointer of sr_arpcache_sweepreqs() is that of a
\* request that is still there.
NextAlive == Running /\ sweep.next # 0 => arpreq[sweep.next] # Freed
=============================================================================
