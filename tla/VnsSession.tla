----------------------------- MODULE VnsSession -----------------------------
(***************************************************************************)
(* The session of the router with its VNS server: main() of sr_main.c, the *)
(* negotiation and the reading of commands in sr_vns_comm.c, the interface *)
(* list of sr_if.c, and the searches in the routing table that packets     *)
(* cause.                                                                  *)
(*                                                                         *)
(* The server sends commands, each a length field and a body, over TCP;    *)
(* recv() returns any part of what is there.  A byte is the command it     *)
(* belongs to and its offset in it.                                        *)
(***************************************************************************)
EXTENDS RoutingTable, FiniteSets

CONSTANTS
    Hardware,     \* the interface lists a VNSHWINFO command may hold
    LengthSize,   \* bytes of the length field: 4
    MaxLength,    \* the longest command accepted: 10000
    MaxCommands,  \* bound: commands the server sends
    Backlog       \* bound: commands sent and not yet handled

\* A command is longer than its length field, also one that is too long.
ASSUME SessionAssumption ==
    /\ LengthSize \in Nat \ {0}
    /\ MaxLength \in Nat /\ LengthSize < MaxLength
    /\ Hardware \subseteq Seq(Names)

VARIABLES
    template,  \* whether a topology template was given (-T)
    rtable,    \* the file given with -r: "rtable" or "rtable.vrhost"
    files,     \* file name |-> its lines
    pc,        \* where main() is
    if_list,   \* sr->if_list: interface names
    ready,     \* "Ready to process packets" was printed
    buf,       \* the part of the current command that was read
    len,       \* its length, 0 while the length field is read
    pending,   \* commands sent and not handled
    wire,      \* bytes on the connection
    server,    \* "open", "closed" or "reset"
    sent,      \* number of commands sent
    handled    \* number of commands handled

sessionVars == <<template, rtable, files, pc, if_list, ready, buf, len,
                 pending, wire, server, sent, handled>>
vars == <<tableVars, sessionVars>>

FileNames == {"rtable", "rtable.vrhost"}

\* The places in sr_connect_to_server() and main() where a command is read, and
\* the command expected there.
Expected == [authRequest |-> "AUTH_REQUEST", authStatus |-> "AUTH_STATUS",
             template |-> "RTABLE", loop |-> "any"]

Blank == [type |-> "BANNER", len |-> LengthSize + 1, ok |-> FALSE, names |-> <<>>,
          lines |-> <<>>, ip |-> NoLookup.ip]

Commands ==
    {[Blank EXCEPT !.type = type] : type \in {"AUTH_REQUEST", "BANNER", "CLOSE", "OTHER"}}
    \cup {[Blank EXCEPT !.type = "AUTH_STATUS", !.ok = ok] : ok \in BOOLEAN}
    \cup {[Blank EXCEPT !.type = "RTABLE", !.lines = lines] : lines \in Files}
    \cup {[Blank EXCEPT !.type = "HWINFO", !.names = names] : names \in Hardware}
    \cup {[Blank EXCEPT !.type = "PACKET", !.len = LengthSize + 2, !.names = <<to[1]>>, !.ip = to[2]]
             : to \in Names \X Address}
    \cup {[Blank EXCEPT !.len = MaxLength + 1]}

Bytes(c) == [k \in 1 .. c.len |-> <<c, k>>]

Init ==
    /\ TableInit
    /\ template \in BOOLEAN
    /\ rtable \in FileNames
    /\ \E lines \in Files : files = [name \in FileNames |-> lines]
    /\ pc = "start"
    /\ if_list = <<>>
    /\ ready = FALSE
    /\ buf = <<>> /\ len = 0
    /\ pending = <<>> /\ wire = <<>> /\ server = "open"
    /\ sent = 0 /\ handled = 0

Stopped == pc = "stopped"

-----------------------------------------------------------------------------
(* main() before and after the negotiation.                                *)

UnchangedSession ==
    UNCHANGED <<template, rtable, files, if_list, ready, buf, len,
                pending, wire, server, sent, handled>>

\* sr_load_rt_wrap(): exit(1) if the file is bad.
LoadTable(next) ==
    /\ \E ok \in BOOLEAN : /\ LoadRt(files[rtable], ok)
                           /\ pc' = IF ok THEN next ELSE "stopped"
    /\ UNCHANGED lookup
    /\ UnchangedSession

\* The options are read; without a template the table is loaded at once.
Start ==
    /\ pc = "start"
    /\ IF template
         THEN pc' = "connect" /\ UNCHANGED tableVars /\ UnchangedSession
         ELSE LoadTable("connect")

\* The TCP connection of sr_connect_to_server() is made, or not.
Connect ==
    /\ pc = "connect"
    /\ pc' \in {"authRequest", "stopped"}
    /\ UNCHANGED tableVars
    /\ UnchangedSession

\* The table is loaded, again without a template; sr_init(), and the main loop.
Load ==
    /\ pc = "load"
    /\ LoadTable("loop")

-----------------------------------------------------------------------------
(* sr_read_from_server_expect(): the length, the body, the command.        *)

Reading == pc \in DOMAIN Expected /\ ~lookup.busy

\* What recv() can return when n bytes are wanted.
Received(n) == {SubSeq(wire, 1, k) : k \in 1 .. IF n < Len(wire) THEN n ELSE Len(wire)}

Read(bytes) ==
    /\ wire' = SubSeq(wire, Len(bytes) + 1, Len(wire))
    /\ UNCHANGED <<tableVars, template, rtable, files, if_list, ready, pending,
                   server, sent, handled>>

\* The length a length field stands for: that of its command, or anything if the
\* bytes are not the length field of one.
Lengths(bytes) ==
    IF bytes = SubSeq(Bytes(bytes[1][1]), 1, LengthSize) THEN {bytes[1][1].len}
    ELSE 1 .. MaxLength

\* Slip: each part of the length field is stored at its beginning.
ReceiveLengthOver ==
    /\ Reading /\ len = 0
    /\ \E bytes \in Received(LengthSize) :
          /\ Read(bytes)
          /\ IF Len(bytes) < LengthSize
               THEN buf' = bytes /\ UNCHANGED <<len, pc>>
               ELSE /\ buf' = bytes
                    /\ len' \in Lengths(bytes)
                    /\ pc' = IF len' > MaxLength THEN "stopped" ELSE pc

ReceiveLength ==
    /\ Reading /\ len = 0
    /\ \E bytes \in Received(LengthSize - Len(buf)) :
          /\ Read(bytes)
          /\ buf' = buf \o bytes
          /\ IF Len(buf') < LengthSize
               THEN UNCHANGED <<len, pc>>
               ELSE /\ len' \in Lengths(buf')
                    /\ pc' = IF len' > MaxLength THEN "stopped" ELSE pc

Incomplete == Reading /\ len > 0 /\ Len(buf) < len

\* Slip: the length field is not counted as part of the command.
ReceiveBodyTooMuch ==
    /\ Reading /\ len > 0 /\ Len(buf) < len + LengthSize
    /\ \E bytes \in Received(len + LengthSize - Len(buf)) : Read(bytes) /\ buf' = buf \o bytes
    /\ UNCHANGED <<len, pc>>

ReceiveBody ==
    /\ Incomplete
    /\ \E bytes \in Received(len - Len(buf)) : Read(bytes) /\ buf' = buf \o bytes
    /\ UNCHANGED <<len, pc>>

\* recv() or read() fails: -1, and main() returns.
ReceiveError ==
    /\ Reading /\ wire = <<>> /\ server = "reset"
    /\ pc' = "stopped"
    /\ UNCHANGED tableVars
    /\ UnchangedSession

Complete == Reading /\ len > 0 /\ Len(buf) = len

Command == buf[LengthSize + 1][1]

\* The function returned 1: the next place of sr_connect_to_server() or main(). 
\* The VNSOPEN message after the authentication may fail to be sent.
After == CASE pc = "authRequest" -> {"authStatus"}
           [] pc = "authStatus"  -> {IF template THEN "template" ELSE "load", "stopped"}
           [] pc = "template"    -> {"load"}
           [] pc = "loop"        -> {"loop"}

\* The command is done with: buf is freed.
Done(places) ==
    /\ pc' \in places
    /\ buf' = <<>> /\ len' = 0
    /\ pending' = Tail(pending)
    /\ handled' = handled + 1
    /\ UNCHANGED <<template, rtable, wire, server, sent>>

Unexpected == Expected[pc] \notin {"any", Command.type} /\ Command.type # "CLOSE"

\* A command that was not expected, and VNSCLOSE, end the session.
EndSession ==
    /\ Complete
    /\ Unexpected \/ Command.type = "CLOSE"
    /\ Done({"stopped"})
    /\ UNCHANGED <<tableVars, files, if_list, ready>>

\* VNSBANNER and unknown commands.
Skip ==
    /\ Complete /\ ~Unexpected
    /\ Command.type \in {"BANNER", "OTHER"}
    /\ Done(After)
    /\ UNCHANGED <<tableVars, files, if_list, ready>>

\* sr_handle_auth_request(): the reply is sent, or the key cannot be read.
AuthRequest ==
    /\ Complete /\ ~Unexpected
    /\ Command.type = "AUTH_REQUEST"
    /\ Done(After \cup {"stopped"})
    /\ UNCHANGED <<tableVars, files, if_list, ready>>

AuthStatus ==
    /\ Complete /\ ~Unexpected
    /\ Command.type = "AUTH_STATUS"
    /\ Done(IF Command.ok THEN After ELSE {"stopped"})
    /\ UNCHANGED <<tableVars, files, if_list, ready>>

\* sr_handle_rtable(): the table is written to a file, or the file cannot be
\* written.
RTable ==
    /\ Complete /\ ~Unexpected
    /\ Command.type = "RTABLE"
    /\ \/ Done(After) /\ files' = [files EXCEPT !["rtable.vrhost"] = Command.lines]
       \/ Done({"stopped"}) /\ UNCHANGED files
    /\ UNCHANGED <<tableVars, if_list, ready>>

Listed(name, list) == \E i \in DOMAIN list : list[i] = name

\* Slip: one route with an interface is enough.
VerifySome(list) ==
    /\ list # <<>> /\ routing_table # <<>>
    /\ \E i \in DOMAIN routing_table : Listed(routing_table[i].interface, list)

\* sr_verify_routing_table() returns 0.
Verify(list) ==
    /\ list # <<>> /\ routing_table # <<>>
    /\ \A i \in DOMAIN routing_table : Listed(routing_table[i].interface, list)

\* sr_add_interface() for each name: at the end of the list.
AddInterfaces(names) == if_list' = if_list \o names

\* sr_handle_hwinfo(): interfaces are added to those there are.
HwInfo ==
    /\ Complete /\ ~Unexpected
    /\ Command.type = "HWINFO"
    /\ AddInterfaces(Command.names)
    /\ IF Verify(if_list') THEN Done(After) /\ ready' = TRUE
       ELSE Done({"stopped"}) /\ UNCHANGED ready
    /\ UNCHANGED <<tableVars, files>>

\* A packet: sr_arp_req_not_for_us() asserts that its interface is known and drops
\* ARP requests for others; the route of an IP packet is looked up.
Packet ==
    /\ Complete /\ ~Unexpected
    /\ Command.type = "PACKET"
    /\ IF ~Listed(Command.names[1], if_list)
         THEN Done({"stopped"}) /\ UNCHANGED tableVars
         ELSE /\ Done(After)
              /\ \/ StartLookup(Command.ip)
                 \/ UNCHANGED tableVars
    /\ UNCHANGED <<files, if_list, ready>>

Handle == EndSession \/ Skip \/ AuthRequest \/ AuthStatus \/ RTable \/ HwInfo \/ Packet

Search == (Visit \/ Return) /\ UNCHANGED sessionVars

-----------------------------------------------------------------------------
(* The server.                                                             *)

Send ==
    /\ server = "open" /\ pc \in DOMAIN Expected
    /\ sent < MaxCommands /\ Len(pending) < Backlog
    /\ \E c \in Commands : /\ pending' = Append(pending, c)
                           /\ wire' = wire \o Bytes(c)
    /\ sent' = sent + 1
    /\ UNCHANGED <<tableVars, template, rtable, files, pc, if_list, ready, buf, len,
                   server, handled>>

Leave ==
    /\ server = "open" /\ pc \in DOMAIN Expected
    /\ server' \in {"closed", "reset"}
    /\ UNCHANGED <<tableVars, template, rtable, files, pc, if_list, ready, buf, len,
                   pending, wire, sent, handled>>

Router ==
    \/ Start \/ Connect \/ Load
    \/ ReceiveLength \/ ReceiveBody \/ ReceiveError
    \/ Handle \/ Search

Next == Router \/ Send \/ Leave

Spec == Init /\ [][Next]_vars

\* The router is scheduled.  Nothing is assumed of the server.
FairSpec == Spec /\ WF_vars(Router)

-----------------------------------------------------------------------------
\* However recv() cuts the stream, a command is handled as the server sent it,
\* whole and in its turn.
FramesIntact == Complete => buf = Bytes(Head(pending))

\* Once the router is ready, every route it can find leads to an interface it
\* has, although the table is read from files that may change, up to twice, and
\* interfaces come in several commands.
RoutesVerified ==
    ready => \A i \in DOMAIN routing_table : Listed(routing_table[i].interface, if_list)

\* Every command the server sends is handled, or the router stops.
CommandsHandled ==
    \A n \in 1 .. MaxCommands : sent >= n ~> handled >= n \/ Stopped
=============================================================================
