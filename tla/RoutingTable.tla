---------------------------- MODULE RoutingTable ----------------------------
(***************************************************************************)
(* The routing table of the router: how sr_load_rt() fills it from a file  *)
(* (sr_rt.c) and how sr_get_longest_prefix_match() searches it             *)
(* (sr_router.c), route by route.                                          *)
(*                                                                         *)
(* An address is the sequence of its bits in the order of the network, and *)
(* a mask its number of leading ones.  The code compares masks as the      *)
(* integers that their four bytes make in the memory of the host;          *)
(* MaskValue is that integer.                                              *)
(***************************************************************************)
EXTENDS Integers, Sequences

CONSTANTS
    Width,      \* bits of an address
    Names,      \* interface names
    MaskValue,  \* prefix length |-> mask.s_addr as an unsigned integer
    BadLine,    \* a line in which inet_aton() rejects an address
    Files       \* what a routing table file may hold

Address == [1 .. Width -> {0, 1}]

Route == [dest : Address, mask : 0 .. Width, interface : Names]

\* A longer mask is a larger integer, in either byte order.
ASSUME MaskAssumption ==
    /\ Width \in Nat
    /\ MaskValue \in [0 .. Width -> Nat]
    /\ \A l, m \in 0 .. Width : l < m => MaskValue[l] < MaskValue[m]

ASSUME FileAssumption ==
    /\ BadLine \notin Route
    /\ \A lines \in Files : lines \in Seq(Route \cup {BadLine})

VARIABLES
    routing_table,  \* sr->routing_table
    lookup          \* the search that is under way, or the last one

tableVars == <<routing_table, lookup>>

NoLookup == [busy |-> FALSE, ip |-> [k \in 1 .. Width |-> 0], rt_walker |-> 1,
             longest_match |-> 0, longest_mask |-> 0]

TableInit == routing_table = <<>> /\ lookup = NoLookup

-----------------------------------------------------------------------------
\* sr_load_rt(): lines are appended one by one up to the first bad one; the old
\* table goes when the first good line is read.
LoadRt(lines, ok) ==
    \E n \in 0 .. Len(lines) :
       /\ \A k \in 1 .. n : lines[k] # BadLine
       /\ n < Len(lines) => lines[n + 1] = BadLine
       /\ ok = (n = Len(lines))
       /\ routing_table' = IF n = 0 THEN routing_table ELSE SubSeq(lines, 1, n)

Matches(r, ip) == \A k \in 1 .. r.mask : ip[k] = r.dest[k]

\* sr_get_longest_prefix_match() is called ...
StartLookup(ip) ==
    /\ ~lookup.busy
    /\ lookup' = [NoLookup EXCEPT !.busy = TRUE, !.ip = ip]
    /\ UNCHANGED routing_table

\* Slip: a mask has to be larger, so a default route is never found.
VisitLarger ==
    /\ lookup.busy
    /\ lookup.rt_walker <= Len(routing_table)
    /\ LET r    == routing_table[lookup.rt_walker]
           next == [lookup EXCEPT !.rt_walker = @ + 1]
       IN  lookup' = IF Matches(r, lookup.ip) /\ MaskValue[r.mask] > lookup.longest_mask
                       THEN [next EXCEPT !.longest_match = lookup.rt_walker,
                                         !.longest_mask = MaskValue[r.mask]]
                       ELSE next
    /\ UNCHANGED routing_table

\* ... looks at the next route ...
Visit ==
    /\ lookup.busy
    /\ lookup.rt_walker <= Len(routing_table)
    /\ LET r    == routing_table[lookup.rt_walker]
           next == [lookup EXCEPT !.rt_walker = @ + 1]
       IN  lookup' = IF Matches(r, lookup.ip) /\ MaskValue[r.mask] >= lookup.longest_mask
                       THEN [next EXCEPT !.longest_match = lookup.rt_walker,
                                         !.longest_mask = MaskValue[r.mask]]
                       ELSE next
    /\ UNCHANGED routing_table

\* ... and returns the best, or none.
Return ==
    /\ lookup.busy
    /\ lookup.rt_walker > Len(routing_table)
    /\ lookup' = [lookup EXCEPT !.busy = FALSE]
    /\ UNCHANGED routing_table

-----------------------------------------------------------------------------
\* Route i is better than route j for a packet both match: the longer prefix, and
\* among routes of one length the one that stands later in the file.
Better(i, j) ==
    \/ routing_table[i].mask > routing_table[j].mask
    \/ routing_table[i].mask = routing_table[j].mask /\ i >= j

\* sr_get_longest_prefix_match() returns the longest matching prefix, whatever
\* the order of the routes: a default route (mask 0) if nothing else matches, none
\* only if no route matches.
LongestPrefix ==
    lookup.busy /\ lookup.rt_walker > Len(routing_table) =>
       LET m == lookup.longest_match
           candidates == {i \in 1 .. Len(routing_table) : Matches(routing_table[i], lookup.ip)}
       IN  IF candidates = {} THEN m = 0
           ELSE m \in candidates /\ \A i \in candidates : Better(m, i)
=============================================================================
