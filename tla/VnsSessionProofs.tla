-------------------------- MODULE VnsSessionProofs --------------------------
(***************************************************************************)
(* The router reads the commands of its server as they were sent, verifies *)
(* the routes it then uses, and finds the longest matching prefix, for all *)
(* files, interfaces, commands, address widths and byte orders.            *)
(***************************************************************************)
EXTENDS VnsSession, TLAPS

USE ZenonT(20)

-----------------------------------------------------------------------------
(* The search in the routing table.                                        *)

Lookup == [busy : BOOLEAN, ip : Address, rt_walker : Nat \ {0},
           longest_match : Nat, longest_mask : Nat]

TableType == routing_table \in Seq(Route) /\ lookup \in Lookup

\* The routes that the search has seen and that match.
Seen == {i \in 1 .. Len(routing_table) :
            i < lookup.rt_walker /\ Matches(routing_table[i], lookup.ip)}

\* longest_match is the best of the routes seen, and longest_mask its mask.
BestSoFar ==
    LET m == lookup.longest_match
    IN  \/ m = 0 /\ lookup.longest_mask = 0 /\ Seen = {}
        \/ /\ m \in Seen
           /\ lookup.longest_mask = MaskValue[routing_table[m].mask]
           /\ \A i \in Seen : Better(m, i)

TableInv == TableType /\ (lookup.busy => BestSoFar)

\* Comparing masks as integers compares prefix lengths.
LEMMA MaskOrder ==
    ASSUME NEW l \in 0 .. Width, NEW m \in 0 .. Width
    PROVE  MaskValue[l] >= MaskValue[m] <=> l >= m
<1>1. MaskValue[l] \in Nat /\ MaskValue[m] \in Nat /\ l \in Nat /\ m \in Nat
  BY MaskAssumption, SMTT(30)
<1>2. /\ l < m => MaskValue[l] < MaskValue[m]
      /\ m < l => MaskValue[m] < MaskValue[l]
      /\ l = m => MaskValue[m] = MaskValue[l]
  BY MaskAssumption
<1> QED
  BY <1>1, <1>2, SMTT(30)

\* sr_load_rt() leaves a table of routes.
LEMMA LoadedRoutes ==
    ASSUME routing_table \in Seq(Route), NEW lines \in Seq(Route \cup {BadLine}),
           NEW ok, LoadRt(lines, ok)
    PROVE  routing_table' \in Seq(Route)
<1>1. PICK n \in 0 .. Len(lines) :
         /\ \A k \in 1 .. n : lines[k] # BadLine
         /\ routing_table' = IF n = 0 THEN routing_table ELSE SubSeq(lines, 1, n)
  BY DEF LoadRt
<1>2. \A k \in 1 .. n : lines[k] \in Route
  BY <1>1, SMTT(30)
<1>3. SubSeq(lines, 1, n) \in Seq(Route)
  BY <1>2, SMTT(30)
<1> QED
  BY <1>1, <1>3

\* Looking at one more route keeps the best one.
LEMMA VisitStep ==
    ASSUME TableInv, Visit PROVE TableInv'
<1> DEFINE w == lookup.rt_walker
           m == lookup.longest_match
           r == routing_table[w]
           takes == Matches(r, lookup.ip) /\ MaskValue[r.mask] >= lookup.longest_mask
<1>1. /\ lookup \in Lookup /\ lookup.busy /\ BestSoFar
      /\ routing_table \in Seq(Route) /\ routing_table' = routing_table
      /\ w \in 1 .. Len(routing_table) /\ Len(routing_table) \in Nat
  BY SMTT(30) DEF TableInv, TableType, Visit, Lookup
<1>2. \A i \in 1 .. Len(routing_table) :
         /\ routing_table[i] \in Route /\ routing_table[i].mask \in 0 .. Width
         /\ MaskValue[routing_table[i].mask] \in Nat
  <2> SUFFICES ASSUME NEW i \in 1 .. Len(routing_table)
               PROVE  /\ routing_table[i] \in Route /\ routing_table[i].mask \in 0 .. Width
                      /\ MaskValue[routing_table[i].mask] \in Nat
    OBVIOUS
  <2>1. routing_table[i] \in Route
    BY <1>1, SMTT(30)
  <2>2. routing_table[i].mask \in 0 .. Width
    BY <2>1 DEF Route
  <2> QED
    BY <2>1, <2>2, MaskAssumption
<1>3. /\ lookup' \in Lookup /\ lookup'.ip = lookup.ip /\ lookup'.rt_walker = w + 1
      /\ lookup'.longest_match = IF takes THEN w ELSE m
      /\ lookup'.longest_mask = IF takes THEN MaskValue[r.mask] ELSE lookup.longest_mask
  <2> DEFINE next == [lookup EXCEPT !.rt_walker = w + 1]
             best == [next EXCEPT !.longest_match = w, !.longest_mask = MaskValue[r.mask]]
  <2>1. lookup' = IF takes THEN best ELSE next
    BY DEF Visit
  <2>2. r \in Route /\ MaskValue[r.mask] \in Nat /\ w \in Nat \ {0}
    BY <1>1, <1>2, SMTT(30)
  <2> HIDE DEF takes
  <2>3. /\ next \in Lookup /\ next.ip = lookup.ip /\ next.rt_walker = w + 1
        /\ next.longest_match = m /\ next.longest_mask = lookup.longest_mask
    BY <1>1, <2>2, SMTT(30) DEF Lookup
  <2> HIDE DEF next
  <2>4. /\ best \in Lookup /\ best.ip = lookup.ip /\ best.rt_walker = w + 1
        /\ best.longest_match = w /\ best.longest_mask = MaskValue[r.mask]
    BY <2>2, <2>3 DEF Lookup
  <2> HIDE DEF best
  <2> QED
    BY <2>1, <2>3, <2>4
<1>4. Seen' = IF Matches(r, lookup.ip) THEN Seen \cup {w} ELSE Seen
  <2>1. Seen' = {i \in 1 .. Len(routing_table) :
                   i < w + 1 /\ Matches(routing_table[i], lookup.ip)}
    BY <1>1, <1>3 DEF Seen, Matches
  <2>2. \A i \in 1 .. Len(routing_table) : i < w + 1 <=> i < w \/ i = w
    BY <1>1, SMTT(30)
  <2> QED
    BY <1>1, <2>1, <2>2 DEF Seen
<1>5. \A i, j : Better(i, j)' <=> Better(i, j)
  BY <1>1 DEF Better
<1>6. CASE takes
  <2>1. \A i \in Seen : Better(w, i)
    <3> SUFFICES ASSUME NEW i \in Seen PROVE Better(w, i)
      OBVIOUS
    <3>1. /\ i \in 1 .. Len(routing_table) /\ i < w
          /\ m \in Seen /\ m \in 1 .. Len(routing_table) /\ Better(m, i)
          /\ lookup.longest_mask = MaskValue[routing_table[m].mask]
      BY <1>1 DEF BestSoFar, Seen
    <3>2. r.mask >= routing_table[m].mask
      BY <1>1, <1>2, <1>6, <3>1, MaskOrder
    <3> QED
      BY <1>1, <1>2, <3>1, <3>2, SMTT(30) DEF Better
  <2>2. Better(w, w)
    BY <1>1, <1>2, SMTT(30) DEF Better
  <2>3. /\ lookup'.longest_match = w /\ Seen' = Seen \cup {w}
        /\ lookup'.longest_mask = MaskValue[routing_table'[w].mask]
    BY <1>1, <1>3, <1>4, <1>6
  <2>4. BestSoFar'
    BY <1>5, <2>1, <2>2, <2>3 DEF BestSoFar
  <2> QED
    BY <1>1, <1>3, <2>4 DEF TableInv, TableType
<1>7. CASE ~takes
  <2>1. lookup'.longest_match = m /\ lookup'.longest_mask = lookup.longest_mask
    BY <1>3, <1>7
  <2>2. CASE ~Matches(r, lookup.ip)
    <3>1. Seen' = Seen
      BY <1>4, <2>2
    <3>2. BestSoFar'
      BY <1>1, <1>5, <2>1, <3>1 DEF BestSoFar
    <3> QED
      BY <1>1, <1>3, <3>2 DEF TableInv, TableType
  <2>3. CASE Matches(r, lookup.ip)
    <3>1. Seen' = Seen \cup {w} /\ ~(MaskValue[r.mask] >= lookup.longest_mask)
      BY <1>4, <1>7, <2>3
    <3>2. lookup.longest_mask # 0
      BY <1>1, <1>2, <3>1, SMTT(30)
    <3>3. /\ m \in Seen /\ m \in 1 .. Len(routing_table)
          /\ lookup.longest_mask = MaskValue[routing_table[m].mask]
          /\ \A i \in Seen : Better(m, i)
      BY <1>1, <3>2 DEF BestSoFar, Seen
    <3>4. ~(r.mask >= routing_table[m].mask)
      BY <1>1, <1>2, <3>1, <3>3, MaskOrder
    <3>5. Better(m, w)
      BY <1>1, <1>2, <3>3, <3>4, SMTT(30) DEF Better
    <3>6. BestSoFar'
      <4>1. PICK n : n = m
        OBVIOUS
      <4>2. \A i \in Seen' : Better(n, i)'
        BY <1>5, <3>1, <3>3, <3>5, <4>1
      <4>3. n \in Seen' /\ lookup'.longest_mask = MaskValue[routing_table'[n].mask]
        BY <1>1, <2>1, <3>1, <3>3, <4>1
      <4> QED
        BY <2>1, <4>1, <4>2, <4>3 DEF BestSoFar
    <3> QED
      BY <1>1, <1>3, <3>6 DEF TableInv, TableType
  <2> QED
    BY <2>2, <2>3
<1> QED
  BY <1>6, <1>7

\* No search is under way at first.
LEMMA NoLookupFacts == NoLookup \in Lookup /\ NoLookup.busy = FALSE
  BY MaskAssumption, SMTT(30) DEF NoLookup, Lookup, Address

\* A search begins with no route seen.
LEMMA StartLookupStep ==
    ASSUME TableInv, NEW ip \in Address, StartLookup(ip) PROVE TableInv'
<1>0. routing_table \in Seq(Route)
  BY DEF TableInv, TableType
<1>1. /\ lookup' \in Lookup /\ lookup'.rt_walker = 1
      /\ lookup'.longest_match = 0 /\ lookup'.longest_mask = 0
      /\ routing_table' = routing_table
  BY NoLookupFacts DEF StartLookup, NoLookup, Lookup
<1>2. Seen' = {}
  BY <1>0, <1>1, SMTT(30) DEF Seen
<1> QED
  BY <1>0, <1>1, <1>2 DEF TableInv, TableType, BestSoFar

\* A search ends.
LEMMA ReturnStep ==
    ASSUME TableInv, Return PROVE TableInv' /\ lookup'.busy = FALSE
<1>1. lookup' \in Lookup /\ lookup'.busy = FALSE /\ routing_table' = routing_table
  BY DEF Return, Lookup, TableInv, TableType
<1> QED
  BY <1>1 DEF TableInv, TableType

\* A step that leaves the table and the search alone.
LEMMA TableStutters ==
    ASSUME TableInv, UNCHANGED tableVars PROVE TableInv'
  BY DEF tableVars, TableInv, TableType, BestSoFar, Seen, Better, Matches

\* The invariant makes the result of a search the longest matching prefix.
LEMMA BestIsLongest == TableInv => LongestPrefix
<1> SUFFICES ASSUME TableInv, lookup.busy, lookup.rt_walker > Len(routing_table)
             PROVE  LET m == lookup.longest_match
                        c == {i \in 1 .. Len(routing_table) :
                                 Matches(routing_table[i], lookup.ip)}
                    IN  IF c = {} THEN m = 0 ELSE m \in c /\ \A i \in c : Better(m, i)
  BY DEF LongestPrefix
<1>1. \A i \in 1 .. Len(routing_table) : i < lookup.rt_walker
  BY SMTT(30) DEF TableInv, TableType, Lookup
<1>2. Seen = {i \in 1 .. Len(routing_table) : Matches(routing_table[i], lookup.ip)}
  BY <1>1 DEF Seen
<1> QED
  BY <1>2 DEF TableInv, BestSoFar

-----------------------------------------------------------------------------
(* The stream of commands.                                                 *)

CommandType == [type : {"AUTH_REQUEST", "AUTH_STATUS", "BANNER", "CLOSE", "OTHER",
                        "RTABLE", "HWINFO", "PACKET"},
                len : Nat, ok : BOOLEAN, names : Seq(Names),
                lines : Seq(Route \cup {BadLine}), ip : Address]

\* The bytes s are those of the commands cs one after the other: command i
\* begins after the first at[i] bytes.
FramedAt(s, cs, at) ==
    /\ at[1] = 0 /\ at[Len(cs) + 1] = Len(s)
    /\ \A i, j \in 1 .. Len(cs) + 1 : i <= j => at[i] <= at[j]
    /\ \A i \in 1 .. Len(cs) :
          /\ at[i + 1] = at[i] + cs[i].len
          /\ \A k \in 1 .. cs[i].len : s[at[i] + k] = <<cs[i], k>>

Framed(s, cs) == \E at \in [1 .. Len(cs) + 1 -> 0 .. Len(s)] : FramedAt(s, cs, at)

\* A command of the server is well-formed and longer than its length field.
LEMMA CommandFacts ==
    ASSUME NEW c \in Commands
    PROVE  c \in CommandType /\ c.len \in Nat /\ c.len > LengthSize
<1>1. /\ LengthSize \in Nat /\ MaxLength \in Nat /\ LengthSize < MaxLength
      /\ LengthSize + 1 \in Nat /\ LengthSize + 2 \in Nat /\ MaxLength + 1 \in Nat
      /\ LengthSize + 1 > LengthSize /\ LengthSize + 2 > LengthSize
      /\ MaxLength + 1 > LengthSize
  BY SessionAssumption, SMTT(30)
<1>2. <<>> \in Seq(Names) /\ <<>> \in Seq(Route \cup {BadLine})
  BY SMTT(30)
<1>3. NoLookup.ip \in Address
  BY NoLookupFacts DEF Lookup
<1>4. Blank \in CommandType /\ Blank.len = LengthSize + 1
  BY <1>1, <1>2, <1>3 DEF Blank, CommandType
<1>5. CASE \E type \in {"AUTH_REQUEST", "BANNER", "CLOSE", "OTHER"} :
             c = [Blank EXCEPT !.type = type]
  BY <1>1, <1>4, <1>5, SMTT(30) DEF CommandType
<1>6. CASE \E ok \in BOOLEAN : c = [Blank EXCEPT !.type = "AUTH_STATUS", !.ok = ok]
  BY <1>1, <1>4, <1>6, ZenonT(30) DEF CommandType
<1>7. CASE \E lines \in Files : c = [Blank EXCEPT !.type = "RTABLE", !.lines = lines]
  <2>1. PICK lines \in Files : c = [Blank EXCEPT !.type = "RTABLE", !.lines = lines]
    BY <1>7
  <2>2. lines \in Seq(Route \cup {BadLine})
    BY FileAssumption
  <2> QED
    BY <1>1, <1>4, <2>1, <2>2 DEF CommandType
<1>8. CASE \E names \in Hardware : c = [Blank EXCEPT !.type = "HWINFO", !.names = names]
  <2>1. PICK names \in Hardware : c = [Blank EXCEPT !.type = "HWINFO", !.names = names]
    BY <1>8
  <2>2. names \in Seq(Names)
    BY SessionAssumption
  <2> QED
    BY <1>1, <1>4, <2>1, <2>2 DEF CommandType
<1>9. CASE \E to \in Names \X Address :
             c = [Blank EXCEPT !.type = "PACKET", !.len = LengthSize + 2,
                               !.names = <<to[1]>>, !.ip = to[2]]
  <2>1. PICK to \in Names \X Address :
           c = [Blank EXCEPT !.type = "PACKET", !.len = LengthSize + 2,
                             !.names = <<to[1]>>, !.ip = to[2]]
    BY <1>9
  <2>2. <<to[1]>> \in Seq(Names) /\ to[2] \in Address
    BY SMTT(30)
  <2> QED
    BY <1>1, <1>4, <2>1, <2>2 DEF CommandType
<1>10. CASE c = [Blank EXCEPT !.len = MaxLength + 1]
  BY <1>1, <1>4, <1>10 DEF CommandType
<1>11. \/ \E type \in {"AUTH_REQUEST", "BANNER", "CLOSE", "OTHER"} :
             c = [Blank EXCEPT !.type = type]
       \/ \E ok \in BOOLEAN : c = [Blank EXCEPT !.type = "AUTH_STATUS", !.ok = ok]
       \/ \E lines \in Files : c = [Blank EXCEPT !.type = "RTABLE", !.lines = lines]
       \/ \E names \in Hardware : c = [Blank EXCEPT !.type = "HWINFO", !.names = names]
       \/ \E to \in Names \X Address :
             c = [Blank EXCEPT !.type = "PACKET", !.len = LengthSize + 2,
                               !.names = <<to[1]>>, !.ip = to[2]]
       \/ c = [Blank EXCEPT !.len = MaxLength + 1]
  <2> DEFINE packets == {[Blank EXCEPT !.type = "PACKET", !.len = LengthSize + 2,
                                       !.names = <<to[1]>>, !.ip = to[2]]
                           : to \in Names \X Address}
             statuses == {[Blank EXCEPT !.type = "AUTH_STATUS", !.ok = ok] : ok \in BOOLEAN}
             tables == {[Blank EXCEPT !.type = "RTABLE", !.lines = lines] : lines \in Files}
             hardware == {[Blank EXCEPT !.type = "HWINFO", !.names = names] : names \in Hardware}
             others == {[Blank EXCEPT !.type = type] :
                           type \in {"AUTH_REQUEST", "BANNER", "CLOSE", "OTHER"}}
             long == [Blank EXCEPT !.len = MaxLength + 1]
  <2>1. Commands = others \cup statuses \cup tables \cup hardware \cup packets \cup {long}
    BY DEF Commands
  <2>2. c \in packets => \E to \in Names \X Address :
             c = [Blank EXCEPT !.type = "PACKET", !.len = LengthSize + 2,
                               !.names = <<to[1]>>, !.ip = to[2]]
    OBVIOUS
  <2>3. c \in statuses =>
           \E ok \in BOOLEAN : c = [Blank EXCEPT !.type = "AUTH_STATUS", !.ok = ok]
    OBVIOUS
  <2>4. c \in tables =>
           \E lines \in Files : c = [Blank EXCEPT !.type = "RTABLE", !.lines = lines]
    OBVIOUS
  <2>5. c \in hardware =>
           \E names \in Hardware : c = [Blank EXCEPT !.type = "HWINFO", !.names = names]
    OBVIOUS
  <2>6. c \in others =>
           \E type \in {"AUTH_REQUEST", "BANNER", "CLOSE", "OTHER"} :
              c = [Blank EXCEPT !.type = type]
    OBVIOUS
  <2> HIDE DEF packets, statuses, tables, hardware, others
  <2>7. \/ c \in packets \/ c \in statuses \/ c \in tables \/ c \in hardware
        \/ c \in others \/ c = long
    BY <2>1
  <2> QED
    BY <2>2, <2>3, <2>4, <2>5, <2>6, <2>7
<1> QED
  BY <1>5, <1>6, <1>7, <1>8, <1>9, <1>10, <1>11

\* Nothing sent, nothing on the connection.
LEMMA FramedEmpty == Framed(<<>>, <<>>)
<1> DEFINE at == [i \in 1 .. 1 |-> 0]
<1>1. at \in [1 .. Len(<<>>) + 1 -> 0 .. Len(<<>>)] /\ FramedAt(<<>>, <<>>, at)
  BY SMTT(30) DEF FramedAt
<1> QED
  BY <1>1 DEF Framed

\* A command is appended to the stream.
LEMMA FramedAppend ==
    ASSUME NEW S, NEW s \in Seq(S), NEW cs \in Seq(Commands), NEW c \in Commands,
           Framed(s, cs), Bytes(c) \in Seq(S)
    PROVE  Framed(s \o Bytes(c), Append(cs, c))
<1>1. PICK at \in [1 .. Len(cs) + 1 -> 0 .. Len(s)] : FramedAt(s, cs, at)
  BY DEF Framed
<1> DEFINE t  == s \o Bytes(c)
           ds == Append(cs, c)
           n  == Len(cs)
           bt == [i \in 1 .. n + 2 |-> IF i <= n + 1 THEN at[i] ELSE Len(t)]
<1>2. /\ n \in Nat /\ Len(s) \in Nat /\ c.len \in Nat
      /\ Len(Bytes(c)) = c.len /\ \A k \in 1 .. c.len : Bytes(c)[k] = <<c, k>>
  BY CommandFacts, SMTT(30) DEF Bytes
<1>3. /\ t \in Seq(S) /\ Len(t) = Len(s) + c.len
      /\ \A j \in 1 .. Len(s) : t[j] = s[j]
      /\ \A k \in 1 .. c.len : t[Len(s) + k] = <<c, k>>
  BY <1>2, SMTT(30)
<1>4. /\ Len(ds) = n + 1 /\ ds[n + 1] = c
      /\ \A i \in 1 .. n : ds[i] = cs[i] /\ ds[i].len \in Nat
  BY <1>2, CommandFacts, SMTT(30)
<1> HIDE DEF t, ds
<1>5. bt \in [1 .. Len(ds) + 1 -> 0 .. Len(t)]
  BY <1>2, <1>3, <1>4, SMTT(30)
<1>6. bt[1] = 0 /\ bt[Len(ds) + 1] = Len(t)
  BY <1>1, <1>2, <1>3, <1>4, SMTT(30) DEF FramedAt
<1>7. ASSUME NEW i \in 1 .. n
      PROVE  /\ bt[i + 1] = bt[i] + ds[i].len
             /\ \A k \in 1 .. ds[i].len : t[bt[i] + k] = <<ds[i], k>>
  <2>1. /\ i \in 1 .. n + 1 /\ i + 1 \in 1 .. n + 1
        /\ i \in 1 .. n + 2 /\ i + 1 \in 1 .. n + 2
        /\ i <= n + 1 /\ i + 1 <= n + 1
    BY <1>2, <1>7, SMTT(30)
  <2>2. /\ bt[i] = at[i] /\ bt[i + 1] = at[i + 1]
        /\ at[i] \in 0 .. Len(s) /\ at[i + 1] \in 0 .. Len(s)
    BY <2>1
  <2>3. /\ at[i + 1] = at[i] + cs[i].len
        /\ \A k \in 1 .. cs[i].len : s[at[i] + k] = <<cs[i], k>>
    BY <1>1, <1>7 DEF FramedAt
  <2>4. ASSUME NEW k \in 1 .. cs[i].len PROVE at[i] + k \in 1 .. Len(s)
    BY <1>2, <1>4, <2>2, <2>3, <2>4, SMTT(30)
  <2> HIDE DEF bt
  <2> QED
    BY <1>3, <1>4, <2>2, <2>3, <2>4
<1>8. /\ bt[n + 2] = bt[n + 1] + ds[n + 1].len
      /\ \A k \in 1 .. ds[n + 1].len : t[bt[n + 1] + k] = <<ds[n + 1], k>>
  <2>1. bt[n + 2] = Len(t) /\ bt[n + 1] = at[n + 1] /\ at[n + 1] = Len(s)
    BY <1>1, <1>2, SMTT(30) DEF FramedAt
  <2> HIDE DEF bt
  <2> QED
    BY <1>3, <1>4, <2>1
<1>9. ASSUME NEW i \in 1 .. Len(ds) + 1, NEW j \in 1 .. Len(ds) + 1, i <= j
      PROVE  bt[i] <= bt[j]
  <2>1. CASE j <= n + 1
    BY <1>1, <1>2, <1>4, <1>9, <2>1, SMTT(30) DEF FramedAt
  <2>2. CASE j = n + 2
    <3>1. bt[i] \in 0 .. Len(t)
      BY <1>5
    <3>2. j = Len(ds) + 1
      BY <1>2, <1>4, <2>2, SMTT(30)
    <3> QED
      BY <1>2, <1>3, <1>6, <3>1, <3>2, SMTT(30)
  <2> QED
    BY <1>2, <1>4, <1>9, <2>1, <2>2, SMTT(30)
<1>10. FramedAt(t, ds, bt)
  <2>1. \A i \in 1 .. Len(ds) : i \in 1 .. n \/ i = n + 1
    BY <1>2, <1>4, SMTT(30)
  <2>2. n + 1 + 1 = n + 2
    BY <1>2, SMTT(30)
  <2> HIDE DEF bt, n
  <2> QED
    BY <1>6, <1>7, <1>8, <1>9, <2>1, <2>2 DEF FramedAt
<1> QED
  BY <1>5, <1>10 DEF Framed, t, ds

\* A stream that is not empty begins with the first command.
LEMMA FramedHead ==
    ASSUME NEW S, NEW s \in Seq(S), NEW cs \in Seq(Commands), Framed(s, cs), s # <<>>
    PROVE  /\ cs # <<>> /\ cs[1] \in Commands /\ cs[1].len <= Len(s)
           /\ \A k \in 1 .. cs[1].len : s[k] = <<cs[1], k>>
<1>1. PICK at \in [1 .. Len(cs) + 1 -> 0 .. Len(s)] : FramedAt(s, cs, at)
  BY DEF Framed
<1>2. Len(s) # 0
  BY SMTT(30)
<1>3. Len(cs) # 0
  BY <1>1, <1>2, SMTT(30) DEF FramedAt
<1>4. cs # <<>> /\ cs[1] \in Commands /\ 1 \in 1 .. Len(cs) /\ 2 \in 1 .. Len(cs) + 1
  BY <1>3, SMTT(30)
<1>5. cs[1].len \in Nat
  BY <1>4, CommandFacts
<1>6. /\ at[1] = 0 /\ at[1 + 1] = at[1] + cs[1].len
      /\ \A k \in 1 .. cs[1].len : s[at[1] + k] = <<cs[1], k>>
  BY <1>1, <1>4 DEF FramedAt
<1>7. at[2] \in 0 .. Len(s) /\ 1 + 1 = 2
  BY <1>4, SMTT(30)
<1> QED
  BY <1>4, <1>5, <1>6, <1>7, SMTT(30)

\* Without its first command the stream is that of the others.
LEMMA FramedTail ==
    ASSUME NEW S, NEW s \in Seq(S), NEW cs \in Seq(Commands), Framed(s, cs), cs # <<>>
    PROVE  Framed(SubSeq(s, cs[1].len + 1, Len(s)), Tail(cs))
<1>1. PICK at \in [1 .. Len(cs) + 1 -> 0 .. Len(s)] : FramedAt(s, cs, at)
  BY DEF Framed
<1> DEFINE m  == cs[1].len
           t  == SubSeq(s, m + 1, Len(s))
           ds == Tail(cs)
           n  == Len(cs) - 1
           bt == [i \in 1 .. n + 1 |-> at[i + 1] - m]
<1>2. n \in Nat /\ Len(cs) = n + 1 /\ cs[1] \in Commands /\ m \in Nat
  BY CommandFacts, SMTT(30)
<1>3. at[1] = 0 /\ at[2] = m /\ m \in 0 .. Len(s)
  BY <1>1, <1>2, SMTT(30) DEF FramedAt
<1>4. /\ Len(s) \in Nat /\ t \in Seq(S) /\ Len(t) = Len(s) - m
      /\ \A j \in 1 .. Len(t) : t[j] = s[m + j]
  <2>1. m + 1 \in Nat /\ Len(s) \in Nat /\ m <= Len(s)
    BY <1>3, SMTT(30)
  <2>2. t \in Seq(S) /\ Len(t) = Len(s) - m
    BY <2>1, <1>2, SMTT(30)
  <2>3. ASSUME NEW j \in 1 .. Len(s) - m PROVE t[j] = s[m + j]
    BY <2>1, <2>3, <1>2, SMTT(30)
  <2> HIDE DEF t
  <2> QED
    BY <2>1, <2>2, <2>3
<1>5. Len(ds) = n /\ \A i \in 1 .. n : ds[i] = cs[i + 1]
  BY <1>2, SMTT(30)
<1> HIDE DEF t, ds
<1>6. \A i \in 1 .. n + 1 : at[i + 1] \in m .. Len(s)
  <2> SUFFICES ASSUME NEW i \in 1 .. n + 1 PROVE at[i + 1] \in m .. Len(s)
    OBVIOUS
  <2>1. i + 1 \in 1 .. Len(cs) + 1 /\ 2 \in 1 .. Len(cs) + 1 /\ 2 <= i + 1
    BY <1>2, SMTT(30)
  <2>2. at[2] <= at[i + 1] /\ at[i + 1] \in 0 .. Len(s)
    BY <1>1, <2>1 DEF FramedAt
  <2> QED
    BY <1>2, <1>3, <1>4, <2>2, SMTT(30)
<1>7. bt \in [1 .. Len(ds) + 1 -> 0 .. Len(t)]
  BY <1>2, <1>3, <1>4, <1>5, <1>6, SMTT(30)
<1>8. bt[1] = 0 /\ bt[Len(ds) + 1] = Len(t)
  <2>1. at[Len(cs) + 1] = Len(s) /\ bt[1] = at[1 + 1] - m /\ bt[n + 1] = at[n + 1 + 1] - m
    BY <1>1, <1>2, SMTT(30) DEF FramedAt
  <2> HIDE DEF bt
  <2> QED
    BY <1>2, <1>3, <1>4, <1>5, <2>1, SMTT(30)
<1>9. ASSUME NEW i \in 1 .. Len(ds)
      PROVE  /\ bt[i + 1] = bt[i] + ds[i].len
             /\ \A k \in 1 .. ds[i].len : t[bt[i] + k] = <<ds[i], k>>
  <2>1. /\ i \in 1 .. n + 1 /\ i + 1 \in 1 .. n + 1 /\ i + 1 \in 1 .. Len(cs)
        /\ ds[i] = cs[i + 1]
    BY <1>2, <1>5, SMTT(30)
  <2>2. bt[i] = at[i + 1] - m /\ bt[i + 1] = at[i + 1 + 1] - m
    BY <2>1
  <2>3. cs[i + 1].len \in Nat
    BY <2>1, CommandFacts, SMTT(30)
  <2>4. /\ at[i + 1 + 1] = at[i + 1] + cs[i + 1].len
        /\ \A k \in 1 .. cs[i + 1].len : s[at[i + 1] + k] = <<cs[i + 1], k>>
    BY <1>1, <2>1 DEF FramedAt
  <2>5. at[i + 1] \in m .. Len(s) /\ at[i + 1 + 1] \in m .. Len(s)
    BY <1>6, <2>1
  <2> HIDE DEF bt
  <2>6. bt[i + 1] = bt[i] + ds[i].len
    BY <1>2, <2>1, <2>2, <2>3, <2>4, <2>5, SMTT(30)
  <2>7. ASSUME NEW k \in 1 .. ds[i].len PROVE t[bt[i] + k] = <<ds[i], k>>
    <3>1. bt[i] + k \in 1 .. Len(t) /\ m + (bt[i] + k) = at[i + 1] + k
      <4>1. k \in 1 .. cs[i + 1].len
        BY <2>1, <2>7
      <4>2. at[i + 1] + k <= at[i + 1 + 1] /\ at[i + 1 + 1] <= Len(s)
        BY <1>2, <1>4, <2>3, <2>4, <2>5, <4>1, SMTT(30)
      <4>3. bt[i] + k = at[i + 1] + k - m /\ k >= 1 /\ k \in Nat
        BY <1>2, <2>2, <2>3, <2>5, <4>1, SMTT(30)
      <4>4. at[i + 1] \in Int /\ at[i + 1 + 1] \in Int /\ at[i + 1] >= m /\ Len(s) \in Nat
        BY <1>2, <1>4, <2>5, SMTT(30)
      <4>5. Len(t) = Len(s) - m /\ m \in Nat
        BY <1>2, <1>4
      <4> HIDE DEF m, n
      <4>6. bt[i] + k >= 1 /\ m + (bt[i] + k) = at[i + 1] + k
        BY <4>3, <4>4, <4>5, SMTT(30)
      <4>7. bt[i] + k <= Len(s) - m /\ bt[i] + k \in Int
        <5>1. PICK a, b : a = at[i + 1] /\ b = at[i + 1 + 1]
          OBVIOUS
        <5>2. a + k <= b /\ b <= Len(s) /\ a \in Int /\ b \in Int /\ bt[i] + k = a + k - m
          BY <4>2, <4>3, <4>4, <5>1
        <5> QED
          BY <4>3, <4>4, <4>5, <5>2, SMTT(30)
      <4> QED
        BY <4>4, <4>5, <4>6, <4>7, SMTT(30)
    <3> QED
      BY <1>4, <2>1, <2>4, <2>7, <3>1
  <2> QED
    BY <2>6, <2>7
<1>10. ASSUME NEW i \in 1 .. Len(ds) + 1, NEW j \in 1 .. Len(ds) + 1, i <= j
       PROVE  bt[i] <= bt[j]
  <2>1. /\ i \in 1 .. n + 1 /\ j \in 1 .. n + 1 /\ i + 1 <= j + 1
        /\ i + 1 \in 1 .. Len(cs) + 1 /\ j + 1 \in 1 .. Len(cs) + 1
    BY <1>2, <1>5, <1>10, SMTT(30)
  <2>2. bt[i] = at[i + 1] - m /\ bt[j] = at[j + 1] - m
    BY <2>1
  <2>3. at[i + 1] <= at[j + 1] /\ at[i + 1] \in m .. Len(s) /\ at[j + 1] \in m .. Len(s)
    BY <1>1, <1>6, <2>1 DEF FramedAt
  <2> HIDE DEF bt
  <2> QED
    BY <1>2, <1>4, <2>2, <2>3, SMTT(30)
<1>11. FramedAt(t, ds, bt)
  <2> HIDE DEF bt
  <2> QED
    BY <1>8, <1>9, <1>10 DEF FramedAt
<1> QED
  BY <1>7, <1>11 DEF Framed, t, ds

-----------------------------------------------------------------------------
(* The inductive invariant of the session.                                 *)

Byte == Commands \X Nat

SessionType ==
    /\ rtable \in FileNames
    /\ files \in [FileNames -> Seq(Route \cup {BadLine})]
    /\ if_list \in Seq(Names)
    /\ buf \in Seq(Byte) /\ wire \in Seq(Byte)
    /\ pending \in Seq(Commands)
    /\ len \in Nat

\* What was read of the current command and what is on the connection are the
\* commands that were not handled, and len is the length of the first one from
\* the moment its length field was read.
Framing ==
    /\ Framed(buf \o wire, pending)
    /\ \/ len = 0 /\ Len(buf) < LengthSize
       \/ pending # <<>> /\ len = pending[1].len /\ Len(buf) <= len

SessionInv ==
    /\ SessionType
    /\ TableInv
    /\ ~Stopped => Framing
    /\ pc # "loop" => ~lookup.busy
    /\ ready => pc \in {"loop", "stopped"} /\ RoutesVerified

\* The bytes of a command.
LEMMA BytesFacts ==
    ASSUME NEW c \in Commands
    PROVE  /\ Bytes(c) \in Seq(Byte) /\ Len(Bytes(c)) = c.len
           /\ \A k \in 1 .. c.len : Bytes(c)[k] = <<c, k>>
<1>1. c.len \in Nat
  BY CommandFacts
<1>2. \A k \in 1 .. c.len : <<c, k>> \in Byte
  BY <1>1, SMTT(30) DEF Byte
<1> QED
  BY <1>1, <1>2, SMTT(30) DEF Bytes

\* Sequences of bytes that agree byte by byte are the same.
LEMMA SameBytes ==
    ASSUME NEW S, NEW s \in Seq(S), NEW t \in Seq(S), Len(s) = Len(t),
           \A k \in 1 .. Len(s) : s[k] = t[k]
    PROVE  s = t
  BY SMTT(30)

\* What a concatenation holds.
LEMMA ConcatFacts ==
    ASSUME NEW S, NEW s \in Seq(S), NEW t \in Seq(S)
    PROVE  /\ s \o t \in Seq(S) /\ Len(s) \in Nat /\ Len(t) \in Nat
           /\ Len(s \o t) = Len(s) + Len(t)
           /\ \A i \in 1 .. Len(s) : (s \o t)[i] = s[i]
           /\ \A i \in 1 .. Len(t) : (s \o t)[Len(s) + i] = t[i]
  BY SMTT(30)

\* The first bytes of the stream are those of the first command that was not
\* handled.
LEMMA FirstCommand ==
    ASSUME SessionInv, Framing, NEW bytes \in Seq(Byte), NEW n \in Nat \ {0},
           Len(bytes) = n, n <= Len(buf \o wire),
           \A k \in 1 .. n : bytes[k] = (buf \o wire)[k]
    PROVE  /\ pending # <<>> /\ pending[1] \in Commands
           /\ \A k \in 1 .. n : k <= pending[1].len => bytes[k] = Bytes(pending[1])[k]
<1> DEFINE s == buf \o wire
<1>1. s \in Seq(Byte) /\ pending \in Seq(Commands) /\ Framed(s, pending)
  BY SMTT(30) DEF SessionInv, SessionType, Framing
<1>2. Len(s) # 0
  BY <1>1, SMTT(30)
<1>3. s # <<>>
  BY <1>2, SMTT(30)
<1> HIDE DEF s
<1>4. /\ pending # <<>> /\ pending[1] \in Commands
      /\ \A k \in 1 .. pending[1].len : s[k] = <<pending[1], k>>
  BY <1>1, <1>3, FramedHead
<1>5. /\ pending[1].len \in Nat
      /\ \A k \in 1 .. pending[1].len : Bytes(pending[1])[k] = <<pending[1], k>>
  BY <1>4, BytesFacts, CommandFacts
<1>6. \A k \in 1 .. n : k <= pending[1].len => k \in 1 .. pending[1].len
  BY <1>5, SMTT(30)
<1> QED
  BY <1>4, <1>5, <1>6 DEF s

\* A complete command is the first one that was not handled.
LEMMA CompleteFacts ==
    ASSUME SessionInv, Complete
    PROVE  /\ Framing /\ pending # <<>> /\ pending[1] \in Commands
           /\ buf = Bytes(pending[1]) /\ Command = pending[1]
           /\ len = pending[1].len /\ pc \in DOMAIN Expected /\ ~lookup.busy
<1>1. pc \in DOMAIN Expected /\ ~lookup.busy /\ len > 0 /\ Len(buf) = len /\ len \in Nat
  BY DEF Complete, Reading, SessionInv, SessionType
<1>2. ~Stopped
  BY <1>1 DEF Stopped, Expected
<1>3. Framing
  BY <1>2 DEF SessionInv
<1>4. pending # <<>> /\ len = pending[1].len
  BY <1>1, <1>3, SMTT(30) DEF Framing
<1>5. /\ buf \in Seq(Byte) /\ wire \in Seq(Byte) /\ len <= Len(buf \o wire)
      /\ \A k \in 1 .. len : buf[k] = (buf \o wire)[k]
  BY <1>1, SMTT(30) DEF SessionInv, SessionType
<1>6. /\ pending[1] \in Commands
      /\ \A k \in 1 .. len : k <= pending[1].len => buf[k] = Bytes(pending[1])[k]
  BY <1>1, <1>3, <1>5, FirstCommand, SMTT(30)
<1>7. /\ Bytes(pending[1]) \in Seq(Byte) /\ Len(Bytes(pending[1])) = len
      /\ pending[1].len > LengthSize
      /\ \A k \in 1 .. len : Bytes(pending[1])[k] = <<pending[1], k>>
  BY <1>4, <1>6, BytesFacts, CommandFacts
<1>8. \A k \in 1 .. len : k <= pending[1].len
  BY <1>1, <1>4, SMTT(30)
<1>9. buf = Bytes(pending[1])
  BY <1>1, <1>5, <1>6, <1>7, <1>8, SameBytes
<1>10. LengthSize + 1 \in 1 .. len
  BY <1>1, <1>4, <1>7, SessionAssumption, SMTT(30)
<1>11. Command = pending[1]
  BY <1>7, <1>9, <1>10, SMTT(30) DEF Command
<1> QED
  BY <1>1, <1>3, <1>4, <1>6, <1>9, <1>11

\* When a command is done with, the stream goes on with the next one.
LEMMA DoneStep ==
    ASSUME SessionInv, Complete, NEW places, Done(places)
    PROVE  /\ Framing' /\ pc' \in places /\ len' \in Nat
           /\ buf' \in Seq(Byte) /\ wire' \in Seq(Byte)
           /\ pending' \in Seq(Commands) /\ rtable' = rtable
<1> DEFINE s == buf \o wire
<1>1. /\ buf' = <<>> /\ len' = 0 /\ wire' = wire /\ pending' = Tail(pending)
      /\ pc' \in places /\ rtable' = rtable
  BY DEF Done
<1>2. /\ pending # <<>> /\ len = pending[1].len /\ Framed(s, pending) /\ Len(buf) = len
  BY CompleteFacts DEF Framing, Complete
<1>3. buf \in Seq(Byte) /\ wire \in Seq(Byte) /\ pending \in Seq(Commands) /\ s \in Seq(Byte)
  BY SMTT(30) DEF SessionInv, SessionType
<1>4. SubSeq(s, Len(buf) + 1, Len(s)) = wire
  <2> DEFINE t == SubSeq(s, Len(buf) + 1, Len(s))
  <2>1. Len(s) = Len(buf) + Len(wire) /\ Len(buf) \in Nat /\ Len(wire) \in Nat
    BY <1>3, SMTT(30)
  <2>2. t \in Seq(Byte) /\ Len(t) = Len(wire)
    BY <1>3, <2>1, SMTT(30)
  <2>3. \A k \in 1 .. Len(t) : t[k] = wire[k]
    BY <1>3, <2>1, <2>2, SMTT(30)
  <2> HIDE DEF t
  <2> QED
    BY <1>3, <2>2, <2>3, SameBytes DEF t
<1>5. Framed(wire, Tail(pending))
  BY <1>2, <1>3, <1>4, FramedTail
<1>6. buf' \o wire' = wire
  BY <1>1, <1>3, SMTT(30)
<1>7. Framing'
  <2>1. Len(buf') < LengthSize
    BY <1>1, SessionAssumption, SMTT(30)
  <2> QED
    BY <1>1, <1>5, <1>6, <2>1 DEF Framing
<1>8. /\ buf' \in Seq(Byte) /\ wire' \in Seq(Byte) /\ pending' \in Seq(Commands)
      /\ len' \in Nat
  BY <1>1, <1>2, <1>3, SMTT(30)
<1> QED
  BY <1>1, <1>7, <1>8

\* recv() moves bytes from the connection to the end of buf.
LEMMA ReadStep ==
    ASSUME SessionInv, Reading, NEW n \in Nat \ {0}, NEW bytes \in Received(n), Read(bytes),
           buf' = buf \o bytes
    PROVE  /\ bytes \in Seq(Byte) /\ Len(bytes) \in 1 .. n
           /\ buf' \in Seq(Byte) /\ wire' \in Seq(Byte)
           /\ Len(buf') = Len(buf) + Len(bytes)
           /\ buf' \o wire' = buf \o wire
<1>1. buf \in Seq(Byte) /\ wire \in Seq(Byte) /\ Len(wire) \in Nat /\ Len(buf) \in Nat
  BY SMTT(30) DEF SessionInv, SessionType
<1>2. PICK k \in 1 .. IF n < Len(wire) THEN n ELSE Len(wire) : bytes = SubSeq(wire, 1, k)
  BY DEF Received
<1>3. k \in 1 .. n /\ k <= Len(wire) /\ k \in Nat
  BY <1>1, <1>2, SMTT(30)
<1>4. bytes \in Seq(Byte) /\ Len(bytes) = k /\ \A i \in 1 .. k : bytes[i] = wire[i]
  BY <1>1, <1>2, <1>3, SMTT(30)
<1>5. /\ wire' = SubSeq(wire, k + 1, Len(wire)) /\ wire' \in Seq(Byte)
      /\ Len(wire') = Len(wire) - k
      /\ \A i \in 1 .. Len(wire) - k : wire'[i] = wire[k + i]
  <2>1. wire' = SubSeq(wire, k + 1, Len(wire))
    BY <1>4 DEF Read
  <2> QED
    BY <1>1, <1>3, <2>1, SMTT(30)
<1>6. /\ buf' \in Seq(Byte) /\ Len(buf') = Len(buf) + k
      /\ \A i \in 1 .. Len(buf) : buf'[i] = buf[i]
      /\ \A i \in 1 .. k : buf'[Len(buf) + i] = wire[i]
  <2>1. /\ buf \o bytes \in Seq(Byte) /\ Len(buf \o bytes) = Len(buf) + Len(bytes)
        /\ \A i \in 1 .. Len(buf) : (buf \o bytes)[i] = buf[i]
        /\ \A i \in 1 .. Len(bytes) : (buf \o bytes)[Len(buf) + i] = bytes[i]
    <3>1. buf \in Seq(Byte) /\ bytes \in Seq(Byte)
      BY <1>1, <1>4
    <3> QED
      BY ONLY <3>1, ConcatFacts, SMTT(30)
  <2> QED
    BY <1>4, <2>1
<1>7. buf' \o wire' = buf \o wire
  <2> DEFINE s == buf \o wire
             t == buf' \o wire'
  <2>1. /\ s \in Seq(Byte) /\ t \in Seq(Byte) /\ Len(s) = Len(t)
        /\ Len(s) = Len(buf) + Len(wire)
    <3>1. s \in Seq(Byte) /\ Len(s) = Len(buf) + Len(wire)
      BY <1>1, ConcatFacts
    <3>2. t \in Seq(Byte) /\ Len(t) = (Len(buf) + k) + (Len(wire) - k)
      BY <1>5, <1>6, ConcatFacts
    <3>3. (Len(buf) + k) + (Len(wire) - k) = Len(buf) + Len(wire)
      BY <1>1, <1>3, SMTT(30)
    <3> QED
      BY <3>1, <3>2, <3>3
  <2>2. ASSUME NEW i \in 1 .. Len(s) PROVE s[i] = t[i]
    <3>1. CASE i <= Len(buf)
      BY <1>1, <1>3, <1>5, <1>6, <2>1, <2>2, <3>1, SMTT(30)
    <3>2. CASE i > Len(buf) /\ i <= Len(buf) + k
      <4>1. i - Len(buf) \in 1 .. k /\ i = Len(buf) + (i - Len(buf))
        BY <1>1, <1>3, <2>1, <3>2, SMTT(30)
      <4>2. s[i] = wire[i - Len(buf)]
        BY <1>1, <1>3, <2>1, <3>2, SMTT(30)
      <4>3. t[i] = buf'[i]
        BY <1>1, <1>3, <1>5, <1>6, <2>1, <3>2, SMTT(30)
      <4> QED
        BY <1>6, <4>1, <4>2, <4>3
    <3>3. CASE i > Len(buf) + k
      <4>1. i - (Len(buf) + k) \in 1 .. Len(wire) - k /\ k + (i - (Len(buf) + k)) = i - Len(buf)
        BY <1>1, <1>3, <2>1, <3>3, SMTT(30)
      <4>2. s[i] = wire[i - Len(buf)]
        BY <1>1, <1>3, <2>1, <3>3, SMTT(30)
      <4>3. t[i] = wire'[i - (Len(buf) + k)]
        <5>1. i - (Len(buf) + k) \in 1 .. Len(wire')
          BY <1>5, <4>1
        <5>2. i = Len(buf) + k + (i - (Len(buf) + k))
          BY <1>1, <1>3, <2>1, SMTT(30)
        <5>3. i = Len(buf') + (i - (Len(buf) + k))
          BY <1>6, <5>2
        <5>4. buf' \in Seq(Byte) /\ wire' \in Seq(Byte)
          BY <1>5, <1>6
        <5> QED
          BY <5>1, <5>3, <5>4, ConcatFacts, SMTT(30)
      <4> QED
        BY <1>5, <4>1, <4>2, <4>3
    <3>4. i \in Int /\ Len(buf) \in Int /\ k \in Int
      BY <1>1, <1>3, <2>1, SMTT(30)
    <3>5. i <= Len(buf) \/ (i > Len(buf) /\ i <= Len(buf) + k) \/ i > Len(buf) + k
      BY <3>4, SMTT(30)
    <3> HIDE DEF s, t
    <3> QED
      BY <3>1, <3>2, <3>3, <3>5
  <2> HIDE DEF s, t
  <2> QED
    BY <2>1, <2>2, SameBytes DEF s, t
<1> QED
  BY <1>3, <1>4, <1>5, <1>6, <1>7

-----------------------------------------------------------------------------
(* Every step preserves it.                                                *)

\* The invariant holds when main() begins.
LEMMA InitSession == Init => SessionInv
<1> SUFFICES ASSUME Init PROVE SessionInv
  OBVIOUS
<1>1. SessionType
  <2>1. files \in [FileNames -> Seq(Route \cup {BadLine})]
    BY FileAssumption DEF Init
  <2> QED
    BY <2>1, SMTT(30) DEF Init, SessionType
<1>2. TableInv
  BY NoLookupFacts, SMTT(30) DEF Init, TableInit, TableInv, TableType
<1>3. Framing
  <2>1. buf \o wire = <<>> /\ pending = <<>> /\ len = 0 /\ Len(buf) = 0
    BY SMTT(30) DEF Init
  <2>2. Len(buf) < LengthSize
    BY <2>1, SessionAssumption, SMTT(30)
  <2> QED
    BY <2>1, <2>2, FramedEmpty DEF Framing
<1>4. ~lookup.busy /\ ready = FALSE
  BY NoLookupFacts DEF Init, TableInit
<1> QED
  BY <1>1, <1>2, <1>3, <1>4 DEF SessionInv

\* What a step of main() leaves alone.
LEMMA UnchangedFacts ==
    ASSUME SessionInv, UnchangedSession
    PROVE  /\ SessionType' /\ (Framing => Framing')
           /\ ready' = ready /\ if_list' = if_list
  BY DEF SessionInv, SessionType, UnchangedSession, Framing

\* Without a change of the table or the interfaces the routes stay verified.
LEMMA RoutesKept ==
    ASSUME RoutesVerified, ready' = ready, if_list' = if_list, routing_table' = routing_table
    PROVE  RoutesVerified'
  BY DEF RoutesVerified, Listed

\* A table is loaded from a file.
LEMMA LoadTableStep ==
    ASSUME SessionInv, pc \in {"start", "load"}, NEW next, LoadTable(next)
    PROVE  SessionInv'
<1>1. /\ routing_table \in Seq(Route) /\ lookup \in Lookup
      /\ ~lookup.busy /\ Framing /\ ~ready
      /\ files[rtable] \in Seq(Route \cup {BadLine})
  BY DEF SessionInv, SessionType, TableInv, TableType, Stopped
<1>2. PICK ok \in BOOLEAN : LoadRt(files[rtable], ok)
  BY DEF LoadTable
<1>3. lookup' = lookup /\ UnchangedSession
  BY DEF LoadTable
<1>4. routing_table' \in Seq(Route)
  BY <1>1, <1>2, LoadedRoutes
<1>5. TableInv'
  BY <1>1, <1>3, <1>4 DEF TableInv, TableType
<1>6. SessionType' /\ Framing' /\ ~ready' /\ ~lookup'.busy
  BY <1>1, <1>3, UnchangedFacts, SMTT(30)
<1> QED
  BY <1>5, <1>6 DEF SessionInv

\* A step of main() that leaves the table alone.
LEMMA MainStep ==
    ASSUME SessionInv, ~Stopped, UNCHANGED tableVars, UnchangedSession,
           ~ready \/ pc' = "stopped", ~lookup.busy
    PROVE  SessionInv'
<1>1. TableInv' /\ lookup' = lookup /\ routing_table' = routing_table
  BY TableStutters DEF SessionInv, tableVars
<1>2. Framing' /\ SessionType' /\ ready' = ready /\ if_list' = if_list
  BY UnchangedFacts DEF SessionInv
<1>3. ready => RoutesVerified'
  BY <1>1, <1>2, RoutesKept DEF SessionInv
<1> QED
  BY <1>1, <1>2, <1>3 DEF SessionInv

\* main() reads its options and may load the table.
LEMMA StartStep ==
    ASSUME SessionInv, Start \/ Connect \/ Load \/ ReceiveError PROVE SessionInv'
<1>1. CASE Start
  <2>1. CASE template
    BY <1>1, <2>1, MainStep DEF Start, Stopped, SessionInv
  <2>2. CASE ~template
    BY <1>1, <2>2, LoadTableStep DEF Start
  <2> QED
    BY <2>1, <2>2
<1>2. CASE Connect
  BY <1>2, MainStep DEF Connect, Stopped, SessionInv
<1>3. CASE Load
  BY <1>3, LoadTableStep DEF Load
<1>4. CASE ReceiveError
  <2>1. ~Stopped
    BY <1>4 DEF ReceiveError, Reading, Expected, Stopped
  <2> QED
    BY <1>4, <2>1, MainStep DEF ReceiveError, Reading
<1> QED
  BY <1>1, <1>2, <1>3, <1>4

\* A step that reads keeps the rest of the invariant.
LEMMA ReceiveKeeps ==
    ASSUME SessionInv, Reading, NEW bytes, Read(bytes), pc' \in {pc, "stopped"},
           buf' \in Seq(Byte), wire' \in Seq(Byte), len' \in Nat,
           pc' = pc => Framing'
    PROVE  SessionInv'
<1>1. /\ UNCHANGED tableVars /\ UNCHANGED <<rtable, files, if_list, ready, pending>>
  BY DEF Read
<1>2. TableInv' /\ lookup' = lookup /\ routing_table' = routing_table /\ ~lookup.busy
  BY <1>1, TableStutters DEF SessionInv, tableVars, Reading
<1>3. SessionType'
  BY <1>1 DEF SessionInv, SessionType
<1>4. ready' => pc' \in {"loop", "stopped"} /\ RoutesVerified'
  <2>1. ready => RoutesVerified /\ pc \in {"loop", "stopped"}
    BY DEF SessionInv
  <2>2. ready' = ready /\ if_list' = if_list
    BY <1>1
  <2>3. RoutesVerified => RoutesVerified'
    BY <1>2, <2>2, RoutesKept
  <2> QED
    BY <2>1, <2>2, <2>3
<1>5. ~Stopped' => Framing'
  BY DEF Stopped
<1> QED
  BY <1>2, <1>3, <1>4, <1>5 DEF SessionInv

\* While the router reads it has not stopped.
LEMMA ReadingFacts ==
    ASSUME SessionInv, Reading
    PROVE  ~Stopped /\ Framing
  BY DEF Reading, Expected, Stopped, SessionInv

\* recv() returns a part of the body.
LEMMA ReceiveBodyStep ==
    ASSUME SessionInv, ReceiveBody PROVE SessionInv'
<1>1. /\ Reading /\ len > 0 /\ Len(buf) < len /\ len \in Nat /\ len - Len(buf) \in Nat \ {0}
      /\ len' = len /\ pc' = pc /\ Len(buf) \in Nat
  BY SMTT(30) DEF ReceiveBody, Incomplete, SessionInv, SessionType
<1>2. PICK bytes \in Received(len - Len(buf)) : Read(bytes) /\ buf' = buf \o bytes
  BY DEF ReceiveBody
<1>3. /\ Len(bytes) \in 1 .. len - Len(buf) /\ buf' \in Seq(Byte) /\ wire' \in Seq(Byte)
      /\ Len(buf') = Len(buf) + Len(bytes) /\ buf' \o wire' = buf \o wire
  BY <1>1, <1>2, ReadStep
<1>4. Framing'
  <2>1. pending' = pending /\ Framing
    BY <1>1, <1>2, ReadingFacts DEF Read
  <2>2. pending # <<>> /\ len = pending[1].len
    BY <1>1, <2>1, SMTT(30) DEF Framing
  <2>3. Len(buf') <= len
    BY <1>1, <1>3, SMTT(30)
  <2> QED
    BY <1>1, <1>3, <2>1, <2>2, <2>3 DEF Framing
<1> QED
  BY <1>1, <1>2, <1>3, <1>4, ReceiveKeeps

\* The length field that was read is the length of the next command.
LEMMA ReceiveLengthStep ==
    ASSUME SessionInv, ReceiveLength PROVE SessionInv'
<1>1. Reading /\ len = 0 /\ Framing /\ buf \in Seq(Byte) /\ wire \in Seq(Byte)
  BY ReadingFacts DEF ReceiveLength, SessionInv, SessionType
<1>2. Len(buf) < LengthSize /\ Len(buf) \in Nat
  <2>1. pending # <<>> /\ len = pending[1].len => FALSE
    <3>1. pending # <<>> => pending[1] \in Commands
      BY SMTT(30) DEF SessionInv, SessionType
    <3> QED
      BY <1>1, <3>1, CommandFacts, SessionAssumption, SMTT(30)
  <2> QED
    BY <1>1, <2>1, SMTT(30) DEF Framing
<1>3. LengthSize - Len(buf) \in Nat \ {0}
  BY <1>2, SessionAssumption, SMTT(30)
<1>4. PICK bytes \in Received(LengthSize - Len(buf)) :
         /\ Read(bytes)
         /\ buf' = buf \o bytes
         /\ IF Len(buf') < LengthSize
              THEN UNCHANGED <<len, pc>>
              ELSE /\ len' \in Lengths(buf')
                   /\ pc' = IF len' > MaxLength THEN "stopped" ELSE pc
  BY DEF ReceiveLength
<1>5. /\ Len(bytes) \in 1 .. LengthSize - Len(buf) /\ buf' \in Seq(Byte) /\ wire' \in Seq(Byte)
      /\ Len(buf') = Len(buf) + Len(bytes) /\ buf' \o wire' = buf \o wire
  BY <1>1, <1>3, <1>4, ReadStep
<1>6. pending' = pending
  BY <1>4 DEF Read
<1>7. CASE Len(buf') < LengthSize
  <2>1. len' = 0 /\ pc' = pc
    BY <1>1, <1>4, <1>7
  <2>2. Framing'
    BY <1>1, <1>5, <1>6, <1>7, <2>1 DEF Framing
  <2>3. len' \in Nat
    BY <2>1
  <2> QED
    BY <1>1, <1>4, <1>5, <2>1, <2>2, <2>3, ReceiveKeeps
<1>8. CASE ~(Len(buf') < LengthSize)
  <2>1. Len(buf') = LengthSize /\ LengthSize \in Nat \ {0}
    <3>1. LengthSize \in Nat \ {0} /\ Len(buf) \in Nat
      BY <1>2, SessionAssumption
    <3>2. /\ Len(bytes) \in Int /\ Len(bytes) <= LengthSize - Len(buf)
          /\ Len(buf') = Len(buf) + Len(bytes)
      BY <1>5, <3>1, SMTT(30)
    <3> QED
      BY ONLY <1>8, <3>1, <3>2
  <2>2. /\ LengthSize <= Len(buf \o wire)
        /\ \A k \in 1 .. LengthSize : buf'[k] = (buf \o wire)[k]
    <3>1. /\ Len(buf' \o wire') = Len(buf') + Len(wire') /\ Len(wire') \in Nat
          /\ \A k \in 1 .. Len(buf') : (buf' \o wire')[k] = buf'[k]
      <4>1. buf' \in Seq(Byte) /\ wire' \in Seq(Byte)
        BY <1>5
      <4> QED
        BY ONLY <4>1, ConcatFacts
    <3> QED
      BY <1>5, <2>1, <3>1, SMTT(30)
  <2>3. /\ pending # <<>> /\ pending[1] \in Commands
        /\ \A k \in 1 .. LengthSize :
              k <= pending[1].len => buf'[k] = Bytes(pending[1])[k]
    BY <1>1, <1>5, <2>1, <2>2, FirstCommand
  <2>4. /\ Bytes(pending[1]) \in Seq(Byte) /\ Len(Bytes(pending[1])) = pending[1].len
        /\ pending[1].len > LengthSize /\ pending[1].len \in Nat
        /\ \A k \in 1 .. pending[1].len : Bytes(pending[1])[k] = <<pending[1], k>>
    BY <2>3, BytesFacts, CommandFacts
  <2>5. buf' = SubSeq(Bytes(pending[1]), 1, LengthSize)
    <3> DEFINE t == SubSeq(Bytes(pending[1]), 1, LengthSize)
    <3>1. /\ t \in Seq(Byte) /\ Len(t) = LengthSize
          /\ \A k \in 1 .. LengthSize : t[k] = Bytes(pending[1])[k]
      BY <2>1, <2>4, SMTT(30)
    <3>2. \A k \in 1 .. LengthSize : k <= pending[1].len
      BY <2>1, <2>4, SMTT(30)
    <3> HIDE DEF t
    <3> QED
      BY <1>5, <2>1, <2>3, <3>1, <3>2, SameBytes DEF t
  <2>6. buf'[1][1] = pending[1]
    <3>1. 1 \in 1 .. LengthSize /\ 1 \in 1 .. pending[1].len /\ 1 <= pending[1].len
      BY <2>1, <2>4, SMTT(30)
    <3>2. buf'[1] = <<pending[1], 1>>
      BY <2>3, <2>4, <3>1
    <3> QED
      BY <3>2, SMTT(30)
  <2>7. len' = pending[1].len /\ pc' \in {pc, "stopped"}
    BY <1>4, <1>8, <2>5, <2>6 DEF Lengths
  <2>8. Framing' /\ len' \in Nat
    <3>1. Len(buf') <= len' /\ len' \in Nat
      BY <2>1, <2>4, <2>7, SMTT(30)
    <3> QED
      BY <1>1, <1>5, <1>6, <2>3, <2>7, <3>1 DEF Framing
  <2> QED
    BY <1>1, <1>4, <1>5, <2>7, <2>8, ReceiveKeeps
<1> QED
  BY <1>7, <1>8

\* A command was handled: what is left to show.
LEMMA HandledKeeps ==
    ASSUME SessionInv, Complete, NEW places, Done(places),
           files' \in [FileNames -> Seq(Route \cup {BadLine})], if_list' \in Seq(Names),
           TableInv', pc' # "loop" => ~lookup'.busy,
           ready' => pc' \in {"loop", "stopped"} /\ RoutesVerified'
    PROVE  SessionInv'
<1>1. /\ Framing' /\ len' \in Nat /\ buf' \in Seq(Byte) /\ wire' \in Seq(Byte)
      /\ pending' \in Seq(Commands) /\ rtable' = rtable
  BY DoneStep
<1>2. rtable \in FileNames
  BY DEF SessionInv, SessionType
<1>3. SessionType'
  BY <1>1, <1>2 DEF SessionType
<1> QED
  BY <1>1, <1>3 DEF SessionInv

\* A command handled in the loop leads back to it.
LEMMA AfterFacts ==
    ASSUME pc = "loop" PROVE After = {"loop"}
  BY DEF After

\* Commands that change neither the table nor the interfaces.
LEMMA QuietKeeps ==
    ASSUME SessionInv, Complete, NEW places, Done(places),
           places \subseteq After \cup {"stopped"},
           files' \in [FileNames -> Seq(Route \cup {BadLine})],
           UNCHANGED <<tableVars, if_list, ready>>
    PROVE  SessionInv'
<1>1. TableInv' /\ lookup' = lookup /\ routing_table' = routing_table
  BY TableStutters DEF SessionInv, tableVars
<1>2. ~lookup.busy /\ pc \in DOMAIN Expected
  BY DEF Complete, Reading
<1>3. if_list' \in Seq(Names) /\ if_list' = if_list /\ ready' = ready
  BY DEF SessionInv, SessionType
<1>4. ready => pc = "loop" /\ RoutesVerified
  BY <1>2 DEF SessionInv, Expected
<1>5. ready' => pc' \in {"loop", "stopped"} /\ RoutesVerified'
  <2>1. pc' \in places
    BY DEF Done
  <2>2. RoutesVerified => RoutesVerified'
    BY <1>1, <1>3, RoutesKept
  <2> QED
    BY <1>3, <1>4, <2>1, <2>2, AfterFacts, SMTT(30)
<1> QED
  BY <1>1, <1>2, <1>3, <1>5, HandledKeeps

\* The interfaces and packets of the server come in the main loop only.
LEMMA InLoop ==
    ASSUME pc \in DOMAIN Expected, ~Unexpected, Command.type \in {"HWINFO", "PACKET"}
    PROVE  pc = "loop"
  BY SMTT(30) DEF Unexpected, Expected

\* VNSHWINFO: interfaces are added and the table is verified.
LEMMA HwInfoStep ==
    ASSUME SessionInv, HwInfo PROVE SessionInv'
<1>1. /\ Complete /\ ~Unexpected /\ Command.type = "HWINFO"
      /\ if_list' = if_list \o Command.names /\ UNCHANGED tableVars /\ files' = files
      /\ IF Verify(if_list') THEN Done(After) /\ ready' = TRUE
         ELSE Done({"stopped"}) /\ UNCHANGED ready
  BY DEF HwInfo, AddInterfaces
<1>2. Command \in CommandType /\ pc = "loop" /\ ~lookup.busy
  BY <1>1, CompleteFacts, CommandFacts, InLoop
<1>3. Command.names \in Seq(Names) /\ if_list \in Seq(Names)
  BY <1>2 DEF CommandType, SessionInv, SessionType
<1>4. TableInv' /\ lookup' = lookup /\ routing_table' = routing_table
  BY <1>1, TableStutters DEF SessionInv, tableVars
<1>5. if_list' \in Seq(Names)
  BY <1>1, <1>3, SMTT(30)
<1>6. files' \in [FileNames -> Seq(Route \cup {BadLine})]
  BY <1>1 DEF SessionInv, SessionType
<1>7. ~lookup'.busy
  BY <1>2, <1>4
<1>8. CASE Verify(if_list')
  <2>1. Done(After) /\ ready' = TRUE
    BY <1>1, <1>8
  <2>2. pc' = "loop"
    BY <1>2, <2>1, AfterFacts DEF Done
  <2>3. RoutesVerified'
    BY <1>4, <1>8 DEF RoutesVerified, Verify, Listed
  <2> QED
    BY <1>1, <1>4, <1>5, <1>6, <1>7, <2>1, <2>2, <2>3, HandledKeeps
<1>9. CASE ~Verify(if_list')
  <2>1. Done({"stopped"}) /\ ready' = ready
    BY <1>1, <1>9
  <2>2. pc' = "stopped"
    BY <2>1 DEF Done
  <2>3. ready => RoutesVerified'
    <3> SUFFICES ASSUME ready, NEW i \in DOMAIN routing_table
                 PROVE  Listed(routing_table[i].interface, if_list')
      BY <1>4 DEF RoutesVerified, Listed
    <3>1. Listed(routing_table[i].interface, if_list)
      BY DEF SessionInv, RoutesVerified
    <3>2. PICK j \in DOMAIN if_list : if_list[j] = routing_table[i].interface
      BY <3>1 DEF Listed
    <3>3. j \in DOMAIN if_list' /\ if_list'[j] = if_list[j]
      BY <1>1, <1>3, SMTT(30)
    <3> QED
      BY <3>2, <3>3 DEF Listed
  <2> QED
    BY <1>1, <1>4, <1>5, <1>6, <1>7, <2>1, <2>2, <2>3, HandledKeeps
<1> QED
  BY <1>8, <1>9

\* VNSPACKET: a packet may start a search.
LEMMA PacketStep ==
    ASSUME SessionInv, Packet PROVE SessionInv'
<1>1. /\ Complete /\ ~Unexpected /\ Command.type = "PACKET"
      /\ UNCHANGED <<files, if_list, ready>>
      /\ \/ Done({"stopped"}) /\ UNCHANGED tableVars
         \/ Done(After) /\ StartLookup(Command.ip)
         \/ Done(After) /\ UNCHANGED tableVars
  BY DEF Packet
<1>2. Command \in CommandType /\ pc = "loop" /\ ~lookup.busy
  BY <1>1, CompleteFacts, CommandFacts, InLoop
<1>3. Command.ip \in Address
  BY <1>2 DEF CommandType
<1>4. files' \in [FileNames -> Seq(Route \cup {BadLine})] /\ if_list' \in Seq(Names)
  BY <1>1 DEF SessionInv, SessionType
<1>5. CASE Done({"stopped"}) /\ UNCHANGED tableVars
  BY <1>1, <1>4, <1>5, QuietKeeps
<1>6. CASE Done(After) /\ UNCHANGED tableVars
  BY <1>1, <1>4, <1>6, QuietKeeps
<1>7. CASE Done(After) /\ StartLookup(Command.ip)
  <2>1. TableInv' /\ routing_table' = routing_table
    BY <1>3, <1>7, StartLookupStep DEF SessionInv, StartLookup
  <2>2. pc' = "loop"
    BY <1>2, <1>7, AfterFacts DEF Done
  <2>3. ready' = ready /\ if_list' = if_list
    BY <1>1
  <2>4. ready' => RoutesVerified'
    BY <2>1, <2>3, RoutesKept DEF SessionInv
  <2> QED
    BY <1>1, <1>4, <1>7, <2>1, <2>2, <2>3, <2>4, HandledKeeps
<1> QED
  BY <1>1, <1>5, <1>6, <1>7

\* A complete command is handled.
LEMMA HandleStep ==
    ASSUME SessionInv, Handle PROVE SessionInv'
<1>0. files \in [FileNames -> Seq(Route \cup {BadLine})]
  BY DEF SessionInv, SessionType
<1>1. CASE EndSession \/ Skip \/ AuthRequest \/ AuthStatus
  <2>1. /\ Complete /\ UNCHANGED <<tableVars, files, if_list, ready>>
        /\ \E places \in SUBSET (After \cup {"stopped"}) : Done(places)
    BY <1>1 DEF EndSession, Skip, AuthRequest, AuthStatus
  <2> QED
    BY <1>0, <2>1, QuietKeeps
<1>2. CASE RTable
  <2>1. /\ Complete /\ UNCHANGED <<tableVars, if_list, ready>>
        /\ \/ Done(After) /\ files' = [files EXCEPT !["rtable.vrhost"] = Command.lines]
           \/ Done({"stopped"}) /\ UNCHANGED files
    BY <1>2 DEF RTable
  <2>2. Command.lines \in Seq(Route \cup {BadLine})
    BY <2>1, CompleteFacts, CommandFacts DEF CommandType
  <2>3. files' \in [FileNames -> Seq(Route \cup {BadLine})]
    BY <1>0, <2>1, <2>2
  <2> QED
    BY <2>1, <2>3, QuietKeeps
<1>3. CASE HwInfo
  BY <1>3, HwInfoStep
<1>4. CASE Packet
  BY <1>4, PacketStep
<1> QED
  BY <1>1, <1>2, <1>3, <1>4 DEF Handle

\* A search takes a step.
LEMMA SearchStep ==
    ASSUME SessionInv, Search PROVE SessionInv'
<1>1. UNCHANGED sessionVars /\ (Visit \/ Return)
  BY DEF Search
<1>2. TableInv' /\ routing_table' = routing_table /\ lookup.busy
  BY <1>1, VisitStep, ReturnStep DEF SessionInv, Visit, Return
<1>3. /\ SessionType' /\ (Framing => Framing') /\ ready' = ready /\ if_list' = if_list
      /\ pc' = pc
  BY <1>1 DEF sessionVars, SessionInv, SessionType, Framing
<1>4. pc = "loop"
  BY <1>2 DEF SessionInv
<1>5. RoutesVerified => RoutesVerified'
  BY <1>2, <1>3, RoutesKept
<1> QED
  BY <1>2, <1>3, <1>4, <1>5 DEF SessionInv, Stopped

\* The server sends a command or goes away.
LEMMA ServerStep ==
    ASSUME SessionInv, Send \/ Leave PROVE SessionInv'
<1>1. /\ UNCHANGED <<tableVars, rtable, files, pc, if_list, ready, buf, len>>
      /\ pc \in DOMAIN Expected
  BY DEF Send, Leave
<1>2. /\ TableInv' /\ lookup' = lookup /\ routing_table' = routing_table
      /\ ready' = ready /\ if_list' = if_list /\ pc' = pc
  BY <1>1, TableStutters DEF SessionInv, tableVars
<1>3. RoutesVerified => RoutesVerified'
  BY <1>2, RoutesKept
<1>4. ~Stopped /\ Framing
  BY <1>1 DEF SessionInv, Expected, Stopped
<1>5. SessionType' /\ Framing'
  <2>1. CASE Leave
    <3>1. wire' = wire /\ pending' = pending
      BY <2>1 DEF Leave
    <3> QED
      BY <1>1, <1>4, <3>1 DEF SessionInv, SessionType, Framing
  <2>2. CASE Send
    <3>1. PICK c \in Commands : pending' = Append(pending, c) /\ wire' = wire \o Bytes(c)
      BY <2>2 DEF Send
    <3>2. Bytes(c) \in Seq(Byte) /\ buf \in Seq(Byte) /\ wire \in Seq(Byte)
          /\ pending \in Seq(Commands)
      BY BytesFacts DEF SessionInv, SessionType
    <3>3. /\ wire' \in Seq(Byte) /\ pending' \in Seq(Commands) /\ buf \o wire \in Seq(Byte)
          /\ (pending # <<>> => pending' # <<>> /\ pending'[1] = pending[1])
      BY <3>1, <3>2, SMTT(30)
    <3>4. buf' \o wire' = (buf \o wire) \o Bytes(c)
      BY <1>1, <3>1, <3>2, SMTT(30)
    <3>5. Framed(buf' \o wire', pending')
      BY <1>4, <3>1, <3>2, <3>3, <3>4, FramedAppend DEF Framing
    <3>6. SessionType'
      BY <1>1, <3>3 DEF SessionInv, SessionType
    <3> QED
      BY <1>1, <1>4, <3>3, <3>5, <3>6 DEF Framing
  <2> QED
    BY <2>1, <2>2
<1> QED
  BY <1>2, <1>3, <1>5 DEF SessionInv, Stopped

\* The invariant of the session holds for any files, commands and cuts of the
\* stream.
THEOREM SessionInvariance == Spec => []SessionInv
<1>1. SessionInv /\ [Next]_vars => SessionInv'
  <2> SUFFICES ASSUME SessionInv, [Next]_vars PROVE SessionInv'
    OBVIOUS
  <2>1. CASE Start \/ Connect \/ Load \/ ReceiveError
    BY <2>1, StartStep
  <2>2. CASE ReceiveLength
    BY <2>2, ReceiveLengthStep
  <2>3. CASE ReceiveBody
    BY <2>3, ReceiveBodyStep
  <2>4. CASE Handle
    BY <2>4, HandleStep
  <2>5. CASE Search
    BY <2>5, SearchStep
  <2>6. CASE Send \/ Leave
    BY <2>6, ServerStep
  <2>7. CASE UNCHANGED vars
    <3>1. UNCHANGED tableVars /\ UnchangedSession /\ pc' = pc
      BY <2>7 DEF vars, sessionVars, UnchangedSession
    <3>2. TableInv' /\ lookup' = lookup /\ routing_table' = routing_table
      BY <3>1, TableStutters DEF SessionInv, tableVars
    <3>3. /\ SessionType' /\ (Framing => Framing')
          /\ ready' = ready /\ if_list' = if_list
      BY <3>1, UnchangedFacts
    <3>4. RoutesVerified => RoutesVerified'
      BY <3>2, <3>3, RoutesKept
    <3> QED
      BY <3>1, <3>2, <3>3, <3>4 DEF SessionInv, Stopped
  <2> QED
    BY <2>1, <2>2, <2>3, <2>4, <2>5, <2>6, <2>7 DEF Next, Router
<1> QED
  BY <1>1, InitSession, PTL DEF Spec

\* However recv() cuts the stream, sr_read_from_server_expect() hands on the
\* commands as they were sent and in their order.
THEOREM CommandsIntact == Spec => []FramesIntact
<1>1. SessionInv => FramesIntact
  <2> SUFFICES ASSUME SessionInv, Complete PROVE buf = Bytes(Head(pending))
    BY DEF FramesIntact
  <2>1. buf = Bytes(pending[1]) /\ pending # <<>> /\ pending \in Seq(Commands)
    BY CompleteFacts DEF SessionInv, SessionType
  <2> QED
    BY <2>1, SMTT(30)
<1> QED
  BY <1>1, SessionInvariance, PTL

\* A router that has announced that it is ready knows the interface of every
\* route, for any files, also when a later VNSHWINFO adds interfaces.
THEOREM RoutesStayVerified == Spec => []RoutesVerified
<1>1. SessionInv => RoutesVerified
  BY DEF SessionInv, RoutesVerified
<1> QED
  BY <1>1, SessionInvariance, PTL

\* In the running router a search of sr_get_longest_prefix_match() returns the
\* longest matching prefix, for every table, address width and byte order.
THEOREM FindsLongestPrefix == Spec => []LongestPrefix
<1>1. SessionInv => LongestPrefix
  BY BestIsLongest DEF SessionInv
<1> QED
  BY <1>1, SessionInvariance, PTL
=============================================================================
