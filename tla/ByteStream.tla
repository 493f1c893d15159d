----------------------------- MODULE ByteStream -----------------------------
(***************************************************************************)
(* What the mysocket interface of mysock.h promises the two applications   *)
(* of a connection: a stream of bytes in each direction.  Reads return the *)
(* bytes in the order they were written, and end-of-file means that the    *)
(* other side has closed and everything it wrote was read, unless its      *)
(* process was lost.                                                       *)
(***************************************************************************)
EXTENDS Integers

CONSTANT Ends, Other(_)

VARIABLES
    wrote,    \* bytes written by each end
    read,     \* bytes each end has read of what the other wrote
    closed,   \* ends that write no more
    lost,     \* ends whose process is gone
    ended     \* ends that were told end-of-file

streamVars == <<wrote, read, closed, lost, ended>>

Init ==
    /\ wrote = [e \in Ends |-> 0]
    /\ read = [e \in Ends |-> 0]
    /\ lost \in SUBSET Ends
    /\ closed = lost
    /\ ended = {}

Write(e) ==
    /\ e \notin closed
    /\ wrote'[e] \in Nat /\ wrote'[e] > wrote[e]
    /\ wrote' = [wrote EXCEPT ![e] = wrote'[e]]
    /\ UNCHANGED <<read, closed, lost, ended>>

Read(e) ==
    /\ e \notin closed \cup ended
    /\ \E n \in 1 .. wrote[Other(e)] - read[e] : read' = [read EXCEPT ![e] = @ + n]
    /\ UNCHANGED <<wrote, closed, lost, ended>>

ReadEof(e) ==
    /\ e \notin closed \cup ended
    /\ Other(e) \in lost \/ (Other(e) \in closed /\ read[e] = wrote[Other(e)])
    /\ ended' = ended \cup {e}
    /\ UNCHANGED <<wrote, read, closed, lost>>

Close(e) ==
    /\ e \notin closed
    /\ closed' = closed \cup {e}
    /\ UNCHANGED <<wrote, read, lost, ended>>

Lose(e) ==
    /\ lost' = lost \cup {e}
    /\ closed' = closed \cup {e}
    /\ UNCHANGED <<wrote, read, ended>>

Next == \E e \in Ends : Write(e) \/ Read(e) \/ ReadEof(e) \/ Close(e) \/ Lose(e)

Spec == Init /\ [][Next]_streamVars
=============================================================================
