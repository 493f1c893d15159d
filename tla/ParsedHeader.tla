---------------------------- MODULE ParsedHeader ----------------------------
(***************************************************************************)
(* The header table of a parsed HTTP request (proxy_parse.c): an array     *)
(* that grows by doubling, in which a removed header leaves an unused slot *)
(* behind.  "meant" is the map from keys to values that the calls so far   *)
(* describe; only the properties read it.                                  *)
(***************************************************************************)
EXTENDS Integers, Sequences

CONSTANTS
    Keys,           \* header names
    Values,         \* header values
    NULL,           \* the key of a removed header, and the value of a key not set
    DEFAULT_NHDRS   \* slots of a new table

ASSUME HeaderAssumption ==
    /\ NULL \notin Keys /\ NULL \notin Values
    /\ DEFAULT_NHDRS \in Nat \ {0}

VARIABLES
    headers,     \* pr->headers up to pr->headersused
    headerslen,  \* slots allocated
    meant        \* key |-> the value it should have, or NULL

headerVars == <<headers, headerslen, meant>>

Header == [key : Keys \cup {NULL}, value : Values]

\* ParsedHeader_create().
HeaderInit ==
    /\ headers = <<>>
    /\ headerslen = DEFAULT_NHDRS
    /\ meant = [k \in Keys |-> NULL]

-----------------------------------------------------------------------------
\* ParsedHeader_get() returns slot i for key k: the first with this key.
IsSlotOf(i, k) == headers[i].key = k /\ \A j \in 1 .. i - 1 : headers[j].key # k

\* The table after ParsedHeader_remove(k).
Without(k) ==
    [i \in 1 .. Len(headers) |->
        IF IsSlotOf(i, k) THEN [headers[i] EXCEPT !.key = NULL] ELSE headers[i]]

HeaderRemove(k) ==
    /\ headers' = Without(k)
    /\ meant' = [meant EXCEPT ![k] = NULL]
    /\ UNCHANGED headerslen

\* Slip: an old header with the same key stays.
HeaderSetTwice(k, v) ==
    /\ headers' = Append(headers, [key |-> k, value |-> v])
    /\ headerslen' = IF headerslen <= Len(headers) + 1 THEN headerslen * 2 ELSE headerslen
    /\ meant' = [meant EXCEPT ![k] = v]

\* Slip: the array grows when it is more than full.
HeaderSetLate(k, v) ==
    /\ headers' = Append(Without(k), [key |-> k, value |-> v])
    /\ headerslen' = IF headerslen < Len(headers) THEN headerslen * 2 ELSE headerslen
    /\ meant' = [meant EXCEPT ![k] = v]

\* ParsedHeader_set(): an old header with the same key is removed, the array grows
\* if need be, and the new header goes into the next slot.
HeaderSet(k, v) ==
    /\ headers' = Append(Without(k), [key |-> k, value |-> v])
    /\ headerslen' = IF headerslen <= Len(headers) + 1 THEN headerslen * 2 ELSE headerslen
    /\ meant' = [meant EXCEPT ![k] = v]

-----------------------------------------------------------------------------
\* Every slot that is written lies inside the array, however removals and the
\* growth of the array are mixed.
InBounds == Len(headers) <= headerslen

\* The table is the map that was meant: a key has at most one slot, which holds
\* the value last set for it, and none after it was removed.
IsMap ==
    \A k \in Keys :
       /\ \A i \in 1 .. Len(headers) : headers[i].key = k => headers[i].value = meant[k]
       /\ \A i, j \in 1 .. Len(headers) : headers[i].key = k /\ headers[j].key = k => i = j
       /\ meant[k] # NULL => \E i \in 1 .. Len(headers) : headers[i].key = k
=============================================================================
