---------------------------- MODULE MCVnsSession ----------------------------
(* A small instance of module VnsSession: addresses of two bytes of one bit *)
(* each, in the byte order of a little-endian host.                         *)
EXTENDS VnsSession

LittleEndian == [l \in 0 .. 2 |-> (IF l >= 1 THEN 1 ELSE 0) + (IF l >= 2 THEN 2 ELSE 0)]

Net(a, b, length, name) == [dest |-> <<a, b>>, mask |-> length, interface |-> name]

Default == Net(0, 0, 0, "eth1")
Half    == Net(1, 0, 1, "eth1")
Host    == Net(1, 1, 2, "eth2")

SmallFiles == {<<>>, <<Default, BadLine>>, <<Default>>,
               <<Half, Host, Default>>, <<Host, Default, Half>>}

Interfaces == {<<"eth1">>, <<"eth2", "eth1">>}
=============================================================================
