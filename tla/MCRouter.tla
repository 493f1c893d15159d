------------------------------ MODULE MCRouter ------------------------------
(* Small networks for module Router.                                       *)
EXTENDS Router, TLC

CONSTANTS a, b, x, own, A, B

\* Two hosts, each its own next hop, and an address that no route matches; the
\* table has no default route.
TwoHosts == (a :> A) @@ (b :> B) @@ (x :> None) @@ (own :> None)
=============================================================================
