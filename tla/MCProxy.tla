------------------------------- MODULE MCProxy ------------------------------
(* Proxy on small instances. *)
EXTENDS Proxy, TLC

\* All requests are of the same client, so that they overlap.
Overlap == [r \in Request |-> CHOOSE c \in Client : TRUE]
=============================================================================
