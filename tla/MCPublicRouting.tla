---------------------------- MODULE MCPublicRouting ----------------------------
EXTENDS PublicRouting, TLC

CONSTANTS p1, p2, p3, n1, n2

\* Two processes with the state directory of one node, and one of another node;
\* one name is published by both nodes.
MCProcs == {p1, p2, p3}
MCNodeOf == (p1 :> n1) @@ (p2 :> n1) @@ (p3 :> n2)
MCPublishes ==
    (p1 :> [name |-> "web", protocol |-> "http"]) @@
    (p2 :> [name |-> "db", protocol |-> "https"]) @@
    (p3 :> [name |-> "web", protocol |-> "http"])
================================================================================
