-------------------------- MODULE MCServiceRegistry --------------------------
(* Model values for ServiceRegistry under TLC. *)
EXTENDS ServiceRegistry, TLC

CONSTANTS r1, r2, r3, r4, m1, m2

\* Two nodes.  The first publishes a name over TCP and, by r2, the same name
\* over HTTP; the second asks for a particular port; r4 wants a name that is not
\* its node's.
MCDefinition ==
    (r1 :> [node |-> "a", name |-> "web", proto |-> "Tcp", port |-> None, meta |-> m1]) @@
    (r2 :> [node |-> "a", name |-> "web", proto |-> "Http", port |-> None, meta |-> m1]) @@
    (r3 :> [node |-> "b", name |-> "db", proto |-> "Tcp", port |-> FirstPort, meta |-> m1]) @@
    (r4 :> [node |-> "b", name |-> "web", proto |-> "Tcp", port |-> None, meta |-> m1])

Symmetric == Permutations(Ops)
==============================================================================
