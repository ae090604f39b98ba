---------------------------- MODULE ServiceDirectory ----------------------------
(***************************************************************************)
(* What the relay promises about the services it publishes, without locks, *)
(* requests in steps and a store: a name is published when nobody has it,  *)
(* and from then on it has one id and one node until it is withdrawn; an   *)
(* id is given to one service at a time.  To publish a name again that one *)
(* has, or to be refused a name that another has, changes nothing.  A      *)
(* server that comes back after a crash may have any of the services that  *)
(* there may be, each under its own id.                                    *)
(***************************************************************************)

CONSTANT Possible   \* the entries that there may be: [id, name, node]

VARIABLES
    running,    \* the server is up
    entries     \* what is published

vars == <<running, entries>>

Publish(e) ==
    /\ running /\ \A f \in entries : f.id # e.id /\ f.name # e.name
    /\ entries' = entries \cup {e}
    /\ UNCHANGED running

Withdraw(e) ==
    /\ running
    /\ entries' = entries \ {e}
    /\ UNCHANGED running

Crash ==
    /\ running' = FALSE
    /\ entries' = {}

Start ==
    /\ ~running /\ running' = TRUE
    /\ entries' \subseteq Possible
    /\ \A e, f \in entries' : e.id = f.id => e = f

Init == running = TRUE /\ entries = {}

Next ==
    \/ \E e \in Possible : Publish(e) \/ Withdraw(e)
    \/ Crash \/ Start

Spec == Init /\ [][Next]_vars
================================================================================
