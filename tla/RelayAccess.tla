------------------------------ MODULE RelayAccess ------------------------------
(***************************************************************************)
(* What the relay promises about access, without tasks, locks and a store: *)
(* a client is admitted on a token that is accepted at that moment; while  *)
(* it is in, it may become the host of the node it was admitted as, and of *)
(* no other; a replacement takes effect at one moment and for good, and a  *)
(* token it has put out of use stays so.  A restart of the relay sends     *)
(* everybody out, and keeps the tokens or completes one replacement.  A    *)
(* client that departs may be called the host still, until it is replaced. *)
(***************************************************************************)

CONSTANTS
    Conns,     \* clients, one name for each visit
    Nodes,     \* the nodes they can be admitted as
    Kinds,     \* the kinds of token
    Tokens,    \* token values
    None       \* no token, client or node

VARIABLES
    accepted,  \* kind -> the token that admits, None after a revocation
    spent,     \* the tokens that have been replaced
    pass,      \* client -> the token it was admitted on, None if it is not in
    place,     \* client -> the node it was admitted as
    host       \* node -> the client that serves it

vars == <<accepted, spent, pass, place, host>>

Valid == {accepted[k] : k \in Kinds} \ {None}

Admit(c, t, n) ==
    /\ pass[c] = None /\ \A m \in Nodes : host[m] # c
    /\ t \in Valid
    /\ pass' = [pass EXCEPT ![c] = t]
    /\ place' = [place EXCEPT ![c] = n]
    /\ UNCHANGED <<accepted, spent, host>>

Depart(c) ==
    /\ pass' = [pass EXCEPT ![c] = None]
    /\ place' = [place EXCEPT ![c] = None]
    /\ UNCHANGED <<accepted, spent, host>>

\* The newest client of a node takes it over.
Serve(c) ==
    /\ pass[c] # None
    /\ host' = [host EXCEPT ![place[c]] = c]
    /\ UNCHANGED <<accepted, spent, pass, place>>

Vacate ==
    /\ \E left \in SUBSET Nodes : host' = [n \in Nodes |-> IF n \in left THEN None ELSE host[n]]
    /\ UNCHANGED <<accepted, spent, pass, place>>

\* A rotation to a token never used before, or a revocation.
Replacement(k, t) ==
    /\ t \notin Valid \cup spent
    /\ accepted' = [accepted EXCEPT ![k] = t]
    /\ spent' = (spent \cup Valid) \ {accepted'[j] : j \in Kinds}

Replace(k, t) == Replacement(k, t) /\ UNCHANGED <<pass, place, host>>

Restart ==
    /\ \/ UNCHANGED <<accepted, spent>>
       \/ \E k \in Kinds, t \in Tokens \cup {None} : Replacement(k, t)
    /\ pass' = [c \in Conns |-> None] /\ place' = [c \in Conns |-> None]
    /\ host' = [n \in Nodes |-> None]

Init ==
    /\ accepted \in [Kinds -> Tokens] /\ spent = {}
    /\ pass = [c \in Conns |-> None] /\ place = [c \in Conns |-> None]
    /\ host = [n \in Nodes |-> None]

Next ==
    \/ \E c \in Conns, t \in Tokens, n \in Nodes : Admit(c, t, n)
    \/ \E c \in Conns : Depart(c) \/ Serve(c)
    \/ \E k \in Kinds, t \in Tokens \cup {None} : Replace(k, t)
    \/ Vacate \/ Restart

Spec == Init /\ [][Next]_vars
================================================================================
