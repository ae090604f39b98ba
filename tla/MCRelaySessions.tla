--------------------------- MODULE MCRelaySessions ---------------------------
(* Model values for RelaySessions under TLC. *)
EXTENDS RelaySessions, FiniteSets, Naturals, TLC

\* Connections, keys and tokens are interchangeable, so safety runs may use them
\* as symmetry sets.
Symmetric == Permutations(Conns) \cup Permutations(Keys) \cup Permutations(Tokens)

\* Every variable but "up".  Whether a connection is up decides when its handler
\* reads an error and not what may happen: ControlError can happen in either
\* case, and only fairness and the liveness properties look at "up".  States that
\* differ in it alone have the same future, so a safety run may take them as one.
Reached == <<mapVars, pc, transport, tok, kind, node, key, prev, rec, opVars, seen>>

\* The bound of a run that has two keys and two tokens: behaviours with either, but
\* not those that go on with both at once.  A node's key and the tokens meet in no
\* condition of the code.
Held(record) == IF record = None THEN {} ELSE {record.key}
KeysInUse ==
    (UNION {Held(nodes[n]) \cup Held(storedNodes[n]) : n \in Nodes}
        \cup {key[c] : c \in Conns}) \ {None}
OneKeyOrOneToken == Cardinality(KeysInUse) <= 1 \/ Cardinality(seen) <= 1
==============================================================================
