----------------------------- MODULE RelaySessions -----------------------------
(***************************************************************************)
(* The control plane of ongrok-relay-server: authenticated client          *)
(* sessions, the node table, and token rotation, as they run concurrently. *)
(*                                                                         *)
(* Every accepted QUIC connection or Yamux session has a handler task      *)
(* (handle_quic_connection, handle_yamux_session); an admin request that   *)
(* rotates or revokes a token runs replace_token.  The tasks share three   *)
(* mutex-protected maps (tokens, sessions, nodes) and the redb store.  An  *)
(* action here is one critical section or one store transaction, and tasks *)
(* interleave between those.  Two locks are held across a store write: the *)
(* token lock in replace_token (TokensLocked) and the nodes lock in the    *)
(* cleanup of a Yamux handler, which is therefore one action.              *)
(*                                                                         *)
(* A connection stands for its session id too: the handler draws one fresh *)
(* id per connection (server.rs:295, 576).  An element of Conns that no    *)
(* task or map refers to any more is indistinguishable from a fresh one    *)
(* and is used again, so |Conns| bounds the overlap of connections and not *)
(* their number; the same holds for Ops.                                   *)
(***************************************************************************)

CONSTANTS
    Conns,        \* client connections, each with its handler task
    Ops,          \* token rotation / revocation requests
    Nodes,        \* node ids that clients present
    Keys,         \* node public keys
    Tokens,       \* token values (their hashes)
    Transports,   \* the transports in use, of "Quic" and "Yamux"
    Faults,       \* what may fail: "store" (a put), "crash" (the server), "cancel" (the
                  \* connection of an admin request)
    None          \* no connection, token, key or record

Kinds == {"Admin", "User"}
NodeRecord == [key : Keys \cup {None}, status : {"Online", "Offline"}]

\* The map entry of a session.  "token" is a history field: the token it was
\* activated under, None if that had been replaced by then.
ActiveSession ==
    [id : Conns, kind : Kinds, transport : Transports, token : Tokens \cup {None}]

ASSUME ConfigAssumption ==
    Transports \subseteq {"Quic", "Yamux"} /\ Faults \subseteq {"store", "crash", "cancel"}
ASSUME NoneAssumption ==
    /\ None \notin Conns \cup Nodes \cup Keys \cup Tokens \cup Kinds \cup Transports
    /\ None \notin NodeRecord \cup ActiveSession

VARIABLES
    tokens,        \* TokenState: the accepted token of each kind
    storedTokens,  \* the copy in the store
    sessions,      \* node -> ActiveSession: the connection that owns it
    nodes,         \* node -> NodeRecord, in memory
    storedNodes,   \* the copy in the store
    pc,            \* where the handler of a connection is
    transport,     \* how a connection came in
    tok,           \* the token its Auth frame carried
    kind,          \* what that token authenticated as
    node,          \* the node id its Auth frame carried
    key,           \* the key of the RegisterNode frame in hand
    prev,          \* the session a RegisterNode replaced, not yet closed
    rec,           \* the clone of a node record, not yet stored
    up,            \* the connection has a handler and is open, as far as the server knows
    opc,           \* where a rotation or revocation is
    okind,         \* the token kind it replaces
    otok,          \* the new token, None to revoke
    gone,          \* the sessions it removed, by node
    orecs,         \* the Offline records it has yet to store
    seen           \* history: every token that was ever accepted

connVars == <<pc, transport, tok, kind, node, key, prev, rec, up>>
opVars == <<opc, okind, otok, gone, orecs>>
mapVars == <<tokens, storedTokens, sessions, nodes, storedNodes>>
vars == <<mapVars, connVars, opVars, seen>>

HandlerStates ==
    {"closed", "auth", "loop", "activate", "replace", "insert", "put",
     "cleanup", "remove", "offline", "putOffline"}
OpStates == {"idle", "persist", "assign", "evict", "close", "offline", "putOffline"}

--------------------------------------------------------------------------------
(* Helpers *)

\* TokenState::authenticate: the admin slot is compared first.
Authenticate(t) ==
    IF tokens["Admin"] = t THEN "Admin"
    ELSE IF tokens["User"] = t THEN "User" ELSE None

\* The token write lock spans put_tokens and the assignment after it.
TokensLocked == \E o \in Ops : opc[o] = "assign"

Goto(c, p) == pc' = [pc EXCEPT ![c] = p]

Shown(r, s) == IF r = None THEN None ELSE [r EXCEPT !.status = s]

\* The handler returns and its locals are dropped.
Leave(c) ==
    /\ Goto(c, "closed")
    /\ transport' = [transport EXCEPT ![c] = None]
    /\ tok' = [tok EXCEPT ![c] = None]
    /\ kind' = [kind EXCEPT ![c] = None]
    /\ node' = [node EXCEPT ![c] = None]
    /\ up' = [up EXCEPT ![c] = FALSE]

Proceed(c, p) == Goto(c, p) /\ UNCHANGED <<transport, tok, kind, node, up>>

\* Where an error inside the frame loop leads.  The Yamux handler runs its
\* loop in an async block, so that the cleanup after it always happens; in the
\* QUIC handler `?` returns from the handler itself.
MutantBail(c) == Leave(c)                      \* the Yamux handler skips it too
Bail(c) == IF transport[c] = "Yamux" THEN Proceed(c, "cleanup") ELSE Leave(c)

SessionId(n) == IF sessions[n] = None THEN None ELSE sessions[n].id

\* Nothing refers to c: the next connection may go by that name.
Unused(c) ==
    /\ pc[c] = "closed"
    /\ \A n \in Nodes : SessionId(n) # c /\ \A o \in Ops : gone[o][n] # c
    /\ \A d \in Conns : prev[d] # c

--------------------------------------------------------------------------------
(* The connection handlers *)

\* TLS, ALPN, the control stream and the Hello exchange touch no shared state.
Connect(c, tr) ==
    /\ Unused(c)
    /\ Goto(c, "auth")
    /\ transport' = [transport EXCEPT ![c] = tr]
    /\ up' = [up EXCEPT ![c] = TRUE]
    /\ UNCHANGED <<mapVars, tok, kind, node, key, prev, rec, opVars, seen>>

\* The Auth frame.  A refused client gets AuthRejected and the handler returns.
MutantAccepts(t) == t # None                   \* any token is good enough
Accepts(t) == Authenticate(t) # None
Auth(c, t, n) ==
    /\ pc[c] = "auth" /\ ~TokensLocked
    /\ IF Accepts(t)
         THEN /\ tok' = [tok EXCEPT ![c] = t]
              /\ kind' = [kind EXCEPT ![c] = Authenticate(t)]
              /\ node' = [node EXCEPT ![c] = n]
              /\ Goto(c, "loop") /\ UNCHANGED <<transport, up>>
         ELSE Leave(c)
    /\ UNCHANGED <<mapVars, key, prev, rec, opVars, seen>>

\* A RegisterNode frame: validate_node_identity under the nodes lock.  A record
\* without a key is one persisted before node keys existed.
MutantAdmits(n, k) ==                          \* an offline node may change its key
    nodes[n] = None \/ nodes[n].status = "Offline" \/ nodes[n].key \in {None, k}
Admits(n, k) == nodes[n] = None \/ nodes[n].key \in {None, k}
ValidateNode(c, k) ==
    /\ pc[c] = "loop"
    /\ IF Admits(node[c], k)
         THEN Proceed(c, "activate") /\ key' = [key EXCEPT ![c] = k]
         ELSE Bail(c) /\ UNCHANGED key
    /\ UNCHANGED <<mapVars, prev, rec, opVars, seen>>

\* activate_session: the map entry first, then, outside the lock, the close of
\* the session it replaced, which may be this very connection's.
Activate(c) ==
    LET n == node[c]
        token == IF tokens[kind[c]] = tok[c] THEN tok[c] ELSE None IN
    /\ pc[c] = "activate"
    /\ sessions' = [sessions EXCEPT ![n] = 
                      [id |-> c, kind |-> kind[c], transport |-> transport[c], token |-> token]]
    /\ prev' = [prev EXCEPT ![c] = SessionId(n)]
    /\ Proceed(c, IF sessions[n] = None THEN "insert" ELSE "replace")
    /\ UNCHANGED <<tokens, storedTokens, nodes, storedNodes, key, rec, opVars, seen>>

ClosePrevious(c) ==
    /\ pc[c] = "replace"
    /\ up' = [up EXCEPT ![prev[c]] = FALSE]
    /\ prev' = [prev EXCEPT ![c] = None]
    /\ Goto(c, "insert")
    /\ UNCHANGED <<mapVars, transport, tok, kind, node, key, rec, opVars, seen>>

InsertNode(c) ==
    LET record == [key |-> key[c], status |-> "Online"] IN
    /\ pc[c] = "insert"
    /\ nodes' = [nodes EXCEPT ![node[c]] = record]
    /\ rec' = [rec EXCEPT ![c] = record]
    /\ key' = [key EXCEPT ![c] = None]
    /\ Proceed(c, "put")
    /\ UNCHANGED <<tokens, storedTokens, sessions, storedNodes, prev, opVars, seen>>

\* A Heartbeat frame marks the node Online, whoever its session is; before the
\* node has a record it changes nothing.
MutantHeard(r) == r                            \* the status is left alone
Heard(r) == Shown(r, "Online")
Heartbeat(c) ==
    /\ pc[c] = "loop" /\ nodes[node[c]] # None
    /\ nodes' = [nodes EXCEPT ![node[c]] = Heard(@)]
    /\ rec' = [rec EXCEPT ![c] = Heard(nodes[node[c]])]
    /\ Proceed(c, "put")
    /\ UNCHANGED <<tokens, storedTokens, sessions, storedNodes, key, prev, opVars, seen>>

\* store.put_node of the clone, after registration or heartbeat.  A store error
\* is an error of the loop; one of the put_metric after it is a ControlError here.
PutNode(c) ==
    /\ pc[c] = "put"
    /\ \/ storedNodes' = [storedNodes EXCEPT ![node[c]] = rec[c]] /\ Proceed(c, "loop")
       \/ "store" \in Faults /\ UNCHANGED storedNodes /\ Bail(c)
    /\ rec' = [rec EXCEPT ![c] = None]
    /\ UNCHANGED <<tokens, storedTokens, sessions, nodes, key, prev, opVars, seen>>

Goodbye(c) ==
    /\ pc[c] = "loop"
    /\ Proceed(c, "cleanup")
    /\ UNCHANGED <<mapVars, key, prev, rec, opVars, seen>>

\* The next control frame cannot be read, or is invalid.  Certain once the
\* connection is down, possible at any time.
ControlError(c) ==
    /\ \/ pc[c] = "auth" /\ Leave(c)
       \/ pc[c] = "loop" /\ Bail(c)
    /\ UNCHANGED <<mapVars, key, prev, rec, opVars, seen>>

\* The client or the network drops the connection.
Disconnect(c) ==
    /\ up[c]
    /\ up' = [up EXCEPT ![c] = FALSE]
    /\ UNCHANGED <<mapVars, pc, transport, tok, kind, node, key, prev, rec, opVars, seen>>

\* The cleanup: is this still the node's session?  The lock is released before
\* the removal takes it again.
CheckActive(c) ==
    /\ pc[c] = "cleanup"
    /\ IF SessionId(node[c]) = c THEN Proceed(c, "remove") ELSE Leave(c)
    /\ UNCHANGED <<mapVars, key, prev, rec, opVars, seen>>

RemoveSession(c) ==
    /\ pc[c] = "remove"
    /\ sessions' = [sessions EXCEPT ![node[c]] = None]
    /\ Proceed(c, "offline")
    /\ UNCHANGED <<tokens, storedTokens, nodes, storedNodes, key, prev, rec, opVars, seen>>

\* The record is marked and stored: in two steps by the QUIC handler, and by the
\* Yamux handler under the nodes lock, which its `if let` keeps through the body.
StoreNode(n, r) ==
    \/ storedNodes' = [storedNodes EXCEPT ![n] = r]
    \/ "store" \in Faults /\ UNCHANGED storedNodes
MarkOffline(c) ==
    LET record == Shown(nodes[node[c]], "Offline") IN
    /\ pc[c] = "offline"
    /\ nodes' = [nodes EXCEPT ![node[c]] = record]
    /\ IF record # None /\ transport[c] = "Quic"
         THEN Proceed(c, "putOffline") /\ rec' = [rec EXCEPT ![c] = record] /\ UNCHANGED storedNodes
         ELSE /\ Leave(c) /\ UNCHANGED rec
              /\ IF record = None THEN UNCHANGED storedNodes ELSE StoreNode(node[c], record)
    /\ UNCHANGED <<tokens, storedTokens, sessions, key, prev, opVars, seen>>

PutOffline(c) ==
    /\ pc[c] = "putOffline"
    /\ StoreNode(node[c], rec[c])
    /\ rec' = [rec EXCEPT ![c] = None]
    /\ Leave(c)
    /\ UNCHANGED <<tokens, storedTokens, sessions, nodes, key, prev, opVars, seen>>

--------------------------------------------------------------------------------
(* Token rotation and revocation: api_handler, then replace_token *)

\* Not accepted before, not stored and not drawn by another request.
Fresh(t) == t \notin seen \cup {storedTokens[k] : k \in Kinds} \cup {otok[o] : o \in Ops}

OpGoto(o, p) == opc' = [opc EXCEPT ![o] = p]

\* The request is authenticated before its body is read.  A rotation draws a
\* fresh 256-bit token; a revocation sets none.
BeginReplace(o, k, t) ==
    /\ opc[o] = "idle" /\ ~TokensLocked
    /\ tokens["Admin"] # None
    /\ t = None \/ Fresh(t)
    /\ okind' = [okind EXCEPT ![o] = k]
    /\ otok' = [otok EXCEPT ![o] = t]
    /\ OpGoto(o, "persist")
    /\ UNCHANGED <<mapVars, connVars, gone, orecs, seen>>

\* The response, an error or a success.
EndReplace(o) ==
    /\ OpGoto(o, "idle")
    /\ okind' = [okind EXCEPT ![o] = None]
    /\ otok' = [otok EXCEPT ![o] = None]

\* Under the write lock, the changed state goes to the store, then to memory.
MutantReplaced(o) == tokens                    \* the unchanged state is stored
Replaced(o) == [tokens EXCEPT ![okind[o]] = otok[o]]
MutantPersistTokens(o) ==                      \* memory first, and the store may fail
    /\ opc[o] = "persist" /\ ~TokensLocked
    /\ tokens' = Replaced(o) /\ seen' = seen \cup ({otok[o]} \ {None})
    /\ \/ storedTokens' = Replaced(o) /\ OpGoto(o, "evict") /\ UNCHANGED <<okind, otok>>
       \/ "store" \in Faults /\ UNCHANGED storedTokens /\ EndReplace(o)
    /\ UNCHANGED <<sessions, nodes, storedNodes, connVars, gone, orecs>>
PersistTokens(o) ==
    /\ opc[o] = "persist" /\ ~TokensLocked
    /\ \/ storedTokens' = Replaced(o) /\ OpGoto(o, "assign") /\ UNCHANGED <<okind, otok>>
       \/ "store" \in Faults /\ UNCHANGED storedTokens /\ EndReplace(o)
    /\ UNCHANGED <<tokens, sessions, nodes, storedNodes, connVars, gone, orecs, seen>>

AssignTokens(o) ==
    /\ opc[o] = "assign"
    /\ tokens' = [tokens EXCEPT ![okind[o]] = otok[o]]
    /\ seen' = seen \cup ({otok[o]} \ {None})
    /\ OpGoto(o, "evict")
    /\ UNCHANGED <<storedTokens, sessions, nodes, storedNodes, connVars, okind, otok, gone, orecs>>

\* Every session of the kind leaves the map under one lock.
MutantEvicts(o, n) ==                          \* offline nodes are passed over
    /\ sessions[n] # None /\ sessions[n].kind = okind[o]
    /\ nodes[n] # None /\ nodes[n].status = "Online"
Evicts(o, n) == sessions[n] # None /\ sessions[n].kind = okind[o]
EvictSessions(o) ==
    /\ opc[o] = "evict"
    /\ sessions' = [n \in Nodes |-> IF Evicts(o, n) THEN None ELSE sessions[n]]
    /\ gone' = [gone EXCEPT ![o] = [n \in Nodes |-> IF Evicts(o, n) THEN SessionId(n) ELSE None]]
    /\ OpGoto(o, "close")
    /\ UNCHANGED <<tokens, storedTokens, nodes, storedNodes, connVars, okind, otok, orecs, seen>>

MutantCloses(o, c) ==                          \* ClientSession::close without its Yamux arm
    transport[c] = "Quic" /\ \E n \in Nodes : gone[o][n] = c
Closes(o, c) == \E n \in Nodes : gone[o][n] = c
CloseEvicted(o) ==
    /\ opc[o] = "close"
    /\ up' = [c \in Conns |-> up[c] /\ ~Closes(o, c)]
    /\ OpGoto(o, "offline")
    /\ UNCHANGED <<mapVars, pc, transport, tok, kind, node, key, prev, rec, okind, otok, gone, orecs,
                   seen>>

\* The next put_node of the request, or its end when none is left.
PutNext(o, recs) ==
    /\ orecs' = [orecs EXCEPT ![o] = recs]
    /\ IF \A n \in Nodes : recs[n] = None
         THEN EndReplace(o)
         ELSE OpGoto(o, "putOffline") /\ UNCHANGED <<okind, otok>>

MarkEvictedOffline(o) ==
    LET off(n, other) == IF gone[o][n] # None THEN Shown(nodes[n], "Offline") ELSE other IN
    /\ opc[o] = "offline"
    /\ nodes' = [n \in Nodes |-> off(n, nodes[n])]
    /\ PutNext(o, [n \in Nodes |-> off(n, None)])
    /\ gone' = [gone EXCEPT ![o] = [n \in Nodes |-> None]]
    /\ UNCHANGED <<tokens, storedTokens, sessions, storedNodes, connVars, seen>>

\* One put_node per record; the first store error ends the request.
PutEvictedOffline(o, n) ==
    /\ opc[o] = "putOffline" /\ orecs[o][n] # None
    /\ \/ /\ storedNodes' = [storedNodes EXCEPT ![n] = orecs[o][n]]
          /\ PutNext(o, [orecs[o] EXCEPT ![n] = None])
       \/ /\ "store" \in Faults /\ UNCHANGED storedNodes
          /\ PutNext(o, [m \in Nodes |-> None])
    /\ UNCHANGED <<tokens, storedTokens, sessions, nodes, connVars, gone, seen>>

\* The admin's connection closes and hyper drops the request where it waits: for
\* the sessions lock or for the nodes lock.  The tokens are replaced already.
Cancel(o) ==
    /\ "cancel" \in Faults
    /\ opc[o] \in {"evict", "offline"}
    /\ EndReplace(o)
    /\ gone' = [gone EXCEPT ![o] = [n \in Nodes |-> None]]
    /\ UNCHANGED <<mapVars, connVars, orecs, seen>>

--------------------------------------------------------------------------------
(* Start, crash and restart *)

NoConn == [c \in Conns |-> None]
NoOp == [o \in Ops |-> None]
NoNode == [n \in Nodes |-> None]

\* A server started with both tokens set, on a store that may hold node records
\* of earlier runs, with or without a key.
Init ==
    /\ tokens \in [Kinds -> Tokens] /\ storedTokens = tokens
    /\ seen = {tokens[k] : k \in Kinds}
    /\ storedNodes \in [Nodes -> NodeRecord \cup {None}] /\ nodes = storedNodes
    /\ sessions = NoNode
    /\ pc = [c \in Conns |-> "closed"] /\ up = [c \in Conns |-> FALSE]
    /\ transport = NoConn /\ tok = NoConn /\ kind = NoConn /\ node = NoConn
    /\ key = NoConn /\ prev = NoConn /\ rec = NoConn
    /\ opc = [o \in Ops |-> "idle"] /\ okind = NoOp /\ otok = NoOp
    /\ gone = [o \in Ops |-> NoNode] /\ orecs = [o \in Ops |-> NoNode]

\* The server process dies and run_cli starts it again on the same store: the
\* stored tokens win over those of the command line; no session and no task
\* survives, and the node records come back with the status they were stored with.
Restart ==
    /\ "crash" \in Faults
    /\ tokens' = storedTokens
    /\ seen' = seen \cup ({storedTokens[k] : k \in Kinds} \ {None})
    /\ nodes' = storedNodes
    /\ sessions' = NoNode
    /\ pc' = [c \in Conns |-> "closed"] /\ up' = [c \in Conns |-> FALSE]
    /\ transport' = NoConn /\ tok' = NoConn /\ kind' = NoConn /\ node' = NoConn
    /\ key' = NoConn /\ prev' = NoConn /\ rec' = NoConn
    /\ opc' = [o \in Ops |-> "idle"] /\ okind' = NoOp /\ otok' = NoOp
    /\ gone' = [o \in Ops |-> NoNode] /\ orecs' = [o \in Ops |-> NoNode]
    /\ UNCHANGED <<storedTokens, storedNodes>>

Handle(c) ==
    \/ \E tr \in Transports : Connect(c, tr)
    \/ \E t \in Tokens, n \in Nodes : Auth(c, t, n)
    \/ \E k \in Keys : ValidateNode(c, k)
    \/ Activate(c) \/ ClosePrevious(c) \/ InsertNode(c)
    \/ Heartbeat(c) \/ PutNode(c)
    \/ Goodbye(c) \/ ControlError(c) \/ Disconnect(c)
    \/ CheckActive(c) \/ RemoveSession(c) \/ MarkOffline(c) \/ PutOffline(c)

ReplaceToken(o) ==
    \/ \E k \in Kinds, t \in Tokens \cup {None} : BeginReplace(o, k, t)
    \/ PersistTokens(o) \/ AssignTokens(o) \/ EvictSessions(o) \/ CloseEvicted(o)
    \/ MarkEvictedOffline(o)
    \/ \E n \in Nodes : PutEvictedOffline(o, n)
    \/ Cancel(o)

Next ==
    \/ \E c \in Conns : Handle(c)
    \/ \E o \in Ops : ReplaceToken(o)
    \/ Restart

Spec == Init /\ [][Next]_vars

\* The runtime polls every ready task: a handler or request past an await goes
\* on.  A connection that is down yields a read error once its buffered frames,
\* finitely many, are used up.  A connected client sends a heartbeat every 60 s.
HandlerStep(c) ==
    \/ Activate(c) \/ ClosePrevious(c) \/ InsertNode(c) \/ PutNode(c)
    \/ CheckActive(c) \/ RemoveSession(c) \/ MarkOffline(c) \/ PutOffline(c)
ReplaceStep(o) ==
    \/ PersistTokens(o) \/ AssignTokens(o) \/ EvictSessions(o) \/ CloseEvicted(o)
    \/ MarkEvictedOffline(o)
    \/ \E n \in Nodes : PutEvictedOffline(o, n)
Fairness ==
    /\ \A c \in Conns : /\ WF_vars(HandlerStep(c))
                        /\ SF_vars(~up[c] /\ ControlError(c))
                        /\ WF_vars(up[c] /\ Heartbeat(c))
    /\ \A o \in Ops : WF_vars(ReplaceStep(o))
FairSpec == Spec /\ Fairness

--------------------------------------------------------------------------------
(* Properties *)

InLoop(c) == pc[c] \notin {"auth", "closed"}

MapTypes ==
    /\ tokens \in [Kinds -> Tokens \cup {None}]
    /\ storedTokens \in [Kinds -> Tokens \cup {None}]
    /\ sessions \in [Nodes -> ActiveSession \cup {None}]
    /\ nodes \in [Nodes -> NodeRecord \cup {None}]
    /\ storedNodes \in [Nodes -> NodeRecord \cup {None}]
    /\ seen \in SUBSET Tokens
HandlerTypes ==
    /\ pc \in [Conns -> HandlerStates]
    /\ transport \in [Conns -> Transports \cup {None}]
    /\ tok \in [Conns -> Tokens \cup {None}]
    /\ kind \in [Conns -> Kinds \cup {None}]
    /\ node \in [Conns -> Nodes \cup {None}]
    /\ key \in [Conns -> Keys \cup {None}]
    /\ prev \in [Conns -> Conns \cup {None}]
    /\ rec \in [Conns -> NodeRecord \cup {None}]
    /\ up \in [Conns -> BOOLEAN]
Locals(c) ==
    /\ pc[c] # "closed" => transport[c] # None
    /\ InLoop(c) => tok[c] # None /\ kind[c] # None /\ node[c] # None
    /\ pc[c] \in {"activate", "replace", "insert"} <=> key[c] # None
    /\ pc[c] = "replace" <=> prev[c] # None
    /\ pc[c] \in {"put", "putOffline"} <=> rec[c] # None
ReplaceTypes ==
    /\ opc \in [Ops -> OpStates]
    /\ okind \in [Ops -> Kinds \cup {None}]
    /\ otok \in [Ops -> Tokens \cup {None}]
    /\ gone \in [Ops -> [Nodes -> Conns \cup {None}]]
    /\ orecs \in [Ops -> [Nodes -> NodeRecord \cup {None}]]
    /\ \A o \in Ops : opc[o] # "idle" => okind[o] # None

\* The types; the frame loop is entered by authenticated clients alone, and a
\* handler holds a key, a replaced session or a record to store exactly where it
\* has a use for it.
TypeOK == MapTypes /\ HandlerTypes /\ ReplaceTypes /\ \A c \in Conns : Locals(c)

\* A map entry belongs to the connection that authenticated as that node, and a
\* Yamux connection is out of the map before its handler ends, whatever errors,
\* replacements and revocations it met: no visitor is sent to a dead session
\* (handle_yamux_session's cleanup, open_client_stream).
YamuxLeavesNoSession ==
    \A n \in Nodes : LET c == SessionId(n) IN
        c # None => /\ pc[c] = "closed" => sessions[n].transport = "Quic"
                    /\ pc[c] # "closed" => node[c] = n /\ kind[c] = sessions[n].kind

\* Unless its request is cancelled, a rotation or revocation reaches every session
\* that was activated under the token it replaces: one still in the map is about
\* to be evicted (replace_token against activate_session).
ReplacementReachesSessions ==
    \A n \in Nodes : LET s == sessions[n] IN
        s # None => \/ s.token \in {None, tokens[s.kind]}
                    \/ \E o \in Ops : opc[o] = "evict" /\ okind[o] = s.kind

\* A token that was accepted and then replaced is never accepted again, across
\* store errors, concurrent replacements and crashes at any point (replace_token,
\* load_or_initialize_tokens).
ReplacedTokenStaysDead ==
    [][\A k \in Kinds : \A t \in seen : tokens[k] # t => tokens'[k] # t]_vars

\* Node n is settled on key k: memory and store agree on it, and every task that
\* still has a record of n to write carries the same key.
Settled(n, k) ==
    /\ nodes[n] # None /\ nodes[n].key = k
    /\ storedNodes[n] # None /\ storedNodes[n].key = k
    /\ \A c \in Conns : node[c] = n =>
         /\ pc[c] \in {"activate", "replace", "insert"} => key[c] = k
         /\ rec[c] # None => rec[c].key = k
    /\ \A o \in Ops : orecs[o][n] # None => orecs[o][n].key = k

\* Once settled, a node's key is pinned for good: no order of registrations,
\* heartbeats, cleanups, evictions, store errors and restarts lets another key
\* in (validate_node_identity, whose lock is released before the insert).
IdentityPinned ==
    [][\A n \in Nodes, k \in Keys : Settled(n, k) => Settled(n, k)']_vars

\* After a revocation the connections under the old token are closed and none
\* comes back (PLAN.md:440): with no replacement under way, every session was
\* activated under a token that is accepted now.
NoSessionOnReplacedToken ==
    (\A o \in Ops : opc[o] = "idle") =>
        \A n \in Nodes : sessions[n] # None =>
            sessions[n].token # None /\ sessions[n].token = tokens[sessions[n].kind]

\* A node whose session has ended is marked Offline (PLAN.md:372), or a newer
\* session has taken over, by the cleanup that closes the handlers.
EndedSessionShownOffline ==
    \A n \in Nodes :
        LET ended == SessionId(n) # None /\ pc[SessionId(n)] = "closed"
            offline == nodes[n] # None /\ nodes[n].status = "Offline"
        IN ended ~> (offline \/ ~ended)

\* A node whose session is alive is shown Online again, although a late eviction
\* or cleanup of an older session marked it Offline after this one registered:
\* the heartbeats repair it (record_heartbeat).
LiveSessionShownOnline ==
    \A c \in Conns, n \in Nodes :
        LET live == SessionId(n) = c /\ pc[c] = "loop" /\ up[c]
            online == nodes[n] # None /\ nodes[n].status = "Online"
        IN live ~> (online \/ SessionId(n) # c \/ ~up[c])

\* The handler of every session a rotation or revocation evicts ends
\* (replace_token's close, seen by the handler as a read error).
EvictedHandlerEnds ==
    \A o \in Ops, c \in Conns : (opc[o] = "close" /\ \E n \in Nodes : gone[o][n] = c) ~> pc[c] = "closed"

\* A Yamux session whose connection is down leaves the map (cleanup in
\* handle_yamux_session), or a newer one has taken its place.
DeadYamuxReleased ==
    \A c \in Conns, n \in Nodes :
        (SessionId(n) = c /\ transport[c] = "Yamux" /\ ~up[c]) ~> SessionId(n) # c

\* What the control plane promises as a whole: its locks, transactions and crashes
\* implement RelayAccess, in which admission and replacement are one step each.  A
\* client is in from its Auth frame to the end of its handler.
Access == INSTANCE RelayAccess
    WITH accepted <- tokens, spent <- seen \ {tokens[k] : k \in Kinds},
         pass <- tok, place <- node, host <- [n \in Nodes |-> SessionId(n)]
ImplementsAccess == Access!Spec
================================================================================
