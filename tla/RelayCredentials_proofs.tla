------------------------ MODULE RelayCredentials_proofs ------------------------
(***************************************************************************)
(* Proofs about what admits a client in RelaySessions, for any number of   *)
(* concurrent handlers and requests and every fault: a replaced token      *)
(* never comes back, its eviction reaches every session under it, a node   *)
(* that is settled on a key keeps it, and the control plane implements     *)
(* RelayAccess.                                                            *)
(***************************************************************************)
EXTENDS RelaySessions_proofs


--------------------------------------------------------------------------------
(* A replaced token stays dead *)

\* The token a request is about to accept is new, and no other request holds it.
\* Outside the write lock's scope store and memory agree; inside, the store is
\* ahead by the change of the one request that holds the lock.
TokenInv ==
    /\ \A o \in Ops : opc[o] \in {"persist", "assign"} => otok[o] \notin seen
    /\ \A o, p \in Ops : o # p /\ otok[o] # None => otok[o] # otok[p]
    /\ \A o, p \in Ops : opc[o] = "assign" /\ opc[p] = "assign" => o = p
    /\ \A o \in Ops : opc[o] = "assign" => storedTokens = Replaced(o)
    /\ ~TokensLocked => storedTokens = tokens

\* It holds at the start.
LEMMA TokenInit == Init => TokenInv
BY DEF Init, TokenInv, TokensLocked, NoOp

\* Every request keeps it.
LEMMA TokenReplace ==
    ASSUME TypeOK, TokenInv, NEW o \in Ops, ReplaceToken(o) PROVE TokenInv'
<1> USE NoneDistinct DEF TokensLocked, OpGoto, NoneIsNew
<1>t. /\ opc \in [Ops -> OpStates] /\ okind \in [Ops -> Kinds \cup {None}]
      /\ otok \in [Ops -> Tokens \cup {None}] /\ seen \subseteq Tokens
      /\ tokens \in [Kinds -> Tokens \cup {None}]
  BY DEF TypeOK, ReplaceTypes, MapTypes
<1>1. ASSUME NEW k \in Kinds, NEW t \in Tokens \cup {None}, BeginReplace(o, k, t) PROVE TokenInv'
  BY <1>1, <1>t DEF TokenInv, BeginReplace, Fresh, Replaced, mapVars
<1>2. CASE PersistTokens(o)
  BY <1>2, <1>t DEF TokenInv, PersistTokens, Replaced, EndReplace
<1>3. CASE AssignTokens(o)
  BY <1>3, <1>t DEF TokenInv, AssignTokens, Replaced
<1>4. CASE EvictSessions(o)
  BY <1>4, <1>t DEF TokenInv, EvictSessions, Replaced
<1>5. CASE CloseEvicted(o)
  BY <1>5, <1>t DEF TokenInv, CloseEvicted, Replaced, mapVars
<1>6. ASSUME opc[o] \in {"offline", "putOffline"}, NEW recs, PutNext(o, recs),
             UNCHANGED <<tokens, storedTokens, seen>>
      PROVE  TokenInv'
  BY <1>6, <1>t DEF TokenInv, PutNext, EndReplace, Replaced
<1>7. CASE MarkEvictedOffline(o)
  BY <1>6, <1>7 DEF MarkEvictedOffline
<1>8. ASSUME NEW n \in Nodes, PutEvictedOffline(o, n) PROVE TokenInv'
  BY <1>6, <1>8 DEF PutEvictedOffline
<1>9. CASE Cancel(o)
  BY <1>9, <1>t DEF TokenInv, Cancel, EndReplace, Replaced, mapVars
<1> QED
  BY <1>1, <1>2, <1>3, <1>4, <1>5, <1>7, <1>8, <1>9 DEF ReplaceToken

\* Every step keeps it: handlers do not touch tokens, a restart takes the store's.
LEMMA TokenStep == TypeOK /\ TokenInv /\ [Next]_vars => TokenInv'
<1> SUFFICES ASSUME TypeOK, TokenInv, [Next]_vars PROVE TokenInv'
  OBVIOUS
<1>1. ASSUME NEW c \in Conns, Handle(c) PROVE TokenInv'
  <2>1. UNCHANGED <<tokens, storedTokens, opVars, seen>>
    BY <1>1 DEF Handle, Connect, Auth, ValidateNode, Activate, ClosePrevious, InsertNode, Heartbeat,
                PutNode, Goodbye, ControlError, Disconnect, CheckActive, RemoveSession, MarkOffline,
                PutOffline, mapVars
  <2> QED BY <2>1 DEF TokenInv, TokensLocked, Replaced, opVars
<1>2. CASE Restart
  BY <1>2 DEF TokenInv, TokensLocked, Restart, NoOp
<1>3. CASE UNCHANGED vars
  BY <1>3 DEF TokenInv, TokensLocked, Replaced, vars, mapVars, opVars
<1> QED
  BY <1>1, <1>2, <1>3, TokenReplace DEF Next

\* A token that was accepted and replaced is never accepted again: not by a later
\* or a concurrent request, and not by a restart from the store, wherever the
\* crash falls.
THEOREM ReplacedStaysDead == Spec => ReplacedTokenStaysDead
<1>1. TypeOK /\ TokenInv /\ [Next]_vars
        => [\A k \in Kinds : \A t \in seen : tokens[k] # t => tokens'[k] # t]_vars
  <2> SUFFICES ASSUME TypeOK, TokenInv, Next, NEW k \in Kinds, NEW t \in seen, tokens[k] # t
               PROVE  tokens'[k] # t
    BY DEF vars
  <2>t. tokens \in [Kinds -> Tokens \cup {None}] /\ okind \in [Ops -> Kinds \cup {None}]
    BY DEF TypeOK, MapTypes, ReplaceTypes
  <2>1. ASSUME NEW o \in Ops, AssignTokens(o) PROVE tokens'[k] # t
    BY <2>1, <2>t DEF AssignTokens, TokenInv
  <2>2. CASE Restart
    <3>1. CASE TokensLocked
      BY <2>2, <2>t, <3>1 DEF Restart, TokensLocked, TokenInv, Replaced
    <3>2. CASE ~TokensLocked
      BY <2>2, <3>2 DEF Restart, TokenInv
    <3> QED BY <3>1, <3>2
  <2>3. ASSUME NEW c \in Conns, Handle(c) PROVE UNCHANGED tokens
    BY <2>3
       DEF Handle, mapVars, Connect, Auth, ValidateNode, Activate, ClosePrevious, InsertNode, Heartbeat,
           PutNode, Goodbye, ControlError, Disconnect, CheckActive, RemoveSession, MarkOffline, PutOffline
  <2>4. ASSUME NEW o \in Ops, ReplaceToken(o), ~AssignTokens(o) PROVE UNCHANGED tokens
    BY <2>4
       DEF ReplaceToken, mapVars, BeginReplace, PersistTokens, EvictSessions, CloseEvicted,
           MarkEvictedOffline, PutEvictedOffline, Cancel
  <2> QED BY <2>1, <2>2, <2>3, <2>4 DEF Next
<1> QED
  BY <1>1, TokenInit, TokenStep, TypeCorrect, PTL DEF Spec, ReplacedTokenStaysDead

--------------------------------------------------------------------------------
(* The eviction reaches every session under the replaced token *)

Reached(n) ==
    LET s == sessions[n] IN
    s # None => \/ s.token \in {None, tokens[s.kind]}
                \/ \E o \in Ops : opc[o] = "evict" /\ okind[o] = s.kind

\* ReplacementReachesSessions is inductive by itself, on well-typed states.
LEMMA ReachedStep ==
    ASSUME "cancel" \notin Faults
    PROVE  TypeOK /\ ReplacementReachesSessions /\ [Next]_vars => ReplacementReachesSessions'
<1> SUFFICES ASSUME TypeOK, ReplacementReachesSessions, [Next]_vars, NEW n \in Nodes
             PROVE  Reached(n)'
  BY DEF ReplacementReachesSessions, Reached
<1> USE NoneDistinct DEF NoneIsNew, OpGoto
<1>r. Reached(n)
  BY DEF ReplacementReachesSessions, Reached
<1>t. /\ opc \in [Ops -> OpStates] /\ okind \in [Ops -> Kinds \cup {None}]
      /\ tokens \in [Kinds -> Tokens \cup {None}] /\ sessions \in [Nodes -> ActiveSession \cup {None}]
      /\ sessions[n] # None => sessions[n].kind \in Kinds
      /\ \A o \in Ops : opc[o] # "idle" => okind[o] \in Kinds
  BY DEF TypeOK, MapTypes, ReplaceTypes, ActiveSession
<1>1. ASSUME NEW c \in Conns, Activate(c) PROVE Reached(n)'
  <2>1. node[c] \in Nodes /\ kind[c] \in Kinds
    BY <1>1 DEF TypeOK, HandlerTypes, Locals, InLoop, Activate
  <2> QED BY <1>1, <1>r, <1>t, <2>1 DEF Activate, Reached, opVars
<1>2. ASSUME NEW c \in Conns, RemoveSession(c) PROVE Reached(n)'
  BY <1>2, <1>r, <1>t DEF RemoveSession, Reached, opVars
<1>3. ASSUME NEW o \in Ops, AssignTokens(o) PROVE Reached(n)'
  BY <1>3, <1>r, <1>t DEF AssignTokens, Reached
<1>4. ASSUME NEW o \in Ops, EvictSessions(o) PROVE Reached(n)'
  BY <1>4, <1>r, <1>t DEF EvictSessions, Evicts, Reached
<1>5. CASE Restart
  BY <1>5 DEF Restart, Reached, NoNode
<1>6. ASSUME NEW o \in Ops, UNCHANGED <<tokens, sessions>>, opc[o] # "evict",
             \A p \in Ops \ {o} : opc'[p] = opc[p] /\ okind'[p] = okind[p]
      PROVE  Reached(n)'
  BY <1>6, <1>r DEF Reached
<1>7. ASSUME NEW o \in Ops,
             \/ \E k \in Kinds, t \in Tokens \cup {None} : BeginReplace(o, k, t)
             \/ PersistTokens(o) \/ CloseEvicted(o) \/ MarkEvictedOffline(o)
             \/ \E m \in Nodes : PutEvictedOffline(o, m)
      PROVE  Reached(n)'
  BY <1>6, <1>7, <1>t DEF BeginReplace, PersistTokens, CloseEvicted, MarkEvictedOffline, PutEvictedOffline,
                          PutNext, EndReplace, mapVars, TypeOK, ReplaceTypes
<1>8. CASE UNCHANGED <<tokens, sessions, opc, okind>>
  BY <1>8, <1>r DEF Reached
<1>9. ASSUME NEW c \in Conns, Handle(c), ~Activate(c), ~RemoveSession(c)
      PROVE  UNCHANGED <<tokens, sessions, opc, okind>>
  BY <1>9 DEF Handle, mapVars, opVars, Connect, Auth, ValidateNode, ClosePrevious, InsertNode, Heartbeat,
              PutNode, Goodbye, ControlError, Disconnect, CheckActive, MarkOffline, PutOffline
<1>10. ASSUME NEW c \in Conns, Handle(c) PROVE Reached(n)'
  BY <1>1, <1>2, <1>8, <1>9, <1>10
<1>11. ASSUME NEW o \in Ops, ReplaceToken(o) PROVE Reached(n)'
  BY <1>3, <1>4, <1>7, <1>11 DEF ReplaceToken, Cancel
<1>12. CASE UNCHANGED vars
  BY <1>8, <1>12 DEF vars, mapVars, opVars
<1> QED
  BY <1>5, <1>10, <1>11, <1>12 DEF Next

\* If no request is cancelled, no session that was activated under a replaced
\* token escapes the eviction.
THEOREM EvictionReachesAll ==
    ASSUME "cancel" \notin Faults PROVE Spec => []ReplacementReachesSessions
<1>1. Init => ReplacementReachesSessions
  BY DEF Init, ReplacementReachesSessions, NoNode
<1> QED
  BY <1>1, ReachedStep, TypeCorrect, PTL DEF Spec

--------------------------------------------------------------------------------
(* A node keeps its key *)


\* The four parts of Settled: the maps, the keys and the records that handlers
\* carry, the records that evictions carry.
MapsHold(n, k) ==
    /\ nodes[n] # None /\ nodes[n].key = k
    /\ storedNodes[n] # None /\ storedNodes[n].key = k
HandlerHolds(n, k, c) ==
    node[c] = n => /\ pc[c] \in {"activate", "replace", "insert"} => key[c] = k
                   /\ rec[c] # None => rec[c].key = k
EvictionHolds(n, k, o) == orecs[o][n] # None => orecs[o][n].key = k

\* Settled, now and in the next state, by its parts.
LEMMA SettledParts ==
    ASSUME NEW n \in Nodes, NEW k \in Keys
    PROVE  /\ Settled(n, k) <=> /\ MapsHold(n, k)
                                /\ \A c \in Conns : HandlerHolds(n, k, c)
                                /\ \A o \in Ops : EvictionHolds(n, k, o)
           /\ Settled(n, k)' <=> /\ MapsHold(n, k)'
                                 /\ \A c \in Conns : HandlerHolds(n, k, c)'
                                 /\ \A o \in Ops : EvictionHolds(n, k, o)'
BY DEF Settled, MapsHold, HandlerHolds, EvictionHolds

\* A handler registers, stores and marks node n under key k alone.
LEMMA HandlerSettled ==
    ASSUME TypeOK, NEW n \in Nodes, NEW k \in Keys, Settled(n, k), NEW c \in Conns, Handle(c)
    PROVE  Settled(n, k)'
<1> USE NoneDistinct DEF mapVars, NoneIsNew
<1>t. /\ pc \in [Conns -> HandlerStates] /\ node \in [Conns -> Nodes \cup {None}]
      /\ key \in [Conns -> Keys \cup {None}] /\ rec \in [Conns -> NodeRecord \cup {None}]
      /\ nodes \in [Nodes -> NodeRecord \cup {None}] /\ storedNodes \in [Nodes -> NodeRecord \cup {None}]
      /\ pc[c] \in {"put", "putOffline"} <=> rec[c] # None
      /\ InLoop(c) => node[c] \in Nodes
  BY DEF TypeOK, MapTypes, HandlerTypes, Locals
<1>s. /\ MapsHold(n, k)
      /\ \A d \in Conns : HandlerHolds(n, k, d)
      /\ \A o \in Ops : EvictionHolds(n, k, o)
  BY SettledParts
<1>e. UNCHANGED opVars => \A o \in Ops : EvictionHolds(n, k, o)'
  BY <1>s DEF EvictionHolds, opVars
<1>r. ASSUME NEW s \in {"Online", "Offline"}, NEW m \in Nodes
      PROVE  /\ Shown(nodes[m], s) \in NodeRecord \cup {None}
             /\ Shown(nodes[m], s) = None <=> nodes[m] = None
             /\ nodes[m] # None => Shown(nodes[m], s).key = nodes[m].key
  BY <1>t, ShownTyped
<1>1. ASSUME NEW tr \in Transports, Connect(c, tr) PROVE Settled(n, k)'
  BY <1>1, <1>s, <1>t DEF Connect, Goto, Settled, MapsHold, HandlerHolds, EvictionHolds, opVars, Unused
<1>2. ASSUME NEW t \in Tokens, NEW m \in Nodes, Auth(c, t, m) PROVE Settled(n, k)'
  <2>1. \A d \in Conns : HandlerHolds(n, k, d)'
    BY <1>2, <1>s, <1>t DEF Auth, Leave, Goto, HandlerHolds
  <2> QED BY <1>2, <1>s, <1>e, <2>1, SettledParts DEF Auth, MapsHold
<1>3. ASSUME NEW j \in Keys, ValidateNode(c, j) PROVE Settled(n, k)'
  <2>1. \A d \in Conns : HandlerHolds(n, k, d)'
    BY <1>3, <1>s, <1>t DEF ValidateNode, Admits, Bail, Leave, Proceed, Goto, HandlerHolds, MapsHold
  <2> QED BY <1>3, <1>s, <1>e, <2>1, SettledParts DEF ValidateNode, MapsHold
<1>4. CASE Activate(c)
  <2>1. \A d \in Conns : HandlerHolds(n, k, d)'
    BY <1>4, <1>s, <1>t DEF Activate, Proceed, Goto, HandlerHolds
  <2> QED BY <1>4, <1>s, <1>e, <2>1, SettledParts DEF Activate, MapsHold
<1>5. CASE ClosePrevious(c)
  <2>1. \A d \in Conns : HandlerHolds(n, k, d)'
    BY <1>5, <1>s, <1>t DEF ClosePrevious, Goto, HandlerHolds
  <2> QED BY <1>5, <1>s, <1>e, <2>1, SettledParts DEF ClosePrevious, MapsHold
<1>6. CASE InsertNode(c)
  <2>1. \A d \in Conns : HandlerHolds(n, k, d)'
    BY <1>6, <1>s, <1>t DEF InsertNode, Proceed, Goto, HandlerHolds, NodeRecord
  <2>2. MapsHold(n, k)'
    BY <1>6, <1>s, <1>t DEF InsertNode, MapsHold, HandlerHolds, NodeRecord
  <2> QED BY <1>6, <1>e, <2>1, <2>2, SettledParts DEF InsertNode
<1>7. CASE Heartbeat(c)
  <2>0. node[c] \in Nodes
    BY <1>7, <1>t DEF Heartbeat, InLoop
  <2>1. \A d \in Conns : HandlerHolds(n, k, d)'
    BY <1>7, <1>s, <1>t, <1>r, <2>0 DEF Heartbeat, Heard, Proceed, Goto, HandlerHolds, MapsHold
  <2>2. MapsHold(n, k)'
    BY <1>7, <1>s, <1>t, <1>r, <2>0 DEF Heartbeat, Heard, MapsHold
  <2> QED BY <1>7, <1>e, <2>1, <2>2, SettledParts DEF Heartbeat
<1>8. CASE PutNode(c)
  <2>1. \A d \in Conns : HandlerHolds(n, k, d)'
    BY <1>8, <1>s, <1>t DEF PutNode, Bail, Leave, Proceed, Goto, HandlerHolds
  <2>2. MapsHold(n, k)'
    BY <1>8, <1>s, <1>t DEF PutNode, HandlerHolds, MapsHold
  <2> QED BY <1>8, <1>e, <2>1, <2>2, SettledParts DEF PutNode
<1>9. CASE MarkOffline(c)
  <2>0. node[c] \in Nodes
    BY <1>9, <1>t DEF MarkOffline, InLoop
  <2>1. \A d \in Conns : HandlerHolds(n, k, d)'
    BY <1>9, <1>s, <1>t, <1>r, <2>0 DEF MarkOffline, Leave, Proceed, Goto, HandlerHolds, MapsHold
  <2>2. MapsHold(n, k)'
    BY <1>9, <1>s, <1>t, <1>r, <2>0 DEF MarkOffline, StoreNode, MapsHold
  <2> QED BY <1>9, <1>e, <2>1, <2>2, SettledParts DEF MarkOffline
<1>10. CASE PutOffline(c)
  <2>1. \A d \in Conns : HandlerHolds(n, k, d)'
    BY <1>10, <1>s, <1>t DEF PutOffline, Leave, Goto, HandlerHolds
  <2>2. MapsHold(n, k)'
    BY <1>10, <1>s, <1>t DEF PutOffline, StoreNode, HandlerHolds, MapsHold
  <2> QED BY <1>10, <1>e, <2>1, <2>2, SettledParts DEF PutOffline
<1>11. CASE Goodbye(c) \/ ControlError(c) \/ Disconnect(c) \/ CheckActive(c) \/ RemoveSession(c)
  <2>1. \A d \in Conns : HandlerHolds(n, k, d)'
    BY <1>11, <1>s, <1>t DEF Goodbye, ControlError, Disconnect, CheckActive, RemoveSession, Bail, Leave,
                             Proceed, Goto, HandlerHolds
  <2> QED
    BY <1>11, <1>s, <1>e, <2>1, SettledParts
       DEF MapsHold, Goodbye, ControlError, Disconnect, CheckActive, RemoveSession
<1> QED
  BY <1>1, <1>2, <1>3, <1>4, <1>5, <1>6, <1>7, <1>8, <1>9, <1>10, <1>11 DEF Handle

\* An eviction keeps the keys of the records it marks Offline.
LEMMA ReplaceSettled ==
    ASSUME TypeOK, NEW n \in Nodes, NEW k \in Keys, Settled(n, k), NEW o \in Ops, ReplaceToken(o)
    PROVE  Settled(n, k)'
<1> USE NoneDistinct DEF mapVars, connVars, NoneIsNew
<1>t. /\ nodes \in [Nodes -> NodeRecord \cup {None}] /\ storedNodes \in [Nodes -> NodeRecord \cup {None}]
      /\ orecs \in [Ops -> [Nodes -> NodeRecord \cup {None}]]
  BY DEF TypeOK, MapTypes, ReplaceTypes
<1>s. /\ MapsHold(n, k)
      /\ \A d \in Conns : HandlerHolds(n, k, d)
      /\ \A p \in Ops : EvictionHolds(n, k, p)
  BY SettledParts
<1>c. UNCHANGED connVars => \A d \in Conns : HandlerHolds(n, k, d)'
  BY <1>s DEF HandlerHolds
<1>1. CASE MarkEvictedOffline(o)
  <2>0. Shown(nodes[n], "Offline") # None /\ Shown(nodes[n], "Offline").key = k
    BY <1>s, <1>t, ShownTyped DEF MapsHold
  <2>1. MapsHold(n, k)'
    BY <1>1, <1>s, <1>t, <2>0 DEF MarkEvictedOffline, MapsHold
  <2>2. \A p \in Ops : EvictionHolds(n, k, p)'
    BY <1>1, <1>s, <1>t, <2>0 DEF MarkEvictedOffline, PutNext, EvictionHolds
  <2> QED BY <1>1, <1>c, <2>1, <2>2, SettledParts DEF MarkEvictedOffline
<1>2. ASSUME NEW m \in Nodes, PutEvictedOffline(o, m) PROVE Settled(n, k)'
  <2>1. MapsHold(n, k)'
    BY <1>2, <1>s, <1>t DEF PutEvictedOffline, MapsHold, EvictionHolds
  <2>2. \A p \in Ops : EvictionHolds(n, k, p)'
    BY <1>2, <1>s, <1>t DEF PutEvictedOffline, PutNext, EvictionHolds
  <2> QED BY <1>2, <1>c, <2>1, <2>2, SettledParts DEF PutEvictedOffline
<1>3. CASE CloseEvicted(o)
  BY <1>3 DEF CloseEvicted, Settled
<1>4. CASE UNCHANGED <<nodes, storedNodes, connVars, orecs>>
  BY <1>4 DEF Settled
<1> QED
  BY <1>1, <1>2, <1>3, <1>4 DEF ReplaceToken, BeginReplace, PersistTokens, AssignTokens, EvictSessions,
                          Cancel

\* A key that a node is settled on is pinned for good.
THEOREM KeyPinned == Spec => IdentityPinned
<1>1. TypeOK /\ [Next]_vars
        => [\A n \in Nodes, k \in Keys : Settled(n, k) => Settled(n, k)']_vars
  <2> SUFFICES ASSUME TypeOK, Next, NEW n \in Nodes, NEW k \in Keys, Settled(n, k)
               PROVE  Settled(n, k)'
    OBVIOUS
  <2>1. CASE Restart
    BY <2>1, NoneDistinct DEF Restart, Settled, NoConn, NoNode, NoneIsNew
  <2> QED BY <2>1, HandlerSettled, ReplaceSettled DEF Next
<1> QED
  BY <1>1, TypeCorrect, PTL DEF Spec, IdentityPinned

--------------------------------------------------------------------------------
(* Admission and replacement are one step each *)

\* What admits a client has been accepted, and a handler has a token from its
\* Auth frame to its end.
AccessInv ==
    /\ \A k \in Kinds : tokens[k] \in seen \cup {None}
    /\ \A c \in Conns : ~InLoop(c) => tok[c] = None

\* The three things a handler's step can be to who is in: an admission, the end of
\* the handler, and neither, which may change who hosts its node.
Enters(c) ==
    /\ pc[c] = "auth"
    /\ \E t \in Tokens, n \in Nodes :
         /\ \E k \in Kinds : tokens[k] = t
         /\ tok' = [tok EXCEPT ![c] = t] /\ node' = [node EXCEPT ![c] = n]
    /\ Goto(c, "loop")
    /\ UNCHANGED sessions
Exits(c) == Leave(c) /\ UNCHANGED sessions
Stays(c) ==
    /\ UNCHANGED <<tok, node>> /\ \A d \in Conns : InLoop(d)' <=> InLoop(d)
    /\ UNCHANGED sessions \/ Activate(c) \/ RemoveSession(c)

\* Every step of a handler is one of these.
LEMMA HandlerAccess ==
    ASSUME TypeOK, NEW c \in Conns, Handle(c)
    PROVE  UNCHANGED <<tokens, seen>> /\ (Enters(c) \/ Exits(c) \/ Stays(c))
<1> USE DEF mapVars
<1>t. pc \in [Conns -> HandlerStates]
  BY DEF TypeOK, HandlerTypes
<1>1. UNCHANGED <<tokens, seen>>
  BY DEF Handle, Connect, Auth, ValidateNode, Activate, ClosePrevious, InsertNode, Heartbeat,
         PutNode, Goodbye, ControlError, Disconnect, CheckActive, RemoveSession, MarkOffline, PutOffline
<1>p. ASSUME NEW p \in HandlerStates \ {"auth", "closed"}, InLoop(c), Proceed(c, p),
             UNCHANGED sessions \/ Activate(c) \/ RemoveSession(c)
      PROVE  Stays(c)
  BY <1>p, <1>t DEF Proceed, Goto, InLoop, Stays
<1>2. ASSUME NEW tr \in Transports, Connect(c, tr) PROVE Stays(c)
  BY <1>2, <1>t DEF Connect, Unused, Goto, InLoop, Stays
<1>3. ASSUME NEW t \in Tokens, NEW n \in Nodes, Auth(c, t, n) PROVE Enters(c) \/ Exits(c)
  <2>1. CASE Accepts(t)
    <3>1. \E k \in Kinds : tokens[k] = t
      BY <2>1, NoneDistinct DEF Accepts, Authenticate, Kinds, NoneIsNew
    <3> QED BY <1>3, <2>1, <3>1 DEF Auth, Enters
  <2>2. CASE ~Accepts(t)
    BY <1>3, <2>2 DEF Auth, Exits
  <2> QED BY <2>1, <2>2
<1>4. ASSUME NEW k \in Keys, ValidateNode(c, k) PROVE Exits(c) \/ Stays(c)
  BY <1>4, <1>p DEF ValidateNode, Bail, Exits, InLoop, HandlerStates
<1>5. CASE Activate(c)
  BY <1>5, <1>p DEF Activate, InLoop, HandlerStates
<1>6. CASE ClosePrevious(c)
  BY <1>6, <1>t DEF ClosePrevious, Goto, InLoop, Stays
<1>7. CASE InsertNode(c) \/ Heartbeat(c) \/ Goodbye(c) \/ RemoveSession(c)
  BY <1>7, <1>p DEF InsertNode, Heartbeat, Goodbye, RemoveSession, InLoop, HandlerStates
<1>8. CASE PutNode(c) \/ ControlError(c) \/ CheckActive(c) \/ MarkOffline(c) \/ PutOffline(c)
  BY <1>8, <1>p DEF PutNode, ControlError, CheckActive, MarkOffline, PutOffline, Bail, Exits, InLoop, HandlerStates
<1>9. CASE Disconnect(c)
  BY <1>9 DEF Disconnect, Stays, InLoop
<1> QED
  BY <1>1, <1>2, <1>3, <1>4, <1>5, <1>6, <1>7, <1>8, <1>9 DEF Handle

\* AccessInv holds at the start,
LEMMA AccessInit == Init => AccessInv
BY DEF Init, AccessInv, InLoop, NoConn

\* and every step keeps it.
LEMMA AccessStep == TypeOK /\ TokenInv /\ AccessInv /\ [Next]_vars => AccessInv'
<1> SUFFICES ASSUME TypeOK, TokenInv, AccessInv, [Next]_vars PROVE AccessInv'
  OBVIOUS
<1>t. /\ pc \in [Conns -> HandlerStates] /\ tok \in [Conns -> Tokens \cup {None}]
      /\ tokens \in [Kinds -> Tokens \cup {None}] /\ storedTokens \in [Kinds -> Tokens \cup {None}]
      /\ otok \in [Ops -> Tokens \cup {None}]
  BY DEF TypeOK, MapTypes, HandlerTypes, ReplaceTypes
<1>1. ASSUME NEW c \in Conns, Handle(c) PROVE AccessInv'
  <2>1. CASE Enters(c)
    BY <1>1, <1>t, <2>1, HandlerAccess DEF Enters, Goto, InLoop, AccessInv
  <2>2. CASE Exits(c)
    BY <1>1, <1>t, <2>2, HandlerAccess DEF Exits, Leave, Goto, InLoop, AccessInv
  <2>3. CASE Stays(c)
    BY <1>1, <2>3, HandlerAccess DEF Stays, AccessInv
  <2> QED BY <1>1, <2>1, <2>2, <2>3, HandlerAccess
<1>2. ASSUME NEW o \in Ops, AssignTokens(o) PROVE AccessInv'
  BY <1>2, <1>t DEF AssignTokens, AccessInv, connVars, InLoop
<1>3. ASSUME NEW o \in Ops, ReplaceToken(o), ~AssignTokens(o) PROVE AccessInv'
  <2>1. UNCHANGED <<tokens, seen, pc, tok>>
    BY <1>3 DEF ReplaceToken, BeginReplace, PersistTokens, EvictSessions, CloseEvicted,
                MarkEvictedOffline, PutEvictedOffline, Cancel, mapVars, connVars
  <2> QED BY <2>1 DEF AccessInv, InLoop
<1>4. CASE Restart
  BY <1>4, <1>t DEF Restart, AccessInv, InLoop, NoConn
<1>5. CASE UNCHANGED vars
  BY <1>5 DEF vars, mapVars, connVars, AccessInv, InLoop
<1> QED
  BY <1>1, <1>2, <1>3, <1>4, <1>5 DEF Next

HostMap == [n \in Nodes |-> SessionId(n)]
SpentSet == seen \ {tokens[k] : k \in Kinds}

\* A handler's step admits its client, sends it out, gives it its node, or leaves a
\* node without a host.
LEMMA HandlerImplements ==
    ASSUME TypeOK, Ownership, AccessInv, NEW c \in Conns, Handle(c) PROVE [Access!Next]_Access!vars
<1> USE DEF Access!vars, Access!Valid
<1>t. /\ pc \in [Conns -> HandlerStates] /\ tok \in [Conns -> Tokens \cup {None}]
      /\ node \in [Conns -> Nodes \cup {None}]
      /\ sessions \in [Nodes -> ActiveSession \cup {None}]
      /\ InLoop(c) => tok[c] # None /\ node[c] \in Nodes
  BY DEF TypeOK, MapTypes, HandlerTypes, Locals
<1>u. UNCHANGED <<tokens, seen>>
  BY HandlerAccess
<1>h. UNCHANGED sessions => HostMap' = HostMap
  BY DEF HostMap, SessionId
<1>s. UNCHANGED <<tokens, seen>> => SpentSet' = SpentSet
  BY DEF SpentSet
<1>1. CASE Enters(c)
  <2>1. PICK t \in Tokens, n \in Nodes :
          /\ \E k \in Kinds : tokens[k] = t
          /\ tok' = [tok EXCEPT ![c] = t] /\ node' = [node EXCEPT ![c] = n]
    BY <1>1 DEF Enters
  <2>2. t \in {tokens[k] : k \in Kinds} \ {None}
    BY <2>1, NoneDistinct DEF NoneIsNew
  <2>3. tok[c] = None /\ \A m \in Nodes : HostMap[m] # c
    BY <1>1, NoneDistinct DEF Enters, AccessInv, InLoop, Ownership, Owns, HostMap, SessionId, NoneIsNew
  <2>4. Access!Admit(c, t, n)
    BY <1>1, <1>u, <1>h, <1>s, <2>1, <2>2, <2>3 DEF Access!Admit, Enters, HostMap, SpentSet
  <2> QED BY <2>4 DEF Access!Next
<1>2. CASE Exits(c)
  <2>1. Access!Depart(c)
    BY <1>2, <1>u, <1>h, <1>s DEF Access!Depart, Exits, Leave, HostMap, SpentSet
  <2> QED BY <2>1 DEF Access!Next
<1>3. CASE Stays(c) /\ UNCHANGED sessions
  BY <1>3, <1>u, <1>h, <1>s DEF Stays, HostMap, SpentSet
<1>4. CASE Stays(c) /\ Activate(c)
  <2>0. node[c] \in Nodes /\ tok[c] # None
    BY <1>4, <1>t DEF Activate, InLoop
  <2>1. sessions'[node[c]] # None /\ sessions'[node[c]].id = c
    <3>1. /\ kind[c] \in Kinds /\ tok[c] \in Tokens /\ transport[c] \in Transports
          /\ sessions'[node[c]] =
               [id |-> c, kind |-> kind[c], transport |-> transport[c],
                token |-> IF tokens[kind[c]] = tok[c] THEN tok[c] ELSE None]
      BY <1>4, <1>t, <2>0 DEF Activate, TypeOK, HandlerTypes, Locals, InLoop
    <3>2. sessions'[node[c]] \in ActiveSession
      BY <3>1 DEF ActiveSession
    <3> QED BY <3>1, <3>2, NoneDistinct DEF NoneIsNew
  <2>2. \A n \in Nodes \ {node[c]} : sessions'[n] = sessions[n]
    BY <1>4, <1>t DEF Activate
  <2>3. HostMap' = [HostMap EXCEPT ![node[c]] = c]
    BY <2>0, <2>1, <2>2 DEF HostMap, SessionId
  <2>4. Access!Serve(c)
    BY <1>4, <1>u, <1>s, <2>0, <2>3 DEF Access!Serve, Stays, HostMap, SpentSet
  <2> QED BY <2>4 DEF Access!Next
<1>5. CASE Stays(c) /\ RemoveSession(c)
  <2>0. node[c] \in Nodes
    BY <1>5, <1>t DEF RemoveSession, InLoop
  <2>1. HostMap' = [n \in Nodes |-> IF n \in {node[c]} THEN None ELSE HostMap[n]]
    BY <1>5, <1>t, <2>0 DEF RemoveSession, HostMap, SessionId
  <2>2. Access!Vacate
    <3>1. {node[c]} \in SUBSET Nodes
      BY <2>0
    <3>2. UNCHANGED <<tokens, SpentSet, tok, node>>
      BY <1>5, <1>u, <1>s DEF Stays
    <3>3. \E left \in SUBSET Nodes : HostMap' = [n \in Nodes |-> IF n \in left THEN None ELSE HostMap[n]]
      BY <2>1, <3>1
    <3> QED BY <3>2, <3>3 DEF Access!Vacate, HostMap, SpentSet
  <2> QED BY <2>2 DEF Access!Next
<1> QED
  BY <1>1, <1>2, <1>3, <1>4, <1>5, HandlerAccess DEF Stays

\* The token of a request takes the place of the one it replaces.
LEMMA ReplacementImplements ==
    ASSUME TypeOK, TokenInv, AccessInv, NEW o \in Ops, opc[o] = "assign",
           tokens' = Replaced(o), seen' = seen \cup ({tokens'[k] : k \in Kinds} \ {None})
    PROVE  \E k \in Kinds, t \in Tokens \cup {None} : Access!Replacement(k, t)
<1>t. /\ tokens \in [Kinds -> Tokens \cup {None}] /\ otok[o] \in Tokens \cup {None}
      /\ okind[o] \in Kinds /\ seen \subseteq Tokens
  BY DEF TypeOK, MapTypes, ReplaceTypes
<1>k. PICK k \in Kinds, t \in Tokens \cup {None} : k = okind[o] /\ t = otok[o]
  BY <1>t
<1>1. t \notin ({tokens[j] : j \in Kinds} \ {None}) \cup SpentSet
  BY <1>t, <1>k, NoneDistinct DEF TokenInv, AccessInv, SpentSet, NoneIsNew
<1>2. tokens' = [tokens EXCEPT ![k] = t]
  BY <1>k DEF Replaced
<1>3. SpentSet' = (SpentSet \cup ({tokens[j] : j \in Kinds} \ {None})) \ {tokens'[j] : j \in Kinds}
  <2>1. ASSUME NEW x
        PROVE  x \in SpentSet' <=> /\ x \in SpentSet \/ x \in {tokens[j] : j \in Kinds} \ {None}
                                  /\ x \notin {tokens'[j] : j \in Kinds}
    <3>1. x \in SpentSet' <=> x \in seen' /\ x \notin {tokens'[j] : j \in Kinds}
      BY DEF SpentSet
    <3>4. x \in seen' <=> x \in seen \/ x \in {tokens'[j] : j \in Kinds} \ {None}
      OBVIOUS
    <3>2. x \in {tokens[j] : j \in Kinds} \ {None} => x \in seen
      BY DEF AccessInv
    <3>3. x \in seen => x # None
      BY <1>t, NoneDistinct DEF NoneIsNew
    <3> QED BY <3>1, <3>2, <3>3, <3>4 DEF SpentSet
  <2> QED BY <2>1
<1>4. Access!Replacement(k, t)
  BY <1>1, <1>2, <1>3 DEF Access!Replacement, Access!Valid, SpentSet
<1> QED BY <1>4

\* A request's step replaces a token, leaves nodes without a host, or does nothing
\* that clients see.
LEMMA ReplaceImplements ==
    ASSUME TypeOK, TokenInv, AccessInv, NEW o \in Ops, ReplaceToken(o) PROVE [Access!Next]_Access!vars
<1> USE DEF Access!vars, mapVars, connVars
<1>t. /\ tokens \in [Kinds -> Tokens \cup {None}] /\ otok[o] \in Tokens \cup {None}
      /\ opc[o] # "idle" => okind[o] \in Kinds
      /\ sessions \in [Nodes -> ActiveSession \cup {None}]
  BY DEF TypeOK, MapTypes, ReplaceTypes
<1>h. UNCHANGED sessions => HostMap' = HostMap
  BY DEF HostMap, SessionId
<1>s. UNCHANGED <<tokens, seen>> => SpentSet' = SpentSet
  BY DEF SpentSet
<1>1. CASE AssignTokens(o)
  <2>1. tokens' = Replaced(o) /\ opc[o] = "assign" /\ UNCHANGED <<tok, node, sessions>>
    BY <1>1 DEF AssignTokens, Replaced
  <2>2. seen' = seen \cup ({tokens'[k] : k \in Kinds} \ {None})
    BY <1>1, <1>t, <2>1 DEF AssignTokens, AccessInv, Replaced
  <2>3. PICK k \in Kinds, t \in Tokens \cup {None} : Access!Replacement(k, t)
    BY <2>1, <2>2, ReplacementImplements
  <2>4. Access!Replace(k, t)
    BY <1>h, <2>1, <2>3 DEF Access!Replace, HostMap
  <2> QED BY <2>4 DEF Access!Next
<1>2. CASE EvictSessions(o)
  <2> DEFINE Left == {n \in Nodes : Evicts(o, n)}
  <2>1. HostMap' = [n \in Nodes |-> IF n \in Left THEN None ELSE HostMap[n]]
    BY <1>2, <1>t DEF EvictSessions, HostMap, SessionId
  <2>2. UNCHANGED <<tokens, seen, tok, node>> /\ Left \in SUBSET Nodes
    BY <1>2 DEF EvictSessions
  <2> HIDE DEF Left
  <2>3. Access!Vacate
    BY <1>s, <2>1, <2>2 DEF Access!Vacate, HostMap, SpentSet
  <2> QED BY <2>3 DEF Access!Next
<1>3. CASE ~AssignTokens(o) /\ ~EvictSessions(o)
  <2>1. UNCHANGED <<tokens, seen, sessions, tok, node>>
    BY <1>3 DEF ReplaceToken, BeginReplace, PersistTokens, CloseEvicted,
                MarkEvictedOffline, PutEvictedOffline, Cancel
  <2> QED BY <2>1, <1>h, <1>s DEF HostMap, SpentSet
<1> QED
  BY <1>1, <1>2, <1>3

\* A crash inside the token lock completes the replacement that holds it; any other
\* keeps the tokens.
LEMMA RestartImplements ==
    ASSUME TypeOK, TokenInv, AccessInv, Restart PROVE Access!Restart
<1>t. tokens \in [Kinds -> Tokens \cup {None}]
  BY DEF TypeOK, MapTypes
<1>1. /\ tok' = [c \in Conns |-> None] /\ node' = [c \in Conns |-> None]
      /\ HostMap' = [n \in Nodes |-> None]
  BY DEF Restart, HostMap, SessionId, NoConn, NoNode
<1>2. CASE TokensLocked
  <2>1. PICK o \in Ops : opc[o] = "assign"
    BY <1>2 DEF TokensLocked
  <2>2. tokens' = Replaced(o) /\ seen' = seen \cup ({tokens'[k] : k \in Kinds} \ {None})
    BY <2>1 DEF Restart, TokenInv
  <2>3. \E k \in Kinds, t \in Tokens \cup {None} : Access!Replacement(k, t)
    BY <2>1, <2>2, ReplacementImplements
  <2> QED BY <1>1, <2>3 DEF Access!Restart, HostMap
<1>3. CASE ~TokensLocked
  <2>1. tokens' = tokens /\ seen' = seen
    BY <1>3, <1>t DEF Restart, TokenInv, AccessInv
  <2>2. SpentSet' = SpentSet
    BY <2>1 DEF SpentSet
  <2> QED BY <1>1, <2>1, <2>2 DEF Access!Restart, HostMap, SpentSet
<1> QED BY <1>2, <1>3

\* The server's start is the start of the promise.
LEMMA InitImplements == Init => Access!Init
BY NoneDistinct DEF Init, Access!Init, SessionId, NoConn, NoNode, NoneIsNew

\* The control plane, with its locks, transactions, early ends and crashes,
\* implements RelayAccess.
THEOREM AccessImplemented == Spec => ImplementsAccess
<1>1. TypeOK /\ TokenInv /\ Ownership /\ AccessInv /\ [Next]_vars => [Access!Next]_Access!vars
  <2> SUFFICES ASSUME TypeOK, TokenInv, Ownership, AccessInv, [Next]_vars PROVE [Access!Next]_Access!vars
    OBVIOUS
  <2>1. CASE Restart
    BY <2>1, RestartImplements DEF Access!Next
  <2>2. CASE UNCHANGED vars
    BY <2>2 DEF vars, mapVars, connVars, Access!vars, SessionId
  <2> QED BY <2>1, <2>2, HandlerImplements, ReplaceImplements DEF Next
<1>2. Init => Ownership
  BY DEF Init, Ownership, NoNode
<1> QED
  BY <1>1, <1>2, OwnershipStep, InitImplements, TypeCorrect, TokenInit, TokenStep, AccessInit, AccessStep, PTL
     DEF Spec, ImplementsAccess, Access!Spec
================================================================================
