------------------------ MODULE RelaySessions_proofs ------------------------
(***************************************************************************)
(* Proofs about RelaySessions, for any number of connections, requests,    *)
(* nodes, keys and tokens, for both transports and for every fault:        *)
(* the types, and that a Yamux handler leaves no session behind.           *)
(***************************************************************************)
EXTENDS RelaySessions, TLAPS

--------------------------------------------------------------------------------
(* Helpers of the specification *)

NoneIsNew ==
    /\ None \notin Conns /\ None \notin Nodes /\ None \notin Keys /\ None \notin Tokens
    /\ None \notin Kinds /\ None \notin Transports
    /\ None \notin NodeRecord /\ None \notin ActiveSession

\* None is not a connection, node, key, token, kind, transport or record.
LEMMA NoneDistinct == NoneIsNew
BY NoneAssumption DEF NoneIsNew

\* The variables that Leave and Proceed change.
StageTypes ==
    /\ pc \in [Conns -> HandlerStates]
    /\ transport \in [Conns -> Transports \cup {None}]
    /\ tok \in [Conns -> Tokens \cup {None}]
    /\ kind \in [Conns -> Kinds \cup {None}]
    /\ node \in [Conns -> Nodes \cup {None}]
    /\ up \in [Conns -> BOOLEAN]

\* A handler that returns keeps these typed.
LEMMA LeaveTyped == ASSUME StageTypes, NEW c \in Conns, Leave(c) PROVE StageTypes'
BY DEF StageTypes, Leave, Goto, HandlerStates

\* So does one that goes on to another state,
LEMMA ProceedTyped ==
    ASSUME StageTypes, NEW c \in Conns, NEW p \in HandlerStates, Proceed(c, p) PROVE StageTypes'
BY DEF StageTypes, Proceed, Goto

\* and one that meets an error in its frame loop.
LEMMA BailTyped == ASSUME StageTypes, NEW c \in Conns, Bail(c) PROVE StageTypes'
BY LeaveTyped, ProceedTyped DEF Bail, HandlerStates

\* Shown turns records into records and keeps the key.
LEMMA ShownTyped ==
    ASSUME NEW r \in NodeRecord \cup {None}, NEW s \in {"Online", "Offline"}
    PROVE  /\ Shown(r, s) \in NodeRecord \cup {None}
           /\ Shown(r, s) = None <=> r = None
           /\ r # None => Shown(r, s).key = r.key
BY NoneDistinct DEF Shown, NodeRecord, NoneIsNew

--------------------------------------------------------------------------------
(* The types *)

\* The server starts well typed.
LEMMA InitTyped == Init => TypeOK
BY DEF Init, TypeOK, MapTypes, HandlerTypes, ReplaceTypes, Locals, NoConn, NoOp, NoNode, Kinds,
       HandlerStates, OpStates, NodeRecord, InLoop

\* A step of a connection handler keeps the types.
LEMMA HandlerTyped ==
    ASSUME TypeOK, NEW c \in Conns, Handle(c) PROVE TypeOK'
<1> USE DEF TypeOK, mapVars, opVars
<1>a. StageTypes
  BY DEF HandlerTypes, StageTypes
<1>1. ASSUME NEW tr \in Transports, Connect(c, tr) PROVE TypeOK'
  <2>1. MapTypes' /\ ReplaceTypes'
    BY <1>1 DEF MapTypes, ReplaceTypes, Connect
  <2>2. HandlerTypes'
    BY <1>1 DEF HandlerTypes, Connect, Goto, HandlerStates
  <2>3. ASSUME NEW d \in Conns PROVE Locals(d)'
    BY <1>1, NoneDistinct DEF HandlerTypes, Locals, InLoop, Connect, Goto, Unused, NoneIsNew
  <2> QED BY <2>1, <2>2, <2>3
<1>2. ASSUME NEW t \in Tokens, NEW n \in Nodes, Auth(c, t, n) PROVE TypeOK'
  <2>1. MapTypes' /\ ReplaceTypes'
    BY <1>2 DEF MapTypes, ReplaceTypes, Auth
  <2>2. HandlerTypes'
    <3>1. CASE Leave(c)
      BY <1>a, <1>2, <3>1, LeaveTyped DEF Auth, HandlerTypes, StageTypes
    <3>2. CASE ~Leave(c)
      BY <1>2, <3>2 DEF HandlerTypes, Auth, Accepts, Authenticate, Goto, Kinds, HandlerStates
    <3> QED BY <3>1, <3>2
  <2>3. ASSUME NEW d \in Conns PROVE Locals(d)'
    BY <1>2, NoneDistinct
       DEF HandlerTypes, Locals, InLoop, Auth, Accepts, Authenticate, Leave, Goto, Kinds, NoneIsNew
  <2> QED BY <2>1, <2>2, <2>3
<1>3. ASSUME NEW k \in Keys, ValidateNode(c, k) PROVE TypeOK'
  <2>1. MapTypes' /\ ReplaceTypes'
    BY <1>3 DEF MapTypes, ReplaceTypes, ValidateNode
  <2>2. HandlerTypes'
    <3>1. StageTypes'
      BY <1>a, <1>3, ProceedTyped, BailTyped DEF ValidateNode, HandlerStates
    <3> QED BY <3>1, <1>3 DEF HandlerTypes, StageTypes, ValidateNode
  <2>3. ASSUME NEW d \in Conns PROVE Locals(d)'
    BY <1>3, NoneDistinct
       DEF HandlerTypes, Locals, InLoop, ValidateNode, Bail, Leave, Proceed, Goto, NoneIsNew
  <2> QED BY <2>1, <2>2, <2>3
<1>4. CASE Activate(c)
  <2>0. SessionId(node[c]) \in Conns \cup {None} /\ (sessions[node[c]] # None => SessionId(node[c]) # None)
    BY <1>4, NoneDistinct
       DEF Activate, SessionId, ActiveSession, MapTypes, HandlerTypes, Locals, InLoop, NoneIsNew
  <2>1. MapTypes' /\ ReplaceTypes'
    <3>1. c \in Conns /\ kind[c] \in Kinds /\ tok[c] \in Tokens /\ transport[c] \in Transports
      BY <1>4 DEF Activate, HandlerTypes, Locals, InLoop
    <3>2. ReplaceTypes'
      BY <1>4 DEF ReplaceTypes, Activate, opVars
    <3> DEFINE token == IF tokens[kind[c]] = tok[c] THEN tok[c] ELSE None
               session == [id |-> c, kind |-> kind[c], transport |-> transport[c], token |-> token]
    <3>3. session \in ActiveSession
      <4>1. token \in Tokens \cup {None}
        BY <3>1
      <4> HIDE DEF token
      <4> QED BY <3>1, <4>1 DEF ActiveSession
    <3>4. sessions' = [sessions EXCEPT ![node[c]] = session]
      BY <1>4 DEF Activate
    <3> HIDE DEF session, token
    <3>5. sessions' \in [Nodes -> ActiveSession \cup {None}]
      BY <3>3, <3>4 DEF MapTypes
    <3> QED BY <1>4, <3>2, <3>5 DEF MapTypes, Activate
  <2>2. HandlerTypes'
    BY <1>4, <2>0 DEF HandlerTypes, Locals, Activate, Proceed, Goto, HandlerStates
  <2>3. ASSUME NEW d \in Conns PROVE Locals(d)'
    BY <1>4, <2>0 DEF HandlerTypes, Locals, InLoop, Activate, SessionId, Proceed, Goto
  <2> QED BY <2>1, <2>2, <2>3
<1>5. CASE ClosePrevious(c)
  BY <1>5 DEF ClosePrevious, MapTypes, HandlerTypes, ReplaceTypes, Locals, InLoop, HandlerStates, Goto
<1>6. CASE InsertNode(c)
  <2>1. MapTypes' /\ ReplaceTypes'
    BY <1>6 DEF MapTypes, HandlerTypes, ReplaceTypes, Locals, InsertNode, NodeRecord
  <2>2. HandlerTypes'
    BY <1>6 DEF HandlerTypes, Locals, InsertNode, NodeRecord, Proceed, Goto, HandlerStates
  <2>3. ASSUME NEW d \in Conns PROVE Locals(d)'
    BY <1>6, NoneDistinct
       DEF HandlerTypes, Locals, InLoop, InsertNode, NodeRecord, Proceed, Goto, NoneIsNew
  <2> QED BY <2>1, <2>2, <2>3
<1>7. CASE Heartbeat(c)
  <2>0. nodes[node[c]] \in NodeRecord \cup {None} /\ node[c] \in Nodes
    BY <1>7 DEF Heartbeat, MapTypes, HandlerTypes, Locals, InLoop
  <2>1. MapTypes' /\ ReplaceTypes'
    BY <1>7, <2>0, ShownTyped DEF MapTypes, ReplaceTypes, Heartbeat, Heard
  <2>2. HandlerTypes'
    <3>1. StageTypes'
      BY <1>a, <1>7, ProceedTyped DEF Heartbeat, HandlerStates
    <3> QED BY <3>1, <1>7, <2>0, ShownTyped DEF HandlerTypes, StageTypes, Heartbeat, Heard
  <2>3. ASSUME NEW d \in Conns PROVE Locals(d)'
    BY <1>7, <2>0, ShownTyped DEF HandlerTypes, Locals, InLoop, Heartbeat, Heard, Proceed, Goto
  <2> QED BY <2>1, <2>2, <2>3
<1>8. CASE PutNode(c)
  <2>1. MapTypes' /\ ReplaceTypes'
    BY <1>8 DEF MapTypes, HandlerTypes, ReplaceTypes, PutNode
  <2>2. HandlerTypes'
    <3>1. StageTypes'
      BY <1>a, <1>8, ProceedTyped, BailTyped DEF PutNode, HandlerStates
    <3> QED BY <3>1, <1>8 DEF HandlerTypes, StageTypes, PutNode
  <2>3. ASSUME NEW d \in Conns PROVE Locals(d)'
    BY <1>8 DEF HandlerTypes, Locals, InLoop, PutNode, Bail, Leave, Proceed, Goto
  <2> QED BY <2>1, <2>2, <2>3
<1>9. CASE Goodbye(c)
  BY <1>9 DEF Goodbye, MapTypes, HandlerTypes, ReplaceTypes, Locals, InLoop, HandlerStates, Proceed, Goto
<1>10. CASE ControlError(c)
  <2>1. MapTypes' /\ ReplaceTypes'
    BY <1>10 DEF MapTypes, ReplaceTypes, ControlError
  <2>2. HandlerTypes'
    <3>1. StageTypes'
      BY <1>a, <1>10, LeaveTyped, BailTyped DEF ControlError
    <3> QED BY <3>1, <1>10 DEF HandlerTypes, StageTypes, ControlError
  <2>3. ASSUME NEW d \in Conns PROVE Locals(d)'
    BY <1>10 DEF HandlerTypes, Locals, InLoop, ControlError, Bail, Leave, Proceed, Goto
  <2> QED BY <2>1, <2>2, <2>3
<1>11. CASE Disconnect(c)
  BY <1>11 DEF Disconnect, MapTypes, HandlerTypes, ReplaceTypes, Locals, InLoop
<1>12. CASE CheckActive(c)
  <2>1. MapTypes' /\ ReplaceTypes'
    BY <1>12 DEF MapTypes, ReplaceTypes, CheckActive
  <2>2. HandlerTypes'
    <3>1. StageTypes'
      BY <1>a, <1>12, LeaveTyped, ProceedTyped DEF CheckActive, HandlerStates
    <3> QED BY <3>1, <1>12 DEF HandlerTypes, StageTypes, CheckActive
  <2>3. ASSUME NEW d \in Conns PROVE Locals(d)'
    BY <1>12 DEF HandlerTypes, Locals, InLoop, CheckActive, Leave, Proceed, Goto
  <2> QED BY <2>1, <2>2, <2>3
<1>13. CASE RemoveSession(c)
  BY <1>13 DEF RemoveSession, MapTypes, HandlerTypes, ReplaceTypes, Locals, InLoop, HandlerStates,
               Proceed, Goto
<1>14. CASE MarkOffline(c)
  <2>0. nodes[node[c]] \in NodeRecord \cup {None} /\ node[c] \in Nodes
    BY <1>14 DEF MarkOffline, MapTypes, HandlerTypes, Locals, InLoop
  <2>1. MapTypes' /\ ReplaceTypes'
    BY <1>14, <2>0, ShownTyped DEF MapTypes, ReplaceTypes, MarkOffline, StoreNode
  <2>2. HandlerTypes'
    <3>1. StageTypes'
      BY <1>a, <1>14, LeaveTyped, ProceedTyped DEF MarkOffline, HandlerStates
    <3> QED BY <3>1, <1>14, <2>0, ShownTyped DEF HandlerTypes, StageTypes, MarkOffline
  <2>3. ASSUME NEW d \in Conns PROVE Locals(d)'
    BY <1>14, <2>0, ShownTyped DEF HandlerTypes, Locals, InLoop, MarkOffline, Leave, Proceed, Goto
  <2> QED BY <2>1, <2>2, <2>3
<1>15. CASE PutOffline(c)
  <2>1. MapTypes' /\ ReplaceTypes'
    BY <1>15 DEF MapTypes, HandlerTypes, ReplaceTypes, PutOffline, StoreNode
  <2>2. HandlerTypes'
    <3>1. StageTypes'
      BY <1>a, <1>15, LeaveTyped DEF PutOffline
    <3> QED BY <3>1, <1>15 DEF HandlerTypes, StageTypes, PutOffline
  <2>3. ASSUME NEW d \in Conns PROVE Locals(d)'
    BY <1>15 DEF HandlerTypes, Locals, InLoop, PutOffline, Leave, Goto
  <2> QED BY <2>1, <2>2, <2>3
<1> QED
  BY <1>1, <1>2, <1>3, <1>4, <1>5, <1>6, <1>7, <1>8, <1>9, <1>10, <1>11, <1>12, <1>13, <1>14, <1>15
     DEF Handle

\* A request goes on to its next record, or ends, with its variables typed.
LEMMA PutNextTyped ==
    ASSUME ReplaceTypes, NEW o \in Ops, NEW recs \in [Nodes -> NodeRecord \cup {None}],
           opc[o] # "idle", PutNext(o, recs), gone' \in [Ops -> [Nodes -> Conns \cup {None}]]
    PROVE  ReplaceTypes'
BY DEF ReplaceTypes, PutNext, EndReplace, OpGoto, OpStates

\* A step of a rotation or revocation keeps the types.
LEMMA ReplaceTyped ==
    ASSUME TypeOK, NEW o \in Ops, ReplaceToken(o) PROVE TypeOK'
<1> USE DEF TypeOK, mapVars, connVars
<1>1. ASSUME NEW k \in Kinds, NEW t \in Tokens \cup {None}, BeginReplace(o, k, t) PROVE TypeOK'
  BY <1>1, NoneDistinct
     DEF BeginReplace, MapTypes, HandlerTypes, ReplaceTypes, Locals, InLoop, OpGoto, OpStates, NoneIsNew
<1>2. CASE PersistTokens(o)
  <2>1. MapTypes'
    BY <1>2 DEF PersistTokens, Replaced, MapTypes, ReplaceTypes
  <2>2. ReplaceTypes'
    BY <1>2 DEF PersistTokens, EndReplace, ReplaceTypes, OpGoto, OpStates
  <2>3. HandlerTypes' /\ \A d \in Conns : Locals(d)'
    BY <1>2 DEF PersistTokens, HandlerTypes, Locals, InLoop
  <2> QED BY <2>1, <2>2, <2>3
<1>3. CASE AssignTokens(o)
  BY <1>3 DEF AssignTokens, MapTypes, HandlerTypes, ReplaceTypes, Locals, InLoop, OpGoto, OpStates
<1>4. CASE EvictSessions(o)
  BY <1>4 DEF EvictSessions, SessionId, ActiveSession, MapTypes, HandlerTypes, ReplaceTypes, Locals, InLoop,
              OpGoto, OpStates
<1>5. CASE CloseEvicted(o)
  BY <1>5 DEF CloseEvicted, MapTypes, HandlerTypes, ReplaceTypes, Locals, InLoop, OpGoto, OpStates
<1>6. CASE MarkEvictedOffline(o)
  <2>0. ASSUME NEW n \in Nodes
        PROVE  nodes[n] \in NodeRecord \cup {None} /\ Shown(nodes[n], "Offline") \in NodeRecord \cup {None}
    BY ShownTyped DEF MapTypes
  <2>1. MapTypes' /\ HandlerTypes' /\ \A c \in Conns : Locals(c)'
    BY <1>6, <2>0 DEF MarkEvictedOffline, MapTypes, HandlerTypes, Locals, InLoop
  <2>2. PICK recs \in [Nodes -> NodeRecord \cup {None}] : PutNext(o, recs)
    BY <1>6, <2>0 DEF MarkEvictedOffline
  <2>3. ReplaceTypes'
    BY <1>6, <2>2, PutNextTyped DEF MarkEvictedOffline, ReplaceTypes
  <2> QED BY <2>1, <2>3
<1>7. ASSUME NEW n \in Nodes, PutEvictedOffline(o, n) PROVE TypeOK'
  <2>0. orecs[o][n] \in NodeRecord \cup {None}
    BY DEF ReplaceTypes
  <2>1. MapTypes' /\ HandlerTypes' /\ \A c \in Conns : Locals(c)'
    BY <1>7, <2>0 DEF PutEvictedOffline, MapTypes, HandlerTypes, Locals, InLoop
  <2>2. PICK recs \in [Nodes -> NodeRecord \cup {None}] : PutNext(o, recs)
    BY <1>7 DEF PutEvictedOffline, ReplaceTypes
  <2>3. ReplaceTypes'
    BY <1>7, <2>2, PutNextTyped DEF PutEvictedOffline, ReplaceTypes
  <2> QED BY <2>1, <2>3
<1>8. CASE Cancel(o)
  BY <1>8 DEF Cancel, EndReplace, MapTypes, HandlerTypes, ReplaceTypes, Locals, InLoop, OpGoto, OpStates
<1> QED
  BY <1>1, <1>2, <1>3, <1>4, <1>5, <1>6, <1>7, <1>8 DEF ReplaceToken

\* So does a restart.
LEMMA RestartTyped == TypeOK /\ Restart => TypeOK'
BY DEF Restart, TypeOK, MapTypes, HandlerTypes, ReplaceTypes, Locals, NoConn, NoOp, NoNode,
       HandlerStates, OpStates, InLoop

\* Every step keeps the types.
LEMMA NextTyped == TypeOK /\ [Next]_vars => TypeOK'
<1>1. CASE UNCHANGED vars
  BY <1>1 DEF TypeOK, MapTypes, HandlerTypes, ReplaceTypes, Locals, InLoop, vars, mapVars, connVars, opVars
<1> QED
  BY <1>1, HandlerTyped, ReplaceTyped, RestartTyped DEF Next

\* Every reachable state is well typed.
THEOREM TypeCorrect == Spec => []TypeOK
BY InitTyped, NextTyped, PTL DEF Spec

--------------------------------------------------------------------------------
(* The session map against the handlers *)

\* What a map entry says of the handler it names.  YamuxLeavesNoSession is not
\* inductive: the handler must also be past Auth and not past the removal, and
\* its transport must be the one in the entry, which decides where it bails to.
Owns(n) ==
    LET c == sessions[n].id IN
    IF pc[c] = "closed"
      THEN sessions[n].transport = "Quic"
      ELSE /\ pc[c] \notin {"auth", "offline", "putOffline"}
           /\ node[c] = n /\ kind[c] = sessions[n].kind /\ transport[c] = sessions[n].transport
Ownership == \A n \in Nodes : sessions[n] # None => Owns(n)

\* A step of a handler keeps every entry in agreement with the handler it names.
LEMMA HandlerOwnership ==
    ASSUME TypeOK, Ownership, NEW c \in Conns, Handle(c) PROVE Ownership'
<1> SUFFICES ASSUME NEW n \in Nodes, sessions'[n] # None PROVE Owns(n)'
  BY DEF Ownership
<1> USE NoneDistinct DEF mapVars, NoneIsNew
<1>t. /\ pc \in [Conns -> HandlerStates] /\ node \in [Conns -> Nodes \cup {None}]
      /\ kind \in [Conns -> Kinds \cup {None}] /\ transport \in [Conns -> Transports \cup {None}]
      /\ sessions \in [Nodes -> ActiveSession \cup {None}]
  BY DEF TypeOK, MapTypes, HandlerTypes
<1>o. /\ sessions[n] # None => Owns(n)
      /\ sessions[n] # None => sessions[n].id \in Conns /\ sessions[n].transport \in {"Quic", "Yamux"}
  BY <1>t, ConfigAssumption DEF Ownership, ActiveSession
<1>b. ASSUME Bail(c), UNCHANGED sessions, pc[c] \in {"loop", "put"} PROVE Owns(n)'
  <2>1. CASE transport[c] = "Yamux"
    BY <1>b, <2>1, <1>t, <1>o DEF Bail, Proceed, Goto, Owns
  <2>2. CASE transport[c] # "Yamux"
    BY <1>b, <2>2, <1>t, <1>o DEF Bail, Leave, Goto, Owns
  <2> QED BY <2>1, <2>2
<1>1. ASSUME NEW tr \in Transports, Connect(c, tr) PROVE Owns(n)'
  BY <1>1, <1>t, <1>o DEF Connect, Unused, SessionId, Goto, Owns
<1>2. ASSUME NEW t \in Tokens, NEW m \in Nodes, Auth(c, t, m) PROVE Owns(n)'
  BY <1>2, <1>t, <1>o DEF Auth, Leave, Goto, Owns
<1>3. ASSUME NEW k \in Keys, ValidateNode(c, k) PROVE Owns(n)'
  BY <1>3, <1>b, <1>t, <1>o DEF ValidateNode, Proceed, Goto, Owns
<1>4. CASE Activate(c)
  <2>1. CASE n = node[c]
    BY <1>4, <2>1, <1>t DEF Activate, Proceed, Goto, Owns, ActiveSession
  <2>2. CASE n # node[c]
    BY <1>4, <2>2, <1>t, <1>o DEF Activate, Proceed, Goto, Owns
  <2> QED BY <2>1, <2>2
<1>5. CASE ClosePrevious(c)
  BY <1>5, <1>t, <1>o DEF ClosePrevious, Goto, Owns
<1>6. CASE InsertNode(c)
  BY <1>6, <1>t, <1>o DEF InsertNode, Proceed, Goto, Owns
<1>7. CASE Heartbeat(c)
  BY <1>7, <1>t, <1>o DEF Heartbeat, Proceed, Goto, Owns
<1>8. CASE PutNode(c)
  BY <1>8, <1>b, <1>t, <1>o DEF PutNode, Proceed, Goto, Owns
<1>9. CASE Goodbye(c)
  BY <1>9, <1>t, <1>o DEF Goodbye, Proceed, Goto, Owns
<1>10. CASE ControlError(c)
  BY <1>10, <1>b, <1>t, <1>o DEF ControlError, Leave, Goto, Owns
<1>11. CASE Disconnect(c)
  BY <1>11, <1>o DEF Disconnect, Owns
<1>12. CASE CheckActive(c)
  BY <1>12, <1>t, <1>o DEF CheckActive, SessionId, Leave, Proceed, Goto, Owns
<1>13. CASE RemoveSession(c)
  BY <1>13, <1>t, <1>o DEF RemoveSession, Proceed, Goto, Owns
<1>14. CASE MarkOffline(c)
  BY <1>14, <1>t, <1>o DEF MarkOffline, Leave, Proceed, Goto, Owns
<1>15. CASE PutOffline(c)
  BY <1>15, <1>t, <1>o DEF PutOffline, Leave, Goto, Owns
<1> QED
  BY <1>1, <1>2, <1>3, <1>4, <1>5, <1>6, <1>7, <1>8, <1>9, <1>10, <1>11, <1>12, <1>13, <1>14, <1>15
     DEF Handle

\* An eviction only takes entries away.
LEMMA ReplaceOwnership ==
    ASSUME TypeOK, Ownership, NEW o \in Ops, ReplaceToken(o) PROVE Ownership'
<1>1. CASE EvictSessions(o)
  BY <1>1 DEF EvictSessions, Ownership, Owns, TypeOK, MapTypes, connVars
<1>2. CASE UNCHANGED <<sessions, pc, node, kind, transport>>
  BY <1>2 DEF Ownership, Owns
<1> QED
  BY <1>1, <1>2 DEF ReplaceToken, BeginReplace, PersistTokens, AssignTokens, CloseEvicted,
                    MarkEvictedOffline, PutEvictedOffline, Cancel, connVars, mapVars

\* The session map keeps faith with the handlers.
LEMMA OwnershipStep == TypeOK /\ Ownership /\ [Next]_vars => Ownership'
<1>1. CASE Restart
  BY <1>1 DEF Restart, Ownership, NoNode
<1>2. CASE UNCHANGED vars
  BY <1>2 DEF Ownership, Owns, vars, mapVars, connVars
<1> QED
  BY <1>1, <1>2, HandlerOwnership, ReplaceOwnership DEF Next

\* No handler of a Yamux connection ends with its session still in the map, and
\* an entry is the property of the connection that authenticated as its node.
THEOREM NoDeadYamuxSession == Spec => []YamuxLeavesNoSession
<1>1. Init => Ownership
  BY DEF Init, Ownership, NoNode
<1>2. Ownership => YamuxLeavesNoSession
  BY DEF Ownership, Owns, YamuxLeavesNoSession, SessionId
<1> QED
  BY <1>1, <1>2, OwnershipStep, TypeCorrect, PTL DEF Spec
=============================================================================
