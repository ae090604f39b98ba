-------------------------- MODULE PublicRouting_proofs --------------------------
(***************************************************************************)
(* Theorems about PublicRouting, for any processes, nodes, names and       *)
(* bounds: an answer comes from a process that publishes the name that was *)
(* asked for, and the directory agrees with the clients in session.        *)
(***************************************************************************)
EXTENDS PublicRouting, TLAPS

--------------------------------------------------------------------------------
(* Types *)

Services == [id : Nat, name : Names, protocol : Protocols, node : Nodes]
Requests ==
    [at : {"idle", "unavailable", "host", "service", "node", "stream", "api", "answered"},
     name : Names, protocol : Protocols, id : Nat,
     node : Nodes \cup {None}, proc : Procs \cup {None}]

Typed ==
    /\ made \in Nat
    /\ own \in [Procs -> Nat] /\ accepted \in [Procs -> Nat]
    /\ up \in [Procs -> Stages] /\ local \in [Procs -> SUBSET Nat]
    /\ services \subseteq Services
    /\ sessions \in [Nodes -> Procs \cup {None}]
    /\ request \in Requests
    /\ request.at = "node" => request.node \in Nodes
    /\ request.at \in {"stream", "answered"} => request.proc \in Procs
    /\ \A p \in Procs : up[p] # "off" => own[p] # 0

LEMMA TypedInit == Init => Typed
<1> SUFFICES ASSUME Init PROVE Typed
  OBVIOUS
<1>1. request \in Requests /\ request.at = "idle"
  BY DEF Init, Stopped, Requests, Names, Protocols
<1>2. /\ sessions \in [Nodes -> Procs \cup {None}] /\ services \subseteq Services
      /\ up \in [Procs -> Stages] /\ local \in [Procs -> SUBSET Nat]
      /\ own \in [Procs -> Nat] /\ accepted \in [Procs -> Nat]
      /\ made \in Nat /\ \A p \in Procs : up[p] = "off"
  BY DEF Init, Stages
<1> QED BY <1>1, <1>2 DEF Typed

LEMMA LoseTyped ==
    ASSUME Typed, NEW lost, Lose(lost)
    PROVE  /\ accepted' \in [Procs -> Nat] /\ local' \in [Procs -> SUBSET Nat]
           /\ request' \in Requests
           /\ request' = request \/ request'.at = "unavailable"
           /\ Reconnecting(lost) \in [Procs -> Stages]
           /\ \A p \in Procs : Reconnecting(lost)[p] # "off" => up[p] # "off"
<1>1. accepted' \in [Procs -> Nat] /\ local' \in [Procs -> SUBSET Nat]
  BY DEF Typed, Lose
<1>2. Failed \in Requests /\ Failed.at = "unavailable"
  BY DEF Failed, Stopped, Requests, Names, Protocols
<1>3. request' \in Requests /\ (request' = request \/ request'.at = "unavailable")
  BY <1>2 DEF Typed, Lose
<1>4. /\ Reconnecting(lost) \in [Procs -> Stages]
      /\ \A p \in Procs : Reconnecting(lost)[p] # "off" => up[p] # "off"
  BY DEF Typed, Reconnecting, Connected, Stages
<1> QED BY <1>1, <1>3, <1>4

LEMMA RegisteredTyped ==
    ASSUME Typed, NEW what \in [name : Names, protocol : Protocols], NEW n \in Nodes,
           NEW new \in Nat
    PROVE  /\ Registered(what, n, new) \subseteq Services
           /\ IdFor(what.name, n, new) \in Nat
<1>1. IdFor(what.name, n, new) \in Nat
  <2>1. CASE Previous(what.name, n) = {}
    BY <2>1 DEF IdFor
  <2>2. CASE Previous(what.name, n) # {}
    <3>1. (CHOOSE s \in Previous(what.name, n) : TRUE) \in Previous(what.name, n)
      BY <2>2
    <3>2. (CHOOSE s \in Previous(what.name, n) : TRUE) \in Services
      BY <3>1 DEF Previous, Typed
    <3> QED BY <2>2, <3>2 DEF IdFor, Services
  <2> QED BY <2>1, <2>2
<1> QED BY <1>1 DEF Registered, Typed, Services

LEMMA NodesAndNames ==
    ASSUME NEW p \in Procs
    PROVE  NodeOf[p] \in Nodes /\ Publishes[p] \in [name : Names, protocol : Protocols]
BY PublishesAssumption DEF Nodes, Names

LEMMA RequestTyped ==
    ASSUME Typed, Request
    PROVE  Typed'
<1> USE DEF chain, client, server
<1>1. Failed \in Requests /\ Failed.at = "unavailable" /\ Stopped \in Requests
  BY DEF Failed, Stopped, Requests, Names, Protocols
<1>2. ASSUME NEW asked \in Asked, Arrives(asked.name, asked.protocol)
      PROVE  Typed'
  <2>1. asked.name \in Names /\ asked.protocol \in Protocols
    BY NodesAndNames DEF Asked, Names, Protocols
  <2>2. request' \in Requests /\ request'.at = "host"
    BY <1>1, <1>2, <2>1 DEF Arrives, Requests
  <2> QED BY <1>2, <2>2 DEF Typed, Arrives
<1>3. CASE ForApi
  BY <1>3 DEF ForApi, Goes, At, Typed, Requests
<1>4. CASE FindService
  <2>1. CASE request' = Failed
    BY <1>1, <1>4, <2>1 DEF FindService, Typed
  <2>2. CASE request' # Failed
    <3>1. PICK s \in services :
            request' = [request EXCEPT !.at = "service", !.id = s.id]
      BY <1>4, <2>2 DEF FindService
    <3>2. s.id \in Nat
      BY DEF Typed, Services
    <3> QED BY <1>4, <3>1, <3>2 DEF FindService, Typed, Requests
  <2> QED BY <2>1, <2>2
<1>5. CASE FindNode
  <2>1. CASE request' = Failed
    BY <1>1, <1>5, <2>1 DEF FindNode, Typed
  <2>2. CASE request' # Failed
    <3>1. PICK s \in services :
            request' = [request EXCEPT !.at = "node", !.node = s.node]
      BY <1>5, <2>2 DEF FindNode
    <3>2. s.node \in Nodes
      BY DEF Typed, Services
    <3> QED BY <1>5, <3>1, <3>2 DEF FindNode, Typed, Requests
  <2> QED BY <2>1, <2>2
<1>6. CASE FindSession
  <2>1. CASE request' = Failed
    BY <1>1, <1>6, <2>1 DEF FindSession, Typed
  <2>2. CASE request' # Failed
    <3> DEFINE p == sessions[request.node]
    <3>1. p # None /\ request' = [request EXCEPT !.at = "stream", !.proc = p]
      BY <1>6, <2>2 DEF FindSession
    <3>2. p \in Procs
      BY <1>6, <3>1 DEF FindSession, At, Typed
    <3> HIDE DEF p
    <3> QED BY <1>6, <3>1, <3>2 DEF FindSession, Typed, Requests
  <2> QED BY <2>1, <2>2
<1>7. CASE ServeStream
  <2>1. request' = Failed \/ request' = [request EXCEPT !.at = "answered"]
    BY <1>7 DEF ServeStream, Goes
  <2> QED BY <1>1, <1>7, <2>1 DEF ServeStream, At, Typed, Requests
<1>8. CASE TimesOut
  BY <1>1, <1>8 DEF TimesOut, Typed
<1> QED BY <1>2, <1>3, <1>4, <1>5, <1>6, <1>7, <1>8 DEF Request

LEMMA TypedNext ==
    ASSUME Typed, [Next]_vars
    PROVE  Typed'
<1> USE DEF client, server
<1>1. CASE Request
  BY <1>1, RequestTyped
<1>2. ASSUME NEW p \in Procs, Launch(p)
      PROVE  Typed'
  BY <1>2 DEF Launch, NewId, Typed, Stages
<1>3. ASSUME NEW p \in Procs, Connects(p)
      PROVE  Typed'
  <2> DEFINE lost == {sessions[NodeOf[p]]} \ {None}
  <2>1. /\ up[p] = "connecting" /\ Lose(lost)
        /\ up' = [Reconnecting(lost) EXCEPT ![p] = "node"]
        /\ sessions' = [sessions EXCEPT ![NodeOf[p]] = p]
        /\ UNCHANGED <<own, services, made>>
    BY <1>3 DEF Connects
  <2> HIDE DEF lost
  <2> QED BY <2>1, LoseTyped DEF Typed, Stages
<1>4. ASSUME NEW p \in Procs, Registers(p)
      PROVE  Typed'
  <2>1. /\ services' \subseteq Services
        /\ IdFor(Publishes[p].name, NodeOf[p], own[p]) \in Nat
    BY <1>4, NodesAndNames, RegisteredTyped DEF Registers, Typed
  <2> QED BY <1>4, <2>1 DEF Registers, Typed, Stages
<1>5. ASSUME NEW p \in Procs, RegistersUnheard(p) \/ Rejected(p) \/ Disconnects(p)
      PROVE  Typed'
  <2>1. /\ Lose({p}) /\ up' = Reconnecting({p}) /\ MayForget(p)
        /\ UNCHANGED <<own, made>>
    BY <1>5 DEF RegistersUnheard, Rejected, Disconnects
  <2>2. services' \subseteq Services
    BY <1>5, NodesAndNames, RegisteredTyped DEF RegistersUnheard, Rejected, Disconnects, Typed
  <2>3. sessions' \in [Nodes -> Procs \cup {None}]
    BY <2>1 DEF MayForget, Typed
  <2> QED BY <2>1, <2>2, <2>3, LoseTyped DEF Typed
<1>6. ASSUME NEW p \in Procs, Serving(p) \/ Overruns(p)
      PROVE  Typed'
  BY <1>6 DEF Serving, Overruns, Typed, Stages
<1>7. ASSUME NEW p \in Procs, Exits(p)
      PROVE  Typed'
  BY <1>7, LoseTyped DEF Exits, Typed, Stages
<1>8. ASSUME NEW s \in services, ApiDeletes(s)
      PROVE  Typed'
  BY <1>8 DEF ApiDeletes, Typed
<1>9. ASSUME NEW name \in Names, NEW protocol \in Protocols, NEW n \in Nodes,
             ApiCreates(name, protocol, n)
      PROVE  Typed'
  <2>1. made' = made + 1 /\ made' \in Nat
    BY <1>9 DEF ApiCreates, NewId, Typed
  <2>2. services' \subseteq Services
    BY <1>9, <2>1, RegisteredTyped DEF ApiCreates
  <2> QED BY <1>9, <2>1, <2>2 DEF ApiCreates, Typed
<1>10. CASE Restarts
  <2>1. /\ Reconnecting(Procs) \in [Procs -> Stages]
        /\ \A p \in Procs : Reconnecting(Procs)[p] # "off" => up[p] # "off"
    BY DEF Typed, Reconnecting, Connected, Stages
  <2>2. request' \in Requests /\ (request' = request \/ request'.at = "unavailable")
    BY <1>10 DEF Restarts, Failed, Stopped, Requests, Names, Protocols, Typed
  <2> QED BY <1>10, <2>1, <2>2 DEF Restarts, Typed
<1>11. CASE UNCHANGED vars
  BY <1>11 DEF vars, Typed
<1> QED
  BY <1>1, <1>2, <1>3, <1>4, <1>5, <1>6, <1>7, <1>8, <1>9, <1>10, <1>11
  DEF Next, Client

--------------------------------------------------------------------------------
(* Ids and names *)

\* Somebody takes id for a service called name: the server's table, a client process,
\* or the request once it has been given an id.
Named(id, name) ==
    \/ \E s \in services : s.id = id /\ s.name = name
    \/ \E p \in Procs :
         /\ Publishes[p].name = name /\ id # 0
         /\ own[p] = id \/ accepted[p] = id \/ id \in local[p]
    \/ request.at \in {"service", "node", "stream"} /\ request.id = id /\ request.name = name

\* Nobody disagrees about the name of an id, whatever each of them has missed; and
\* what has been answered was answered by a process of that name.
IdsAgree ==
    /\ \A id, name : Named(id, name) => id \in 1..made
    /\ \A id, a, b : Named(id, a) /\ Named(id, b) => a = b
    /\ RightTarget

\* A step may forget names, and give one to a new id.
Extends(x) ==
    /\ made' \in {made, made + 1}
    /\ \A id, name : Named(id, name)' =>
         Named(id, name) \/ (id = made + 1 /\ made' = made + 1 /\ name = x)

LEMMA AgreeKept ==
    ASSUME Typed, IdsAgree, RightTarget', NEW x, Extends(x)
    PROVE  IdsAgree'
<1>1. made \in Nat
  BY DEF Typed
<1>2. \A id, name : Named(id, name)' => id \in 1..made'
  BY <1>1 DEF IdsAgree, Extends
<1>3. ASSUME NEW id, NEW a, NEW b, Named(id, a)', Named(id, b)'
      PROVE  a = b
  <2>1. CASE id = made + 1
    <3>1. ~Named(id, a) /\ ~Named(id, b)
      BY <1>1, <2>1 DEF IdsAgree
    <3> QED BY <1>3, <3>1 DEF Extends
  <2>2. CASE id # made + 1
    BY <1>3, <2>2 DEF IdsAgree, Extends
  <2> QED BY <2>1, <2>2
<1> QED BY <1>2, <1>3 DEF IdsAgree

\* An id that IdFor picks is new, or was this name's before.
LEMMA IdForNamed ==
    ASSUME Typed, NEW name, NEW n, NEW new
    PROVE  IdFor(name, n, new) = new \/ Named(IdFor(name, n, new), name)
<1>1. CASE Previous(name, n) = {}
  BY <1>1 DEF IdFor
<1>2. CASE Previous(name, n) # {}
  <2>1. (CHOOSE s \in Previous(name, n) : TRUE) \in Previous(name, n)
    BY <1>2
  <2> QED BY <1>2, <2>1 DEF IdFor, Previous, Named
<1> QED BY <1>1, <1>2

LEMMA RegisteredNames ==
    ASSUME Typed, NEW what \in [name : Names, protocol : Protocols], NEW n, NEW new,
           NEW s \in Registered(what, n, new)
    PROVE  \/ s \in services
           \/ s.id = IdFor(what.name, n, new) /\ s.name = what.name
BY DEF Registered

LEMMA LoseForgets ==
    ASSUME Typed, NEW lost, Lose(lost), UNCHANGED <<own, made>>,
           \A id, name : (\E s \in services' : s.id = id /\ s.name = name) => Named(id, name)
    PROVE  Extends(0) /\ (RightTarget => RightTarget')
<1>1. request' = request \/ request'.at = "unavailable"
  BY LoseTyped
<1>2. \A p \in Procs :
        /\ accepted'[p] = accepted[p] \/ accepted'[p] = 0
        /\ local'[p] \subseteq local[p] /\ own'[p] = own[p]
  BY DEF Lose, Typed
<1>3. ASSUME NEW id, NEW name, Named(id, name)'
      PROVE  Named(id, name)
  <2>1. CASE \E s \in services' : s.id = id /\ s.name = name
    BY <2>1
  <2>2. CASE \E p \in Procs :
               /\ Publishes[p].name = name /\ id # 0
               /\ own'[p] = id \/ accepted'[p] = id \/ id \in local'[p]
    BY <1>2, <2>2 DEF Named
  <2>3. CASE /\ request'.at \in {"service", "node", "stream"}
             /\ request'.id = id /\ request'.name = name
    BY <1>1, <2>3 DEF Named
  <2> QED BY <1>3, <2>1, <2>2, <2>3 DEF Named
<1>4. RightTarget => RightTarget'
  BY <1>1 DEF RightTarget, At
<1> QED BY <1>3, <1>4 DEF Extends

LEMMA RequestAgrees ==
    ASSUME Typed, Typed', IdsAgree, Request
    PROVE  IdsAgree'
<1> USE DEF chain, client, server
<1>0. Failed.at = "unavailable"
  BY DEF Failed, Stopped
<1>1. UNCHANGED <<services, own, accepted, local, made>>
  BY DEF Request, Arrives, ForApi, FindService, FindNode, FindSession, ServeStream, TimesOut
<1>2. ASSUME \/ request'.at \notin {"service", "node", "stream", "answered"}
             \/ /\ request'.at \in {"service", "node", "stream"}
                /\ Named(request'.id, request'.name)
             \/ /\ request'.at = "answered"
                /\ Publishes[request'.proc].name = request'.name
      PROVE  IdsAgree'
  <2>1. Extends(0)
    BY <1>1, <1>2 DEF Extends, Named
  <2>2. RightTarget'
    BY <1>2 DEF RightTarget, At
  <2> QED BY <2>1, <2>2, AgreeKept
<1>3. ASSUME NEW asked \in Asked, Arrives(asked.name, asked.protocol)
      PROVE  IdsAgree'
  <2>1. request'.at = "host"
    BY <1>3 DEF Arrives, Stopped
  <2> QED BY <1>2, <2>1
<1>4. CASE ForApi
  <2>1. request'.at = "api"
    BY <1>4 DEF ForApi, Goes, Typed, Requests
  <2> QED BY <1>2, <2>1
<1>5. CASE FindService
  <2>1. CASE request' = Failed
    BY <1>0, <1>2, <2>1
  <2>2. CASE request' # Failed
    <3>1. PICK s \in services :
            s.name = request.name /\ request' = [request EXCEPT !.at = "service", !.id = s.id]
      BY <1>5, <2>2 DEF FindService, Serves
    <3>2. request'.at = "service" /\ request'.id = s.id /\ request'.name = s.name
      BY <3>1 DEF Typed, Requests
    <3>3. Named(s.id, s.name)
      BY DEF Named
    <3> QED BY <1>2, <3>2, <3>3
  <2> QED BY <2>1, <2>2
<1>6. CASE FindNode
  <2>1. CASE request' = Failed
    BY <1>0, <1>2, <2>1
  <2>2. CASE request' # Failed
    <3>1. PICK s \in services :
            request' = [request EXCEPT !.at = "node", !.node = s.node]
      BY <1>6, <2>2 DEF FindNode
    <3>2. request'.at = "node" /\ request'.id = request.id /\ request'.name = request.name
      BY <3>1 DEF Typed, Requests
    <3>3. Named(request.id, request.name)
      BY <1>6 DEF FindNode, At, Named
    <3> QED BY <1>2, <3>2, <3>3
  <2> QED BY <2>1, <2>2
<1>7. CASE FindSession
  <2>1. CASE request' = Failed
    BY <1>0, <1>2, <2>1
  <2>2. CASE request' # Failed
    <3>1. PICK p : request' = [request EXCEPT !.at = "stream", !.proc = p]
      BY <1>7, <2>2 DEF FindSession
    <3>2. request'.at = "stream" /\ request'.id = request.id /\ request'.name = request.name
      BY <3>1 DEF Typed, Requests
    <3>3. Named(request.id, request.name)
      BY <1>7 DEF FindSession, At, Named
    <3> QED BY <1>2, <3>2, <3>3
  <2> QED BY <2>1, <2>2
<1>8. CASE ServeStream
  <2>1. CASE request' = Failed
    BY <1>0, <1>2, <2>1
  <2>2. CASE request' # Failed
    <3> DEFINE p == request.proc
    <3>1. /\ request.at = "stream" /\ request.id \in local[p] /\ p \in Procs
          /\ request' = [request EXCEPT !.at = "answered"]
      BY <1>8, <2>2 DEF ServeStream, At, Goes, Typed
    <3>2. Named(request.id, request.name)
      BY <3>1 DEF Named
    <3>3. request.id # 0
      BY <3>2 DEF IdsAgree, Typed
    <3>4. Named(request.id, Publishes[p].name)
      BY <3>1, <3>3 DEF Named
    <3>5. Publishes[p].name = request.name
      BY <3>2, <3>4 DEF IdsAgree
    <3>6. request'.at = "answered" /\ request'.proc = p /\ request'.name = request.name
      BY <3>1 DEF Typed, Requests
    <3> QED BY <1>2, <3>5, <3>6
  <2> QED BY <2>1, <2>2
<1>9. CASE TimesOut
  BY <1>0, <1>2, <1>9 DEF TimesOut
<1> QED BY <1>3, <1>4, <1>5, <1>6, <1>7, <1>8, <1>9 DEF Request

LEMMA AgreeNext ==
    ASSUME Typed, IdsAgree, [Next]_vars
    PROVE  IdsAgree'
<1> USE DEF client, server
<1>0. Typed' /\ RightTarget /\ 0 \notin 1..made
  BY TypedNext DEF IdsAgree, Typed
<1>1. CASE Request
  BY <1>0, <1>1, RequestAgrees
<1>2. ASSUME NEW p \in Procs, Launch(p)
      PROVE  IdsAgree'
  <2>1. made' = made + 1 /\ own' = [own EXCEPT ![p] = made + 1]
    BY <1>2 DEF Launch, NewId
  <2>2. Extends(Publishes[p].name)
    BY <1>2, <2>1 DEF Launch, Extends, Named, Typed
  <2>3. RightTarget'
    BY <1>0, <1>2 DEF Launch, RightTarget, At
  <2> QED BY <2>2, <2>3, AgreeKept
<1>3. ASSUME NEW lost, Lose(lost), UNCHANGED <<own, made>>,
             services' \subseteq services
      PROVE  IdsAgree'
  <2>1. \A id, name : (\E s \in services' : s.id = id /\ s.name = name) => Named(id, name)
    BY <1>3 DEF Named
  <2> QED BY <1>0, <1>3, <2>1, LoseForgets, AgreeKept
<1>4. ASSUME NEW p \in Procs, Connects(p) \/ Rejected(p) \/ Disconnects(p)
      PROVE  IdsAgree'
  BY <1>3, <1>4 DEF Connects, Rejected, Disconnects
\* What a process registers, under its own id or under the one the name has.
<1>5. ASSUME NEW p \in Procs, up[p] = "node"
      PROVE  /\ Named(IdFor(Publishes[p].name, NodeOf[p], own[p]), Publishes[p].name)
             /\ \A s \in Registered(Publishes[p], NodeOf[p], own[p]) : Named(s.id, s.name)
  <2>1. Named(own[p], Publishes[p].name)
    BY <1>5 DEF Typed, Named
  <2>2. Named(IdFor(Publishes[p].name, NodeOf[p], own[p]), Publishes[p].name)
    BY <2>1, IdForNamed
  <2>3. ASSUME NEW s \in Registered(Publishes[p], NodeOf[p], own[p])
        PROVE  Named(s.id, s.name)
    <3>1. CASE s \in services
      BY <3>1 DEF Named
    <3>2. CASE s \notin services
      BY <2>2, <3>2, NodesAndNames, RegisteredNames
    <3> QED BY <3>1, <3>2
  <2> QED BY <2>2, <2>3
<1>6. ASSUME NEW p \in Procs, Registers(p)
      PROVE  IdsAgree'
  <2> DEFINE id == IdFor(Publishes[p].name, NodeOf[p], own[p])
  <2>1. Named(id, Publishes[p].name) /\ \A s \in services' : Named(s.id, s.name)
    BY <1>5, <1>6 DEF Registers
  <2>2. accepted' = [accepted EXCEPT ![p] = id] /\ UNCHANGED <<own, local, request, made>>
    BY <1>6 DEF Registers
  <2> HIDE DEF id
  <2>3. Extends(0)
    BY <2>1, <2>2 DEF Extends, Named, Typed
  <2>4. RightTarget'
    BY <1>0, <2>2 DEF RightTarget, At
  <2> QED BY <2>3, <2>4, AgreeKept
<1>7. ASSUME NEW p \in Procs, RegistersUnheard(p)
      PROVE  IdsAgree'
  <2>1. Lose({p}) /\ UNCHANGED <<own, made>>
    BY <1>7 DEF RegistersUnheard
  <2>2. \A s \in services' : Named(s.id, s.name)
    BY <1>5, <1>7 DEF RegistersUnheard
  <2>3. Extends(0) /\ RightTarget'
    BY <1>0, <2>1, <2>2, LoseForgets
  <2> QED BY <2>3, AgreeKept
<1>8. ASSUME NEW p \in Procs, Serving(p)
      PROVE  IdsAgree'
  <2>1. local' = [local EXCEPT ![p] = {accepted[p]}]
        /\ UNCHANGED <<own, accepted, services, request, made>>
    BY <1>8 DEF Serving
  <2>2. Extends(0)
    BY <2>1 DEF Extends, Named, Typed
  <2>3. RightTarget'
    BY <1>0, <2>1 DEF RightTarget, At
  <2> QED BY <2>2, <2>3, AgreeKept
<1>9. ASSUME NEW p \in Procs, Exits(p)
      PROVE  IdsAgree'
  <2>1. Lose({p}) /\ own' = [own EXCEPT ![p] = 0] /\ UNCHANGED <<services, made>>
    BY <1>9 DEF Exits
  <2>2. request' = request \/ request'.at = "unavailable"
    BY <2>1, LoseTyped
  <2>3. \A q \in Procs :
          /\ accepted'[q] = accepted[q] \/ accepted'[q] = 0
          /\ own'[q] = own[q] \/ own'[q] = 0
          /\ local'[q] \subseteq local[q]
    BY <2>1 DEF Lose, Typed
  <2>4. Extends(0)
    BY <2>1, <2>2, <2>3 DEF Extends, Named
  <2>5. RightTarget'
    BY <1>0, <2>2 DEF RightTarget, At
  <2> QED BY <2>4, <2>5, AgreeKept
<1>10. ASSUME UNCHANGED <<own, accepted, local, request, made>>, services' \subseteq services
       PROVE  IdsAgree'
  <2>1. Extends(0)
    BY <1>10 DEF Extends, Named
  <2>2. RightTarget'
    BY <1>0, <1>10 DEF RightTarget, At
  <2> QED BY <2>1, <2>2, AgreeKept
<1>11. ASSUME NEW p \in Procs, Overruns(p)
       PROVE  IdsAgree'
  BY <1>10, <1>11 DEF Overruns
<1>12. ASSUME NEW s \in services, ApiDeletes(s)
       PROVE  IdsAgree'
  BY <1>10, <1>12 DEF ApiDeletes
<1>13. ASSUME NEW name \in Names, NEW protocol \in Protocols, NEW n \in Nodes,
              ApiCreates(name, protocol, n)
       PROVE  IdsAgree'
  <2> DEFINE what == [name |-> name, protocol |-> protocol]
  <2>1. /\ made' = made + 1 /\ services' = Registered(what, n, made + 1)
        /\ UNCHANGED <<own, accepted, local, request>>
    BY <1>13 DEF ApiCreates, NewId
  <2>2. what \in [name : Names, protocol : Protocols] /\ what.name = name
    OBVIOUS
  <2> HIDE DEF what
  <2>3. \A s \in services' : Named(s.id, s.name) \/ (s.id = made + 1 /\ s.name = name)
    <3> SUFFICES ASSUME NEW s \in services'
                 PROVE  Named(s.id, s.name) \/ (s.id = made + 1 /\ s.name = name)
      OBVIOUS
    <3>1. s \in services \/ (s.id = IdFor(name, n, made + 1) /\ s.name = name)
      BY <2>1, <2>2, RegisteredNames
    <3> QED BY <3>1, IdForNamed DEF Named
  <2>4. Extends(name)
    BY <2>1, <2>3 DEF Extends, Named
  <2>5. RightTarget'
    BY <1>0, <2>1 DEF RightTarget, At
  <2> QED BY <2>4, <2>5, AgreeKept
<1>14. CASE Restarts
  <2>1. /\ \A p \in Procs : accepted'[p] = 0 /\ local'[p] = {}
        /\ UNCHANGED <<own, services, made>>
    BY <1>14 DEF Restarts
  <2>2. request' = request \/ request'.at = "unavailable"
    BY <1>14 DEF Restarts, Failed, Stopped
  <2>3. Extends(0)
    BY <2>1, <2>2 DEF Extends, Named
  <2>4. RightTarget'
    BY <1>0, <2>2 DEF RightTarget, At
  <2> QED BY <2>3, <2>4, AgreeKept
<1>15. CASE UNCHANGED vars
  BY <1>10, <1>15 DEF vars
<1> QED
  BY <1>1, <1>2, <1>4, <1>6, <1>7, <1>8, <1>9, <1>11, <1>12, <1>13, <1>14, <1>15
  DEF Next, Client

LEMMA AgreeInit == Init => IdsAgree
<1> SUFFICES ASSUME Init PROVE IdsAgree
  OBVIOUS
<1>1. request.at = "idle" /\ services = {}
  BY DEF Init, Stopped
<1>2. \A id, name : ~Named(id, name)
  BY <1>1 DEF Init, Named
<1> QED BY <1>1, <1>2 DEF IdsAgree, RightTarget, At

\* An answer comes from a process that publishes the name asked for, for any number
\* of processes, nodes and services and any history of them (forward_http_request,
\* open_client_stream, handle_data_stream).
THEOREM AnsweredByName == Spec => []RightTarget
<1>1. Init => Typed /\ IdsAgree
  BY TypedInit, AgreeInit
<1>2. Typed /\ IdsAgree /\ [Next]_vars => (Typed /\ IdsAgree)'
  BY TypedNext, AgreeNext
<1>3. IdsAgree => RightTarget
  BY DEF IdsAgree
<1> QED BY <1>1, <1>2, <1>3, PTL DEF Spec

--------------------------------------------------------------------------------
(* The directory *)

\* A name has one service; what a process was told is in the table, unless the API
\* has touched the name; and a process that serves knows the id it was told.
Directory ==
    /\ \A s, t \in services : s.name = t.name => s = t
    /\ \A p \in Procs \ touched : up[p] \in {"accepted", "serving"} =>
         \E s \in services :
            s.name = Publishes[p].name /\ s.node = NodeOf[p] /\ s.id = accepted[p]
    /\ \A p \in Procs : up[p] = "serving" => local[p] = {accepted[p]}

\* Registration replaces the service of the name, whose id and node it keeps, and no
\* other one.
LEMMA RegisteredReplaces ==
    ASSUME Typed, IdsAgree, Directory,
           NEW what \in [name : Names, protocol : Protocols], NEW n \in Nodes, NEW new,
           new = made + 1 \/ Named(new, what.name), ~Taken(what.name, n)
    PROVE  LET id == IdFor(what.name, n, new) IN
           \E r \in Registered(what, n, new) :
             /\ r.id = id /\ r.name = what.name /\ r.node = n
             /\ \A s \in services : s.name = what.name => s.id = id /\ s.node = n
             /\ \A s \in services : s.name # what.name =>
                   s.id # id /\ s \in Registered(what, n, new)
             /\ \A s \in Registered(what, n, new) :
                   s = r \/ (s \in services /\ s.name # what.name)
<1> DEFINE id == IdFor(what.name, n, new)
           r == [id |-> id, name |-> what.name, protocol |-> what.protocol, node |-> n]
<1>1. /\ Registered(what, n, new) = {s \in services : s.id # id} \cup {r}
      /\ r.id = id /\ r.name = what.name /\ r.node = n
  BY DEF Registered
<1>2. ASSUME NEW s \in services, s.name = what.name
      PROVE  s.id = id /\ s.node = n
  <2>1. s.node = n /\ s \in Previous(what.name, n)
    BY <1>2 DEF Taken, Previous
  <2>2. (CHOOSE t \in Previous(what.name, n) : TRUE) \in Previous(what.name, n)
    BY <2>1
  <2>3. (CHOOSE t \in Previous(what.name, n) : TRUE) = s
    BY <2>1, <2>2 DEF Previous, Directory
  <2> QED BY <2>1, <2>3 DEF IdFor
<1>3. ASSUME NEW s \in services, s.name # what.name
      PROVE  s.id # id
  <2>1. Named(s.id, s.name)
    BY DEF Named
  <2>2. id = new \/ Named(id, what.name)
    BY IdForNamed
  <2>3. s.id # made + 1
    BY <2>1 DEF IdsAgree, Typed
  <2> QED BY <1>3, <2>1, <2>2, <2>3 DEF IdsAgree
<1> HIDE DEF id, r
<1> QED BY <1>1, <1>2, <1>3 DEF id

\* What a step has to do for Directory if it leaves the services alone.
LEMMA DirectoryKept ==
    ASSUME Directory, services' = services, touched \subseteq touched',
           \A p \in Procs : up'[p] \in {"accepted", "serving"} =>
             up'[p] = up[p] /\ accepted'[p] = accepted[p] /\ local'[p] = local[p]
    PROVE  Directory'
BY DEF Directory

LEMMA LoseCloses ==
    ASSUME Typed, NEW lost, Lose(lost), NEW p \in Procs,
           Reconnecting(lost)[p] \in {"accepted", "serving"}
    PROVE  /\ Reconnecting(lost)[p] = up[p] /\ accepted'[p] = accepted[p]
           /\ local'[p] = local[p]
BY DEF Lose, Reconnecting, Connected, Typed

\* After a registration, whatever else the step does to processes other than those
\* that are told of it.
LEMMA DirectoryRegistered ==
    ASSUME Typed, IdsAgree, Directory,
           NEW what \in [name : Names, protocol : Protocols], NEW n \in Nodes, NEW new,
           new = made + 1 \/ Named(new, what.name), ~Taken(what.name, n),
           services' = Registered(what, n, new),
           \A p \in Procs : up'[p] \in {"accepted", "serving"} =>
             \/ up'[p] = up[p] /\ accepted'[p] = accepted[p] /\ local'[p] = local[p]
                /\ (p \in touched => p \in touched')
             \/ /\ up'[p] = "accepted" /\ accepted'[p] = IdFor(what.name, n, new)
                /\ Publishes[p].name = what.name /\ NodeOf[p] = n
    PROVE  Directory'
<1> DEFINE id == IdFor(what.name, n, new)
<1>1. PICK r \in services' :
        /\ r.id = id /\ r.name = what.name /\ r.node = n
        /\ \A s \in services : s.name = what.name => s.id = id /\ s.node = n
        /\ \A s \in services : s.name # what.name => s \in services'
        /\ \A s \in services' : s = r \/ (s \in services /\ s.name # what.name)
  BY RegisteredReplaces
<1> HIDE DEF id
<1>2. \A s, t \in services' : s.name = t.name => s = t
  BY <1>1 DEF Directory
<1>3. ASSUME NEW p \in Procs \ touched', up'[p] \in {"accepted", "serving"}
      PROVE  \E s \in services' :
               s.name = Publishes[p].name /\ s.node = NodeOf[p] /\ s.id = accepted'[p]
  <2>1. CASE up'[p] = up[p] /\ accepted'[p] = accepted[p] /\ p \notin touched
    <3>1. PICK s \in services :
            s.name = Publishes[p].name /\ s.node = NodeOf[p] /\ s.id = accepted[p]
      BY <1>3, <2>1 DEF Directory
    <3>2. CASE s.name = what.name
      BY <1>1, <2>1, <3>1, <3>2
    <3>3. CASE s.name # what.name
      BY <1>1, <2>1, <3>1, <3>3
    <3> QED BY <3>2, <3>3
  <2>2. CASE accepted'[p] = id /\ Publishes[p].name = what.name /\ NodeOf[p] = n
    BY <1>1, <2>2
  <2> QED BY <1>3, <2>1, <2>2 DEF id
<1>4. \A p \in Procs : up'[p] = "serving" => local'[p] = {accepted'[p]}
  BY DEF Directory
<1> QED BY <1>2, <1>3, <1>4 DEF Directory

LEMMA DirectoryNext ==
    ASSUME Typed, IdsAgree, Directory, [Next]_vars
    PROVE  Directory'
<1> USE DEF client, server
<1>1. CASE Request
  <2>1. UNCHANGED <<services, touched, up, accepted, local>>
    BY <1>1 DEF Request, Arrives, ForApi, FindService, FindNode, FindSession,
       ServeStream, TimesOut, chain
  <2> QED BY <2>1, DirectoryKept
<1>2. ASSUME NEW p \in Procs, Launch(p) \/ Overruns(p)
      PROVE  Directory'
  <2>1. /\ UNCHANGED <<services, touched, accepted, local>>
        /\ up' = [up EXCEPT ![p] = "connecting"]
    BY <1>2 DEF Launch, Overruns
  <2>2. \A q \in Procs : up'[q] \in {"accepted", "serving"} => up'[q] = up[q]
    BY <2>1 DEF Typed
  <2> QED BY <2>1, <2>2, DirectoryKept
<1>3. ASSUME NEW p \in Procs, Connects(p)
      PROVE  Directory'
  <2> DEFINE lost == {sessions[NodeOf[p]]} \ {None}
  <2>1. /\ Lose(lost) /\ up' = [Reconnecting(lost) EXCEPT ![p] = "node"]
        /\ UNCHANGED <<services, touched>>
    BY <1>3 DEF Connects
  <2> HIDE DEF lost
  <2>2. \A q \in Procs : up'[q] \in {"accepted", "serving"} => up'[q] = Reconnecting(lost)[q]
    BY <2>1, LoseTyped
  <2> QED BY <2>1, <2>2, LoseCloses, DirectoryKept
<1>4. ASSUME NEW p \in Procs, Rejected(p) \/ Disconnects(p)
      PROVE  Directory'
  <2>1. Lose({p}) /\ up' = Reconnecting({p}) /\ UNCHANGED <<services, touched>>
    BY <1>4 DEF Rejected, Disconnects
  <2> QED BY <2>1, LoseCloses, DirectoryKept
<1>5. ASSUME NEW p \in Procs, up[p] = "node"
      PROVE  Named(own[p], Publishes[p].name)
  BY <1>5 DEF Typed, Named
<1>6. ASSUME NEW p \in Procs, Registers(p)
      PROVE  Directory'
  <2> DEFINE id == IdFor(Publishes[p].name, NodeOf[p], own[p])
  <2>1. /\ up' = [up EXCEPT ![p] = "accepted"] /\ accepted' = [accepted EXCEPT ![p] = id]
        /\ local' = local /\ touched' = touched \ {p}
        /\ services' = Registered(Publishes[p], NodeOf[p], own[p])
        /\ up[p] = "node" /\ ~Taken(Publishes[p].name, NodeOf[p])
    BY <1>6 DEF Registers
  <2>2. \A q \in Procs : up'[q] \in {"accepted", "serving"} =>
          \/ up'[q] = up[q] /\ accepted'[q] = accepted[q] /\ local'[q] = local[q]
             /\ (q \in touched => q \in touched')
          \/ up'[q] = "accepted" /\ accepted'[q] = id /\ q = p
    BY <2>1 DEF Typed
  <2> QED BY <1>5, <2>1, <2>2, NodesAndNames, DirectoryRegistered
<1>7. ASSUME NEW p \in Procs, RegistersUnheard(p)
      PROVE  Directory'
  <2>1. /\ Lose({p}) /\ up' = Reconnecting({p}) /\ touched' = touched
        /\ services' = Registered(Publishes[p], NodeOf[p], own[p])
        /\ up[p] = "node" /\ ~Taken(Publishes[p].name, NodeOf[p])
    BY <1>7 DEF RegistersUnheard
  <2>2. \A q \in Procs : up'[q] \in {"accepted", "serving"} =>
          up'[q] = up[q] /\ accepted'[q] = accepted[q] /\ local'[q] = local[q]
    BY <2>1, LoseCloses
  <2> QED BY <1>5, <2>1, <2>2, NodesAndNames, DirectoryRegistered
<1>8. ASSUME NEW p \in Procs, Serving(p)
      PROVE  Directory'
  <2>1. /\ up[p] = "accepted" /\ up' = [up EXCEPT ![p] = "serving"]
        /\ local' = [local EXCEPT ![p] = {accepted[p]}]
        /\ UNCHANGED <<services, accepted, touched>>
    BY <1>8 DEF Serving
  <2> QED BY <2>1 DEF Directory, Typed
<1>9. ASSUME NEW p \in Procs, Exits(p)
      PROVE  Directory'
  <2>1. /\ Lose({p}) /\ up' = [up EXCEPT ![p] = "off"] /\ UNCHANGED <<services, touched>>
    BY <1>9 DEF Exits
  <2>2. \A q \in Procs : up'[q] \in {"accepted", "serving"} =>
          up'[q] = up[q] /\ accepted'[q] = accepted[q] /\ local'[q] = local[q]
    BY <2>1 DEF Lose, Typed
  <2> QED BY <2>1, <2>2, DirectoryKept
<1>10. ASSUME NEW s \in services, ApiDeletes(s)
       PROVE  Directory'
  <2>1. /\ services' = services \ {s} /\ UNCHANGED <<up, accepted, local>>
        /\ touched' = touched \cup {p \in Procs : Publishes[p].name = s.name}
    BY <1>10 DEF ApiDeletes, Touches
  <2> QED BY <2>1 DEF Directory
<1>11. ASSUME NEW name \in Names, NEW protocol \in Protocols, NEW n \in Nodes,
              ApiCreates(name, protocol, n)
       PROVE  Directory'
  <2> DEFINE what == [name |-> name, protocol |-> protocol]
  <2>1. /\ services' = Registered(what, n, made + 1) /\ ~Taken(name, n)
        /\ UNCHANGED <<up, accepted, local>> /\ touched \subseteq touched'
    BY <1>11 DEF ApiCreates, NewId, Touches
  <2>2. what \in [name : Names, protocol : Protocols] /\ what.name = name
    OBVIOUS
  <2> HIDE DEF what
  <2> QED BY <2>1, <2>2, DirectoryRegistered
<1>12. CASE Restarts
  <2>1. UNCHANGED <<services, touched>> /\ up' = Reconnecting(Procs)
    BY <1>12 DEF Restarts
  <2>2. \A p \in Procs : up'[p] \notin {"accepted", "serving"}
    BY <2>1 DEF Reconnecting, Connected
  <2> QED BY <2>1, <2>2, DirectoryKept
<1>13. CASE UNCHANGED vars
  BY <1>13, DirectoryKept DEF vars
<1> QED
  BY <1>1, <1>2, <1>3, <1>4, <1>6, <1>7, <1>8, <1>9, <1>10, <1>11, <1>12, <1>13
  DEF Next, Client

\* As long as the API leaves its name alone, the service of a process in session is
\* in the table, under an id that the process knows and under no other, after any
\* history (register_service, RegisterServiceAccepted, local_services).
THEOREM DirectoryAgrees == Spec => []DirectoryMatches
<1>1. Init => Typed /\ IdsAgree /\ Directory
  BY TypedInit, AgreeInit DEF Init, Directory
<1>2. Typed /\ IdsAgree /\ Directory /\ [Next]_vars => (Typed /\ IdsAgree /\ Directory)'
  BY TypedNext, AgreeNext, DirectoryNext
<1>3. Directory => DirectoryMatches
  BY DEF Directory, DirectoryMatches, InSession, Served
<1> QED BY <1>1, <1>2, <1>3, PTL DEF Spec

--------------------------------------------------------------------------------
(* The promise *)

\* Ids are made up to the bound.
Bounded == made <= MaxId

LEMMA BoundedNext == Typed /\ Bounded /\ [Next]_vars => Bounded'
<1> SUFFICES ASSUME Typed, Bounded, [Next]_vars PROVE Bounded'
  OBVIOUS
<1>1. made' = made \/ NewId
  BY DEF Next, Request, Arrives, ForApi, FindService, FindNode, FindSession, ServeStream,
     TimesOut, chain, Launch, Client, Connects, Registers, Rejected, Serving, RegistersUnheard,
     Disconnects, Overruns, Exits, ApiDeletes, ApiCreates, Restarts, vars
<1> QED BY <1>1, BoundsAssumption DEF Typed, Bounded, NewId

\* A step registers a name, deletes a service or leaves the table alone.
LEMMA TableStep ==
    ASSUME Typed, [Next]_vars
    PROVE  \/ services' = services
           \/ \E s \in services : services' = services \ {s}
           \/ \E what \in [name : Names, protocol : Protocols], n \in Nodes, new \in Nat :
                /\ new = made + 1 \/ Named(new, what.name)
                /\ ~Taken(what.name, n) /\ services' = Registered(what, n, new)
<1> USE DEF client, server
<1>1. CASE Request
  BY <1>1 DEF Request, Arrives, ForApi, FindService, FindNode, FindSession, ServeStream,
     TimesOut, chain
<1>2. ASSUME NEW p \in Procs, Registers(p) \/ RegistersUnheard(p)
      PROVE  \E what \in [name : Names, protocol : Protocols], n \in Nodes, new \in Nat :
                /\ new = made + 1 \/ Named(new, what.name)
                /\ ~Taken(what.name, n) /\ services' = Registered(what, n, new)
  <2>1. /\ ~Taken(Publishes[p].name, NodeOf[p])
        /\ services' = Registered(Publishes[p], NodeOf[p], own[p])
    BY <1>2 DEF Registers, RegistersUnheard
  <2>2. own[p] \in Nat /\ Named(own[p], Publishes[p].name)
    BY <1>2 DEF Registers, RegistersUnheard, Typed, Named
  <2> QED BY <2>1, <2>2, NodesAndNames
<1>3. ASSUME NEW name \in Names, NEW protocol \in Protocols, NEW n \in Nodes,
             ApiCreates(name, protocol, n)
      PROVE  \E what \in [name : Names, protocol : Protocols], m \in Nodes, new \in Nat :
                /\ new = made + 1 \/ Named(new, what.name)
                /\ ~Taken(what.name, m) /\ services' = Registered(what, m, new)
  <2> DEFINE what == [name |-> name, protocol |-> protocol]
  <2>1. /\ what \in [name : Names, protocol : Protocols] /\ made + 1 \in Nat
        /\ ~Taken(what.name, n) /\ services' = Registered(what, n, made + 1)
    BY <1>3 DEF ApiCreates, NewId, Typed
  <2> HIDE DEF what
  <2> QED BY <2>1
<1> QED
  BY <1>1, <1>2, <1>3
  DEF Next, Client, Launch, Connects, Rejected, Serving, Disconnects, Overruns, Exits,
      ApiDeletes, Restarts, vars

\* How a service is listed.
Entry(s) == [id |-> s.id, name |-> s.name, node |-> s.node]

LEMMA ListingStep ==
    ASSUME Typed, IdsAgree, Directory, Bounded, [Next]_vars
    PROVE  [Listing!Next]_(Listing!vars)
<1> DEFINE listed == {Entry(s) : s \in services}
           listedThen == {Entry(s) : s \in services'}
<1>1. /\ Listing!vars = <<TRUE, listed>> /\ Listing!vars' = <<TRUE, listedThen>>
  BY DEF Listing!vars, Entry
<1>2. \A s \in services' : Entry(s) \in [id : 1..MaxId, name : Names, node : Nodes]
  <2> SUFFICES ASSUME NEW s \in services'
               PROVE  Entry(s) \in [id : 1..MaxId, name : Names, node : Nodes]
    OBVIOUS
  <2>1. Typed' /\ IdsAgree' /\ Bounded'
    BY TypedNext, AgreeNext, BoundedNext
  <2>2. s.id \in 1..made' /\ made' \in Nat /\ made' <= MaxId
    BY <2>1 DEF IdsAgree, Named, Typed, Bounded
  <2>3. s.name \in Names /\ s.node \in Nodes
    BY <2>1 DEF Typed, Services
  <2> QED BY <2>2, <2>3, BoundsAssumption DEF Entry
<1>3. ASSUME NEW s \in services, services' = services \ {s}
      PROVE  [Listing!Next]_(Listing!vars)
  <2>1. Entry(s) \in [id : 1..MaxId, name : Names, node : Nodes]
    <3>1. s.id \in 1..made
      BY DEF IdsAgree, Named
    <3> QED BY <3>1, BoundsAssumption DEF Typed, Services, Bounded, Entry
  <2>2. \A t \in services : Entry(t) = Entry(s) => t = s
    BY DEF Entry, Directory
  <2>3. listedThen = listed \ {Entry(s)}
    BY <1>3, <2>2
  <2>4. Listing!Withdraw(Entry(s))
    BY <2>3 DEF Listing!Withdraw, Entry
  <2> QED BY <2>1, <2>4 DEF Listing!Next
<1>4. ASSUME NEW what \in [name : Names, protocol : Protocols], NEW n \in Nodes, NEW new \in Nat,
             new = made + 1 \/ Named(new, what.name), ~Taken(what.name, n),
             services' = Registered(what, n, new)
      PROVE  [Listing!Next]_(Listing!vars)
  <2> DEFINE id == IdFor(what.name, n, new)
  <2>1. PICK r \in services' :
          /\ r.id = id /\ r.name = what.name /\ r.node = n
          /\ \A s \in services : s.name = what.name => s.id = id /\ s.node = n
          /\ \A s \in services : s.name # what.name => s.id # id /\ s \in services'
          /\ \A s \in services' : s = r \/ (s \in services /\ s.name # what.name)
    BY <1>4, RegisteredReplaces
  <2> HIDE DEF id
  <2>2. listedThen = listed \cup {Entry(r)}
    <3>1. \A s \in services : Entry(s) \in listedThen
      BY <2>1 DEF Entry
    <3>2. \A s \in services' : s = r \/ s \in services
      BY <2>1
    <3> QED BY <3>1, <3>2
  <2>3. CASE \E s \in services : s.name = what.name
    <3>1. Entry(r) \in listed
      BY <2>1, <2>3 DEF Entry
    <3> QED BY <1>1, <2>2, <3>1
  <2>4. CASE ~\E s \in services : s.name = what.name
    <3>1. \A f \in listed : f.id # Entry(r).id /\ f.name # Entry(r).name
      BY <2>1, <2>4 DEF Entry
    <3>2. Listing!Publish(Entry(r))
      BY <2>2, <3>1 DEF Listing!Publish, Entry
    <3> QED BY <1>2, <3>2 DEF Listing!Next
  <2> QED BY <2>3, <2>4
<1>5. CASE services' = services
  BY <1>1, <1>5
<1> QED BY <1>3, <1>4, <1>5, TableStep

\* The table implements the directory that ServiceRegistry implements, for any
\* processes, names and bounds (register_service, DELETE).
THEOREM ListingImplemented == Spec => TableIsDirectory
<1>1. Init => Typed /\ IdsAgree /\ Directory /\ Bounded
  BY TypedInit, AgreeInit, BoundsAssumption DEF Init, Directory, Bounded
<1>2. Typed /\ IdsAgree /\ Directory /\ Bounded /\ [Next]_vars
        => (Typed /\ IdsAgree /\ Directory /\ Bounded)'
  BY TypedNext, AgreeNext, DirectoryNext, BoundedNext
<1>3. Init => Listing!Init
  BY DEF Init, Listing!Init
<1>4. Typed /\ IdsAgree /\ Directory /\ Bounded /\ [Next]_vars => [Listing!Next]_(Listing!vars)
  BY ListingStep
<1> QED
  BY <1>1, <1>2, <1>3, <1>4, PTL DEF Spec, TableIsDirectory, Listing!Spec
================================================================================
