----------------------------- MODULE PublicRouting -----------------------------
(***************************************************************************)
(* The routing chain of the relay, host -> service -> node -> session ->   *)
(* data stream -> local target (PLAN.md:230), across the parts that keep a *)
(* piece of it each: the server's services and sessions, and in every      *)
(* client process the map from service ids to local addresses.             *)
(*                                                                         *)
(* Client processes are launched, connect, are replaced by another process *)
(* of their node, reconnect and exit; the control API deletes and creates  *)
(* services; the server restarts with the services it has stored.  One     *)
(* HTTP request goes along the chain; requests do not influence anything   *)
(* else, so that one stands for all.                                       *)
(*                                                                         *)
(* Registration is one step here: its races are those of ServiceRegistry,  *)
(* and those of the session table are in RelaySessions.                    *)
(***************************************************************************)
EXTENDS Naturals, FiniteSets

CONSTANTS
    Procs,        \* client processes
    NodeOf,       \* process -> the node of its state directory
    Publishes,    \* process -> [name, protocol] that it publishes
    MaxId,        \* service ids that are made at most
    MaxFaults     \* connections lost, restarts and API calls at most

Nodes == {NodeOf[p] : p \in Procs}
ApiName == "api"
Names == {Publishes[p].name : p \in Procs} \cup {ApiName}
Protocols == {"http", "https"}

ASSUME BoundsAssumption == MaxId \in Nat
ASSUME PublishesAssumption == Publishes \in [Procs -> [name : STRING, protocol : Protocols]]

\* Requests for what somebody publishes, or somebody may, and for the control API.
Asked == {Publishes[p] : p \in Procs} \cup {[name |-> ApiName, protocol |-> "https"]}
None == "none"

VARIABLES
    up,           \* process -> how far it has come
    own,          \* process -> the service id it made when it was launched
    accepted,     \* process -> the id in RegisterServiceAccepted
    local,        \* process -> the ids in local_services
    services,     \* the service table: [id, name, protocol, node]
    sessions,     \* node -> process whose connection is in the session table
    known,        \* nodes with a record in the node table
    touched,      \* processes whose name the API has changed since they registered it
    request,      \* the request under way
    made, faults  \* counters for the bounds

client == <<up, own, accepted, local>>
server == <<services, sessions, known>>
vars == <<client, server, touched, request, made, faults>>

Stages == {"off", "connecting", "node", "accepted", "serving"}
Connected(p) == up[p] \in {"node", "accepted", "serving"}
\* The task that accepts data streams runs; it may outlive the session's other end.
Accepting(p) == local[p] # {}

Fault == faults < MaxFaults /\ faults' = faults + 1
NewId == made < MaxId /\ made' = made + 1

--------------------------------------------------------------------------------
(* The request: forward_http_request, open_client_stream, handle_data_stream *)

Stopped == [at |-> "idle", name |-> ApiName, protocol |-> "http", id |-> 0,
            node |-> None, proc |-> None]
Failed == [Stopped EXCEPT !.at = "unavailable"]
At(place) == request.at = place
Under == request.at \in {"host", "service", "node", "stream"}
Goes(place) == request' = [request EXCEPT !.at = place]
chain == <<client, server, touched, made, faults>>

Arrives(name, protocol) ==
    /\ At("idle")
    /\ request' = [Stopped EXCEPT !.at = "host", !.name = name, !.protocol = protocol]
    /\ UNCHANGED chain

\* api.<domain> is the control API's, whoever has published a service of this name.
ForApi ==
    /\ At("host") /\ request.name = ApiName
    /\ Goes("api")
    /\ UNCHANGED chain

Serves(s) == s.name = request.name /\ s.protocol = request.protocol
FindService ==
    /\ At("host") /\ request.name # ApiName
    /\ IF \E s \in services : Serves(s)
         THEN \E s \in services :
                Serves(s) /\ request' = [request EXCEPT !.at = "service", !.id = s.id]
         ELSE request' = Failed
    /\ UNCHANGED chain

\* The id is looked up again: the lock has been released in between.
FindNode ==
    /\ At("service")
    /\ IF \E s \in services : s.id = request.id
         THEN \E s \in services :
                s.id = request.id /\ request' = [request EXCEPT !.at = "node", !.node = s.node]
         ELSE request' = Failed
    /\ UNCHANGED chain

\* The stream is opened on the connection of the session, if that still works.
FindSession ==
    /\ At("node")
    /\ LET p == sessions[request.node] IN
       IF p # None /\ (Connected(p) \/ Accepting(p))
         THEN request' = [request EXCEPT !.at = "stream", !.proc = p]
         ELSE request' = Failed
    /\ UNCHANGED chain

MutantServeStream ==                   \* the process has one target, whatever is asked for
    LET p == request.proc IN
    /\ At("stream") /\ Accepting(p)
    /\ \/ Goes("answered")
       \/ request' = Failed
    /\ UNCHANGED chain
\* Streams wait until the process accepts them; the target may be down.
ServeStream ==
    LET p == request.proc IN
    /\ At("stream") /\ Accepting(p)
    /\ \/ request.id \in local[p] /\ Goes("answered")
       \/ request' = Failed
    /\ UNCHANGED chain

\* 10 s are up.
TimesOut ==
    /\ At("stream")
    /\ request' = Failed
    /\ UNCHANGED chain

Request ==
    \/ \E asked \in Asked : Arrives(asked.name, asked.protocol)
    \/ ForApi \/ FindService \/ FindNode \/ FindSession \/ ServeStream \/ TimesOut

--------------------------------------------------------------------------------
(* A client process *)

\* The connections of the processes in lost are gone, and the streams on them; their
\* loops go on with a new connection, and a new map of local services.
Lose(lost) ==
    /\ request' = IF At("stream") /\ request.proc \in lost
                    THEN Failed ELSE request
    /\ local' = [p \in Procs |-> IF p \in lost THEN {} ELSE local[p]]
    /\ accepted' = [p \in Procs |-> IF p \in lost THEN 0 ELSE accepted[p]]

Reconnecting(lost) ==
    [p \in Procs |-> IF p \in lost /\ Connected(p) THEN "connecting" ELSE up[p]]

\* The entry of p in the session table goes with its handler, or is left there.
MayForget(p) ==
    sessions' \in {sessions, [sessions EXCEPT ![NodeOf[p]] = IF @ = p THEN None ELSE @]}

\* service_publish makes an id, which is kept over reconnections.
Launch(p) ==
    /\ up[p] = "off" /\ NewId
    /\ up' = [up EXCEPT ![p] = "connecting"]
    /\ own' = [own EXCEPT ![p] = made']
    /\ UNCHANGED <<accepted, local, server, touched, request, faults>>

MutantConnects(p) ==                   \* the session that is there is kept
    LET n == NodeOf[p] IN
    /\ up[p] = "connecting"
    /\ up' = [up EXCEPT ![p] = "node"]
    /\ sessions' = [sessions EXCEPT ![n] = IF @ = None THEN p ELSE @] /\ known' = known \cup {n}
    /\ UNCHANGED <<own, accepted, local, services, touched, request, made, faults>>
\* RegisterNode: activate_session, which closes the connection it replaces, another
\* process's or one that this process has left.
Connects(p) ==
    LET n == NodeOf[p]
        replaced == {sessions[n]} \ {None} IN
    /\ up[p] = "connecting"
    /\ Lose(replaced)
    /\ up' = [Reconnecting(replaced) EXCEPT ![p] = "node"]
    /\ sessions' = [sessions EXCEPT ![n] = p] /\ known' = known \cup {n}
    /\ UNCHANGED <<own, services, touched, made, faults>>

\* register_service: a name belongs to one node, and keeps its id there.
MutantTaken(name, n) ==                \* by a node that is in session
    \E s \in services : s.name = name /\ s.node # n /\ sessions[s.node] # None
Taken(name, n) == \E s \in services : s.name = name /\ s.node # n
Previous(name, n) == {s \in services : s.name = name /\ s.node = n}
MutantIdFor(name, n, new) == new       \* the one it had is not kept
IdFor(name, n, new) ==
    IF Previous(name, n) = {} THEN new ELSE (CHOOSE s \in Previous(name, n) : TRUE).id
Registered(what, n, new) ==
    LET id == IdFor(what.name, n, new) IN
    {s \in services : s.id # id} \cup
        {[id |-> id, name |-> what.name, protocol |-> what.protocol, node |-> n]}

Registers(p) ==
    LET n == NodeOf[p]
        what == Publishes[p] IN
    /\ up[p] = "node" /\ ~Taken(what.name, n)
    /\ services' = Registered(what, n, own[p])
    /\ touched' = touched \ {p}
    /\ up' = [up EXCEPT ![p] = "accepted"]
    /\ accepted' = [accepted EXCEPT ![p] = IdFor(what.name, n, own[p])]
    /\ UNCHANGED <<own, local, sessions, known, request, made, faults>>

\* The name is registered, but the connection is lost before the answer.
RegistersUnheard(p) ==
    /\ up[p] = "node" /\ ~Taken(Publishes[p].name, NodeOf[p]) /\ Fault
    /\ services' = Registered(Publishes[p], NodeOf[p], own[p])
    /\ Lose({p}) /\ up' = Reconnecting({p}) /\ MayForget(p)
    /\ UNCHANGED <<own, known, touched, made>>

\* The name is another node's: the process ends the connection.
Rejected(p) ==
    /\ up[p] = "node" /\ Taken(Publishes[p].name, NodeOf[p])
    /\ Lose({p}) /\ up' = Reconnecting({p}) /\ MayForget(p)
    /\ UNCHANGED <<own, services, known, touched, made, faults>>

MutantServing(p) ==                    \* under the id it asked for
    /\ up[p] = "accepted"
    /\ up' = [up EXCEPT ![p] = "serving"]
    /\ local' = [local EXCEPT ![p] = {own[p]}]
    /\ UNCHANGED <<own, accepted, server, touched, request, made, faults>>
\* local_services is filled, and then the task that accepts data streams started.
Serving(p) ==
    /\ up[p] = "accepted"
    /\ up' = [up EXCEPT ![p] = "serving"]
    /\ local' = [local EXCEPT ![p] = {accepted[p]}]
    /\ UNCHANGED <<own, accepted, server, touched, request, made, faults>>

Disconnects(p) ==
    /\ Connected(p) \/ Accepting(p)
    /\ Fault
    /\ Lose({p}) /\ up' = Reconnecting({p}) /\ MayForget(p)
    /\ UNCHANGED <<own, services, known, touched, made>>

\* The 5 s limit drops run_quic, but not the task that it has spawned, which goes on
\* serving over the connection until that is replaced.
Overruns(p) ==
    /\ up[p] = "serving" /\ Fault
    /\ up' = [up EXCEPT ![p] = "connecting"]
    /\ UNCHANGED <<own, accepted, local, server, touched, request, made>>

Exits(p) ==
    /\ up[p] = "connecting"
    /\ Lose({p})
    /\ up' = [up EXCEPT ![p] = "off"]
    /\ own' = [own EXCEPT ![p] = 0]
    /\ UNCHANGED <<server, touched, made, faults>>

Client(p) == Connects(p) \/ Registers(p) \/ Rejected(p) \/ Serving(p)

--------------------------------------------------------------------------------
(* The control API and the server *)

\* What the API does to a name concerns the processes that publish it.
Touches(name) == touched' = touched \cup {p \in Procs : Publishes[p].name = name}

ApiDeletes(s) ==
    /\ Fault
    /\ services' = services \ {s} /\ Touches(s.name)
    /\ UNCHANGED <<client, sessions, known, request, made>>

\* POST /v1/services, for a node that is Online, or shown so.
ApiCreates(name, protocol, n) ==
    /\ Fault /\ NewId /\ n \in known /\ ~Taken(name, n)
    /\ services' = Registered([name |-> name, protocol |-> protocol], n, made')
    /\ Touches(name)
    /\ UNCHANGED <<client, sessions, known, request>>

\* The services are loaded from the store, and the session table is empty.
Restarts ==
    /\ Fault
    /\ sessions' = [n \in Nodes |-> None]
    /\ local' = [p \in Procs |-> {}] /\ accepted' = [p \in Procs |-> 0]
    /\ up' = Reconnecting(Procs)
    /\ request' = IF Under THEN Failed ELSE request
    /\ UNCHANGED <<own, services, known, touched, made>>

Init ==
    /\ up = [p \in Procs |-> "off"] /\ own = [p \in Procs |-> 0]
    /\ accepted = [p \in Procs |-> 0] /\ local = [p \in Procs |-> {}]
    /\ services = {} /\ sessions = [n \in Nodes |-> None] /\ known = {}
    /\ touched = {} /\ request = Stopped /\ made = 0 /\ faults = 0

Next ==
    \/ Request
    \/ \E p \in Procs : Launch(p) \/ Client(p) \/ RegistersUnheard(p) \/ Disconnects(p)
                       \/ Overruns(p) \/ Exits(p)
    \/ \E s \in services : ApiDeletes(s)
    \/ \E name \in Names, protocol \in Protocols, n \in Nodes : ApiCreates(name, protocol, n)
    \/ Restarts

Spec == Init /\ [][Next]_vars

\* A client process goes on (Reconnects of RelayClient), and so does the server's
\* task for a request.
FairSpec == Spec /\ \A p \in Procs : WF_vars(Client(p))

--------------------------------------------------------------------------------
(* Properties *)

\* An answer comes from a process that publishes the name that was asked for,
\* whatever was deleted, created, re-registered, replaced or restarted between the
\* steps (forward_http_request, open_client_stream, handle_data_stream).
RightTarget == At("answered") => Publishes[request.proc].name = request.name

\* The directory and the client agree: as long as the API leaves the name alone,
\* the service of a process in session is in the table under an id it knows, and
\* under no other (RegisterServiceAccepted and local_services).
InSession(p) == up[p] = "serving" /\ sessions[NodeOf[p]] = p
Served(p) ==
    /\ InSession(p)
    /\ \E s \in services : s.name = Publishes[p].name
    /\ \A s \in services : s.name = Publishes[p].name => s.node = NodeOf[p] /\ s.id \in local[p]
DirectoryMatches == \A p \in Procs : InSession(p) /\ p \notin touched => Served(p)

\* "Services come back after the client has reconnected" (PLAN.md:438): the name of
\* a process that keeps running, and alone for its node, is served in the end, after
\* any history of other processes, lost connections, restarts and API calls.
Alone(p) ==
    /\ up[p] # "off"
    /\ \A q \in Procs \ {p} : NodeOf[q] = NodeOf[p] => up[q] = "off"
    /\ ~Taken(Publishes[p].name, NodeOf[p]) /\ p \notin touched
ServiceComesBack == \A p \in Procs : <>[]Alone(p) => <>[]Served(p)

--------------------------------------------------------------------------------
(* The promise *)

\* The table that the routing chain looks names up in is the one that ServiceRegistry
\* keeps: registrations and API calls of any client processes implement the same
\* ServiceDirectory, for a server that never loses its table (register_service, DELETE).
Listing == INSTANCE ServiceDirectory
    WITH Possible <- [id : 1..MaxId, name : Names, node : Nodes],
         running <- TRUE,
         entries <- {[id |-> s.id, name |-> s.name, node |-> s.node] : s \in services}
TableIsDirectory == Listing!Spec
================================================================================
