---------------------------- MODULE ServiceRegistry ----------------------------
(***************************************************************************)
(* The service registry of ongrok-relay-server: published services, their  *)
(* public TCP port leases, the listeners that serve those ports, and the   *)
(* store that lets all of it survive a restart.                            *)
(*                                                                         *)
(* register_service, unregister_service and the DELETE and PATCH handlers  *)
(* of the control API run concurrently, each on behalf of one caller.      *)
(* Each takes the services lock for its change to the memory map, drops    *)
(* it, and then goes to the store and to the ingress tasks.  An action     *)
(* here is one such critical section, one store transaction or one bind.   *)
(*                                                                         *)
(* A request stands for the ServiceId it carries: a client process draws   *)
(* one id and sends the same definition at every reconnect                 *)
(* (client main.rs:250), a POST draws a fresh one.                         *)
(***************************************************************************)
EXTENDS Naturals

CONSTANTS
    Ops,          \* callers: control connections and API requests
    Requests,     \* service ids, as drawn by the registration requests
    Definition,   \* what each of these asks for: node, name, proto, port
    Metas,        \* metadata values
    FirstPort, LastPort,  \* tcp_port_start, tcp_port_end
    Faults,       \* what may fail: "store", "bind", "accept", "crash", "cancel" (the
                  \* connection of an API request)
    None          \* no service, task, port or id

Ports == FirstPort..LastPort
Protos == {"Tcp", "Http"}      \* "Http" stands for Http and Https, on a relay with a domain

ASSUME PortAssumption == FirstPort \in Nat /\ LastPort \in Nat
ASSUME FaultAssumption == Faults \subseteq {"store", "bind", "accept", "crash", "cancel"}

\* ServiceDefinition, as far as the registry looks at it.
Nodes == {Definition[r].node : r \in Requests}
Names == {Definition[r].name : r \in Requests}
Service ==
    [node : Nodes, name : Names, proto : Protos, port : Ports \cup {None}, meta : Metas]
\* An ingress task: its port, and whether its accept loop still runs.
Task == [port : Ports, alive : BOOLEAN]

ASSUME DefinitionAssumption ==
    \A r \in Requests : /\ Definition[r].proto \in Protos
                        /\ Definition[r].port \in Nat \cup {None}
                        /\ Definition[r].meta \in Metas
ASSUME NoneAssumption == None \notin Requests \cup Nat \cup Service \cup Task

VARIABLES
    server,     \* "up" or "down"
    services,   \* id -> Service, in memory
    stored,     \* id -> Service, in the store
    tasks,      \* id -> Task: tcp_ingress_tasks
    bound,      \* port -> id whose listener has it
    dying,      \* ports whose listener is aborted and not yet dropped
    pc,         \* where a caller is
    sid,        \* the service id it works on
    rec,        \* its clone of the service, for the store
    serial      \* history: no two callers have overlapped, and nothing but the
                \* whole server has failed or been cancelled

memVars == <<server, services, tasks, bound, dying>>
opVars == <<pc, sid, rec>>
vars == <<memVars, stored, opVars, serial>>

OpStates == {"idle", "put", "ingress", "bind", "task", "rollback", "delete",
             "unpublish", "abort", "abortFirst", "patch"}

--------------------------------------------------------------------------------
(* Helpers *)

Live(map) == {s \in Requests : map[s] # None}
Tcp(map) == {s \in Live(map) : map[s].proto = "Tcp"}
Leases(map, s) == s \in Tcp(map) /\ map[s].port # None

Goto(o, p) == pc' = [pc EXCEPT ![o] = p]

CanEnter(o) == server = "up" /\ pc[o] = "idle"

\* A caller enters: the first step of its request.
Enter(o, p, s, r) ==
    /\ Goto(o, p)
    /\ sid' = [sid EXCEPT ![o] = s]
    /\ rec' = [rec EXCEPT ![o] = r]
    /\ serial' = (serial /\ \A q \in Ops : pc[q] = "idle")

\* It returns, with a response or an error.
Return(o) ==
    /\ Goto(o, "idle")
    /\ sid' = [sid EXCEPT ![o] = None]
    /\ rec' = [rec EXCEPT ![o] = None]

Proceed(o, p) == Goto(o, p) /\ UNCHANGED <<sid, rec>>

\* JoinHandle::abort: the listener is dropped when the runtime gets to it.
Aborted(t) == IF t # None /\ t.alive THEN dying \cup {t.port} ELSE dying

--------------------------------------------------------------------------------
(* register_service *)

\* A name belongs to one node.
MutantNameTaken(r) ==                          \* for services of one protocol
    \E s \in Live(services) : /\ services[s].name = Definition[r].name
                              /\ services[s].node # Definition[r].node
                              /\ services[s].proto = Definition[r].proto
NameTaken(r) ==
    \E s \in Live(services) : /\ services[s].name = Definition[r].name
                              /\ services[s].node # Definition[r].node

\* The same node publishes the name again: the id of the earlier service.
Previous(r) ==
    {s \in Live(services) : /\ services[s].name = Definition[r].name
                            /\ services[s].node = Definition[r].node}

MutantLeased(p, s) ==                          \* only ports that are listening count
    \E t \in Tcp(services) \ {s} : services[t].port = p /\ tasks[t] # None
Leased(p, s) == \E t \in Tcp(services) \ {s} : services[t].port = p

FreePorts == {p \in Ports : ~\E t \in Tcp(services) : services[t].port = p}

\* The ids that request r may go by: Previous is a singleton as long as names
\* are distinct.
MutantIdChoice(r) == {r}                       \* the earlier service is not looked up
IdChoice(r) == IF Previous(r) = {} THEN {r} ELSE Previous(r)

\* The port for request r as service s: the one s holds, else the one asked for,
\* else the first one free.  Empty: there is none, and the request is refused.
PortChoice(r, s) ==
    LET held == IF s \in Tcp(services) THEN services[s].port ELSE None
        asked == IF held # None THEN held ELSE Definition[r].port
        first == {p \in FreePorts : \A q \in FreePorts : p <= q}
    IN IF Definition[r].proto # "Tcp" THEN {None}
       ELSE {p \in IF asked = None THEN first ELSE {asked} \cap Ports : ~Leased(p, s)}

\* The critical section: everything up to the drop of the services lock.  A
\* request that is refused changes nothing.
Publish(o, r) ==
    /\ CanEnter(o) /\ ~NameTaken(r)
    /\ \E s \in IdChoice(r) : \E p \in PortChoice(r, s) :
         LET d == Definition[r]
             service == [node |-> d.node, name |-> d.name, proto |-> d.proto,
                         port |-> p, meta |-> d.meta]
         IN /\ services' = [services EXCEPT ![s] = service]
            /\ Enter(o, "put", s, service)
    /\ UNCHANGED <<server, tasks, bound, dying, stored>>

MutantAfterPut(o) == Proceed(o, "ingress")     \* for HTTP services too
AfterPut(o) == IF rec[o].proto = "Tcp" THEN Proceed(o, "ingress") ELSE Return(o)

\* store.put.  On an error the service stays in memory.
PutService(o) ==
    /\ pc[o] = "put"
    /\ \/ /\ stored' = [stored EXCEPT ![sid[o]] = rec[o]]
          /\ AfterPut(o) /\ UNCHANGED serial
       \/ "store" \in Faults /\ UNCHANGED stored /\ Return(o) /\ serial' = FALSE
    /\ UNCHANGED memVars

\* ensure_tcp_ingress: a task that is there already, on whatever port and in
\* whatever state, is good enough.
CheckIngress(o) ==
    /\ pc[o] = "ingress"
    /\ IF tasks[sid[o]] # None THEN Return(o) ELSE Proceed(o, "bind")
    /\ UNCHANGED <<memVars, stored, serial>>

Bind(o) ==
    LET p == rec[o].port IN
    /\ pc[o] = "bind"
    /\ \/ /\ bound[p] = None
          /\ bound' = [bound EXCEPT ![p] = sid[o]]
          /\ Proceed(o, "task") /\ UNCHANGED serial
       \/ /\ bound[p] # None
          /\ Proceed(o, "rollback") /\ UNCHANGED <<bound, serial>>
       \/ /\ "bind" \in Faults
          /\ Proceed(o, "rollback") /\ UNCHANGED bound /\ serial' = FALSE
    /\ UNCHANGED <<server, services, tasks, dying, stored>>

InsertTask(o) ==
    /\ pc[o] = "task"
    /\ tasks' = [tasks EXCEPT ![sid[o]] = [port |-> rec[o].port, alive |-> TRUE]]
    /\ dying' = Aborted(tasks[sid[o]])
    /\ Return(o)
    /\ UNCHANGED <<server, services, bound, stored, serial>>

MutantRollback(o) ==                           \* the store is not rolled back
    /\ pc[o] = "rollback"
    /\ services' = [services EXCEPT ![sid[o]] = None]
    /\ Return(o)
    /\ UNCHANGED <<server, tasks, bound, dying, stored, serial>>
Rollback(o) ==
    /\ pc[o] = "rollback"
    /\ services' = [services EXCEPT ![sid[o]] = None]
    /\ Proceed(o, "delete")
    /\ UNCHANGED <<server, tasks, bound, dying, stored, serial>>

\* store.delete, the last step of a rollback and of a DELETE.
DeleteStored(o) ==
    /\ pc[o] = "delete"
    /\ \/ stored' = [stored EXCEPT ![sid[o]] = None] /\ UNCHANGED serial
       \/ "store" \in Faults /\ UNCHANGED stored /\ serial' = FALSE
    /\ Return(o)
    /\ UNCHANGED memVars

--------------------------------------------------------------------------------
(* unregister_service, DELETE and PATCH *)

\* An UnregisterService frame of the node that owns the service.
Unregister(o, s, n) ==
    /\ CanEnter(o) /\ services[s] # None /\ services[s].node = n
    /\ services' = [services EXCEPT ![s] = None]
    /\ Enter(o, "unpublish", s, None)
    /\ UNCHANGED <<server, tasks, bound, dying, stored>>

\* A store error leaves before the listener is stopped.
Unpublish(o) ==
    /\ pc[o] = "unpublish"
    /\ \/ stored' = [stored EXCEPT ![sid[o]] = None] /\ Proceed(o, "abort") /\ UNCHANGED serial
       \/ "store" \in Faults /\ UNCHANGED stored /\ Return(o) /\ serial' = FALSE
    /\ UNCHANGED memVars

\* The ingress task leaves the map and is aborted: last in unregister_service,
\* before the store in DELETE.
MutantAfterStop(o) == Return(o)                \* DELETE leaves the store alone
AfterStop(o) == IF pc[o] = "abort" THEN Return(o) ELSE Proceed(o, "delete")

MutantStopped(t) == dying                      \* the handle is dropped, not aborted
Stopped(t) == Aborted(t)
StopIngress(o) ==
    /\ pc[o] \in {"abort", "abortFirst"}
    /\ tasks' = [tasks EXCEPT ![sid[o]] = None]
    /\ dying' = Stopped(tasks[sid[o]])
    /\ AfterStop(o)
    /\ UNCHANGED <<server, services, bound, stored, serial>>

Delete(o, s) ==
    /\ CanEnter(o) /\ services[s] # None
    /\ services' = [services EXCEPT ![s] = None]
    /\ Enter(o, "abortFirst", s, None)
    /\ UNCHANGED <<server, tasks, bound, dying, stored>>

\* PATCH replaces the metadata in memory and stores the clone it took.
Patch(o, s, m) ==
    /\ CanEnter(o) /\ services[s] # None
    /\ services' = [services EXCEPT ![s].meta = m]
    /\ Enter(o, "patch", s, [services[s] EXCEPT !.meta = m])
    /\ UNCHANGED <<server, tasks, bound, dying, stored>>

PutPatched(o) ==
    /\ pc[o] = "patch"
    /\ \/ stored' = [stored EXCEPT ![sid[o]] = rec[o]] /\ UNCHANGED serial
       \/ "store" \in Faults /\ UNCHANGED stored /\ serial' = FALSE
    /\ Return(o)
    /\ UNCHANGED memVars

\* The caller of an API request goes away and hyper drops the request where it
\* waits for a lock.  A listener that was bound keeps running without a handle.
Cancel(o) ==
    /\ "cancel" \in Faults
    /\ pc[o] \in {"ingress", "task", "rollback", "abortFirst"}
    /\ Return(o) /\ serial' = FALSE
    /\ UNCHANGED <<memVars, stored>>

--------------------------------------------------------------------------------
(* The listeners *)

\* accept fails and the task's loop ends; its handle stays in the map.
AcceptFails(s) ==
    /\ "accept" \in Faults
    /\ tasks[s] # None /\ tasks[s].alive
    /\ tasks' = [tasks EXCEPT ![s].alive = FALSE]
    /\ bound' = [bound EXCEPT ![tasks[s].port] = None]
    /\ serial' = FALSE
    /\ UNCHANGED <<server, services, dying, stored, opVars>>

\* The runtime drops an aborted task and its listener.
Release(p) ==
    /\ p \in dying
    /\ bound' = [bound EXCEPT ![p] = None]
    /\ dying' = dying \ {p}
    /\ UNCHANGED <<server, services, tasks, stored, opVars, serial>>

--------------------------------------------------------------------------------
(* Crash and restart *)

NoService == [s \in Requests |-> None]
NoOp == [o \in Ops |-> None]

Crash ==
    /\ "crash" \in Faults /\ server = "up"
    /\ server' = "down"
    /\ services' = NoService /\ tasks' = NoService
    /\ bound' = [p \in Ports |-> None] /\ dying' = {}
    /\ pc' = [o \in Ops |-> "idle"] /\ sid' = NoOp /\ rec' = NoOp
    /\ UNCHANGED <<stored, serial>>

\* No two TCP services of a map hold the same port.
PortsDistinct(map) ==
    \A s, t \in Tcp(map) : s # t => map[s].port # map[t].port

MutantRestored == {}                           \* no listener is restored
Restored == Tcp(stored)

\* run_cli loads the stored services and run binds the port of every TCP
\* service among them.  If one bind fails the server does not start.
Start ==
    /\ server = "down" /\ PortsDistinct(stored)
    /\ server' = "up"
    /\ services' = stored
    /\ tasks' = [s \in Requests |->
                   IF s \in Restored THEN [port |-> stored[s].port, alive |-> TRUE] ELSE None]
    /\ bound' = [p \in Ports |->
                   IF \E s \in Restored : stored[s].port = p
                     THEN CHOOSE s \in Restored : stored[s].port = p ELSE None]
    /\ UNCHANGED <<dying, stored, opVars, serial>>

Init ==
    /\ server = "up"
    /\ services = NoService /\ stored = NoService /\ tasks = NoService
    /\ bound = [p \in Ports |-> None] /\ dying = {}
    /\ pc = [o \in Ops |-> "idle"] /\ sid = NoOp /\ rec = NoOp
    /\ serial = TRUE

Register(o) ==
    \/ \E r \in Requests : Publish(o, r)
    \/ PutService(o) \/ CheckIngress(o) \/ Bind(o) \/ InsertTask(o)
    \/ Rollback(o) \/ DeleteStored(o)

Retract(o) ==
    \/ \E s \in Requests, n \in Nodes : Unregister(o, s, n)
    \/ \E s \in Requests : Delete(o, s)
    \/ Unpublish(o) \/ StopIngress(o)

Change(o) ==
    \/ \E s \in Requests, m \in Metas : Patch(o, s, m)
    \/ PutPatched(o)

Next ==
    \/ \E o \in Ops : Register(o) \/ Retract(o) \/ Change(o) \/ Cancel(o)
    \/ \E s \in Requests : AcceptFails(s)
    \/ \E p \in Ports : Release(p)
    \/ Crash \/ Start

Spec == Init /\ [][Next]_vars

--------------------------------------------------------------------------------
(* Properties *)

Quiet == server = "up" /\ \A o \in Ops : pc[o] = "idle"

\* The types, and that whoever works on a service knows which.
TypeOK ==
    /\ server \in {"up", "down"}
    /\ services \in [Requests -> Service \cup {None}]
    /\ stored \in [Requests -> Service \cup {None}]
    /\ tasks \in [Requests -> Task \cup {None}]
    /\ bound \in [Ports -> Requests \cup {None}]
    /\ dying \in SUBSET Ports
    /\ pc \in [Ops -> OpStates]
    /\ sid \in [Ops -> Requests \cup {None}]
    /\ rec \in [Ops -> Service \cup {None}]
    /\ serial \in BOOLEAN
    /\ \A o \in Ops :
         /\ pc[o] # "idle" => sid[o] # None
         /\ pc[o] \in {"put", "patch", "ingress", "bind", "task"} => rec[o] # None
         /\ pc[o] \in {"ingress", "bind", "task"} => rec[o].proto = "Tcp"
    /\ \A s \in Tcp(services) : services[s].port # None
    /\ \A s \in Tcp(stored) : stored[s].port # None
    /\ \A o \in Ops : rec[o] # None /\ rec[o].proto = "Tcp" => rec[o].port # None

\* A public port is leased to one service at a time, whatever registrations,
\* rollbacks, deletions, patches, store errors and restarts overlap
\* (register_service; techspec.md:209, design.md:54).
PortLeaseUnique == PortsDistinct(services)

\* Unless a request is cancelled, every listening socket can be stopped: it is the
\* one a live handle names, or it is about to get its handle, or it is being
\* dropped (ensure_tcp_ingress against unregister_service and DELETE).
ListenersTracked ==
    \A p \in Ports : bound[p] # None =>
        LET s == bound[p] IN
        \/ p \in dying
        \/ tasks[s] = [port |-> p, alive |-> TRUE]
        \/ \E o \in Ops : pc[o] = "task" /\ sid[o] = s /\ rec[o].port = p

\* A name identifies one service: no step of a running server gives two
\* services the same name (register_service reuses the id or refuses).
NamesDistinct(map) == \A s, t \in Live(map) : s # t => map[s].name # map[t].name
NamesStayDistinct ==
    [][server = "up" /\ NamesDistinct(services) => NamesDistinct(services')]_vars

\* As long as requests come one at a time and the store and the network do not
\* fail, store and memory agree whenever no request is in hand, crashes at any
\* step included (register_service, unregister_service, PATCH, DELETE).
StoreMirrorsMemory == serial /\ Quiet => stored = services

\* Under the same conditions, every TCP service that is published has a running
\* ingress task (ensure_tcp_ingress and its rollback, the restore at startup).
LeasedServiceListens ==
    serial /\ Quiet => \A s \in Tcp(services) : tasks[s] # None /\ tasks[s].alive

\* Under the same conditions, a stored set of services can be restored.
SerialStoreRestores == serial => PortsDistinct(stored)

\* "TCP leases survive a server restart, so their public listeners must be
\* restored" (server.rs:158): with no request in hand, what is in the store can
\* be restored.  Otherwise the next start fails, and every one after it.
StoreRestores == Quiet => PortsDistinct(stored)

--------------------------------------------------------------------------------
(* The promise *)

\* A service as the directory lists it: what a registration settles for good.
Entry(s, service) == [id |-> s, name |-> service.name, node |-> service.node]

\* Callers that overlap, rollbacks, deletions, faults, cancelled requests and restarts
\* together implement ServiceDirectory, in which publishing and withdrawing are one
\* step each: a published name keeps its id and node, and what a server that comes
\* back lists under an id is what that id was drawn for (register_service,
\* unregister_service, DELETE, the load at startup).
Directory == INSTANCE ServiceDirectory
    WITH Possible <- {Entry(r, Definition[r]) : r \in Requests},
         running <- server = "up",
         entries <- {Entry(s, services[s]) : s \in Live(services)}
ImplementsDirectory == Directory!Spec
================================================================================
