----------------------- MODULE ServiceRegistry_proofs -----------------------
(***************************************************************************)
(* Proofs about ServiceRegistry, for any number of callers, definitions,   *)
(* ports and faults: the types, that a port is leased once, that every     *)
(* listener can be stopped, and that a running server keeps names apart.   *)
(***************************************************************************)
EXTENDS ServiceRegistry, TLAPS

USE PortAssumption

NoneIsNew ==
    None \notin Requests /\ None \notin Nat /\ None \notin Service /\ None \notin Task

\* None is not a service id, number, service or task.
LEMMA NoneDistinct == NoneIsNew
BY NoneAssumption DEF NoneIsNew

\* The parts of TypeOK.
MapTypes ==
    /\ server \in {"up", "down"}
    /\ services \in [Requests -> Service \cup {None}]
    /\ stored \in [Requests -> Service \cup {None}]
    /\ tasks \in [Requests -> Task \cup {None}]
    /\ bound \in [Ports -> Requests \cup {None}]
    /\ dying \in SUBSET Ports
    /\ serial \in BOOLEAN
CallerTypes ==
    /\ pc \in [Ops -> OpStates]
    /\ sid \in [Ops -> Requests \cup {None}]
    /\ rec \in [Ops -> Service \cup {None}]
Locals(o) ==
    /\ pc[o] # "idle" => sid[o] # None
    /\ pc[o] \in {"put", "patch", "ingress", "bind", "task"} => rec[o] # None
    /\ pc[o] \in {"ingress", "bind", "task"} => rec[o].proto = "Tcp"
    /\ rec[o] # None /\ rec[o].proto = "Tcp" => rec[o].port # None
HasPorts(map) == \A s \in Requests : map[s] # None /\ map[s].proto = "Tcp" => map[s].port # None

\* TypeOK, now and in the next state, by its parts.
LEMMA TypeParts ==
    /\ TypeOK <=> /\ MapTypes /\ CallerTypes /\ \A o \in Ops : Locals(o)
                  /\ HasPorts(services) /\ HasPorts(stored)
    /\ TypeOK' <=> /\ MapTypes' /\ CallerTypes' /\ \A o \in Ops : Locals(o)'
                   /\ HasPorts(services') /\ HasPorts(stored')
BY DEF TypeOK, MapTypes, CallerTypes, Locals, HasPorts, Tcp, Live

\* The server starts well typed.
LEMMA InitTyped == Init => TypeOK
BY DEF Init, TypeOK, NoService, NoOp, OpStates, Tcp, Live

\* A caller that returns or goes on leaves the callers typed.
LEMMA CallerTyped ==
    ASSUME CallerTypes, \A q \in Ops : Locals(q), NEW o \in Ops,
           \/ Return(o)
           \/ \E p \in {"abort", "delete", "rollback"} : Proceed(o, p) /\ sid[o] # None
           \/ /\ pc[o] = "put" /\ rec[o].proto = "Tcp" /\ Proceed(o, "ingress")
           \/ pc[o] = "ingress" /\ Proceed(o, "bind")
           \/ pc[o] = "bind" /\ Proceed(o, "task")
    PROVE  CallerTypes' /\ \A q \in Ops : Locals(q)'
BY DEF CallerTypes, Locals, Return, Proceed, Goto, OpStates

\* The port of a registration: none for HTTP, else one in the range that no other
\* service has leased.
LEMMA PortChosen ==
    ASSUME NEW r \in Requests, NEW s \in Requests, NEW p \in PortChoice(r, s)
    PROVE  IF Definition[r].proto = "Tcp" THEN p \in Ports /\ ~Leased(p, s) ELSE p = None
BY DEF PortChoice, FreePorts

\* The definition a registration publishes is a service.
LEMMA PublishTyped ==
    ASSUME TypeOK, NEW o \in Ops, NEW r \in Requests, Publish(o, r) PROVE TypeOK'
<1>1. PICK s \in IdChoice(r) : \E p \in PortChoice(r, s) :
        LET service == [node |-> Definition[r].node, name |-> Definition[r].name,
                        proto |-> Definition[r].proto, port |-> p, meta |-> Definition[r].meta]
        IN services' = [services EXCEPT ![s] = service] /\ Enter(o, "put", s, service)
  BY DEF Publish
<1>2. s \in Requests
  BY DEF IdChoice, Previous, Live
<1>3. PICK p \in PortChoice(r, s) :
        LET service == [node |-> Definition[r].node, name |-> Definition[r].name,
                        proto |-> Definition[r].proto, port |-> p, meta |-> Definition[r].meta]
        IN services' = [services EXCEPT ![s] = service] /\ Enter(o, "put", s, service)
  BY <1>1
<1> DEFINE service == [node |-> Definition[r].node, name |-> Definition[r].name,
                       proto |-> Definition[r].proto, port |-> p, meta |-> Definition[r].meta]
<1>4. /\ service \in Service /\ service # None
      /\ service.proto = "Tcp" => service.port # None
  BY <1>2, <1>3, PortChosen, DefinitionAssumption, NoneDistinct
     DEF Service, Nodes, Names, Ports, NoneIsNew
<1>5. services' = [services EXCEPT ![s] = service] /\ Enter(o, "put", s, service)
  BY <1>3
<1> HIDE DEF service
<1>6. MapTypes' /\ HasPorts(services') /\ HasPorts(stored')
  BY <1>2, <1>4, <1>5, TypeParts DEF Publish, MapTypes, HasPorts, Enter
<1>7. CallerTypes' /\ \A q \in Ops : Locals(q)'
  BY <1>2, <1>4, <1>5, TypeParts, NoneDistinct DEF CallerTypes, Locals, Enter, Goto, OpStates, NoneIsNew
<1> QED BY <1>6, <1>7, TypeParts

\* Every other step of a caller keeps the types.
LEMMA CallerStepTyped ==
    ASSUME TypeOK, NEW o \in Ops,
           \/ PutService(o) \/ CheckIngress(o) \/ Bind(o) \/ InsertTask(o) \/ Rollback(o)
           \/ DeleteStored(o) \/ Unpublish(o) \/ StopIngress(o) \/ PutPatched(o) \/ Cancel(o)
    PROVE  TypeOK'
<1> USE NoneDistinct DEF NoneIsNew, memVars
<1>t. /\ MapTypes /\ CallerTypes /\ \A q \in Ops : Locals(q)
      /\ HasPorts(services) /\ HasPorts(stored)
  BY TypeParts
<1>o. /\ pc[o] # "idle" => sid[o] \in Requests
      /\ pc[o] \in {"put", "patch", "ingress", "bind", "task"} => rec[o] \in Service
      /\ pc[o] \in {"ingress", "bind", "task"} => rec[o].port \in Ports
      /\ rec[o] # None /\ rec[o].proto = "Tcp" => rec[o].port # None
  BY <1>t DEF CallerTypes, Locals, Service
<1>1. CASE PutService(o)
  <2>1. CallerTypes' /\ \A q \in Ops : Locals(q)'
    BY <1>1, <1>t, CallerTyped DEF PutService, AfterPut
  <2>2. MapTypes' /\ HasPorts(services') /\ HasPorts(stored')
    BY <1>1, <1>t, <1>o DEF PutService, MapTypes, HasPorts
  <2> QED BY <2>1, <2>2, TypeParts
<1>2. CASE CheckIngress(o)
  <2>1. CallerTypes' /\ \A q \in Ops : Locals(q)'
    BY <1>2, <1>t, CallerTyped DEF CheckIngress
  <2> QED BY <1>2, <1>t, <2>1, TypeParts DEF CheckIngress, MapTypes
<1>3. CASE Bind(o)
  <2>1. CallerTypes' /\ \A q \in Ops : Locals(q)'
    BY <1>3, <1>t, <1>o, CallerTyped DEF Bind
  <2> QED BY <1>3, <1>t, <1>o, <2>1, TypeParts DEF Bind, MapTypes
<1>4. CASE InsertTask(o)
  <2>1. CallerTypes' /\ \A q \in Ops : Locals(q)'
    BY <1>4, <1>t, CallerTyped DEF InsertTask
  <2> QED BY <1>4, <1>t, <1>o, <2>1, TypeParts DEF InsertTask, MapTypes, Aborted, Task
<1>5. CASE Rollback(o)
  <2>1. CallerTypes' /\ \A q \in Ops : Locals(q)'
    BY <1>5, <1>t, <1>o, CallerTyped DEF Rollback
  <2> QED BY <1>5, <1>t, <1>o, <2>1, TypeParts DEF Rollback, MapTypes, HasPorts
<1>6. CASE DeleteStored(o)
  <2>1. CallerTypes' /\ \A q \in Ops : Locals(q)'
    BY <1>6, <1>t, CallerTyped DEF DeleteStored
  <2> QED BY <1>6, <1>t, <1>o, <2>1, TypeParts DEF DeleteStored, MapTypes, HasPorts
<1>7. CASE Unpublish(o)
  <2>1. CallerTypes' /\ \A q \in Ops : Locals(q)'
    BY <1>7, <1>t, <1>o, CallerTyped DEF Unpublish
  <2> QED BY <1>7, <1>t, <1>o, <2>1, TypeParts DEF Unpublish, MapTypes, HasPorts
<1>8. CASE StopIngress(o)
  <2>1. CallerTypes' /\ \A q \in Ops : Locals(q)'
    BY <1>8, <1>t, <1>o, CallerTyped DEF StopIngress, AfterStop
  <2> QED BY <1>8, <1>t, <1>o, <2>1, TypeParts DEF StopIngress, MapTypes, Stopped, Aborted, Task
<1>9. CASE PutPatched(o)
  <2>1. CallerTypes' /\ \A q \in Ops : Locals(q)'
    BY <1>9, <1>t, CallerTyped DEF PutPatched
  <2> QED BY <1>9, <1>t, <1>o, <2>1, TypeParts DEF PutPatched, MapTypes, HasPorts
<1>10. CASE Cancel(o)
  <2>1. CallerTypes' /\ \A q \in Ops : Locals(q)'
    BY <1>10, <1>t, CallerTyped DEF Cancel
  <2> QED BY <1>10, <1>t, <2>1, TypeParts DEF Cancel, MapTypes
<1> QED
  BY <1>1, <1>2, <1>3, <1>4, <1>5, <1>6, <1>7, <1>8, <1>9, <1>10

\* So do the requests that take a service away or change its metadata.
LEMMA RequestTyped ==
    ASSUME TypeOK, NEW o \in Ops, NEW s \in Requests,
           \/ \E n \in Nodes : Unregister(o, s, n)
           \/ Delete(o, s)
           \/ \E m \in Metas : Patch(o, s, m)
    PROVE  TypeOK'
<1> USE NoneDistinct DEF NoneIsNew
<1>t. /\ MapTypes /\ CallerTypes /\ \A q \in Ops : Locals(q)
      /\ HasPorts(services) /\ HasPorts(stored)
  BY TypeParts
<1>1. CASE (\E n \in Nodes : Unregister(o, s, n)) \/ Delete(o, s)
  <2>1. PICK p \in {"unpublish", "abortFirst"} : Enter(o, p, s, None)
    BY <1>1 DEF Unregister, Delete
  <2>2. CallerTypes' /\ \A q \in Ops : Locals(q)'
    BY <1>t, <2>1 DEF CallerTypes, Locals, Enter, Goto, OpStates
  <2>3. MapTypes' /\ HasPorts(services') /\ HasPorts(stored')
    BY <1>1, <1>t, <2>1 DEF Unregister, Delete, Enter, MapTypes, HasPorts
  <2> QED BY <2>2, <2>3, TypeParts
<1>2. ASSUME NEW m \in Metas, Patch(o, s, m) PROVE TypeOK'
  <2> DEFINE patched == [services[s] EXCEPT !.meta = m]
  <2>1. /\ patched \in Service /\ patched # None
        /\ patched.proto = "Tcp" => patched.port # None
    BY <1>2, <1>t DEF Patch, MapTypes, HasPorts, Service
  <2>2. services' = [services EXCEPT ![s] = patched] /\ Enter(o, "patch", s, patched)
    BY <1>2, <1>t DEF Patch, MapTypes
  <2> HIDE DEF patched
  <2> QED
    BY <1>2, <1>t, <2>1, <2>2, TypeParts
       DEF Patch, Enter, Goto, MapTypes, CallerTypes, Locals, HasPorts, OpStates
<1> QED
  BY <1>1, <1>2

\* Every step keeps the types.
LEMMA NextTyped == TypeOK /\ [Next]_vars => TypeOK'
<1> SUFFICES ASSUME TypeOK, [Next]_vars PROVE TypeOK'
  OBVIOUS
<1>t. /\ MapTypes /\ CallerTypes /\ \A q \in Ops : Locals(q)
      /\ HasPorts(services) /\ HasPorts(stored)
  BY TypeParts
<1>1. ASSUME NEW s \in Requests, AcceptFails(s) PROVE TypeOK'
  <2>1. tasks[s] \in Task
    BY <1>1, <1>t DEF AcceptFails, MapTypes
  <2> QED
    BY <1>1, <1>t, <2>1, TypeParts DEF AcceptFails, MapTypes, CallerTypes, Locals, opVars, Task
<1>2. ASSUME NEW p \in Ports, Release(p) PROVE TypeOK'
  BY <1>2, <1>t, TypeParts DEF Release, MapTypes, CallerTypes, Locals, opVars
<1>3. CASE Crash
  BY <1>3, <1>t, TypeParts
     DEF Crash, MapTypes, CallerTypes, Locals, HasPorts, NoService, NoOp, OpStates
<1>4. CASE Start
  <2>1. /\ tasks' \in [Requests -> Task \cup {None}]
        /\ bound' \in [Ports -> Requests \cup {None}]
    BY <1>4, <1>t DEF Start, MapTypes, HasPorts, Restored, Tcp, Live, Task, Service
  <2> QED
    BY <1>4, <1>t, <2>1, TypeParts DEF Start, MapTypes, CallerTypes, Locals, opVars
<1>5. CASE UNCHANGED vars
  BY <1>5 DEF TypeOK, Tcp, Live, vars, memVars, opVars
<1> QED
  BY <1>1, <1>2, <1>3, <1>4, <1>5, PublishTyped, CallerStepTyped, RequestTyped
     DEF Next, Register, Retract, Change

\* Every reachable state is well typed.
THEOREM TypeCorrect == Spec => []TypeOK
BY InitTyped, NextTyped, PTL DEF Spec

--------------------------------------------------------------------------------
(* The services map *)

\* What the steps of the system do to the map in memory.
Published(r, s, p) ==
    /\ server = "up" /\ server' = "up"
    /\ ~NameTaken(r) /\ s \in IdChoice(r) /\ p \in PortChoice(r, s)
    /\ services' = [services EXCEPT ![s] =
           [node |-> Definition[r].node, name |-> Definition[r].name, proto |-> Definition[r].proto,
            port |-> p, meta |-> Definition[r].meta]]

\* A running server, or a caller that is at work on one, stays up.
Working == server' = server /\ (server = "up" \/ \E o \in Ops : pc[o] # "idle")

\* A step of the system publishes a service, takes one away, changes metadata,
\* loses the map, loads it from a store that can be restored, or leaves it alone.
LEMMA ServicesStep ==
    ASSUME TypeOK, [Next]_vars
    PROVE  \/ \E r, s \in Requests : \E p \in PortChoice(r, s) : Published(r, s, p)
           \/ \E s \in Requests : services' = [services EXCEPT ![s] = None] /\ Working
           \/ \E s \in Requests, m \in Metas :
                 /\ services[s] # None /\ services' = [services EXCEPT ![s].meta = m]
                 /\ server' = server
           \/ services' = NoService /\ server' = "down"
           \/ server = "down" /\ server' = "up" /\ services' = stored /\ PortsDistinct(stored)
           \/ services' = services /\ server' = server
<1>1. ASSUME NEW o \in Ops, NEW r \in Requests, Publish(o, r)
      PROVE  \E s \in Requests : \E p \in PortChoice(r, s) : Published(r, s, p)
  <2>1. \A s \in IdChoice(r) : s \in Requests
    BY DEF IdChoice, Previous, Live
  <2> QED BY <1>1, <2>1 DEF Publish, CanEnter, Published
<1>2. ASSUME NEW o \in Ops, Rollback(o)
      PROVE  \E s \in Requests : services' = [services EXCEPT ![s] = None] /\ Working
  BY <1>2 DEF Rollback, TypeOK, Working
<1> QED
  BY <1>1, <1>2
     DEF Next, Register, Retract, Change, PutService, CheckIngress, Bind, InsertTask, DeleteStored,
         Unregister, Unpublish, StopIngress, Delete, Patch, PutPatched, AcceptFails, Release, Crash, Start,
         Cancel, CanEnter, Working, vars, memVars

\* A public port is leased to one service at a time.
THEOREM PortsLeasedOnce == Spec => []PortLeaseUnique
<1>1. Init => PortLeaseUnique
  BY DEF Init, PortLeaseUnique, PortsDistinct, Tcp, Live, NoService
<1>2. TypeOK /\ PortLeaseUnique /\ [Next]_vars => PortLeaseUnique'
  <2> SUFFICES ASSUME TypeOK, PortLeaseUnique, [Next]_vars PROVE PortLeaseUnique'
    OBVIOUS
  <2> USE DEF PortLeaseUnique, PortsDistinct, Tcp, Live
  <2>t. services \in [Requests -> Service \cup {None}]
    BY DEF TypeOK
  <2>1. ASSUME NEW r \in Requests, NEW s \in Requests, NEW p \in PortChoice(r, s), Published(r, s, p)
        PROVE  PortLeaseUnique'
    BY <2>1, <2>t, PortChosen DEF Published, Leased
  <2>2. ASSUME NEW s \in Requests, services' = [services EXCEPT ![s] = None] PROVE PortLeaseUnique'
    BY <2>2, <2>t
  <2>3. ASSUME NEW s \in Requests, NEW m \in Metas, services[s] # None,
               services' = [services EXCEPT ![s].meta = m]
        PROVE  PortLeaseUnique'
    BY <2>3, <2>t DEF Service
  <2>4. CASE services' = NoService
    BY <2>4 DEF NoService
  <2>5. CASE services' = stored /\ PortsDistinct(stored)
    BY <2>5
  <2>6. CASE services' = services
    BY <2>6
  <2> QED BY <2>1, <2>2, <2>3, <2>4, <2>5, <2>6, ServicesStep
<1> QED
  BY <1>1, <1>2, TypeCorrect, PTL DEF Spec

\* A running server keeps the names of services distinct.
THEOREM NamesKept == Spec => NamesStayDistinct
<1>1. TypeOK /\ [Next]_vars
        => [server = "up" /\ NamesDistinct(services) => NamesDistinct(services')]_vars
  <2> SUFFICES ASSUME TypeOK, [Next]_vars, server = "up", NamesDistinct(services)
               PROVE  NamesDistinct(services')
    OBVIOUS
  <2> USE DEF NamesDistinct, Live
  <2>t. services \in [Requests -> Service \cup {None}]
    BY DEF TypeOK
  <2>1. ASSUME NEW r \in Requests, NEW s \in Requests, NEW p \in PortChoice(r, s), Published(r, s, p)
        PROVE  NamesDistinct(services')
    <3>1. \A t \in Requests \ {s} : services[t] # None => services[t].name # Definition[r].name
      BY <2>1 DEF Published, NameTaken, IdChoice, Previous
    <3> QED BY <2>1, <2>t, <3>1 DEF Published
  <2>2. ASSUME NEW s \in Requests, services' = [services EXCEPT ![s] = None]
        PROVE  NamesDistinct(services')
    BY <2>2, <2>t
  <2>3. ASSUME NEW s \in Requests, NEW m \in Metas, services[s] # None,
               services' = [services EXCEPT ![s].meta = m]
        PROVE  NamesDistinct(services')
    BY <2>3, <2>t DEF Service
  <2>4. CASE services' = NoService
    BY <2>4 DEF NoService
  <2>5. CASE services' = services
    BY <2>5
  <2> QED BY <2>1, <2>2, <2>3, <2>4, <2>5, ServicesStep
<1> QED
  BY <1>1, TypeCorrect, PTL DEF Spec, NamesStayDistinct

--------------------------------------------------------------------------------
(* The listeners *)

Tracked(p) ==
    bound[p] # None =>
        \/ p \in dying
        \/ tasks[bound[p]] = [port |-> p, alive |-> TRUE]
        \/ \E o \in Ops : pc[o] = "task" /\ sid[o] = bound[p] /\ rec[o].port = p

\* If no request is cancelled, every listening socket has a handle, is about to
\* get one, or is being dropped.
THEOREM ListenersKept ==
    ASSUME "cancel" \notin Faults PROVE Spec => []ListenersTracked
<1>0. ListenersTracked <=> \A p \in Ports : Tracked(p)
  BY DEF ListenersTracked, Tracked
<1>1. Init => ListenersTracked
  BY DEF Init, ListenersTracked
<1>2. TypeOK /\ ListenersTracked /\ [Next]_vars => ListenersTracked'
  <2> SUFFICES ASSUME TypeOK, ListenersTracked, [Next]_vars, NEW p \in Ports PROVE Tracked(p)'
    BY DEF ListenersTracked, Tracked
  <2> USE NoneDistinct DEF NoneIsNew
  <2>t. /\ tasks \in [Requests -> Task \cup {None}] /\ bound \in [Ports -> Requests \cup {None}]
        /\ pc \in [Ops -> OpStates] /\ sid \in [Ops -> Requests \cup {None}]
        /\ rec \in [Ops -> Service \cup {None}]
        /\ \A o \in Ops : pc[o] # "idle" => sid[o] \in Requests
        /\ \A o \in Ops : pc[o] = "bind" => rec[o].port \in Ports
    BY DEF TypeOK, Service
  <2>p. Tracked(p)
    BY DEF ListenersTracked, Tracked
  <2>1. ASSUME NEW o \in Ops, pc[o] # "task", pc'[o] # "task", UNCHANGED <<tasks, bound, dying>>,
               \A q \in Ops \ {o} : pc'[q] = pc[q] /\ sid'[q] = sid[q] /\ rec'[q] = rec[q]
        PROVE  Tracked(p)'
    BY <2>1, <2>p DEF Tracked
  <2>2. ASSUME NEW o \in Ops,
               \/ \E r \in Requests : Publish(o, r)
               \/ PutService(o) \/ CheckIngress(o) \/ Rollback(o) \/ DeleteStored(o) \/ Unpublish(o)
               \/ PutPatched(o)
               \/ \E s \in Requests, n \in Nodes : Unregister(o, s, n)
               \/ \E s \in Requests : Delete(o, s)
               \/ \E s \in Requests, m \in Metas : Patch(o, s, m)
        PROVE  Tracked(p)'
    BY <2>1, <2>2, <2>t
       DEF Publish, PutService, AfterPut, CheckIngress, Rollback, DeleteStored, Unpublish, PutPatched,
           Unregister, Delete, Patch, CanEnter, Enter, Return, Proceed, Goto, memVars
  <2>3. ASSUME NEW o \in Ops, Bind(o) PROVE Tracked(p)'
    BY <2>3, <2>t, <2>p DEF Bind, Proceed, Goto, Tracked
  <2>4. ASSUME NEW o \in Ops, InsertTask(o) PROVE Tracked(p)'
    <3>1. CASE bound[p] = sid[o]
      <4>t. [port |-> p, alive |-> TRUE] # None
        <5>1. [port |-> p, alive |-> TRUE] \in Task
          BY DEF Task
        <5> QED BY <5>1
      <4>0. /\ bound' = bound /\ tasks'[sid[o]] = [port |-> rec[o].port, alive |-> TRUE]
            /\ dying \subseteq dying'
            /\ tasks[sid[o]] = [port |-> p, alive |-> TRUE] => p \in dying'
        BY <2>4, <2>t, <4>t DEF InsertTask, Aborted
      <4>1. CASE p \in dying \/ tasks[sid[o]] = [port |-> p, alive |-> TRUE]
        BY <4>0, <4>1 DEF Tracked
      <4>2. ASSUME NEW q \in Ops, pc[q] = "task", sid[q] = bound[p], rec[q].port = p PROVE Tracked(p)'
        <5>1. CASE q = o
          BY <3>1, <4>0, <4>2, <5>1 DEF Tracked
        <5>2. CASE q # o
          BY <2>4, <2>t, <4>0, <4>2, <5>2 DEF InsertTask, Return, Goto, Tracked
        <5> QED BY <5>1, <5>2
      <4> QED BY <2>p, <3>1, <4>0, <4>1, <4>2 DEF Tracked
    <3>2. CASE bound[p] # sid[o]
      BY <2>4, <2>t, <2>p, <3>2 DEF InsertTask, Aborted, Return, Goto, Tracked
    <3> QED BY <3>1, <3>2
  <2>5. ASSUME NEW o \in Ops, StopIngress(o) PROVE Tracked(p)'
    BY <2>5, <2>t, <2>p DEF StopIngress, Stopped, Aborted, AfterStop, Return, Proceed, Goto, Tracked
  <2>6. ASSUME NEW s \in Requests, AcceptFails(s) PROVE Tracked(p)'
    BY <2>6, <2>t, <2>p DEF AcceptFails, Tracked, opVars
  <2>7. ASSUME NEW q \in Ports, Release(q) PROVE Tracked(p)'
    BY <2>7, <2>t, <2>p DEF Release, Tracked, opVars
  <2>8. CASE Crash
    BY <2>8 DEF Crash, Tracked
  <2>9. CASE Start
    <3>1. bound'[p] # None => bound'[p] \in Restored /\ stored[bound'[p]].port = p
      BY <2>9 DEF Start
    <3>2. Restored \subseteq Requests
      BY DEF Restored, Tcp, Live
    <3> QED BY <2>9, <3>1, <3>2 DEF Start, Tracked
  <2>10. CASE UNCHANGED vars
    BY <2>10, <2>p DEF Tracked, vars, memVars, opVars
  <2> QED
    BY <2>2, <2>3, <2>4, <2>5, <2>6, <2>7, <2>8, <2>9, <2>10 DEF Next, Register, Retract, Change, Cancel
<1> QED
  BY <1>1, <1>2, TypeCorrect, PTL DEF Spec

--------------------------------------------------------------------------------
(* Requests one at a time *)

\* What holds of the service of the request in hand, at each place of it.
Settled(s) == stored[s] = services[s]
Listening(s) == s \in Tcp(services) => tasks[s] # None
InHand(o) ==
    /\ \A s \in Requests \ {sid[o]} : Settled(s) /\ Listening(s)
    /\ pc[o] \in {"put", "patch"} => services[sid[o]] = rec[o]
    /\ pc[o] \in {"ingress", "bind", "task", "abort"} => Settled(sid[o])
    /\ pc[o] \in {"patch", "abort"} => Listening(sid[o])
    /\ pc[o] \in {"delete", "unpublish", "abortFirst", "abort"} => services[sid[o]] = None

\* As long as the run is serial: one request is in hand at most, memory, store and
\* listeners agree on every service but its own, and no task has ended by itself.
OneAtATime ==
    /\ \A o, q \in Ops : pc[o] # "idle" /\ pc[q] # "idle" => o = q
    /\ server = "down" => \A o \in Ops : pc[o] = "idle"
    /\ Quiet => \A s \in Requests : Settled(s) /\ Listening(s)
    /\ \A o \in Ops : pc[o] # "idle" => InHand(o)
    /\ \A s \in Requests : tasks[s] # None => tasks[s].alive
    /\ PortsDistinct(stored)
SerialInv == serial => OneAtATime

LEMMA SerialInit == Init => SerialInv
BY NoneDistinct DEF Init, SerialInv, OneAtATime, Quiet, Settled, Listening, NoService, NoOp,
   PortsDistinct, Tcp, Live, NoneIsNew

\* The store is the memory once the record of the only service that differs is put.
LEMMA PutSettles ==
    ASSUME TypeOK, OneAtATime, PortLeaseUnique, NEW o \in Ops, pc[o] \in {"put", "patch"},
           stored' = [stored EXCEPT ![sid[o]] = rec[o]], services' = services
    PROVE  /\ \A s \in Requests : Settled(s)'
           /\ PortsDistinct(stored')
<1>1. stored \in [Requests -> Service \cup {None}] /\ services \in [Requests -> Service \cup {None}]
  BY DEF TypeOK
<1>2. \A s \in Requests : stored'[s] = services[s]
  BY <1>1 DEF OneAtATime, InHand, Settled
<1>3. stored' = services
  BY <1>1, <1>2
<1> QED BY <1>2, <1>3 DEF Settled, PortLeaseUnique

\* A service that leaves the store leaves distinct ports.
LEMMA RemovalDistinct ==
    ASSUME TypeOK, PortsDistinct(stored), NEW s \in Requests,
           stored' = [stored EXCEPT ![s] = None]
    PROVE  PortsDistinct(stored')
BY DEF TypeOK, PortsDistinct, Tcp, Live

LEMMA SerialNext ==
    ASSUME TypeOK, PortLeaseUnique, SerialInv, [Next]_vars
    PROVE  SerialInv'
<1> SUFFICES ASSUME serial' PROVE OneAtATime'
  BY DEF SerialInv
<1> USE NoneDistinct DEF NoneIsNew, memVars, opVars
<1>t. /\ services \in [Requests -> Service \cup {None}]
      /\ stored \in [Requests -> Service \cup {None}]
      /\ tasks \in [Requests -> Task \cup {None}]
      /\ pc \in [Ops -> OpStates] /\ sid \in [Ops -> Requests \cup {None}]
      /\ rec \in [Ops -> Service \cup {None}]
      /\ \A o \in Ops : pc[o] # "idle" => sid[o] \in Requests
  BY DEF TypeOK
<1> DEFINE Leaves(o) == \A s \in Requests : s = sid[o] => Settled(s)' /\ Listening(s)'
\* A request begins: none was in hand, and it changes one service in memory.
<1>1. ASSUME NEW o \in Ops, NEW p \in {"put", "patch", "unpublish", "abortFirst"},
             NEW s \in Requests, NEW r \in Service \cup {None}, NEW v \in Service \cup {None},
             CanEnter(o), Enter(o, p, s, r), UNCHANGED <<server, tasks, stored>>,
             services' = [services EXCEPT ![s] = v],
             p \in {"put", "patch"} => v = r,
             p \in {"unpublish", "abortFirst"} => v = None,
             p = "patch" => services[s] # None /\ v.proto = services[s].proto
      PROVE  OneAtATime'
  <2>1. OneAtATime /\ \A q \in Ops : pc[q] = "idle"
    BY <1>1 DEF Enter, SerialInv
  <2>2. \A t \in Requests : Settled(t) /\ Listening(t)
    BY <1>1, <2>1 DEF OneAtATime, Quiet, CanEnter
  <2>3. \A t \in Requests \ {s} : (Settled(t) /\ Listening(t))'
    BY <1>1, <1>t, <2>2 DEF Settled, Listening, Tcp, Live
  <2>4. p = "patch" => Listening(s)'
    BY <1>1, <1>t, <2>2 DEF Listening, Tcp, Live
  <2>5. /\ pc'[o] = p /\ sid'[o] = s /\ rec'[o] = r /\ services'[s] = v
        /\ \A q \in Ops \ {o} : pc'[q] = "idle"
    BY <1>1, <1>t, <2>1 DEF Enter, Goto
  <2>6. InHand(o)'
    BY <1>1, <2>3, <2>4, <2>5 DEF InHand
  <2>7. ~Quiet' /\ server' = "up"
    BY <1>1, <2>5 DEF Quiet, CanEnter
  <2> QED BY <1>1, <2>1, <2>5, <2>6, <2>7 DEF OneAtATime
<1>2. ASSUME NEW o \in Ops, NEW r \in Requests, Publish(o, r)
      PROVE  OneAtATime'
  <2> DEFINE Stores(s, p) ==
         LET service == [node |-> Definition[r].node, name |-> Definition[r].name,
                         proto |-> Definition[r].proto, port |-> p,
                         meta |-> Definition[r].meta]
         IN services' = [services EXCEPT ![s] = service] /\ Enter(o, "put", s, service)
  <2>0. PICK s \in IdChoice(r) : \E p \in PortChoice(r, s) : Stores(s, p)
    BY <1>2 DEF Publish
  <2>1. PICK p \in PortChoice(r, s) : Stores(s, p)
    BY <2>0
  <2> DEFINE service == [node |-> Definition[r].node, name |-> Definition[r].name,
                         proto |-> Definition[r].proto, port |-> p, meta |-> Definition[r].meta]
  <2>2. s \in Requests
    BY DEF IdChoice, Previous, Live
  <2>3. service \in Service
    BY <2>2, PortChosen, DefinitionAssumption DEF Service, Nodes, Names, Ports
  <2>4. services' = [services EXCEPT ![s] = service] /\ Enter(o, "put", s, service)
    BY <2>1
  <2> HIDE DEF service
  <2>5. CanEnter(o) /\ UNCHANGED <<server, tasks, stored>>
    BY <1>2 DEF Publish
  <2> QED BY <1>1, <2>2, <2>3, <2>4, <2>5
<1>3. ASSUME NEW o \in Ops, NEW s \in Requests,
             (\E n \in Nodes : Unregister(o, s, n)) \/ Delete(o, s)
      PROVE  OneAtATime'
  <2>1. PICK p \in {"unpublish", "abortFirst"} : Enter(o, p, s, None)
    BY <1>3 DEF Unregister, Delete
  <2>2. /\ CanEnter(o) /\ UNCHANGED <<server, tasks, stored>>
        /\ services' = [services EXCEPT ![s] = None]
    BY <1>3 DEF Unregister, Delete
  <2> QED BY <1>1, <2>1, <2>2
<1>4. ASSUME NEW o \in Ops, NEW s \in Requests, NEW m \in Metas, Patch(o, s, m)
      PROVE  OneAtATime'
  <2> DEFINE patched == [services[s] EXCEPT !.meta = m]
  <2>1. services[s] \in Service /\ services[s] # None
    BY <1>4, <1>t DEF Patch
  <2>2. patched \in Service /\ patched.proto = services[s].proto
    BY <2>1 DEF Service
  <2>3. /\ CanEnter(o) /\ UNCHANGED <<server, tasks, stored>> /\ Enter(o, "patch", s, patched)
        /\ services' = [services EXCEPT ![s] = patched]
    BY <1>4, <1>t DEF Patch
  <2> HIDE DEF patched
  <2> QED BY <1>1, <2>1, <2>2, <2>3
\* The request in hand goes on, or returns when it leaves its service settled and
\* listening; nobody else is affected.
<1>5. ASSUME NEW o \in Ops, pc[o] # "idle", OneAtATime, server' = server,
             \A s \in Requests \ {sid[o]} :
                services'[s] = services[s] /\ stored'[s] = stored[s] /\ tasks'[s] = tasks[s],
             \A s \in Requests : tasks'[s] # None => tasks'[s].alive,
             PortsDistinct(stored'),
             \/ Return(o) /\ Leaves(o)
             \/ \E p \in OpStates \ {"idle"} : Proceed(o, p) /\ InHand(o)'
      PROVE  OneAtATime'
  <2>1. \A q \in Ops \ {o} : pc[q] = "idle" /\ pc'[q] = "idle"
    BY <1>5, <1>t DEF OneAtATime, Return, Proceed, Goto
  <2>2. server' = "up"
    BY <1>5 DEF OneAtATime, TypeOK
  <2>3. \A s \in Requests \ {sid[o]} : Settled(s)' /\ Listening(s)'
    BY <1>5 DEF OneAtATime, InHand, Settled, Listening, Tcp, Live
  <2>4. CASE Return(o) /\ Leaves(o)
    <3>1. pc'[o] = "idle"
      BY <1>t, <2>4 DEF Return, Goto
    <3>2. \A s \in Requests : Settled(s)' /\ Listening(s)'
      BY <2>3, <2>4
    <3> QED BY <1>5, <2>1, <2>2, <3>1, <3>2 DEF OneAtATime
  <2>5. ASSUME NEW p \in OpStates \ {"idle"}, Proceed(o, p), InHand(o)' PROVE OneAtATime'
    <3>1. pc'[o] = p /\ p # "idle"
      BY <1>t, <2>5 DEF Proceed, Goto
    <3>2. ~Quiet'
      BY <3>1 DEF Quiet
    <3> QED BY <1>5, <2>1, <2>2, <2>5, <3>1, <3>2 DEF OneAtATime
  <2> QED BY <1>5, <2>4, <2>5
<1>6. ASSUME NEW o \in Ops, PutService(o)
      PROVE  OneAtATime'
  <2>1. /\ pc[o] = "put" /\ stored' = [stored EXCEPT ![sid[o]] = rec[o]]
        /\ AfterPut(o) /\ OneAtATime /\ UNCHANGED memVars
    BY <1>6 DEF PutService, SerialInv
  <2>2. PortsDistinct(stored') /\ \A s \in Requests : Settled(s)'
    BY <2>1, PutSettles
  <2>3. CASE rec[o].proto = "Tcp"
    <3>1. Proceed(o, "ingress") /\ pc'[o] = "ingress" /\ sid'[o] = sid[o]
      BY <1>t, <2>1, <2>3 DEF AfterPut, Proceed, Goto
    <3>2. InHand(o)'
      BY <1>t, <2>1, <2>2, <3>1 DEF OneAtATime, InHand, Listening, Tcp, Live
    <3> QED BY <1>5, <1>t, <2>1, <2>2, <3>1, <3>2 DEF OneAtATime, OpStates
  <2>4. CASE rec[o].proto # "Tcp"
    <3>1. Return(o)
      BY <2>1, <2>4 DEF AfterPut
    <3>2. Leaves(o)
      BY <2>1, <2>2, <2>4 DEF OneAtATime, InHand, Listening, Tcp, Live
    <3> QED BY <1>5, <1>t, <2>1, <2>2, <3>1, <3>2 DEF OneAtATime
  <2> QED BY <2>3, <2>4
<1>7. ASSUME NEW o \in Ops, PutPatched(o)
      PROVE  OneAtATime'
  <2>1. /\ pc[o] = "patch" /\ stored' = [stored EXCEPT ![sid[o]] = rec[o]]
        /\ Return(o) /\ OneAtATime /\ UNCHANGED memVars
    BY <1>7 DEF PutPatched, SerialInv
  <2>2. PortsDistinct(stored') /\ \A s \in Requests : Settled(s)'
    BY <2>1, PutSettles
  <2>3. Leaves(o)
    BY <2>1, <2>2 DEF OneAtATime, InHand, Listening, Tcp, Live
  <2> QED BY <1>5, <1>t, <2>1, <2>2, <2>3 DEF OneAtATime
<1>8. ASSUME NEW o \in Ops, CheckIngress(o)
      PROVE  OneAtATime'
  <2>1. pc[o] = "ingress" /\ OneAtATime /\ UNCHANGED <<memVars, stored>>
    BY <1>8 DEF CheckIngress, SerialInv
  <2>2. InHand(o) /\ Settled(sid[o])
    BY <2>1 DEF OneAtATime, InHand
  <2>3. CASE tasks[sid[o]] # None
    <3>1. Return(o) /\ Leaves(o)
      BY <1>8, <2>1, <2>2, <2>3 DEF CheckIngress, Settled, Listening
    <3> QED BY <1>5, <2>1, <3>1 DEF OneAtATime
  <2>4. CASE tasks[sid[o]] = None
    <3>1. Proceed(o, "bind") /\ pc'[o] = "bind" /\ sid'[o] = sid[o]
      BY <1>8, <1>t, <2>1, <2>4 DEF CheckIngress, Proceed, Goto
    <3>2. InHand(o)'
      BY <2>1, <2>2, <3>1 DEF InHand, Settled, Listening, Tcp, Live
    <3> QED BY <1>5, <2>1, <3>1, <3>2 DEF OneAtATime, OpStates
  <2> QED BY <2>3, <2>4
<1>9. ASSUME NEW o \in Ops, Bind(o)
      PROVE  OneAtATime'
  <2>1. pc[o] = "bind" /\ OneAtATime /\ UNCHANGED <<server, services, tasks, stored>>
    BY <1>9 DEF Bind, SerialInv
  <2>2. InHand(o)
    BY <2>1 DEF OneAtATime
  <2>3. PICK p \in {"task", "rollback"} : Proceed(o, p)
    BY <1>9 DEF Bind
  <2>4. pc'[o] = p /\ sid'[o] = sid[o]
    BY <1>t, <2>3 DEF Proceed, Goto
  <2>5. InHand(o)'
    BY <2>1, <2>2, <2>4 DEF InHand, Settled, Listening, Tcp, Live
  <2> QED BY <1>5, <2>1, <2>3, <2>5 DEF OneAtATime, OpStates
<1>10. ASSUME NEW o \in Ops, InsertTask(o)
       PROVE  OneAtATime'
  <2>1. /\ pc[o] = "task" /\ OneAtATime /\ UNCHANGED <<server, services, stored>>
        /\ tasks' = [tasks EXCEPT ![sid[o]] = [port |-> rec[o].port, alive |-> TRUE]]
        /\ Return(o) /\ sid[o] \in Requests
    BY <1>10, <1>t DEF InsertTask, SerialInv
  <2>2. [port |-> rec[o].port, alive |-> TRUE] \in Task
    BY <2>1 DEF TypeOK, Task, Service
  <2>3. tasks'[sid[o]] # None /\ tasks'[sid[o]].alive
    BY <1>t, <2>1, <2>2
  <2>4. Leaves(o)
    BY <2>1, <2>3 DEF OneAtATime, InHand, Settled, Listening
  <2> QED BY <1>5, <1>t, <2>1, <2>3, <2>4 DEF OneAtATime
<1>11. ASSUME NEW o \in Ops, Rollback(o)
       PROVE  OneAtATime'
  <2>1. /\ pc[o] = "rollback" /\ OneAtATime /\ UNCHANGED <<server, tasks, stored>>
        /\ services' = [services EXCEPT ![sid[o]] = None]
        /\ Proceed(o, "delete") /\ sid[o] \in Requests
    BY <1>11, <1>t DEF Rollback, SerialInv
  <2>2. pc'[o] = "delete" /\ sid'[o] = sid[o]
    BY <1>t, <2>1 DEF Proceed, Goto
  <2>3. InHand(o)'
    BY <1>t, <2>1, <2>2 DEF OneAtATime, InHand, Settled, Listening, Tcp, Live
  <2> QED BY <1>5, <1>t, <2>1, <2>3 DEF OneAtATime, OpStates
<1>12. ASSUME NEW o \in Ops, DeleteStored(o) \/ Unpublish(o)
       PROVE  OneAtATime'
  <2>1. /\ pc[o] \in {"delete", "unpublish"} /\ OneAtATime /\ UNCHANGED memVars
        /\ stored' = [stored EXCEPT ![sid[o]] = None] /\ sid[o] \in Requests
        /\ Return(o) \/ Proceed(o, "abort")
    BY <1>12, <1>t DEF DeleteStored, Unpublish, SerialInv
  <2>2. services[sid[o]] = None /\ InHand(o)
    BY <2>1 DEF OneAtATime, InHand
  <2>3. Leaves(o) /\ PortsDistinct(stored')
    BY <1>t, <2>1, <2>2, RemovalDistinct DEF OneAtATime, Settled, Listening, Tcp, Live
  <2>4. CASE Return(o)
    BY <1>5, <1>t, <2>1, <2>3, <2>4 DEF OneAtATime
  <2>5. CASE Proceed(o, "abort")
    <3>1. pc'[o] = "abort" /\ sid'[o] = sid[o]
      BY <1>t, <2>5 DEF Proceed, Goto
    <3>2. InHand(o)'
      BY <1>t, <2>1, <2>2, <2>3, <3>1 DEF InHand, Settled, Listening, Tcp, Live
    <3> QED BY <1>5, <1>t, <2>1, <2>3, <2>5, <3>2 DEF OneAtATime, OpStates
  <2> QED BY <2>1, <2>4, <2>5
<1>13. ASSUME NEW o \in Ops, StopIngress(o)
       PROVE  OneAtATime'
  <2>1. /\ pc[o] \in {"abort", "abortFirst"} /\ OneAtATime /\ UNCHANGED <<server, services, stored>>
        /\ tasks' = [tasks EXCEPT ![sid[o]] = None] /\ sid[o] \in Requests
    BY <1>13, <1>t DEF StopIngress, SerialInv
  <2>2. services[sid[o]] = None /\ InHand(o)
    BY <2>1 DEF OneAtATime, InHand
  <2>3. \A s \in Requests : tasks'[s] # None => tasks'[s].alive
    BY <1>t, <2>1 DEF OneAtATime
  <2>4. CASE pc[o] = "abort"
    <3>1. Return(o) /\ Leaves(o)
      BY <1>13, <2>1, <2>2, <2>4 DEF StopIngress, AfterStop, InHand, Settled, Listening, Tcp, Live
    <3> QED BY <1>5, <1>t, <2>1, <2>3, <2>4, <3>1 DEF OneAtATime
  <2>5. CASE pc[o] = "abortFirst"
    <3>1. Proceed(o, "delete") /\ pc'[o] = "delete" /\ sid'[o] = sid[o]
      BY <1>13, <1>t, <2>5 DEF StopIngress, AfterStop, Proceed, Goto
    <3>2. InHand(o)'
      BY <1>t, <2>1, <2>2, <3>1 DEF InHand, Settled, Listening, Tcp, Live
    <3> QED BY <1>5, <1>t, <2>1, <2>3, <2>5, <3>1, <3>2 DEF OneAtATime, OpStates
  <2> QED BY <2>1, <2>4, <2>5
<1>14. CASE (\E o \in Ops : Cancel(o)) \/ (\E s \in Requests : AcceptFails(s))
  BY <1>14 DEF Cancel, AcceptFails
<1>15. ASSUME NEW p \in Ports, Release(p)
       PROVE  OneAtATime'
  BY <1>15 DEF Release, SerialInv, OneAtATime, Quiet, InHand, Settled, Listening, Tcp, Live
<1>16. CASE Crash
  BY <1>16 DEF Crash, SerialInv, OneAtATime, Quiet, NoService
<1>17. CASE Start
  <2>1. OneAtATime /\ \A o \in Ops : pc'[o] = "idle"
    BY <1>17 DEF Start, SerialInv, OneAtATime
  <2>2. \A s \in Requests :
          IF s \in Tcp(stored) THEN tasks'[s] = [port |-> stored[s].port, alive |-> TRUE]
                               ELSE tasks'[s] = None
    BY <1>17 DEF Start, Restored
  <2>3. \A s \in Tcp(stored) : [port |-> stored[s].port, alive |-> TRUE] \in Task
    BY <1>t DEF TypeOK, Tcp, Live, Service, Task
  <2>4. \A s \in Requests : Settled(s)' /\ Listening(s)'
    BY <1>17, <2>2, <2>3 DEF Start, Settled, Listening
  <2>5. \A s \in Requests : tasks'[s] # None => tasks'[s].alive
    <3> SUFFICES ASSUME NEW s \in Requests, tasks'[s] # None PROVE tasks'[s].alive
      OBVIOUS
    <3>1. tasks'[s] = [port |-> stored[s].port, alive |-> TRUE]
      BY <2>2
    <3> QED BY <3>1
  <2>6. server' = "up" /\ PortsDistinct(stored')
    BY <1>17, <2>1 DEF Start, OneAtATime
  <2> QED BY <2>1, <2>4, <2>5, <2>6 DEF OneAtATime
<1>18. CASE UNCHANGED vars
  BY <1>18 DEF vars, SerialInv, OneAtATime, Quiet, InHand, Settled, Listening, Tcp, Live
<1> QED
  BY <1>2, <1>3, <1>4, <1>6, <1>7, <1>8, <1>9, <1>10, <1>11, <1>12, <1>13, <1>14, <1>15,
     <1>16, <1>17, <1>18
  DEF Next, Register, Retract, Change

\* As long as requests come one at a time and only the whole server fails, at any
\* step: with no request in hand, store and memory agree and every TCP service has a
\* running task, and the store can be restored at any time.
LEMMA SerialAlways == Spec => []SerialInv
<1>1. Init => SerialInv
  BY SerialInit
<1>2. TypeOK /\ PortLeaseUnique /\ SerialInv /\ [Next]_vars => SerialInv'
  BY SerialNext
<1> QED BY <1>1, <1>2, TypeCorrect, PortsLeasedOnce, PTL DEF Spec

\* Store and memory agree (register_service, unregister_service, PATCH, DELETE).
THEOREM StoreAgrees == Spec => []StoreMirrorsMemory
<1>1. TypeOK /\ SerialInv => StoreMirrorsMemory
  BY DEF TypeOK, SerialInv, OneAtATime, Settled, StoreMirrorsMemory
<1> QED BY <1>1, TypeCorrect, SerialAlways, PTL

\* Every TCP service has a running task (ensure_tcp_ingress, its rollback, restore).
THEOREM PublishedListens == Spec => []LeasedServiceListens
<1>1. SerialInv => LeasedServiceListens
  BY DEF SerialInv, OneAtATime, Listening, LeasedServiceListens, Tcp, Live
<1> QED BY <1>1, SerialAlways, PTL

\* The store can be restored, whenever the server dies.
THEOREM StoreCanRestore == Spec => []SerialStoreRestores
<1>1. SerialInv => SerialStoreRestores
  BY DEF SerialInv, OneAtATime, SerialStoreRestores
<1> QED BY <1>1, SerialAlways, PTL

--------------------------------------------------------------------------------
(* The promise *)

\* An id stays with the name and the node it was drawn for, in memory, in the store
\* and in the clones on their way there; and nobody works on a server that is down.
DrawnFor(map) ==
    \A s \in Requests : map[s] # None =>
        map[s].name = Definition[s].name /\ map[s].node = Definition[s].node
ClonesDrawnFor ==
    \A o \in Ops : rec[o] # None =>
        rec[o].name = Definition[sid[o]].name /\ rec[o].node = Definition[sid[o]].node
IdsKept ==
    /\ DrawnFor(services) /\ DrawnFor(stored) /\ ClonesDrawnFor
    /\ server = "down" => \A o \in Ops : pc[o] = "idle"

\* The service of a request: the one that has its name on its node, or its own.
LEMMA ChosenIds ==
    ASSUME DrawnFor(services), NEW r \in Requests, NEW s \in IdChoice(r)
    PROVE  /\ s \in Requests
           /\ Definition[s].name = Definition[r].name /\ Definition[s].node = Definition[r].node
           /\ services[s] = None => s = r /\ Previous(r) = {}
BY DEF IdChoice, Previous, Live, DrawnFor

\* Whatever happens to the map in memory, ids stay with what they were drawn for.
LEMMA ServicesDrawnFor ==
    ASSUME TypeOK, IdsKept, [Next]_vars PROVE DrawnFor(services')
<1>t. services \in [Requests -> Service \cup {None}]
  BY DEF TypeOK
<1>1. ASSUME NEW r \in Requests, NEW s \in Requests, NEW p \in PortChoice(r, s), Published(r, s, p)
      PROVE  DrawnFor(services')
  BY <1>1, <1>t, ChosenIds DEF Published, IdsKept, DrawnFor
<1>2. ASSUME NEW s \in Requests, services' = [services EXCEPT ![s] = None]
      PROVE  DrawnFor(services')
  BY <1>2, <1>t DEF IdsKept, DrawnFor
<1>3. ASSUME NEW s \in Requests, NEW m \in Metas, services[s] # None,
             services' = [services EXCEPT ![s].meta = m]
      PROVE  DrawnFor(services')
  BY <1>3, <1>t DEF IdsKept, DrawnFor, Service
<1>4. CASE services' = NoService
  BY <1>4 DEF NoService, DrawnFor
<1>5. CASE services' = stored \/ services' = services
  BY <1>5 DEF IdsKept
<1> QED BY <1>1, <1>2, <1>3, <1>4, <1>5, ServicesStep

\* A step leaves the store alone, or stores a clone, or removes a service.
LEMMA StoredStep ==
    ASSUME TypeOK, [Next]_vars
    PROVE  \/ stored' = stored
           \/ \E s \in Requests : stored' = [stored EXCEPT ![s] = None]
           \/ \E o \in Ops : /\ sid[o] \in Requests /\ rec[o] # None
                             /\ stored' = [stored EXCEPT ![sid[o]] = rec[o]]
<1>1. \A o \in Ops : /\ pc[o] # "idle" => sid[o] \in Requests
                     /\ pc[o] \in {"put", "patch"} => rec[o] # None
  BY DEF TypeOK
<1> QED
  BY <1>1
     DEF Next, Register, Retract, Change, Publish, PutService, CheckIngress, Bind, InsertTask,
         Rollback, DeleteStored, Unregister, Unpublish, StopIngress, Delete, Patch, PutPatched,
         AcceptFails, Release, Crash, Start, Cancel, vars

\* A caller keeps its clone, drops it, or clones what it has put in the map.
LEMMA ClonesStep ==
    ASSUME TypeOK, [Next]_vars, NEW q \in Ops
    PROVE  \/ rec'[q] = rec[q] /\ sid'[q] = sid[q]
           \/ rec'[q] = None
           \/ sid'[q] \in Requests /\ rec'[q] = services'[sid'[q]]
<1>t. /\ services \in [Requests -> Service \cup {None}]
      /\ sid \in [Ops -> Requests \cup {None}] /\ rec \in [Ops -> Service \cup {None}]
  BY DEF TypeOK
<1> DEFINE Kept == \/ rec'[q] = rec[q] /\ sid'[q] = sid[q]
                   \/ rec'[q] = None
                   \/ sid'[q] \in Requests /\ rec'[q] = services'[sid'[q]]
<1> SUFFICES Kept
  OBVIOUS
<1>1. ASSUME NEW o \in Ops, NEW p, NEW s \in Requests, NEW r, Enter(o, p, s, r),
             r = None \/ services' = [services EXCEPT ![s] = r]
      PROVE  Kept
  BY <1>1, <1>t DEF Enter
<1>2. ASSUME NEW o \in Ops, Return(o) \/ UNCHANGED <<sid, rec>>
      PROVE  Kept
  BY <1>2, <1>t DEF Return
<1>3. ASSUME NEW o \in Ops, NEW r \in Requests, Publish(o, r)
      PROVE  Kept
  <2>1. \A s \in IdChoice(r) : s \in Requests
    BY DEF IdChoice, Previous, Live
  <2> HIDE DEF Kept
  <2> QED BY <1>1, <1>3, <2>1 DEF Publish
<1>4. ASSUME NEW o \in Ops, NEW s \in Requests, NEW m \in Metas, Patch(o, s, m)
      PROVE  Kept
  <2>1. services' = [services EXCEPT ![s] = [services[s] EXCEPT !.meta = m]]
    BY <1>4, <1>t DEF Patch
  <2> HIDE DEF Kept
  <2> QED BY <1>1, <1>4, <2>1 DEF Patch
<1>5. ASSUME NEW o \in Ops, NEW s \in Requests, (\E n \in Nodes : Unregister(o, s, n)) \/ Delete(o, s)
      PROVE  Kept
  BY <1>1, <1>5 DEF Unregister, Delete
<1>6. ASSUME NEW o \in Ops,
             \/ PutService(o) \/ CheckIngress(o) \/ Bind(o) \/ InsertTask(o) \/ Rollback(o)
             \/ DeleteStored(o) \/ Unpublish(o) \/ StopIngress(o) \/ PutPatched(o) \/ Cancel(o)
      PROVE  Kept
  <2>1. Return(o) \/ UNCHANGED <<sid, rec>>
    BY <1>6 DEF PutService, AfterPut, CheckIngress, Bind, InsertTask, Rollback, DeleteStored,
       Unpublish, StopIngress, AfterStop, PutPatched, Cancel, Proceed
  <2> QED BY <1>2, <2>1
<1>7. CASE Crash
  BY <1>7 DEF Crash, NoOp
<1>8. CASE (\E s \in Requests : AcceptFails(s)) \/ (\E p \in Ports : Release(p)) \/ Start
           \/ UNCHANGED vars
  BY <1>8 DEF AcceptFails, Release, Start, opVars, vars
<1> HIDE DEF Kept
<1> QED
  BY <1>3, <1>4, <1>5, <1>6, <1>7, <1>8 DEF Next, Register, Retract, Change

\* Callers are idle while the server is down: they enter a running one, and a crash
\* ends them.
LEMMA DownIdle ==
    ASSUME TypeOK, IdsKept, [Next]_vars, server' = "down", NEW q \in Ops
    PROVE  pc'[q] = "idle"
<1>1. CASE Crash
  BY <1>1 DEF Crash
<1>2. CASE ~Crash
  <2>1. server = "down" /\ UNCHANGED opVars
    BY <1>2
       DEF Next, Register, Retract, Change, Publish, PutService, CheckIngress, Bind, InsertTask,
           Rollback, DeleteStored, Unregister, Unpublish, StopIngress, Delete, Patch, PutPatched,
           AcceptFails, Release, Start, Cancel, CanEnter, IdsKept, vars, memVars
  <2> QED BY <2>1 DEF IdsKept, opVars
<1> QED BY <1>1, <1>2

\* The promise's inductive invariant.
LEMMA IdsKeptNext == TypeOK /\ IdsKept /\ [Next]_vars => IdsKept'
<1> SUFFICES ASSUME TypeOK, IdsKept, [Next]_vars PROVE IdsKept'
  OBVIOUS
<1>t. stored \in [Requests -> Service \cup {None}]
  BY DEF TypeOK
<1>1. DrawnFor(services')
  BY ServicesDrawnFor
<1>2. DrawnFor(stored')
  BY <1>t, StoredStep DEF IdsKept, DrawnFor, ClonesDrawnFor
<1>3. ClonesDrawnFor'
  BY <1>1, ClonesStep DEF IdsKept, DrawnFor, ClonesDrawnFor
<1>4. server' = "down" => \A o \in Ops : pc'[o] = "idle"
  BY DownIdle
<1> QED BY <1>1, <1>2, <1>3, <1>4 DEF IdsKept, DrawnFor

\* The directory lists the ids that are live, each with what it was drawn for.
LEMMA Listed ==
    ASSUME NEW map, DrawnFor(map)
    PROVE  {Entry(s, map[s]) : s \in Live(map)} = {Entry(s, Definition[s]) : s \in Live(map)}
BY DEF Entry, DrawnFor, Live

LEMMA DirectoryStep == TypeOK /\ IdsKept /\ [Next]_vars => [Directory!Next]_(Directory!vars)
<1> SUFFICES ASSUME TypeOK, IdsKept, [Next]_vars PROVE [Directory!Next]_(Directory!vars)
  OBVIOUS
<1> DEFINE listed == {Entry(s, services[s]) : s \in Live(services)}
           listedThen == {Entry(s, services'[s]) : s \in Live(services')}
           Own(s) == Entry(s, Definition[s])
<1>t. services \in [Requests -> Service \cup {None}] /\ server \in {"up", "down"}
  BY DEF TypeOK
<1>1. /\ listed = {Own(s) : s \in Live(services)}
      /\ listedThen = {Own(s) : s \in Live(services')}
  BY Listed, ServicesDrawnFor DEF IdsKept
<1>2. CASE Live(services') = Live(services) /\ server' = server
  BY <1>1, <1>2 DEF Directory!vars
<1>3. ASSUME NEW s \in Requests, services[s] = None, services' # services, server = "up", server' = "up",
             Live(services') = Live(services) \cup {s},
             \A t \in Live(services) : Own(t).name # Own(s).name
      PROVE  Directory!Publish(Own(s))
  <2>1. listedThen = listed \cup {Own(s)}
    BY <1>1, <1>3
  <2>2. \A f \in listed : f.id # Own(s).id /\ f.name # Own(s).name
    BY <1>1, <1>3 DEF Entry, Live
  <2> QED BY <1>3, <2>1, <2>2 DEF Directory!Publish
<1>4. ASSUME NEW r \in Requests, NEW s \in Requests, NEW p \in PortChoice(r, s), Published(r, s, p)
      PROVE  [Directory!Next]_(Directory!vars)
  <2>1. Live(services') = Live(services) \cup {s}
    <3>1. services'[s] \in Service
      BY <1>4, <1>t, PortChosen, DefinitionAssumption DEF Published, Service, Nodes, Names, Ports
    <3> QED BY <1>4, <1>t, <3>1, NoneDistinct DEF Published, Live, NoneIsNew
  <2>2. CASE services[s] = None
    <3>1. \A t \in Live(services) : Own(t).name # Own(s).name
      BY <1>4, <2>2, ChosenIds DEF Published, NameTaken, Previous, IdsKept, DrawnFor, Live, Entry
    <3>2. services' # services
      BY <2>1, <2>2 DEF Live
    <3>3. Directory!Publish(Own(s))
      BY <1>3, <1>4, <2>1, <2>2, <3>1, <3>2 DEF Published
    <3> QED BY <3>3 DEF Directory!Next
  <2>3. CASE services[s] # None
    BY <1>2, <1>4, <2>1, <2>3 DEF Live, Published
  <2> QED BY <2>2, <2>3
<1>5. ASSUME NEW s \in Requests, services' = [services EXCEPT ![s] = None], Working
      PROVE  [Directory!Next]_(Directory!vars)
  <2>1. Live(services') = Live(services) \ {s}
    BY <1>5, <1>t DEF Live
  <2>2. server = "up" /\ server' = "up"
    BY <1>5, <1>t DEF Working, IdsKept
  <2>3. listedThen = listed \ {Own(s)}
    BY <1>1, <2>1 DEF Entry
  <2>4. Directory!Withdraw(Own(s))
    BY <2>2, <2>3 DEF Directory!Withdraw
  <2> QED BY <2>4 DEF Directory!Next
<1>6. ASSUME NEW s \in Requests, NEW m \in Metas, services[s] # None,
             services' = [services EXCEPT ![s].meta = m], server' = server
      PROVE  [Directory!Next]_(Directory!vars)
  <2>1. services'[s] \in Service
    BY <1>6, <1>t DEF Service
  <2>2. Live(services') = Live(services)
    BY <1>6, <1>t, <2>1, NoneDistinct DEF Live, NoneIsNew
  <2> QED BY <1>2, <1>6, <2>2
<1>7. CASE services' = NoService /\ server' = "down"
  <2>1. Live(services') = {}
    BY <1>7 DEF NoService, Live
  <2>2. Directory!Crash
    BY <1>7, <2>1 DEF Directory!Crash
  <2> QED BY <2>2 DEF Directory!Next
<1>8. CASE server = "down" /\ server' = "up" /\ services' = stored
  <2>1. \A e \in listedThen : \E s \in Requests : e = Own(s) /\ e.id = s
    BY <1>1 DEF Live, Entry
  <2>2. Directory!Start
    BY <1>8, <2>1 DEF Directory!Start
  <2> QED BY <2>2 DEF Directory!Next
<1>9. CASE services' = services /\ server' = server
  BY <1>2, <1>9
<1> QED BY <1>4, <1>5, <1>6, <1>7, <1>8, <1>9, ServicesStep

\* Overlapping requests, faults, cancelled requests and restarts implement the
\* directory, for any callers, definitions and ports: a published name keeps its id
\* and node until it is withdrawn (register_service, unregister_service, DELETE).
THEOREM DirectoryImplemented == Spec => ImplementsDirectory
<1>1. Init => IdsKept
  BY DEF Init, IdsKept, DrawnFor, ClonesDrawnFor, NoService, NoOp
<1>2. Init => Directory!Init
  <2> SUFFICES ASSUME Init PROVE Directory!Init
    OBVIOUS
  <2>1. Live(services) = {} /\ server = "up"
    BY DEF Init, NoService, Live
  <2> QED BY <2>1 DEF Directory!Init
<1> QED
  BY <1>1, <1>2, InitTyped, NextTyped, IdsKeptNext, DirectoryStep, PTL
  DEF Spec, ImplementsDirectory, Directory!Spec
=============================================================================
