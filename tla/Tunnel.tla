--------------------------------- MODULE Tunnel ---------------------------------
(***************************************************************************)
(* One public TCP connection on its way through the relay: the server task *)
(* that forwards it (forward_tcp_connection, open_client_stream), the      *)
(* client task that serves it (handle_data_stream), and the data stream    *)
(* between them, over QUIC or Yamux.                                       *)
(*                                                                         *)
(* Each task has a socket on its outer side, the server the visitor's and  *)
(* the client the local target's.  After the handshake it copies from its  *)
(* socket to the stream and from the stream to its socket, concurrently.   *)
(* It ends when both copies have, or drops everything at the first error.  *)
(***************************************************************************)
EXTENDS Naturals, Sequences

CONSTANTS
    Bytes,       \* what a unit of data can be
    MaxSent,     \* how much an endpoint writes at most
    Window       \* how much a stream holds

ASSUME BoundAssumption == MaxSent \in Nat /\ Window \in Nat \ {0}

Tasks == {"server", "client"}
Dirs == {"up", "down"}                 \* from the visitor to the target, and back

\* A task reads direction Out from its socket and direction In from the stream.
Out(t) == IF t = "server" THEN "up" ELSE "down"
In(t) == IF t = "server" THEN "down" ELSE "up"

VARIABLES
    pc,        \* where a task is
    src,       \* direction -> data in the socket it comes from
    frame,     \* direction -> the frame at the head of the stream, unread
    wire,      \* direction -> data in the stream, behind that frame
    shut,      \* direction -> its writer has shut the stream down, or is gone
    stopped,   \* direction -> its reader is gone
    reset,     \* task -> the peer of its socket has reset the connection
    lost,      \* the session that carries the stream is lost
    refused,   \* history: the set-up has failed
    sent, got, \* direction -> what its endpoints have written and read
    fin, eof   \* direction -> one has closed it, the other has seen its end

ends == <<sent, got, fin, eof>>
faults == <<reset, lost, refused>>
stream == <<frame, wire, shut, stopped>>
vars == <<pc, src, stream, ends, faults>>

Places == {"lookup", "open", "ack", "frame", "connect", "copy", "done"}
Frames == {"none", "OpenStream", "Ack", "Error"}

Goto(t, p) == pc' = [pc EXCEPT ![t] = p]

--------------------------------------------------------------------------------
(* Errors *)

\* A task returns early and drops its half of the stream: the peer reads what is
\* in flight and then the end, and its writes fail.
DropStream(t) ==
    /\ Goto(t, "done")
    /\ shut' = [shut EXCEPT ![Out(t)] = TRUE]
    /\ stopped' = [stopped EXCEPT ![In(t)] = TRUE]
    /\ UNCHANGED wire

\* With the stream the task drops its socket, whose peer sees the end.
Drop(t) ==
    /\ DropStream(t)
    /\ eof' = [eof EXCEPT ![In(t)] = TRUE]
    /\ UNCHANGED <<sent, got, fin>>

Refused == refused' = TRUE /\ UNCHANGED <<reset, lost>>

--------------------------------------------------------------------------------
(* The server opens the stream *)

\* Both maps are looked at, and their locks released, before the stream is
\* opened: what they say may have changed by then.
Lookup ==
    /\ pc["server"] = "lookup"
    /\ Goto("server", "open")
    /\ UNCHANGED <<src, stream, ends, faults>>

MutantOpen ==                                  \* the acknowledgement is not waited for
    /\ pc["server"] = "open" /\ ~lost
    /\ Goto("server", "copy")
    /\ frame' = [frame EXCEPT !["up"] = "OpenStream"]
    /\ UNCHANGED <<src, wire, shut, stopped, ends, faults>>
Open ==
    /\ pc["server"] = "open" /\ ~lost
    /\ Goto("server", "ack")
    /\ frame' = [frame EXCEPT !["up"] = "OpenStream"]
    /\ UNCHANGED <<src, wire, shut, stopped, ends, faults>>

\* The service is gone, its node is offline, or 10 s are up, for the opening or
\* for the acknowledgement, which may be on its way.
Refuse ==
    /\ pc["server"] \in {"lookup", "open", "ack"}
    /\ Drop("server") /\ Refused
    /\ UNCHANGED <<src, frame>>

MutantReadAck ==                               \* the reader takes more than the frame
    /\ pc["server"] = "ack" /\ frame["down"] = "Ack"
    /\ Goto("server", "copy")
    /\ frame' = [frame EXCEPT !["down"] = "none"]
    /\ wire' = [wire EXCEPT !["down"] = <<>>]
    /\ UNCHANGED <<src, shut, stopped, ends, faults>>
ReadAck ==
    /\ pc["server"] = "ack" /\ frame["down"] = "Ack"
    /\ Goto("server", "copy")
    /\ frame' = [frame EXCEPT !["down"] = "none"]
    /\ UNCHANGED <<src, wire, shut, stopped, ends, faults>>

\* The stream cannot be opened, or an Error frame or the end of the stream comes
\* in place of the acknowledgement.
NoAck ==
    /\ \/ pc["server"] = "open" /\ lost
       \/ pc["server"] = "ack" /\ frame["down"] = "Error"
       \/ pc["server"] = "ack" /\ frame["down"] = "none" /\ (shut["down"] \/ lost)
    /\ Drop("server")
    /\ UNCHANGED <<src, frame, faults>>

--------------------------------------------------------------------------------
(* The client takes it *)

\* The first frame names a service that the client has published.
ReadOpen ==
    /\ pc["client"] = "frame" /\ frame["up"] = "OpenStream"
    /\ frame' = [frame EXCEPT !["up"] = "none"]
    /\ Goto("client", "connect")
    /\ UNCHANGED <<src, wire, shut, stopped, ends, faults>>

\* It names another one, and the stream is dropped without an answer.
UnknownService ==
    /\ pc["client"] = "frame" /\ frame["up"] = "OpenStream"
    /\ frame' = [frame EXCEPT !["up"] = "none"]
    /\ DropStream("client") /\ Refused
    /\ UNCHANGED <<src, ends>>

\* No frame comes, or the acknowledgement cannot be written.
NoStream ==
    /\ \/ pc["client"] = "frame" /\ frame["up"] = "none" /\ (shut["up"] \/ lost)
       \/ pc["client"] = "connect" /\ (stopped["down"] \/ lost)
    /\ DropStream("client")
    /\ UNCHANGED <<src, frame, ends, faults>>

\* A server that has given up may not be noticed yet.
Connected ==
    /\ pc["client"] = "connect" /\ ~lost
    /\ frame' = [frame EXCEPT !["down"] = "Ack"]
    /\ Goto("client", "copy")
    /\ UNCHANGED <<src, wire, shut, stopped, ends, faults>>

\* The target refuses, or does not answer for 10 s.
ConnectFails ==
    /\ pc["client"] = "connect"
    /\ frame' = [frame EXCEPT !["down"] = "Error"]
    /\ DropStream("client") /\ Refused
    /\ UNCHANGED <<src, ends>>

--------------------------------------------------------------------------------
(* Both copy *)

\* One unit from the socket into the stream, if there is room.
MutantCopyOut(t) ==                            \* however full the stream is
    LET d == Out(t) IN
    /\ pc[t] = "copy" /\ ~lost /\ ~reset[t]
    /\ ~shut[d] /\ ~stopped[d] /\ src[d] # <<>>
    /\ src' = [src EXCEPT ![d] = Tail(@)]
    /\ wire' = [wire EXCEPT ![d] = Append(@, Head(src[d]))]
    /\ UNCHANGED <<pc, frame, shut, stopped, ends, faults>>
CopyOut(t) ==
    LET d == Out(t) IN
    /\ pc[t] = "copy" /\ ~lost /\ ~reset[t]
    /\ ~shut[d] /\ ~stopped[d]
    /\ src[d] # <<>> /\ Len(wire[d]) < Window
    /\ src' = [src EXCEPT ![d] = Tail(@)]
    /\ wire' = [wire EXCEPT ![d] = Append(@, Head(src[d]))]
    /\ UNCHANGED <<pc, frame, shut, stopped, ends, faults>>

\* The socket is at its end: the copy ends, and the stream is shut down.
ShutOut(t) ==
    LET d == Out(t) IN
    /\ pc[t] = "copy" /\ ~lost /\ ~reset[t]
    /\ ~shut[d] /\ src[d] = <<>> /\ fin[d]
    /\ shut' = [shut EXCEPT ![d] = TRUE]
    /\ UNCHANGED <<pc, src, frame, wire, stopped, ends, faults>>

\* One unit from the stream into the socket.
CopyIn(t) ==
    LET d == In(t) IN
    /\ pc[t] = "copy" /\ ~lost /\ ~reset[t]
    /\ ~eof[d] /\ wire[d] # <<>>
    /\ wire' = [wire EXCEPT ![d] = Tail(@)]
    /\ got' = [got EXCEPT ![d] = Append(@, Head(wire[d]))]
    /\ UNCHANGED <<pc, src, frame, shut, stopped, sent, fin, eof, faults>>

\* The stream is at its end, and so is the sending side of the socket.
ShutIn(t) ==
    LET d == In(t) IN
    /\ pc[t] = "copy" /\ ~lost /\ ~reset[t]
    /\ ~eof[d] /\ wire[d] = <<>> /\ shut[d]
    /\ eof' = [eof EXCEPT ![d] = TRUE]
    /\ UNCHANGED <<pc, src, stream, sent, got, fin, faults>>

\* try_join: both copies have ended.
Joined(t) == shut[Out(t)] /\ eof[In(t)]
MutantFinish(t) ==                             \* one copy is enough, the other is dropped
    /\ pc[t] = "copy" /\ (shut[Out(t)] \/ eof[In(t)])
    /\ Drop(t)
    /\ UNCHANGED <<src, frame, faults>>
Finish(t) ==
    /\ pc[t] = "copy" /\ Joined(t)
    /\ Goto(t, "done")
    /\ UNCHANGED <<src, stream, ends, faults>>

MutantFails(t) ==                              \* a stream nobody reads is written to
    /\ pc[t] = "copy" /\ (lost \/ reset[t])
    /\ Drop(t)
    /\ UNCHANGED <<src, frame, faults>>
\* A read or a write fails: the other copy is dropped with whatever it holds.
Fails(t) ==
    /\ pc[t] = "copy"
    /\ \/ lost
       \/ reset[t]
       \/ stopped[Out(t)] /\ ~shut[Out(t)] /\ (src[Out(t)] # <<>> \/ fin[Out(t)])
    /\ Drop(t)
    /\ UNCHANGED <<src, frame, faults>>

Server == Lookup \/ Open \/ ReadAck \/ NoAck
Client == ReadOpen \/ NoStream \/ Connected
Copy(t) == CopyOut(t) \/ ShutOut(t) \/ CopyIn(t) \/ ShutIn(t) \/ Finish(t) \/ Fails(t)

--------------------------------------------------------------------------------
(* The endpoints and the network *)

\* The target is there from the time the client has connected to it.
Present(t) == t = "server" \/ pc["client"] = "copy"

EndpointSends(t, b) ==
    LET d == Out(t) IN
    /\ Present(t) /\ pc[t] # "done" /\ ~reset[t]
    /\ ~fin[d] /\ Len(sent[d]) < MaxSent
    /\ sent' = [sent EXCEPT ![d] = Append(@, b)]
    /\ src' = [src EXCEPT ![d] = Append(@, b)]
    /\ UNCHANGED <<pc, stream, got, fin, eof, faults>>

EndpointCloses(t) ==
    LET d == Out(t) IN
    /\ ~fin[d] /\ (Present(t) \/ eof[In(t)])
    /\ fin' = [fin EXCEPT ![d] = TRUE]
    /\ UNCHANGED <<pc, src, stream, sent, got, eof, faults>>

\* Or it closes both directions at once and is sent more.
EndpointResets(t) ==
    /\ Present(t) /\ pc[t] # "done" /\ ~reset[t]
    /\ reset' = [reset EXCEPT ![t] = TRUE]
    /\ UNCHANGED <<pc, src, stream, ends, lost, refused>>

SessionLost ==
    /\ ~lost
    /\ lost' = TRUE
    /\ UNCHANGED <<pc, src, stream, ends, reset, refused>>

Init ==
    /\ pc = [t \in Tasks |-> IF t = "server" THEN "lookup" ELSE "frame"]
    /\ src = [d \in Dirs |-> <<>>] /\ wire = [d \in Dirs |-> <<>>]
    /\ frame = [d \in Dirs |-> "none"]
    /\ shut = [d \in Dirs |-> FALSE] /\ stopped = [d \in Dirs |-> FALSE]
    /\ sent = [d \in Dirs |-> <<>>] /\ got = [d \in Dirs |-> <<>>]
    /\ fin = [d \in Dirs |-> FALSE] /\ eof = [d \in Dirs |-> FALSE]
    /\ reset = [t \in Tasks |-> FALSE] /\ lost = FALSE /\ refused = FALSE

Environment ==
    \/ \E t \in Tasks, b \in Bytes : EndpointSends(t, b)
    \/ \E t \in Tasks : EndpointCloses(t) \/ EndpointResets(t)
    \/ SessionLost \/ Refuse \/ UnknownService \/ ConnectFails

\* Nothing is left to do; any other state without a successor is a deadlock.
Over == (\A t \in Tasks : pc[t] = "done") /\ UNCHANGED vars

Next == Server \/ Client \/ (\E t \in Tasks : Copy(t)) \/ Environment \/ Over

Spec == Init /\ [][Next]_vars

\* The runtime polls a task that can go on, both copies of it; a wait of the
\* handshake is ended by a timeout.
Fairness ==
    /\ WF_vars(Server) /\ WF_vars(Client)
    /\ \A t \in Tasks :
         /\ WF_vars(CopyOut(t) \/ ShutOut(t))
         /\ WF_vars(CopyIn(t) \/ ShutIn(t))
         /\ WF_vars(Finish(t) \/ Fails(t))
FairSpec == Spec /\ Fairness

--------------------------------------------------------------------------------
(* Properties *)

\* The types; a stream never holds more than its window.
TypeOK ==
    /\ pc \in [Tasks -> Places]
    /\ src \in [Dirs -> Seq(Bytes)] /\ wire \in [Dirs -> Seq(Bytes)]
    /\ frame \in [Dirs -> Frames]
    /\ shut \in [Dirs -> BOOLEAN] /\ stopped \in [Dirs -> BOOLEAN]
    /\ sent \in [Dirs -> Seq(Bytes)] /\ got \in [Dirs -> Seq(Bytes)]
    /\ fin \in [Dirs -> BOOLEAN] /\ eof \in [Dirs -> BOOLEAN]
    /\ reset \in [Tasks -> BOOLEAN] /\ lost \in BOOLEAN /\ refused \in BOOLEAN
    /\ \A d \in Dirs : Len(wire[d]) <= Window

\* No byte of the visitor is in the stream before the target is connected: a
\* target that cannot be reached gets nothing, and a late acknowledgement meets
\* nobody (open_client_stream against handle_data_stream).
DataFollowsAck ==
    \A d \in Dirs : wire[d] # <<>> =>
        /\ frame["up"] = "none"
        /\ d = "up" => frame["down"] = "none" /\ pc["client"] \in {"copy", "done"}

\* Both tasks implement a pipe: bytes in order, once, the end after the last of
\* them, each direction by itself (try_join and the shutdown of each copy;
\* PLAN.md:233).
Failed == refused \/ lost \/ \E t \in Tasks : reset[t]
P == INSTANCE Pipe WITH broken <- Failed
ImplementsPipe == P!FairSpec

\* If each endpoint closes once it has seen the end, both tasks end, whatever
\* failed or timed out and on whichever side (forward_tcp_connection,
\* handle_data_stream).
EndpointsClose == (eof["down"] ~> fin["up"]) /\ (eof["up"] ~> fin["down"])
TasksEnd ==
    EndpointsClose => (Failed \/ (fin["up"] /\ fin["down"])
                         ~> \A t \in Tasks : pc[t] = "done")
================================================================================
