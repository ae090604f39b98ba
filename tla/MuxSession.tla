------------------------------- MODULE MuxSession -------------------------------
(***************************************************************************)
(* YamuxSession of libongrok: one task, the driver, owns the Yamux         *)
(* connection.  Other tasks ask it for outbound streams through a bounded  *)
(* channel, and it hands inbound streams to one consumer through another.  *)
(*                                                                         *)
(* The connection makes progress only while the driver polls it for the    *)
(* next inbound stream.  The driver does not while it opens an outbound    *)
(* stream, which yamux delays until fewer than AckBacklog of them are      *)
(* unacknowledged, nor while it hands over an inbound one.                 *)
(***************************************************************************)
EXTENDS Naturals, Sequences, FiniteSets

CONSTANTS
    Openers,      \* calls of open_stream
    MaxInbound,   \* streams the peer opens at most
    OutQueue,     \* capacity of the channel of requests
    InQueue,      \* capacity of the channel of inbound streams
    AckBacklog    \* outbound streams that may be unacknowledged

VARIABLES
    driver,       \* "select", "opening", "handing", "ended"
    held,         \* the opener whose request the driver holds, or the inbound stream
    opener,       \* opener -> state of its call
    requests,     \* the channel of requests
    inbound,      \* the channel of inbound streams
    taken,        \* inbound streams the consumer has had, oldest first
    reading,      \* the consumer goes on to take streams
    closed,       \* close() has been called
    unacked,      \* outbound streams without an acknowledgement, as the driver knows
    dropped,      \* outbound streams dropped by their holder, unknown to the connection
    unanswered,   \* outbound streams that the peer has not acknowledged
    socket,       \* what the peer has sent and the driver has not polled
    arrived       \* inbound streams the peer has opened: 1..arrived

calls == <<opener, requests>>
consumer == <<inbound, taken, reading>>
peer == <<unanswered, socket, arrived>>
vars == <<driver, held, calls, consumer, closed, unacked, dropped, peer>>

Calls == {"idle", "sending", "waiting", "open", "refused", "gone"}
Asking(o) == opener[o] \in {"sending", "waiting"}

--------------------------------------------------------------------------------
(* The driver's loop *)

\* The connection and the driver's ends of both channels are dropped with it;
\* what is in the inbound channel can still be taken.
Ends ==
    /\ driver' = "ended" /\ held' = 0
    /\ requests' = <<>> /\ socket' = <<>>
    /\ unacked' = {} /\ dropped' = {} /\ unanswered' = {}

TakeRequest ==
    /\ driver = "select" /\ requests # <<>>
    /\ driver' = "opening" /\ held' = Head(requests)
    /\ requests' = Tail(requests)
    /\ UNCHANGED <<opener, consumer, closed, unacked, dropped, peer>>

\* The stream is dropped when the one who asked for it has given up.
OpenStream ==
    /\ driver = "opening" /\ Cardinality(unacked) < AckBacklog
    /\ driver' = "select" /\ held' = 0
    /\ unacked' = unacked \cup {held} /\ unanswered' = unanswered \cup {held}
    /\ IF opener[held] = "waiting"
         THEN opener' = [opener EXCEPT ![held] = "open"] /\ UNCHANGED dropped
         ELSE dropped' = dropped \cup {held} /\ UNCHANGED opener
    /\ UNCHANGED <<requests, consumer, closed, socket, arrived>>

Sent(kind) == driver = "select" /\ socket # <<>> /\ Head(socket).kind = kind

PollAck ==
    /\ Sent("ack")
    /\ socket' = Tail(socket)
    /\ unacked' = unacked \ {Head(socket).stream}
    /\ UNCHANGED <<driver, held, calls, consumer, closed, dropped, unanswered, arrived>>

PollInbound ==
    /\ Sent("open")
    /\ socket' = Tail(socket)
    /\ driver' = "handing" /\ held' = Head(socket).stream
    /\ UNCHANGED <<calls, consumer, closed, unacked, dropped, unanswered, arrived>>

\* The connection is at its end, or broken.
PollEnd ==
    /\ Sent("end")
    /\ Ends
    /\ UNCHANGED <<opener, consumer, closed, arrived>>

\* A dropped stream is reset, and no acknowledgement of it is missing any more.
PollDropped ==
    /\ driver = "select" /\ dropped # {}
    /\ unacked' = unacked \ dropped /\ dropped' = {}
    /\ UNCHANGED <<driver, held, calls, consumer, closed, peer>>

MutantHand ==                          \* a stream that finds the channel full is dropped
    /\ driver = "handing"
    /\ driver' = "select" /\ held' = 0
    /\ inbound' = IF Len(inbound) < InQueue THEN Append(inbound, held) ELSE inbound
    /\ UNCHANGED <<calls, taken, reading, closed, unacked, dropped, peer>>
Hand ==
    /\ driver = "handing" /\ Len(inbound) < InQueue
    /\ driver' = "select" /\ held' = 0
    /\ inbound' = Append(inbound, held)
    /\ UNCHANGED <<calls, taken, reading, closed, unacked, dropped, peer>>

MutantShutdown ==                      \* what has come in is to be taken first
    /\ driver = "select" /\ closed /\ inbound = <<>>
    /\ Ends
    /\ UNCHANGED <<opener, consumer, closed, arrived>>
\* close() has been called, or the last handle is gone, which comes to the same.
Shutdown ==
    /\ driver = "select" /\ closed
    /\ Ends
    /\ UNCHANGED <<opener, consumer, closed, arrived>>

Driver ==
    \/ TakeRequest \/ OpenStream \/ Hand \/ Shutdown
    \/ PollAck \/ PollInbound \/ PollEnd \/ PollDropped

--------------------------------------------------------------------------------
(* Its users *)

Ask(o) ==
    /\ opener[o] = "idle"
    /\ opener' = [opener EXCEPT ![o] = "sending"]
    /\ UNCHANGED <<driver, held, requests, consumer, closed, unacked, dropped, peer>>

MutantSend(o) ==                       \* the channel is unbounded
    /\ opener[o] = "sending" /\ driver # "ended"
    /\ opener' = [opener EXCEPT ![o] = "waiting"]
    /\ requests' = Append(requests, o)
    /\ UNCHANGED <<driver, held, consumer, closed, unacked, dropped, peer>>
Send(o) ==
    /\ opener[o] = "sending" /\ driver # "ended" /\ Len(requests) < OutQueue
    /\ opener' = [opener EXCEPT ![o] = "waiting"]
    /\ requests' = Append(requests, o)
    /\ UNCHANGED <<driver, held, consumer, closed, unacked, dropped, peer>>

MutantRefused(o) ==                    \* only a call that cannot send its request
    /\ opener[o] = "sending" /\ driver = "ended"
    /\ opener' = [opener EXCEPT ![o] = "refused"]
    /\ UNCHANGED <<driver, held, requests, consumer, closed, unacked, dropped, peer>>
\* The channels end with the driver: "Yamux session is closed".
Refused(o) ==
    /\ Asking(o) /\ driver = "ended"
    /\ opener' = [opener EXCEPT ![o] = "refused"]
    /\ UNCHANGED <<driver, held, requests, consumer, closed, unacked, dropped, peer>>

\* open_client_stream gives up after 10 s; a request that was sent stays.
TimesOut(o) ==
    /\ Asking(o)
    /\ opener' = [opener EXCEPT ![o] = "gone"]
    /\ UNCHANGED <<driver, held, requests, consumer, closed, unacked, dropped, peer>>

\* The holder of a stream drops it before the peer has acknowledged it.
Release(o) ==
    /\ opener[o] = "open" /\ o \in unacked
    /\ opener' = [opener EXCEPT ![o] = "gone"]
    /\ dropped' = dropped \cup {o}
    /\ UNCHANGED <<driver, held, requests, consumer, closed, unacked, peer>>

Take ==
    /\ reading /\ inbound # <<>>
    /\ taken' = Append(taken, Head(inbound)) /\ inbound' = Tail(inbound)
    /\ UNCHANGED <<driver, held, calls, reading, closed, unacked, dropped, peer>>

\* The server takes the control stream and no other.
StopReading ==
    /\ reading
    /\ reading' = FALSE
    /\ UNCHANGED <<driver, held, calls, inbound, taken, closed, unacked, dropped, peer>>

Close ==
    /\ ~closed
    /\ closed' = TRUE
    /\ UNCHANGED <<driver, held, calls, consumer, unacked, dropped, peer>>

--------------------------------------------------------------------------------
(* The peer *)

Sends(kind, s) == socket' = Append(socket, [kind |-> kind, stream |-> s])
Connected == driver # "ended" /\ \A i \in DOMAIN socket : socket[i].kind # "end"

\* The client answers a stream when it has connected to the target, or failed to.
PeerAcks(o) ==
    /\ o \in unanswered /\ Connected
    /\ Sends("ack", o) /\ unanswered' = unanswered \ {o}
    /\ UNCHANGED <<driver, held, calls, consumer, closed, unacked, dropped, arrived>>

PeerOpens ==
    /\ arrived < MaxInbound /\ Connected
    /\ Sends("open", arrived + 1) /\ arrived' = arrived + 1
    /\ UNCHANGED <<driver, held, calls, consumer, closed, unacked, dropped, unanswered>>

PeerEnds ==
    /\ Connected
    /\ Sends("end", 0)
    /\ UNCHANGED <<driver, held, calls, consumer, closed, unacked, dropped, unanswered, arrived>>

Init ==
    /\ driver = "select" /\ held = 0
    /\ opener = [o \in Openers |-> "idle"] /\ requests = <<>>
    /\ inbound = <<>> /\ taken = <<>> /\ reading = TRUE /\ closed = FALSE
    /\ unacked = {} /\ dropped = {} /\ unanswered = {} /\ socket = <<>> /\ arrived = 0

Users ==
    \/ \E o \in Openers : Ask(o) \/ Send(o) \/ Refused(o) \/ TimesOut(o) \/ Release(o)
    \/ Take \/ StopReading \/ Close

Peer == (\E o \in Openers : PeerAcks(o)) \/ PeerOpens \/ PeerEnds

Next == Driver \/ Users \/ Peer

Spec == Init /\ [][Next]_vars

\* The runtime goes on with a task that is ready.  No timeout and no answer of
\* the peer is needed to happen.
Fairness ==
    /\ WF_vars(Driver) /\ WF_vars(Take)
    /\ \A o \in Openers : WF_vars(Send(o) \/ Refused(o))
FairSpec == Spec /\ Fairness

--------------------------------------------------------------------------------
(* Properties *)

Messages ==
    [kind : {"ack"}, stream : Openers] \cup [kind : {"open"}, stream : 1..MaxInbound]
        \cup [kind : {"end"}, stream : {0}]

TypeOK ==
    /\ driver \in {"select", "opening", "handing", "ended"}
    /\ driver = "opening" => held \in Openers
    /\ driver = "handing" => held \in 1..MaxInbound
    /\ opener \in [Openers -> Calls] /\ requests \in Seq(Openers)
    /\ Len(requests) <= OutQueue /\ Len(inbound) <= InQueue
    /\ inbound \in Seq(1..MaxInbound) /\ taken \in Seq(1..MaxInbound)
    /\ reading \in BOOLEAN /\ closed \in BOOLEAN
    /\ unacked \subseteq Openers /\ dropped \subseteq Openers /\ unanswered \subseteq Openers
    /\ socket \in Seq(Messages) /\ arrived \in 0..MaxInbound

\* The consumer gets the inbound streams in the order the peer opened them, and
\* none is missing, however slow it is: those that it has had, those that wait, and
\* those that are still in the socket go on from each other up to the last one
\* opened (the bounded channel, YamuxSession::spawn).
InHand == taken \o inbound \o (IF driver = "handing" THEN <<held>> ELSE <<>>)
Opens(s) == {i \in DOMAIN s : s[i].kind = "open"}
Continues(s, first, last) ==
    /\ \A i \in Opens(s) : s[i].stream \in first..last
    /\ \A n \in first..last : \E i \in Opens(s) : s[i].stream = n
    /\ \A i, j \in Opens(s) : i < j => s[i].stream < s[j].stream
InboundInOrder ==
    /\ \A i \in DOMAIN InHand : InHand[i] = i
    /\ driver # "ended" => Continues(socket, Len(InHand) + 1, arrived)

\* The driver waits for something that only its own polling, or a consumer that
\* has stopped, could bring about.
Stalled ==
    \/ driver = "opening" /\ Cardinality(unacked) >= AckBacklog
    \/ driver = "handing" /\ Len(inbound) >= InQueue /\ ~reading

\* Every call of open_stream is answered, whoever gives up, drops a stream, closes
\* the session or disconnects in the meantime, unless the driver stalls.
CallsAnswered == <>[]Stalled \/ \A o \in Openers : Asking(o) ~> ~Asking(o)

\* "After a token is revoked the connection is closed" (PLAN.md:440): close()
\* ends the driver, and the connection with it.
ClosedSessionEnds == closed ~> driver = "ended"
\* It does unless the driver stalls.
CloseEnds == <>[]Stalled \/ ClosedSessionEnds
================================================================================
