-------------------------------- MODULE MCParts --------------------------------
(***************************************************************************)
(* The parts of the system that are modelled each by itself, for TLC: the  *)
(* client's connection loop and its state file, the Yamux session driver,  *)
(* the codec of the control frames, and the tables of metrics and events.  *)
(* A behaviour is one of any one of them, while the others stay where they *)
(* start, so that their state spaces add up and do not multiply.           *)
(***************************************************************************)
EXTENDS RelayClient

CONSTANTS
    Openers, MaxInbound, OutQueue, InQueue, AckBacklog,          \* MuxSession
    Radix, MaxFrame, Tags, MaxFrames, MaxNoise,                 \* FrameCodec
    Nodes, MaxClock, MaxRecords, Retention, Limit,               \* ControlLog
    Clients, MaxDraws                                            \* NodeState

\* Capacities and times are numbers, and the length of any frame has four digits: the
\* limits of encode_frame, METRIC_RETENTION_MS and the channels of YamuxSession.
ASSUME PartsAssumption ==
    /\ MaxInbound \in Nat /\ OutQueue \in Nat /\ InQueue \in Nat
    /\ Radix \in Nat \ {0, 1} /\ MaxFrame \in Nat
    /\ MaxFrame < Radix * Radix * Radix * Radix
    /\ MaxClock \in Nat /\ Retention \in Nat /\ Limit \in Nat

VARIABLES
    part,
    driver, held, opener, requests, inbound, taken, reading, closed,
    unacked, dropped, unanswered, socket, arrived,
    noisy, sent, net, calling, frames, buffer, decoded, derror,
    unread, want, read, rerror,
    clock, metrics, beats, sequence, events,
    file, at, identity, draws, old, alone, used

Mux == INSTANCE MuxSession
Codec == INSTANCE FrameCodec
Log == INSTANCE ControlLog
State == INSTANCE NodeState

muxVars == <<driver, held, opener, requests, inbound, taken, reading, closed,
             unacked, dropped, unanswered, socket, arrived>>
codecVars == <<noisy, sent, net, calling, frames, buffer, decoded, derror,
               unread, want, read, rerror>>
logVars == <<clock, metrics, beats, sequence, events>>
stateVars == <<file, at, identity, draws, old, alone, used>>

Runs(p) == part = p

PartsInit ==
    /\ part \in {"client", "mux", "codec", "log", "state"}
    /\ Init /\ Mux!Init /\ Codec!Init /\ Log!Init /\ State!Init
    /\ ~Runs("client") => ~once /\ ~udp /\ ~tcp /\ verdict = "accept"
    /\ ~Runs("codec") => ~noisy
    /\ ~Runs("log") => clock = 0
    /\ ~Runs("state") => ~old

PartsNext ==
    \/ /\ Runs("client") /\ Next
       /\ UNCHANGED <<part, muxVars, codecVars, logVars, stateVars>>
    \/ /\ Runs("mux") /\ Mux!Next
       /\ UNCHANGED <<part, vars, codecVars, logVars, stateVars>>
    \/ /\ Runs("codec") /\ Codec!Next
       /\ UNCHANGED <<part, vars, muxVars, logVars, stateVars>>
    \/ /\ Runs("log") /\ Log!Next
       /\ UNCHANGED <<part, vars, muxVars, codecVars, stateVars>>
    \/ /\ Runs("state") /\ State!Next
       /\ UNCHANGED <<part, vars, muxVars, codecVars, logVars>>

partsVars == <<part, vars, muxVars, codecVars, logVars, stateVars>>

\* The fairness of RelayClient and of MuxSession, for the one that runs.
PartsSpec ==
    /\ PartsInit /\ [][PartsNext]_partsVars
    /\ Runs("client") => WF_vars(Client)
    /\ Runs("mux") => Mux!Fairness

\* The types of MuxSession; its two channels keep to their capacity.
MuxTypeOK == Mux!TypeOK

\* The consumer gets the inbound streams in order and none is missing
\* (YamuxSession::spawn).
InboundInOrder == Mux!InboundInOrder

\* Every call of open_stream is answered, unless the driver stalls.
CallsAnswered == Mux!CallsAnswered

\* close() ends the driver, unless it stalls.
CloseEnds == Mux!CloseEnds

\* Both readers of control frames return what was written (encode_frame,
\* decode_frames, read_control_frame).
FramesAsSent == Codec!FramesAsSent

\* Both readers find the same frames and errors in any bytes.
ReadersAgree == Codec!ReadersAgree

\* Neither reader holds more than a frame.
BuffersBounded == Codec!BuffersBounded

\* Metrics stay on record until they are out of date (put_metric).
MetricsKept == Log!MetricsKept

\* An event that is not listed has enough others that are not older
\* (recent_events).
UnlistedIsOutdated == Log!UnlistedIsOutdated

\* A state directory has one identity, over starts, kills, failed writes and
\* migration (load_or_create_state, write_state).
IdentityStable == State!IdentityStable
================================================================================
