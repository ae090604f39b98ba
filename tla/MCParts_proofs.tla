------------------------------ MODULE MCParts_proofs ------------------------------
(***************************************************************************)
(* Theorems about the parts that are modelled each by itself, as MCParts   *)
(* runs them.  A behaviour of MCParts is one of each part, most of them    *)
(* standing still, so what holds of a part by itself holds of its share.   *)
(* The connection loop, the state file and both tables are proved here;    *)
(* MuxSession_proofs and FrameCodec_proofs hold the proofs of the session  *)
(* driver and of the codec.                                                *)
(***************************************************************************)
EXTENDS MCParts, Sequences, FiniteSetTheorems, TLAPS

MuxT == INSTANCE MuxSession_proofs
CodecT == INSTANCE FrameCodec_proofs

--------------------------------------------------------------------------------
(* A behaviour of the parts is one of each *)

LEMMA ClientRuns == PartsSpec => Spec
<1>1. PartsInit => Init
  BY DEF PartsInit
<1>2. [PartsNext]_partsVars => [Next]_vars
  BY DEF PartsNext, partsVars
<1> QED BY <1>1, <1>2, PTL DEF PartsSpec, Spec

LEMMA StateRuns == PartsSpec => State!Spec
<1>1. PartsInit => State!Init
  BY DEF PartsInit
<1>2. [PartsNext]_partsVars => [State!Next]_(State!vars)
  BY DEF PartsNext, partsVars, stateVars, State!vars
<1> QED BY <1>1, <1>2, PTL DEF PartsSpec, State!Spec

LEMMA LogRuns == PartsSpec => Log!Spec
<1>1. PartsInit => Log!Init
  BY DEF PartsInit
<1>2. [PartsNext]_partsVars => [Log!Next]_(Log!vars)
  BY DEF PartsNext, partsVars, logVars, Log!vars
<1> QED BY <1>1, <1>2, PTL DEF PartsSpec, Log!Spec

\* The instance of MuxSession_proofs speaks of the same driver as MCParts does.
LEMMA SameMux ==
    /\ MuxT!Init <=> Mux!Init
    /\ [Mux!Next]_(Mux!vars) => [MuxT!Next]_(MuxT!vars)
    /\ MuxT!TypeOK <=> Mux!TypeOK
    /\ MuxT!InboundInOrder <=> Mux!InboundInOrder
<1>1. MuxT!Init <=> Mux!Init
  BY DEF Mux!Init, MuxT!Init
<1>2. MuxT!vars = Mux!vars /\ (UNCHANGED Mux!vars => UNCHANGED MuxT!vars)
  BY DEF Mux!vars, MuxT!vars, Mux!calls, MuxT!calls, Mux!consumer, MuxT!consumer, Mux!peer,
      MuxT!peer
<1>3. Mux!Driver <=> MuxT!Driver
  <2>1. (Mux!TakeRequest <=> MuxT!TakeRequest) /\ (Mux!Hand <=> MuxT!Hand)
    BY DEF Mux!TakeRequest, MuxT!TakeRequest, Mux!Hand, MuxT!Hand, Mux!calls, MuxT!calls,
        Mux!consumer, MuxT!consumer, Mux!peer, MuxT!peer
  <2>2. Mux!OpenStream <=> MuxT!OpenStream
    BY DEF Mux!OpenStream, MuxT!OpenStream, Mux!consumer, MuxT!consumer, Mux!Cardinality,
        MuxT!Cardinality
  <2>3. Mux!Ends <=> MuxT!Ends
    BY DEF Mux!Ends, MuxT!Ends
  <2>4. (Mux!Shutdown <=> MuxT!Shutdown) /\ (Mux!PollEnd <=> MuxT!PollEnd)
    BY <2>3 DEF Mux!Shutdown, MuxT!Shutdown, Mux!PollEnd, MuxT!PollEnd, Mux!Sent, MuxT!Sent,
        Mux!consumer, MuxT!consumer
  <2>5. Mux!PollAck <=> MuxT!PollAck
    BY DEF Mux!PollAck, MuxT!PollAck, Mux!Sent, MuxT!Sent, Mux!calls, MuxT!calls,
        Mux!consumer, MuxT!consumer
  <2>6. Mux!PollInbound <=> MuxT!PollInbound
    BY DEF Mux!PollInbound, MuxT!PollInbound, Mux!Sent, MuxT!Sent, Mux!calls, MuxT!calls,
        Mux!consumer, MuxT!consumer
  <2>7. Mux!PollDropped <=> MuxT!PollDropped
    BY DEF Mux!PollDropped, MuxT!PollDropped, Mux!calls, MuxT!calls, Mux!consumer,
        MuxT!consumer, Mux!peer, MuxT!peer
  <2> QED BY <2>1, <2>2, <2>4, <2>5, <2>6, <2>7 DEF Mux!Driver, MuxT!Driver
<1>4. Mux!Users <=> MuxT!Users
  BY DEF Mux!Users, MuxT!Users, Mux!Ask, MuxT!Ask, Mux!Send, MuxT!Send, Mux!Refused,
      MuxT!Refused, Mux!TimesOut, MuxT!TimesOut, Mux!Release, MuxT!Release, Mux!Take,
      MuxT!Take, Mux!StopReading, MuxT!StopReading, Mux!Close, MuxT!Close, Mux!Asking,
      MuxT!Asking, Mux!calls, MuxT!calls, Mux!consumer, MuxT!consumer, Mux!peer,
      MuxT!peer
<1>5. Mux!Peer <=> MuxT!Peer
  BY DEF Mux!Peer, MuxT!Peer, Mux!PeerAcks, MuxT!PeerAcks, Mux!PeerOpens, MuxT!PeerOpens,
      Mux!PeerEnds, MuxT!PeerEnds, Mux!Sends, MuxT!Sends, Mux!Connected, MuxT!Connected,
      Mux!calls, MuxT!calls, Mux!consumer, MuxT!consumer, Mux!peer, MuxT!peer
<1>6. [Mux!Next]_(Mux!vars) => [MuxT!Next]_(MuxT!vars)
  BY <1>2, <1>3, <1>4, <1>5 DEF Mux!Next, MuxT!Next
<1>7. MuxT!TypeOK <=> Mux!TypeOK
  BY DEF Mux!TypeOK, MuxT!TypeOK, Mux!Calls, MuxT!Calls, Mux!Messages, MuxT!Messages
<1>8. MuxT!InboundInOrder <=> Mux!InboundInOrder
  BY DEF Mux!InboundInOrder, MuxT!InboundInOrder, Mux!InHand, MuxT!InHand, Mux!Continues,
      MuxT!Continues, Mux!Opens, MuxT!Opens
<1> QED BY <1>1, <1>6, <1>7, <1>8

LEMMA MuxRuns == PartsSpec => MuxT!Spec
<1>1. PartsInit => MuxT!Init
  BY SameMux DEF PartsInit
<1>2. [PartsNext]_partsVars => [Mux!Next]_(Mux!vars)
  BY DEF PartsNext, partsVars, muxVars, Mux!vars, Mux!calls, Mux!consumer, Mux!peer
<1>3. [PartsNext]_partsVars => [MuxT!Next]_(MuxT!vars)
  BY <1>2, SameMux
<1> QED BY <1>1, <1>3, PTL DEF PartsSpec, MuxT!Spec

\* The instance of FrameCodec_proofs speaks of the same codec as MCParts does.
LEMMA SameCodec ==
    /\ CodecT!Init <=> Codec!Init
    /\ [Codec!Next]_(Codec!vars) => [CodecT!Next]_(CodecT!vars)
    /\ CodecT!FramesAsSent <=> Codec!FramesAsSent
    /\ CodecT!ReadersAgree <=> Codec!ReadersAgree
    /\ CodecT!BuffersBounded <=> Codec!BuffersBounded
<1>1. CodecT!Init <=> Codec!Init
  BY DEF Codec!Init, CodecT!Init, Codec!Strings, CodecT!Strings, Codec!Bytes, CodecT!Bytes
<1>2. CodecT!vars = Codec!vars /\ (UNCHANGED Codec!vars => UNCHANGED CodecT!vars)
  BY DEF Codec!vars, CodecT!vars, Codec!decoder, CodecT!decoder, Codec!reader,
      CodecT!reader
<1>3. Codec!Payloads = CodecT!Payloads
  BY DEF Codec!Payloads, CodecT!Payloads, Codec!Strings, CodecT!Strings, Codec!Bytes,
      CodecT!Bytes, Codec!Wellformed, CodecT!Wellformed
<1>4. ASSUME NEW p
      PROVE  Codec!Write(p) <=> CodecT!Write(p)
  BY DEF Codec!Write, CodecT!Write, Codec!Encode, CodecT!Encode, Codec!Header,
      CodecT!Header, Codec!Digit, CodecT!Digit, Codec!decoder, CodecT!decoder,
      Codec!reader, CodecT!reader
<1>5. ASSUME NEW n
      PROVE  Codec!Arrive(n) <=> CodecT!Arrive(n)
  BY DEF Codec!Arrive, CodecT!Arrive, Codec!decoder, CodecT!decoder
<1>6. Codec!Decode <=> CodecT!Decode
  BY DEF Codec!Decode, CodecT!Decode, Codec!TakeFrame, CodecT!TakeFrame, Codec!Return,
      CodecT!Return, Codec!Refuse, CodecT!Refuse, Codec!Fail, CodecT!Fail,
      Codec!Incomplete, CodecT!Incomplete, Codec!HeaderSize, CodecT!HeaderSize,
      Codec!Length, CodecT!Length, Codec!Accepted, CodecT!Accepted, Codec!Wellformed,
      CodecT!Wellformed, Codec!Payload, CodecT!Payload, Codec!After, CodecT!After,
      Codec!reader, CodecT!reader
<1>7. /\ Codec!ReadHeader <=> CodecT!ReadHeader
      /\ Codec!ReadPayload <=> CodecT!ReadPayload
  BY DEF Codec!ReadHeader, CodecT!ReadHeader, Codec!ReadPayload, CodecT!ReadPayload,
      Codec!HeaderSize, CodecT!HeaderSize, Codec!Length, CodecT!Length, Codec!Accepted,
      CodecT!Accepted, Codec!Wellformed, CodecT!Wellformed, Codec!decoder,
      CodecT!decoder
<1>8. [Codec!Next]_(Codec!vars) => [CodecT!Next]_(CodecT!vars)
  BY <1>2, <1>3, <1>4, <1>5, <1>6, <1>7 DEF Codec!Next, CodecT!Next
<1>9. CodecT!FramesAsSent <=> Codec!FramesAsSent
  BY DEF Codec!FramesAsSent, CodecT!FramesAsSent, Codec!Idle, CodecT!Idle,
      Codec!HeaderSize, CodecT!HeaderSize, Codec!IsPrefix, CodecT!IsPrefix
<1>10. CodecT!ReadersAgree <=> Codec!ReadersAgree
  BY DEF Codec!ReadersAgree, CodecT!ReadersAgree, Codec!Idle, CodecT!Idle,
      Codec!HeaderSize, CodecT!HeaderSize, Codec!IsPrefix, CodecT!IsPrefix
<1>11. CodecT!BuffersBounded <=> Codec!BuffersBounded
  BY DEF Codec!BuffersBounded, CodecT!BuffersBounded, Codec!HeaderSize, CodecT!HeaderSize
<1> QED BY <1>1, <1>8, <1>9, <1>10, <1>11

LEMMA CodecRuns == PartsSpec => CodecT!Spec
<1>1. PartsInit => CodecT!Init
  BY SameCodec DEF PartsInit
<1>2. [PartsNext]_partsVars => [Codec!Next]_(Codec!vars)
  BY DEF PartsNext, partsVars, codecVars, Codec!vars, Codec!decoder, Codec!reader
<1>3. [PartsNext]_partsVars => [CodecT!Next]_(CodecT!vars)
  BY <1>2, SameCodec
<1> QED BY <1>1, <1>3, PTL DEF PartsSpec, CodecT!Spec

--------------------------------------------------------------------------------
(* The connection loop of the client *)

\* The delay of a backoff is at least a second and at most 42, whatever the number
\* of attempts (run_with_fallback).
LEMMA DelayBounded ==
    ASSUME NEW n \in Nat, NEW d \in Delays(n)
    PROVE  d \in 1..42
<1>1. Lesser(n, 5) \in 0..5
  BY DEF Lesser
<1>2. Base(n) \in {1, 2, 4, 8, 16, 32}
  <2> DEFINE m == Lesser(n, 5)
  <2>1. Base(n) = 2 ^ m /\ m \in 0..5
    BY <1>1 DEF Base
  <2> HIDE DEF m
  <2>2. 2 ^ 0 = 1 /\ 2 ^ 1 = 2 /\ 2 ^ 2 = 4
    OBVIOUS
  <2>3. 2 ^ 3 = 8 /\ 2 ^ 4 = 16 /\ 2 ^ 5 = 32
    OBVIOUS
  <2>4. CASE m = 0
    BY <2>1, <2>2, <2>4
  <2>5. CASE m = 1
    BY <2>1, <2>2, <2>5
  <2>6. CASE m = 2
    BY <2>1, <2>2, <2>6
  <2>7. CASE m = 3
    BY <2>1, <2>3, <2>7
  <2>8. CASE m = 4
    BY <2>1, <2>3, <2>8
  <2>9. CASE m = 5
    BY <2>1, <2>3, <2>9
  <2> QED BY <2>1, <2>4, <2>5, <2>6, <2>7, <2>8, <2>9
<1> QED BY <1>2 DEF Delays

\* A failed attempt keeps the types: the client ends, or waits.
LEMMA GiveUpKeepsTypes ==
    ASSUME TypeOK, pc # "backoff", NEW refused \in BOOLEAN, GiveUp(refused)
    PROVE  TypeOK'
<1> USE AttemptAssumption DEF TypeOK, env
<1>1. CASE Final(refused)
  BY <1>1 DEF GiveUp, Goto, States
<1>2. CASE ~Final(refused)
  <2>1. /\ pc' = "backoff" /\ UNCHANGED env
        /\ attempt' = Lesser(attempt + 1, MaxAttempt)
        /\ delay' \in Delays(attempt + 1)
    BY <1>2 DEF GiveUp
  <2>2. attempt' \in 0..MaxAttempt
    BY <2>1 DEF Lesser
  <2>3. delay' \in 1..42
    BY <2>1, DelayBounded
  <2> QED BY <2>1, <2>2, <2>3 DEF States
<1> QED BY <1>1, <1>2

LEMMA TypeNext ==
    ASSUME TypeOK, [Next]_vars
    PROVE  TypeOK'
<1>1. CASE QuicConnects \/ QuicFails \/ QuicEnds \/ QuicTimesOut \/ YamuxConnects
  BY <1>1 DEF TypeOK, env, Goto, States,
     QuicConnects, QuicFails, QuicEnds, QuicTimesOut, YamuxConnects
<1>2. CASE YamuxFails
  <2> DEFINE refused == tcp /\ verdict = "rejectToken"
  <2>1. pc # "backoff" /\ refused \in BOOLEAN /\ GiveUp(refused)
    BY <1>2 DEF YamuxFails, TypeOK
  <2> HIDE DEF refused
  <2> QED BY <2>1, GiveUpKeepsTypes
<1>3. CASE YamuxEnds
  <2>1. pc # "backoff" /\ GiveUp(FALSE)
    BY <1>3 DEF YamuxEnds
  <2> QED BY <2>1, GiveUpKeepsTypes
<1>4. CASE OnceDone \/ BackoffElapses
  BY <1>4 DEF TypeOK, env, Goto, States, OnceDone, BackoffElapses
<1>5. CASE PathChanges \/ VerdictChanges \/ UNCHANGED vars
  BY <1>5 DEF TypeOK, env, vars, PathChanges, VerdictChanges
<1> QED BY <1>1, <1>2, <1>3, <1>4, <1>5 DEF Next, Client

\* Every variable keeps its type, and no backoff is longer than 42 s, however many
\* attempts have failed (run_with_fallback).
THEOREM TypeCorrect == PartsSpec => []TypeOK
<1>1. Init => TypeOK
  BY AttemptAssumption DEF Init, TypeOK, States, Verdicts
<1>2. TypeOK /\ [Next]_vars => TypeOK'
  BY TypeNext
<1> QED BY <1>1, <1>2, ClientRuns, PTL DEF Spec

--------------------------------------------------------------------------------

\* OnlyRefusalStops with its converse half: a client leaves well with --once only.
EndsForAReason ==
    /\ pc = "exited" => once
    /\ pc = "failed" => once \/ verdict = "rejectToken"

\* A verdict other than "rejectToken" may change; "rejectToken" is for good, so that
\* the reason of a client that has failed stays one.
LEMMA ReasonNext ==
    ASSUME EndsForAReason, [Next]_vars
    PROVE  EndsForAReason'
<1> USE DEF EndsForAReason, env
<1>1. CASE QuicConnects \/ QuicFails \/ QuicEnds \/ QuicTimesOut \/ YamuxConnects
  BY <1>1 DEF Goto, QuicConnects, QuicFails, QuicEnds, QuicTimesOut, YamuxConnects
<1>2. CASE YamuxFails \/ YamuxEnds
  BY <1>2 DEF Goto, YamuxFails, YamuxEnds, GiveUp, Final
<1>3. CASE OnceDone \/ BackoffElapses
  BY <1>3 DEF Goto, OnceDone, BackoffElapses
<1>4. CASE PathChanges \/ VerdictChanges \/ UNCHANGED vars
  BY <1>4 DEF vars, PathChanges, VerdictChanges
<1> QED BY <1>1, <1>2, <1>3, <1>4 DEF Next, Client

\* A client that was not started with --once ends for a refused token only, whatever
\* the network and the server do and in whichever order (run_with_fallback,
\* is_authentication_error).
THEOREM StoppedByRefusal == PartsSpec => []OnlyRefusalStops
<1>1. Init => EndsForAReason
  BY DEF Init, EndsForAReason
<1>2. EndsForAReason /\ [Next]_vars => EndsForAReason'
  BY ReasonNext
<1>3. PartsSpec => []TypeOK
  BY TypeCorrect
<1>4. TypeOK /\ EndsForAReason => OnlyRefusalStops
  BY DEF TypeOK, States, EndsForAReason, OnlyRefusalStops, Running
<1> QED BY <1>1, <1>2, <1>3, <1>4, ClientRuns, PTL DEF Spec

--------------------------------------------------------------------------------
(* The session driver and the codec *)

LEMMA MuxBounds == MuxT!Bounds
BY PartsAssumption DEF MuxT!Bounds

\* The types of the session driver, and the capacity of its two channels, for any
\* capacities and any number of callers and streams (YamuxSession::spawn,
\* open_stream).
THEOREM MuxTyped == PartsSpec => []MuxTypeOK
<1>1. MuxT!TypeOK => MuxTypeOK
  BY SameMux DEF MuxTypeOK
<1>2. MuxT!Spec => []MuxT!TypeOK
  BY MuxBounds, MuxT!TypeCorrect
<1> QED BY <1>1, <1>2, MuxRuns, PTL

\* The consumer gets the inbound streams in the order in which they were opened and
\* none is missing, however slow it is (YamuxSession::spawn, next_inbound).
THEOREM InboundArrives == PartsSpec => []InboundInOrder
<1>1. MuxT!InboundInOrder => InboundInOrder
  BY SameMux DEF InboundInOrder
<1>2. MuxT!Spec => []MuxT!InboundInOrder
  BY MuxBounds, MuxT!InboundKeepsOrder
<1> QED BY <1>1, <1>2, MuxRuns, PTL

LEMMA CodecBounds == CodecT!Bounds
BY PartsAssumption DEF CodecT!Bounds

\* Both readers return the frames that were written, in their order, and hold nothing
\* back, however the bytes are cut on their way (encode_frame, decode_frames,
\* read_control_frame).
THEOREM FramesReturned == PartsSpec => []FramesAsSent
<1>1. CodecT!FramesAsSent => FramesAsSent
  BY SameCodec DEF FramesAsSent
<1>2. CodecT!Spec => []CodecT!FramesAsSent
  BY CodecBounds, CodecT!FramesArrive
<1> QED BY <1>1, <1>2, CodecRuns, PTL

\* Of any bytes both readers make the same frames, and refuse the same
\* (decode_frames, read_control_frame).
THEOREM FramesAgree == PartsSpec => []ReadersAgree
<1>1. CodecT!ReadersAgree => ReadersAgree
  BY SameCodec DEF ReadersAgree
<1>2. CodecT!Spec => []CodecT!ReadersAgree
  BY CodecBounds, CodecT!SameFrames
<1> QED BY <1>1, <1>2, CodecRuns, PTL

\* Neither reader holds more than a frame, whatever arrives (decode_frames,
\* read_control_frame).
THEOREM FramesBounded == PartsSpec => []BuffersBounded
<1>1. CodecT!BuffersBounded => BuffersBounded
  BY SameCodec DEF BuffersBounded
<1>2. CodecT!Spec => []CodecT!BuffersBounded
  BY CodecBounds, CodecT!BuffersKept
<1> QED BY <1>1, <1>2, CodecRuns, PTL

--------------------------------------------------------------------------------
(* The identity of a state directory *)

Identities == [node : Nat, key : Nat]

FileTyped ==
    /\ draws \in Nat \ {0}
    /\ file \in Identities
    /\ at \in [Clients -> {"off", "create", "write", "running"}]
    /\ identity \in [Clients -> Identities]
    /\ used \subseteq Identities
    /\ file \in {State!Absent, State!Torn} \/ file.node # 0
    /\ \A p \in Clients : State!ToWrite(p) =>
          identity[p].node # 0 /\ identity[p].key # State!NoKey

\* The one process that is to write has found no identity, and nobody has used one;
\* what has been used is in the file, and nobody is to write.
FileGuarded ==
    /\ \A p, q \in Clients : State!ToWrite(p) /\ State!ToWrite(q) => p = q
    /\ used # {} =>
         /\ used = {file} /\ State!Whole /\ file.key # State!NoKey
         /\ \A p \in Clients : ~State!ToWrite(p)
    /\ \A p \in Clients : at[p] = "running" => identity[p] \in used
    /\ old => /\ file = State!Torn \/ file.node = 1
              /\ \A p \in Clients : State!ToWrite(p) => identity[p].node = 1

FileInv == FileTyped /\ (alone => FileGuarded)

LEMMA FileTypedNext ==
    ASSUME FileTyped, [State!Next]_(State!vars)
    PROVE  FileTyped'
<1> USE DEF FileTyped, Identities, State!ToWrite, State!Absent, State!Torn, State!NoKey,
   State!NoIdentity, State!Whole
<1>1. CASE UNCHANGED State!vars
  BY <1>1 DEF State!vars
<1>2. ASSUME NEW p \in Clients, State!Load(p) PROVE FileTyped'
  BY <1>2 DEF State!Load, State!Starts, State!Goes
<1>3. ASSUME NEW p \in Clients, State!Create(p) PROVE FileTyped'
  BY <1>3 DEF State!Create, State!Starts, State!Goes, State!Migrated
<1>4. ASSUME NEW p \in Clients, State!Invalid(p) \/ State!Ends(p) PROVE FileTyped'
  <2>1. CASE State!Invalid(p)
    BY <2>1 DEF State!Invalid, State!Starts, State!Goes
  <2>2. CASE State!Ends(p)
    BY <2>2 DEF State!Ends, State!Goes
  <2> QED BY <1>4, <2>1, <2>2
<1>5. ASSUME NEW p \in Clients, State!Open(p) \/ State!Write(p) PROVE FileTyped'
  BY <1>5 DEF State!Open, State!Write, State!Goes
<1>6. ASSUME NEW p \in Clients, State!WriteFails(p) PROVE FileTyped'
  BY <1>6 DEF State!WriteFails, State!Goes
<1> QED BY <1>1, <1>2, <1>3, <1>4, <1>5, <1>6 DEF State!Next

LEMMA FileGuardedNext ==
    ASSUME FileTyped, alone => FileGuarded, [State!Next]_(State!vars), alone'
    PROVE  FileGuarded'
<1> USE DEF FileTyped, Identities, FileGuarded, State!ToWrite, State!Absent, State!Torn,
   State!NoKey, State!NoIdentity, State!Whole
<1>0. alone /\ FileGuarded
  BY DEF State!Next, State!vars, State!Load, State!Create, State!Invalid, State!Open,
     State!Write, State!WriteFails, State!Ends, State!Starts
<1>1. CASE UNCHANGED State!vars
  BY <1>0, <1>1 DEF State!vars
<1>2. ASSUME NEW p \in Clients, State!Load(p) PROVE FileGuarded'
  <2>1. /\ used' = used \cup {file} /\ file' = file /\ old' = old
        /\ \A q \in Clients : ~State!ToWrite(q)
        /\ file.key # State!NoKey /\ State!Whole
    BY <1>2 DEF State!Load, State!Starts, State!Goes
  <2>2. /\ \A q \in Clients : ~State!ToWrite(q)'
        /\ \A q \in Clients : at'[q] = "running" => q = p \/ (at[q] = "running" /\ q # p)
        /\ identity' = [identity EXCEPT ![p] = file]
    BY <1>2, <2>1 DEF State!Load, State!Goes
  <2>3. used' = {file}
    BY <1>0, <2>1
  <2>4. \A q \in Clients : at'[q] = "running" => identity'[q] = file
    BY <1>0, <2>1, <2>2
  <2> QED BY <1>0, <2>1, <2>2, <2>3, <2>4
<1>3. ASSUME NEW p \in Clients, State!Create(p) PROVE FileGuarded'
  <2>1. /\ used' = used /\ file' = file /\ old' = old
        /\ \A q \in Clients : ~State!ToWrite(q)
        /\ (file.key = State!NoKey /\ State!Whole) \/ file = State!Absent
        /\ at' = [at EXCEPT ![p] = "create"]
    BY <1>3 DEF State!Create, State!Starts, State!Goes
  <2>2. used = {} /\ \A q \in Clients : at[q] # "running"
    BY <1>0, <2>1
  <2>3. old => file # State!Absent /\ file # State!Torn /\ file.node = 1
    BY <1>0, <2>1
  <2>4. old => identity'[p].node = 1
    BY <1>3, <2>3 DEF State!Create, State!Goes, State!Migrated
  <2>5. \A q \in Clients : State!ToWrite(q)' => q = p
    BY <2>1
  <2> QED BY <2>1, <2>2, <2>3, <2>4, <2>5
<1>4. ASSUME NEW p \in Clients, State!Invalid(p) \/ State!Ends(p) PROVE FileGuarded'
  <2>1. /\ used' = used /\ file' = file /\ old' = old
        /\ at' = [at EXCEPT ![p] = "off"]
        /\ identity' = [identity EXCEPT ![p] = State!NoIdentity]
    BY <1>4 DEF State!Invalid, State!Ends, State!Starts, State!Goes
  <2>2. \A q \in Clients : State!ToWrite(q)' =>
          q # p /\ State!ToWrite(q) /\ identity'[q] = identity[q]
    BY <2>1
  <2>3. \A q \in Clients : at'[q] = "running" =>
          at[q] = "running" /\ identity'[q] = identity[q]
    BY <2>1
  <2> QED BY <1>0, <2>1, <2>2, <2>3
<1>5. ASSUME NEW p \in Clients, State!Open(p) PROVE FileGuarded'
  BY <1>0, <1>5 DEF State!Open, State!Goes
<1>6. ASSUME NEW p \in Clients, State!Write(p) PROVE FileGuarded'
  BY <1>0, <1>6 DEF State!Write, State!Goes
<1>7. ASSUME NEW p \in Clients, State!WriteFails(p) PROVE FileGuarded'
  BY <1>0, <1>7 DEF State!WriteFails, State!Goes
<1> QED BY <1>1, <1>2, <1>3, <1>4, <1>5, <1>6, <1>7 DEF State!Next

\* A state directory has one identity, over starts, kills, failed writes and
\* migration, as long as no process starts while another is to write
\* (load_or_create_state, write_state).
THEOREM OneIdentity == PartsSpec => []IdentityStable
<1>1. State!Init => FileInv
  BY DEF State!Init, FileInv, FileTyped, Identities, FileGuarded, State!ToWrite,
     State!Absent, State!Torn, State!NoKey, State!NoIdentity, State!Whole
<1>2. FileInv /\ [State!Next]_(State!vars) => FileInv'
  BY FileTypedNext, FileGuardedNext DEF FileInv
<1>3. FileInv => State!IdentityStable
  <2> SUFFICES ASSUME FileInv, alone PROVE State!IdentityStable
    BY DEF State!IdentityStable
  <2>1. FileTyped /\ FileGuarded
    BY DEF FileInv
  <2>2. State!Cardinality(used) <= 1
    <3>0. State!Cardinality(used) = Cardinality(used)
      BY DEF Cardinality, State!Cardinality
    <3>1. CASE used = {}
      BY <3>0, <3>1, FS_EmptySet
    <3>2. CASE used # {}
      <4>1. used = {file}
        BY <2>1, <3>2 DEF FileGuarded
      <4>2. Cardinality({file}) = 1
        BY FS_Singleton
      <4> QED BY <3>0, <4>1, <4>2
    <3> QED BY <3>1, <3>2
  <2>3. ASSUME old, NEW i \in used PROVE i.node = 1
    <3>1. used = {file} /\ State!Whole
      BY <2>1, <2>3 DEF FileGuarded
    <3>2. file = State!Torn \/ file.node = 1
      BY <2>1, <2>3 DEF FileGuarded
    <3>3. i = file /\ file # State!Torn
      BY <3>1, <2>3 DEF State!Whole
    <3> QED BY <3>2, <3>3
  <2>4. \A p \in Clients : at[p] = "running" => file = identity[p]
    BY <2>1 DEF FileGuarded
  <2>5. used # {} => used = {file} /\ file.key # State!NoKey
    BY <2>1 DEF FileGuarded
  <2> QED BY <2>2, <2>3, <2>4, <2>5 DEF State!IdentityStable
<1> QED BY <1>1, <1>2, <1>3, StateRuns, PTL DEF State!Spec, IdentityStable

--------------------------------------------------------------------------------
(* The metrics *)

LogTyped ==
    /\ clock \in 0..MaxClock
    /\ \A m \in beats \cup metrics : m.ms \in 0..MaxClock

\* A heartbeat that was acknowledged stays on record until one is recorded more than
\* Retention after it, of whatever node and however the clock is set (put_metric).
THEOREM MetricsStay == PartsSpec => []MetricsKept
<1> USE PartsAssumption
<1> DEFINE Inv == LogTyped /\ Log!MetricsKept
<1>1. Log!Init => Inv
  BY DEF Log!Init, LogTyped, Log!MetricsKept
<1>2. Inv /\ [Log!Next]_(Log!vars) => Inv'
  <2> SUFFICES ASSUME Inv, [Log!Next]_(Log!vars) PROVE Inv'
    OBVIOUS
  <2> USE DEF LogTyped, Log!MetricsKept, Log!Outdated
  <2>1. ASSUME NEW n \in Nodes, Log!Heartbeat(n) PROVE Inv'
    <3> DEFINE m == [node |-> n, ms |-> clock, seq |-> sequence'[n]]
    <3>1. /\ metrics' = {k \in metrics \cup {m} : k.ms >= Log!Least(clock, Retention)}
          /\ beats' = beats \cup {m} /\ clock' = clock /\ m.ms = clock
      BY <2>1 DEF Log!Heartbeat, Log!Prune
    <3> HIDE DEF m
    <3>2. LogTyped'
      BY <3>1
    <3>3. ASSUME NEW b \in beats', ~Log!Outdated(b)' PROVE b \in metrics'
      <4>1. b \in metrics \cup {m}
        BY <3>1, <3>3
      <4>2. clock \in Int /\ b.ms \in Int /\ ~(clock > b.ms + Retention) /\ b.ms >= 0
        BY <3>1, <3>3
      <4>3. b.ms >= Log!Least(clock, Retention)
        BY <4>2 DEF Log!Least
      <4> QED BY <3>1, <4>1, <4>3
    <3> QED BY <3>2, <3>3
  <2>2. CASE (\E n \in Nodes : Log!ClientRestarts(n)) \/ Log!RecordEvent
           \/ UNCHANGED Log!vars
    BY <2>2 DEF Log!ClientRestarts, Log!RecordEvent, Log!vars
  <2>3. CASE Log!ClockMoves
    BY <2>3 DEF Log!ClockMoves
  <2> QED BY <2>1, <2>2, <2>3 DEF Log!Next
<1>3. Inv => MetricsKept
  BY DEF MetricsKept
<1> HIDE DEF Inv
<1> QED BY <1>1, <1>2, <1>3, LogRuns, PTL DEF Log!Spec

--------------------------------------------------------------------------------
(* The listing of events *)

\* A finite set with a strict total order can be listed in that order: the place of an
\* element is the number of those before it.
LEMMA OrderListed ==
    ASSUME NEW S, IsFiniteSet(S), NEW B \in SUBSET (S \X S),
           \A x \in S : <<x, x>> \notin B,
           \A x, y \in S : x = y \/ <<x, y>> \in B \/ <<y, x>> \in B,
           \A x, y, z \in S : <<x, y>> \in B /\ <<y, z>> \in B => <<x, z>> \in B
    PROVE  \E s \in [1..Cardinality(S) -> S] :
             \A i, j \in 1..Cardinality(S) : i < j => <<s[i], s[j]>> \in B
<1> DEFINE n == Cardinality(S)
           Before(x) == {y \in S : <<y, x>> \in B}
           place == [x \in S |-> Cardinality(Before(x)) + 1]
<1>1. n \in Nat
  BY FS_CardinalityType
<1>2. ASSUME NEW x \in S
      PROVE  IsFiniteSet(Before(x)) /\ Cardinality(Before(x)) \in Nat
  <2>1. Before(x) \in SUBSET S
    OBVIOUS
  <2>2. IsFiniteSet(Before(x))
    <3> HIDE DEF Before
    <3> QED BY <2>1, FS_Subset
  <2> HIDE DEF Before
  <2> QED BY <2>2, FS_CardinalityType
<1>3. ASSUME NEW x \in S
      PROVE  Cardinality(Before(x)) + 1 \in 1..n
  <2>1. Before(x) \in SUBSET S /\ x \notin Before(x)
    OBVIOUS
  <2> HIDE DEF Before
  <2>2. Cardinality(Before(x)) <= n /\ (n = Cardinality(Before(x)) => S = Before(x))
    BY <2>1, FS_Subset
  <2>3. Cardinality(Before(x)) # n
    BY <2>1, <2>2
  <2> QED BY <1>1, <1>2, <2>2, <2>3
<1>4. ASSUME NEW x \in S, NEW y \in S, <<x, y>> \in B
      PROVE  Cardinality(Before(x)) < Cardinality(Before(y))
  <2>1. Before(x) \in SUBSET Before(y) /\ x \in Before(y) /\ x \notin Before(x)
    BY <1>4
  <2> HIDE DEF Before
  <2>2. /\ Cardinality(Before(x)) <= Cardinality(Before(y))
        /\ Cardinality(Before(y)) = Cardinality(Before(x)) => Before(y) = Before(x)
    BY <1>2, <2>1, FS_Subset
  <2>3. Cardinality(Before(x)) # Cardinality(Before(y))
    BY <2>1, <2>2
  <2> QED BY <1>2, <2>2, <2>3
<1> HIDE DEF Before, n
<1>5. ASSUME NEW x \in S, NEW y \in S, place[x] < place[y]
      PROVE  <<x, y>> \in B
  <2>1. Cardinality(Before(x)) < Cardinality(Before(y))
    BY <1>2, <1>5
  <2>2. ~(Cardinality(Before(y)) < Cardinality(Before(x)))
    BY <1>2, <2>1
  <2>3. x # y /\ <<y, x>> \notin B
    BY <1>2, <1>4, <2>1, <2>2
  <2> QED BY <2>3
<1>6. place \in Injection(S, 1..n)
  <2>1. place \in [S -> 1..n]
    BY <1>3
  <2>2. ASSUME NEW x \in S, NEW y \in S, x # y
        PROVE  place[x] # place[y]
    <3>1. \/ Cardinality(Before(x)) < Cardinality(Before(y))
          \/ Cardinality(Before(y)) < Cardinality(Before(x))
      BY <1>4, <2>2
    <3> QED BY <1>2, <3>1
  <2> HIDE DEF place
  <2> QED BY <2>1, <2>2 DEF Injection, IsInjective
<1> HIDE DEF place
<1>7. place \in Surjection(S, 1..n)
  <2>1. IsFiniteSet(1..n) /\ Cardinality(1..n) = n
    BY <1>1, FS_Interval
  <2>2. n = Cardinality(S)
    BY DEF n
  <2> QED BY <1>6, <2>1, <2>2, FS_Injection
<1>8. \A i \in 1..n : \E x \in S : place[x] = i
  BY <1>7 DEF Surjection
<1> DEFINE s == [i \in 1..n |-> CHOOSE x \in S : place[x] = i]
<1>9. \A i \in 1..n : s[i] \in S /\ place[s[i]] = i
  BY <1>8
<1>10. s \in [1..n -> S]
  BY <1>9
<1> HIDE DEF s
<1>11. \A i, j \in 1..n : i < j => <<s[i], s[j]>> \in B
  BY <1>5, <1>9
<1> QED BY <1>10, <1>11 DEF n

\* The events in the table: their ids are the numbers in which they came.
EventsTyped ==
    /\ IsFiniteSet(events)
    /\ \A e \in events : e.ms \in Nat /\ e.id \in 0..(Cardinality(events) - 1)
    /\ \A e, f \in events : e.id = f.id => e = f
EventsInv == clock \in Nat /\ EventsTyped

LEMMA EventsInvNext ==
    ASSUME EventsInv, [Log!Next]_(Log!vars)
    PROVE  EventsInv'
<1> USE PartsAssumption DEF EventsInv
<1>1. CASE UNCHANGED <<clock, events>>
  BY <1>1 DEF EventsTyped
<1>2. CASE Log!ClockMoves
  BY <1>2 DEF Log!ClockMoves, EventsTyped
<1>3. CASE Log!RecordEvent /\ events' # events
  <2> DEFINE e == [ms |-> clock, id |-> Cardinality(events)]
  <2>1. events' = events \cup {e} /\ clock' = clock
    BY <1>3 DEF Log!RecordEvent, Log!Cardinality, Cardinality
  <2>2. e.ms = clock /\ e.id = Cardinality(events)
    OBVIOUS
  <2>3. Cardinality(events) \in Nat
    BY FS_CardinalityType DEF EventsTyped
  <2>4. e \notin events
    BY <2>2, <2>3 DEF EventsTyped
  <2> HIDE DEF e
  <2>5. IsFiniteSet(events') /\ Cardinality(events') = Cardinality(events) + 1
    BY <2>1, <2>4, FS_AddElement DEF EventsTyped
  <2>6. \A f \in events' : f.ms \in Nat /\ f.id \in 0..(Cardinality(events') - 1)
    BY <2>1, <2>2, <2>3, <2>5 DEF EventsTyped
  <2>7. \A f, g \in events' : f.id = g.id => f = g
    BY <2>1, <2>2, <2>3 DEF EventsTyped
  <2> QED BY <2>1, <2>5, <2>6, <2>7 DEF EventsTyped
<1>4. ASSUME NEW n \in Nodes, Log!Heartbeat(n) \/ Log!ClientRestarts(n)
      PROVE  EventsInv'
  BY <1>1, <1>4 DEF Log!Heartbeat, Log!ClientRestarts
<1>5. CASE Log!RecordEvent /\ events' = events
  BY <1>1, <1>5 DEF Log!RecordEvent
<1>6. CASE UNCHANGED Log!vars
  BY <1>1, <1>6 DEF Log!vars
<1> QED BY <1>2, <1>3, <1>4, <1>5, <1>6 DEF Log!Next

\* The time and the id of events order them.
LEMMA NewestFirstTotal ==
    ASSUME EventsTyped
    PROVE  /\ \A x \in events : ~Log!NewestFirst(x, x)
           /\ \A x, y \in events : x = y \/ Log!NewestFirst(x, y) \/ Log!NewestFirst(y, x)
           /\ \A x, y, z \in events :
                Log!NewestFirst(x, y) /\ Log!NewestFirst(y, z) => Log!NewestFirst(x, z)
<1>1. \A x \in events : x.ms \in Nat /\ x.id \in Nat
  BY FS_CardinalityType DEF EventsTyped
<1>2. \A x, y \in events : x.id = y.id => x = y
  BY DEF EventsTyped
<1> QED BY <1>1, <1>2 DEF Log!NewestFirst, Log!Earlier

\* The events with the newest ones first, which is how recent_events sorts them.
LEMMA EventsOrdered ==
    ASSUME EventsTyped
    PROVE  LET s == Log!Ordered(events, Log!NewestFirst) IN
           /\ s \in [1..Cardinality(events) -> events]
           /\ \A i, j \in 1..Cardinality(events) : i < j => Log!NewestFirst(s[i], s[j])
<1> DEFINE B == {p \in events \X events : Log!NewestFirst(p[1], p[2])}
<1>1. \A x, y \in events : <<x, y>> \in B <=> Log!NewestFirst(x, y)
  OBVIOUS
<1>2. B \in SUBSET (events \X events)
  OBVIOUS
<1> HIDE DEF B
<1>3. \A x \in events : <<x, x>> \notin B
  BY <1>1, NewestFirstTotal
<1>4. \A x, y \in events : x = y \/ <<x, y>> \in B \/ <<y, x>> \in B
  BY <1>1, NewestFirstTotal
<1>5. \A x, y, z \in events : <<x, y>> \in B /\ <<y, z>> \in B => <<x, z>> \in B
  BY <1>1, NewestFirstTotal
<1>6. PICK t \in [1..Cardinality(events) -> events] :
        \A i, j \in 1..Cardinality(events) : i < j => <<t[i], t[j]>> \in B
  <2>1. IsFiniteSet(events)
    BY DEF EventsTyped
  <2> QED BY <1>2, <1>3, <1>4, <1>5, <2>1, OrderListed
<1>7. \A i, j \in DOMAIN t : i < j => Log!NewestFirst(t[i], t[j])
  BY <1>1, <1>6
<1> DEFINE r == CHOOSE u \in [1..Cardinality(events) -> events] :
                  \A i, j \in DOMAIN u : i < j => Log!NewestFirst(u[i], u[j])
<1>8. /\ r \in [1..Cardinality(events) -> events]
      /\ \A i, j \in DOMAIN r : i < j => Log!NewestFirst(r[i], r[j])
  BY <1>7
<1>9. Log!Ordered(events, Log!NewestFirst) = r
  BY DEF Log!Ordered, Log!Cardinality, Cardinality
<1> HIDE DEF r
<1> QED BY <1>8, <1>9

\* An event that is not listed has enough others that are not older, for any listing
\* and any clock, which may be set back (recent_events).
THEOREM ListingIsRecent == PartsSpec => []UnlistedIsOutdated
<1>1. Log!Init => EventsInv
  BY PartsAssumption, FS_EmptySet DEF Log!Init, EventsInv, EventsTyped
<1>2. EventsInv /\ [Log!Next]_(Log!vars) => EventsInv'
  BY EventsInvNext
<1>3. EventsInv => UnlistedIsOutdated
  <2> SUFFICES ASSUME EventsTyped, NEW e \in events \ Log!Listed
               PROVE  Log!Cardinality({f \in events \ {e} : f.ms >= e.ms}) >= Limit
    BY DEF EventsInv, UnlistedIsOutdated, Log!UnlistedIsOutdated
  <2> DEFINE s == Log!Ordered(events, Log!NewestFirst)
             n == Cardinality(events)
             U == {f \in events \ {e} : f.ms >= e.ms}
  <2>1. n \in Nat /\ \A x \in events : x.ms \in Nat /\ x.id \in Nat
    BY FS_CardinalityType DEF EventsTyped
  <2>2. s \in [1..n -> events] /\ \A i, j \in 1..n : i < j => Log!NewestFirst(s[i], s[j])
    BY EventsOrdered
  <2>3. Log!Listed = {Log!RecentEvents[i] : i \in DOMAIN Log!RecentEvents}
        /\ Log!RecentEvents = SubSeq(s, 1, Log!Lesser(Limit, Len(s)))
    BY DEF Log!Listed, Log!RecentEvents
  <2> HIDE DEF s, n
  <2>4. s \in Injection(1..n, events)
    BY <2>1, <2>2 DEF Injection, IsInjective, Log!NewestFirst, Log!Earlier
  <2>5. s \in Surjection(1..n, events)
    <3>1. IsFiniteSet(1..n) /\ Cardinality(1..n) = n
      BY <2>1, FS_Interval
    <3> QED BY <2>4, <3>1, FS_Injection DEF n, EventsTyped
  <2>6. PICK k \in 1..n : s[k] = e
    BY <2>5 DEF Surjection
  <2>7. Limit < k
    <3> SUFFICES ASSUME k <= Limit PROVE FALSE
      BY <2>1, PartsAssumption
    <3>1. s \in Seq(events) /\ Len(s) = n
      BY <2>1, <2>2
    <3>2. Log!Lesser(Limit, Len(s)) \in k..n
      BY <2>1, <3>1, PartsAssumption DEF Log!Lesser
    <3>3. /\ k \in DOMAIN Log!RecentEvents
          /\ Log!RecentEvents[k] = s[k]
      BY <2>1, <2>3, <3>1, <3>2
    <3> QED BY <2>3, <2>6, <3>3
  <2> DEFINE t == [i \in 1..Limit |-> s[i]]
  <2>8. \A i \in 1..Limit : s[i] \in U
    <3> SUFFICES ASSUME NEW i \in 1..Limit PROVE s[i] \in U
      OBVIOUS
    <3>1. i \in 1..n /\ i < k
      BY <2>1, <2>7, PartsAssumption
    <3>2. Log!NewestFirst(s[i], s[k]) /\ s[i] \in events
      BY <2>2, <3>1
    <3> QED BY <2>1, <2>6, <3>2 DEF Log!NewestFirst, Log!Earlier
  <2>9. t \in Injection(1..Limit, U)
    <3>1. \A i, j \in 1..Limit : s[i] = s[j] => i = j
      BY <2>1, <2>4, <2>7, PartsAssumption DEF Injection, IsInjective
    <3> QED BY <2>8, <3>1 DEF Injection, IsInjective
  <2>10. IsFiniteSet(U)
    <3>1. U \in SUBSET events
      OBVIOUS
    <3> HIDE DEF U
    <3> QED BY <3>1, FS_Subset DEF EventsTyped
  <2>11. Cardinality(1..Limit) <= Cardinality(U)
    <3> HIDE DEF t, U
    <3> QED BY <2>9, <2>10, FS_Injection
  <2>12. Cardinality(1..Limit) = Limit
    BY PartsAssumption, FS_Interval
  <2>13. Cardinality(U) \in Nat /\ Log!Cardinality(U) = Cardinality(U)
    <3>1. Log!Cardinality(U) = Cardinality(U)
      BY DEF Log!Cardinality, Cardinality
    <3> HIDE DEF U
    <3> QED BY <2>10, <3>1, FS_CardinalityType
  <2> HIDE DEF t
  <2>14. Log!Cardinality(U) >= Limit
    <3> HIDE DEF U
    <3> QED BY <2>11, <2>12, <2>13, PartsAssumption
  <2> QED BY <2>14
<1> QED BY <1>1, <1>2, <1>3, LogRuns, PTL DEF Log!Spec
================================================================================
