------------------------------ MODULE Tunnel_proofs ------------------------------
(* Proofs about Tunnel: its types, its handshake, and that it implements Pipe. *)
EXTENDS Tunnel, TLAPS

--------------------------------------------------------------------------------
(* Types *)

LEMMA TypeInit == Init => TypeOK
<1> SUFFICES ASSUME Init PROVE TypeOK
  OBVIOUS
<1> USE DEF Init
<1>1. /\ pc \in [Tasks -> Places] /\ reset \in [Tasks -> BOOLEAN]
      /\ frame \in [Dirs -> Frames] /\ lost \in BOOLEAN /\ refused \in BOOLEAN
  BY DEF Places, Frames
<1>2. /\ shut \in [Dirs -> BOOLEAN] /\ stopped \in [Dirs -> BOOLEAN]
      /\ fin \in [Dirs -> BOOLEAN] /\ eof \in [Dirs -> BOOLEAN]
  OBVIOUS
<1>3. /\ src \in [Dirs -> Seq(Bytes)] /\ wire \in [Dirs -> Seq(Bytes)]
      /\ sent \in [Dirs -> Seq(Bytes)] /\ got \in [Dirs -> Seq(Bytes)]
  OBVIOUS
<1>4. \A d \in Dirs : Len(wire[d]) <= Window
  BY BoundAssumption
<1> QED
  BY <1>1, <1>2, <1>3, <1>4 DEF TypeOK

\* Dropping a stream keeps the types, in whatever state the rest is.
LEMMA DropTyped ==
    ASSUME TypeOK, NEW t \in Tasks, DropStream(t)
    PROVE  /\ pc' \in [Tasks -> Places]
           /\ shut' \in [Dirs -> BOOLEAN] /\ stopped' \in [Dirs -> BOOLEAN]
           /\ wire' = wire
BY DEF TypeOK, DropStream, Goto, Tasks, Dirs, Places, Out, In

LEMMA TypeStep == TypeOK /\ [Next]_vars => TypeOK'
<1> SUFFICES ASSUME TypeOK, [Next]_vars PROVE TypeOK'
  OBVIOUS
<1> USE DEF TypeOK, ends, faults, stream
<1>1. CASE Lookup \/ Open \/ ReadAck
  BY <1>1 DEF Lookup, Open, ReadAck, Goto, Tasks, Dirs, Places, Frames
<1>2. CASE ReadOpen \/ Connected
  BY <1>2 DEF ReadOpen, Connected, Goto, Tasks, Dirs, Places, Frames
<1>3. CASE NoAck \/ Refuse
  <2>1. DropStream("server") /\ "server" \in Tasks
    BY <1>3 DEF NoAck, Refuse, Drop, Tasks
  <2>2. eof' \in [Dirs -> BOOLEAN]
    BY <1>3 DEF NoAck, Refuse, Drop
  <2> QED
    BY <1>3, <2>1, <2>2, DropTyped DEF NoAck, Refuse, Drop, Refused
<1>4. CASE NoStream \/ UnknownService \/ ConnectFails
  <2>1. DropStream("client") /\ "client" \in Tasks
    BY <1>4 DEF NoStream, UnknownService, ConnectFails, Tasks
  <2>2. frame' \in [Dirs -> Frames]
    <3>1. frame' = frame \/ \E d \in Dirs, f \in Frames : frame' = [frame EXCEPT ![d] = f]
      BY <1>4 DEF NoStream, UnknownService, ConnectFails, Frames, Dirs
    <3> QED BY <3>1
  <2> QED
    BY <1>4, <2>1, <2>2, DropTyped DEF NoStream, UnknownService, ConnectFails, Refused
<1>5. ASSUME NEW t \in Tasks, CopyOut(t) PROVE TypeOK'
  <2> DEFINE d == Out(t)
             rest == Tail(src[d])
             more == Append(wire[d], Head(src[d]))
  <2>1. /\ d \in Dirs
        /\ src' = [src EXCEPT ![d] = rest]
        /\ wire' = [wire EXCEPT ![d] = more]
    BY <1>5 DEF CopyOut, Tasks, Dirs, Out
  <2>2. src[d] \in Seq(Bytes) /\ src[d] # <<>> /\ Len(wire[d]) < Window /\ wire[d] \in Seq(Bytes)
    BY <1>5, <2>1 DEF CopyOut
  <2>3. rest \in Seq(Bytes) /\ Len(more) <= Window /\ more \in Seq(Bytes)
    <3> HIDE DEF d
    <3> QED BY <2>2, BoundAssumption
  <2> HIDE DEF d, rest, more
  <2>4. wire' \in [Dirs -> Seq(Bytes)] /\ src' \in [Dirs -> Seq(Bytes)]
    BY <2>1, <2>3
  <2>5. \A e \in Dirs : Len(wire'[e]) <= Window
    BY <2>1, <2>3
  <2> QED BY <1>5, <2>4, <2>5 DEF CopyOut
<1>6. ASSUME NEW t \in Tasks, CopyIn(t) PROVE TypeOK'
  <2> DEFINE d == In(t)
             rest == Tail(wire[d])
             more == Append(got[d], Head(wire[d]))
  <2>1. /\ d \in Dirs
        /\ wire' = [wire EXCEPT ![d] = rest]
        /\ got' = [got EXCEPT ![d] = more]
    BY <1>6 DEF CopyIn, Tasks, Dirs, In
  <2>2. wire[d] \in Seq(Bytes) /\ wire[d] # <<>> /\ Len(wire[d]) <= Window /\ got[d] \in Seq(Bytes)
    BY <1>6, <2>1 DEF CopyIn
  <2>3. rest \in Seq(Bytes) /\ Len(rest) <= Window /\ more \in Seq(Bytes)
    <3> HIDE DEF d
    <3> QED BY <2>2, BoundAssumption
  <2> HIDE DEF d, rest, more
  <2>4. wire' \in [Dirs -> Seq(Bytes)] /\ got' \in [Dirs -> Seq(Bytes)]
    BY <2>1, <2>3
  <2>5. \A e \in Dirs : Len(wire'[e]) <= Window
    BY <2>1, <2>3
  <2> QED BY <1>6, <2>4, <2>5 DEF CopyIn
<1>7. ASSUME NEW t \in Tasks, ShutOut(t) \/ ShutIn(t) \/ Finish(t) PROVE TypeOK'
  BY <1>7 DEF ShutOut, ShutIn, Finish, Goto, Places
<1>8. ASSUME NEW t \in Tasks, Fails(t) PROVE TypeOK'
  <2>1. DropStream(t) /\ eof' \in [Dirs -> BOOLEAN]
    BY <1>8 DEF Fails, Drop
  <2> QED
    BY <1>8, <2>1, DropTyped DEF Fails, Drop
<1>9. ASSUME NEW t \in Tasks, NEW b \in Bytes, EndpointSends(t, b) PROVE TypeOK'
  BY <1>9 DEF EndpointSends, Tasks, Dirs, Out
<1>10. ASSUME NEW t \in Tasks, EndpointCloses(t) \/ EndpointResets(t) PROVE TypeOK'
  BY <1>10 DEF EndpointCloses, EndpointResets
<1>11. CASE SessionLost
  BY <1>11 DEF SessionLost
<1>12. CASE UNCHANGED vars
  BY <1>12 DEF vars
<1> QED
  BY <1>1, <1>2, <1>3, <1>4, <1>5, <1>6, <1>7, <1>8, <1>9, <1>10, <1>11, <1>12
  DEF Next, Server, Client, Copy, Environment, Over

\* Every value keeps its type, and a stream its window, at any size of them.
THEOREM TypeCorrect == Spec => []TypeOK
BY TypeInit, TypeStep, PTL DEF Spec

--------------------------------------------------------------------------------
(* The handshake *)

Shake ==
    /\ pc["server"] \in {"lookup", "open", "ack", "copy", "done"}
    /\ pc["server"] \in {"lookup", "open"} =>
         /\ pc["client"] \in {"frame", "done"}
         /\ frame["up"] = "none" /\ frame["down"] = "none"
         /\ wire["up"] = <<>> /\ wire["down"] = <<>>
    /\ pc["client"] \in {"connect", "copy"} => frame["up"] = "none"
    /\ frame["down"] # "none" => frame["up"] = "none" /\ pc["client"] \in {"copy", "done"}
    /\ pc["server"] = "copy" =>
         /\ frame["up"] = "none" /\ frame["down"] = "none"
         /\ pc["client"] \in {"copy", "done"}

\* Together with DataFollowsAck: what the handshake guarantees, failures or not.
ShakeInv == Shake /\ DataFollowsAck

LEMMA ShakeInit == Init => ShakeInv
BY DEF Init, ShakeInv, Shake, DataFollowsAck, Tasks, Dirs

LEMMA ShakeStep == TypeOK /\ ShakeInv /\ [Next]_vars => ShakeInv'
<1> SUFFICES ASSUME TypeOK, ShakeInv, [Next]_vars PROVE ShakeInv'
  OBVIOUS
<1> USE DEF TypeOK, ShakeInv, Shake, DataFollowsAck, ends, faults, stream, Goto, Tasks, Dirs
<1>1. CASE Lookup \/ Open \/ ReadAck
  BY <1>1 DEF Lookup, Open, ReadAck
<1>2. CASE ReadOpen \/ Connected
  BY <1>2 DEF ReadOpen, Connected
<1>3. CASE NoAck \/ Refuse
  BY <1>3 DEF NoAck, Refuse, Drop, DropStream
<1>4. CASE NoStream \/ UnknownService \/ ConnectFails
  BY <1>4 DEF NoStream, UnknownService, ConnectFails, DropStream
<1>5. ASSUME NEW t \in Tasks, CopyOut(t) PROVE ShakeInv'
  BY <1>5 DEF CopyOut, Out
<1>6. ASSUME NEW t \in Tasks, CopyIn(t) PROVE ShakeInv'
  BY <1>6 DEF CopyIn, In
<1>7. ASSUME NEW t \in Tasks, ShutOut(t) \/ ShutIn(t) \/ Finish(t) PROVE ShakeInv'
  BY <1>7 DEF ShutOut, ShutIn, Finish
<1>8. ASSUME NEW t \in Tasks, Fails(t) PROVE ShakeInv'
  BY <1>8 DEF Fails, Drop, DropStream
<1>9. ASSUME NEW t \in Tasks, NEW b \in Bytes, EndpointSends(t, b) PROVE ShakeInv'
  BY <1>9 DEF EndpointSends
<1>10. ASSUME NEW t \in Tasks, EndpointCloses(t) \/ EndpointResets(t) PROVE ShakeInv'
  BY <1>10 DEF EndpointCloses, EndpointResets
<1>11. CASE SessionLost
  BY <1>11 DEF SessionLost
<1>12. CASE UNCHANGED vars
  BY <1>12 DEF vars
<1> QED
  BY <1>1, <1>2, <1>3, <1>4, <1>5, <1>6, <1>7, <1>8, <1>9, <1>10, <1>11, <1>12
  DEF Next, Server, Client, Copy, Environment, Over

\* No byte is in the stream before the target is connected, whatever fails.
THEOREM AckFirst == Spec => []DataFollowsAck
<1>1. Init => TypeOK /\ ShakeInv
  BY TypeInit, ShakeInit
<1>2. TypeOK /\ ShakeInv /\ [Next]_vars => (TypeOK /\ ShakeInv)'
  BY TypeStep, ShakeStep
<1>3. ShakeInv => DataFollowsAck
  BY DEF ShakeInv
<1> QED
  BY <1>1, <1>2, <1>3, PTL DEF Spec

--------------------------------------------------------------------------------
(* As long as nothing has failed *)

Calm ==
    ~Failed =>
      /\ \A d \in Dirs :
           /\ ~stopped[d]
           /\ shut[d] => fin[d] /\ src[d] = <<>>
           /\ eof[d] => shut[d] /\ wire[d] = <<>>
      /\ pc["server"] \in {"lookup", "open"} =>
           pc["client"] = "frame" /\ ~shut["up"] /\ ~shut["down"]
      /\ pc["server"] = "ack" =>
           /\ ~shut["up"] /\ pc["client"] \in {"frame", "connect", "copy"}
           /\ frame["down"] # "Error"
           /\ frame["down"] = "none" => ~shut["down"] /\ pc["client"] # "copy"
      /\ pc["server"] \in {"copy", "done"} => pc["client"] \in {"copy", "done"}
      /\ pc["client"] \in {"frame", "connect"} => ~shut["down"]

LEMMA CalmInit == Init => Calm
BY DEF Init, Calm, Tasks, Dirs

LEMMA CalmStep == TypeOK /\ ShakeInv /\ Calm /\ [Next]_vars => Calm'
<1> SUFFICES ASSUME TypeOK, ShakeInv, Calm, [Next]_vars, ~Failed' PROVE Calm'
  BY DEF Calm
<1>0. ~Failed /\ ~lost /\ ~refused /\ (\A t \in Tasks : ~reset[t])
  <2>1. CASE UNCHANGED faults
    BY <2>1 DEF Failed, faults
  <2>2. ~Refused
    BY DEF Refused, Failed
  <2>3. ASSUME NEW t \in Tasks, EndpointResets(t) PROVE FALSE
    BY <2>3 DEF EndpointResets, Failed, TypeOK
  <2>4. ~SessionLost
    BY DEF SessionLost, Failed
  <2>5. [Next]_vars => UNCHANGED faults
    BY <2>2, <2>3, <2>4 DEF Next, Server, Client, Copy, Environment, Over, vars, Lookup, Open,
       ReadAck, NoAck, ReadOpen, NoStream, Connected, CopyOut, ShutOut, CopyIn, ShutIn, Finish,
       Fails, EndpointSends, EndpointCloses, Refuse, UnknownService, ConnectFails
  <2> QED
    BY <2>1, <2>5
<1> USE <1>0 DEF TypeOK, ShakeInv, Shake, Calm, ends, faults, stream, Goto, Tasks, Dirs
<1>1. CASE Lookup \/ Open \/ ReadAck
  BY <1>1 DEF Lookup, Open, ReadAck
<1>2. CASE ReadOpen \/ Connected
  BY <1>2 DEF ReadOpen, Connected
<1>3. ~NoAck /\ ~NoStream
  <2>1. \A d \in Dirs : ~stopped[d]
    OBVIOUS
  <2>2. pc["server"] = "ack" => frame["down"] # "Error" /\ (frame["down"] = "none" => ~shut["down"])
    OBVIOUS
  <2>3. pc["client"] = "frame" => pc["server"] \in {"lookup", "open", "ack"}
    OBVIOUS
  <2>4. pc["server"] \in {"lookup", "open", "ack"} => ~shut["up"]
    OBVIOUS
  <2> QED
    BY <2>1, <2>2, <2>3, <2>4 DEF NoAck, NoStream
<1>4. ~Refuse /\ ~UnknownService /\ ~ConnectFails /\ ~SessionLost
  BY DEF Refuse, UnknownService, ConnectFails, SessionLost, Refused, Failed
<1>5. ASSUME NEW t \in Tasks, CopyOut(t) PROVE Calm'
  BY <1>5 DEF CopyOut, Out
<1>6. ASSUME NEW t \in Tasks, CopyIn(t) PROVE Calm'
  BY <1>6 DEF CopyIn, In
<1>7. ASSUME NEW t \in Tasks, ShutOut(t) PROVE Calm'
  BY <1>7 DEF ShutOut, Out
<1>8. ASSUME NEW t \in Tasks, ShutIn(t) PROVE Calm'
  BY <1>8 DEF ShutIn, In
<1>9. ASSUME NEW t \in Tasks, Finish(t) PROVE Calm'
  BY <1>9 DEF Finish, Joined, In, Out
<1>10. ASSUME NEW t \in Tasks PROVE ~Fails(t) /\ ~EndpointResets(t)
  BY DEF Fails, EndpointResets, Out, Failed
<1>11. ASSUME NEW t \in Tasks, NEW b \in Bytes, EndpointSends(t, b) PROVE Calm'
  BY <1>11 DEF EndpointSends, Out
<1>12. ASSUME NEW t \in Tasks, EndpointCloses(t) PROVE Calm'
  BY <1>12 DEF EndpointCloses, Out
<1>13. CASE UNCHANGED vars
  BY <1>13 DEF vars
<1> QED
  BY <1>1, <1>2, <1>3, <1>4, <1>5, <1>6, <1>7, <1>8, <1>9, <1>10, <1>11, <1>12, <1>13
  DEF Next, Server, Client, Copy, Environment, Over

--------------------------------------------------------------------------------
(* Nothing is lost, doubled or reordered on the way *)

\* What has been sent, a, is what was read, g, then the stream, w, then the socket, q.
Contiguous(a, g, w, q) ==
    /\ Len(a) = Len(g) + Len(w) + Len(q)
    /\ \A i \in 1..Len(w) : w[i] = a[Len(g) + i]
    /\ \A i \in 1..Len(q) : q[i] = a[Len(g) + Len(w) + i]

Order == \A d \in Dirs : Contiguous(sent[d], got[d], wire[d], src[d])

LEMMA OrderInit == Init => Order
BY DEF Init, Order, Contiguous

LEMMA Appended ==
    ASSUME NEW S, NEW s \in Seq(S), NEW b \in S
    PROVE  /\ Len(s) \in Nat /\ Len(Append(s, b)) = Len(s) + 1
           /\ Append(s, b)[Len(s) + 1] = b
           /\ \A i \in 1..Len(s) : Append(s, b)[i] = s[i]
OBVIOUS

LEMMA Shortened ==
    ASSUME NEW S, NEW s \in Seq(S), s # <<>>
    PROVE  /\ Len(s) \in Nat \ {0} /\ Len(Tail(s)) = Len(s) - 1
           /\ Head(s) = s[1] /\ Head(s) \in S
           /\ \A i \in 1..Len(Tail(s)) : Tail(s)[i] = s[i + 1]
OBVIOUS

\* The three steps that move data, each for its direction.
LEMMA SendKeepsOrder ==
    ASSUME NEW S, NEW a \in Seq(S), NEW g \in Seq(S), NEW w \in Seq(S), NEW q \in Seq(S),
           NEW b \in S, Contiguous(a, g, w, q)
    PROVE  Contiguous(Append(a, b), g, w, Append(q, b))
<1> DEFINE r == Append(q, b)
           c == Append(a, b)
<1>1. /\ Len(q) \in Nat /\ Len(r) = Len(q) + 1 /\ r[Len(q) + 1] = b
      /\ \A i \in 1..Len(q) : r[i] = q[i]
  BY Appended
<1>2. /\ Len(a) \in Nat /\ Len(c) = Len(a) + 1 /\ c[Len(a) + 1] = b
      /\ \A i \in 1..Len(a) : c[i] = a[i]
  BY Appended
<1>3. Len(g) \in Nat /\ Len(w) \in Nat
  OBVIOUS
<1> HIDE DEF r, c
<1>4. \A i \in 1..Len(w) : w[i] = c[Len(g) + i]
  BY <1>1, <1>2, <1>3 DEF Contiguous
<1>5. ASSUME NEW i \in 1..Len(r) PROVE r[i] = c[Len(g) + Len(w) + i]
  <2>1. CASE i \in 1..Len(q)
    BY <2>1, <1>1, <1>2, <1>3 DEF Contiguous
  <2>2. CASE i = Len(q) + 1
    BY <2>2, <1>1, <1>2, <1>3 DEF Contiguous
  <2> QED
    BY <2>1, <2>2, <1>1
<1>6. Len(c) = Len(g) + Len(w) + Len(r)
  BY <1>1, <1>2, <1>3 DEF Contiguous
<1> QED
  BY <1>4, <1>5, <1>6 DEF Contiguous, r, c

LEMMA CopyOutKeepsOrder ==
    ASSUME NEW S, NEW a \in Seq(S), NEW g \in Seq(S), NEW w \in Seq(S), NEW q \in Seq(S),
           q # <<>>, Contiguous(a, g, w, q)
    PROVE  Contiguous(a, g, Append(w, Head(q)), Tail(q))
<1> DEFINE v == Append(w, Head(q))
           r == Tail(q)
<1>1. /\ Len(q) \in Nat \ {0} /\ Len(r) = Len(q) - 1
      /\ Head(q) = q[1] /\ Head(q) \in S
      /\ \A i \in 1..Len(r) : r[i] = q[i + 1]
  BY Shortened
<1>2. /\ Len(w) \in Nat /\ Len(v) = Len(w) + 1 /\ v[Len(w) + 1] = Head(q)
      /\ \A i \in 1..Len(w) : v[i] = w[i]
  BY <1>1, Appended
<1>3. Len(g) \in Nat
  OBVIOUS
<1> HIDE DEF v, r
<1>4. ASSUME NEW i \in 1..Len(v) PROVE v[i] = a[Len(g) + i]
  <2>1. CASE i \in 1..Len(w)
    BY <2>1, <1>2 DEF Contiguous
  <2>2. CASE i = Len(w) + 1
    <3>1. q[1] = a[Len(g) + Len(w) + 1] /\ Len(g) + Len(w) + 1 = Len(g) + i
      BY <2>2, <1>1, <1>2, <1>3 DEF Contiguous
    <3> QED
      BY <2>2, <1>1, <1>2, <3>1
  <2> QED
    BY <2>1, <2>2, <1>2
<1>5. ASSUME NEW i \in 1..Len(r) PROVE r[i] = a[Len(g) + Len(v) + i]
  <2>1. i + 1 \in 1..Len(q) /\ Len(g) + Len(w) + (i + 1) = Len(g) + Len(v) + i
    BY <1>1, <1>2, <1>3
  <2>2. q[i + 1] = a[Len(g) + Len(w) + (i + 1)]
    BY <2>1 DEF Contiguous
  <2> QED
    BY <2>1, <2>2, <1>1
<1>6. Len(a) = Len(g) + Len(v) + Len(r)
  BY <1>1, <1>2, <1>3 DEF Contiguous
<1> QED
  BY <1>4, <1>5, <1>6 DEF Contiguous, v, r

LEMMA CopyInKeepsOrder ==
    ASSUME NEW S, NEW a \in Seq(S), NEW g \in Seq(S), NEW w \in Seq(S), NEW q \in Seq(S),
           w # <<>>, Contiguous(a, g, w, q)
    PROVE  /\ Contiguous(a, Append(g, Head(w)), Tail(w), q)
           /\ Len(g) < Len(a) /\ Head(w) = a[Len(g) + 1]
<1> DEFINE h == Append(g, Head(w))
           v == Tail(w)
<1>1. /\ Len(w) \in Nat \ {0} /\ Len(v) = Len(w) - 1
      /\ Head(w) = w[1] /\ Head(w) \in S
      /\ \A i \in 1..Len(v) : v[i] = w[i + 1]
  BY Shortened
<1>2. Len(g) \in Nat /\ Len(h) = Len(g) + 1
  BY <1>1, Appended
<1>3. Len(q) \in Nat
  OBVIOUS
<1> HIDE DEF h, v
<1>4. Head(w) = a[Len(g) + 1]
  BY <1>1 DEF Contiguous
<1>5. ASSUME NEW i \in 1..Len(v) PROVE v[i] = a[Len(h) + i]
  <2>1. i + 1 \in 1..Len(w) /\ Len(g) + (i + 1) = Len(h) + i
    BY <1>1, <1>2
  <2>2. w[i + 1] = a[Len(g) + (i + 1)]
    BY <2>1 DEF Contiguous
  <2> QED
    BY <2>1, <2>2, <1>1
<1>6. Len(h) + Len(v) = Len(g) + Len(w)
  BY <1>1, <1>2
<1>7. Len(a) = Len(h) + Len(v) + Len(q) /\ Len(g) < Len(a)
  BY <1>1, <1>2, <1>3, <1>6 DEF Contiguous
<1>8. \A i \in 1..Len(q) : q[i] = a[Len(h) + Len(v) + i]
  BY <1>6 DEF Contiguous
<1> QED
  BY <1>4, <1>5, <1>7, <1>8 DEF Contiguous, h, v

LEMMA OrderStep == TypeOK /\ Order /\ [Next]_vars => Order'
<1> SUFFICES ASSUME TypeOK, Order, [Next]_vars PROVE Order'
  OBVIOUS
<1>0. /\ sent \in [Dirs -> Seq(Bytes)] /\ got \in [Dirs -> Seq(Bytes)]
      /\ wire \in [Dirs -> Seq(Bytes)] /\ src \in [Dirs -> Seq(Bytes)]
  BY DEF TypeOK
<1>1. CASE UNCHANGED <<sent, got, wire, src>>
  BY <1>1 DEF Order
<1>2. ASSUME NEW t \in Tasks, NEW b \in Bytes, EndpointSends(t, b) PROVE Order'
  <2>1. Out(t) \in Dirs
    BY DEF Tasks, Dirs, Out
  <2>2. Contiguous(Append(sent[Out(t)], b), got[Out(t)], wire[Out(t)], Append(src[Out(t)], b))
    BY <1>0, <2>1, SendKeepsOrder DEF Order
  <2>3. ASSUME NEW d \in Dirs PROVE Contiguous(sent'[d], got'[d], wire'[d], src'[d])
    <3>1. CASE d = Out(t)
      BY <1>0, <1>2, <2>1, <2>2, <3>1 DEF EndpointSends, stream
    <3>2. CASE d # Out(t)
      BY <1>0, <1>2, <3>2 DEF EndpointSends, stream, Order
    <3> QED
      BY <3>1, <3>2
  <2> QED
    BY <2>3 DEF Order
<1>3. ASSUME NEW t \in Tasks, CopyOut(t) PROVE Order'
  <2>1. Out(t) \in Dirs /\ src[Out(t)] # <<>>
    BY <1>3 DEF Tasks, Dirs, Out, CopyOut
  <2>2. Contiguous(sent[Out(t)], got[Out(t)],
                   Append(wire[Out(t)], Head(src[Out(t)])), Tail(src[Out(t)]))
    BY <1>0, <2>1, CopyOutKeepsOrder DEF Order
  <2>3. ASSUME NEW d \in Dirs PROVE Contiguous(sent'[d], got'[d], wire'[d], src'[d])
    <3>1. CASE d = Out(t)
      BY <1>0, <1>3, <2>1, <2>2, <3>1 DEF CopyOut, ends
    <3>2. CASE d # Out(t)
      BY <1>0, <1>3, <3>2 DEF CopyOut, ends, Order
    <3> QED
      BY <3>1, <3>2
  <2> QED
    BY <2>3 DEF Order
<1>4. ASSUME NEW t \in Tasks, CopyIn(t) PROVE Order'
  <2>1. In(t) \in Dirs /\ wire[In(t)] # <<>>
    BY <1>4 DEF Tasks, Dirs, In, CopyIn
  <2>2. Contiguous(sent[In(t)], Append(got[In(t)], Head(wire[In(t)])),
                   Tail(wire[In(t)]), src[In(t)])
    BY <1>0, <2>1, CopyInKeepsOrder DEF Order
  <2>3. ASSUME NEW d \in Dirs PROVE Contiguous(sent'[d], got'[d], wire'[d], src'[d])
    <3>1. CASE d = In(t)
      BY <1>0, <1>4, <2>1, <2>2, <3>1 DEF CopyIn
    <3>2. CASE d # In(t)
      BY <1>0, <1>4, <3>2 DEF CopyIn, Order
    <3> QED
      BY <3>1, <3>2
  <2> QED
    BY <2>3 DEF Order
<1>5. CASE Server \/ Client \/ Refuse \/ UnknownService \/ ConnectFails
  <2> USE DEF stream, ends
  <2>1. CASE Lookup \/ Open \/ ReadAck
    BY <1>1, <2>1 DEF Lookup, Open, ReadAck
  <2>2. CASE NoAck \/ Refuse
    BY <1>1, <2>2 DEF NoAck, Refuse, Drop, DropStream
  <2>3. CASE ReadOpen \/ Connected
    BY <1>1, <2>3 DEF ReadOpen, Connected
  <2>4. CASE NoStream \/ UnknownService \/ ConnectFails
    BY <1>1, <2>4 DEF NoStream, UnknownService, ConnectFails, DropStream
  <2> QED
    BY <1>5, <2>1, <2>2, <2>3, <2>4 DEF Server, Client
<1>6. ASSUME NEW t \in Tasks, ShutOut(t) \/ ShutIn(t) \/ Finish(t) \/ Fails(t) PROVE Order'
  BY <1>1, <1>6 DEF ShutOut, ShutIn, Finish, Fails, Drop, DropStream, ends, stream
<1>7. ASSUME NEW t \in Tasks, EndpointCloses(t) \/ EndpointResets(t) PROVE Order'
  BY <1>1, <1>7 DEF EndpointCloses, EndpointResets, ends, stream
<1>8. CASE SessionLost \/ UNCHANGED vars
  BY <1>1, <1>8 DEF SessionLost, ends, stream, vars
<1> QED
  BY <1>2, <1>3, <1>4, <1>5, <1>6, <1>7, <1>8 DEF Next, Copy, Environment, Over

--------------------------------------------------------------------------------
(* The refinement *)

IInv == TypeOK /\ ShakeInv /\ Calm /\ Order

LEMMA InitRefines == Init => P!Init
BY DEF Init, P!Init, Failed, Tasks

\* Every step of the two tasks is a step of the pipe, or changes nothing of it.
LEMMA StepRefines == IInv /\ IInv' /\ [Next]_vars => [P!Next]_(P!vars)
<1> SUFFICES ASSUME IInv, IInv', [Next]_vars PROVE [P!Next]_(P!vars)
  OBVIOUS
<1> USE DEF P!vars
<1>0. /\ sent \in [Dirs -> Seq(Bytes)] /\ got \in [Dirs -> Seq(Bytes)]
      /\ wire \in [Dirs -> Seq(Bytes)] /\ src \in [Dirs -> Seq(Bytes)]
      /\ eof \in [Dirs -> BOOLEAN] /\ fin \in [Dirs -> BOOLEAN]
  BY DEF IInv, TypeOK
<1>1. CASE UNCHANGED <<ends, faults>>
  BY <1>1 DEF ends, faults, Failed
<1>2. ASSUME NEW t \in Tasks, NEW b \in Bytes, EndpointSends(t, b) PROVE P!Next
  <2>1. Out(t) \in Dirs /\ Failed' = Failed
    BY <1>2 DEF Tasks, Dirs, Out, EndpointSends, faults, Failed
  <2>2. P!Send(Out(t), b)
    BY <1>2, <2>1 DEF EndpointSends, P!Send, stream
  <2> QED
    BY <2>1, <2>2 DEF P!Next
<1>3. ASSUME NEW t \in Tasks, EndpointCloses(t) PROVE P!Next
  <2>1. Out(t) \in Dirs /\ Failed' = Failed
    BY <1>3 DEF Tasks, Dirs, Out, EndpointCloses, faults, Failed
  <2>2. P!Close(Out(t))
    BY <1>3, <2>1 DEF EndpointCloses, P!Close
  <2> QED
    BY <2>1, <2>2 DEF P!Next
<1>4. ASSUME NEW t \in Tasks, CopyIn(t) PROVE P!Next
  <2>1. In(t) \in Dirs /\ Failed' = Failed /\ wire[In(t)] # <<>>
    BY <1>4 DEF Tasks, Dirs, In, CopyIn, faults, Failed
  <2>2. /\ Len(got[In(t)]) < Len(sent[In(t)])
        /\ Head(wire[In(t)]) = sent[In(t)][Len(got[In(t)]) + 1]
    BY <1>0, <2>1, CopyInKeepsOrder DEF IInv, Order
  <2>3. P!Deliver(In(t))
    BY <1>4, <2>1, <2>2 DEF CopyIn, P!Deliver
  <2> QED
    BY <2>1, <2>3 DEF P!Next
<1>5. ASSUME NEW t \in Tasks, ShutIn(t) PROVE P!Next
  <2>1. In(t) \in Dirs /\ Failed' = Failed
    BY <1>5 DEF Tasks, Dirs, In, ShutIn, faults, Failed
  <2>2. ~Failed => fin[In(t)] /\ src[In(t)] = <<>> /\ wire[In(t)] = <<>>
    BY <1>5, <2>1 DEF ShutIn, IInv, Calm
  <2>3. ~Failed => P!Complete(In(t))
    <3>1. Len(sent[In(t)]) = Len(got[In(t)]) + Len(wire[In(t)]) + Len(src[In(t)])
      BY <2>1 DEF IInv, Order, Contiguous
    <3>2. got[In(t)] \in Seq(Bytes) /\ Len(<<>>) = 0
      BY <1>0, <2>1
    <3>3. Len(got[In(t)]) \in Nat
      BY <3>2
    <3>4. ASSUME ~Failed PROVE Len(got[In(t)]) = Len(sent[In(t)])
      <4>1. Len(wire[In(t)]) = 0 /\ Len(src[In(t)]) = 0
        BY <2>2, <3>2, <3>4
      <4> QED
        BY <3>1, <3>3, <4>1
    <3> QED
      BY <2>2, <3>4 DEF P!Complete
  <2>4. P!End(In(t))
    BY <1>5, <2>1, <2>3 DEF ShutIn, P!End
  <2> QED
    BY <2>1, <2>4 DEF P!Next
\* A task drops its socket: something has failed, before this step or in it.
<1>6. ASSUME NEW d \in Dirs, eof' = [eof EXCEPT ![d] = TRUE], Failed',
             UNCHANGED <<sent, got, fin>>
      PROVE  P!Next
  <2>1. P!Break
    <3>1. eof' = [e \in Dirs |-> eof[e] \/ e \in {d}]
      BY <1>0, <1>6
    <3> QED
      BY <1>6, <3>1 DEF P!Break
  <2> QED
    BY <2>1 DEF P!Next
<1>7. ASSUME Failed', UNCHANGED ends PROVE P!Next
  <2>1. eof' = [e \in Dirs |-> eof[e] \/ e \in {}] /\ {} \in SUBSET Dirs
    BY <1>0, <1>7 DEF ends
  <2>2. UNCHANGED <<sent, got, fin>>
    BY <1>7 DEF ends
  <2>3. \E ended \in SUBSET Dirs : eof' = [e \in Dirs |-> eof[e] \/ e \in ended]
    BY <2>1
  <2>4. P!Break
    BY <1>7, <2>2, <2>3 DEF P!Break
  <2> QED
    BY <2>4 DEF P!Next
<1>8. CASE NoAck \/ Refuse
  <2>1. /\ eof' = [eof EXCEPT !["down"] = TRUE] /\ UNCHANGED <<sent, got, fin>>
        /\ "down" \in Dirs
    BY <1>8 DEF NoAck, Refuse, Drop, In, Dirs
  <2>2. Failed'
    <3>1. CASE Refuse
      BY <3>1 DEF Refuse, Refused, Failed
    <3>2. CASE NoAck
      <4>1. Failed
        BY <3>2 DEF NoAck, IInv, Calm, Failed
      <4> QED
        BY <3>2, <4>1 DEF NoAck, faults, Failed
    <3> QED
      BY <1>8, <3>1, <3>2
  <2> QED
    BY <1>6, <2>1, <2>2
<1>9. ASSUME NEW t \in Tasks, Fails(t) PROVE P!Next
  <2>1. /\ eof' = [eof EXCEPT ![In(t)] = TRUE] /\ UNCHANGED <<sent, got, fin>>
        /\ In(t) \in Dirs /\ Out(t) \in Dirs
    BY <1>9 DEF Fails, Drop, In, Out, Dirs, Tasks
  <2>2. Failed
    BY <1>9, <2>1 DEF Fails, IInv, Calm, Failed
  <2>3. Failed'
    BY <1>9, <2>2 DEF Fails, faults, Failed
  <2> QED
    BY <1>6, <2>1, <2>3
<1>10. CASE UnknownService \/ ConnectFails \/ SessionLost
  <2>1. Failed' /\ UNCHANGED ends
    BY <1>10 DEF UnknownService, ConnectFails, SessionLost, Refused, Failed
  <2> QED
    BY <1>7, <2>1
<1>11. ASSUME NEW t \in Tasks, EndpointResets(t) PROVE P!Next
  <2>1. Failed' /\ UNCHANGED ends
    BY <1>11 DEF EndpointResets, Failed, IInv, TypeOK
  <2> QED
    BY <1>7, <2>1
<1>12. CASE Lookup \/ Open \/ ReadAck \/ Client
  BY <1>1, <1>12 DEF Lookup, Open, ReadAck, Client, ReadOpen, NoStream, Connected
<1>13. ASSUME NEW t \in Tasks, CopyOut(t) \/ ShutOut(t) \/ Finish(t) PROVE UNCHANGED <<ends, faults>>
  BY <1>13 DEF CopyOut, ShutOut, Finish
<1>14. CASE UNCHANGED vars
  BY <1>1, <1>14 DEF vars
<1> QED
  BY <1>1, <1>2, <1>3, <1>4, <1>5, <1>8, <1>9, <1>10, <1>11, <1>12, <1>13, <1>14
  DEF Next, Server, Copy, Environment, Over

\* Whatever is sent, at any window: bytes come out once and in order, and an end
\* is seen after the last of them unless something outside the tasks has failed.
THEOREM PipeImplemented == Spec => P!Spec
<1>1. Init => IInv
  BY TypeInit, ShakeInit, CalmInit, OrderInit DEF IInv
<1>2. IInv /\ [Next]_vars => IInv'
  BY TypeStep, ShakeStep, CalmStep, OrderStep DEF IInv
<1> QED
  BY <1>1, <1>2, InitRefines, StepRefines, PTL DEF Spec, P!Spec
================================================================================
