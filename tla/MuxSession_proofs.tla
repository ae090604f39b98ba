--------------------------- MODULE MuxSession_proofs ---------------------------
(***************************************************************************)
(* Theorems about MuxSession: its types with the capacities of its two     *)
(* channels, and the order of inbound streams, for any number of callers   *)
(* and streams and any capacities.                                         *)
(***************************************************************************)
EXTENDS MuxSession, SequenceTheorems, TLAPS

--------------------------------------------------------------------------------
(* Types *)

Bounds == MaxInbound \in Nat /\ OutQueue \in Nat /\ InQueue \in Nat

\* The driver's end leaves nothing but what is in the inbound channel.
LEMMA EndsTyped ==
    ASSUME Bounds, TypeOK, Ends, UNCHANGED <<opener, consumer, closed, arrived>>
    PROVE  TypeOK'
BY DEF Bounds, TypeOK, Ends, consumer

LEMMA SendsTyped ==
    ASSUME TypeOK, NEW kind, NEW s, [kind |-> kind, stream |-> s] \in Messages, Sends(kind, s)
    PROVE  socket' \in Seq(Messages)
BY AppendProperties DEF TypeOK, Sends

LEMMA TypeNext ==
    ASSUME Bounds, TypeOK, [Next]_vars
    PROVE  TypeOK'
<1> USE DEF TypeOK, calls, consumer, peer
<1>1. CASE TakeRequest
  <2>1. Head(requests) \in Openers /\ requests' \in Seq(Openers) /\ Len(requests') <= OutQueue
    BY <1>1, HeadTailProperties DEF TakeRequest, Bounds
  <2> QED BY <1>1, <2>1 DEF TakeRequest
<1>2. CASE OpenStream
  BY <1>2 DEF OpenStream, Calls
<1>3. CASE PollAck
  <2>1. socket' \in Seq(Messages)
    BY <1>3, HeadTailProperties DEF PollAck, Sent
  <2> QED BY <1>3, <2>1 DEF PollAck, Sent
<1>4. CASE PollInbound
  <2>1. Head(socket) \in Messages /\ socket' \in Seq(Messages)
    BY <1>4, HeadTailProperties DEF PollInbound, Sent
  <2>2. Head(socket).stream \in 1..MaxInbound
    BY <1>4, <2>1 DEF PollInbound, Sent, Messages
  <2> QED BY <1>4, <2>1, <2>2 DEF PollInbound
<1>5. CASE PollEnd \/ Shutdown
  BY <1>5, EndsTyped DEF PollEnd, Shutdown
<1>6. CASE PollDropped
  BY <1>6 DEF PollDropped
<1>7. CASE Hand
  <2>1. inbound' \in Seq(1..MaxInbound) /\ Len(inbound') <= InQueue
    BY <1>7, AppendProperties DEF Hand, Bounds
  <2> QED BY <1>7, <2>1 DEF Hand
<1>8. ASSUME NEW o \in Openers, Ask(o) \/ Refused(o) \/ TimesOut(o) \/ Release(o)
      PROVE  TypeOK'
  BY <1>8 DEF Ask, Refused, TimesOut, Release, Calls
<1>9. ASSUME NEW o \in Openers, Send(o)
      PROVE  TypeOK'
  <2>1. requests' \in Seq(Openers) /\ Len(requests') <= OutQueue
    BY <1>9, AppendProperties DEF Send, Bounds
  <2> QED BY <1>9, <2>1 DEF Send, Calls
<1>10. CASE Take
  <2>1. /\ taken' \in Seq(1..MaxInbound)
        /\ inbound' \in Seq(1..MaxInbound) /\ Len(inbound') <= InQueue
    BY <1>10, HeadTailProperties, AppendProperties DEF Take, Bounds
  <2> QED BY <1>10, <2>1 DEF Take
<1>11. CASE StopReading \/ Close
  BY <1>11 DEF StopReading, Close
<1>12. ASSUME NEW o \in Openers, PeerAcks(o)
       PROVE  TypeOK'
  <2>1. [kind |-> "ack", stream |-> o] \in Messages
    BY DEF Messages
  <2>2. socket' \in Seq(Messages)
    BY <1>12, <2>1, SendsTyped DEF PeerAcks
  <2> QED BY <1>12, <2>2 DEF PeerAcks
<1>13. CASE PeerOpens
  <2>1. arrived + 1 \in 1..MaxInbound
    BY <1>13 DEF PeerOpens, Bounds
  <2>2. [kind |-> "open", stream |-> arrived + 1] \in Messages
    BY <2>1 DEF Messages
  <2>3. socket' \in Seq(Messages)
    BY <1>13, <2>2, SendsTyped DEF PeerOpens
  <2> QED BY <1>13, <2>1, <2>3 DEF PeerOpens
<1>14. CASE PeerEnds
  <2>1. [kind |-> "end", stream |-> 0] \in Messages
    BY DEF Messages
  <2>2. socket' \in Seq(Messages)
    BY <1>14, <2>1, SendsTyped DEF PeerEnds
  <2> QED BY <1>14, <2>2 DEF PeerEnds
<1>15. CASE UNCHANGED vars
  BY <1>15 DEF vars
<1> QED
  BY <1>1, <1>2, <1>3, <1>4, <1>5, <1>6, <1>7, <1>8, <1>9, <1>10, <1>11, <1>12,
     <1>13, <1>14, <1>15
  DEF Next, Driver, Users, Peer

LEMMA TypeInit ==
    ASSUME Bounds, Init
    PROVE  TypeOK
<1> USE DEF Init
<1>1. /\ requests \in Seq(Openers) /\ socket \in Seq(Messages)
      /\ inbound \in Seq(1..MaxInbound) /\ taken \in Seq(1..MaxInbound)
      /\ Len(requests) = 0 /\ Len(inbound) = 0
  OBVIOUS
<1>2. opener \in [Openers -> Calls]
  BY DEF Calls
<1>3. arrived \in 0..MaxInbound /\ 0 <= OutQueue /\ 0 <= InQueue
  BY DEF Bounds
<1> QED BY <1>1, <1>2, <1>3 DEF TypeOK

\* Every value keeps its type and both channels their capacity, for any capacities
\* and any number of callers and streams (YamuxSession::spawn, open_stream).
THEOREM TypeCorrect ==
    ASSUME Bounds
    PROVE  Spec => []TypeOK
<1>1. Init => TypeOK
  BY TypeInit
<1>2. TypeOK /\ [Next]_vars => TypeOK'
  BY TypeNext
<1> QED BY <1>1, <1>2, PTL DEF Spec

--------------------------------------------------------------------------------
(* The inbound streams that are still in the socket *)

\* A message that opens no stream leaves those that follow it as they are.
LEMMA ContinuesPastOther ==
    ASSUME NEW s \in Seq(Messages), s # <<>>, Head(s).kind # "open",
           NEW a \in Nat, NEW b \in Nat, Continues(s, a, b)
    PROVE  Continues(Tail(s), a, b)
<1>1. /\ Len(Tail(s)) = Len(s) - 1 /\ Tail(s) \in Seq(Messages)
      /\ \A i \in 1..Len(Tail(s)) : Tail(s)[i] = s[i + 1]
  BY HeadTailProperties
<1>2. s[1].kind # "open"
  OBVIOUS
<1>3. \A i \in Opens(Tail(s)) : i + 1 \in Opens(s) /\ Tail(s)[i] = s[i + 1]
  BY <1>1 DEF Opens
<1>4. \A i \in Opens(s) : i - 1 \in Opens(Tail(s)) /\ Tail(s)[i - 1] = s[i]
  BY <1>1, <1>2 DEF Opens
<1>5. ASSUME NEW n \in a..b
      PROVE  \E i \in Opens(Tail(s)) : Tail(s)[i].stream = n
  <2>1. PICK i \in Opens(s) : s[i].stream = n
    BY DEF Continues
  <2> QED BY <1>4, <2>1
<1>6. \A i \in Opens(Tail(s)) : Tail(s)[i].stream \in a..b
  BY <1>3 DEF Continues
<1>7. \A i, j \in Opens(Tail(s)) : i < j => Tail(s)[i].stream < Tail(s)[j].stream
  <2> SUFFICES ASSUME NEW i \in Opens(Tail(s)), NEW j \in Opens(Tail(s)), i < j
               PROVE  Tail(s)[i].stream < Tail(s)[j].stream
    OBVIOUS
  <2>1. i \in Nat /\ j \in Nat
    BY <1>1 DEF Opens
  <2>2. s[i + 1].stream < s[j + 1].stream
    BY <1>3, <2>1 DEF Continues
  <2> QED BY <1>3, <2>2
<1> QED BY <1>5, <1>6, <1>7 DEF Continues

\* The first stream that is opened is the next one.
LEMMA ContinuesPastOpen ==
    ASSUME NEW s \in Seq(Messages), s # <<>>, Head(s).kind = "open",
           NEW a \in Nat, NEW b \in Nat, Continues(s, a, b)
    PROVE  /\ Head(s).stream = a /\ a <= b
           /\ Continues(Tail(s), a + 1, b)
<1> DEFINE t == Tail(s)
<1>1. /\ Len(t) = Len(s) - 1 /\ t \in Seq(Messages)
      /\ \A i \in 1..Len(t) : t[i] = s[i + 1]
  BY HeadTailProperties
<1> HIDE DEF t
<1>2. 1 \in Opens(s) /\ Head(s) = s[1]
  BY DEF Opens
<1>3. s[1].stream \in a..b
  BY <1>2 DEF Continues
<1>4. s[1].stream = a
  <2>1. PICK i \in Opens(s) : s[i].stream = a
    BY <1>3 DEF Continues
  <2>2. i \in Nat /\ (i = 1 \/ 1 < i)
    BY DEF Opens
  <2>3. 1 < i => s[1].stream < a
    BY <1>2, <2>1 DEF Continues
  <2> QED BY <1>3, <2>1, <2>2, <2>3
<1>5. \A i \in Opens(t) : i \in Nat /\ 1 < i + 1 /\ i + 1 \in Opens(s) /\ t[i] = s[i + 1]
  BY <1>1 DEF Opens
<1>6. \A i \in Opens(s) : i = 1 \/ (i - 1 \in Opens(t) /\ t[i - 1] = s[i])
  BY <1>1 DEF Opens
<1>7. \A n \in (a + 1)..b : \E i \in Opens(t) : t[i].stream = n
  <2> SUFFICES ASSUME NEW n \in (a + 1)..b
               PROVE  \E i \in Opens(t) : t[i].stream = n
    OBVIOUS
  <2>1. PICK i \in Opens(s) : s[i].stream = n
    BY DEF Continues
  <2>2. i # 1
    BY <1>4, <2>1
  <2> QED BY <1>6, <2>1, <2>2
<1>8. \A i \in Opens(t) : t[i].stream \in (a + 1)..b
  <2> SUFFICES ASSUME NEW i \in Opens(t)
               PROVE  t[i].stream \in (a + 1)..b
    OBVIOUS
  <2>1. i + 1 \in Opens(s) /\ 1 < i + 1 /\ t[i].stream = s[i + 1].stream
    BY <1>5
  <2>2. s[i + 1].stream \in a..b
    BY <2>1 DEF Continues
  <2>3. s[1].stream < s[i + 1].stream
    BY <1>2, <2>1 DEF Continues
  <2> QED BY <1>4, <2>1, <2>2, <2>3
<1>9. \A i, j \in Opens(t) : i < j => t[i].stream < t[j].stream
  <2> SUFFICES ASSUME NEW i \in Opens(t), NEW j \in Opens(t), i < j
               PROVE  t[i].stream < t[j].stream
    OBVIOUS
  <2>1. i + 1 \in Opens(s) /\ j + 1 \in Opens(s) /\ i + 1 < j + 1
    BY <1>5
  <2>2. s[i + 1].stream < s[j + 1].stream
    BY <2>1 DEF Continues
  <2> QED BY <1>5, <2>2
<1>10. Continues(t, a + 1, b)
  BY <1>7, <1>8, <1>9 DEF Continues
<1>11. Head(s).stream = a /\ a <= b
  BY <1>2, <1>3, <1>4
<1> QED BY <1>10, <1>11 DEF t

\* A message behind the others that opens no stream changes nothing.
LEMMA ContinuesBeforeOther ==
    ASSUME NEW s \in Seq(Messages), NEW m \in Messages, m.kind # "open",
           NEW a \in Nat, NEW b \in Nat, Continues(s, a, b)
    PROVE  Continues(Append(s, m), a, b)
<1>1. /\ Len(Append(s, m)) = Len(s) + 1 /\ Append(s, m) \in Seq(Messages)
      /\ \A i \in 1..Len(s) : Append(s, m)[i] = s[i]
      /\ Append(s, m)[Len(s) + 1] = m
  BY AppendProperties
<1>2. Opens(Append(s, m)) = Opens(s)
  BY <1>1 DEF Opens
<1>3. \A i \in Opens(s) : Append(s, m)[i] = s[i]
  BY <1>1 DEF Opens
<1> QED BY <1>2, <1>3 DEF Continues

\* A message that opens the next stream may follow.
LEMMA ContinuesWithOpen ==
    ASSUME NEW s \in Seq(Messages), NEW a \in Nat, NEW b \in Nat, a <= b + 1,
           b + 1 \in 1..MaxInbound, Continues(s, a, b)
    PROVE  Continues(Append(s, [kind |-> "open", stream |-> b + 1]), a, b + 1)
<1> DEFINE m == [kind |-> "open", stream |-> b + 1]
           t == Append(s, m)
<1>1. m \in Messages /\ m.kind = "open" /\ m.stream = b + 1
  BY DEF Messages
<1> HIDE DEF m
<1>2. /\ Len(t) = Len(s) + 1 /\ t \in Seq(Messages)
      /\ \A i \in 1..Len(s) : t[i] = s[i]
      /\ t[Len(s) + 1] = m
  BY <1>1, AppendProperties
<1> HIDE DEF t
<1>3. Len(s) \in Nat /\ \A i \in Opens(s) : i \in 1..Len(s) /\ t[i] = s[i]
  BY <1>2 DEF Opens
<1>4. Opens(t) = Opens(s) \cup {Len(s) + 1}
  BY <1>1, <1>2 DEF Opens
<1>5. \A i \in Opens(t) : t[i].stream \in a..(b + 1)
  BY <1>1, <1>2, <1>3, <1>4 DEF Continues
<1>6. \A n \in a..(b + 1) : \E i \in Opens(t) : t[i].stream = n
  <2> SUFFICES ASSUME NEW n \in a..(b + 1)
               PROVE  \E i \in Opens(t) : t[i].stream = n
    OBVIOUS
  <2>1. CASE n = b + 1
    BY <1>1, <1>2, <1>4, <2>1
  <2>2. CASE n \in a..b
    BY <1>3, <1>4, <2>2 DEF Continues
  <2> QED BY <2>1, <2>2
<1>7. \A i, j \in Opens(t) : i < j => t[i].stream < t[j].stream
  <2> SUFFICES ASSUME NEW i \in Opens(t), NEW j \in Opens(t), i < j
               PROVE  t[i].stream < t[j].stream
    OBVIOUS
  <2>1. i \in Opens(s)
    BY <1>3, <1>4
  <2>2. CASE j \in Opens(s)
    BY <1>3, <2>1, <2>2 DEF Continues
  <2>3. CASE j = Len(s) + 1
    BY <1>1, <1>2, <1>3, <2>1, <2>3 DEF Continues
  <2> QED BY <1>4, <2>2, <2>3
<1> QED BY <1>5, <1>6, <1>7 DEF Continues, t, m

--------------------------------------------------------------------------------
(* The order of the inbound streams *)

\* Handing a stream to the consumer's channel, and taking it from there, moves the
\* borders between what waits and what was taken, and nothing else.
LEMMA HandMovesOn ==
    ASSUME NEW S, NEW t \in Seq(S), NEW i \in Seq(S), NEW e \in S
    PROVE  t \o Append(i, e) \o <<>> = t \o i \o <<e>>
<1>1. Append(i, e) = i \o <<e>> /\ <<e>> \in Seq(S) /\ t \o i \in Seq(S)
  BY AppendIsConcat, ConcatProperties
<1>2. t \o (i \o <<e>>) = (t \o i) \o <<e>>
  BY <1>1, ConcatAssociative
<1>3. (t \o i) \o <<e>> \in Seq(S)
  BY <1>1, ConcatProperties
<1>4. ((t \o i) \o <<e>>) \o <<>> = (t \o i) \o <<e>>
  BY <1>3, ConcatEmptySeq
<1> QED BY <1>1, <1>2, <1>4

LEMMA TakeMovesOn ==
    ASSUME NEW S, NEW t \in Seq(S), NEW i \in Seq(S), i # <<>>
    PROVE  Append(t, Head(i)) \o Tail(i) = t \o i
<1>1. Head(i) \in S /\ Tail(i) \in Seq(S)
  BY HeadTailProperties
<1>2. Append(t, Head(i)) = t \o <<Head(i)>> /\ <<Head(i)>> \in Seq(S)
  BY <1>1, AppendIsConcat
<1>3. (t \o <<Head(i)>>) \o Tail(i) = t \o (<<Head(i)>> \o Tail(i))
  BY <1>1, <1>2, ConcatAssociative
<1>4. <<Head(i)>> \o Tail(i) = i
  OBVIOUS
<1> QED BY <1>2, <1>3, <1>4

LEMMA InHandTyped ==
    ASSUME TypeOK
    PROVE  InHand \in Seq(1..MaxInbound)
<1>1. taken \o inbound \in Seq(1..MaxInbound)
  BY ConcatProperties DEF TypeOK
<1>2. (IF driver = "handing" THEN <<held>> ELSE <<>>) \in Seq(1..MaxInbound)
  <2>1. CASE driver = "handing"
    <3>1. held \in 1..MaxInbound
      BY <2>1 DEF TypeOK
    <3>2. <<held>> \in Seq(1..MaxInbound)
      BY <3>1
    <3> QED BY <2>1, <3>2
  <2>2. CASE driver # "handing"
    BY <2>2
  <2> QED BY <2>1, <2>2
<1> QED BY <1>1, <1>2, ConcatProperties DEF InHand

\* InboundInOrder, and that no stream is in hand that was not opened.
Order == InboundInOrder /\ Len(InHand) <= arrived

LEMMA OrderInit ==
    ASSUME Init
    PROVE  Order
<1>1. InHand = <<>>
  BY DEF Init, InHand
<1>2. Opens(socket) = {}
  BY DEF Init, Opens
<1> QED BY <1>1, <1>2 DEF Init, Order, InboundInOrder, Continues

\* What a step has to do for Order if nothing gets into the driver's hand.
LEMMA OrderKept ==
    ASSUME Order, InHand' = InHand, arrived' = arrived,
           driver' # "ended" => driver # "ended" /\
             (Continues(socket, Len(InHand) + 1, arrived)
                => Continues(socket', Len(InHand) + 1, arrived))
    PROVE  Order'
BY DEF Order, InboundInOrder

LEMMA OrderNext ==
    ASSUME Bounds, TypeOK, Order, [Next]_vars
    PROVE  Order'
<1> USE DEF calls, consumer, peer
<1> DEFINE next == Len(InHand) + 1
<1>0. /\ InHand \in Seq(1..MaxInbound) /\ next \in Nat /\ arrived \in Nat
      /\ socket \in Seq(Messages)
  BY InHandTyped DEF TypeOK, Bounds
<1>1. CASE UNCHANGED <<driver, held, inbound, taken, socket, arrived>>
  <2>1. InHand' = InHand
    BY <1>1 DEF InHand
  <2> QED BY <1>1, <2>1, OrderKept
<1>2. CASE TakeRequest \/ OpenStream
  <2>1. InHand' = InHand
    BY <1>2 DEF TakeRequest, OpenStream, InHand
  <2> QED BY <1>2, <2>1, OrderKept DEF TakeRequest, OpenStream
<1>3. CASE PollEnd \/ Shutdown
  <2>1. InHand' = InHand
    BY <1>3 DEF PollEnd, Shutdown, Sent, Ends, InHand
  <2> QED BY <1>3, <2>1, OrderKept DEF PollEnd, Shutdown, Ends
<1>4. CASE PollAck
  <2>1. InHand' = InHand
    BY <1>4 DEF PollAck, Sent, InHand
  <2>2. Continues(socket, next, arrived) => Continues(socket', next, arrived)
    BY <1>0, <1>4, ContinuesPastOther DEF PollAck, Sent
  <2> QED BY <1>4, <2>1, <2>2, OrderKept DEF PollAck, Sent
<1>5. CASE PollInbound
  <2>1. /\ driver = "select" /\ socket # <<>> /\ Head(socket).kind = "open"
        /\ socket' = Tail(socket) /\ driver' = "handing" /\ held' = Head(socket).stream
        /\ UNCHANGED <<inbound, taken, arrived>>
    BY <1>5 DEF PollInbound, Sent
  <2>2. Continues(socket, next, arrived)
    BY <2>1 DEF Order, InboundInOrder
  <2>3. held' = next /\ next <= arrived /\ Continues(socket', next + 1, arrived)
    BY <1>0, <2>1, <2>2, ContinuesPastOpen
  <2>4. InHand = taken \o inbound /\ InHand' = Append(InHand, held')
    <3>1. taken \o inbound \in Seq(1..MaxInbound)
      BY ConcatProperties DEF TypeOK
    <3>2. InHand = taken \o inbound
      BY <2>1, <3>1, ConcatEmptySeq DEF InHand
    <3>3. InHand' = (taken \o inbound) \o <<held'>>
      BY <2>1 DEF InHand
    <3>4. held' \in 1..MaxInbound
      BY <2>1, TypeNext DEF TypeOK
    <3> QED BY <3>1, <3>2, <3>3, <3>4, AppendIsConcat
  <2>5. /\ Len(InHand') = next
        /\ \A i \in 1..Len(InHand) : InHand'[i] = InHand[i]
        /\ InHand'[next] = held' /\ InHand' \in Seq(1..MaxInbound)
    <3>1. held' \in 1..MaxInbound
      BY <2>1, TypeNext DEF TypeOK
    <3> QED BY <1>0, <2>4, <3>1, AppendProperties
  <2>6. \A i \in DOMAIN InHand' : InHand'[i] = i
    BY <1>0, <2>3, <2>5 DEF Order, InboundInOrder
  <2> QED BY <2>1, <2>3, <2>5, <2>6 DEF Order, InboundInOrder
<1>6. CASE Hand
  <2>1. held \in 1..MaxInbound /\ inbound \in Seq(1..MaxInbound) /\ taken \in Seq(1..MaxInbound)
    BY <1>6 DEF Hand, TypeOK
  <2>2. InHand = taken \o inbound \o <<held>> /\ InHand' = taken \o Append(inbound, held) \o <<>>
    BY <1>6 DEF Hand, InHand
  <2>3. InHand' = InHand
    BY <2>1, <2>2, HandMovesOn
  <2> QED BY <1>6, <2>3, OrderKept DEF Hand
<1>7. CASE Take
  <2>1. inbound \in Seq(1..MaxInbound) /\ inbound # <<>> /\ taken \in Seq(1..MaxInbound)
    BY <1>7 DEF Take, TypeOK
  <2>2. taken' \o inbound' = taken \o inbound
    BY <1>7, <2>1, TakeMovesOn DEF Take
  <2>3. InHand' = InHand
    BY <1>7, <2>2 DEF Take, InHand
  <2> QED BY <1>7, <2>3, OrderKept DEF Take
<1>8. ASSUME NEW m \in Messages, m.kind # "open", socket' = Append(socket, m),
             UNCHANGED <<driver, held, inbound, taken, arrived>>
      PROVE  Order'
  <2>1. InHand' = InHand
    BY <1>8 DEF InHand
  <2>2. Continues(socket, next, arrived) => Continues(socket', next, arrived)
    BY <1>0, <1>8, ContinuesBeforeOther
  <2> QED BY <1>8, <2>1, <2>2, OrderKept
<1>9. CASE PeerOpens
  <2>1. InHand' = InHand /\ driver # "ended" /\ driver' = driver /\ arrived' = arrived + 1
    BY <1>9 DEF PeerOpens, Connected, InHand
  <2>2. next <= arrived + 1 /\ Continues(socket, next, arrived)
    BY <1>0, <2>1 DEF Order, InboundInOrder
  <2>3. arrived + 1 \in 1..MaxInbound
    BY <1>9 DEF PeerOpens, TypeOK, Bounds
  <2>4. Continues(socket', next, arrived')
    BY <1>0, <1>9, <2>1, <2>2, <2>3, ContinuesWithOpen DEF PeerOpens, Sends
  <2> QED BY <1>0, <2>1, <2>4 DEF Order, InboundInOrder
<1>10. ASSUME NEW o \in Openers, PeerAcks(o)
       PROVE  Order'
  <2>1. [kind |-> "ack", stream |-> o] \in Messages
    BY DEF Messages
  <2> QED BY <1>8, <1>10, <2>1 DEF PeerAcks, Sends
<1>11. CASE PeerEnds
  <2>1. [kind |-> "end", stream |-> 0] \in Messages
    BY DEF Messages
  <2> QED BY <1>8, <1>11, <2>1 DEF PeerEnds, Sends
<1>12. ASSUME NEW o \in Openers,
              Ask(o) \/ Send(o) \/ Refused(o) \/ TimesOut(o) \/ Release(o)
       PROVE  Order'
  BY <1>1, <1>12 DEF Ask, Send, Refused, TimesOut, Release
<1>13. CASE PollDropped \/ StopReading \/ Close \/ UNCHANGED vars
  BY <1>1, <1>13 DEF PollDropped, StopReading, Close, vars
<1> QED
  BY <1>2, <1>3, <1>4, <1>5, <1>6, <1>7, <1>9, <1>10, <1>11, <1>12, <1>13
  DEF Next, Driver, Users, Peer

\* The consumer gets the inbound streams in the order in which they were opened, and
\* none is missing or doubled, at any capacity of the channel and however slow the
\* consumer is (YamuxSession::spawn, next_inbound).
THEOREM InboundKeepsOrder ==
    ASSUME Bounds
    PROVE  Spec => []InboundInOrder
<1>1. Init => TypeOK /\ Order
  BY TypeInit, OrderInit
<1>2. TypeOK /\ Order /\ [Next]_vars => (TypeOK /\ Order)'
  BY TypeNext, OrderNext
<1>3. Order => InboundInOrder
  BY DEF Order
<1> QED BY <1>1, <1>2, <1>3, PTL DEF Spec
================================================================================
