--------------------------- MODULE FrameCodec_proofs ---------------------------
(***************************************************************************)
(* Theorems about FrameCodec: both readers return what was written, they   *)
(* agree on any bytes, and they hold no more than a frame, for any number  *)
(* of byte values, frames and noise.                                       *)
(*                                                                         *)
(* The argument is about what has arrived and has not been returned: it    *)
(* is the bytes of whole frames, and what follows them.                    *)
(***************************************************************************)
EXTENDS FrameCodec, SequenceTheorems, TLAPS

--------------------------------------------------------------------------------
(* The length of a frame in four digits *)

\* A byte has two values or more, and the length of any frame fits into four of them.
Bounds ==
    /\ Radix \in Nat \ {0, 1} /\ MaxFrame \in Nat
    /\ MaxFrame < Radix * Radix * Radix * Radix

\* Quotient and remainder, as the digits of a length need them.
LEMMA Division ==
    ASSUME NEW n \in Nat, NEW d \in Nat \ {0}
    PROVE  /\ n \div d \in Nat /\ n % d \in 0..(d - 1)
           /\ n = (n \div d) * d + (n % d)
OBVIOUS

LEMMA Dividing ==
    ASSUME NEW d \in Nat \ {0}, NEW q \in Nat, NEW r \in 0..(d - 1)
    PROVE  (q * d + r) \div d = q /\ (q * d + r) % d = r
OBVIOUS

LEMMA OneMoreDigit ==
    ASSUME Bounds, NEW q \in Nat, NEW r \in Bytes
    PROVE  /\ q * Radix + r \in Nat
           /\ (q * Radix + r) \div Radix = q /\ (q * Radix + r) % Radix = r
<1>1. Radix \in Nat \ {0} /\ r \in 0..(Radix - 1) /\ r \in Nat
  BY DEF Bounds, Bytes
<1>2. q * Radix + r \in Nat
  BY <1>1
<1> QED BY <1>1, <1>2, Dividing

LEMMA DivisionTwice ==
    ASSUME NEW n \in Nat, NEW a \in Nat \ {0}, NEW b \in Nat \ {0}
    PROVE  n \div (a * b) = (n \div a) \div b
OBVIOUS

\* What get_u32 reads is what put_u32 has written,
LEMMA LengthOfHeader ==
    ASSUME Bounds, NEW n \in 0..MaxFrame
    PROVE  /\ Header(n) \in Seq(Bytes) /\ Len(Header(n)) = HeaderSize
           /\ Length(Header(n)) = n
<1> DEFINE q == n \div Radix
           p == q \div Radix
           o == p \div Radix
<1>0. Radix \in Nat \ {0} /\ Radix * Radix \in Nat \ {0}
  BY DEF Bounds
<1>1. n \in Nat /\ n < Radix * Radix * Radix * Radix
  BY DEF Bounds
<1>2. q \in Nat /\ n % Radix \in Bytes /\ n = q * Radix + (n % Radix)
  BY <1>0, <1>1, Division DEF Bytes
<1> HIDE DEF q
<1>3. p \in Nat /\ q % Radix \in Bytes /\ q = p * Radix + (q % Radix)
  BY <1>0, <1>2, Division DEF Bytes
<1> HIDE DEF p
<1>4. o \in Nat /\ p % Radix \in Bytes /\ p = o * Radix + (p % Radix)
  BY <1>0, <1>3, Division DEF Bytes
<1> HIDE DEF o
<1>5. o < Radix
  <2>1. n < Radix * Radix * Radix * Radix => q < Radix * Radix * Radix
    BY <1>0, <1>2 DEF Bytes
  <2>2. q < Radix * Radix * Radix => p < Radix * Radix
    BY <1>0, <1>2, <1>3 DEF Bytes
  <2>3. p < Radix * Radix => o < Radix
    BY <1>0, <1>3, <1>4 DEF Bytes
  <2> QED BY <1>1, <2>1, <2>2, <2>3
<1>6. o % Radix = o /\ o \in Bytes
  BY <1>0, <1>4, <1>5 DEF Bytes
<1>7. /\ n \div 1 = n
      /\ n \div (Radix * Radix) = p
      /\ n \div (Radix * Radix * Radix) = o
  <2>1. n \div 1 = n
    BY <1>1
  <2>2. n \div (Radix * Radix) = p
    BY <1>0, <1>1, DivisionTwice DEF p, q
  <2>3. n \div ((Radix * Radix) * Radix) = (n \div (Radix * Radix)) \div Radix
    BY <1>0, <1>1, DivisionTwice
  <2> QED BY <2>1, <2>2, <2>3 DEF o
<1>8. Header(n) = <<o, p % Radix, q % Radix, n % Radix>>
  BY <1>6, <1>7 DEF Header, Digit, q
<1>9. Header(n) \in Seq(Bytes) /\ Len(Header(n)) = HeaderSize
  BY <1>2, <1>3, <1>4, <1>6, <1>8 DEF HeaderSize
<1>10. Length(Header(n)) = n
  BY <1>2, <1>3, <1>4, <1>8 DEF Length
<1> QED BY <1>9, <1>10

\* and what put_u32 would write is what get_u32 has read.
LEMMA HeaderOfLength ==
    ASSUME Bounds, NEW b \in Seq(Bytes), Len(b) >= HeaderSize
    PROVE  Length(b) \in Nat /\ Header(Length(b)) = SubSeq(b, 1, HeaderSize)
<1> DEFINE o == b[1]
           p == o * Radix + b[2]
           q == p * Radix + b[3]
           n == q * Radix + b[4]
<1>0. /\ Radix \in Nat \ {0} /\ Radix * Radix \in Nat \ {0}
      /\ b[1] \in Bytes /\ b[2] \in Bytes /\ b[3] \in Bytes /\ b[4] \in Bytes
  BY DEF Bounds, HeaderSize
<1>1. o \in Bytes /\ o \in Nat
  BY <1>0 DEF Bytes, Bounds
<1> HIDE DEF o
<1>2. p \in Nat /\ p \div Radix = o /\ p % Radix = b[2]
  BY <1>0, <1>1, OneMoreDigit
<1> HIDE DEF p
<1>3. q \in Nat /\ q \div Radix = p /\ q % Radix = b[3]
  BY <1>0, <1>2, OneMoreDigit
<1> HIDE DEF q
<1>4. n \in Nat /\ n \div Radix = q /\ n % Radix = b[4]
  BY <1>0, <1>3, OneMoreDigit
<1>5. Length(b) = n
  BY DEF Length, o, p, q
<1> HIDE DEF n
<1>6. n \div 1 = n
  BY <1>4
<1>7. n \div (Radix * Radix) = p
  BY <1>0, <1>3, <1>4, DivisionTwice
<1>8. n \div ((Radix * Radix) * Radix) = o
  BY <1>0, <1>2, <1>4, <1>7, DivisionTwice
<1>9. o % Radix = o
  <2>1. 0 * Radix + o = o
    BY <1>0, <1>1
  <2> QED BY <1>1, <2>1, OneMoreDigit
<1>10. Header(n) = <<b[1], b[2], b[3], b[4]>>
  BY <1>2, <1>3, <1>4, <1>6, <1>7, <1>8, <1>9 DEF Header, Digit, o
<1>11. SubSeq(b, 1, HeaderSize) = <<b[1], b[2], b[3], b[4]>>
  <2> DEFINE h == SubSeq(b, 1, HeaderSize)
             g == <<b[1], b[2], b[3], b[4]>>
  <2>1. h \in Seq(Bytes) /\ Len(h) = 4 /\ \A i \in 1..4 : h[i] = b[i]
    <3>1. \A i \in 1..4 : b[i] \in Bytes
      BY <1>0
    <3> QED BY <3>1, SubSeqProperties DEF HeaderSize
  <2>2. g \in Seq(Bytes) /\ Len(g) = 4 /\ \A i \in 1..4 : g[i] = b[i]
    BY <1>0
  <2> HIDE DEF h, g
  <2>3. Len(h) = Len(g) /\ \A i \in 1..Len(h) : h[i] = g[i]
    BY <2>1, <2>2
  <2>4. h = g
    BY <2>1, <2>2, <2>3, SeqEqual
  <2> QED BY <2>4 DEF h, g
<1> QED BY <1>4, <1>5, <1>10, <1>11

--------------------------------------------------------------------------------
(* Frames at the head of a buffer *)

\* The payloads that both readers accept.
Good == {p \in Seq(Bytes) : p # <<>> /\ Len(p) <= MaxFrame /\ Wellformed(p)}

\* The bytes of a frame are its length and its payload.
LEMMA EncodeGood ==
    ASSUME Bounds, NEW p \in Good
    PROVE  /\ p \in Seq(Bytes) /\ Len(p) \in 1..MaxFrame
           /\ Header(Len(p)) \in Seq(Bytes) /\ Len(Header(Len(p))) = HeaderSize
           /\ Length(Header(Len(p))) = Len(p)
           /\ Encode(p) = Header(Len(p)) \o p /\ Encode(p) \in Seq(Bytes)
           /\ Len(Encode(p)) = HeaderSize + Len(p)
<1>1. p \in Seq(Bytes) /\ Len(p) \in 1..MaxFrame /\ Len(p) \in 0..MaxFrame
  BY EmptySeq DEF Good, Bounds
<1>2. /\ Header(Len(p)) \in Seq(Bytes) /\ Len(Header(Len(p))) = HeaderSize
      /\ Length(Header(Len(p))) = Len(p)
  BY <1>1, LengthOfHeader
<1>3. Encode(p) = Header(Len(p)) \o p
  <2>1. ~(Len(p) > MaxFrame)
    BY <1>1 DEF Bounds
  <2> QED BY <2>1 DEF Encode
<1> QED BY <1>1, <1>2, <1>3, ConcatProperties

LEMMA BytesAssociate ==
    \A s, t, u \in Seq(Bytes) : (s \o t) \o u = s \o (t \o u)
BY ConcatAssociative

\* What comes after a header does not change the length that is read from it.
LEMMA LengthOfPrefix ==
    ASSUME Bounds, NEW b \in Seq(Bytes), NEW c \in Seq(Bytes), Len(b) >= HeaderSize
    PROVE  Length(b \o c) = Length(b) /\ Length(b) \in Nat /\ Len(b \o c) = Len(b) + Len(c)
<1> DEFINE a == b \o c
<1>1. Len(a) = Len(b) + Len(c) /\ \A i \in 1..4 : a[i] = b[i]
  BY ConcatProperties DEF HeaderSize
<1> HIDE DEF a
<1>2. a[1] = b[1] /\ a[2] = b[2] /\ a[3] = b[3] /\ a[4] = b[4]
  BY <1>1
<1>3. Length(a) = Length(b)
  BY <1>2 DEF Length
<1> QED BY <1>1, <1>3, HeaderOfLength DEF a

\* A header, as many bytes as it says, and others.
LEMMA CutFrame ==
    ASSUME Bounds, NEW n \in 1..MaxFrame, NEW u \in Seq(Bytes), Len(u) >= n
    PROVE  LET b == Header(n) \o u IN
           /\ b \in Seq(Bytes) /\ Length(b) = n /\ ~Incomplete(b)
           /\ Payload(b) = SubSeq(u, 1, n) /\ After(b) = SubSeq(u, n + 1, Len(u))
<1> DEFINE h == Header(n)
           b == h \o u
<1>1. h \in Seq(Bytes) /\ Len(h) = 4 /\ Length(h) = n
  BY LengthOfHeader DEF HeaderSize, Bounds
<1> HIDE DEF h
<1>2. /\ b \in Seq(Bytes) /\ Length(b) = n /\ Len(b) = 4 + Len(u)
      /\ Len(u) \in Nat
      /\ \A i \in 1..Len(b) : b[i] = IF i <= 4 THEN h[i] ELSE u[i - 4]
  <2>1. Len(h) >= HeaderSize
    BY <1>1 DEF HeaderSize
  <2>2. Length(h \o u) = Length(h)
    BY <1>1, <2>1, LengthOfPrefix
  <2>3. /\ h \o u \in Seq(Bytes) /\ Len(h \o u) = Len(h) + Len(u)
        /\ \A i \in 1..(Len(h) + Len(u)) :
               (h \o u)[i] = IF i <= Len(h) THEN h[i] ELSE u[i - Len(h)]
    BY <1>1, ConcatProperties
  <2>4. Len(u) \in Nat
    BY LenProperties
  <2> QED BY <1>1, <2>2, <2>3, <2>4
<1> HIDE DEF b
<1>3. n \in Int /\ n >= 1 /\ n <= MaxFrame
  BY DEF Bounds
<1>4. ~Incomplete(b)
  BY <1>2, <1>3 DEF Incomplete, HeaderSize
<1>5. Payload(b) = SubSeq(u, 1, n)
  <2>1. \A i \in 1..n : u[i] \in Bytes
    BY <1>2, <1>3
  <2>2. \A i \in 5..(4 + n) : b[i] \in Bytes
    BY <1>2, <1>3
  <2>3. /\ SubSeq(u, 1, n) \in Seq(Bytes) /\ Len(SubSeq(u, 1, n)) = n
        /\ \A i \in 1..n : SubSeq(u, 1, n)[i] = u[i]
    BY <1>3, <2>1, SubSeqProperties
  <2>4. /\ SubSeq(b, 5, 4 + n) \in Seq(Bytes) /\ Len(SubSeq(b, 5, 4 + n)) = n
        /\ \A i \in 1..n : SubSeq(b, 5, 4 + n)[i] = b[4 + i]
    BY <1>3, <2>2, SubSeqProperties
  <2>5. \A i \in 1..n : b[4 + i] = u[i]
    BY <1>2, <1>3
  <2>6. SubSeq(b, 5, 4 + n) = SubSeq(u, 1, n)
    BY <1>3, <2>3, <2>4, <2>5, SeqEqual
  <2> QED BY <1>2, <2>6 DEF Payload, HeaderSize
<1>6. After(b) = SubSeq(u, n + 1, Len(u))
  <2> DEFINE k == Len(u) - n
  <2>1. k \in Nat
    BY <1>2, <1>3
  <2>2. /\ SubSeq(u, n + 1, Len(u)) \in Seq(Bytes) /\ Len(SubSeq(u, n + 1, Len(u))) = k
        /\ \A i \in 1..k : SubSeq(u, n + 1, Len(u))[i] = u[n + i]
    <3>1. \A i \in (n + 1)..Len(u) : u[i] \in Bytes
      BY <1>2, <1>3
    <3> QED BY <1>2, <1>3, <3>1, SubSeqProperties
  <2>3. /\ SubSeq(b, n + 5, Len(b)) \in Seq(Bytes) /\ Len(SubSeq(b, n + 5, Len(b))) = k
        /\ \A i \in 1..k : SubSeq(b, n + 5, Len(b))[i] = b[n + 4 + i]
    <3>1. \A i \in (n + 5)..Len(b) : b[i] \in Bytes
      BY <1>2, <1>3
    <3> QED BY <1>2, <1>3, <3>1, SubSeqProperties
  <2>4. \A i \in 1..k : b[n + 4 + i] = u[n + i]
    BY <1>2, <1>3, <2>1
  <2>5. SubSeq(b, n + 5, Len(b)) = SubSeq(u, n + 1, Len(u))
    <3> HIDE DEF k
    <3> QED BY <2>1, <2>2, <2>3, <2>4, SeqEqual
  <2>6. HeaderSize + Length(b) + 1 = n + 5
    BY <1>2, <1>3 DEF HeaderSize
  <2> QED BY <2>5, <2>6 DEF After
<1> QED BY <1>2, <1>4, <1>5, <1>6 DEF b, h

\* A sequence without its first elements.
LEMMA Dropped ==
    ASSUME NEW S, NEW s \in Seq(S), NEW k \in 0..Len(s)
    PROVE  SubSeq(s, k + 1, Len(s)) \in Seq(S) /\ Len(SubSeq(s, k + 1, Len(s))) = Len(s) - k
<1>1. \A i \in (k + 1)..Len(s) : s[i] \in S
  OBVIOUS
<1> QED BY <1>1, SubSeqProperties

\* A piece of what is under way.
LEMMA PieceTyped ==
    ASSUME NEW S, NEW s \in Seq(S), NEW k \in 1..Len(s)
    PROVE  /\ SubSeq(s, 1, k) \in Seq(S) /\ SubSeq(s, k + 1, Len(s)) \in Seq(S)
           /\ SubSeq(s, 1, k) \o SubSeq(s, k + 1, Len(s)) = s
<1>1. \A i \in 1..k : s[i] \in S
  OBVIOUS
<1>2. SubSeq(s, 1, k) \in Seq(S)
  BY <1>1, SubSeqProperties
<1>3. SubSeq(s, 1, k) \o SubSeq(s, k + 1, Len(s)) = s
  BY ConcatAdjacentSubSeq, SubSeqFull
<1> QED BY <1>2, <1>3, Dropped

\* A header and what comes after it.
LEMMA CutHeader ==
    ASSUME Bounds, NEW b \in Seq(Bytes), Len(b) >= HeaderSize
    PROVE  LET u == SubSeq(b, HeaderSize + 1, Len(b)) IN
           u \in Seq(Bytes) /\ Len(u) = Len(b) - HeaderSize /\ b = Header(Length(b)) \o u
<1>1. SubSeq(b, 1, HeaderSize) \o SubSeq(b, HeaderSize + 1, Len(b)) = b
  BY ConcatAdjacentSubSeq, SubSeqFull DEF HeaderSize
<1>2. HeaderSize \in 0..Len(b)
  BY DEF HeaderSize
<1> QED BY <1>1, <1>2, Dropped, HeaderOfLength

\* The frame at the head of a buffer that holds all of it.
LEMMA FirstFrame ==
    ASSUME Bounds, NEW b \in Seq(Bytes), ~Incomplete(b), Accepted(Length(b))
    PROVE  /\ Payload(b) \in Seq(Bytes) /\ Len(Payload(b)) = Length(b)
           /\ After(b) \in Seq(Bytes)
           /\ b = Header(Length(b)) \o (Payload(b) \o After(b))
<1> DEFINE n == Length(b)
           u == SubSeq(b, HeaderSize + 1, Len(b))
<1>1. n \in 1..MaxFrame /\ Len(b) >= HeaderSize /\ Len(b) >= HeaderSize + n
  <2>1. Len(b) >= HeaderSize
    BY DEF Incomplete, HeaderSize
  <2>2. n \in Nat /\ Len(b) \in Nat
    BY <2>1, HeaderOfLength
  <2>3. ~(Len(b) < HeaderSize + n)
    BY <2>1 DEF Incomplete, HeaderSize
  <2> QED BY <2>1, <2>2, <2>3 DEF Accepted, HeaderSize
<1>2. u \in Seq(Bytes) /\ b = Header(n) \o u /\ Len(u) >= n
  <2>1. u \in Seq(Bytes) /\ b = Header(n) \o u /\ Len(u) = Len(b) - HeaderSize
    BY <1>1, CutHeader
  <2>2. Len(b) \in Nat /\ n \in Nat
    BY <1>1, HeaderOfLength
  <2> QED BY <1>1, <2>1, <2>2 DEF HeaderSize
<1> HIDE DEF n, u
<1>3. Payload(b) = SubSeq(u, 1, n) /\ After(b) = SubSeq(u, n + 1, Len(u))
  BY <1>1, <1>2, CutFrame
<1>4. n \in Nat /\ n >= 1 /\ Len(u) \in Nat
  BY <1>1, <1>2 DEF Bounds
<1>5. Payload(b) \o After(b) = u
  BY <1>2, <1>3, <1>4, ConcatAdjacentSubSeq, SubSeqFull
<1>6. Payload(b) \in Seq(Bytes) /\ Len(Payload(b)) = n
  <2>1. \A i \in 1..n : u[i] \in Bytes
    BY <1>2, <1>4
  <2> QED BY <1>3, <1>4, <2>1, SubSeqProperties
<1>7. After(b) \in Seq(Bytes)
  <2>1. \A i \in (n + 1)..Len(u) : u[i] \in Bytes
    BY <1>2, <1>4
  <2> QED BY <1>3, <1>4, <2>1, SubSeqProperties
<1> QED BY <1>2, <1>5, <1>6, <1>7 DEF n

\* A sequence that was put together can be taken apart.
LEMMA CutConcat ==
    ASSUME NEW S, NEW s \in Seq(S), NEW t \in Seq(S)
    PROVE  /\ SubSeq(s \o t, 1, Len(s)) = s
           /\ SubSeq(s \o t, Len(s) + 1, Len(s \o t)) = t
<1>1. Len(s) \in Nat /\ Len(t) \in Nat /\ Len(s \o t) = Len(s) + Len(t) /\ s \o t \in Seq(S)
  BY ConcatProperties
<1>2. SubSeq(s \o t, 1, Len(s)) = s
  <2>1. CASE Len(s) = 0
    BY <1>1, <2>1, SubSeqEmpty, EmptySeq
  <2>2. CASE Len(s) > 0
    <3>1. 1 \in 1..Len(s) /\ Len(s) \in 1..Len(s)
      BY <1>1, <2>2
    <3> QED BY <3>1, SubSeqOfConcat1, SubSeqFull
  <2> QED BY <1>1, <2>1, <2>2
<1>3. SubSeq(s \o t, Len(s) + 1, Len(s \o t)) = t
  <2>1. CASE Len(t) = 0
    BY <1>1, <2>1, SubSeqEmpty, EmptySeq
  <2>2. CASE Len(t) > 0
    <3>1. /\ Len(s) + 1 \in Len(s) + 1..Len(s) + Len(t)
          /\ Len(s) + Len(t) \in Len(s) + 1..Len(s) + Len(t)
      BY <1>1, <2>2
    <3>2. SubSeq(s \o t, Len(s) + 1, Len(s) + Len(t))
            = SubSeq(t, Len(s) + 1 - Len(s), Len(s) + Len(t) - Len(s))
      BY <3>1, SubSeqOfConcat2
    <3>3. Len(s) + 1 - Len(s) = 1 /\ Len(s) + Len(t) - Len(s) = Len(t)
      BY <1>1
    <3> QED BY <1>1, <3>2, <3>3, SubSeqFull
  <2> QED BY <1>1, <2>1, <2>2
<1> QED BY <1>2, <1>3

--------------------------------------------------------------------------------
(* The bytes of a sequence of frames *)

\* Framed relates the bytes of frames, one after the other, to their payloads: it is
\* the least relation that has the pair of nothing and nothing, and with a pair the
\* one with a frame more.
Pairs == Seq(Bytes) \X Seq(Good)
Closed(R) ==
    /\ <<<<>>, <<>>>> \in R
    /\ \A b \in Seq(Bytes), ps \in Seq(Good), p \in Good :
           <<b, ps>> \in R => <<b \o Encode(p), Append(ps, p)>> \in R
Framed(b, ps) == \A R \in SUBSET Pairs : Closed(R) => <<b, ps>> \in R

\* No bytes, no frames.
LEMMA NothingFramed ==
    Framed(<<>>, <<>>)
BY DEF Framed, Closed

\* Framed relates nothing but bytes and good payloads.
LEMMA PairsClosed ==
    ASSUME Bounds
    PROVE  Closed(Pairs)
<1>1. <<<<>>, <<>>>> \in Pairs
  BY EmptySeq DEF Pairs
<1>2. ASSUME NEW b \in Seq(Bytes), NEW ps \in Seq(Good), NEW p \in Good
      PROVE  <<b \o Encode(p), Append(ps, p)>> \in Pairs
  BY EncodeGood, ConcatProperties, AppendProperties DEF Pairs
<1> QED BY <1>1, <1>2 DEF Closed

LEMMA FramedTyped ==
    ASSUME Bounds, NEW b, NEW ps, Framed(b, ps)
    PROVE  b \in Seq(Bytes) /\ ps \in Seq(Good)
<1>1. <<b, ps>> \in Pairs
  BY PairsClosed DEF Framed
<1> QED BY <1>1 DEF Pairs

\* A writer adds its frame to the frames before it.
LEMMA FrameAppended ==
    ASSUME Bounds, NEW b, NEW ps, Framed(b, ps), NEW p \in Good
    PROVE  Framed(b \o Encode(p), Append(ps, p))
<1>1. b \in Seq(Bytes) /\ ps \in Seq(Good)
  BY FramedTyped
<1> QED BY <1>1 DEF Framed, Closed

\* Frames that are not none begin with one, and what follows it are frames.
LEMMA FrameFirst ==
    ASSUME Bounds, NEW b, NEW ps, Framed(b, ps)
    PROVE  \/ b = <<>> /\ ps = <<>>
           \/ /\ ps # <<>> /\ Head(ps) \in Good
              /\ \E c \in Seq(Bytes) : b = Encode(Head(ps)) \o c /\ Framed(c, Tail(ps))
<1> DEFINE Begins(d, qs) ==
               \/ d = <<>> /\ qs = <<>>
               \/ /\ qs # <<>> /\ Head(qs) \in Good
                  /\ \E c \in Seq(Bytes) : d = Encode(Head(qs)) \o c /\ Framed(c, Tail(qs))
           R == {r \in Pairs : Begins(r[1], r[2])}
<1>1. <<<<>>, <<>>>> \in R
  BY EmptySeq DEF Pairs
<1>2. ASSUME NEW d \in Seq(Bytes), NEW qs \in Seq(Good), NEW p \in Good, Begins(d, qs)
      PROVE  Begins(d \o Encode(p), Append(qs, p))
  <2>1. /\ Append(qs, p) # <<>> /\ Encode(p) \in Seq(Bytes)
        /\ Head(Append(qs, p)) = IF qs = <<>> THEN p ELSE Head(qs)
        /\ Tail(Append(qs, p)) = IF qs = <<>> THEN <<>> ELSE Append(Tail(qs), p)
    <3>1. Append(qs, p) # <<>>
      BY AppendProperties
    <3>2. Encode(p) \in Seq(Bytes)
      BY EncodeGood
    <3> QED BY <3>1, <3>2, HeadTailAppend
  <2>2. CASE d = <<>> /\ qs = <<>>
    <3>1. d \o Encode(p) = Encode(p) \o <<>> /\ <<>> \in Seq(Bytes)
      BY <2>1, <2>2, ConcatEmptySeq
    <3> QED BY <2>1, <2>2, <3>1, NothingFramed
  <2>3. CASE qs # <<>>
    <3>1. Head(qs) \in Good
      BY <1>2, <2>3
    <3>2. PICK c \in Seq(Bytes) : d = Encode(Head(qs)) \o c /\ Framed(c, Tail(qs))
      BY <1>2, <2>3
    <3>3. Encode(Head(qs)) \in Seq(Bytes)
      BY <3>1, EncodeGood
    <3>4. d \o Encode(p) = Encode(Head(qs)) \o (c \o Encode(p))
      BY <2>1, <3>2, <3>3, BytesAssociate
    <3>5. c \o Encode(p) \in Seq(Bytes)
      BY <2>1, ConcatProperties
    <3>6. Framed(c \o Encode(p), Append(Tail(qs), p))
      BY <3>2, FrameAppended
    <3> QED BY <2>1, <2>3, <3>1, <3>4, <3>5, <3>6
  <2> QED BY <1>2, <2>2, <2>3
<1>3. Closed(R)
  <2>1. ASSUME NEW d \in Seq(Bytes), NEW qs \in Seq(Good), NEW p \in Good, <<d, qs>> \in R
        PROVE  <<d \o Encode(p), Append(qs, p)>> \in R
    <3>1. Begins(d, qs)
      BY <2>1
    <3>2. Begins(d \o Encode(p), Append(qs, p))
      BY <1>2, <3>1
    <3>3. <<d \o Encode(p), Append(qs, p)>> \in Pairs
      BY PairsClosed, <2>1 DEF Closed
    <3> QED BY <3>2, <3>3
  <2> QED BY <1>1, <2>1 DEF Closed
<1>4. <<b, ps>> \in R
  <2> HIDE DEF R
  <2>1. R \subseteq Pairs
    BY DEF R
  <2> QED BY <1>3, <2>1 DEF Framed
<1> QED BY <1>4

--------------------------------------------------------------------------------
(* A buffer at the front of frames *)

\* What a buffer holds of its first frame is not changed by what follows.
LEMMA LongerBuffer ==
    ASSUME Bounds, NEW b \in Seq(Bytes), NEW c \in Seq(Bytes), ~Incomplete(b)
    PROVE  /\ ~Incomplete(b \o c) /\ Length(b \o c) = Length(b)
           /\ Accepted(Length(b)) =>
                /\ Payload(b \o c) = Payload(b)
                /\ After(b \o c) = After(b) \o c
<1>1. Len(b) \in Nat /\ Len(c) \in Nat /\ Len(b) >= HeaderSize
  BY DEF Incomplete, HeaderSize
<1>2. /\ Length(b \o c) = Length(b) /\ Length(b) \in Nat /\ Len(b \o c) = Len(b) + Len(c)
      /\ b \o c \in Seq(Bytes)
  BY <1>1, LengthOfPrefix, ConcatProperties
<1>3. ~Incomplete(b \o c)
  BY <1>1, <1>2 DEF Incomplete, HeaderSize
<1>4. ASSUME Accepted(Length(b))
      PROVE  Payload(b \o c) = Payload(b) /\ After(b \o c) = After(b) \o c
  <2> DEFINE n == Length(b)
             p == Payload(b)
             a == After(b)
  <2>1. p \in Seq(Bytes) /\ Len(p) = n /\ a \in Seq(Bytes) /\ b = Header(n) \o (p \o a)
    BY <1>4, FirstFrame
  <2>2. n \in 1..MaxFrame
    BY <1>4 DEF Accepted
  <2> HIDE DEF n, p, a
  <2>3. Header(n) \in Seq(Bytes) /\ p \o a \in Seq(Bytes) /\ a \o c \in Seq(Bytes)
    BY <2>1, <2>2, LengthOfHeader, ConcatProperties DEF Bounds
  <2>4. b \o c = Header(n) \o (p \o (a \o c))
    <3>0. p \in Seq(Bytes) /\ a \in Seq(Bytes)
      BY <2>1
    <3>1. (Header(n) \o (p \o a)) \o c = Header(n) \o ((p \o a) \o c)
      <4> DEFINE h == Header(n)
                 r == p \o a
      <4>1. h \in Seq(Bytes) /\ r \in Seq(Bytes)
        BY <2>3
      <4> HIDE DEF h, r
      <4>2. (h \o r) \o c = h \o (r \o c)
        BY <4>1, BytesAssociate
      <4> QED BY <4>2 DEF h, r
    <3>2. (p \o a) \o c = p \o (a \o c)
      BY <3>0, BytesAssociate
    <3> QED BY <2>1, <3>1, <3>2
  <2> DEFINE u == p \o (a \o c)
  <2>5. u \in Seq(Bytes) /\ Len(u) = n + Len(a \o c) /\ Len(a \o c) \in Nat /\ n \in Nat
    <3>1. u \in Seq(Bytes) /\ Len(u) = Len(p) + Len(a \o c)
      BY <2>1, <2>3, ConcatProperties
    <3>2. Len(a \o c) \in Nat
      BY <2>3, LenProperties
    <3> QED BY <2>1, <2>2, <3>1, <3>2 DEF Bounds
  <2>6. SubSeq(u, 1, n) = p /\ SubSeq(u, n + 1, Len(u)) = a \o c
    BY <2>1, <2>3, <2>5, CutConcat
  <2> HIDE DEF u
  <2>7. Len(u) >= n
    BY <2>5
  <2>8. Payload(b \o c) = SubSeq(u, 1, n) /\ After(b \o c) = SubSeq(u, n + 1, Len(u))
    BY <2>2, <2>4, <2>5, <2>7, CutFrame DEF u
  <2> QED BY <2>6, <2>8 DEF p, a
<1> QED BY <1>2, <1>3, <1>4

\* Frames, and a buffer that holds the first of them at least.
LEMMA FrontOfFrame ==
    ASSUME Bounds, NEW b \in Seq(Bytes), NEW c \in Seq(Bytes),
           NEW p \in Good, NEW d \in Seq(Bytes), b \o c = Encode(p) \o d, ~Incomplete(b)
    PROVE  /\ Accepted(Length(b)) /\ Payload(b) = p
           /\ After(b) \o c = d
<1> DEFINE n == Len(p)
           u == p \o d
<1>1. p \in Seq(Bytes) /\ n \in 1..MaxFrame /\ Header(n) \in Seq(Bytes) /\ Encode(p) = Header(n) \o p
  BY EncodeGood
<1>2. b \o c = Header(n) \o u
  <2>1. (Header(n) \o p) \o d = Header(n) \o (p \o d)
    BY <1>1, BytesAssociate
  <2> QED BY <1>1, <2>1
<1>3. u \in Seq(Bytes) /\ Len(u) >= n
  BY <1>1, ConcatProperties
<1>4. SubSeq(u, 1, n) = p /\ SubSeq(u, n + 1, Len(u)) = d
  BY <1>1, CutConcat
<1> HIDE DEF n, u
<1>5. Length(b \o c) = n /\ Payload(b \o c) = p /\ After(b \o c) = d
  BY <1>1, <1>2, <1>3, <1>4, CutFrame
<1>6. Length(b) = n
  BY <1>5, LongerBuffer
<1>7. Accepted(Length(b))
  BY <1>1, <1>6 DEF Accepted
<1> QED BY <1>5, <1>7, LongerBuffer

\* A buffer at the front of frames that holds the first of them.
LEMMA FirstOfFrames ==
    ASSUME Bounds, NEW b \in Seq(Bytes), NEW c \in Seq(Bytes), NEW ps,
           Framed(b \o c, ps), ~Incomplete(b)
    PROVE  /\ ps # <<>> /\ Head(ps) \in Good
           /\ Accepted(Length(b)) /\ Payload(b) = Head(ps)
           /\ Framed(After(b) \o c, Tail(ps))
<1>1. b # <<>>
  BY EmptySeq DEF Incomplete, HeaderSize
<1>2. b \o c # <<>>
  BY <1>1, ConcatEqualIffEmpty
<1>3. /\ ps # <<>> /\ Head(ps) \in Good
      /\ \E d \in Seq(Bytes) : b \o c = Encode(Head(ps)) \o d /\ Framed(d, Tail(ps))
  <2> DEFINE a == b \o c
  <2>1. Framed(a, ps) /\ a # <<>>
    BY <1>2
  <2> HIDE DEF a
  <2> QED BY <2>1, FrameFirst DEF a
<1>4. PICK d \in Seq(Bytes) : b \o c = Encode(Head(ps)) \o d /\ Framed(d, Tail(ps))
  BY <1>3
<1>5. Accepted(Length(b)) /\ Payload(b) = Head(ps) /\ After(b) \o c = d
  <2> DEFINE p == Head(ps)
  <2>1. p \in Good /\ b \o c = Encode(p) \o d
    BY <1>3, <1>4
  <2> HIDE DEF p
  <2> QED BY <2>1, FrontOfFrame DEF p
<1> QED BY <1>3, <1>4, <1>5

--------------------------------------------------------------------------------
(* Types *)

Typed ==
    /\ noisy \in BOOLEAN /\ calling \in BOOLEAN
    /\ sent \in Seq(Good) /\ frames \in Seq(Good)
    /\ decoded \in Seq(Good) /\ read \in Seq(Good)
    /\ net \in Seq(Bytes) /\ buffer \in Seq(Bytes) /\ unread \in Seq(Bytes)
    /\ want \in 0..MaxFrame

LEMMA StringsAreBytes ==
    ASSUME NEW n \in Nat, NEW b \in Strings(n)
    PROVE  b \in Seq(Bytes)
BY DEF Strings

\* A payload that is not too long is written, and is good.
LEMMA PayloadTyped ==
    ASSUME Bounds, NEW p \in Payloads
    PROVE  /\ Len(p) <= MaxFrame => p \in Good
           /\ Encode(p) = <<>> <=> Len(p) > MaxFrame
           /\ Encode(p) \in Seq(Bytes)
<1>1. p \in Seq(Bytes) /\ p # <<>> /\ Wellformed(p) /\ Len(p) \in Nat /\ MaxFrame \in Nat
  BY StringsAreBytes, LenProperties DEF Payloads, Bounds
<1>2. CASE Len(p) > MaxFrame
  BY <1>1, <1>2, EmptySeq DEF Encode
<1>3. CASE Len(p) <= MaxFrame
  <2>1. p \in Good
    BY <1>1, <1>3 DEF Good
  <2>2. Encode(p) \in Seq(Bytes) /\ Len(Encode(p)) = 4 + Len(p)
    BY <2>1, EncodeGood DEF HeaderSize
  <2>3. Encode(p) # <<>>
    BY <1>1, <2>2, EmptySeq
  <2> QED BY <1>1, <1>3, <2>1, <2>2, <2>3
<1> QED BY <1>1, <1>2, <1>3

\* The bytes that have arrived at read_control_frame for what it has not returned:
\* the header that it has read is put back.
Back == IF want = 0 THEN unread ELSE Header(want) \o unread

LEMMA BackTyped ==
    ASSUME Bounds, Typed
    PROVE  Back \in Seq(Bytes)
<1>1. CASE want = 0
  BY <1>1 DEF Typed, Back
<1>2. CASE want # 0
  BY <1>2, LengthOfHeader, ConcatProperties DEF Typed, Back
<1> QED BY <1>1, <1>2

\* read_control_frame reads the header of what has arrived, and then
\* its first payload.
LEMMA HeaderRead ==
    ASSUME Bounds, Typed, ReadHeader
    PROVE  /\ Accepted(Length(Back)) => rerror' = "none" /\ Back' = Back
           /\ ~Accepted(Length(Back)) => rerror' # "none" /\ ~Incomplete(Back)
           /\ unread' \in Seq(Bytes) /\ want' \in 0..MaxFrame
<1>1. want = 0 /\ Back = unread /\ unread \in Seq(Bytes) /\ Len(unread) >= HeaderSize
  BY DEF ReadHeader, Back, Typed
<1>2. unread' \in Seq(Bytes) /\ unread = Header(Length(unread)) \o unread'
  BY <1>1, CutHeader DEF ReadHeader
<1>3. CASE Accepted(Length(unread))
  <2>1. want' = Length(unread) /\ rerror' = "none" /\ want' \in 1..MaxFrame
    BY <1>3 DEF ReadHeader, Accepted
  <2>2. want' # 0 /\ want' \in 0..MaxFrame
    BY <2>1 DEF Bounds
  <2> QED BY <1>1, <1>2, <1>3, <2>1, <2>2 DEF Back
<1>4. CASE ~Accepted(Length(unread))
  <2>1. rerror' # "none" /\ want' = want
    BY <1>4 DEF ReadHeader
  <2>2. ~Incomplete(unread)
    BY <1>1, <1>4 DEF Incomplete, HeaderSize
  <2> QED BY <1>1, <1>2, <1>4, <2>1, <2>2 DEF Typed
<1> QED BY <1>3, <1>4

\* The second read takes the payload and leaves what comes after it.
LEMMA PayloadRead ==
    ASSUME Bounds, Typed, ReadPayload
    PROVE  /\ ~Incomplete(Back) /\ Accepted(Length(Back))
           /\ SubSeq(unread, 1, want) = Payload(Back) /\ Back' = After(Back)
           /\ unread' \in Seq(Bytes) /\ want' = 0
<1>1. /\ want \in 1..MaxFrame /\ unread \in Seq(Bytes) /\ Len(unread) >= want
      /\ Back = Header(want) \o unread
      /\ want' = 0 /\ unread' = SubSeq(unread, want + 1, Len(unread))
  BY DEF ReadPayload, Typed, Back, Bounds
<1>2. /\ Length(Back) = want /\ ~Incomplete(Back) /\ Payload(Back) = SubSeq(unread, 1, want)
      /\ After(Back) = SubSeq(unread, want + 1, Len(unread)) /\ Back \in Seq(Bytes)
  BY <1>1, CutFrame
<1>3. Accepted(Length(Back))
  BY <1>1, <1>2 DEF Accepted
<1>4. After(Back) \in Seq(Bytes)
  BY <1>2, <1>3, FirstFrame
<1> QED BY <1>1, <1>2, <1>3, <1>4 DEF Back

\* A reader that waits has no frame.
LEMMA IdleIncomplete ==
    ASSUME Bounds, Typed, Idle, rerror = "none"
    PROVE  Incomplete(Back)
<1>1. CASE want = 0
  BY <1>1 DEF Idle, Back, Incomplete
<1>2. CASE want # 0
  <2>1. want \in 0..MaxFrame /\ want \in 1..MaxFrame /\ unread \in Seq(Bytes) /\ Len(unread) < want
    BY <1>2 DEF Typed, Idle, Bounds
  <2>2. Header(want) \in Seq(Bytes) /\ Len(Header(want)) = HeaderSize /\ Length(Header(want)) = want
    BY <2>1, LengthOfHeader
  <2>3. Length(Back) = want /\ Len(Back) = HeaderSize + Len(unread) /\ Len(unread) \in Nat
    <3>1. Back = Header(want) \o unread
      BY <1>2 DEF Back
    <3>2. Len(Header(want)) >= HeaderSize
      BY <2>2 DEF HeaderSize
    <3>3. /\ Length(Header(want) \o unread) = Length(Header(want))
          /\ Len(Header(want) \o unread) = Len(Header(want)) + Len(unread)
      BY <2>1, <2>2, <3>2, LengthOfPrefix
    <3> QED BY <2>1, <2>2, <3>1, <3>3
  <2>4. Accepted(Length(Back)) /\ Len(Back) < HeaderSize + Length(Back)
    BY <2>1, <2>3 DEF Accepted, HeaderSize
  <2> QED BY <2>4 DEF Incomplete
<1> QED BY <1>1, <1>2

\* A payload that is taken off a buffer is good.
LEMMA GoodPayload ==
    ASSUME Bounds, NEW b \in Seq(Bytes), ~Incomplete(b), Accepted(Length(b)), Wellformed(Payload(b))
    PROVE  Payload(b) \in Good /\ b = Encode(Payload(b)) \o After(b) /\ After(b) \in Seq(Bytes)
<1> DEFINE p == Payload(b)
<1>1. p \in Seq(Bytes) /\ Len(p) = Length(b) /\ After(b) \in Seq(Bytes)
      /\ b = Header(Length(b)) \o (p \o After(b))
  BY FirstFrame
<1>2. Len(p) \in 1..MaxFrame /\ Len(p) \in 0..MaxFrame
  BY <1>1 DEF Accepted, Bounds
<1>3. p \in Good
  BY <1>1, <1>2, EmptySeq DEF Good, Bounds
<1> HIDE DEF p
<1>4. Encode(p) = Header(Len(p)) \o p /\ Header(Len(p)) \in Seq(Bytes)
  BY <1>3, EncodeGood
<1>5. (Header(Len(p)) \o p) \o After(b) = Header(Len(p)) \o (p \o After(b))
  BY <1>1, <1>4, BytesAssociate
<1> QED BY <1>1, <1>3, <1>4, <1>5 DEF p

LEMMA TypedInit ==
    ASSUME Bounds, Init
    PROVE  Typed
<1>1. net \in Seq(Bytes)
  <2>1. CASE noisy
    <3>1. net \in Strings(MaxNoise)
      BY <2>1 DEF Init
    <3> QED BY <3>1 DEF Strings
  <2>2. CASE ~noisy
    BY <2>2, EmptySeq DEF Init
  <2> QED BY <2>1, <2>2
<1>2. <<>> \in Seq(Good) /\ <<>> \in Seq(Bytes) /\ 0 \in 0..MaxFrame
  BY EmptySeq DEF Bounds
<1> QED BY <1>1, <1>2 DEF Init, Typed

LEMMA TypedNext ==
    ASSUME Bounds, Typed, [Next]_vars
    PROVE  Typed'
<1> USE DEF Typed, decoder, reader
<1>1. ASSUME NEW p \in Payloads, Write(p)
      PROVE  Typed'
  <2>1. net' \in Seq(Bytes)
    BY <1>1, PayloadTyped, ConcatProperties DEF Write
  <2>2. sent' \in Seq(Good)
    <3>1. CASE Encode(p) = <<>>
      BY <1>1, <3>1 DEF Write
    <3>2. CASE Encode(p) # <<>>
      <4>1. Len(p) \in Nat /\ MaxFrame \in Nat
        BY StringsAreBytes, LenProperties DEF Payloads, Bounds
      <4>2. p \in Good
        BY <3>2, <4>1, PayloadTyped
      <4> QED BY <1>1, <3>2, <4>2, AppendProperties DEF Write
    <3> QED BY <3>1, <3>2
  <2> QED BY <1>1, <2>1, <2>2 DEF Write
<1>2. ASSUME NEW n \in 1..Len(net), Arrive(n)
      PROVE  Typed'
  <2>1. SubSeq(net, 1, n) \in Seq(Bytes) /\ net' \in Seq(Bytes)
    BY <1>2, PieceTyped DEF Arrive
  <2>2. buffer \o SubSeq(net, 1, n) \in Seq(Bytes) /\ unread \o SubSeq(net, 1, n) \in Seq(Bytes)
    BY <2>1, ConcatProperties
  <2> QED BY <1>2, <2>1, <2>2, EmptySeq DEF Arrive
<1>3. CASE TakeFrame /\ Decode
  <2>1. Payload(buffer) \in Good /\ After(buffer) \in Seq(Bytes)
    BY <1>3, GoodPayload DEF TakeFrame
  <2> QED BY <1>3, <2>1, AppendProperties DEF TakeFrame, Decode
<1>4. CASE Return /\ Decode
  BY <1>4, ConcatProperties, EmptySeq DEF Return, Decode
<1>5. CASE Refuse /\ Decode
  <2>1. Accepted(Length(buffer)) => After(buffer) \in Seq(Bytes)
    BY <1>5, FirstFrame DEF Refuse
  <2> QED BY <1>5, <2>1, EmptySeq DEF Refuse, Fail, Decode
<1>6. CASE ReadHeader
  BY <1>6, HeaderRead DEF ReadHeader
<1>7. CASE ReadPayload
  <2>1. CASE Wellformed(SubSeq(unread, 1, want))
    <3>1. SubSeq(unread, 1, want) \in Good
      BY <1>7, <2>1, PayloadRead, BackTyped, GoodPayload
    <3>2. read' \in Seq(Good)
      <4>1. read' = Append(read, SubSeq(unread, 1, want))
        BY <1>7, <2>1 DEF ReadPayload
      <4> QED BY <3>1, <4>1, AppendProperties
    <3> QED BY <1>7, <3>2, PayloadRead DEF ReadPayload, Bounds
  <2>2. CASE ~Wellformed(SubSeq(unread, 1, want))
    <3>1. read' = read
      BY <1>7, <2>2 DEF ReadPayload
    <3> QED BY <1>7, <3>1, PayloadRead DEF ReadPayload, Bounds
  <2> QED BY <2>1, <2>2
<1>8. CASE UNCHANGED vars
  BY <1>8 DEF vars
<1> QED BY <1>1, <1>2, <1>3, <1>4, <1>5, <1>6, <1>7, <1>8 DEF Next, Decode

--------------------------------------------------------------------------------
(* decode_frames on the bytes of a writer *)

\* When no call runs, the buffer is short of a frame.
Settled ==
    /\ calling => derror = "none"
    /\ ~calling => frames = <<>> /\ (derror = "none" => Incomplete(buffer))

\* What it has not found yet is on its way, whole.
Faithful ==
    ~noisy => /\ derror = "none"
              /\ \E ps : sent = (decoded \o frames) \o ps /\ Framed(buffer \o net, ps)

\* A payload that moves from one sequence to the one before it stays in its place.
LEMMA TakeMoves ==
    ASSUME NEW S, NEW t \in Seq(S), NEW s \in Seq(S), s # <<>>
    PROVE  Append(t, Head(s)) \o Tail(s) = t \o s
<1>1. Head(s) \in S /\ Tail(s) \in Seq(S)
  BY HeadTailProperties
<1>2. Append(t, Head(s)) = t \o <<Head(s)>> /\ <<Head(s)>> \in Seq(S)
  BY <1>1, AppendIsConcat
<1>3. (t \o <<Head(s)>>) \o Tail(s) = t \o (<<Head(s)>> \o Tail(s))
  BY <1>1, <1>2, ConcatAssociative
<1>4. <<Head(s)>> \o Tail(s) = s
  OBVIOUS
<1> QED BY <1>2, <1>3, <1>4

\* A payload at the end of the second sequence is at the end of both.
LEMMA AppendMoves ==
    ASSUME NEW S, NEW t \in Seq(S), NEW s \in Seq(S), NEW e \in S
    PROVE  t \o Append(s, e) = Append(t \o s, e)
<1>1. Append(s, e) = s \o <<e>> /\ <<e>> \in Seq(S) /\ t \o s \in Seq(S)
  BY AppendIsConcat, ConcatProperties
<1>2. t \o (s \o <<e>>) = (t \o s) \o <<e>>
  BY <1>1, ConcatAssociative
<1>3. Append(t \o s, e) = (t \o s) \o <<e>>
  BY <1>1, AppendIsConcat
<1> QED BY <1>1, <1>2, <1>3

\* The same of good payloads.
LEMMA GoodTaken ==
    \A t, s \in Seq(Good) : s # <<>> => Append(t, Head(s)) \o Tail(s) = t \o s
BY TakeMoves

LEMMA GoodAppended ==
    \A t, s \in Seq(Good), e \in Good : t \o Append(s, e) = Append(t \o s, e)
BY AppendMoves

LEMMA SettledNext ==
    ASSUME Settled, [Next]_vars
    PROVE  Settled'
<1> USE DEF Settled, decoder, reader
<1>1. ASSUME NEW p \in Payloads, Write(p)
      PROVE  Settled'
  BY <1>1 DEF Write
<1>2. ASSUME NEW n \in 1..Len(net), Arrive(n), ~calling
      PROVE  Settled'
  BY <1>2 DEF Arrive
<1>3. CASE calling /\ Decode
  BY <1>3 DEF Decode, TakeFrame, Return, Refuse, Fail
<1>4. CASE ReadHeader \/ ReadPayload \/ UNCHANGED vars
  <2>1. UNCHANGED decoder
    BY <1>4 DEF ReadHeader, ReadPayload, vars
  <2> QED BY <2>1
<1> QED BY <1>1, <1>2, <1>3, <1>4 DEF Next

\* Each frame that decode_frames takes is the next one that was sent, and it has none to
\* refuse.
LEMMA FaithfulNext ==
    ASSUME Bounds, Typed, Settled, Faithful, [Next]_vars
    PROVE  Faithful'
<1> USE DEF decoder, reader
<1> SUFFICES ASSUME ~noisy'
             PROVE  /\ derror' = "none"
                    /\ \E ps : /\ sent' = (decoded' \o frames') \o ps
                               /\ Framed(buffer' \o net', ps)
  BY DEF Faithful
<1>1. ~noisy
  BY DEF Next, Write, Arrive, Decode, ReadHeader, ReadPayload, vars
<1>2. PICK ps : sent = (decoded \o frames) \o ps /\ Framed(buffer \o net, ps)
  BY <1>1 DEF Faithful
<1>3. ps \in Seq(Good) /\ buffer \o net \in Seq(Bytes) /\ derror = "none"
  BY <1>1, <1>2, FramedTyped DEF Faithful
<1>4. decoded \o frames \in Seq(Good)
  BY ConcatProperties DEF Typed
<1>5. ASSUME NEW p \in Payloads, Write(p)
      PROVE  \E qs : /\ sent' = (decoded' \o frames') \o qs
                     /\ Framed(buffer' \o net', qs)
  <2>1. UNCHANGED decoder /\ net' = net \o Encode(p) /\ Encode(p) \in Seq(Bytes)
    BY <1>5, PayloadTyped DEF Write
  <2>2. buffer' \o net' = (buffer \o net) \o Encode(p)
    BY <2>1, BytesAssociate DEF Typed
  <2>3. CASE Encode(p) = <<>>
    <3>1. sent' = sent /\ (buffer \o net) \o <<>> = buffer \o net
      BY <1>3, <1>5, <2>3, ConcatEmptySeq DEF Write
    <3> QED BY <1>2, <2>1, <2>2, <2>3, <3>1
  <2>4. CASE Encode(p) # <<>>
    <3>1. p \in Good
      <4>1. Len(p) \in Nat /\ MaxFrame \in Nat
        BY StringsAreBytes, LenProperties DEF Payloads, Bounds
      <4> QED BY <2>4, <4>1, PayloadTyped
    <3>2. Framed((buffer \o net) \o Encode(p), Append(ps, p))
      BY <1>2, <3>1, FrameAppended
    <3>3. sent' = Append(sent, p)
      BY <1>5, <2>4 DEF Write
    <3>4. (decoded \o frames) \o Append(ps, p) = Append((decoded \o frames) \o ps, p)
      BY <1>3, <1>4, <3>1, GoodAppended
    <3>5. sent' = (decoded \o frames) \o Append(ps, p)
      BY <1>2, <3>3, <3>4
    <3> QED BY <2>1, <2>2, <3>2, <3>5
  <2> QED BY <2>3, <2>4
<1>6. ASSUME NEW n \in 1..Len(net), Arrive(n), ~calling
      PROVE  \E qs : /\ sent' = (decoded' \o frames') \o qs
                     /\ Framed(buffer' \o net', qs)
  <2>1. /\ buffer' = buffer \o SubSeq(net, 1, n) /\ net' = SubSeq(net, n + 1, Len(net))
        /\ frames' = frames /\ decoded' = decoded /\ sent' = sent
    BY <1>3, <1>6 DEF Arrive, Settled
  <2>2. /\ SubSeq(net, 1, n) \in Seq(Bytes) /\ SubSeq(net, n + 1, Len(net)) \in Seq(Bytes)
        /\ SubSeq(net, 1, n) \o SubSeq(net, n + 1, Len(net)) = net
    BY PieceTyped DEF Typed
  <2>3. buffer' \o net' = buffer \o net
    <3> DEFINE x == SubSeq(net, 1, n)
               y == SubSeq(net, n + 1, Len(net))
    <3>1. x \in Seq(Bytes) /\ y \in Seq(Bytes) /\ x \o y = net
      BY <2>2
    <3> HIDE DEF x, y
    <3>0. buffer \in Seq(Bytes)
      BY DEF Typed
    <3>2. (buffer \o x) \o y = buffer \o (x \o y)
      BY <3>0, <3>1, BytesAssociate
    <3>3. buffer' = buffer \o x /\ net' = y
      BY <2>1 DEF x, y
    <3> QED BY <3>1, <3>2, <3>3
  <2> QED BY <1>2, <2>1, <2>3
<1>7. CASE calling /\ Decode
  <2>1. sent' = sent /\ net' = net
    BY <1>7 DEF Decode
  <2>2. ~Incomplete(buffer) =>
          /\ ps # <<>> /\ Head(ps) \in Good
          /\ Accepted(Length(buffer)) /\ Payload(buffer) = Head(ps)
          /\ Framed(After(buffer) \o net, Tail(ps))
    BY <1>2, FirstOfFrames DEF Typed
  <2>3. CASE TakeFrame
    <3>1. /\ ps # <<>> /\ decoded' = decoded /\ frames' = Append(frames, Head(ps))
          /\ derror' = derror /\ Head(ps) \in Good
          /\ Framed(buffer' \o net', Tail(ps))
      BY <2>1, <2>2, <2>3 DEF TakeFrame
    <3>2. decoded \in Seq(Good) /\ frames \in Seq(Good)
      BY DEF Typed
    <3>3. decoded \o Append(frames, Head(ps)) = Append(decoded \o frames, Head(ps))
      BY <3>1, <3>2, GoodAppended
    <3>4. Append(decoded \o frames, Head(ps)) \o Tail(ps) = (decoded \o frames) \o ps
      BY <1>3, <1>4, <3>1, GoodTaken
    <3>5. sent' = (decoded' \o frames') \o Tail(ps)
      BY <1>2, <2>1, <3>1, <3>3, <3>4
    <3> QED BY <1>3, <3>1, <3>5
  <2>4. CASE Return
    <3>1. decoded' = decoded \o frames /\ frames' = <<>> /\ buffer' = buffer /\ derror' = derror
      BY <2>4 DEF Return
    <3>2. decoded' \o frames' = decoded \o frames
      BY <1>4, <3>1, ConcatEmptySeq
    <3> QED BY <1>2, <1>3, <2>1, <3>1, <3>2
  <2>5. CASE Refuse
    <3>1. Accepted(Length(buffer)) /\ Payload(buffer) \in Good
      BY <2>2, <2>5 DEF Refuse
    <3>2. Length(buffer) \in 1..MaxFrame /\ Wellformed(Payload(buffer))
      BY <3>1 DEF Accepted, Good
    <3>3. FALSE
      BY <2>5, <3>1, <3>2 DEF Refuse, Bounds
    <3> QED BY <3>3
  <2> QED BY <1>7, <2>3, <2>4, <2>5 DEF Decode
<1>8. CASE ReadHeader \/ ReadPayload \/ UNCHANGED vars
  BY <1>2, <1>3, <1>8 DEF ReadHeader, ReadPayload, vars
<1>9. CASE (\E p \in Payloads : Write(p)) \/ (~calling /\ \E n \in 1..Len(net) : Arrive(n))
  BY <1>3, <1>5, <1>6, <1>9 DEF Write, Arrive
<1> QED BY <1>7, <1>8, <1>9 DEF Next

--------------------------------------------------------------------------------
(* The two readers on the same bytes *)

\* A buffer that both readers refuse.
Faulty(b) == ~Incomplete(b) /\ ~(Accepted(Length(b)) /\ Wellformed(Payload(b)))

\* read_control_frame is behind by frames that decode_frames has found, and then has
\* what is in the buffer of that; or, if decode_frames has failed, the bytes at which
\* it did, until it fails on them.
Together ==
    \E mid, ps : Framed(mid, ps) /\ Back = mid \o buffer /\ read \o ps = decoded \o frames
Behind ==
    \E mid, ps : \E bad \in Seq(Bytes), lost \in Seq(Good) :
        /\ Framed(mid, ps) /\ Back = mid \o bad /\ Faulty(bad)
        /\ read \o ps = decoded \o lost
BothFailed == \E lost \in Seq(Good) : read = decoded \o lost
Agreed ==
    /\ derror = "none" => rerror = "none" /\ Together
    /\ derror # "none" => IF rerror = "none" THEN Behind ELSE BothFailed

\* A reader that is behind by a frame gets on with it.
GetsOn(ps, rest) ==
    /\ rerror' = "none"
    /\ \E m, qs : Framed(m, qs) /\ Back' = m \o rest /\ read' \o qs = read \o ps
LEMMA ReaderOnFrame ==
    ASSUME Bounds, Typed, ReadHeader \/ ReadPayload, NEW mid, NEW ps, Framed(mid, ps),
           ps # <<>>, NEW rest \in Seq(Bytes), Back = mid \o rest
    PROVE  GetsOn(ps, rest)
<1>1. /\ Head(ps) \in Good
      /\ \E c \in Seq(Bytes) : mid = Encode(Head(ps)) \o c /\ Framed(c, Tail(ps))
  BY FrameFirst
<1>2. PICK c \in Seq(Bytes) : mid = Encode(Head(ps)) \o c /\ Framed(c, Tail(ps))
  BY <1>1
<1>3. ps \in Seq(Good) /\ mid \in Seq(Bytes) /\ Back \in Seq(Bytes)
  BY FramedTyped, BackTyped
<1>4. Encode(Head(ps)) \in Seq(Bytes) /\ c \o rest \in Seq(Bytes)
  BY <1>1, EncodeGood, ConcatProperties
<1>5. Back \o <<>> = Encode(Head(ps)) \o (c \o rest) /\ <<>> \in Seq(Bytes)
  <2>1. Back \o <<>> = Back /\ <<>> \in Seq(Bytes)
    BY <1>3, ConcatEmptySeq, EmptySeq
  <2> DEFINE e == Encode(Head(ps))
  <2>2. e \in Seq(Bytes)
    BY <1>4
  <2> HIDE DEF e
  <2>3. (e \o c) \o rest = e \o (c \o rest)
    BY <2>2, BytesAssociate
  <2> QED BY <1>2, <2>1, <2>3 DEF e
<1>6. ~Incomplete(Back) =>
        Accepted(Length(Back)) /\ Payload(Back) = Head(ps) /\ After(Back) \o <<>> = c \o rest
  <2> DEFINE p == Head(ps)
             d == c \o rest
             b == Back
             e == <<>>
  <2>1. /\ p \in Good /\ d \in Seq(Bytes) /\ b \in Seq(Bytes) /\ e \in Seq(Bytes)
        /\ b \o e = Encode(p) \o d
    BY <1>1, <1>3, <1>4, <1>5
  <2> HIDE DEF p, d, b, e
  <2>2. ~Incomplete(b) => Accepted(Length(b)) /\ Payload(b) = p /\ After(b) \o e = d
    BY <2>1, FrontOfFrame
  <2> QED BY <2>2 DEF p, d, b, e
<1>7. CASE ReadHeader
  <2>1. rerror' = "none" /\ Back' = Back
    BY <1>6, <1>7, HeaderRead
  <2>2. read' = read
    BY <1>7 DEF ReadHeader
  <2> QED BY <2>1, <2>2 DEF GetsOn
<1>8. CASE ReadPayload
  <2>1. /\ Accepted(Length(Back)) /\ Payload(Back) = Head(ps) /\ After(Back) \o <<>> = c \o rest
        /\ SubSeq(unread, 1, want) = Head(ps) /\ Back' = After(Back) /\ ~Incomplete(Back)
    <3>1. /\ ~Incomplete(Back) /\ Accepted(Length(Back)) /\ Back' = After(Back)
          /\ SubSeq(unread, 1, want) = Payload(Back)
      BY <1>8, PayloadRead
    <3> QED BY <1>6, <3>1
  <2>2. Wellformed(Head(ps))
    BY <1>1 DEF Good
  <2>3. rerror' = "none" /\ read' = Append(read, Head(ps))
    BY <1>8, <2>1, <2>2 DEF ReadPayload
  <2>4. After(Back) \in Seq(Bytes)
    BY <1>3, <2>1, FirstFrame
  <2>5. Back' = c \o rest
    BY <2>1, <2>4, ConcatEmptySeq
  <2>6. read' \o Tail(ps) = read \o ps
    BY <1>3, <2>3, TakeMoves DEF Typed
  <2> QED BY <1>2, <2>3, <2>5, <2>6 DEF GetsOn
<1> QED BY <1>7, <1>8

\* A reader that is not behind by a frame has just what the other has.
LEMMA NoFramesNoBytes ==
    ASSUME Bounds, NEW mid, Framed(mid, <<>>), NEW rest \in Seq(Bytes)
    PROVE  mid \o rest = rest
<1>1. mid = <<>>
  BY FrameFirst
<1> QED BY <1>1, ConcatEmptySeq

\* New bytes are new for both.
LEMMA BackGrows ==
    ASSUME Bounds, Typed, NEW piece \in Seq(Bytes), unread' = unread \o piece, want' = want
    PROVE  Back' = Back \o piece
<1>1. CASE want = 0
  BY <1>1 DEF Back
<1>2. CASE want # 0
  <2> DEFINE h == Header(want)
  <2>1. h \in Seq(Bytes) /\ unread \in Seq(Bytes)
    BY LengthOfHeader DEF Typed
  <2> HIDE DEF h
  <2>2. (h \o unread) \o piece = h \o (unread \o piece)
    BY <2>1, BytesAssociate
  <2>3. Back = h \o unread /\ Back' = h \o unread'
    BY <1>2 DEF Back, h
  <2> QED BY <2>2, <2>3
<1> QED BY <1>1, <1>2

LEMMA AgreedKept ==
    ASSUME Agreed, Back' = Back, UNCHANGED <<decoder, read, rerror>>
    PROVE  Agreed'
<1>1. Together => Together'
  BY DEF Together, decoder
<1>2. ASSUME Behind PROVE Behind'
  <2>1. PICK mid, ps : \E bad \in Seq(Bytes), lost \in Seq(Good) :
          /\ Framed(mid, ps) /\ Back = mid \o bad /\ Faulty(bad)
          /\ read \o ps = decoded \o lost
    BY <1>2 DEF Behind
  <2>2. decoded' = decoded
    BY DEF decoder
  <2> QED BY <2>1, <2>2 DEF Behind
<1>3. BothFailed => BothFailed'
  BY DEF BothFailed, decoder
<1> QED BY <1>1, <1>2, <1>3 DEF Agreed, decoder

\* What arrives, arrives at both; a frame that decode_frames takes is one more for
\* read_control_frame, which takes it in its turn.
LEMMA AgreedNext ==
    ASSUME Bounds, Typed, Settled, Agreed, [Next]_vars
    PROVE  Agreed'
<1> USE DEF decoder, reader
<1>1. ASSUME NEW p \in Payloads, Write(p)
      PROVE  Agreed'
  BY <1>1, AgreedKept DEF Write, Back
<1>2. ASSUME NEW n \in 1..Len(net), Arrive(n), ~calling
      PROVE  Agreed'
  <2> DEFINE x == SubSeq(net, 1, n)
  <2>1. x \in Seq(Bytes)
    BY PieceTyped DEF Typed
  <2>2. unread' = unread \o x /\ UNCHANGED <<want, read, rerror, derror, decoded>>
    BY <1>2 DEF Arrive
  <2>3. derror = "none" => buffer' = buffer \o x /\ frames' = frames
    BY <1>2 DEF Arrive, Settled
  <2> HIDE DEF x
  <2>4. Back' = Back \o x
    BY <2>1, <2>2, BackGrows
  <2>5. CASE derror = "none"
    <3>1. PICK mid, ps : /\ Framed(mid, ps) /\ Back = mid \o buffer
                         /\ read \o ps = decoded \o frames
      BY <2>5 DEF Agreed, Together
    <3>2. mid \in Seq(Bytes)
      BY <3>1, FramedTyped
    <3>3. Back' = mid \o buffer'
      <4>1. (mid \o buffer) \o x = mid \o (buffer \o x)
        BY <2>1, <3>2, BytesAssociate DEF Typed
      <4> QED BY <2>3, <2>4, <2>5, <3>1, <4>1
    <3>4. rerror = "none"
      BY <2>5 DEF Agreed
    <3>5. Together'
      BY <2>2, <2>3, <2>5, <3>1, <3>3 DEF Together
    <3> QED BY <2>2, <2>5, <3>4, <3>5 DEF Agreed
  <2>6. CASE derror # "none" /\ rerror = "none"
    <3>1. PICK mid, ps : \E bad \in Seq(Bytes), lost \in Seq(Good) :
             /\ Framed(mid, ps) /\ Back = mid \o bad /\ Faulty(bad)
             /\ read \o ps = decoded \o lost
      BY <2>6 DEF Agreed, Behind
    <3>2. PICK bad \in Seq(Bytes), lost \in Seq(Good) :
             /\ Framed(mid, ps) /\ Back = mid \o bad /\ Faulty(bad)
             /\ read \o ps = decoded \o lost
      BY <3>1
    <3>3. mid \in Seq(Bytes)
      BY <3>2, FramedTyped
    <3>4. Back' = mid \o (bad \o x)
      <4>1. (mid \o bad) \o x = mid \o (bad \o x)
        BY <2>1, <3>2, <3>3, BytesAssociate
      <4> QED BY <2>4, <3>2, <4>1
    <3>5. bad \o x \in Seq(Bytes) /\ Faulty(bad \o x)
      BY <2>1, <3>2, LongerBuffer, ConcatProperties DEF Faulty
    <3>6. Behind'
      BY <2>2, <3>2, <3>4, <3>5 DEF Behind
    <3> QED BY <2>2, <2>6, <3>6 DEF Agreed
  <2>7. CASE derror # "none" /\ rerror # "none"
    BY <2>2, <2>7 DEF Agreed, BothFailed
  <2> QED BY <2>5, <2>6, <2>7
<1>3. CASE calling /\ Decode
  <2>1. derror = "none" /\ rerror = "none" /\ Back' = Back /\ UNCHANGED <<read, rerror>>
    BY <1>3 DEF Settled, Agreed, Decode, Back
  <2>2. PICK mid, ps : /\ Framed(mid, ps) /\ Back = mid \o buffer
                       /\ read \o ps = decoded \o frames
    BY <2>1 DEF Agreed, Together
  <2>3. mid \in Seq(Bytes) /\ ps \in Seq(Good) /\ buffer \in Seq(Bytes)
    BY <2>2, FramedTyped DEF Typed
  <2>4. CASE TakeFrame
    <3> DEFINE p == Payload(buffer)
    <3>1. /\ p \in Good /\ buffer = Encode(p) \o After(buffer) /\ After(buffer) \in Seq(Bytes)
          /\ frames' = Append(frames, p) /\ buffer' = After(buffer)
          /\ UNCHANGED <<decoded, derror>>
      BY <2>3, <2>4, GoodPayload DEF TakeFrame
    <3> HIDE DEF p
    <3>2. Framed(mid \o Encode(p), Append(ps, p))
      BY <2>2, <3>1, FrameAppended
    <3>3. Encode(p) \in Seq(Bytes)
      BY <3>1, EncodeGood
    <3>4. Back' = (mid \o Encode(p)) \o buffer'
      <4>1. (mid \o Encode(p)) \o After(buffer) = mid \o (Encode(p) \o After(buffer))
        BY <2>3, <3>1, <3>3, BytesAssociate
      <4> QED BY <2>1, <2>2, <3>1, <4>1
    <3>5. read \o Append(ps, p) = decoded \o Append(frames, p)
      <4>0. read \in Seq(Good) /\ decoded \in Seq(Good) /\ frames \in Seq(Good)
        BY DEF Typed
      <4>1. read \o Append(ps, p) = Append(read \o ps, p)
        BY <2>3, <3>1, <4>0, GoodAppended
      <4>2. decoded \o Append(frames, p) = Append(decoded \o frames, p)
        BY <3>1, <4>0, GoodAppended
      <4> QED BY <2>2, <4>1, <4>2
    <3>6. Together'
      BY <2>1, <3>1, <3>2, <3>4, <3>5 DEF Together
    <3> QED BY <2>1, <3>1, <3>6 DEF Agreed
  <2>5. CASE Return
    <3>1. decoded' = decoded \o frames /\ frames' = <<>> /\ UNCHANGED <<buffer, derror>>
      BY <2>5 DEF Return
    <3>2. decoded' \o frames' = decoded \o frames
      BY <3>1, ConcatProperties, ConcatEmptySeq DEF Typed
    <3>3. Together'
      BY <2>1, <2>2, <3>1, <3>2 DEF Together
    <3> QED BY <2>1, <3>1, <3>3 DEF Agreed
  <2>6. CASE Refuse
    <3>1. derror' # "none" /\ decoded' = decoded
      BY <2>6 DEF Refuse, Fail
    <3>2. Faulty(buffer)
      <4>1. ASSUME Length(buffer) > MaxFrame \/ Length(buffer) = 0
            PROVE  ~Accepted(Length(buffer))
        BY <4>1 DEF Accepted, Bounds
      <4> QED BY <2>6, <4>1 DEF Refuse, Faulty
    <3>3. frames \in Seq(Good)
      BY DEF Typed
    <3>4. Behind'
      BY <2>1, <2>2, <2>3, <3>1, <3>2, <3>3 DEF Behind
    <3> QED BY <2>1, <3>1, <3>4 DEF Agreed
  <2> QED BY <1>3, <2>4, <2>5, <2>6 DEF Decode
<1>4. CASE ~calling /\ (ReadHeader \/ ReadPayload)
  <2>1. UNCHANGED decoder /\ rerror = "none"
    BY <1>4 DEF ReadHeader, ReadPayload
  <2>2. (ReadHeader \/ ReadPayload) /\ buffer \in Seq(Bytes)
    BY <1>4 DEF Typed
  <2>3. CASE derror = "none"
    <3>1. PICK mid, ps : /\ Framed(mid, ps) /\ Back = mid \o buffer
                         /\ read \o ps = decoded \o frames
      BY <2>3 DEF Agreed, Together
    <3>2. CASE ps = <<>>
      <4>1. Incomplete(Back)
        BY <1>4, <2>3, <3>1, <3>2, NoFramesNoBytes DEF Settled, Typed
      <4>2. rerror' = "none" /\ Back' = Back /\ read' = read
        BY <1>4, <4>1, HeaderRead, PayloadRead DEF ReadHeader
      <4> QED BY <2>1, <4>2, AgreedKept
    <3>3. CASE ps # <<>>
      <4>1. /\ rerror' = "none"
            /\ \E m, qs : Framed(m, qs) /\ Back' = m \o buffer /\ read' \o qs = read \o ps
        <5>1. GetsOn(ps, buffer)
          BY <2>2, <3>1, <3>3, ReaderOnFrame
        <5> QED BY <5>1 DEF GetsOn
      <4>2. Together'
        BY <2>1, <3>1, <4>1 DEF Together, decoder
      <4> QED BY <2>1, <2>3, <4>1, <4>2 DEF Agreed
    <3> QED BY <3>2, <3>3
  <2>4. CASE derror # "none"
    <3>1. PICK mid, ps : \E bad \in Seq(Bytes), lost \in Seq(Good) :
             /\ Framed(mid, ps) /\ Back = mid \o bad /\ Faulty(bad)
             /\ read \o ps = decoded \o lost
      BY <2>1, <2>4 DEF Agreed, Behind
    <3>2. PICK bad \in Seq(Bytes), lost \in Seq(Good) :
             /\ Framed(mid, ps) /\ Back = mid \o bad /\ Faulty(bad)
             /\ read \o ps = decoded \o lost
      BY <3>1
    <3>3. CASE ps = <<>>
      <4>1. Back = bad /\ read = decoded \o lost
        BY <3>2, <3>3, NoFramesNoBytes, ConcatEmptySeq DEF Typed
      <4>2. CASE ReadHeader
        <5>1. read' = read
          BY <4>2 DEF ReadHeader
        <5>2. CASE Accepted(Length(Back))
          <6>1. rerror' = "none" /\ Back' = Back
            BY <4>2, <5>2, HeaderRead
          <6> QED BY <2>1, <5>1, <6>1, AgreedKept
        <5>3. CASE ~Accepted(Length(Back))
          <6>1. rerror' # "none"
            BY <4>2, <5>3, HeaderRead
          <6>2. BothFailed'
            BY <2>1, <3>2, <4>1, <5>1 DEF BothFailed
          <6> QED BY <2>1, <2>4, <6>1, <6>2 DEF Agreed
        <5> QED BY <5>2, <5>3
      <4>3. CASE ReadPayload
        <5>1. ~Wellformed(SubSeq(unread, 1, want))
          BY <3>2, <4>1, <4>3, PayloadRead DEF Faulty
        <5>2. rerror' # "none" /\ read' = read
          BY <4>3, <5>1 DEF ReadPayload
        <5>3. BothFailed'
          BY <2>1, <3>2, <4>1, <5>2 DEF BothFailed
        <5> QED BY <2>1, <2>4, <5>2, <5>3 DEF Agreed
      <4> QED BY <1>4, <4>2, <4>3
    <3>4. CASE ps # <<>>
      <4>1. /\ rerror' = "none"
            /\ \E m, qs : Framed(m, qs) /\ Back' = m \o bad /\ read' \o qs = read \o ps
        <5>1. GetsOn(ps, bad)
          BY <2>2, <3>2, <3>4, ReaderOnFrame
        <5> QED BY <5>1 DEF GetsOn
      <4>2. Behind'
        BY <2>1, <3>2, <4>1 DEF Behind
      <4> QED BY <2>1, <2>4, <4>1, <4>2 DEF Agreed
    <3> QED BY <3>3, <3>4
  <2> QED BY <2>3, <2>4
<1>5. CASE UNCHANGED vars
  BY <1>5, AgreedKept DEF vars, Back
<1> QED BY <1>1, <1>2, <1>3, <1>4, <1>5 DEF Next

--------------------------------------------------------------------------------
(* Theorems *)

IInv == Typed /\ Settled /\ Faithful /\ Agreed

LEMMA InvInit ==
    ASSUME Bounds, Init
    PROVE  IInv
<1>1. Typed
  BY TypedInit
<1>2. <<>> \in Seq(Good) /\ <<>> \in Seq(Bytes) /\ Len(<<>>) = 0
  BY EmptySeq
<1>3. <<>> \o <<>> = <<>>
  BY <1>2, ConcatEmptySeq
<1>4. Settled
  BY <1>2 DEF Init, Settled, Incomplete, HeaderSize
<1>5. Faithful
  <2>1. ASSUME ~noisy
        PROVE  sent = (decoded \o frames) \o <<>> /\ Framed(buffer \o net, <<>>)
    BY <1>3, <2>1, NothingFramed DEF Init
  <2> QED BY <2>1 DEF Init, Faithful
<1>6. Agreed
  <2>1. Back = <<>> \o buffer /\ read \o <<>> = decoded \o frames
    BY <1>3 DEF Init, Back
  <2>2. Together
    BY <2>1, NothingFramed DEF Together
  <2> QED BY <2>2 DEF Init, Agreed
<1> QED BY <1>1, <1>4, <1>5, <1>6 DEF IInv

LEMMA InvHolds ==
    ASSUME Bounds
    PROVE  Spec => []IInv
<1>1. Init => IInv
  BY InvInit
<1>2. IInv /\ [Next]_vars => IInv'
  BY TypedNext, SettledNext, FaithfulNext, AgreedNext DEF IInv
<1> QED BY <1>1, <1>2, PTL DEF Spec

LEMMA PrefixOfConcat ==
    ASSUME NEW S, NEW s \in Seq(S), NEW t \in Seq(S)
    PROVE  IsPrefix(s, s \o t)
<1>1. Len(s) <= Len(s \o t)
  BY ConcatProperties
<1>2. SubSeq(s, 1, Len(s)) = s /\ SubSeq(s \o t, 1, Len(s)) = s
  BY SubSeqFull, CutConcat
<1> QED BY <1>1, <1>2 DEF IsPrefix

\* Frames that are not none hold a frame, whatever follows them.
LEMMA FramesComplete ==
    ASSUME Bounds, NEW mid, NEW ps, Framed(mid, ps), ps # <<>>, NEW rest \in Seq(Bytes)
    PROVE  ~Incomplete(mid \o rest)
<1> DEFINE h == Head(ps)
<1>1. h \in Good /\ \E c \in Seq(Bytes) : mid = Encode(h) \o c
  BY FrameFirst
<1> HIDE DEF h
<1>2. PICK c \in Seq(Bytes) : mid = Encode(h) \o c
  BY <1>1
<1>3. /\ h \in Seq(Bytes) /\ Len(h) \in 1..MaxFrame /\ Header(Len(h)) \in Seq(Bytes)
      /\ Encode(h) = Header(Len(h)) \o h
  BY <1>1, EncodeGood
<1>4. mid = Header(Len(h)) \o (h \o c)
  <2> DEFINE d == Header(Len(h))
  <2>1. mid = (d \o h) \o c /\ d \in Seq(Bytes) /\ h \in Seq(Bytes)
    BY <1>2, <1>3
  <2> HIDE DEF d
  <2>2. (d \o h) \o c = d \o (h \o c)
    BY <2>1, BytesAssociate
  <2> QED BY <2>1, <2>2 DEF d
<1>5. h \o c \in Seq(Bytes) /\ Len(h \o c) >= Len(h)
  BY <1>3, ConcatProperties
<1>6. mid \in Seq(Bytes) /\ ~Incomplete(mid)
  <2> DEFINE u == h \o c
             n == Len(h)
  <2>1. u \in Seq(Bytes) /\ Len(u) >= n /\ n \in 1..MaxFrame /\ mid = Header(n) \o u
    BY <1>3, <1>4, <1>5
  <2> HIDE DEF u, n
  <2> QED BY <2>1, CutFrame
<1> QED BY <1>6, LongerBuffer

\* When the reader waits and has not failed, it has all frames that were found.
LEMMA IdleHasAll ==
    ASSUME Bounds, Typed, Idle, rerror = "none", NEW mid, NEW ps, Framed(mid, ps),
           NEW rest \in Seq(Bytes), Back = mid \o rest
    PROVE  ps = <<>> /\ mid = <<>> /\ Back = rest /\ Incomplete(rest)
<1>1. Incomplete(Back)
  BY IdleIncomplete
<1>2. ps = <<>>
  BY <1>1, FramesComplete
<1>3. mid = <<>>
  BY <1>2, FrameFirst
<1> QED BY <1>1, <1>2, <1>3, ConcatEmptySeq

LEMMA NothingBack ==
    ASSUME Bounds, Typed, Back = <<>>
    PROVE  unread = <<>>
<1>1. CASE want = 0
  BY <1>1 DEF Back
<1>2. CASE want # 0
  <2>1. Header(want) \in Seq(Bytes) /\ unread \in Seq(Bytes)
    BY LengthOfHeader DEF Typed
  <2>2. Header(want) \o unread = <<>>
    BY <1>2 DEF Back
  <2> QED BY <2>1, <2>2, ConcatEqualIffEmpty
<1> QED BY <1>1, <1>2

LEMMA SentAsInv ==
    ASSUME Bounds, IInv
    PROVE  FramesAsSent
<1> SUFFICES ASSUME ~noisy
             PROVE  /\ derror = "none" /\ rerror = "none"
                    /\ IsPrefix(decoded \o frames, sent) /\ IsPrefix(read, decoded \o frames)
                    /\ net = <<>> /\ ~calling =>
                         /\ decoded = sent /\ buffer = <<>>
                         /\ Idle => read = sent /\ unread = <<>>
  BY DEF FramesAsSent
<1>1. Typed /\ derror = "none" /\ rerror = "none" /\ Together
  BY DEF IInv, Faithful, Agreed
<1>2. PICK ps : sent = (decoded \o frames) \o ps /\ Framed(buffer \o net, ps)
  BY DEF IInv, Faithful
<1>3. PICK mid, qs : Framed(mid, qs) /\ Back = mid \o buffer /\ read \o qs = decoded \o frames
  BY <1>1 DEF Together
<1>4. /\ ps \in Seq(Good) /\ qs \in Seq(Good) /\ decoded \o frames \in Seq(Good)
      /\ buffer \in Seq(Bytes) /\ decoded \in Seq(Good) /\ read \in Seq(Good)
  BY <1>1, <1>2, <1>3, FramedTyped, ConcatProperties DEF Typed
<1>5. IsPrefix(decoded \o frames, sent) /\ IsPrefix(read, decoded \o frames)
  <2>1. IsPrefix(decoded \o frames, (decoded \o frames) \o ps) /\ IsPrefix(read, read \o qs)
    BY <1>4, PrefixOfConcat
  <2> QED BY <1>2, <1>3, <2>1
<1>6. ASSUME net = <<>>, ~calling
      PROVE  decoded = sent /\ buffer = <<>> /\ (Idle => read = sent /\ unread = <<>>)
  <2>1. buffer \o net = buffer /\ Incomplete(buffer) /\ frames = <<>>
    BY <1>1, <1>4, <1>6, ConcatEmptySeq DEF IInv, Settled
  <2>2. Framed(buffer, ps)
    BY <1>2, <2>1
  <2>3. ps = <<>>
    <3>1. buffer \o <<>> = buffer /\ <<>> \in Seq(Bytes)
      BY <1>4, ConcatEmptySeq, EmptySeq
    <3> QED BY <2>1, <2>2, <3>1, FramesComplete
  <2>4. buffer = <<>>
    BY <2>2, <2>3, FrameFirst
  <2>5. decoded \o frames = decoded /\ decoded = sent
    BY <1>2, <1>4, <2>1, <2>3, ConcatEmptySeq
  <2>6. ASSUME Idle
        PROVE  read = sent /\ unread = <<>>
    <3>1. qs = <<>> /\ Back = buffer
      <4>1. Framed(mid, qs) /\ Back = mid \o buffer /\ Idle /\ rerror = "none" /\ Typed
        BY <1>1, <1>3, <2>6
      <4>2. buffer \in Seq(Bytes)
        BY <1>4
      <4>3. qs = <<>> /\ mid = <<>> /\ Back = buffer /\ Incomplete(buffer)
        BY <4>1, <4>2, IdleHasAll
      <4> QED BY <4>3
    <3>2. read = decoded
      BY <1>3, <1>4, <2>5, <3>1, ConcatEmptySeq
    <3>3. unread = <<>>
      BY <1>1, <2>4, <3>1, NothingBack
    <3> QED BY <2>5, <3>2, <3>3
  <2> QED BY <2>4, <2>5, <2>6
<1> QED BY <1>1, <1>5, <1>6

LEMMA AgreeByInv ==
    ASSUME Bounds, IInv
    PROVE  ReadersAgree
<1> SUFFICES ASSUME ~calling
             PROVE  /\ derror = "none" => IsPrefix(read, decoded) /\ rerror = "none"
                    /\ Idle => IsPrefix(decoded, read) /\ (derror # "none" => rerror # "none")
  BY DEF ReadersAgree
<1>1. /\ Typed /\ frames = <<>>
      /\ decoded \in Seq(Good) /\ read \in Seq(Good) /\ buffer \in Seq(Bytes)
  BY DEF IInv, Settled, Typed
<1>2. <<>> \in Seq(Good) /\ decoded \o frames = decoded /\ decoded \o <<>> = decoded
  BY <1>1, ConcatEmptySeq, EmptySeq
<1>3. CASE derror = "none"
  <2>1. PICK mid, qs : Framed(mid, qs) /\ Back = mid \o buffer /\ read \o qs = decoded
    BY <1>2, <1>3 DEF IInv, Agreed, Together
  <2>2. qs \in Seq(Good) /\ rerror = "none"
    BY <1>3, <2>1, FramedTyped DEF IInv, Agreed
  <2>3. IsPrefix(read, decoded)
    BY <1>1, <2>1, <2>2, PrefixOfConcat
  <2>4. ASSUME Idle
        PROVE  IsPrefix(decoded, read)
    <3>1. qs = <<>>
      BY <1>1, <2>1, <2>2, <2>4, IdleHasAll
    <3>2. read = decoded
      BY <1>1, <2>1, <3>1, ConcatEmptySeq
    <3>3. IsPrefix(decoded, decoded \o <<>>)
      BY <1>1, <1>2, PrefixOfConcat
    <3> QED BY <1>2, <3>2, <3>3
  <2> QED BY <1>3, <2>2, <2>3, <2>4
<1>4. CASE derror # "none" /\ rerror # "none"
  <2>1. PICK lost \in Seq(Good) : read = decoded \o lost
    BY <1>4 DEF IInv, Agreed, BothFailed
  <2>2. IsPrefix(decoded, read)
    BY <1>1, <2>1, PrefixOfConcat
  <2> QED BY <1>4, <2>2
<1>5. CASE derror # "none" /\ rerror = "none"
  <2>1. PICK mid, ps : \E bad \in Seq(Bytes), lost \in Seq(Good) :
            Framed(mid, ps) /\ Back = mid \o bad /\ Faulty(bad)
    BY <1>5 DEF IInv, Agreed, Behind
  <2>2. PICK bad \in Seq(Bytes) : Framed(mid, ps) /\ Back = mid \o bad /\ Faulty(bad)
    BY <2>1
  <2>3. ~Idle
    BY <1>1, <1>5, <2>2, IdleHasAll DEF Faulty
  <2> QED BY <1>5, <2>3
<1> QED BY <1>3, <1>4, <1>5

\* However the bytes of a writer are cut, both readers return what it wrote, in order
\* and nothing else, and hold nothing back, for any number of frames and any limit on
\* their size that a length can express (encode_frame, decode_frames,
\* read_control_frame).
THEOREM FramesArrive ==
    ASSUME Bounds
    PROVE  Spec => []FramesAsSent
<1>1. IInv => FramesAsSent
  BY SentAsInv
<1> QED BY <1>1, InvHolds, PTL

\* Of any bytes, cut anywhere, decode_frames and read_control_frame make the same
\* frames and refuse the same ones, except that an error of decode_frames takes the
\* frames of its call with it (decode_frames, read_control_frame).
THEOREM SameFrames ==
    ASSUME Bounds
    PROVE  Spec => []ReadersAgree
<1>1. IInv => ReadersAgree
  BY AgreeByInv
<1> QED BY <1>1, InvHolds, PTL

\* Neither reader holds more than a frame for what has not been read, whatever
\* arrives (decode_frames, read_control_frame).
THEOREM BuffersKept ==
    ASSUME Bounds
    PROVE  Spec => []BuffersBounded
<1>1. IInv => BuffersBounded
  <2> SUFFICES ASSUME IInv
               PROVE  BuffersBounded
    OBVIOUS
  <2>1. want <= MaxFrame
    BY DEF IInv, Typed, Bounds
  <2>2. ASSUME ~calling, derror = "none"
        PROVE  Len(buffer) < HeaderSize + MaxFrame
    <3>1. Incomplete(buffer) /\ Len(buffer) \in Nat /\ MaxFrame \in Nat
      BY <2>2 DEF IInv, Settled, Typed, Bounds
    <3>2. CASE Len(buffer) < HeaderSize
      BY <3>1, <3>2 DEF HeaderSize
    <3>3. CASE ~(Len(buffer) < HeaderSize)
      <4>1. Length(buffer) \in 1..MaxFrame /\ Len(buffer) < HeaderSize + Length(buffer)
        BY <3>1, <3>3 DEF Incomplete, Accepted
      <4> QED BY <3>1, <4>1 DEF HeaderSize
    <3> QED BY <3>2, <3>3
  <2> QED BY <2>1, <2>2 DEF BuffersBounded
<1> QED BY <1>1, InvHolds, PTL
================================================================================
