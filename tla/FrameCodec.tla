------------------------------- MODULE FrameCodec -------------------------------
(***************************************************************************)
(* The framing of control messages: encode_frame of libongrok, and the two *)
(* ways to read frames back from bytes that arrive in any pieces:          *)
(* decode_frames, from a buffer that the caller fills, and                 *)
(* read_control_frame of client and server, from a stream.                 *)
(*                                                                         *)
(* A byte is a digit below Radix.  What postcard makes of a payload is of  *)
(* interest only so far: a payload that does not begin with a known tag is *)
(* malformed.                                                              *)
(***************************************************************************)
EXTENDS Integers, Sequences, SequencesExt

CONSTANTS
    Radix,          \* number of byte values
    MaxFrame,       \* MAX_FRAME_SIZE
    Tags,           \* first bytes of payloads that postcard decodes
    MaxFrames,      \* frames a writer sends at most
    MaxNoise        \* length of other byte strings that arrive

Bytes == 0..(Radix - 1)

--------------------------------------------------------------------------------
(* A frame: its length, a big-endian u32, and its payload *)

HeaderSize == 4
Digit(n, place) == (n \div place) % Radix
Header(n) ==
    <<Digit(n, Radix * Radix * Radix), Digit(n, Radix * Radix), Digit(n, Radix), Digit(n, 1)>>
Length(b) == ((b[1] * Radix + b[2]) * Radix + b[3]) * Radix + b[4]

MutantEncode(payload) ==               \* the length counts the header
    IF Len(payload) > MaxFrame THEN <<>> ELSE Header(Len(payload) + HeaderSize) \o payload
\* The bytes of one frame, or none when it is too long.
Encode(payload) ==
    IF Len(payload) > MaxFrame THEN <<>> ELSE Header(Len(payload)) \o payload

Wellformed(payload) == payload[1] \in Tags

Accepted(n) == n \in 1..MaxFrame

\* The first payload of a buffer that holds all of it, and what comes after.
Payload(b) == SubSeq(b, HeaderSize + 1, HeaderSize + Length(b))
After(b) == SubSeq(b, HeaderSize + Length(b) + 1, Len(b))

--------------------------------------------------------------------------------
(* A writer, the network, and a reader of each kind on the same bytes *)

VARIABLES
    noisy,      \* the bytes do not come from a writer of this protocol
    sent,       \* payloads that write_control_frame has written
    net,        \* bytes under way
    calling,    \* decode_frames is running
    frames,     \* payloads it has found in this call
    buffer,     \* its buffer
    decoded,    \* payloads it has returned
    derror,     \* its error
    unread,     \* bytes that have arrived at read_control_frame
    want,       \* length of the payload it waits for, 0 when it waits for a header
    read,       \* payloads it has returned
    rerror      \* its error

decoder == <<calling, frames, buffer, decoded, derror>>
reader == <<unread, want, read, rerror>>
vars == <<noisy, sent, net, decoder, reader>>

Strings(n) == UNION {[1..k -> Bytes] : k \in 0..n}
Payloads == {p \in Strings(MaxFrame + 1) : p # <<>> /\ Wellformed(p)}

\* A frame that is too long is refused and nothing of it is written.
Write(payload) ==
    /\ ~noisy /\ Len(sent) < MaxFrames
    /\ net' = net \o Encode(payload)
    /\ sent' = IF Encode(payload) = <<>> THEN sent ELSE Append(sent, payload)
    /\ UNCHANGED <<noisy, decoder, reader>>

\* A piece of any size arrives, and decode_frames is called with it, unless it has
\* failed.
Arrive(n) ==
    /\ n \in 1..Len(net)
    /\ net' = SubSeq(net, n + 1, Len(net))
    /\ unread' = unread \o SubSeq(net, 1, n)
    /\ IF derror # "none" THEN UNCHANGED decoder
       ELSE /\ buffer' = buffer \o SubSeq(net, 1, n)
            /\ calling' = TRUE /\ frames' = <<>>
            /\ UNCHANGED <<decoded, derror>>
    /\ UNCHANGED <<noisy, sent, want, read, rerror>>

--------------------------------------------------------------------------------
(* decode_frames: its loop takes a frame, returns, or fails *)

MutantIncomplete(b) ==                 \* the length is looked at when the payload is there
    IF Len(b) < HeaderSize THEN TRUE ELSE Len(b) < HeaderSize + Length(b)
Incomplete(b) ==
    IF Len(b) < HeaderSize THEN TRUE
    ELSE Accepted(Length(b)) /\ Len(b) < HeaderSize + Length(b)

TakeFrame ==
    /\ ~Incomplete(buffer) /\ Accepted(Length(buffer)) /\ Wellformed(Payload(buffer))
    /\ frames' = Append(frames, Payload(buffer))
    /\ buffer' = After(buffer)
    /\ UNCHANGED <<calling, decoded, derror>>

Return ==
    /\ Incomplete(buffer)
    /\ calling' = FALSE /\ frames' = <<>>
    /\ decoded' = decoded \o frames
    /\ UNCHANGED <<buffer, derror>>

\* An error takes the frames that the call has found with it.
Fail(why, rest) ==
    /\ calling' = FALSE /\ frames' = <<>>
    /\ derror' = why /\ buffer' = rest
    /\ UNCHANGED decoded
Refuse ==
    /\ ~Incomplete(buffer)
    /\ \/ Length(buffer) > MaxFrame /\ Fail("FrameTooLarge", buffer)
       \/ Length(buffer) = 0 /\ Fail("InvalidLength", buffer)
       \/ /\ Accepted(Length(buffer)) /\ ~Wellformed(Payload(buffer))
          /\ Fail("Malformed", After(buffer))

Decode ==
    /\ TakeFrame \/ Return \/ Refuse
    /\ UNCHANGED <<noisy, sent, net, reader>>

--------------------------------------------------------------------------------
(* read_control_frame *)

MutantReadHeader ==                    \* the length is trusted
    /\ rerror = "none" /\ want = 0 /\ Len(unread) >= HeaderSize
    /\ IF Length(unread) = 0
         THEN rerror' = "invalid length" /\ UNCHANGED want
         ELSE want' = Length(unread) /\ UNCHANGED rerror
    /\ unread' = SubSeq(unread, HeaderSize + 1, Len(unread))
    /\ UNCHANGED <<noisy, sent, net, decoder, read>>
\* read_exact takes the header and no byte more.
ReadHeader ==
    /\ rerror = "none" /\ want = 0 /\ Len(unread) >= HeaderSize
    /\ IF Accepted(Length(unread))
         THEN want' = Length(unread) /\ UNCHANGED rerror
         ELSE rerror' = "invalid length" /\ UNCHANGED want
    /\ unread' = SubSeq(unread, HeaderSize + 1, Len(unread))
    /\ UNCHANGED <<noisy, sent, net, decoder, read>>

ReadPayload ==
    /\ rerror = "none" /\ want > 0 /\ Len(unread) >= want
    /\ LET payload == SubSeq(unread, 1, want) IN
       IF Wellformed(payload)
         THEN read' = Append(read, payload) /\ UNCHANGED rerror
         ELSE rerror' = "malformed" /\ UNCHANGED read
    /\ want' = 0 /\ unread' = SubSeq(unread, want + 1, Len(unread))
    /\ UNCHANGED <<noisy, sent, net, decoder>>

Init ==
    /\ noisy \in BOOLEAN
    /\ net \in IF noisy THEN Strings(MaxNoise) ELSE {<<>>}
    /\ sent = <<>> /\ decoded = <<>> /\ read = <<>>
    /\ calling = FALSE /\ frames = <<>>
    /\ buffer = <<>> /\ unread = <<>>
    /\ derror = "none" /\ rerror = "none" /\ want = 0

\* decode_frames does not wait, so that nothing else happens in a call of it.
Next ==
    \/ calling /\ Decode
    \/ /\ ~calling
       /\ \/ \E payload \in Payloads : Write(payload)
          \/ \E n \in 1..Len(net) : Arrive(n)
          \/ ReadHeader \/ ReadPayload

Spec == Init /\ [][Next]_vars

--------------------------------------------------------------------------------
(* Properties *)

\* read_control_frame has failed, or waits for more bytes.
Idle ==
    \/ rerror # "none"
    \/ Len(unread) < IF want = 0 THEN HeaderSize ELSE want

\* However the bytes are cut, both readers return what was written, and once all
\* of it has arrived neither holds a byte back (encode_frame, decode_frames,
\* read_control_frame).
FramesAsSent ==
    ~noisy =>
      /\ derror = "none" /\ rerror = "none"
      /\ IsPrefix(decoded \o frames, sent) /\ IsPrefix(read, decoded \o frames)
      /\ net = <<>> /\ ~calling =>
           /\ decoded = sent /\ buffer = <<>>
           /\ Idle => read = sent /\ unread = <<>>

\* The two readers agree on any bytes, whenever a call has returned: the frames are
\* the same ones, and one finds an error where the other does.
ReadersAgree ==
    ~calling =>
      /\ derror = "none" => IsPrefix(read, decoded) /\ rerror = "none"
      /\ Idle => IsPrefix(decoded, read) /\ (derror # "none" => rerror # "none")

\* "All lengths [...] and buffers have limits" (PLAN.md:148): neither reader holds
\* more than a frame for what has not been read, whatever arrives.
BuffersBounded ==
    /\ ~calling /\ derror = "none" => Len(buffer) < HeaderSize + MaxFrame
    /\ want <= MaxFrame
================================================================================
