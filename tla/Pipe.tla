---------------------------------- MODULE Pipe ----------------------------------
(***************************************************************************)
(* What a forwarded TCP connection promises to the two programs at its     *)
(* ends: in each direction the bytes come out as they went in, and the end *)
(* is seen once all of them have, unless something has failed on the way.  *)
(* The directions end one by one: a half-closed connection goes on.        *)
(***************************************************************************)
EXTENDS Naturals, Sequences

CONSTANTS
    Dirs,      \* the two directions
    Bytes      \* what a unit of data can be

VARIABLES
    sent,      \* direction -> what its source has written
    got,       \* direction -> what its destination has read
    fin,       \* direction -> the source has closed it
    eof,       \* direction -> the destination has seen its end
    broken     \* something has failed: a peer, the session, the set-up

vars == <<sent, got, fin, eof, broken>>

Send(d, b) ==
    /\ ~fin[d]
    /\ sent' = [sent EXCEPT ![d] = Append(@, b)]
    /\ UNCHANGED <<got, fin, eof, broken>>

Close(d) ==
    /\ fin' = [fin EXCEPT ![d] = TRUE]
    /\ UNCHANGED <<sent, got, eof, broken>>

Deliver(d) ==
    /\ ~eof[d] /\ Len(got[d]) < Len(sent[d])
    /\ got' = [got EXCEPT ![d] = Append(@, sent[d][Len(@) + 1])]
    /\ UNCHANGED <<sent, fin, eof, broken>>

Complete(d) == fin[d] /\ Len(got[d]) = Len(sent[d])

End(d) ==
    /\ ~eof[d] /\ (broken \/ Complete(d))
    /\ eof' = [eof EXCEPT ![d] = TRUE]
    /\ UNCHANGED <<sent, got, fin, broken>>

\* A failure may end directions with it, at whatever byte they are.
Break ==
    /\ broken' = TRUE
    /\ \E ended \in SUBSET Dirs : eof' = [d \in Dirs |-> eof[d] \/ d \in ended]
    /\ UNCHANGED <<sent, got, fin>>

Init ==
    /\ sent = [d \in Dirs |-> <<>>] /\ got = [d \in Dirs |-> <<>>]
    /\ fin = [d \in Dirs |-> FALSE] /\ eof = [d \in Dirs |-> FALSE]
    /\ broken = FALSE

Next ==
    \/ \E d \in Dirs : Close(d) \/ Deliver(d) \/ End(d)
    \/ \E d \in Dirs, b \in Bytes : Send(d, b)
    \/ Break

Spec == Init /\ [][Next]_vars

\* As long as nothing fails, what was written is delivered, and so is the end.
Progress(d) == ~broken /\ (Deliver(d) \/ End(d))
FairSpec == Spec /\ \A d \in Dirs : WF_vars(Progress(d))
================================================================================
