------------------------------ MODULE RelayClient ------------------------------
(***************************************************************************)
(* The connection loop of ongrok-relay-client (run_with_fallback and       *)
(* run_once_with_fallback): QUIC first, then TCP/TLS with Yamux, then a    *)
(* backoff, until the session ends well or an error is final.              *)
(*                                                                         *)
(* The network and the server are the environment: whether UDP and TCP     *)
(* reach the server, and what the server would answer.  A server that is   *)
(* down is one that neither reaches; a session that the server drops for a *)
(* reason of its own is a path that fails for a moment.                    *)
(***************************************************************************)
EXTENDS Naturals

CONSTANT MaxAttempt   \* retry_attempt is counted up to here; beyond 5 it has no effect

ASSUME AttemptAssumption == MaxAttempt \in Nat /\ MaxAttempt > 5

VARIABLES
    pc,        \* where the loop is
    attempt,   \* retry_attempt
    delay,     \* seconds of the backoff, 0 outside it
    once,      \* the --once flag
    udp, tcp,  \* the server can be reached over QUIC, over TCP
    verdict    \* what the server answers: "rejectToken" to Auth, "rejectService" to
               \* what follows it, RegisterNode or RegisterService

vars == <<pc, attempt, delay, once, udp, tcp, verdict>>
env == <<once, udp, tcp, verdict>>

States == {"quic", "quicSession", "yamux", "yamuxSession", "backoff", "exited", "failed"}
Verdicts == {"accept", "rejectService", "rejectToken"}

Lesser(a, b) == IF a < b THEN a ELSE b

\* 2^min(retry_attempt, 5) seconds, and up to a third of that as jitter.
MutantBase(n) == 2 ^ n                         \* the exponent is not capped
Base(n) == 2 ^ Lesser(n, 5)
Delays(n) == Base(n) .. Base(n) + Base(n) \div 3

Goto(p) == pc' = p /\ UNCHANGED <<attempt, delay, env>>

\* run_yamux failed, and with it the attempt.  is_authentication_error looks for
\* "rejected token" in the message.
MutantFinal(refused) == once \/ verdict # "accept"  \* a refused service is final too
MutantNeverFinal(refused) == once              \* the message is not recognised
Final(refused) == once \/ refused
MutantGiveUp(refused) ==                       \* the retries are counted out
    IF Final(refused) \/ attempt = MaxAttempt
      THEN Goto("failed")
      ELSE /\ pc' = "backoff"
           /\ attempt' = attempt + 1
           /\ delay' \in Delays(attempt + 1)
           /\ UNCHANGED env
GiveUp(refused) ==
    IF Final(refused)
      THEN Goto("failed")
      ELSE /\ pc' = "backoff"
           /\ attempt' = Lesser(attempt + 1, MaxAttempt)
           /\ delay' \in Delays(attempt + 1)
           /\ UNCHANGED env

--------------------------------------------------------------------------------
(* run_quic, inside a timeout of 5 s *)

QuicConnects ==
    /\ pc = "quic" /\ udp /\ verdict = "accept"
    /\ Goto("quicSession")

\* Any error leads to the fallback, a refused token among them.
QuicFails ==
    /\ pc = "quic" /\ (~udp \/ verdict # "accept")
    /\ Goto("yamux")

\* The connection breaks, or the server closes it because the token is revoked.
QuicEnds ==
    /\ pc = "quicSession" /\ (~udp \/ verdict = "rejectToken")
    /\ Goto("yamux")

\* The 5 s are up.  They count from the start of run_quic, which goes on for as
\* long as the session does.
QuicTimesOut ==
    /\ pc \in {"quic", "quicSession"}
    /\ Goto("yamux")

(* run_yamux *)

YamuxConnects ==
    /\ pc = "yamux" /\ tcp /\ verdict = "accept"
    /\ Goto("yamuxSession")

YamuxFails ==
    /\ pc = "yamux" /\ (~tcp \/ verdict # "accept")
    /\ GiveUp(tcp /\ verdict = "rejectToken")

YamuxEnds ==
    /\ pc = "yamuxSession" /\ (~tcp \/ verdict = "rejectToken")
    /\ GiveUp(FALSE)

\* With --once the session says Goodbye after its first heartbeat.
OnceDone ==
    /\ once
    /\ \/ pc = "quicSession" /\ udp
       \/ pc = "yamuxSession" /\ tcp
    /\ Goto("exited")

BackoffElapses ==
    /\ pc = "backoff"
    /\ pc' = "quic" /\ delay' = 0
    /\ UNCHANGED <<attempt, env>>

Client ==
    \/ QuicConnects \/ QuicFails \/ QuicEnds \/ QuicTimesOut
    \/ YamuxConnects \/ YamuxFails \/ YamuxEnds
    \/ OnceDone \/ BackoffElapses

--------------------------------------------------------------------------------
(* The environment *)

PathChanges ==
    /\ udp' \in BOOLEAN /\ tcp' \in BOOLEAN
    /\ UNCHANGED <<pc, attempt, delay, once, verdict>>

\* A service name or port gets free or taken; a token is revoked for good.
VerdictChanges ==
    /\ verdict # "rejectToken" /\ verdict' \in Verdicts
    /\ UNCHANGED <<pc, attempt, delay, once, udp, tcp>>

Init ==
    /\ pc = "quic" /\ attempt = 0 /\ delay = 0
    /\ once \in BOOLEAN /\ udp \in BOOLEAN /\ tcp \in BOOLEAN
    /\ verdict \in Verdicts

Next == Client \/ PathChanges \/ VerdictChanges

\* Every await of the client is bounded by a timeout or answered by the server,
\* and the runtime goes on with a task that is ready.
Spec == Init /\ [][Next]_vars
FairSpec == Spec /\ WF_vars(Client)

--------------------------------------------------------------------------------
(* Properties *)

Running == pc \notin {"exited", "failed"}
InSession == pc \in {"quicSession", "yamuxSession"}

\* The types; the backoff never exceeds 42 s, however many attempts failed.
TypeOK ==
    /\ pc \in States
    /\ attempt \in 0..MaxAttempt
    /\ delay \in 0..42 /\ (delay > 0 <=> pc = "backoff")
    /\ once \in BOOLEAN /\ udp \in BOOLEAN /\ tcp \in BOOLEAN
    /\ verdict \in Verdicts

\* A client that was not started with --once ends for one reason, a refused
\* token: no order of network failures, timeouts and refused services stops it
\* (run_with_fallback, is_authentication_error).
OnlyRefusalStops == ~once /\ ~Running => pc = "failed" /\ verdict = "rejectToken"

\* Once TCP works for good and the server accepts, the client is in a session
\* again and again, whatever happened before (PLAN.md:300, 438).
Reconnects ==
    <>[](tcp /\ verdict = "accept" /\ ~once) => []<>InSession

\* Once TCP works for good, a client whose token is refused stops retrying
\* (PLAN.md:300).
RefusedClientStops ==
    <>[]tcp => (verdict = "rejectToken" ~> ~Running)

\* "TCP/TLS with Yamux is used when UDP is unavailable" (README.md:9): a QUIC
\* session whose path works and whose token is accepted is not given up.
HealthyQuicKept ==
    [][pc = "quicSession" /\ udp /\ verdict = "accept" => pc' # "yamux"]_vars
================================================================================
