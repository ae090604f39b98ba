------------------------------- MODULE NodeState -------------------------------
(***************************************************************************)
(* node.json, where a client keeps its node id and private key             *)
(* (load_or_create_state, write_state): created at the first start, given  *)
(* a key if an earlier version has written it without one, and read at     *)
(* every other start.                                                      *)
(*                                                                         *)
(* The file is written in place.  Processes with one state directory may   *)
(* run at the same time, be killed at any step, and fail to write.         *)
(***************************************************************************)
EXTENDS Naturals, FiniteSets

CONSTANTS
    Clients,     \* processes with this state directory
    MaxDraws     \* node ids and keys that are drawn at most

NoKey == 0       \* 32 zero bytes, which stand for a key that is not in the file

VARIABLES
    file,        \* [node, key], or Absent, or Torn
    at,          \* process -> where it is
    identity,    \* process -> the state it has in hand
    draws,       \* how often an id or a key has been drawn
    old,         \* history: there was a file of an earlier version
    alone,       \* history: no process started while another was to write
    used         \* history: the identities with which processes went on to connect

vars == <<file, at, identity, draws, old, alone, used>>

NoIdentity == [node |-> 0, key |-> NoKey]
\* No file, and one that is not read as a state.  No node id is 0.
Absent == [node |-> 0, key |-> 1]
Torn == [node |-> 0, key |-> 2]
Whole == file \notin {Absent, Torn}
ToWrite(p) == at[p] \in {"create", "write"}

\* The file of an earlier version has the first node id.
Init ==
    /\ old \in BOOLEAN
    /\ file = IF old THEN [node |-> 1, key |-> NoKey] ELSE Absent
    /\ at = [p \in Clients |-> "off"] /\ identity = [p \in Clients |-> NoIdentity]
    /\ draws = 1 /\ alone = TRUE /\ used = {}

Goes(p, place, state) ==
    /\ at' = [at EXCEPT ![p] = place]
    /\ identity' = [identity EXCEPT ![p] = state]
    /\ used' = IF place = "running" THEN used \cup {state} ELSE used

\* What a new process finds: a file it can read,
Starts(p) ==
    /\ at[p] = "off"
    /\ alone' = (alone /\ \A q \in Clients : ~ToWrite(q))
    /\ UNCHANGED <<file, old>>
Load(p) ==
    /\ Starts(p) /\ Whole /\ file.key # NoKey
    /\ Goes(p, "running", file)
    /\ UNCHANGED draws

\* one without a key, or none, which leads to a state that has to be written,
MutantMigrated(key) == [node |-> key, key |-> key]         \* as if there were none
Migrated(key) == [file EXCEPT !.key = key]
Create(p) ==
    /\ Starts(p) /\ draws < MaxDraws
    /\ draws' = draws + 1
    /\ \/ Whole /\ file.key = NoKey /\ Goes(p, "create", Migrated(draws'))
       \/ file = Absent /\ Goes(p, "create", [node |-> draws', key |-> draws'])

\* or one that is no state: "invalid node state".
Invalid(p) ==
    /\ Starts(p) /\ file = Torn
    /\ Goes(p, "off", NoIdentity)
    /\ UNCHANGED draws

\* fs::write empties the file when it opens it, and then writes.
Open(p) ==
    /\ at[p] = "create"
    /\ file' = Torn /\ Goes(p, "write", identity[p])
    /\ UNCHANGED <<draws, old, alone>>

Write(p) ==
    /\ at[p] = "write"
    /\ file' = identity[p] /\ Goes(p, "running", identity[p])
    /\ UNCHANGED <<draws, old, alone>>

\* The write fails, or the permissions cannot be set after it: the process ends.
WriteFails(p) ==
    /\ at[p] = "write"
    /\ file' \in {file, identity[p]} /\ Goes(p, "off", NoIdentity)
    /\ UNCHANGED <<draws, old, alone>>

\* It is killed, or ends.
Ends(p) ==
    /\ at[p] # "off"
    /\ Goes(p, "off", NoIdentity)
    /\ UNCHANGED <<file, draws, old, alone>>

Next ==
    \E p \in Clients :
        \/ Load(p) \/ Create(p) \/ Invalid(p)
        \/ Open(p) \/ Write(p) \/ WriteFails(p) \/ Ends(p)

Spec == Init /\ [][Next]_vars

--------------------------------------------------------------------------------
(* Properties *)

\* "A stable node_id and key pair" (design.md:29): over all starts, kills and failed
\* writes a state directory has one identity, which is what a running process will
\* find again, and migration keeps the node id (PLAN.md:285), unless a process is
\* started while another one is to write the file.
IdentityStable ==
    alone =>
      /\ Cardinality(used) <= 1 /\ (old => \A i \in used : i.node = 1)
      /\ \A p \in Clients : at[p] = "running" => file = identity[p]
      /\ Whole /\ file.key # NoKey => used \subseteq {file}
      /\ Whole /\ file.key = NoKey => used = {}
================================================================================
