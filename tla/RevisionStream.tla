--------------------------- MODULE RevisionStream ---------------------------
(***************************************************************************)
(* What one monotone round stream promises, with no reservation heads,     *)
(* leases, tokens or handlers.  ADR 0043 calls it "the same durable        *)
(* invariant" of the result and the multimodal-analysis ingestion flows.   *)
(*                                                                         *)
(*   - A payload is admitted only when nothing is open and it comes after  *)
(*     everything admitted before it, for the one runtime session.         *)
(*   - An admitted payload is settled once: processed, or stale.           *)
(*   - The runtime is told something about a payload only when it is true. *)
(***************************************************************************)
EXTENDS Naturals

CONSTANT Payload

VARIABLES
    event,      \* [Payload -> {"absent", "received", "processed", "stale"}]
    acked       \* [Payload -> SUBSET {"processed", "duplicate", "stale"}]

streamVars == <<event, acked>>

\* Lexicographic order of (attempt, revision).
Precedes(p, q) ==
    \/ p.attempt < q.attempt
    \/ p.attempt = q.attempt /\ p.revision < q.revision

SameCoordinate(p, q) == p.attempt = q.attempt /\ p.revision = q.revision

Admitted == {p \in Payload : event[p] # "absent"}
Open == {p \in Payload : event[p] = "received"}

\* When an acknowledgement of p is truthful: the exact result (or one with the
\* same coordinate and digest) is in, or a later one was admitted, or p itself
\* was settled as stale.
Truthful(p, outcome) ==
    \/ /\ outcome = "processed"
       /\ event[p] = "processed"
    \/ /\ outcome = "duplicate"
       /\ \E q \in Payload : /\ SameCoordinate(q, p)
                             /\ q.digest = p.digest
                             /\ event[q] = "processed"
    \/ /\ outcome = "stale"
       /\ \E q \in Payload : \/ Precedes(p, q) /\ event[q] # "absent"
                             \/ /\ SameCoordinate(q, p)
                                /\ q.digest = p.digest
                                /\ event[q] = "stale"

StreamInit ==
    /\ event = [p \in Payload |-> "absent"]
    /\ acked = [p \in Payload |-> {}]

Admit(p) ==
    /\ Open = {}
    /\ \A q \in Admitted : /\ Precedes(q, p)
                           /\ q.runtimeSessionId = p.runtimeSessionId
                           /\ q.eventId # p.eventId
    /\ event' = [event EXCEPT ![p] = "received"]
    /\ UNCHANGED acked

Settle(p, outcome) ==
    /\ event[p] = "received"
    /\ event' = [event EXCEPT ![p] = outcome]
    /\ UNCHANGED acked

Acknowledge(p, outcome) ==
    /\ Truthful(p, outcome)
    /\ acked' = [acked EXCEPT ![p] = @ \cup {outcome}]
    /\ UNCHANGED event

StreamNext ==
    \E p \in Payload :
        \/ Admit(p)
        \/ \E outcome \in {"processed", "stale"} : Settle(p, outcome)
        \/ \E outcome \in {"processed", "duplicate", "stale"} : Acknowledge(p, outcome)

StreamSpec == StreamInit /\ [][StreamNext]_streamVars
=============================================================================
