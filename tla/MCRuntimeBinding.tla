-------------------------- MODULE MCRuntimeBinding --------------------------
(* Instances of RuntimeBinding for TLC. *)
EXTENDS RuntimeBinding, TLC

CONSTANTS x1, x2, c1, c2, w1, v1, v2    \* processes

Unused(q) == request[q].pc = "idle"
Unwritten == writer[w1] = "idle"
Delivers(r) == \A s \in Revoker \ {r} : revoker[s].pc = "idle"
PurgeOnly == "ordinary" \notin acked /\ \A r \in Revoker : revoker[r].kind # "ordinary"

\* The corners of the run, each the instance in which some processes never
\* start: overlapping deliveries of both kinds; two creators, and deliveries any
\* of which may be killed; two exchanges that claim the principal from one
\* another, and the purge.
BindingCorners ==
    \/ Unused(x2) /\ Unused(c2)
    \/ Unused(x2) /\ Delivers(v2)
    \/ Unused(c2) /\ Unwritten /\ Delivers(v1) /\ PurgeOnly
=============================================================================
