-------------------------- MODULE MCResultIngestion --------------------------
(* Instances of ResultIngestion for TLC. *)
EXTENDS ResultIngestion, TLC

CONSTANTS r1, r2, sess

\* The one session a runtime binding ever has counts as attempt 1: its first
\* result with audio, the follow-up with the late camera recording, and the
\* follow-up as a publisher without the core snapshot would build it.
Result(e, v, c, m) ==
    [eventId |-> e, runtimeSessionId |-> sess, attempt |-> 1, revision |-> v,
     digest |-> e, core |-> c, media |-> m]

FirstResult == Result("e1", 1, "core", TRUE)
FollowUp == Result("e2", 2, "core", TRUE)
Rebuilt == Result("e3", 2, "other", FALSE)

OneResult == {FirstResult}
AllResults == {FirstResult, FollowUp, Rebuilt}

\* Where only the first result is delivered, everything may happen; where all
\* of them are, one attempt is neither revoked nor is its workspace deleted.
OneOrManyResults ==
    \/ /\ \A p \in Payload \ {FirstResult} : event[p] = "absent"
       /\ \A h \in Request : request[h].payload \in {FirstResult, NoPayload}
    \/ /\ \A n \in Attempts \ {1} : attempt[n].status = "absent"
       /\ ~revoking
       /\ workspace = "active"

RequestSymmetry == Permutations(Request)
=============================================================================
