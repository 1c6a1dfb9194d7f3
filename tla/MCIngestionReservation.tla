----------------------- MODULE MCIngestionReservation -----------------------
(* Instances of IngestionReservation for TLC. *)
EXTENDS IngestionReservation, TLC

CONSTANTS r1, r2, sessA, sessB

Result(e, s, a, v, d) ==
    [eventId |-> e, runtimeSessionId |-> s, attempt |-> a, revision |-> v, digest |-> d]

\* A first result, the same attempt's follow-up revision with late media, and
\* the result of another runtime session, which the round must not mix with
\* the others.
FirstResult == Result("e1", sessA, 1, 1, "d1")
FollowUp == Result("e2", sessA, 1, 2, "d2")
OtherSession == Result("e3", sessB, 2, 1, "d3")

RivalPayloads == {FirstResult, FollowUp, OtherSession}
=============================================================================
