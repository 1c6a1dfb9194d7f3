------------------------ MODULE IngestionReservation ------------------------
(***************************************************************************)
(* The reservation of one round's result stream on the control plane:      *)
(* modules/hire/services/ingestionRevisionReservationService.ts with the   *)
(* event ledger its caller keeps in the same transactions.                 *)
(*                                                                         *)
(* A request is one HTTP delivery of a payload.  Requests interleave       *)
(* freely; each database transaction is one step.  A payload is the record *)
(* of the coordinates the protocol compares.  A request may be killed      *)
(* between any two steps, and the lease of the head may run out at any     *)
(* moment (clocks of different hosts are not compared): time is only       *)
(* whether the current lease is still live.                                *)
(***************************************************************************)
EXTENDS Naturals, FiniteSets

CONSTANTS
    Request,    \* slots for concurrent deliveries
    Payload,    \* payloads the runtime may deliver for this round
    NoPayload,
    NoRequest,
    NoSession

ASSUME PayloadAssumption ==
    /\ NoPayload \notin Payload
    /\ NoRequest \notin Request
    /\ \A p \in Payload : /\ p.attempt \in Nat
                          /\ p.revision \in Nat
                          /\ p.runtimeSessionId # NoSession

VARIABLES
    roundSession,   \* HireRound.runtimeSessionId
    head,           \* HireRound.ingestionReservations.engineResult
    event,          \* HireEngineIngestionEvent rows, by payload
    request,        \* the deliveries in flight
    acked           \* outcomes the runtime has been told, by payload

reservationVars == <<roundSession, head, event, request, acked>>

\* The refinement: the ledger and what the runtime was told are all the abstract
\* stream sees; round, head and requests are hidden.
Stream == INSTANCE RevisionStream WITH Payload <- Payload, event <- event, acked <- acked

Precedes(p, q) == Stream!Precedes(p, q)
Rows == {p \in Payload : event[p] # "absent"}

\* head.owner is the request whose token equals head.reservationToken.  Tokens
\* are fresh UUIDs compared only for equality, so the token of a request that
\* has ended is one nobody holds: NoRequest.
NoHead == [payload |-> NoPayload, status |-> "none", owner |-> NoRequest, leaseLive |-> FALSE]

IdleRequest == [pc |-> "idle", payload |-> NoPayload, reply |-> "none"]

HeadStatus == {"none", "reserved", "processed", "stale"}
EventStatus == {"absent", "received", "processed", "stale"}
AckOutcome == {"processed", "duplicate", "stale"}
RequestState ==
    [pc : {"idle", "reserving", "working", "replied"},
     payload : Payload \cup {NoPayload},
     reply : AckOutcome \cup {"none", "refused"}]

TypeOK ==
    /\ roundSession \in {p.runtimeSessionId : p \in Payload} \cup {NoSession}
    /\ head \in [payload : Payload \cup {NoPayload},
                 status : HeadStatus,
                 owner : Request \cup {NoRequest},
                 leaseLive : BOOLEAN]
    /\ event \in [Payload -> EventStatus]
    /\ request \in [Request -> RequestState]
    /\ acked \in [Payload -> SUBSET AckOutcome]

Init ==
    /\ roundSession = NoSession
    /\ head = NoHead
    /\ event = [p \in Payload |-> "absent"]
    /\ request = [h \in Request |-> IdleRequest]
    /\ acked = [p \in Payload |-> {}]

-----------------------------------------------------------------------------
(* Decisions. *)

SessionAllowed(p) == roundSession \in {NoSession, p.runtimeSessionId}

\* Variant with a bug: the runtime sessions are not compared.
VerdictAnySession(q, s, p) ==
    IF \/ q.eventId = p.eventId /\ q # p
       \/ Stream!SameCoordinate(q, p) /\ q.digest # p.digest THEN "conflict"
    ELSE IF Precedes(p, q) THEN "stale"
    ELSE IF s \in {"reserved", "received"} THEN "in_progress"
    ELSE IF Precedes(q, p) THEN "admit"
    ELSE IF s = "stale" THEN "stale" ELSE "duplicate"

\* Variant with a bug: a repeat counts as a duplicate, also of a stale result.
VerdictForgetful(q, s, p) ==
    IF \/ q.runtimeSessionId # p.runtimeSessionId
       \/ q.eventId = p.eventId /\ q # p
       \/ Stream!SameCoordinate(q, p) /\ q.digest # p.digest THEN "conflict"
    ELSE IF Precedes(p, q) THEN "stale"
    ELSE IF s \in {"reserved", "received"} THEN "in_progress"
    ELSE IF Precedes(q, p) THEN "admit"
    ELSE "duplicate"

\* How an earlier entry q, with status s, answers payload p.  The head and the
\* ledger compare in the same order.
Verdict(q, s, p) ==
    IF \/ q.runtimeSessionId # p.runtimeSessionId
       \/ q.eventId = p.eventId /\ q # p
       \/ Stream!SameCoordinate(q, p) /\ q.digest # p.digest THEN "conflict"
    ELSE IF Precedes(p, q) THEN "stale"
    ELSE IF s \in {"reserved", "received"} THEN "in_progress"
    ELSE IF Precedes(q, p) THEN "admit"
    ELSE IF s = "stale" THEN "stale" ELSE "duplicate"

\* A row of the ledger no other row comes after.
Latest(q) == q \in Rows /\ \A r \in Rows : ~Precedes(q, r)

\* The ledger's answer to p: its own row, a row that reuses its event id, or
\* else the latest row of the round.
PriorOutcome(p) ==
    IF event[p] = "received" \/ Rows = {} THEN "admit"
    ELSE IF event[p] = "stale" THEN "stale"
    ELSE IF event[p] = "processed" THEN "duplicate"
    ELSE IF \E q \in Rows : q.eventId = p.eventId THEN "conflict"
    ELSE LET q == CHOOSE r \in Rows : Latest(r) IN Verdict(q, event[q], p)

\* Variant with a bug: the reservation of a dead owner is never claimed again.
ClaimableOnce(p) ==
    /\ SessionAllowed(p)
    /\ \/ head.status = "none"
       \/ head.status \in {"processed", "stale"} /\ Precedes(head.payload, p)

\* The compare-and-set filter of the head.
Claimable(p) ==
    /\ SessionAllowed(p)
    /\ \/ head.status = "none"
       \/ head.status \in {"processed", "stale"} /\ Precedes(head.payload, p)
       \/ head.status = "reserved" /\ head.payload = p /\ ~head.leaseLive

\* A head that cannot be claimed is classified.  "admit" (the code's 'retry')
\* cannot be reached with a consistent snapshot and ends, after three tries, as
\* a conflict.
Decision(p) ==
    IF Claimable(p) THEN PriorOutcome(p)
    ELSE IF ~SessionAllowed(p) \/ head.status = "none" THEN "conflict"
    ELSE LET v == Verdict(head.payload, head.status, p) IN IF v = "admit" THEN "conflict" ELSE v

-----------------------------------------------------------------------------
(* Steps of a delivery. *)

Reply(h, outcome) ==
    request' = [request EXCEPT ![h] = [pc |-> "replied", payload |-> @.payload, reply |-> outcome]]

\* A delivery arrives and reads the round; one bound to another session is refused.
Receive(h, p) ==
    /\ request[h].pc = "idle"
    /\ SessionAllowed(p)
    /\ request' = [request EXCEPT ![h] = [pc |-> "reserving", payload |-> p, reply |-> "none"]]
    /\ UNCHANGED <<roundSession, head, event, acked>>

\* The reservation transaction commits: the head and the ledger row together.
Acquire(h) ==
    LET p == request[h].payload IN
    /\ request[h].pc = "reserving"
    /\ Claimable(p)
    /\ PriorOutcome(p) = "admit"
    /\ head' = [payload |-> p, status |-> "reserved", owner |-> h, leaseLive |-> TRUE]
    /\ event' = [event EXCEPT ![p] = "received"]
    /\ request' = [request EXCEPT ![h] = [pc |-> "working", payload |-> p, reply |-> "none"]]
    /\ UNCHANGED <<roundSession, acked>>

\* Variant with a bug: an internal decision is sent to the runtime as it is.
DeclineVerbatim(h) ==
    LET d == Decision(request[h].payload) IN
    /\ request[h].pc = "reserving"
    /\ d # "admit"
    /\ Reply(h, d)
    /\ UNCHANGED <<roundSession, head, event, acked>>

\* The reservation transaction answers from what is already there (and rolls
\* back a claimed head).
Decline(h) ==
    LET d == Decision(request[h].payload) IN
    /\ request[h].pc = "reserving"
    /\ d # "admit"
    /\ Reply(h, IF d \in {"stale", "duplicate"} THEN d ELSE "refused")
    /\ UNCHANGED <<roundSession, head, event, acked>>

\* Variant with a bug: the owner is known by its payload, not by its token.
OwnsByPayload(h) == head.status = "reserved" /\ head.payload = request[h].payload

Owns(h) == head.status = "reserved" /\ head.owner = h /\ head.payload = request[h].payload

\* Variant with a bug: the terminal transaction leaves the ledger row open.
CompleteHeadOnly(h, outcome) ==
    LET p == request[h].payload IN
    /\ request[h].pc = "working"
    /\ event[p] = "received"
    /\ Owns(h)
    /\ head' = [head EXCEPT !.status = outcome, !.owner = NoRequest, !.leaseLive = FALSE]
    /\ roundSession' = IF outcome = "processed" THEN p.runtimeSessionId ELSE roundSession
    /\ Reply(h, outcome)
    /\ UNCHANGED <<event, acked>>

\* The terminal transaction of the owner: ledger row and head together.  Only a
\* processed outcome binds the round to the runtime session.
Complete(h, outcome) ==
    LET p == request[h].payload IN
    /\ request[h].pc = "working"
    /\ event[p] = "received"
    /\ Owns(h)
    /\ event' = [event EXCEPT ![p] = outcome]
    /\ head' = [head EXCEPT !.status = outcome, !.owner = NoRequest, !.leaseLive = FALSE]
    /\ roundSession' = IF outcome = "processed" THEN p.runtimeSessionId ELSE roundSession
    /\ Reply(h, outcome)
    /\ UNCHANGED acked

\* The work or the terminal transaction failed: the owner's lease is released,
\* unless that write is lost too; a request that is no longer the owner
\* releases nothing.  Either way its token is gone.
Fail(h) ==
    /\ request[h].pc = "working"
    /\ \E released \in BOOLEAN :
           head' = IF head.owner = h
                   THEN [head EXCEPT !.owner = NoRequest, !.leaseLive = @ /\ ~released]
                   ELSE head
    /\ Reply(h, "refused")
    /\ UNCHANGED <<roundSession, event, acked>>

\* The response reaches the runtime.
Respond(h) ==
    LET r == request[h] IN
    /\ r.pc = "replied"
    /\ request' = [request EXCEPT ![h] = IdleRequest]
    /\ acked' = IF r.reply = "refused" THEN acked
                ELSE [acked EXCEPT ![r.payload] = @ \cup {r.reply}]
    /\ UNCHANGED <<roundSession, head, event>>

\* The process is killed, or its response is lost; its token dies with it.
Crash(h) ==
    /\ request[h].pc # "idle"
    /\ request' = [request EXCEPT ![h] = IdleRequest]
    /\ head' = IF head.owner = h THEN [head EXCEPT !.owner = NoRequest] ELSE head
    /\ UNCHANGED <<roundSession, event, acked>>

\* Ten minutes pass since the head was reserved; nothing else changes, and the
\* owner may still be working.
LeaseExpires ==
    /\ head.leaseLive
    /\ head' = [head EXCEPT !.leaseLive = FALSE]
    /\ UNCHANGED <<roundSession, event, request, acked>>

RequestStep(h) ==
    \/ \E p \in Payload : Receive(h, p)
    \/ Acquire(h)
    \/ Decline(h)
    \/ \E outcome \in {"processed", "stale"} : Complete(h, outcome)
    \/ Fail(h)
    \/ Respond(h)
    \/ Crash(h)

Next == LeaseExpires \/ \E h \in Request : RequestStep(h)

Spec == Init /\ [][Next]_reservationVars

\* The publisher is a cron job that redelivers a payload until it is
\* acknowledged, on a server that always has room for one more request.  A
\* delivery may be killed, fail or lose its response any number of times, but
\* not every time for ever.
Redeliver(p) == acked[p] = {} /\ \E h \in Request : Receive(h, p)
Reserve(p) == \E h \in Request : request[h].payload = p /\ (Acquire(h) \/ Decline(h))
Terminalize(p) == \E h \in Request : /\ request[h].payload = p
                                     /\ \E outcome \in {"processed", "stale"} : Complete(h, outcome)
Deliver(p) == \E h \in Request : request[h].payload = p /\ Respond(h)

Fairness ==
    /\ WF_reservationVars(LeaseExpires)
    /\ \A h \in Request : WF_reservationVars(Decline(h) \/ Fail(h) \/ Respond(h) \/ Crash(h))
    /\ \A p \in Payload : /\ SF_reservationVars(Redeliver(p))
                          /\ SF_reservationVars(Reserve(p))
                          /\ SF_reservationVars(Terminalize(p))
                          /\ SF_reservationVars(Deliver(p))

FairSpec == Spec /\ Fairness

-----------------------------------------------------------------------------
(* Properties. *)

\* The head and the ledger tell one story: nothing is in the ledger before the
\* first head; the head's own row is open exactly while the head is reserved
\* and has the head's outcome afterwards; every other row is settled and comes
\* before the head.  (ADR 0043: "The ingestion event is written in the same
\* Mongo transaction as the head reservation".)
HeadLedgerAgreement ==
    /\ head.status = "none" <=> Rows = {}
    /\ head.status # "none" =>
          /\ event[head.payload] = IF head.status = "reserved" THEN "received" ELSE head.status
          /\ \A q \in Rows \ {head.payload} :
                event[q] \in {"processed", "stale"} /\ Precedes(q, head.payload)

\* All the rows of a round, and the round itself, belong to one runtime session,
\* although a stale completion leaves the round unbound and the head's filter
\* does not look at the session of a settled head.
OneRuntimeSession ==
    \A p \in Rows : /\ roundSession \in {NoSession, p.runtimeSessionId}
                    /\ \A q \in Rows : q.runtimeSessionId = p.runtimeSessionId

\* A request that lost its reservation to another one (or settled it) can still
\* take steps, but none that changes the head, the ledger or the round.
LostOwnerIsFenced ==
    [][\A h \in Request :
          (request[h].pc = "working" /\ head.owner # h /\ request'[h] # request[h])
             => UNCHANGED <<head, event, roundSession>>]_reservationVars

\* Every step is one of the abstract stream's, or changes nothing it sees: one
\* payload open at a time, strictly increasing, settled once, and every
\* acknowledgement true when it is given.
ImplementsStream == Stream!StreamSpec

\* Two payloads the round can never both admit.
Excludes(q, p) ==
    /\ q # p
    /\ \/ q.eventId = p.eventId
       \/ q.runtimeSessionId # p.runtimeSessionId
       \/ <<q.attempt, q.revision>> = <<p.attempt, p.revision>>

\* The stream never wedges: whatever crashes, every result the runtime keeps
\* delivering is acknowledged in the end, also those behind a reservation whose
\* owner died, unless the round went to a payload that excludes it.
EveryResultIsAcknowledged ==
    \A p \in Payload : <>(acked[p] # {} \/ \E q \in Payload : Excludes(q, p) /\ acked[q] # {})
=============================================================================
