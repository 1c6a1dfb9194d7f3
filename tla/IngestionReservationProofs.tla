--------------------- MODULE IngestionReservationProofs ---------------------
(***************************************************************************)
(* IngestionReservation for any set of requests and of payloads: its types,*)
(* the agreement of head and ledger, the single runtime session of a round,*)
(* and that it implements RevisionStream.                                  *)
(***************************************************************************)
EXTENDS IngestionReservation, TLAPS

\* A token that is still held belongs to a request working on the head's
\* payload; an unclaimed head carries nothing.
OwnerIsWorking ==
    /\ head.status = "none" => head = NoHead
    /\ head.status # "none" => head.payload \in Payload
    /\ \A h \in Request : head.owner = h =>
          /\ head.status = "reserved"
          /\ request[h].pc = "working"
          /\ request[h].payload = head.payload

\* What a request is about to tell the runtime is true.
RepliesAreTruthful ==
    \A h \in Request :
        /\ request[h].pc # "idle" => request[h].payload \in Payload
        /\ request[h].pc = "replied" <=> request[h].reply # "none"
        /\ request[h].reply \in AckOutcome =>
              Stream!Truthful(request[h].payload, request[h].reply)

IInv ==
    /\ TypeOK
    /\ HeadLedgerAgreement
    /\ OneRuntimeSession
    /\ OwnerIsWorking
    /\ RepliesAreTruthful

\* Nothing is taken back: a row, once there, stays and once settled is fixed.
Forward ==
    \A p \in Payload : \/ event'[p] = event[p]
                       \/ event[p] = "absent" /\ event'[p] = "received"
                       \/ event[p] = "received" /\ event'[p] \in {"processed", "stale"}

-----------------------------------------------------------------------------
(* The order of payloads. *)

\* Payloads are ordered strictly, and two of different coordinates are ordered.
LEMMA PrecedesIsOrder ==
    ASSUME NEW p \in Payload, NEW q \in Payload
    PROVE  /\ ~Precedes(p, p)
           /\ Precedes(p, q) => ~Precedes(q, p)
           /\ ~Precedes(p, q) /\ ~Precedes(q, p) => Stream!SameCoordinate(p, q)
  BY PayloadAssumption DEF Precedes, Stream!Precedes, Stream!SameCoordinate

\* The order is transitive.
LEMMA PrecedesTransitive ==
    ASSUME NEW p \in Payload, NEW q \in Payload, NEW r \in Payload,
           Precedes(p, q), Precedes(q, r)
    PROVE  Precedes(p, r)
  BY PayloadAssumption DEF Precedes, Stream!Precedes

-----------------------------------------------------------------------------
(* The decisions, in states of the invariant. *)

\* The latest row of the ledger is the head's.
LEMMA LatestIsHead ==
    ASSUME IInv, Rows # {}
    PROVE  /\ head.payload \in Payload
           /\ head.payload \in Rows
           /\ (CHOOSE r \in Rows : Latest(r)) = head.payload
  <1>1. head.status # "none" /\ head.payload \in Payload
    BY DEF IInv, HeadLedgerAgreement, OwnerIsWorking
  <1>2. head.status \in HeadStatus
    BY DEF IInv, TypeOK
  <1>3. head.payload \in Rows
    BY <1>1, <1>2 DEF IInv, HeadLedgerAgreement, Rows, HeadStatus
  <1>4. \A q \in Rows \ {head.payload} : Precedes(q, head.payload)
    BY <1>1 DEF IInv, HeadLedgerAgreement
  <1>5. Rows \subseteq Payload
    BY DEF Rows
  <1>6. Latest(head.payload)
    <2> SUFFICES ASSUME NEW r \in Rows PROVE ~Precedes(head.payload, r)
      BY <1>3 DEF Latest
    <2>1. CASE r = head.payload
      BY <2>1, <1>1, PrecedesIsOrder
    <2>2. CASE r # head.payload
      BY <2>2, <1>1, <1>4, <1>5, PrecedesIsOrder
    <2> QED BY <2>1, <2>2
  <1>7. \A r \in Rows : Latest(r) => r = head.payload
    BY <1>3, <1>4 DEF Latest
  <1> QED BY <1>1, <1>3, <1>6, <1>7

\* A payload is let in only onto its own open row, as the first of the round, or
\* after a settled head of the same session with no other row of its event id.
LEMMA AdmitMeansNext ==
    ASSUME IInv, NEW p \in Payload, Claimable(p), PriorOutcome(p) = "admit"
    PROVE  \/ event[p] = "received" /\ head.payload = p /\ head.status = "reserved"
           \/ Rows = {}
           \/ /\ event[p] = "absent"
              /\ head.status \in {"processed", "stale"}
              /\ head.payload \in Rows
              /\ Precedes(head.payload, p)
              /\ head.payload.runtimeSessionId = p.runtimeSessionId
              /\ \A q \in Rows : q.eventId # p.eventId
  <1>1. CASE event[p] = "received"
    <2>1. p \in Rows
      BY <1>1 DEF Rows
    <2>2. head.status # "none"
      BY <2>1 DEF IInv, HeadLedgerAgreement
    <2>3. p = head.payload
      BY <2>1, <2>2, <1>1 DEF IInv, HeadLedgerAgreement
    <2>4. head.status \in HeadStatus
      BY DEF IInv, TypeOK
    <2> QED BY <1>1, <2>2, <2>3, <2>4 DEF IInv, HeadLedgerAgreement, HeadStatus
  <1>2. CASE Rows = {}
    BY <1>2
  <1>3. CASE event[p] # "received" /\ Rows # {}
    <2>1. event[p] = "absent" /\ \A q \in Rows : q.eventId # p.eventId
      <3>1. event[p] \in EventStatus
        BY DEF IInv, TypeOK
      <3> QED BY <1>3, <3>1 DEF PriorOutcome, EventStatus
    <2>2. Verdict(head.payload, event[head.payload], p) = "admit"
      BY <1>3, <2>1, LatestIsHead DEF PriorOutcome
    <2>3. /\ head.payload.runtimeSessionId = p.runtimeSessionId
          /\ event[head.payload] \notin {"reserved", "received"}
          /\ Precedes(head.payload, p)
      BY <2>2 DEF Verdict
    <2>4. head.status \in {"processed", "stale"} /\ head.payload \in Rows
      <3>1. head.status \in HeadStatus
        BY DEF IInv, TypeOK
      <3>2. head.status # "none"
        BY <1>3 DEF IInv, HeadLedgerAgreement
      <3> QED BY <3>1, <3>2, <2>3, <1>3, LatestIsHead DEF IInv, HeadLedgerAgreement, HeadStatus
    <2> QED BY <2>1, <2>3, <2>4
  <1> QED BY <1>1, <1>2, <1>3

\* An answer by comparison with the head is true.
LEMMA VerdictIsTruthful ==
    ASSUME IInv, NEW p \in Payload, Rows # {}, NEW s,
           s = event[head.payload] \/ s = head.status,
           Verdict(head.payload, s, p) \in {"stale", "duplicate"}
    PROVE  Stream!Truthful(p, Verdict(head.payload, s, p))
  <1> DEFINE q == head.payload
  <1>1. q \in Payload /\ q \in Rows
    BY LatestIsHead
  <1>2. head.status # "none" /\ head.status \in HeadStatus
    BY DEF IInv, HeadLedgerAgreement, TypeOK
  <1>3. event[q] # "absent"
    BY <1>1 DEF Rows
  <1>4. event[q] = IF head.status = "reserved" THEN "received" ELSE head.status
    BY <1>2 DEF IInv, HeadLedgerAgreement
  <1>5. CASE Precedes(p, q)
    <2>1. Verdict(q, s, p) = "stale"
      BY <1>5 DEF Verdict
    <2>2. Stream!Precedes(p, q)
      BY <1>5 DEF Precedes
    <2> QED BY <2>1, <2>2, <1>1, <1>3 DEF Stream!Truthful
  <1>6. CASE ~Precedes(p, q)
    <2>1. /\ s \notin {"reserved", "received"}
          /\ ~Precedes(q, p)
          /\ Verdict(q, s, p) = IF s = "stale" THEN "stale" ELSE "duplicate"
          /\ ~(Stream!SameCoordinate(q, p) /\ q.digest # p.digest)
      BY <1>6 DEF Verdict
    <2>2. Stream!SameCoordinate(q, p) /\ q.digest = p.digest
      BY <2>1, <1>1, <1>6, PrecedesIsOrder
    <2>3. s = event[q] /\ event[q] \in {"processed", "stale"}
      BY <2>1, <1>2, <1>4 DEF HeadStatus
    <2>4. CASE event[q] = "stale"
      BY <2>1, <2>2, <2>3, <2>4, <1>1 DEF Stream!Truthful
    <2>5. CASE event[q] = "processed"
      BY <2>1, <2>2, <2>3, <2>5, <1>1 DEF Stream!Truthful
    <2> QED BY <2>3, <2>4, <2>5
  <1> QED BY <1>5, <1>6

\* Whatever the reservation transaction answers the runtime is true.
LEMMA DecisionIsTruthful ==
    ASSUME IInv, NEW p \in Payload, Decision(p) \in {"stale", "duplicate"}
    PROVE  Stream!Truthful(p, Decision(p))
  <1>1. CASE Claimable(p)
    <2>1. Decision(p) = PriorOutcome(p)
      BY <1>1 DEF Decision
    <2>2. Rows # {}
      BY <2>1 DEF PriorOutcome
    <2>3. CASE event[p] = "stale"
      <3>1. Decision(p) = "stale"
        BY <2>1, <2>2, <2>3 DEF PriorOutcome
      <3> QED BY <3>1, <2>3 DEF Stream!Truthful, Stream!SameCoordinate
    <2>4. CASE event[p] = "processed"
      <3>1. Decision(p) = "duplicate"
        BY <2>1, <2>2, <2>4 DEF PriorOutcome
      <3> QED BY <3>1, <2>4 DEF Stream!Truthful, Stream!SameCoordinate
    <2>5. CASE event[p] \notin {"stale", "processed"}
      <3>1. Decision(p) = Verdict(head.payload, event[head.payload], p)
        BY <2>1, <2>2, <2>5, LatestIsHead DEF PriorOutcome
      <3> QED BY <3>1, <2>2, VerdictIsTruthful
    <2> QED BY <2>3, <2>4, <2>5
  <1>2. CASE ~Claimable(p)
    <2>1. head.status # "none" /\ Decision(p) = Verdict(head.payload, head.status, p)
      BY <1>2 DEF Decision
    <2>2. Rows # {}
      BY <2>1 DEF IInv, HeadLedgerAgreement
    <2> QED BY <2>1, <2>2, VerdictIsTruthful
  <1> QED BY <1>1, <1>2

\* An answer that was true stays true.
LEMMA TruthfulStays ==
    ASSUME Forward, NEW p \in Payload, NEW outcome, Stream!Truthful(p, outcome)
    PROVE  Stream!Truthful(p, outcome)'
  BY DEF Forward, Stream!Truthful

-----------------------------------------------------------------------------
(* The ledger's steps. *)

\* Opening the row of an admitted payload is a step of the stream or changes
\* nothing, and the new head and ledger agree.
LEMMA AcquireStep ==
    ASSUME IInv, NEW h \in Request, Acquire(h), NEW p, p = request[h].payload
    PROVE  /\ p \in Payload
           /\ event' = event \/ Stream!Admit(p)
           /\ Forward
           /\ HeadLedgerAgreement'
           /\ OneRuntimeSession'
  <1>1. p \in Payload /\ Claimable(p) /\ PriorOutcome(p) = "admit"
    BY DEF Acquire, IInv, RepliesAreTruthful
  <1>2. /\ event' = [event EXCEPT ![p] = "received"]
        /\ head' = [payload |-> p, status |-> "reserved", owner |-> h, leaseLive |-> TRUE]
        /\ roundSession' = roundSession
        /\ acked' = acked
    BY DEF Acquire
  <1>3. event \in [Payload -> EventStatus]
    BY DEF IInv, TypeOK
  <1>4. roundSession \in {NoSession, p.runtimeSessionId}
    BY <1>1 DEF Claimable, SessionAllowed
  <1>5. Rows' = Rows \cup {p}
    BY <1>1, <1>2, <1>3 DEF Rows
  <1>6. CASE event[p] = "received" /\ head.payload = p /\ head.status = "reserved"
    <2>1. event' = event /\ Rows' = Rows
      BY <1>2, <1>3, <1>5, <1>6 DEF Rows
    <2>2. HeadLedgerAgreement'
      BY <1>2, <1>6, <2>1 DEF IInv, HeadLedgerAgreement, Precedes, Stream!Precedes
    <2>3. OneRuntimeSession'
      BY <1>2, <2>1 DEF IInv, OneRuntimeSession
    <2> QED BY <1>1, <2>1, <2>2, <2>3 DEF Forward
  <1>7. CASE Rows = {}
    <2>1. \A q \in Payload : event[q] = "absent"
      BY <1>7 DEF Rows
    <2>2. Stream!Admit(p)
      BY <1>2, <2>1 DEF Stream!Admit, Stream!Open, Stream!Admitted
    <2>3. HeadLedgerAgreement'
      BY <1>1, <1>2, <1>3, <1>5, <1>7 DEF HeadLedgerAgreement
    <2>4. OneRuntimeSession'
      BY <1>2, <1>4, <1>5, <1>7 DEF OneRuntimeSession
    <2>5. Forward
      BY <1>1, <1>2, <1>3, <2>1 DEF Forward
    <2> QED BY <1>1, <2>2, <2>3, <2>4, <2>5
  <1>8. CASE /\ event[p] = "absent"
             /\ head.status \in {"processed", "stale"}
             /\ head.payload \in Rows
             /\ Precedes(head.payload, p)
             /\ head.payload.runtimeSessionId = p.runtimeSessionId
             /\ \A q \in Rows : q.eventId # p.eventId
    <2>1. \A q \in Rows : event[q] \in {"processed", "stale"}
      BY <1>8 DEF IInv, HeadLedgerAgreement
    <2>2. \A q \in Rows : Precedes(q, p)
      <3> SUFFICES ASSUME NEW q \in Rows PROVE Precedes(q, p)
        OBVIOUS
      <3>1. CASE q = head.payload
        BY <3>1, <1>8
      <3>2. CASE q # head.payload
        <4>1. Precedes(q, head.payload)
          BY <3>2, <1>8 DEF IInv, HeadLedgerAgreement
        <4> QED BY <4>1, <1>1, <1>8, PrecedesTransitive DEF Rows
      <3> QED BY <3>1, <3>2
    <2>3. \A q \in Rows : q.runtimeSessionId = p.runtimeSessionId
      BY <1>8 DEF IInv, OneRuntimeSession
    <2>4. Stream!Admit(p)
      BY <1>2, <1>8, <2>1, <2>2, <2>3 DEF Stream!Admit, Stream!Open, Stream!Admitted, Rows, Precedes
    <2>5. p \notin Rows
      BY <1>8 DEF Rows
    <2>6. HeadLedgerAgreement'
      <3>1. \A q \in Rows : event'[q] = event[q]
        BY <1>2, <1>3, <2>5 DEF Rows
      <3>2. \A q \in Rows' \ {p} : event'[q] \in {"processed", "stale"} /\ Precedes(q, p)
        BY <1>5, <2>1, <2>2, <3>1
      <3>3. event'[p] = "received"
        BY <1>1, <1>2, <1>3
      <3> QED BY <1>2, <1>5, <3>2, <3>3 DEF HeadLedgerAgreement, Precedes, Stream!Precedes
    <2>7. OneRuntimeSession'
      BY <1>2, <1>4, <1>5, <2>3 DEF OneRuntimeSession
    <2>8. Forward
      BY <1>1, <1>2, <1>3, <1>8 DEF Forward
    <2> QED BY <1>1, <2>4, <2>6, <2>7, <2>8
  <1> QED BY <1>1, <1>6, <1>7, <1>8, AdmitMeansNext

\* The owner's terminal transaction settles the open row.
LEMMA CompleteStep ==
    ASSUME IInv, NEW h \in Request, NEW outcome \in {"processed", "stale"},
           Complete(h, outcome), NEW p, p = request[h].payload
    PROVE  /\ p \in Payload
           /\ Stream!Settle(p, outcome)
           /\ Forward
           /\ HeadLedgerAgreement'
           /\ OneRuntimeSession'
           /\ Stream!Truthful(p, outcome)'
  <1>1. /\ p \in Payload
        /\ event[p] = "received"
        /\ head.payload = p
        /\ head.status = "reserved"
    BY DEF Complete, Owns, IInv, RepliesAreTruthful
  <1>2. /\ event' = [event EXCEPT ![p] = outcome]
        /\ head'.payload = p
        /\ head'.status = outcome
        /\ roundSession' = (IF outcome = "processed" THEN p.runtimeSessionId ELSE roundSession)
        /\ acked' = acked
    BY <1>1 DEF Complete, IInv, TypeOK
  <1>3. event \in [Payload -> EventStatus]
    BY DEF IInv, TypeOK
  <1>4. Rows' = Rows /\ p \in Rows
    BY <1>1, <1>2, <1>3 DEF Rows
  <1>5. Stream!Settle(p, outcome)
    BY <1>1, <1>2 DEF Stream!Settle
  <1>6. Forward
    BY <1>1, <1>2, <1>3 DEF Forward
  <1>7. HeadLedgerAgreement'
    <2>1. \A q \in Rows \ {p} : /\ event'[q] = event[q]
                               /\ event[q] \in {"processed", "stale"}
                               /\ Precedes(q, p)
      BY <1>1, <1>2, <1>3 DEF IInv, HeadLedgerAgreement, Rows
    <2>2. event'[p] = outcome
      BY <1>1, <1>2, <1>3
    <2> QED BY <1>1, <1>2, <1>4, <2>1, <2>2 DEF HeadLedgerAgreement, Precedes, Stream!Precedes
  <1>8. OneRuntimeSession'
    BY <1>1, <1>2, <1>4 DEF IInv, OneRuntimeSession
  <1>9. Stream!Truthful(p, outcome)'
    <2>1. event'[p] = outcome
      BY <1>1, <1>2, <1>3
    <2> QED BY <1>1, <2>1 DEF Stream!Truthful, Stream!SameCoordinate
  <1> QED BY <1>1, <1>5, <1>6, <1>7, <1>8, <1>9

\* Steps that leave the ledger alone and move neither the head's payload nor
\* its status keep the agreement.
LEMMA LedgerUntouched ==
    ASSUME IInv, event' = event, roundSession' = roundSession,
           head'.payload = head.payload, head'.status = head.status
    PROVE  /\ Forward
           /\ HeadLedgerAgreement'
           /\ OneRuntimeSession'
  <1>1. Rows' = Rows
    BY DEF Rows
  <1> QED BY <1>1 DEF IInv, Forward, HeadLedgerAgreement, OneRuntimeSession, Precedes, Stream!Precedes

-----------------------------------------------------------------------------
(* The requests' steps. *)

\* In every step the ledger moves forward and stays in agreement, and the step
\* is one of the stream's or changes nothing it sees.
LEMMA LedgerStep ==
    ASSUME IInv, Next
    PROVE  /\ Forward
           /\ HeadLedgerAgreement'
           /\ OneRuntimeSession'
           /\ Stream!StreamNext \/ UNCHANGED Stream!streamVars
  <1> USE DEF Stream!StreamNext, Stream!streamVars
  <1>1. CASE LeaseExpires
    <2>1. /\ event' = event /\ roundSession' = roundSession /\ acked' = acked
          /\ head'.payload = head.payload /\ head'.status = head.status
      BY <1>1 DEF LeaseExpires, IInv, TypeOK
    <2> QED BY <2>1, LedgerUntouched
  <1>2. ASSUME NEW h \in Request, NEW p \in Payload, Receive(h, p)
        PROVE  UNCHANGED <<head, event, roundSession, acked>>
    BY <1>2 DEF Receive
  <1>3. ASSUME NEW h \in Request, Acquire(h)
        PROVE  /\ Forward /\ HeadLedgerAgreement' /\ OneRuntimeSession'
               /\ Stream!StreamNext \/ UNCHANGED Stream!streamVars
    <2>1. acked' = acked
      BY <1>3 DEF Acquire
    <2> QED BY <1>3, <2>1, AcquireStep
  <1>4. ASSUME NEW h \in Request, Decline(h)
        PROVE  UNCHANGED <<head, event, roundSession, acked>>
    BY <1>4 DEF Decline
  <1>5. ASSUME NEW h \in Request, NEW outcome \in {"processed", "stale"}, Complete(h, outcome)
        PROVE  /\ Forward /\ HeadLedgerAgreement' /\ OneRuntimeSession'
               /\ Stream!StreamNext \/ UNCHANGED Stream!streamVars
    BY <1>5, CompleteStep
  <1>6. ASSUME NEW h \in Request, Fail(h) \/ Crash(h)
        PROVE  /\ UNCHANGED <<event, roundSession, acked>>
               /\ head'.payload = head.payload /\ head'.status = head.status
    BY <1>6 DEF Fail, Crash, IInv, TypeOK
  <1>7. ASSUME NEW h \in Request, Respond(h)
        PROVE  /\ UNCHANGED <<head, event, roundSession>>
               /\ Stream!StreamNext \/ UNCHANGED Stream!streamVars
    <2> DEFINE r == request[h]
    <2>1. r.payload \in Payload
      BY <1>7 DEF Respond, IInv, RepliesAreTruthful
    <2>2. CASE r.reply = "refused"
      BY <1>7, <2>2 DEF Respond
    <2>3. CASE r.reply # "refused"
      <3>1. r.reply \in AckOutcome \cup {"none"}
        BY <2>3 DEF IInv, TypeOK, RequestState
      <3>2. acked' = [acked EXCEPT ![r.payload] = @ \cup {r.reply}] /\ UNCHANGED event
        BY <1>7, <2>3 DEF Respond
      <3>3. r.reply # "none"
        BY <1>7 DEF Respond, IInv, RepliesAreTruthful
      <3>4. Stream!Truthful(r.payload, r.reply)
        BY <3>1, <3>3 DEF IInv, RepliesAreTruthful
      <3>5. Stream!Acknowledge(r.payload, r.reply)
        BY <3>2, <3>4 DEF Stream!Acknowledge
      <3> QED BY <2>1, <3>1, <3>3, <3>5, <1>7 DEF AckOutcome, Respond
    <2> QED BY <2>2, <2>3, <1>7 DEF Respond
  <1>8. ASSUME UNCHANGED <<head, event, roundSession>>
        PROVE  Forward /\ HeadLedgerAgreement' /\ OneRuntimeSession'
    BY <1>8, LedgerUntouched
  <1> QED BY <1>1, <1>2, <1>3, <1>4, <1>5, <1>6, <1>7, <1>8, LedgerUntouched DEF Next, RequestStep

\* If only request h moves, the others' replies stay true; h's must be checked.
LEMMA RepliesStay ==
    ASSUME IInv, Forward, NEW h \in Request, NEW p, NEW reply,
           request' \in [Request -> RequestState],
           \A g \in Request \ {h} : request'[g] = request[g],
           p = request'[h].payload,
           reply = request'[h].reply,
           request'[h].pc # "idle" => p \in Payload,
           request'[h].pc = "replied" <=> reply # "none",
           reply \in AckOutcome => Stream!Truthful(p, reply)'
    PROVE  RepliesAreTruthful'
  <1> SUFFICES ASSUME NEW g \in Request, NEW q, NEW r,
                      q = request'[g].payload, r = request'[g].reply
               PROVE  /\ request'[g].pc # "idle" => q \in Payload
                      /\ request'[g].pc = "replied" <=> r # "none"
                      /\ r \in AckOutcome => Stream!Truthful(q, r)'
    BY DEF RepliesAreTruthful, Stream!Truthful
  <1>1. CASE g = h
    BY <1>1
  <1>2. CASE g # h
    <2>1. request'[g] = request[g]
      BY <1>2
    <2>2. /\ request[g].pc # "idle" => q \in Payload
          /\ request[g].pc = "replied" <=> r # "none"
          /\ r \in AckOutcome => Stream!Truthful(q, r)
      BY <2>1 DEF IInv, RepliesAreTruthful
    <2>3. r \in AckOutcome => Stream!Truthful(q, r)'
      <3> SUFFICES ASSUME r \in AckOutcome PROVE Stream!Truthful(q, r)'
        OBVIOUS
      <3>1. request[g].pc = "replied" /\ q \in Payload
        BY <2>2 DEF AckOutcome
      <3> QED BY <3>1, <2>2, TruthfulStays
    <2> QED BY <2>1, <2>2, <2>3
  <1> QED BY <1>1, <1>2

\* If no request moves, all the replies stay true.
LEMMA RepliesUnmoved ==
    ASSUME IInv, Forward, request' = request
    PROVE  RepliesAreTruthful'
  <1> SUFFICES ASSUME NEW h \in Request PROVE RepliesAreTruthful'
    BY DEF RepliesAreTruthful
  <1> DEFINE p == request'[h].payload
             r == request'[h].reply
  <1>1. /\ request' \in [Request -> RequestState]
        /\ request'[h].pc # "idle" => p \in Payload
        /\ request'[h].pc = "replied" <=> r # "none"
    BY DEF IInv, TypeOK, RepliesAreTruthful
  <1>2. ASSUME NEW q, NEW o, q = p, o = r, o \in AckOutcome
        PROVE  Stream!Truthful(q, o)'
    <2>1. q \in Payload /\ Stream!Truthful(q, o)
      BY <1>1, <1>2 DEF IInv, RepliesAreTruthful, AckOutcome
    <2> QED BY <2>1, TruthfulStays
  <1> QED BY <1>1, <1>2, RepliesStay

\* After every step the requests have replies that are true.
LEMMA RequestsStep ==
    ASSUME IInv, Next
    PROVE  TypeOK' /\ OwnerIsWorking' /\ RepliesAreTruthful'
  <1>1. Forward /\ TypeOK /\ OwnerIsWorking /\ RepliesAreTruthful
    BY LedgerStep DEF IInv
  <1>2. CASE LeaseExpires
    <2>1. request' = request
      BY <1>2 DEF LeaseExpires
    <2>2. TypeOK'
      BY <1>1, <1>2 DEF LeaseExpires, TypeOK
    <2>3. OwnerIsWorking'
      BY <1>1, <1>2 DEF LeaseExpires, TypeOK, OwnerIsWorking, NoHead
    <2>4. RepliesAreTruthful'
      BY <1>1, <2>1, RepliesUnmoved
    <2> QED BY <2>2, <2>3, <2>4
  <1>3. ASSUME NEW h \in Request, NEW p \in Payload, Receive(h, p)
        PROVE  TypeOK' /\ OwnerIsWorking' /\ RepliesAreTruthful'
    <2>1. TypeOK'
      BY <1>1, <1>3 DEF Receive, TypeOK, RequestState
    <2>2. OwnerIsWorking'
      BY <1>1, <1>3 DEF Receive, OwnerIsWorking, TypeOK, NoHead
    <2>3. /\ \A g \in Request \ {h} : request'[g] = request[g]
          /\ request'[h] = [pc |-> "reserving", payload |-> p, reply |-> "none"]
      BY <1>1, <1>3 DEF Receive, TypeOK
    <2>4. RepliesAreTruthful'
      BY <1>1, <2>1, <2>3, RepliesStay DEF TypeOK, AckOutcome
    <2> QED BY <2>1, <2>2, <2>4
  <1>4. ASSUME NEW h \in Request, Acquire(h)
        PROVE  TypeOK' /\ OwnerIsWorking' /\ RepliesAreTruthful'
    <2> DEFINE p == request[h].payload
    <2>1. p \in Payload
      BY <1>4, <1>1 DEF Acquire, RepliesAreTruthful
    <2>2. request' = [request EXCEPT ![h] = [pc |-> "working", payload |-> p, reply |-> "none"]]
      BY <1>4 DEF Acquire
    <2>3. TypeOK'
      BY <1>1, <1>4, <2>1, <2>2 DEF Acquire, TypeOK, RequestState, EventStatus, HeadStatus
    <2>4. /\ \A g \in Request \ {h} : request'[g] = request[g]
          /\ request'[h].pc = "working"
          /\ request'[h].payload = p
          /\ request'[h].reply = "none"
      BY <1>1, <1>4, <2>2 DEF TypeOK, RequestState, RepliesAreTruthful, Acquire
    <2>5. OwnerIsWorking'
      BY <1>1, <1>4, <2>1, <2>4, PayloadAssumption DEF Acquire, OwnerIsWorking, TypeOK
    <2>6. RepliesAreTruthful'
      BY <1>1, <2>1, <2>3, <2>4, RepliesStay DEF TypeOK, AckOutcome
    <2> QED BY <2>3, <2>5, <2>6
  <1>5. ASSUME NEW h \in Request, Decline(h)
        PROVE  TypeOK' /\ OwnerIsWorking' /\ RepliesAreTruthful'
    <2> DEFINE p == request[h].payload
               d == Decision(p)
               reply == IF d \in {"stale", "duplicate"} THEN d ELSE "refused"
    <2>1. p \in Payload /\ UNCHANGED <<roundSession, head, event, acked>>
      BY <1>5, <1>1 DEF Decline, RepliesAreTruthful
    <2>2. request' = [request EXCEPT ![h] = [pc |-> "replied", payload |-> p, reply |-> reply]]
      BY <1>5 DEF Decline, Reply
    <2>3. TypeOK'
      BY <1>1, <2>1, <2>2 DEF TypeOK, RequestState, AckOutcome
    <2>4. /\ \A g \in Request \ {h} : request'[g] = request[g]
          /\ request'[h].pc = "replied"
          /\ request'[h].payload = p
          /\ request'[h].reply = reply
      BY <1>1, <2>2 DEF TypeOK, RequestState
    <2>5. OwnerIsWorking'
      BY <1>1, <1>5, <2>1, <2>4 DEF Decline, OwnerIsWorking, NoHead
    <2>6. RepliesAreTruthful'
      <3>1. ASSUME NEW q, NEW o, q = p, o = reply, o \in AckOutcome
            PROVE  Stream!Truthful(q, o)'
        <4>1. d \in {"stale", "duplicate"} /\ o = Decision(q)
          BY <3>1 DEF AckOutcome
        <4>2. q \in Payload /\ Stream!Truthful(q, o)
          BY <4>1, <2>1, <3>1, DecisionIsTruthful
        <4> QED BY <4>2, <1>1, TruthfulStays
      <3>2. reply # "none"
        OBVIOUS
      <3> QED BY <3>1, <3>2, <1>1, <2>1, <2>3, <2>4, RepliesStay DEF TypeOK
    <2> QED BY <2>3, <2>5, <2>6
  <1>6. ASSUME NEW h \in Request, NEW outcome \in {"processed", "stale"}, Complete(h, outcome)
        PROVE  TypeOK' /\ OwnerIsWorking' /\ RepliesAreTruthful'
    <2> DEFINE p == request[h].payload
    <2>1. p \in Payload
      BY <1>6, <1>1 DEF Complete, RepliesAreTruthful
    <2>2. request' = [request EXCEPT ![h] = [pc |-> "replied", payload |-> p, reply |-> outcome]]
      BY <1>6 DEF Complete, Reply
    <2>3. TypeOK'
      BY <1>1, <1>6, <2>1, <2>2 DEF Complete, TypeOK, RequestState, AckOutcome, EventStatus, HeadStatus
    <2>4. /\ \A g \in Request \ {h} : request'[g] = request[g]
          /\ request'[h].pc = "replied"
          /\ request'[h].payload = p
          /\ request'[h].reply = outcome
      BY <1>1, <2>2 DEF TypeOK, RequestState
    <2>5. OwnerIsWorking'
      BY <1>1, <1>6, <2>1, PayloadAssumption DEF Complete, OwnerIsWorking, TypeOK, Owns
    <2>6. RepliesAreTruthful'
      <3>1. ASSUME NEW q, NEW o, q = p, o = outcome
            PROVE  Stream!Truthful(q, o)'
        BY <1>6, <3>1, CompleteStep
      <3> QED BY <3>1, <1>1, <2>1, <2>3, <2>4, RepliesStay DEF TypeOK
    <2> QED BY <2>3, <2>5, <2>6
  <1>7. ASSUME NEW h \in Request, Fail(h)
        PROVE  TypeOK' /\ OwnerIsWorking' /\ RepliesAreTruthful'
    <2> DEFINE p == request[h].payload
    <2>1. p \in Payload /\ UNCHANGED <<roundSession, event, acked>>
      BY <1>7, <1>1 DEF Fail, RepliesAreTruthful
    <2>2. request' = [request EXCEPT ![h] = [pc |-> "replied", payload |-> p, reply |-> "refused"]]
      BY <1>7 DEF Fail, Reply
    <2>3. PICK released \in BOOLEAN :
             head' = IF head.owner = h
                     THEN [head EXCEPT !.owner = NoRequest, !.leaseLive = @ /\ ~released]
                     ELSE head
      BY <1>7 DEF Fail
    <2>4. TypeOK'
      BY <1>1, <2>1, <2>2, <2>3 DEF TypeOK, RequestState
    <2>5. /\ \A g \in Request \ {h} : request'[g] = request[g]
          /\ request'[h].pc = "replied"
          /\ request'[h].payload = p
          /\ request'[h].reply = "refused"
      BY <1>1, <2>2 DEF TypeOK, RequestState
    <2>6. OwnerIsWorking'
      BY <1>1, <2>1, <2>3, <2>5, PayloadAssumption DEF OwnerIsWorking, TypeOK, NoHead
    <2>7. RepliesAreTruthful'
      BY <1>1, <2>1, <2>4, <2>5, RepliesStay DEF TypeOK, AckOutcome
    <2> QED BY <2>4, <2>6, <2>7
  <1>8. ASSUME NEW h \in Request, Respond(h) \/ Crash(h)
        PROVE  TypeOK' /\ OwnerIsWorking' /\ RepliesAreTruthful'
    <2>1. request' = [request EXCEPT ![h] = IdleRequest] /\ UNCHANGED <<roundSession, event>>
      BY <1>8 DEF Respond, Crash
    <2>2. request[h].payload \in Payload
      BY <1>8, <1>1 DEF Respond, Crash, RepliesAreTruthful
    <2>3. acked' \in [Payload -> SUBSET AckOutcome]
      BY <1>8, <1>1, <2>2 DEF Respond, Crash, TypeOK, RequestState, RepliesAreTruthful
    <2>4. TypeOK'
      BY <1>8, <1>1, <2>1, <2>3 DEF Respond, Crash, TypeOK, RequestState, IdleRequest
    <2>5. /\ \A g \in Request \ {h} : request'[g] = request[g]
          /\ request'[h] = IdleRequest
      BY <1>1, <2>1 DEF TypeOK
    <2>6. OwnerIsWorking'
      BY <1>8, <1>1, <2>5, PayloadAssumption
         DEF Respond, Crash, OwnerIsWorking, TypeOK, NoHead
    <2>7. RepliesAreTruthful'
      BY <1>1, <2>4, <2>5, RepliesStay DEF TypeOK, AckOutcome, IdleRequest
    <2> QED BY <2>4, <2>6, <2>7
  <1> QED BY <1>2, <1>3, <1>4, <1>5, <1>6, <1>7, <1>8 DEF Next, RequestStep

-----------------------------------------------------------------------------
(* Theorems. *)

\* The invariant holds initially and every step keeps it.
THEOREM Invariance == Spec => []IInv
  <1>1. Init => IInv
    BY PayloadAssumption
       DEF Init, IInv, TypeOK, HeadLedgerAgreement, OneRuntimeSession, OwnerIsWorking,
           RepliesAreTruthful, Rows, NoHead, IdleRequest, RequestState, HeadStatus,
           EventStatus, AckOutcome
  <1>2. IInv /\ [Next]_reservationVars => IInv'
    <2> SUFFICES ASSUME IInv, [Next]_reservationVars PROVE IInv'
      OBVIOUS
    <2>1. CASE Next
      BY <2>1, LedgerStep, RequestsStep DEF IInv
    <2>2. CASE UNCHANGED reservationVars
      <3>1. /\ UNCHANGED <<roundSession, head, event, request, acked>>
            /\ Forward
        BY <2>2 DEF reservationVars, Forward
      <3>2. TypeOK' /\ OwnerIsWorking'
        BY <3>1 DEF IInv, TypeOK, OwnerIsWorking
      <3>3. HeadLedgerAgreement' /\ OneRuntimeSession'
        BY <3>1, LedgerUntouched
      <3>4. RepliesAreTruthful'
        BY <3>1, RepliesUnmoved
      <3> QED BY <3>2, <3>3, <3>4 DEF IInv
    <2> QED BY <2>1, <2>2
  <1> QED BY <1>1, <1>2, PTL DEF Spec

\* Every variable keeps its type.
THEOREM TypeCorrect == Spec => []TypeOK
  BY Invariance, PTL DEF IInv

\* The reservation head and the event ledger always agree.
THEOREM HeadAndLedgerAgree == Spec => []HeadLedgerAgreement
  BY Invariance, PTL DEF IInv

\* A round never mixes the results of two runtime sessions.
THEOREM RoundHasOneSession == Spec => []OneRuntimeSession
  BY Invariance, PTL DEF IInv

\* A request whose reservation was taken over changes nothing any more.
THEOREM TakenOverIsFenced == Spec => LostOwnerIsFenced
  <1>1. ASSUME IInv, Next, NEW h \in Request,
               request[h].pc = "working", head.owner # h, request'[h] # request[h]
        PROVE  UNCHANGED <<head, event, roundSession>>
    <2>1. request \in [Request -> RequestState]
      BY <1>1 DEF IInv, TypeOK
    <2>2. ~LeaseExpires
      BY <1>1 DEF LeaseExpires
    <2>3. ASSUME NEW g \in Request, g # h, RequestStep(g)
          PROVE  FALSE
      BY <1>1, <2>1, <2>3 DEF RequestStep, Receive, Acquire, Decline, Complete, Fail, Respond, Crash, Reply
    <2>4. ASSUME RequestStep(h)
          PROVE  UNCHANGED <<head, event, roundSession>>
      <3>1. /\ \A p : ~Receive(h, p)
            /\ ~Acquire(h) /\ ~Decline(h) /\ ~Respond(h)
            /\ \A outcome : ~Complete(h, outcome)
        BY <1>1 DEF Receive, Acquire, Decline, Respond, Complete, Owns
      <3>2. CASE Fail(h)
        BY <1>1, <3>2 DEF Fail
      <3>3. CASE Crash(h)
        BY <1>1, <3>3 DEF Crash
      <3> QED BY <2>4, <3>1, <3>2, <3>3 DEF RequestStep
    <2>5. PICK g \in Request : RequestStep(g)
      BY <1>1, <2>2 DEF Next
    <2> QED BY <2>3, <2>4, <2>5
  <1>2. IInv /\ [Next]_reservationVars =>
          [\A h \in Request :
             (request[h].pc = "working" /\ head.owner # h /\ request'[h] # request[h])
                => UNCHANGED <<head, event, roundSession>>]_reservationVars
    BY <1>1
  <1> QED BY <1>2, Invariance, PTL DEF Spec, LostOwnerIsFenced

\* The reservation protocol implements the abstract stream.
THEOREM Refinement == Spec => ImplementsStream
  <1>1. Init => Stream!StreamInit
    BY DEF Init, Stream!StreamInit
  <1>2. IInv /\ [Next]_reservationVars => [Stream!StreamNext]_(Stream!streamVars)
    <2>1. IInv /\ Next => Stream!StreamNext \/ UNCHANGED Stream!streamVars
      BY LedgerStep
    <2>2. UNCHANGED reservationVars => UNCHANGED Stream!streamVars
      BY DEF reservationVars, Stream!streamVars
    <2> QED BY <2>1, <2>2
  <1> QED BY <1>1, <1>2, Invariance, PTL DEF Spec, ImplementsStream, Stream!StreamSpec
=============================================================================
