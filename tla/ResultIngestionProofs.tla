------------------------ MODULE ResultIngestionProofs ------------------------
(***************************************************************************)
(* ResultIngestion for any set of requests, of payloads and of attempts:   *)
(* it implements the reservation, and with it the abstract stream; what is *)
(* acknowledged as processed is stored; the round shows the latest result; *)
(* nothing comes back after a deletion and nobody can go on after a close. *)
(***************************************************************************)
EXTENDS ResultIngestion, IngestionReservationProofs

\* A request has work in hand only while it holds, or held, the reservation.
WorkIsReserved ==
    \A h \in Request : work[h].stage # "none" => request[h].pc = "working"

\* What a request concluded earlier is still so: a deletion it saw is one, and
\* the result it is about to link is in its attempt's row.
WorkIsKnown ==
    \A h \in Request :
        /\ work[h].sawDeletion \/ work[h].stage = "discard" => candidate = "deleted"
        /\ work[h].stage = "link" =>
              result[request[h].payload.attempt].core = request[h].payload.core

\* A deletion of the candidate revokes the round, and a revoked round is not
\* open, so that no new attempt is made.
DeletionRevokes ==
    /\ candidate = "deleted" => round.revokedAt
    /\ round.revokedAt => round.status # "open"

\* The types of the records, row by row.
WorkState == [stage : {"none", "check", "copy", "persist", "link", "discard", "stale"},
              sawDeletion : BOOLEAN]

AttemptRow == [status : {"absent", "invited", "in_progress", "completed", "revoked"},
               starting : BOOLEAN]
RoundRow == [status : {"open", "completed", "revoked"}, revokedAt : BOOLEAN,
             linked : Payload \cup {NoPayload}, text : BOOLEAN]
ResultRow == [core : {p.core : p \in Payload} \cup {NoCore}, text : BOOLEAN]

\* The inductive invariant: the properties, and what the requests in flight rely
\* on.  It is relative to the reservation's invariant IInv.
RInv ==
    /\ ResultTypeOK
    /\ WorkIsReserved
    /\ WorkIsKnown
    /\ DeletionRevokes
    /\ NoTextAfterDeletion
    /\ ProcessedIsStored
    /\ RoundShowsLatestResult
    /\ NothingLiveAfterShutdown

-----------------------------------------------------------------------------
(* The reservation. *)

\* Every step takes a step of the reservation, or none.
LEMMA ReservationStep ==
    ASSUME [ResultNext]_vars
    PROVE  [Next]_reservationVars
  <1> USE DEF Next, RequestStep
  <1>1. CASE UNCHANGED vars
    BY <1>1 DEF vars, reservationVars
  <1>2. CASE LeaseRunsOut
    BY <1>2 DEF LeaseRunsOut
  <1>3. CASE TenantStep
    BY <1>3 DEF TenantStep, AcceptConsent, CheckStart, StartAttempt, RevokeRound,
           RevokeGuestAccess, CloseJob, ReopenJob, RetentionEnds, DeleteWorkspace,
           RestoreWorkspace, DeleteCandidate
  <1>4. ASSUME NEW h \in Request, DeliveryStep(h)
        PROVE  [Next]_reservationVars
    <2>1. CASE \/ \E p \in Payload : Ingest(h, p)
               \/ ReserveResult(h) \/ DeclineResult(h)
      BY <2>1 DEF Ingest, ReserveResult, DeclineResult
    <2>2. CASE CheckCompatible(h) \/ CopyMedia(h) \/ PersistResult(h) \/ AbandonLink(h)
      BY <2>2 DEF CheckCompatible, CopyMedia, PersistResult, AbandonLink
    <2>3. CASE LinkResult(h) \/ DiscardResult(h) \/ SettleStale(h)
      BY <2>3 DEF LinkResult, DiscardResult, SettleStale
    <2>4. CASE FailResult(h) \/ RespondResult(h) \/ CrashResult(h)
      BY <2>4 DEF FailResult, RespondResult, CrashResult
    <2> QED BY <1>4, <2>1, <2>2, <2>3, <2>4 DEF DeliveryStep
  <1> QED BY <1>1, <1>2, <1>3, <1>4 DEF ResultNext

\* The control plane's handling of a result implements the reservation, so what
\* is proved of the reservation holds of it.
THEOREM IngestionImplementsReservation == ResultSpec => ImplementsReservation
  <1>1. ResultInit => Init
    BY DEF ResultInit
  <1> QED BY <1>1, ReservationStep, PTL DEF ResultSpec, Spec, ImplementsReservation

\* And so it implements the abstract stream.
THEOREM IngestionImplementsStream == ResultSpec => ImplementsStream
  BY IngestionImplementsReservation, Refinement, PTL DEF ImplementsReservation

\* In particular head, ledger and session agree at every moment.
LEMMA ReservationInvariance == ResultSpec => []IInv
  BY IngestionImplementsReservation, Invariance, PTL DEF ImplementsReservation

-----------------------------------------------------------------------------
(* Steps that leave the records as they are. *)

\* They keep the invariant if they settle nothing as processed and the work in
\* hand stays true.
LEMMA RecordsUntouched ==
    ASSUME RInv, UNCHANGED <<recordVars, tenantVars>>,
           \A p \in Payload : event'[p] = "processed" <=> event[p] = "processed",
           TypeOK',
           work' \in [Request -> WorkState],
           WorkIsReserved', WorkIsKnown'
    PROVE  RInv'
  <1> USE DEF recordVars, tenantVars
  <1>1. ResultTypeOK'
    BY DEF RInv, ResultTypeOK, WorkState
  <1>2. DeletionRevokes' /\ NoTextAfterDeletion' /\ NothingLiveAfterShutdown'
    BY DEF RInv, DeletionRevokes, NoTextAfterDeletion, NothingLiveAfterShutdown
  <1>3. ProcessedIsStored'
    BY DEF RInv, ProcessedIsStored
  <1>4. RoundShowsLatestResult'
    BY DEF RInv, ResultTypeOK, RoundShowsLatestResult
  <1> QED BY <1>1, <1>2, <1>3, <1>4 DEF RInv

\* A request goes to another stage of its work, or starts or ends it.
LEMMA WorkMoves ==
    ASSUME RInv, TypeOK', NEW h \in Request,
           \A g \in Request \ {h} : request'[g] = request[g] /\ work'[g] = work[g],
           work' \in [Request -> WorkState],
           UNCHANGED <<recordVars, tenantVars>>,
           \A p \in Payload : event'[p] = "processed" <=> event[p] = "processed",
           work'[h].stage # "none" => request'[h].pc = "working",
           work'[h].sawDeletion \/ work'[h].stage = "discard" => candidate = "deleted",
           work'[h].stage = "link" =>
               result[request'[h].payload.attempt].core = request'[h].payload.core
    PROVE  RInv'
  <1>1. WorkIsReserved'
    BY DEF RInv, WorkIsReserved
  <1>2. WorkIsKnown'
    BY DEF RInv, WorkIsKnown, recordVars, tenantVars
  <1> QED BY <1>1, <1>2, RecordsUntouched

\* Requests come and go, reserve, compare, copy and give up: they store nothing.
LEMMA DeliveryKept ==
    ASSUME IInv, RInv, TypeOK', NEW h \in Request,
           \/ \E p \in Payload : Ingest(h, p)
           \/ ReserveResult(h) \/ DeclineResult(h)
           \/ CheckCompatible(h) \/ CopyMedia(h) \/ AbandonLink(h)
           \/ SettleStale(h)
           \/ FailResult(h) \/ RespondResult(h) \/ CrashResult(h)
    PROVE  RInv'
  <1> USE DEF WorkState, NoWork
  <1>1. /\ request \in [Request -> RequestState] /\ work \in [Request -> WorkState]
        /\ work[h].stage # "none" => request[h].pc = "working"
        /\ work[h].sawDeletion \/ work[h].stage = "discard" => candidate = "deleted"
        /\ work[h].stage = "link" =>
              result[request[h].payload.attempt].core = request[h].payload.core
        /\ candidate \in {"present", "deleted"}
        /\ event \in [Payload -> EventStatus]
    BY DEF RInv, ResultTypeOK, TypeOK, WorkIsReserved, WorkIsKnown
  <1>2. ASSUME NEW p \in Payload, Ingest(h, p)
        PROVE  RInv'
    <2>1. UNCHANGED <<recordVars, tenantVars, event>>
      BY <1>2 DEF Ingest, Receive
    <2>2. /\ request'[h].pc = "reserving"
          /\ work'[h] = [stage |-> "none", sawDeletion |-> candidate = "deleted"]
      BY <1>1, <1>2 DEF Ingest, Receive
    <2>3. /\ \A g \in Request \ {h} : request'[g] = request[g] /\ work'[g] = work[g]
          /\ work' \in [Request -> WorkState]
      BY <1>1, <1>2 DEF Ingest, Receive
    <2> QED BY <2>1, <2>2, <2>3, WorkMoves
  <1>3. CASE ReserveResult(h)
    <2>1. UNCHANGED <<recordVars, tenantVars>>
      BY <1>3 DEF ReserveResult
    <2>2. /\ \A g \in Request \ {h} : request'[g] = request[g] /\ work'[g] = work[g]
          /\ work' \in [Request -> WorkState]
          /\ request'[h].pc = "working"
          /\ work'[h] = [stage |-> IF work[h].sawDeletion THEN "discard" ELSE "check",
                         sawDeletion |-> work[h].sawDeletion]
      BY <1>1, <1>3 DEF ReserveResult, Acquire, Enter
    <2>3. \A p \in Payload : event'[p] = "processed" <=> event[p] = "processed"
      BY <1>1, <1>3 DEF ReserveResult, Acquire, PriorOutcome, Rows
    <2> QED BY <1>1, <2>1, <2>2, <2>3, WorkMoves
  <1>4. CASE DeclineResult(h) \/ FailResult(h) \/ CrashResult(h)
    <2>1. UNCHANGED <<recordVars, tenantVars, event>>
      BY <1>4 DEF DeclineResult, FailResult, CrashResult, Decline, Fail, Crash
    <2>2. /\ \A g \in Request \ {h} : request'[g] = request[g] /\ work'[g] = work[g]
          /\ work' \in [Request -> WorkState]
          /\ work'[h] = NoWork
      <3>1. CASE DeclineResult(h)
        BY <1>1, <3>1 DEF DeclineResult, Decline, Reply, Finish
      <3>2. CASE FailResult(h)
        BY <1>1, <3>2 DEF FailResult, Fail, Reply, Finish
      <3>3. CASE CrashResult(h)
        BY <1>1, <3>3 DEF CrashResult, Crash, Finish
      <3> QED BY <1>4, <3>1, <3>2, <3>3
    <2> QED BY <2>1, <2>2, WorkMoves
  <1>5. CASE RespondResult(h)
    <2>1. UNCHANGED <<recordVars, tenantVars, event, work>> /\ request[h].pc = "replied"
      BY <1>5 DEF RespondResult, Respond
    <2>2. \A g \in Request \ {h} : request'[g] = request[g]
      BY <1>1, <1>5 DEF RespondResult, Respond
    <2> QED BY <1>1, <2>1, <2>2, WorkMoves
  <1>6. CASE CheckCompatible(h) \/ CopyMedia(h) \/ AbandonLink(h)
    <2>1. UNCHANGED <<recordVars, tenantVars, event, request>>
      BY <1>6 DEF CheckCompatible, CopyMedia, AbandonLink, reservationVars
    <2>2. ASSUME NEW stage \in {"copy", "persist", "stale", "discard"}, Enter(h, stage),
                 request[h].pc = "working", stage = "discard" => candidate = "deleted"
          PROVE  RInv'
      <3>1. /\ \A g \in Request \ {h} : work'[g] = work[g]
            /\ work' \in [Request -> WorkState]
            /\ work'[h].stage = stage
            /\ work'[h].sawDeletion = work[h].sawDeletion
        BY <1>1, <2>2 DEF Enter
      <3> QED BY <1>1, <2>1, <2>2, <3>1, WorkMoves
    <2>3. Fenced \in {"none", "stale", "discard"} /\ (Fenced = "discard" => candidate = "deleted")
      <3>1. CASE workspace # "active"
        BY <3>1 DEF Fenced
      <3>2. CASE workspace = "active" /\ candidate = "deleted"
        BY <3>2 DEF Fenced
      <3>3. CASE workspace = "active" /\ candidate # "deleted" /\ job = "expired"
        BY <3>3 DEF Fenced
      <3>4. CASE workspace = "active" /\ candidate # "deleted" /\ job # "expired"
        BY <3>4 DEF Fenced
      <3> QED BY <3>1, <3>2, <3>3, <3>4
    <2>4. CASE CheckCompatible(h)
      BY <2>2, <2>4 DEF CheckCompatible, Working
    <2>5. CASE CopyMedia(h)
      <3> DEFINE next == IF request[h].payload.media /\ Fenced # "none" THEN Fenced ELSE "persist"
      <3>1. Enter(h, next) /\ request[h].pc = "working"
        BY <2>5 DEF CopyMedia, Working
      <3>2. /\ next \in {"copy", "persist", "stale", "discard"}
            /\ next = "discard" => candidate = "deleted"
        BY <2>3
      <3> QED BY <2>2, <3>1, <3>2
    <2>6. CASE AbandonLink(h)
      <3> DEFINE next == LinkBarrier(request[h].payload)
      <3>1. Enter(h, next) /\ request[h].pc = "working" /\ next # "none"
        BY <2>6 DEF AbandonLink, Working
      <3>2. next \in {"stale", "discard"} /\ (next = "discard" => candidate = "deleted")
        <4>1. CASE Fenced # "none"
          BY <2>3, <4>1 DEF LinkBarrier
        <4>2. CASE Fenced = "none"
          <5>1. next \in {"stale", "none"}
            BY <4>2 DEF LinkBarrier
          <5> QED BY <3>1, <5>1
        <4> QED BY <4>1, <4>2
      <3> QED BY <2>2, <3>1, <3>2
    <2> QED BY <1>6, <2>4, <2>5, <2>6
  <1>7. CASE SettleStale(h)
    <2>1. UNCHANGED <<recordVars, tenantVars>>
      BY <1>7 DEF SettleStale
    <2>2. /\ \A g \in Request \ {h} : request'[g] = request[g] /\ work'[g] = work[g]
          /\ work' \in [Request -> WorkState]
          /\ work'[h] = NoWork
      BY <1>1, <1>7 DEF SettleStale, Complete, Reply, Finish
    <2>3. \A p \in Payload : event'[p] = "processed" <=> event[p] = "processed"
      BY <1>1, <1>7 DEF SettleStale, Complete
    <2> QED BY <2>1, <2>2, <2>3, WorkMoves
  <1> QED BY <1>2, <1>3, <1>4, <1>5, <1>6, <1>7

-----------------------------------------------------------------------------
(* Steps that store and link a result. *)

\* What persisting does, whichever way it goes.
LEMMA PersistEffect ==
    ASSUME IInv, RInv, NEW h \in Request, NEW stage \in {"link", "discard"},
           request[h].pc = "working", request[h].payload \in Payload,
           UNCHANGED <<roundSession, head, event, request, acked>>,
           UNCHANGED <<round, revoking, job, workspace, candidate>>,
           work' \in [Request -> WorkState],
           \A g \in Request \ {h} : work'[g] = work[g],
           work'[h].sawDeletion = work[h].sawDeletion, work'[h].stage = stage,
           attempt' \in [Attempts -> AttemptRow], result' \in [Attempts -> ResultRow],
           \A m \in Attempts : attempt'[m].status \in LiveStatus => attempt[m].status \in LiveStatus,
           \A m \in Attempts : result[m].core # NoCore => result'[m].core = result[m].core,
           \A m \in Attempts : result'[m].text => result[m].text \/ candidate = "present",
           stage = "discard" => candidate = "deleted",
           stage = "link" => result'[request[h].payload.attempt].core = request[h].payload.core
    PROVE  RInv'
  <1>1. \A q \in Payload : q.attempt \in Attempts /\ q.core # NoCore
    BY ResultAssumption DEF Attempts
  <1>2. ResultTypeOK'
    BY DEF RInv, ResultTypeOK, TypeOK, WorkState, AttemptRow, ResultRow
  <1>3. WorkIsReserved'
    BY DEF RInv, WorkIsReserved
  <1>4. WorkIsKnown'
    <2> SUFFICES ASSUME NEW g \in Request \ {h}, work[g].stage = "link"
                 PROVE  result'[request[g].payload.attempt].core = request[g].payload.core
      BY DEF RInv, WorkIsKnown
    <2>1. request[g].payload \in Payload
      BY DEF IInv, RepliesAreTruthful, RInv, WorkIsReserved
    <2> QED BY <1>1, <2>1 DEF RInv, WorkIsKnown
  <1>5. DeletionRevokes' /\ NothingLiveAfterShutdown'
    BY DEF RInv, DeletionRevokes, NothingLiveAfterShutdown
  <1>6. NoTextAfterDeletion'
    BY DEF RInv, NoTextAfterDeletion
  <1>7. ProcessedIsStored'
    BY <1>1 DEF RInv, ProcessedIsStored
  <1>8. RoundShowsLatestResult'
    BY <1>1 DEF RInv, ResultTypeOK, RoundShowsLatestResult
  <1> QED BY <1>2, <1>3, <1>4, <1>5, <1>6, <1>7, <1>8 DEF RInv

\* A result is stored in a row that is new, behind the candidate's fence.
LEMMA PersistKept ==
    ASSUME IInv, RInv, NEW h \in Request, PersistResult(h)
    PROVE  RInv'
  <1> DEFINE p == request[h].payload
             n == p.attempt
             stored == result[n].core
  <1>1. /\ p \in Payload
        /\ n \in Attempts
        /\ p.core # NoCore
        /\ request[h].pc = "working"
        /\ work[h].stage = "persist"
    BY ResultAssumption DEF PersistResult, Working, IInv, RepliesAreTruthful, Attempts
  <1>2. /\ UNCHANGED <<roundSession, head, event, request, acked>>
        /\ UNCHANGED <<round, revoking, job, workspace, candidate>>
    BY DEF PersistResult, reservationVars, tenantVars
  <1> HIDE DEF p, n, stored
  <1>3. /\ work \in [Request -> WorkState]
        /\ attempt \in [Attempts -> AttemptRow]
        /\ result \in [Attempts -> ResultRow]
        /\ candidate \in {"present", "deleted"}
    BY DEF RInv, ResultTypeOK, WorkState, AttemptRow, ResultRow
  <1>4. ASSUME NEW stage \in {"link", "discard"}, Enter(h, stage)
        PROVE  /\ work' \in [Request -> WorkState]
               /\ \A g \in Request \ {h} : work'[g] = work[g]
               /\ work'[h].sawDeletion = work[h].sawDeletion
               /\ work'[h].stage = stage
    BY <1>3, <1>4 DEF Enter, WorkState
  <1>5. CASE stored = p.core /\ Enter(h, "link") /\ UNCHANGED <<attempt, result>>
    BY <1>1, <1>2, <1>3, <1>4, <1>5, PersistEffect DEF p, n, stored
  <1>6. CASE /\ stored = NoCore /\ candidate = "deleted"
             /\ Enter(h, "discard") /\ UNCHANGED <<attempt, result>>
    BY <1>1, <1>2, <1>3, <1>4, <1>6, PersistEffect DEF p, n, stored
  <1>7. CASE stored = NoCore /\ StoreResult(h)
    <2>1. /\ candidate = "present"
          /\ attempt[n].status \in {"in_progress", "revoked"}
          /\ attempt' \in [Attempts -> AttemptRow]
          /\ \A m \in Attempts : attempt'[m].status \in LiveStatus => attempt[m].status \in LiveStatus
          /\ Enter(h, "link")
      BY <1>1, <1>3, <1>7 DEF StoreResult, AttemptRow, LiveStatus, n, p
    <2>2. /\ result' \in [Attempts -> ResultRow]
          /\ result'[n] = [core |-> p.core, text |-> TRUE]
          /\ \A m \in Attempts \ {n} : result'[m] = result[m]
      BY <1>1, <1>3, <1>7 DEF StoreResult, ResultRow, n, p
    <2> QED BY <1>1, <1>2, <1>3, <1>4, <1>7, <2>1, <2>2, PersistEffect DEF p, n, stored
  <1> QED BY <1>5, <1>6, <1>7 DEF PersistResult, p, n, stored

\* A processed result is linked: it is the head of the ledger, so that no other
\* processed result comes after it.
LEMMA LinkKept ==
    ASSUME IInv, RInv, TypeOK', HeadLedgerAgreement', NEW h \in Request, LinkResult(h)
    PROVE  RInv'
  <1> DEFINE p == request[h].payload
             n == p.attempt
  <1>1. /\ p \in Payload
        /\ request[h].pc = "working"
        /\ work[h].stage = "link"
    BY DEF LinkResult, Working, IInv, RepliesAreTruthful
  <1>2. UNCHANGED <<attempt, result, revoking, job, workspace, candidate>>
    BY DEF LinkResult, tenantVars
  <1>3. /\ event' = [event EXCEPT ![p] = "processed"]
        /\ head' = [head EXCEPT !.status = "processed", !.owner = NoRequest, !.leaseLive = FALSE]
        /\ head.payload = p
        /\ \A g \in Request \ {h} : request'[g] = request[g]
    <2>1. request \in [Request -> RequestState]
      BY DEF RInv, ResultTypeOK, TypeOK
    <2> QED BY <2>1 DEF LinkResult, Complete, Owns, Reply
  <1>4. round' = RoundWith(p) /\ LinkBarrier(p) = "none"
    BY DEF LinkResult
  <1> HIDE DEF p, n
  <1>5. candidate = "present"
    <2>1. Fenced = "none"
      BY <1>4 DEF LinkBarrier
    <2>2. candidate # "deleted"
      <3> SUFFICES ASSUME candidate = "deleted"
                   PROVE  Fenced # "none"
        BY <2>1
      <3>1. CASE workspace # "active"
        BY <3>1 DEF Fenced
      <3>2. CASE workspace = "active"
        BY <3>2 DEF Fenced
      <3> QED BY <3>1, <3>2
    <2> QED BY <2>2 DEF RInv, ResultTypeOK
  <1>6. /\ work \in [Request -> WorkState]
        /\ event \in [Payload -> EventStatus]
        /\ head \in [payload : Payload \cup {NoPayload}, status : HeadStatus,
                     owner : Request \cup {NoRequest}, leaseLive : BOOLEAN]
        /\ round.status \in {"open", "completed", "revoked"} /\ round.revokedAt \in BOOLEAN
    BY DEF RInv, ResultTypeOK, TypeOK, WorkState
  <1>7. /\ work' \in [Request -> WorkState]
        /\ work'[h] = NoWork
        /\ \A g \in Request \ {h} : work'[g] = work[g]
    BY <1>6 DEF LinkResult, Finish, WorkState, NoWork
  <1>8. /\ round'.status \in {"open", "completed", "revoked"}
        /\ round'.revokedAt = round.revokedAt
        /\ round'.linked = p
        /\ round.revokedAt => round'.status # "open"
    <2>1. CASE RoundRevoked
      BY <1>4, <1>6, <2>1 DEF RoundWith, RInv, DeletionRevokes
    <2>2. CASE ~RoundRevoked
      BY <1>4, <1>6, <2>2 DEF RoundWith, RoundRevoked
    <2> QED BY <2>1, <2>2
  <1>9. ResultTypeOK'
    <2>1. round' \in [status : {"open", "completed", "revoked"}, revokedAt : BOOLEAN,
                      linked : Payload \cup {NoPayload}, text : BOOLEAN]
      BY <1>1, <1>4, <1>6 DEF RoundWith
    <2> QED BY <1>2, <1>7, <2>1 DEF RInv, ResultTypeOK, WorkState
  <1>10. WorkIsReserved'
    BY <1>3, <1>7 DEF RInv, WorkIsReserved, NoWork
  <1>11. WorkIsKnown'
    BY <1>2, <1>3, <1>7 DEF RInv, WorkIsKnown, NoWork
  <1>12. DeletionRevokes' /\ NoTextAfterDeletion' /\ NothingLiveAfterShutdown'
    BY <1>2, <1>5, <1>8 DEF RInv, DeletionRevokes, NoTextAfterDeletion, NothingLiveAfterShutdown
  <1>13. result[n].core = p.core
    BY <1>1 DEF RInv, WorkIsKnown, p, n
  <1>14. ProcessedIsStored'
    BY <1>1, <1>2, <1>3, <1>6, <1>13 DEF RInv, ProcessedIsStored, n
  <1>15. RoundShowsLatestResult'
    <2>1. p # NoPayload /\ event'[p] = "processed"
      BY <1>1, <1>3, <1>6, PayloadAssumption
    <2>2. ASSUME NEW q \in Payload, event'[q] = "processed"
          PROVE  ~Precedes(p, q)
      <3>1. CASE q = p
        BY <1>1, <3>1, PrecedesIsOrder
      <3>2. CASE q # p
        <4>1. head'.status = "processed" /\ head'.payload = p
          BY <1>3, <1>6
        <4>2. q \in Rows' \ {head'.payload}
          BY <2>2, <3>2, <4>1 DEF Rows
        <4>3. Precedes(q, p)
          BY <4>1, <4>2 DEF HeadLedgerAgreement, Precedes, Stream!Precedes
        <4> QED BY <1>1, <4>3, PrecedesIsOrder
      <3> QED BY <3>1, <3>2
    <2> QED BY <1>2, <1>8, <1>13, <2>1, <2>2 DEF RoundShowsLatestResult, Precedes, Stream!Precedes, n
  <1> QED BY <1>9, <1>10, <1>11, <1>12, <1>14, <1>15 DEF RInv

\* A result is acknowledged behind the tombstone of a deleted candidate.
LEMMA DiscardKept ==
    ASSUME IInv, RInv, TypeOK', NEW h \in Request, DiscardResult(h)
    PROVE  RInv'
  <1>1. candidate = "deleted"
    BY DEF DiscardResult, Working, RInv, WorkIsKnown
  <1>2. UNCHANGED <<result, round, revoking, job, workspace, candidate>>
    BY DEF DiscardResult, tenantVars
  <1>3. /\ work \in [Request -> WorkState]
        /\ attempt \in [Attempts -> AttemptRow]
        /\ request \in [Request -> RequestState]
    BY DEF RInv, ResultTypeOK, WorkState, AttemptRow, TypeOK
  <1>4. /\ work' \in [Request -> WorkState]
        /\ work'[h] = NoWork
        /\ \A g \in Request \ {h} : work'[g] = work[g]
    BY <1>3 DEF DiscardResult, Finish, WorkState, NoWork
  <1>5. \A g \in Request \ {h} : request'[g] = request[g]
    BY <1>3 DEF DiscardResult, Complete, Reply
  <1>6. /\ attempt' \in [Attempts -> AttemptRow]
        /\ \A n \in Attempts : attempt'[n].status \in LiveStatus => attempt[n].status \in LiveStatus
    BY <1>3 DEF DiscardResult, AttemptRow, LiveStatus
  <1>7. ResultTypeOK'
    BY <1>2, <1>4, <1>6 DEF RInv, ResultTypeOK, WorkState, AttemptRow
  <1>8. WorkIsReserved'
    BY <1>4, <1>5 DEF RInv, WorkIsReserved, NoWork
  <1>9. WorkIsKnown'
    BY <1>2, <1>4, <1>5 DEF RInv, WorkIsKnown, NoWork
  <1>10. DeletionRevokes' /\ NoTextAfterDeletion' /\ NothingLiveAfterShutdown'
    BY <1>2, <1>6 DEF RInv, DeletionRevokes, NoTextAfterDeletion, NothingLiveAfterShutdown
  <1>11. ProcessedIsStored' /\ RoundShowsLatestResult'
    BY <1>1, <1>2 DEF ProcessedIsStored, RoundShowsLatestResult
  <1> QED BY <1>7, <1>8, <1>9, <1>10, <1>11 DEF RInv

-----------------------------------------------------------------------------
(* Steps of candidates, recruiters and the calendar. *)

\* They touch neither requests nor ledger, nor what a row stores or the round
\* links, and leave a shut-down round as the invariant has it.
LEMMA TenantEffect ==
    ASSUME IInv, RInv, UNCHANGED <<roundSession, head, event, request, acked, work>>,
           attempt' \in [Attempts -> AttemptRow],
           result' \in [Attempts -> ResultRow],
           \A n \in Attempts : result'[n].core = result[n].core,
           round' \in RoundRow, round'.linked = round.linked,
           revoking' \in BOOLEAN,
           job' \in {"open", "closed", "expired"},
           workspace' \in {"active", "deletion_pending"},
           candidate' \in {"present", "deleted"},
           candidate = "deleted" => candidate' = "deleted",
           DeletionRevokes', NoTextAfterDeletion', NothingLiveAfterShutdown'
    PROVE  RInv'
  <1>1. round.linked \in Payload \cup {NoPayload}
    BY DEF RInv, ResultTypeOK
  <1>2. candidate' = "present" => candidate = "present"
    BY DEF RInv, ResultTypeOK
  <1>3. ResultTypeOK'
    BY DEF RInv, ResultTypeOK, TypeOK, AttemptRow, ResultRow, RoundRow
  <1>4. WorkIsReserved'
    BY DEF RInv, WorkIsReserved
  <1>5. WorkIsKnown'
    <2> SUFFICES ASSUME NEW h \in Request, work[h].stage = "link"
                 PROVE  result'[request[h].payload.attempt].core = request[h].payload.core
      BY DEF RInv, WorkIsKnown
    <2>1. result[request[h].payload.attempt].core = request[h].payload.core
      BY DEF RInv, WorkIsKnown
    <2>2. request[h].payload \in Payload
      BY DEF IInv, RepliesAreTruthful, RInv, WorkIsReserved
    <2> QED BY <2>1, <2>2, ResultAssumption DEF Attempts
  <1>6. ProcessedIsStored'
    BY <1>1, ResultAssumption DEF RInv, ProcessedIsStored, Attempts
  <1>7. RoundShowsLatestResult'
    <2> SUFFICES ASSUME candidate' = "present"
                 PROVE  RoundShowsLatestResult'
      BY DEF RoundShowsLatestResult
    <2>1. /\ round.linked # NoPayload =>
                /\ event[round.linked] = "processed"
                /\ result[round.linked.attempt].core = round.linked.core
          /\ \A p \in Payload : event[p] = "processed" =>
                round.linked # NoPayload /\ ~Precedes(round.linked, p)
      BY <1>2 DEF RInv, RoundShowsLatestResult
    <2>2. round.linked # NoPayload => round.linked.attempt \in Attempts
      BY <1>1, ResultAssumption DEF Attempts
    <2> QED BY <2>1, <2>2 DEF RoundShowsLatestResult, Precedes, Stream!Precedes
  <1> QED BY <1>3, <1>4, <1>5, <1>6, <1>7 DEF RInv

\* Revoking attempts makes none live.
LEMMA RevokingAttempts ==
    ASSUME RInv, NEW statuses, RevokeAttempts(statuses)
    PROVE  /\ attempt' \in [Attempts -> AttemptRow]
           /\ \A n \in Attempts : attempt'[n].status \in LiveStatus =>
                 attempt[n].status \in LiveStatus /\ attempt[n].status \notin statuses
  <1>1. attempt \in [Attempts -> AttemptRow]
    BY DEF RInv, ResultTypeOK, AttemptRow
  <1> QED BY <1>1 DEF RevokeAttempts, AttemptRow, LiveStatus

\* Whatever recruiters, candidates and the calendar do keeps the invariant.
LEMMA TenantKept ==
    ASSUME IInv, RInv, TenantStep
    PROVE  RInv'
  <1>1. /\ attempt \in [Attempts -> AttemptRow] /\ result \in [Attempts -> ResultRow]
        /\ round \in RoundRow /\ revoking \in BOOLEAN
        /\ job \in {"open", "closed", "expired"}
        /\ workspace \in {"active", "deletion_pending"}
        /\ candidate \in {"present", "deleted"}
    BY DEF RInv, ResultTypeOK, AttemptRow, ResultRow, RoundRow
  <1>2. DeletionRevokes /\ NoTextAfterDeletion /\ NothingLiveAfterShutdown
    BY DEF RInv
  <1> USE DEF reservationVars, tenantVars
  <1>3. CASE AcceptConsent
    <2>1. UNCHANGED <<reservationVars, result, round, revoking, tenantVars, work>>
      BY <1>3 DEF AcceptConsent
    <2>2. PICK n : attempt' = [attempt EXCEPT ![n] = [status |-> "invited", starting |-> FALSE]]
      BY <1>3 DEF AcceptConsent
    <2>3. attempt' \in [Attempts -> AttemptRow]
      BY <1>1, <2>2 DEF AttemptRow
    <2>4. job = "open" /\ workspace = "active" /\ candidate # "deleted"
      BY <1>2, <1>3 DEF AcceptConsent, RoundOpen, DeletionRevokes
    <2>5. DeletionRevokes' /\ NoTextAfterDeletion' /\ NothingLiveAfterShutdown'
      BY <1>2, <2>1, <2>4 DEF DeletionRevokes, NoTextAfterDeletion, NothingLiveAfterShutdown
    <2> QED BY <1>1, <2>1, <2>3, <2>5, TenantEffect
  <1>4. ASSUME NEW n \in Attempts, CheckStart(n) \/ StartAttempt(n)
        PROVE  RInv'
    <2>1. UNCHANGED <<reservationVars, result, round, revoking, tenantVars, work>>
      BY <1>4 DEF CheckStart, StartAttempt
    <2>2. /\ attempt' \in [Attempts -> AttemptRow]
          /\ \A m \in Attempts : attempt'[m].status \in LiveStatus => attempt[m].status \in LiveStatus
      <3>1. attempt[n].status \in {"absent", "invited", "in_progress", "completed", "revoked"}
        BY <1>1 DEF AttemptRow
      <3>2. CASE CheckStart(n)
        BY <1>1, <3>1, <3>2 DEF CheckStart, AttemptRow, LiveStatus
      <3>3. CASE StartAttempt(n) /\ attempt[n].status = "invited"
        BY <1>1, <3>3 DEF StartAttempt, AttemptRow, LiveStatus
      <3>4. CASE StartAttempt(n) /\ attempt[n].status # "invited"
        BY <1>1, <3>1, <3>4 DEF StartAttempt, AttemptRow, LiveStatus
      <3> QED BY <1>4, <3>2, <3>3, <3>4
    <2>3. DeletionRevokes' /\ NoTextAfterDeletion' /\ NothingLiveAfterShutdown'
      BY <1>2, <2>1, <2>2 DEF DeletionRevokes, NoTextAfterDeletion, NothingLiveAfterShutdown
    <2> QED BY <1>1, <2>1, <2>2, <2>3, TenantEffect
  <1>5. CASE RevokeRound
    <2>1. UNCHANGED <<reservationVars, attempt, result, tenantVars, work>> /\ revoking' = TRUE
      BY <1>5 DEF RevokeRound
    <2>2. /\ round' \in RoundRow /\ round'.linked = round.linked
          /\ round'.status = "revoked" /\ round'.revokedAt = TRUE /\ round'.text = round.text
      BY <1>1, <1>5 DEF RevokeRound, RoundRow
    <2>3. DeletionRevokes' /\ NoTextAfterDeletion' /\ NothingLiveAfterShutdown'
      BY <1>2, <2>1, <2>2 DEF DeletionRevokes, NoTextAfterDeletion, NothingLiveAfterShutdown
    <2> QED BY <1>1, <2>1, <2>2, <2>3, TenantEffect
  <1>6. CASE RevokeGuestAccess
    <2>1. UNCHANGED <<reservationVars, result, round, tenantVars, work>> /\ revoking' = FALSE
      BY <1>6 DEF RevokeGuestAccess
    <2>2. /\ attempt' \in [Attempts -> AttemptRow]
          /\ \A n \in Attempts : attempt'[n].status \in LiveStatus => attempt[n].status \in LiveStatus
      BY <1>6, RevokingAttempts DEF RevokeGuestAccess
    <2>3. DeletionRevokes' /\ NoTextAfterDeletion' /\ NothingLiveAfterShutdown'
      BY <1>2, <2>1, <2>2 DEF DeletionRevokes, NoTextAfterDeletion, NothingLiveAfterShutdown
    <2> QED BY <1>1, <2>1, <2>2, <2>3, TenantEffect
  <1>7. CASE CloseJob
    <2>1. UNCHANGED <<reservationVars, result, revoking, workspace, candidate, work>> /\ job' = "closed"
      BY <1>7 DEF CloseJob
    <2>2. /\ attempt' \in [Attempts -> AttemptRow]
          /\ \A n \in Attempts : attempt'[n].status \notin LiveStatus
      BY <1>7, RevokingAttempts DEF CloseJob
    <2>3. /\ round' \in RoundRow /\ round'.linked = round.linked /\ round'.text = round.text
          /\ round.revokedAt => round'.revokedAt
          /\ round'.revokedAt => round'.status # "open"
      <3>1. CASE RoundOpen
        BY <1>1, <1>7, <3>1 DEF CloseJob, RoundRow
      <3>2. CASE ~RoundOpen
        BY <1>1, <1>2, <1>7, <3>2 DEF CloseJob, DeletionRevokes
      <3> QED BY <3>1, <3>2
    <2>4. DeletionRevokes' /\ NoTextAfterDeletion' /\ NothingLiveAfterShutdown'
      BY <1>2, <2>1, <2>2, <2>3 DEF DeletionRevokes, NoTextAfterDeletion, NothingLiveAfterShutdown
    <2> QED BY <1>1, <2>1, <2>2, <2>3, <2>4, TenantEffect
  <1>8. CASE ReopenJob \/ RetentionEnds \/ RestoreWorkspace
    <2>1. /\ UNCHANGED <<reservationVars, recordVars, candidate, work>>
          /\ job' \in {"open", "expired"} \/ job' = job
          /\ workspace' = "active" \/ workspace' = workspace
          /\ job' # "open" => job # "open"
          /\ workspace' # "active" => workspace # "active"
      BY <1>8 DEF ReopenJob, RetentionEnds, RestoreWorkspace
    <2>2. UNCHANGED <<attempt, result, round, revoking>>
      BY <2>1 DEF recordVars
    <2>3. DeletionRevokes' /\ NoTextAfterDeletion' /\ NothingLiveAfterShutdown'
      BY <1>2, <2>1, <2>2 DEF DeletionRevokes, NoTextAfterDeletion, NothingLiveAfterShutdown
    <2> QED BY <1>1, <2>1, <2>2, <2>3, TenantEffect
  <1>9. CASE DeleteWorkspace
    <2>1. /\ UNCHANGED <<reservationVars, result, revoking, job, candidate, work>>
          /\ workspace' = "deletion_pending"
      BY <1>9 DEF DeleteWorkspace
    <2>2. /\ attempt' \in [Attempts -> AttemptRow]
          /\ \A n \in Attempts : attempt'[n].status \notin LiveStatus
      BY <1>9, RevokingAttempts DEF DeleteWorkspace
    <2>3. /\ round' \in RoundRow /\ round'.linked = round.linked /\ round'.text = round.text
          /\ round'.revokedAt = TRUE /\ round'.status # "open"
      BY <1>1, <1>9 DEF DeleteWorkspace, RoundRow
    <2>4. DeletionRevokes' /\ NoTextAfterDeletion' /\ NothingLiveAfterShutdown'
      BY <1>2, <2>1, <2>2, <2>3 DEF DeletionRevokes, NoTextAfterDeletion, NothingLiveAfterShutdown
    <2> QED BY <1>1, <2>1, <2>2, <2>3, <2>4, TenantEffect
  <1>10. CASE DeleteCandidate
    <2>1. UNCHANGED <<reservationVars, revoking, job, workspace, work>> /\ candidate' = "deleted"
      BY <1>10 DEF DeleteCandidate
    <2>2. /\ attempt' \in [Attempts -> AttemptRow]
          /\ \A n \in Attempts : attempt'[n].status \notin LiveStatus
      BY <1>10, RevokingAttempts DEF DeleteCandidate
    <2>3. /\ round' \in RoundRow /\ round'.linked = round.linked /\ round'.text = FALSE
          /\ round'.revokedAt = TRUE /\ round'.status # "open"
      BY <1>1, <1>10 DEF DeleteCandidate, RoundRow
    <2>4. /\ result' \in [Attempts -> ResultRow]
          /\ \A n \in Attempts : result'[n].core = result[n].core /\ result'[n].text = FALSE
      BY <1>1, <1>10 DEF DeleteCandidate, ResultRow
    <2>5. DeletionRevokes' /\ NoTextAfterDeletion' /\ NothingLiveAfterShutdown'
      BY <2>1, <2>2, <2>3, <2>4 DEF DeletionRevokes, NoTextAfterDeletion, NothingLiveAfterShutdown
    <2> QED BY <1>1, <2>1, <2>2, <2>3, <2>4, <2>5, TenantEffect
  <1> QED BY <1>3, <1>4, <1>5, <1>6, <1>7, <1>8, <1>9, <1>10 DEF TenantStep

-----------------------------------------------------------------------------
(* The invariant and what it gives. *)

\* The invariant holds initially.
LEMMA ResultInvStarts ==
    ASSUME ResultInit
    PROVE  RInv
  <1> USE DEF ResultInit, NoWork
  <1>1. TypeOK
    BY PayloadAssumption DEF Init, TypeOK, NoHead, IdleRequest, HeadStatus, EventStatus, RequestState
  <1>2. ResultTypeOK
    BY <1>1 DEF ResultTypeOK
  <1>3. WorkIsReserved /\ WorkIsKnown
    BY DEF WorkIsReserved, WorkIsKnown
  <1>4. DeletionRevokes /\ NoTextAfterDeletion /\ NothingLiveAfterShutdown
    BY DEF DeletionRevokes, NoTextAfterDeletion, NothingLiveAfterShutdown
  <1>5. ProcessedIsStored /\ RoundShowsLatestResult
    BY DEF ProcessedIsStored, RoundShowsLatestResult, Init
  <1> QED BY <1>2, <1>3, <1>4, <1>5 DEF RInv

\* Every step keeps it.
LEMMA ResultInvKept ==
    ASSUME IInv, RInv, [ResultNext]_vars
    PROVE  RInv'
  <1>1. [Next]_reservationVars
    BY ReservationStep
  <1>2. TypeOK' /\ HeadLedgerAgreement'
    <2>1. CASE Next
      BY <2>1, LedgerStep, RequestsStep
    <2>2. CASE UNCHANGED reservationVars
      BY <2>2 DEF reservationVars, IInv, TypeOK, HeadLedgerAgreement, Rows, Precedes, Stream!Precedes
    <2> QED BY <1>1, <2>1, <2>2
  <1>3. CASE UNCHANGED vars \/ LeaseRunsOut
    <2>1. UNCHANGED <<recordVars, tenantVars, event, request, work>>
      BY <1>3 DEF vars, LeaseRunsOut, LeaseExpires, recordVars, tenantVars
    <2>2. WorkIsReserved' /\ WorkIsKnown' /\ work' \in [Request -> WorkState]
      BY <2>1 DEF RInv, ResultTypeOK, WorkState, WorkIsReserved, WorkIsKnown, recordVars, tenantVars
    <2> QED BY <1>2, <2>1, <2>2, RecordsUntouched
  <1>4. CASE TenantStep
    BY <1>4, TenantKept
  <1>5. ASSUME NEW h \in Request, DeliveryStep(h)
        PROVE  RInv'
    BY <1>2, <1>5, DeliveryKept, PersistKept, LinkKept, DiscardKept DEF DeliveryStep
  <1> QED BY <1>3, <1>4, <1>5 DEF ResultNext

\* So it always holds.
LEMMA ResultInvariance == ResultSpec => []RInv
  <1>1. ResultInit => RInv
    BY ResultInvStarts
  <1>2. IInv /\ RInv /\ [ResultNext]_vars => RInv'
    BY ResultInvKept
  <1> QED BY <1>1, <1>2, ReservationInvariance, PTL DEF ResultSpec

\* Every variable keeps its type, whatever happens to the round.
THEOREM ResultTypeCorrect == ResultSpec => []ResultTypeOK
  <1>1. RInv => ResultTypeOK
    BY DEF RInv
  <1> QED BY <1>1, ResultInvariance, PTL

\* Once the job is closed, the workspace deleted or the candidate erased, no
\* attempt is live, not even one that was being started.
THEOREM NothingGoesOnAfterShutdown == ResultSpec => []NothingLiveAfterShutdown
  <1>1. RInv => NothingLiveAfterShutdown
    BY DEF RInv
  <1> QED BY <1>1, ResultInvariance, PTL

\* No delivery that was in flight brings back the text of a deleted candidate.
THEOREM DeletedTextStaysDeleted == ResultSpec => []NoTextAfterDeletion
  <1>1. RInv => NoTextAfterDeletion
    BY DEF RInv
  <1> QED BY <1>1, ResultInvariance, PTL

\* A result settled as processed is in its attempt's row, unless the candidate
\* was deleted.
THEOREM ProcessedResultsAreStored == ResultSpec => []ProcessedIsStored
  <1>1. RInv => ProcessedIsStored
    BY DEF RInv
  <1> QED BY <1>1, ResultInvariance, PTL

\* The round shows the latest processed result, as its attempt's row has it.
THEOREM LatestResultIsShown == ResultSpec => []RoundShowsLatestResult
  <1>1. RInv => RoundShowsLatestResult
    BY DEF RInv
  <1> QED BY <1>1, ResultInvariance, PTL

\* No step changes the status of a revoked round, nor takes the revocation back.
LEMMA RevokedStays ==
    ASSUME RInv, [ResultNext]_vars, round.revokedAt
    PROVE  round'.revokedAt /\ round'.status = round.status
  <1>1. round.status \in {"completed", "revoked"} /\ round \in RoundRow
    BY DEF RInv, DeletionRevokes, ResultTypeOK, RoundRow
  <1>2. CASE UNCHANGED vars \/ LeaseRunsOut
    BY <1>2 DEF vars, LeaseRunsOut, recordVars
  <1>3. CASE TenantStep
    <2>1. CASE CloseJob
      BY <1>1, <2>1 DEF CloseJob, RoundOpen
    <2>2. CASE DeleteWorkspace
      BY <1>1, <2>2 DEF DeleteWorkspace, RoundRow
    <2>3. CASE DeleteCandidate
      BY <1>1, <2>3 DEF DeleteCandidate
    <2>4. CASE RevokeRound
      BY <1>1, <2>4 DEF RevokeRound
    <2>5. CASE UNCHANGED round
      BY <2>5
    <2> QED BY <1>3, <2>1, <2>2, <2>3, <2>4, <2>5 DEF TenantStep, AcceptConsent, CheckStart,
             StartAttempt, RevokeGuestAccess, ReopenJob, RetentionEnds, RestoreWorkspace, recordVars
  <1>4. ASSUME NEW h \in Request, DeliveryStep(h)
        PROVE  round'.revokedAt /\ round'.status = round.status
    <2>1. CASE LinkResult(h)
      BY <2>1 DEF LinkResult, RoundWith, RoundRevoked
    <2>2. CASE PersistResult(h) \/ DiscardResult(h)
      BY <2>2 DEF PersistResult, DiscardResult
    <2>3. CASE UNCHANGED recordVars
      BY <2>3 DEF recordVars
    <2> QED BY <1>4, <2>1, <2>2, <2>3 DEF DeliveryStep, Ingest, ReserveResult, DeclineResult,
             CheckCompatible, CopyMedia, AbandonLink, SettleStale, FailResult, RespondResult, CrashResult
  <1> QED BY <1>2, <1>3, <1>4 DEF ResultNext

\* What happens to a round after its revocation changes nothing of its outcome.
THEOREM RevokedOutcomeIsFrozen == ResultSpec => RevocationFreezesOutcome
  <1>1. RInv /\ [ResultNext]_vars =>
           [round.revokedAt => round'.revokedAt /\ round'.status = round.status]_vars
    BY RevokedStays
  <1> QED BY <1>1, ResultInvariance, PTL DEF ResultSpec, RevocationFreezesOutcome
=============================================================================
