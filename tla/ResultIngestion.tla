--------------------------- MODULE ResultIngestion ---------------------------
(***************************************************************************)
(* One round's results on the control plane:                               *)
(* modules/hire/services/resultIngestionService.ts with the evidence it    *)
(* persists, composed with the reservation of the stream (module           *)
(* IngestionReservation), and what recruiters, candidates and the clock do *)
(* meanwhile to the attempt, the round, the job, the workspace and the     *)
(* candidate.                                                              *)
(*                                                                         *)
(* Each database transaction is one step.  Media rows and objects are left *)
(* to module MediaLifecycle: here a copy succeeds, or meets a fence.       *)
(***************************************************************************)
EXTENDS IngestionReservation

CONSTANTS
    MaxAttempt,     \* bound: interview attempts of the round
    NoCore,
    Lifecycle       \* bound: the lifecycle events that may happen

\* p.core is the digest of p's raw engine output (everything but the media),
\* p.media whether p carries media to copy.
ASSUME ResultAssumption ==
    /\ MaxAttempt \in Nat
    /\ \A p \in Payload : /\ p.attempt \in 1 .. MaxAttempt
                          /\ p.core # NoCore
                          /\ p.media \in BOOLEAN

VARIABLES
    attempt,    \* HireInterviewAttempt rows by sequence
    result,     \* HireInterviewResult rows by attempt
    round,      \* HireRound, but for its reservation and session
    revoking,   \* a revokeRound call has yet to revoke the guest's access
    job,        \* HireJob: open, closed, or closed for more than six months
    workspace,
    candidate,
    work        \* how far each request has come, and what it read on arrival

recordVars == <<attempt, result, round, revoking>>
tenantVars == <<job, workspace, candidate>>
vars == <<roundSession, head, event, request, acked, attempt, result, round, revoking,
          job, workspace, candidate, work>>

Attempts == 1 .. MaxAttempt
NoWork == [stage |-> "none", sawDeletion |-> FALSE]

\* An attempt is live (attempt.live) exactly in these states.
LiveStatus == {"invited", "in_progress"}

ResultTypeOK ==
    /\ TypeOK
    /\ attempt \in [Attempts -> [status : {"absent", "invited", "in_progress", "completed", "revoked"},
                                 starting : BOOLEAN]]
    /\ result \in [Attempts -> [core : {p.core : p \in Payload} \cup {NoCore}, text : BOOLEAN]]
    /\ round \in [status : {"open", "completed", "revoked"},
                  revokedAt : BOOLEAN,
                  linked : Payload \cup {NoPayload},
                  text : BOOLEAN]
    /\ revoking \in BOOLEAN
    /\ job \in {"open", "closed", "expired"}
    /\ workspace \in {"active", "deletion_pending"}
    /\ candidate \in {"present", "deleted"}
    /\ work \in [Request -> [stage : {"none", "check", "copy", "persist", "link", "discard", "stale"},
                             sawDeletion : BOOLEAN]]

ResultInit ==
    /\ Init
    /\ attempt = [n \in Attempts |-> [status |-> "absent", starting |-> FALSE]]
    /\ result = [n \in Attempts |-> [core |-> NoCore, text |-> FALSE]]
    /\ round = [status |-> "open", revokedAt |-> FALSE, linked |-> NoPayload, text |-> FALSE]
    /\ revoking = FALSE
    /\ job = "open"
    /\ workspace = "active"
    /\ candidate = "present"
    /\ work = [h \in Request |-> NoWork]

Enter(h, stage) == work' = [work EXCEPT ![h] = [stage |-> stage, sawDeletion |-> @.sawDeletion]]
Finish(h) == work' = [work EXCEPT ![h] = NoWork]

-----------------------------------------------------------------------------
(* A delivery: ingestHireEngineResult. *)

\* The attempt is looked up and any deletion request of the candidate is read
\* before the reservation, outside its transaction.  The runtime has a result
\* only of an attempt that was started (external: the interview engine).
Ingest(h, p) ==
    /\ attempt[p.attempt].status \notin {"absent", "invited"}
    /\ Receive(h, p)
    /\ work' = [work EXCEPT ![h] = [stage |-> "none", sawDeletion |-> candidate = "deleted"]]
    /\ UNCHANGED <<recordVars, tenantVars>>

ReserveResult(h) ==
    /\ Acquire(h)
    /\ Enter(h, IF work[h].sawDeletion THEN "discard" ELSE "check")
    /\ UNCHANGED <<recordVars, tenantVars>>

DeclineResult(h) ==
    /\ Decline(h)
    /\ Finish(h)
    /\ UNCHANGED <<recordVars, tenantVars>>

\* A step of the work that leaves the reservation as it is.
Working(h, stage) == request[h].pc = "working" /\ work[h].stage = stage

\* The attempt's result row, if there is one, must be of the same content.
CheckCompatible(h) ==
    /\ Working(h, "check")
    /\ result[request[h].payload.attempt].core \in {NoCore, request[h].payload.core}
    /\ Enter(h, "copy")
    /\ UNCHANGED <<reservationVars, recordVars, tenantVars>>

\* What stands in the way of writing: the fences are claimed in this order.
Fenced ==
    IF workspace # "active" THEN "stale"
    ELSE IF candidate = "deleted" THEN "discard"
    ELSE IF job = "expired" THEN "stale" ELSE "none"

\* Media are copied under the fences; without media no fence is claimed.
CopyMedia(h) ==
    /\ Working(h, "copy")
    /\ Enter(h, IF request[h].payload.media /\ Fenced # "none" THEN Fenced ELSE "persist")
    /\ UNCHANGED <<reservationVars, recordVars, tenantVars>>

\* Variant with a bug: a result is stored without the candidate's write fence.
StoreUnfenced(h) ==
    LET n == request[h].payload.attempt IN
    /\ attempt[n].status \in {"in_progress", "revoked"}
    /\ attempt' = [attempt EXCEPT ![n] =
          [status |-> IF @.status = "in_progress" THEN "completed" ELSE "revoked",
           starting |-> @.starting]]
    /\ result' = [result EXCEPT ![n] = [core |-> request[h].payload.core, text |-> TRUE]]
    /\ Enter(h, "link")

\* Variant with a bug: the result of a revoked attempt is linked but not stored.
StoreUnlessRevoked(h) ==
    LET n == request[h].payload.attempt
        live == attempt[n].status = "in_progress"
    IN
    /\ candidate = "present"
    /\ attempt[n].status \in {"in_progress", "revoked"}
    /\ attempt' = IF live THEN [attempt EXCEPT ![n] = [status |-> "completed", starting |-> @.starting]]
                          ELSE attempt
    /\ result' = IF live THEN [result EXCEPT ![n] = [core |-> request[h].payload.core, text |-> TRUE]]
                         ELSE result
    /\ Enter(h, "link")

\* Variant with a bug: only the result of an attempt in progress is accepted.
StoreIfLive(h) ==
    LET n == request[h].payload.attempt IN
    /\ candidate = "present"
    /\ attempt[n].status = "in_progress"
    /\ attempt' = [attempt EXCEPT ![n] = [status |-> "completed", starting |-> @.starting]]
    /\ result' = [result EXCEPT ![n] = [core |-> request[h].payload.core, text |-> TRUE]]
    /\ Enter(h, "link")

\* A new row, together with the attempt it completes, behind the candidate's
\* write fence.
StoreResult(h) ==
    LET n == request[h].payload.attempt IN
    /\ candidate = "present"
    /\ attempt[n].status \in {"in_progress", "revoked"}
    /\ attempt' = [attempt EXCEPT ![n] =
          [status |-> IF @.status = "in_progress" THEN "completed" ELSE "revoked",
           starting |-> @.starting]]
    /\ result' = [result EXCEPT ![n] = [core |-> request[h].payload.core, text |-> TRUE]]
    /\ Enter(h, "link")

\* persistHireInterviewResult: the row that is there, or a new one.
PersistResult(h) ==
    LET p == request[h].payload
        stored == result[p.attempt].core
    IN
    /\ Working(h, "persist")
    /\ \/ /\ stored = p.core
          /\ Enter(h, "link")
          /\ UNCHANGED <<attempt, result>>
       \/ /\ stored = NoCore
          /\ candidate = "deleted"
          /\ Enter(h, "discard")
          /\ UNCHANGED <<attempt, result>>
       \/ stored = NoCore /\ StoreResult(h)
    /\ UNCHANGED <<reservationVars, round, revoking, tenantVars>>

RoundRevoked == round.revokedAt \/ round.status = "revoked"

\* Why the terminal transaction of p would not link its result.
LinkBarrier(p) ==
    IF Fenced # "none" THEN Fenced
    ELSE IF \/ ~SessionAllowed(p)
            \/ /\ attempt[p.attempt].status # "completed"
               /\ ~(RoundRevoked /\ attempt[p.attempt].status = "revoked")
         THEN "stale" ELSE "none"

\* Variant with a bug: a revoked round is completed, too.
RoundCompletedWith(p) ==
    [status |-> "completed", revokedAt |-> round.revokedAt, linked |-> p, text |-> TRUE]

\* Variant with a bug: the result linked first is kept.
RoundKeepingFirst(p) ==
    [status |-> IF RoundRevoked THEN round.status ELSE "completed",
     revokedAt |-> round.revokedAt,
     linked |-> IF round.linked = NoPayload THEN p ELSE round.linked,
     text |-> TRUE]

\* A result that comes after the revocation is attached, but completes nothing.
RoundWith(p) ==
    [status |-> IF RoundRevoked THEN round.status ELSE "completed",
     revokedAt |-> round.revokedAt,
     linked |-> p,
     text |-> TRUE]

\* The terminal transaction: round, ledger and head together.
LinkResult(h) ==
    LET p == request[h].payload IN
    /\ Working(h, "link")
    /\ LinkBarrier(p) = "none"
    /\ Complete(h, "processed")
    /\ round' = RoundWith(p)
    /\ Finish(h)
    /\ UNCHANGED <<attempt, result, revoking, tenantVars>>

AbandonLink(h) ==
    /\ Working(h, "link")
    /\ LinkBarrier(request[h].payload) # "none"
    /\ Enter(h, LinkBarrier(request[h].payload))
    /\ UNCHANGED <<reservationVars, recordVars, tenantVars>>

\* discardResultBehindPrivacyTombstone
DiscardResult(h) ==
    /\ Working(h, "discard")
    /\ Complete(h, "processed")
    /\ attempt' = [attempt EXCEPT ![request[h].payload.attempt] =
                      [status |-> "revoked", starting |-> @.starting]]
    /\ Finish(h)
    /\ UNCHANGED <<result, round, revoking, tenantVars>>

\* Variant with a bug: the ledger row is settled without the head's filter.
SettleStaleUnowned(h) ==
    /\ Working(h, "stale")
    /\ event[request[h].payload] = "received"
    /\ event' = [event EXCEPT ![request[h].payload] = "stale"]
    /\ Reply(h, "stale")
    /\ Finish(h)
    /\ UNCHANGED <<roundSession, head, acked, recordVars, tenantVars>>

\* completeResultAsStale
SettleStale(h) ==
    /\ Working(h, "stale")
    /\ Complete(h, "stale")
    /\ Finish(h)
    /\ UNCHANGED <<recordVars, tenantVars>>

FailResult(h) == Fail(h) /\ Finish(h) /\ UNCHANGED <<recordVars, tenantVars>>
RespondResult(h) == Respond(h) /\ UNCHANGED <<recordVars, tenantVars, work>>
CrashResult(h) == Crash(h) /\ Finish(h) /\ UNCHANGED <<recordVars, tenantVars>>

LeaseRunsOut == LeaseExpires /\ UNCHANGED <<recordVars, tenantVars, work>>

DeliveryStep(h) ==
    \/ \E p \in Payload : Ingest(h, p)
    \/ ReserveResult(h)
    \/ DeclineResult(h)
    \/ CheckCompatible(h)
    \/ CopyMedia(h)
    \/ PersistResult(h)
    \/ LinkResult(h)
    \/ AbandonLink(h)
    \/ DiscardResult(h)
    \/ SettleStale(h)
    \/ FailResult(h)
    \/ RespondResult(h)
    \/ CrashResult(h)

-----------------------------------------------------------------------------
(* The candidate. *)

RoundOpen == round.status = "open" /\ ~round.revokedAt

\* acceptHireConsentAndIssueGuestSession: a new attempt when none is live.
AcceptConsent ==
    LET n == Cardinality({k \in Attempts : attempt[k].status # "absent"}) + 1 IN
    /\ n <= MaxAttempt
    /\ RoundOpen
    /\ workspace = "active"
    /\ job = "open"
    /\ \A k \in Attempts : attempt[k].status \notin LiveStatus
    /\ attempt' = [attempt EXCEPT ![n] = [status |-> "invited", starting |-> FALSE]]
    /\ UNCHANGED <<reservationVars, result, round, revoking, tenantVars, work>>

\* startHireInterviewAttempt reads the round first and then moves the attempt,
\* in two operations.
CheckStart(n) ==
    /\ attempt[n].status = "invited"
    /\ ~attempt[n].starting
    /\ RoundOpen
    /\ attempt' = [attempt EXCEPT ![n] = [status |-> @.status, starting |-> TRUE]]
    /\ UNCHANGED <<reservationVars, result, round, revoking, tenantVars, work>>

\* Variant with a bug: the attempt is moved whatever has become of it.
StartUnconditionally(n) ==
    /\ attempt[n].starting
    /\ attempt' = [attempt EXCEPT ![n] = [status |-> "in_progress", starting |-> FALSE]]
    /\ UNCHANGED <<reservationVars, result, round, revoking, tenantVars, work>>

StartAttempt(n) ==
    /\ attempt[n].starting
    /\ attempt' = [attempt EXCEPT ![n] =
          [status |-> IF @.status = "invited" THEN "in_progress" ELSE @.status, starting |-> FALSE]]
    /\ UNCHANGED <<reservationVars, result, round, revoking, tenantVars, work>>

-----------------------------------------------------------------------------
(* Recruiters, the candidate's deletion request and the calendar. *)

RevokeAttempts(statuses) ==
    attempt' = [n \in Attempts |->
                   IF attempt[n].status \in statuses
                   THEN [status |-> "revoked", starting |-> attempt[n].starting]
                   ELSE attempt[n]]

\* revokeRound commits the round and then, in a second operation that a crash
\* loses, revokes the guest's access and the attempts that have not started.
RevokeRound ==
    /\ "revoke" \in Lifecycle
    /\ workspace = "active"
    /\ round.status = "open"
    /\ round' = [round EXCEPT !.status = "revoked", !.revokedAt = TRUE]
    /\ revoking' = TRUE
    /\ UNCHANGED <<reservationVars, attempt, result, tenantVars, work>>

RevokeGuestAccess ==
    /\ revoking
    /\ revoking' = FALSE
    /\ RevokeAttempts({"invited"})
    /\ UNCHANGED <<reservationVars, result, round, tenantVars, work>>

\* Variant with a bug: the round takes the job's status.
CloseJobAndRound ==
    /\ "close" \in Lifecycle
    /\ workspace = "active"
    /\ job = "open"
    /\ job' = "closed"
    /\ round' = [round EXCEPT !.status = job', !.revokedAt = TRUE]
    /\ RevokeAttempts(LiveStatus)
    /\ UNCHANGED <<reservationVars, result, revoking, workspace, candidate, work>>

\* updateJobStatus to closed: one transaction.
CloseJob ==
    /\ "close" \in Lifecycle
    /\ workspace = "active"
    /\ job = "open"
    /\ job' = "closed"
    /\ round' = IF RoundOpen
                THEN [round EXCEPT !.status = "revoked", !.revokedAt = TRUE]
                ELSE round
    /\ RevokeAttempts(LiveStatus)
    /\ UNCHANGED <<reservationVars, result, revoking, workspace, candidate, work>>

ReopenJob ==
    /\ "reopen" \in Lifecycle
    /\ workspace = "active"
    /\ job \in {"closed", "expired"}
    /\ job' = "open"
    /\ UNCHANGED <<reservationVars, recordVars, workspace, candidate, work>>

\* Six months pass since the job was closed.
RetentionEnds ==
    /\ job = "closed"
    /\ job' = "expired"
    /\ UNCHANGED <<reservationVars, recordVars, workspace, candidate, work>>

\* softDeleteWorkspace schedules the purge and revokes everything, also completed
\* rounds; restoreWorkspace brings the workspace back within thirty days.
DeleteWorkspace ==
    /\ "workspace" \in Lifecycle
    /\ workspace = "active"
    /\ workspace' = "deletion_pending"
    /\ round' = [round EXCEPT !.status = IF @ = "completed" THEN @ ELSE "revoked",
                              !.revokedAt = TRUE]
    /\ RevokeAttempts(LiveStatus)
    /\ UNCHANGED <<reservationVars, result, revoking, job, candidate, work>>

RestoreWorkspace ==
    /\ "reopen" \in Lifecycle
    /\ workspace = "deletion_pending"
    /\ workspace' = "active"
    /\ UNCHANGED <<reservationVars, recordVars, job, candidate, work>>

\* applyVerifiedHirePrivacyRequest: one transaction.
DeleteCandidate ==
    /\ "privacy" \in Lifecycle
    /\ candidate = "present"
    /\ candidate' = "deleted"
    /\ RevokeAttempts(LiveStatus)
    /\ round' = [status |-> IF round.status = "open" THEN "revoked" ELSE round.status,
                 revokedAt |-> TRUE,
                 linked |-> round.linked,
                 text |-> FALSE]
    /\ result' = [n \in Attempts |-> [core |-> result[n].core, text |-> FALSE]]
    /\ UNCHANGED <<reservationVars, revoking, job, workspace, work>>

TenantStep ==
    \/ AcceptConsent
    \/ \E n \in Attempts : CheckStart(n) \/ StartAttempt(n)
    \/ RevokeRound
    \/ RevokeGuestAccess
    \/ CloseJob
    \/ ReopenJob
    \/ RetentionEnds
    \/ DeleteWorkspace
    \/ RestoreWorkspace
    \/ DeleteCandidate

ResultNext == LeaseRunsOut \/ TenantStep \/ \E h \in Request : DeliveryStep(h)

ResultSpec == ResultInit /\ [][ResultNext]_vars

\* The fairness of the reservation, for each step of the work on a payload: a
\* delivery may fail at any step any number of times, but not for ever.  It is
\* the owner that gets on: the route may run 300 seconds and the lease lasts ten
\* minutes, so that being overtaken at every step for ever is no real schedule.
StepsOn(p) ==
    LET On(h) == request[h].payload = p
        Owner(h) == On(h) /\ head.owner = h
    IN
    /\ SF_vars(acked[p] = {} /\ \E h \in Request : Ingest(h, p))
    /\ SF_vars(\E h \in Request : On(h) /\ (ReserveResult(h) \/ DeclineResult(h)))
    /\ SF_vars(\E h \in Request : Owner(h) /\ CheckCompatible(h))
    /\ SF_vars(\E h \in Request : Owner(h) /\ CopyMedia(h))
    /\ SF_vars(\E h \in Request : Owner(h) /\ PersistResult(h))
    /\ SF_vars(\E h \in Request : Owner(h) /\ (LinkResult(h) \/ AbandonLink(h)))
    /\ SF_vars(\E h \in Request : Owner(h) /\ (DiscardResult(h) \/ SettleStale(h)))
    /\ SF_vars(\E h \in Request : On(h) /\ RespondResult(h))

ResultFairness ==
    /\ WF_vars(LeaseRunsOut)
    /\ \A h \in Request : WF_vars(DeclineResult(h) \/ FailResult(h) \/ RespondResult(h) \/ CrashResult(h))
    /\ \A p \in Payload : StepsOn(p)

FairResultSpec == ResultSpec /\ ResultFairness

-----------------------------------------------------------------------------
(* Properties. *)

\* After a verified deletion the control plane holds no text of the candidate's
\* interview, neither in the result rows nor on the round, and no delivery that
\* was in flight brings it back.
NoTextAfterDeletion ==
    candidate = "deleted" => ~round.text /\ \A n \in Attempts : ~result[n].text

\* A result settled as processed is in its attempt's immutable result row,
\* unless the candidate's deletion came first.
ProcessedIsStored ==
    \A p \in Payload : event[p] = "processed" =>
        candidate = "deleted" \/ result[p.attempt].core = p.core

\* The round shows the latest processed result and never an earlier one, in the
\* content its attempt's result row has; it shows one as soon as one is
\* processed.
RoundShowsLatestResult ==
    candidate = "present" =>
        /\ round.linked # NoPayload =>
              /\ event[round.linked] = "processed"
              /\ result[round.linked.attempt].core = round.linked.core
        /\ \A p \in Payload : event[p] = "processed" =>
              round.linked # NoPayload /\ ~Precedes(round.linked, p)

\* Once the job is closed, the workspace deleted or the candidate erased nobody
\* can go on with an interview: no attempt is live, not even one that was being
\* started.
NothingLiveAfterShutdown ==
    job # "open" \/ workspace # "active" \/ candidate = "deleted" =>
        \A n \in Attempts : attempt[n].status \notin LiveStatus

\* Nothing that happens to a round after its revocation changes its outcome: a
\* late result is attached to it without completing it.
RevocationFreezesOutcome ==
    [][round.revokedAt => round'.revokedAt /\ round'.status = round.status]_vars

\* Results are reserved, settled and acknowledged only by the steps of the
\* reservation.
ImplementsReservation == Spec

\* A started interview's result is answered in the end, whatever is closed,
\* revoked or deleted meanwhile; jobs and workspaces are not taken back and
\* forth for ever.
StartedInterviewIsAnswered ==
    \A p \in Payload : attempt[p.attempt].status = "in_progress" ~> acked[p] # {}

\* What the publisher takes an acknowledgement for, before it deletes the source
\* media: "Control acknowledges only after checksum-verified copying and durable
\* result ingestion" (resultPublisher.ts), save behind a deletion.
AcknowledgedIsIngested ==
    \A p \in Payload : acked[p] # {} =>
        candidate = "deleted" \/ result[p.attempt].core = p.core
=============================================================================
