# TLA+ models of the hiring result pipeline

This directory holds TLA+ specifications, TLC configurations and TLAPS proofs for
the part of the repository where several actors write the same records: the
pipeline that brings the results of AI interviews from the isolated interview
runtime to the control plane of IPG Hire, and what revokes, expires and erases
them on either side.

    tlc -workers 2 -config MCReservation.cfg MCIngestionReservation.tla
    tlapm IngestionReservationProofs.tla ResultIngestionProofs.tla
    tlapm MediaStoreProofs.tla MediaIngestionProofs.tla MediaCustodyProofs.tla
    tlapm JobMediaRetentionProofs.tla RuntimeBindingProofs.tla RuntimePublicationProofs.tla

## The system

The repository is a modular Next.js monolith on MongoDB, Redis, object storage
(R2) and scheduled jobs (Inngest). Its modules are consumer products (mock
interviews, jobs, resumes, learning), payments, and IPG Hire. IPG Hire is two
deployments with databases of their own:

- the **control plane** (`src/modules/hire*`): workspaces, jobs, candidates,
  applications, rounds, consent, results, media and everything recruiters do;
- the **runtime** (`src/modules/hire-runtime`): the interview engine that talks
  to the candidate and publishes what came out of it, over signed HTTP.

Nothing is transactional across the two. Within one database a MongoDB
transaction is atomic; between two transactions of one request anything can
happen, including the end of the process (serverless functions with a time
limit).

### Components, their state and what makes them correct

| component | state | operations | what is hard | correct when |
|---|---|---|---|---|
| ingestion reservation (`ingestionRevisionReservationService`) | reservation head in the round, event ledger | reserve, complete, release | leases that lapse under a slow owner, two documents that must agree, lost answers | one payload open at a time, in order, settled once, answered truthfully |
| result ingestion (`resultIngestionService`) | result rows, attempt, round | deliver a result | six transactions in a row with everything else in between | nothing comes back after a deletion, the latest result is shown, a revoked round stays as it was |
| evidence (`evidenceService`) | immutable result rows | persist, check, read | a row written by an earlier, killed delivery | one content per attempt |
| consent and attempts (`identityConsentService`, `identityMediaService`) | attempts, guest sessions, consent receipts | consent, photo, start | start reads the round before it writes the attempt | no attempt goes on after a shutdown |
| rounds and revocation (`aiRoundService`, `engineRevocationService`) | rounds, revocation state | send, revoke, deliver the revocation | the revocation is three operations in two databases | revoked everywhere in the end |
| jobs (`pipelineService`) | jobs | open, close, reopen, ... | work that follows the commit and may be lost | media kept as long as promised |
| workspaces (`workspaceService`, `workspacePurgeService`) | workspaces, members | delete, restore, purge | recoverable for thirty days | restored without loss, or purged completely |
| privacy (`privacyService`, `candidateRetentionService`) | privacy requests, candidate rows | verify and apply, anonymise | deliveries in flight | no personal data afterwards |
| runtime media ingestion (`runtimeMediaIngestionService`, `hireMediaStorage`) | media rows, objects | reserve, copy, activate, quarantine | uploads that cannot be recalled | deleted bytes never return |
| media lifecycle (`mediaLifecycleService`) | media rows, privacy requests | schedule, cancel, reconcile, purge | claims of killed purgers, reopened jobs | everything due is purged, nothing else |
| result publisher (`hire-runtime/resultPublisher`, `mediaCompletionService`) | runtime bindings: publication state, payload snapshot, drain | build, stage, send, delete sources, complete; settle overdue recordings; take the browser's reports | concurrent runs on old rows, late recordings, three steps after the send | one payload per revision; no recording lost; no kind given up wrongly |
| binding, write fence, purge (`hire-runtime`) | bindings, tombstones, the engine's user and sessions | exchange, create and attach a session, capabilities, revoke, purge | documents without a shared transaction, leases taken away, uploads straight to storage | one session per interview; no access after a revocation, no data after a purge |
| handoff tickets (`engineHandoffService`, `handoffAuthTicketService`) | tickets | issue, consume | retries of a one-time act | consumed once |
| multimodal streams (`hire-multimodal`) | analyses, observations, outboxes | capture, publish, ingest, process | second user of the reservation | as above |
| intake queue, outboxes, deliveries | leased tasks | claim, run, retry | at-least-once execution | once per task, none lost |
| payments | coupons, intents, entitlements, webhooks | reserve, capture, release | webhooks out of order | no reservation lost or used twice |

The remaining modules are request handlers over single documents, read models,
user interface and calls to outside services; `PROJECT.json` lists them with the
reason why they are not modelled.

Interaction in the modelled part: a candidate's browser exchanges a handoff, signs
in to the runtime and creates the one session of the round's binding; it uploads
recordings under the write fence and reports those that will not come. The publisher
(a cron job of the runtime) posts a payload until it is acknowledged -> the results
route -> reservation (transaction) -> media copy -> result row and attempt
(transaction) -> terminal transaction of round, ledger and head. Recruiters (revoke,
close, reopen, delete the workspace), candidates (consent, start, request deletion)
and the calendar change the same rounds and attempts in transactions of their own. A
revocation, and a deletion as its stronger form, is then delivered to the runtime
until it is acknowledged.

## Modules

| module | role |
|---|---|
| `RevisionStream` | abstract specification: one monotone stream of payloads, admitted in order, settled once, acknowledged truthfully |
| `IngestionReservation` | the reservation protocol with its ledger, leases, tokens, crashes and lost responses |
| `MCIngestionReservation` | its instances for TLC |
| `IngestionReservationProofs` | its proofs |
| `ResultIngestion` | the whole delivery of a result over the reservation, with everything that races it |
| `MCResultIngestion` | its instances for TLC |
| `ResultIngestionProofs` | its proofs |
| `MediaCustody` | abstract specification: what the private media of an interview promise to recruiters and to the candidate |
| `MediaStore` | media rows, the objects they stand for, and the hourly purge |
| `MediaIngestion` | `MediaStore` with the deliveries that copy media into it, a deletion of the candidate or the workspace |
| `JobMediaRetention` | `MediaStore` with a job that is closed and reopened, and the schedule of its purge |
| `MCMediaIngestion`, `MCJobMediaRetention` | their instances for TLC |
| `RuntimeBinding` | the runtime binding from the exchange of a handoff to the verified purge |
| `RuntimePublication` | what follows a completed interview: publication in revisions, late recordings, recordings that never come |
| `MCRuntimeBinding`, `MCRuntimePublication` | their instances for TLC |
| `RuntimeBindingProofs`, `RuntimePublicationProofs` | their proofs |
| `MediaStoreProofs` | invariant of the purge, used by the next two |
| `MediaIngestionProofs`, `JobMediaRetentionProofs` | their proofs |
| `MediaCustodyProofs` | `MediaIngestion` implements `MediaCustody` |

### IngestionReservation

State: `head` is `HireRound.ingestionReservations.engineResult`, `event` the rows
of `HireEngineIngestionEvent` (a row that is `processed` with the terminal outcome
`stale` is `"stale"` here, in the head as well), `roundSession` is
`HireRound.runtimeSessionId`, `request` the deliveries in flight and `acked` what
the runtime has been told. A payload is the record of what the code compares:
event id, runtime session, attempt, revision and digest. `head.owner` is the
request that holds the reservation token; tokens are fresh and only compared for
equality, so the token of a finished request is represented by `NoRequest`.

Actions: `Receive` (the reads before the reservation), `Acquire` and `Decline`
(the two ways the reservation transaction of `reserveHireRoundIngestion` ends,
including the ledger look-up its caller does inside), `Complete`
(`completeHireRoundIngestion` with the ledger update of the same transaction),
`Fail` (`releaseHireRoundIngestion`, whose own write may be lost), `Respond`,
`Crash`, and `LeaseExpires`. A transaction is one step: MongoDB aborts one of two
that conflict. The lease of ten minutes is a boolean that may turn false at any
time after the reservation, which covers every clock.

### ResultIngestion

Extends the reservation with `attempt` (rows of `HireInterviewAttempt`; the states
before the start are one state `"invited"`), `result` (`HireInterviewResult`: the
digest of the raw output, and whether its text is there), `round` (status,
`revokedAt`, the linked result and whether its text is there), `revoking` (a
`revokeRound` call between its two operations), `job` (`"expired"` is closed for
more than six months), `workspace`, `candidate`, and `work`, the place of each
request in `ingestHireEngineResult` with the one thing it remembers from its first
reads (a deletion request). Each database transaction of the handler is an action:
`ReserveResult`, `CheckCompatible`, `CopyMedia`, `PersistResult`, `LinkResult` or
`AbandonLink`, `DiscardResult`, `SettleStale`. Media rows and objects are reduced
to whether the copy meets a fence; the fences are met in the order in which the
code claims them (workspace, candidate, job).

The environment is `AcceptConsent`, `CheckStart`/`StartAttempt` (the start is two
operations in the code), `RevokeRound`/`RevokeGuestAccess` (so is the revocation),
`CloseJob`, `ReopenJob`, `RetentionEnds`, `DeleteWorkspace`, `RestoreWorkspace`,
`DeleteCandidate`. `Lifecycle` names the ones a run allows.

### MediaStore

State: `asset`, the rows of `HireMediaAsset` (state, `active`, the ingestion lease,
`purgeEligibleAt` as `due`, `purgeReason`, `purgeClaimId` as the worker that holds
it); `object`, what is at the row's key: nothing, the verified bytes, other bytes,
or the empty seal that stands for a deletion; `purging`, the row each worker is
deleting. A row that does not exist is `"absent"`, so that `Row` is fixed.

The purge is three steps, as in `purgeDueHireMedia`: `ClaimDue` (one row's
conditional update), `SealObject` (the unconditional write of the seal) and
`SettlePurge` or `FailPurge` (an update that must find the claim). `KillPurge` ends
the process between two of them; a seal that has been sent may then still land
(`LateSealLands`). `MarkStale` and `RecoverClaim` are the two repairs a run starts
with. A purge claim carries the time its run began, so that one that looks fifteen
minutes old may belong to a process still at work: `RecoverClaim` may take any
claim. Deadlines are numbered by the closing of the job they are counted from;
`elapsed` of these are more than six months ago, and deadline 0 has always passed.

### MediaIngestion

One row per event and generation of an attempt's media of one kind; `stream` is the
reservation, reduced to what `IngestionReservation` promises of it (one owner,
events settled in order), with the event processed last; `request[h].pc` is the
place in `ingestRuntimeMediaArtifactsBatch`, `token` whether the lease the request
knows is still the row's, `uploads` the conditional writes under way, which survive
their sender. `Begin`, `LookAgain` and `Reuse` find the row; `CreateRow` and
`ReclaimRow` are the two outcomes of `reserveRuntimeMediaIngestion`; `Verify`, `Put`
and `Land` the copy; `QuarantineCopy`, `SealCopy` and `FinishCleanup` the clean-up
of a failed one; `SetEventAside` and `Settle` what follows a fence; `Barred`,
`Activate` and `Retain` the terminal transaction. `Stop` ends a request at any
point. The candidate's verified deletion, its completion, the workspace and the
clock run beside them. `Lifecycle` names what a run allows.

Abstracted: the artifact's scope checks and the object key; several artifacts of
one result (each has its own row, and a delivery of several fails or ends as one of
one does); the wait of a privacy request for the runtime's own purge, which only
delays its completion (liveness assumes it over).

`MediaCustody` is what remains of it for a reader who knows nothing of leases, claims,
seals and killed processes: a copy is kept, given up and erased, in this order; bytes
may arrive late but never over others; only a verified copy that is kept is shown;
behind a deletion nothing is reserved or shown, and the deletion is completed when all
is erased. `CustodyOf` maps the states of a row to these stages (staging and ready are
kept, claimed and failed are given up); objects, the shown rows and the request of the
candidate are themselves. `ImplementsCustody` is the specification under that mapping.

### JobMediaRetention

The same rows under a job that is closed and reopened. `CloseJob` and `ReopenJob`
are the transactions of `updateJobStatus`; the calls after the commit are pending
in `scheduling` and `cancelling` until they are made (`Schedule`, `Cancel`) or lost.
A repeated request finds its operation done and makes them again: a close for the
job as it is now, a reopening without looking at it. The reconciler reads
(`ReadClosedJob`) and writes (`Reconcile`) in two steps. Media arrive in two steps
with the deadline of the job at that moment. The observations that the same four
functions schedule are another collection under the same rules and left out.

### RuntimeBinding

State: `tombstone` (`HireRuntimeRevocation`), `binding` (`HireRuntimeBinding` with
its two leases, its drain horizon and the storage keys it knows), `user` (the
synthetic engine user), `used` (its quota), `sessions` (rows of `InterviewSession`,
named by the request that inserted them), `objects` (uploads, named by the request
for their key), `signedIn`. Requests are processes that may be killed between any
two database operations: `Exchange` (`POST handoff/exchange`), `Creator` (`POST
sessions`), `Writer` (a request for a storage capability, and the browser that then
uploads with it), `Revoker` (a delivery of a revocation).

The first two share `ensureRuntimePrincipal` (`ClaimPrincipal` to
`ReleasePrincipal`). An exchange then goes `StartExchange`, `Provision`, `CloseRace`,
`Activate`, `SignIn`; a creator `AcquireSessionLease`, `ChargeQuota` (which first
looks for a session an interrupted creation left), `InsertSession`, `AttachSession`,
and when the round was revoked meanwhile `DiscardLateSession` or
`AdoptLateSession`. A revoker goes through `revokeRuntimeBinding` one operation at a
time: tombstone, binding, then either the limit of the user or, for a privacy
revocation that found no lease and no drain, fence, objects, rows, user, scrub,
completion (`finalizeRuntimePrivacyTombstones`).

Time is only what the constants of the code promise: a session request ends within
its 300 seconds, before its lease of 360, and a capability is dead before the drain
recorded with it. So the session's lease runs out only when its holder is done
(`LeaseExpires`), and the drain only when nobody holds a capability
(`DrainExpires`). Nothing bounds the holder of the principal's lease of 60 seconds
(the exchange route has no `maxDuration`, the sessions route 300): it may run out at
any time. Its token then stays on the binding, where the recheck and the release of
its holder still find it, until another request claims it; a claim and the purge look
at `principalExpired` (`PrincipalFree`). The upsert looks at neither.

Two history variables: `evicted`, the creators from whom an ordinary revocation took
the lease; `late`, the requests that wrote the user row without a good lease since
the row was last absent.

Abstracted: one round and one principal; a binding that is `completed` (its
publication is the next module's); the lease of the feedback recovery, which the
purge waits for like the other two; the expiry of the invitation; the keys a session
row names besides the recorded capabilities; the sign-in itself (`SignIn` is the
ticket issued and redeemed).

### RuntimePublication

State: `session` (completed, the version of its feedback, the recording it names per
kind), `binding` (publication state, status, the payload `snapshot` and the digest
of the one published last, drain, the claim that is settling a kind, write
reservations, capabilities), `objects`, `late` (the deadline of seven days has
passed), and the processes: publisher runs, the browser's reports, its uploads.
A payload is its revision, the version of its scorecard, the recordings it carries
and what it says of each kind. A run works on the `row` it scanned, however old.

An upload is `ClaimMint`, `ReserveWrite`, `RecordKey` (the key is handed out),
`PutObject` (straight to storage), then a second fenced request `ClaimAssociate`,
`ReserveWrite`, `Associate`. A report is `StartReport`, `ClaimReport`,
`RecheckReport`, `FinalizeReport`. A run is `Scan`, after the deadline the same
three steps for each kind still missing (`ClaimSettle`, `RecheckSettle`,
`FinalizeSettle`, `SkipArtifact`), then `ReserveDrain`, `Build`, `Stage`, a second
`ReserveDrain`, `Send`, `DeleteSources`, `Complete`; or `Send` at once for a payload
another run has staged. What the control plane does with it is
`ResultIngestion`; here it accepts a payload it knows, or one whose recordings it
can copy. `delivered` is the history of what it accepted.

Time is counted in ticks, `Horizon` of which are the drain of six minutes; a tick
that would end the drain waits for the requests it protects. `Expire` is what runs
out by itself: capabilities, reservations of dead requests, claims.

Abstracted: the audio, which every first payload carries; bindings from before the
snapshot existed; the retry back-off; the limit of ten revisions, which
`FollowUpPossible` shows is never what stops a kind.

## Runs

| run | instance | what it shows |
|---|---|---|
| `reservation` | 2 requests, 3 payloads | types; head and ledger agree; one runtime session; an owner that was taken over is fenced; implements `RevisionStream`; every result is acknowledged in the end |
| `result_safety` | 2 requests; 3 payloads, or 1 payload with 2 attempts and everything that may happen | no text after a deletion; processed means stored; the round shows the latest result; nothing live after a shutdown; a revoked round's outcome is frozen; the ingestion implements the reservation |
| `result_liveness` | 2 requests, 1 payload, closing and deletion | a started interview's result is answered |
| `result_acknowledged` | 2 requests, 1 payload, workspace deletion | expected violation, see Findings |
| `media_safety` | 2 requests, 1 purger, 1 upload; 3 events, or 1 event of 2 generations, or 1 row and everything that may happen | types; what is shown is one verified copy, and of the latest processed result; deleted bytes never return; a completed privacy request has erased all |
| `media_liveness` | 2 events, 1 request, 1 purger, 2 uploads, deletion | abandoned copies are erased, privacy requests complete; the ingestion implements `MediaCustody` |
| `job_retention` | 1 row, 1 cron run, 2 closings | types; nothing is purged early; media of closed jobs and failed copies are purged |
| `job_retention_kept` | 1 row, 1 cron run, 2 closings | expected violation, see Findings |
| `runtime_binding` | 1 exchange, 1 writer, and 1 creator with 2 revokers or 2 creators with 1; or 2 exchanges, 1 creator and a purge | types; one session and one attempt; an acknowledged revocation is final; a purge completes, and a purged candidate is gone, up to the two exceptions of `PurgedMeansGone` |
| `runtime_purge_waits` | 1 exchange, 2 creators, 1 writer, 2 revokers | expected violation, see Findings |
| `runtime_publication` | 2 runs with 1 kind and 2 scorecards, or 1 run at a time with 2 kinds; 1 upload, reports, deadline, revocation | types; one payload per revision; no recording lost; unavailable is true; the next revision can be built |
| `runtime_report_heard` | 1 run, 1 kind, 1 upload | expected violation, see Findings |

Bounds. Two concurrent requests are what a takeover needs: the owner that lost its
lease and the one that took over; the proofs cover any number. The payloads of
`reservation` are a first result, its follow-up and the result of another runtime
session; other content at the same coordinate is in `result_safety`, and an event id
used twice in the proofs only. In the
runs of `ResultIngestion` there is one runtime session with attempt number 1,
because a runtime binding only ever has one (`bindingService.ts`): a first result
with media, its follow-up revision and, in `result_safety`, a follow-up of other
content. Two attempts (`MaxAttempt = 2`) let a candidate consent again after the
first attempt ended. `result_safety` explores two corners
(`OneOrManyResults`): one result with every event of the life of round, job,
workspace and candidate, or all of them with one attempt and without revocation and
workspace deletion. Requests are symmetric; the liveness runs use no symmetry.
`CHECK_DEADLOCK FALSE` is set where the system may really stop: a candidate
deleted before the interview leaves nothing to do, and so does an attempt whose
last event (`MaxEvent`) is settled and whose rows are purged.

The media runs divide the state space by question. `media_safety` explores three
corners (`MediaCorners`): one row under everything that may happen; three events,
each with one row, undisturbed; one event with a second generation of its row. What
happens at one object key does not depend on other rows, so one row is enough for
it, and `media_liveness` adds a second upload (`MaxUploads`) to the same key, so
that one of a dead request can race one of its successor. A second generation
(`MaxGeneration`) exists when the first one was given up; a third repeats that.
Three events are needed for a row that is reused and replaced afterwards. The rows
of a job do not influence each other, so `job_retention` has one. Two closings
(`MaxClosing`) let the calls of the first meet the second. `MaxClosing` is 0 in the
runs of `MediaIngestion`: the job is open there. Every bound is a constant, and the
proofs hold for every value of it.

In `runtime_binding` two creators are the interrupted one and the one that finds its
session, two revokers an ordinary and a privacy delivery, or one that overtakes
another; a slot takes any number of deliveries one after the other. A creator claims
the principal under its session lease and after an exchange has signed the candidate
in, so a lease of the principal that ran out under a live holder is claimed by another
request only when there are two exchanges. The run explores three corners
(`BindingCorners`), each the instance in which the other processes never start: one
creator and overlapping deliveries; two creators and one slot, whose deliveries may be
killed; two exchanges, one creator and the purge. The proofs cover them all together.
`Fairness` obliges no process to start but the slot that redelivers, so the behaviours
of the first and the third corner are cut nowhere, and `PurgeCompletes` is checked in
these two. `Limit` is 2, one charge for each creator (the code's quota is three
sessions). Only the deliveries of one slot (`Failing`) may be killed, which matters
for liveness, and in the third corner, where none is. `runtime_publication` explores two corners
(`OneRunForBoth`): overlapping runs with the camera alone and two versions of the
feedback (`MaxCore`), or both kinds with one run at a time. `MaxUploads` is 1: the
recordings of a kind are named by one upload that may fail at every step. `Horizon`
is 1 there, since only whether the drain is alive is asked for, and 2 in
`runtime_report_heard`, so that a drain can be extended before it ends.
`CHECK_DEADLOCK FALSE`: everything may be published.

## Fairness

`reservation` assumes that the lease clock runs, that a request ends in
some way (a route has 300 seconds), that the publisher, a cron job every minute,
redelivers what is not acknowledged, and that a delivery which is tried again and
again gets through some time (strong fairness per payload, of reserving,
terminalising and responding). Crashes are unfair and unlimited. In
`result_liveness` the strong fairness is per stage of the work, for the request
that owns the reservation: the lease (ten minutes) is longer than the route's time
limit, so an endless series of takeovers in the middle of the work is not a
schedule of the program. Nothing is assumed of recruiters or candidates, but jobs
and workspaces are not closed and taken back for ever (`"reopen"` is not in that
run's `Lifecycle`).

`media_liveness` assumes only what the hourly job gives (`PurgeFairness`): leases
run out, stale rows and claims are repaired, a row that is due again and again is
claimed, sealed and settled some time (strong fairness per row; the job is retried
and runs for ever, and a claim is recovered only after fifteen minutes). Deliveries
may stop at any moment and nothing makes them go on. `JobFairness` adds that calls
end, made or lost, that time passes, and that clients do not repeat a request for
ever; recruiters may close and reopen as they like, within `MaxClosing`. Time
passes only when no call is pending: calls take seconds, months pass in between.

`runtime_binding` assumes that requests end, that leases and drains run out, that a
delivery that is not killed takes its next step, and that the control plane's outbox
delivers a privacy revocation again and again (`Redeliver`, strong fairness, for a
slot outside `Failing`). That a delivery is not killed for ever cannot be said of the
step itself, because giving up before a live lease changes the same variable as being
killed; hence the constant. `runtime_report_heard` gives its counterexample all
the fairness there is: the publisher, the browser's retries, the clock and the engine
go on and nothing fails (`Failing = {}`). In it each publisher run reserves a new
drain before the report finds none; in the code a run comes each minute and the drain
lasts six, so the report never finds a moment, where the model would let it have
one between two runs.

## Proofs

`IngestionReservationProofs` proves, for every set of requests and payloads that
satisfies `PayloadAssumption`: `TypeCorrect`, `HeadAndLedgerAgree`,
`RoundHasOneSession`, `TakenOverIsFenced` and `Refinement`.

The properties are not inductive alone. The invariant `IInv` adds
`OwnerIsWorking` (a token that is still held belongs to a request working on the
head's payload) and `RepliesAreTruthful` (what a request is about to say is true of
the ledger now, and stays true, because the ledger only moves forward). The
argument goes over the ledger: by `HeadLedgerAgreement` the latest row is the
head's (`LatestIsHead`), so an admitted payload comes after everything settled, is
of the same session and reuses no event id (`AdmitMeansNext`), although the claim's
own filter does not compare sessions; the decision from head or ledger is true
(`DecisionIsTruthful`); each step is a step of the stream or invisible to it
(`LedgerStep`).

`ResultIngestionProofs` proves, for every set of attempts as well,
`IngestionImplementsReservation` and `IngestionImplementsStream` (every step of the
whole handler is a step of the reservation or none of its business,
`ReservationStep`, so that all the theorems above hold of it), `ResultTypeCorrect`,
`NothingGoesOnAfterShutdown`, `DeletedTextStaysDeleted`, `ProcessedResultsAreStored`,
`LatestResultIsShown` and `RevokedOutcomeIsFrozen`. The handler is six transactions,
and what a request read in one it relies on in a later one. The invariant `RInv`, relative to
`IInv`, therefore adds to the properties what stays true in between
(`WorkIsKnown`): a deletion that was seen is one, because it cannot be undone; the
result that is about to be linked is in its attempt's row, because rows are
immutable. `WorkIsReserved` ties this to the reservation, and `IInv` says that only
one request is at work on the head's payload, so that the round moves from a
result only to a later one. `DeletionRevokes` (a deletion revokes the round, and a
revoked round is not open) is why nobody can start again afterwards.

`MediaStoreProofs` treats the purge for any component over it. Its invariant
`StoreInv` adds to `PurgedStaysErased` that a worker told its seal has landed is
right (`AckMeansSealed`), and that seals are sent, or under way, only for rows that
have been given up (`SealsOnlyGivenUp`): a row that was claimed once never gets back
to staging or ready, whoever recovers its claim. A seal is never overwritten, because
uploads are conditional. `PurgeSafe` shows that every step of the purge keeps this and
changes rows and objects only as `StoreEffect` says; `WriterSafe` says what a step of
another component has to leave alone so that it keeps it too.

`MediaIngestionProofs` proves `MediaTypeCorrect`, `DeletedBytesNeverReturn`,
`ShownIsVerified` and `CompletedRequestHasErased` from `MInv`, which adds: a request
that has got past the reservation knows a row that exists (`RequestsKnowRows`); and,
when its copy is prepared, that the key holds the verified bytes or a seal, and only
a row that was given up has a seal; bytes and uploads belong to rows that exist
(`BytesHaveRows`); every ready row has its bytes (`ReadyHasData`); one row is shown
(`ShownAlone`). For the completed privacy request: all rows are purged, so every key
of an existing row holds a seal, and no row can be made any more because the
candidate's fence stays up (`ErasedOnceCompleted`). Each action is reduced to what
it does to rows, to the shown row and to the requests (`RowEffect`, `ShownEffect`,
`RequestEffect`); `EffectsSuffice` puts these together once.

`LatestResultStaysVisible` needs more, `ShownInv`, because it says that something is
*not* done. Without a deletion nothing that is shown falls due (`ShownIsKept`; a
purge takes only what is due, `UndueUntouched`), and a delivery sets ready rows aside
only as "discard", which it does only behind a deletion. What a delivery shows in the place of another
row is a row of the event it settles (`DeliveryFits`), also when the upload it waited
for is answered: it waits for that one alone (`UploadsAwaited`). A result that is
settled as stale changes neither what is shown nor which result that is.

`MediaCustodyProofs` proves `IngestionImplementsCustody`: every step of `MediaIngestion`
maps to a step of `MediaCustody` or a stutter (`CustodyStep`). The steps that
change rows are those that give some up (`GivesUp`, a set, because the deletion of the
workspace or the clean-up gives up several at once), the seal (`SealStep`: allowed,
because a seal is only ever under way for a row that was given up, `SealsOnlyGivenUp`),
and the settlement (`SettleStep`: by `AckMeansSealed` the seal has landed). That a
copy is reserved or shown only without a deletion is the fence of the transactions;
that the completed deletion has erased everything is the guard of the completion.

`JobMediaRetentionProofs` proves `JobTypeCorrect` and `MediaAreKept` from `JInv`:
calls and the reconciler only know closings that have happened (`ClosingsKnown`),
so a deadline for the reason `job_closed` names one, and a row can be claimed only
when that deadline has passed.

`RuntimeBindingProofs` proves `BindingTypeCorrect`, `InterviewHasOneSession`,
`BindingCountsOneAttempt`, `PurgeLeavesNothing` and `RevocationIsFinal` for every
set of exchanges, creators, writers and deliveries, from `BInv`:

- a creator at work holds the session's lease, except one at most, from whom an
  ordinary revocation took it (`LeasesHeld`); so who is about to insert a session
  found none (`SessionsKnown`), and an attempt is counted once (`AttemptsCounted`).
  Nothing rests on the principal's lease;
- every usable capability is recorded on the binding and covered by the drain, and
  so is every object (`WritersKnown`);
- a purge that found no lease still good and no drain finds it so for good (`Quiet`),
  because a revoked binding gives none; each of its steps therefore stays done
  (`PurgersKnow`, `PurgedForGood`), the deletion of the user row excepted. That is the
  whole argument for a purge made of six separate operations;
- before the activation nothing exists that a revocation could miss
  (`NothingStarted`, `NotProvisioned`): a delivery that finds no binding may
  acknowledge, since the exchange that provisions one afterwards finds the tombstone
  and revokes it (`RevokedForGood`).

The user row has an invariant of its own, `UserInv`, inductive relative to `BInv`:
once a purge has deleted the row, only a request that lost its lease can bring it
back, and since the binding is revoked by then, such a request finds that out at its
recheck and deletes the row, or is killed before. `PurgedMeansGone` says exactly that
of the user. The upsert itself (`runtimePrincipalService.ts:55`), conditional on neither
the lease nor the account's state, may even set the row a purge has just fenced back
to active; the purge then gives up and is delivered again. The purge
deletes the session rows of a creator that was evicted as well, but such a creator may
insert one later: `PurgedMeansGone` excepts it, and `runtime_purge_waits` shows why.

`RuntimePublicationProofs` proves `PublicationTypeCorrect`, `RevisionsAreUnique`,
`RecordingsAreKept`, `DeclarationsAreTrue` and `FollowUpsArePossible` for every set of
runs, kinds and uploads, from `PubInv`. A run builds on a row it scanned, however old,
and the payload it builds depends on what it finds then; so two runs may build
different payloads of one revision:

- what a run has built continues the row it scanned (`RunFits`, `Fits`), the
  conditional update that stages it holds only while the binding is still that row,
  and a run sends only what is staged or was accepted before. So the control plane
  has the payloads of the past revisions and at most the staged one besides
  (`DeliveredFits`), and one payload per revision follows;
- a recording that a session or a payload names is final (`UploadsFit`), and
  sources are deleted for a payload the control plane has accepted;
- when the drain has run out no write is under way (`DrainFits`), so who settles a
  kind, or reports it, and finds the drain at zero has seen every recording there
  is: the drain alone makes the declarations true. The claims that keep two settlements
  apart are not needed for it, and no part of the invariant is about them;
- each revision after the first settled a kind for good (`StateFits`), so at most
  `1 + Cardinality(Replay)` are ever needed, and the payload the next one builds on is
  kept as long as one is due (`BindingFits`).

The proofs assume of the constants what the modules' `ASSUME`s say (disjoint
workers, a model value outside each set, rows as pairs of event and generation).

Every invariant, action property and refinement that a passing run checks is stated
by a theorem. Only model-checked: the liveness properties (fairness and ENABLED are out
of the prover's reach), which are `EveryResultIsAcknowledged`,
`StartedInterviewIsAnswered`, `AbandonedCopiesArePurged`, `PrivacyRequestCompletes`,
`ClosedJobMediaIsPurged`, `FailedCopiesArePurged` and `PurgeCompletes`; and the
properties that the code does not have (Findings), of which a counterexample is all
there is to show.

## Findings

- `result_acknowledged`: `resultPublisher.ts:783-785` takes every acknowledgement
  for a durable ingestion and deletes the source media. A result that arrives
  while the workspace's deletion is pending is acknowledged as stale with nothing
  stored, and the workspace can still be restored for thirty days.
- `job_retention_kept`: candidates are told that recordings are removed six months
  after the job closes (`aiInterviewConsent.ts:36`). The purge is scheduled after
  the close has committed without looking at the job again
  (`mediaLifecycleService.ts:272`), and cancelled once after a reopening has
  committed (`pipelineService.ts:1208`). When the schedule comes after the
  cancellation, or the cancellation is lost, the recordings of a job that is open
  again fall due; neither the reconciler nor the purge looks at the job then.
- `runtime_purge_waits`: `bindingService.ts:18-20` keeps the session lease beyond the
  creator's time limit "so a privacy purge can never acknowledge while a creator is
  still able to land". An ordinary revocation takes that lease away
  (`revocationService.ts:128-130`), and a privacy revocation after it purges and
  acknowledges while the creator is about to insert its session. The creator deletes
  what it inserted, if it lives to do so.
- `runtime_report_heard`: a publisher run over a binding with a recording pending
  reserves the write drain before it looks whether there is anything to publish
  (`resultPublisher.ts:623`), each minute, for six minutes; the browser's report that
  the recording does not exist is refused while the drain is alive
  (`mediaCompletionService.ts:222`). The report is retried until the seven-day
  deadline, although the upload client expects the server to refuse only what is live
  (`resumableUpload.ts:1287-1290`).

## Not modelled, and the plan

In this order:

1. `EngineHandoff`: the one-time tickets of `engineHandoffService.ts` and
   `handoffAuthTicketService.ts` (generations, consumption by conditional update, the
   mirror in Redis), as a refinement of `SignIn`; and the control plane's record of
   its deliveries (`engineRevocationService.ts`), as the environment of the revokers.
2. A composition of publisher, ingestion and media: `Send` as the delivery that
   `ResultIngestion` answers. With it the link between `MediaIngestion`'s `stream` and
   the reservation becomes a refinement instead of an assumption.
3. Multimodal streams with the retention of observations, intake queue, outboxes,
   candidate retention and workspace purge, invitations of AI rounds, the recovery of
   feedback.
4. Coupon reservations, paid interview launches and the webhook inbox of the
   payments module.

Left out for good: presentation, ranking, mail texts, language-model calls,
authentication, and the consumer modules listed in `PROJECT.json`.
