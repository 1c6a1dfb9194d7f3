---------------------------- MODULE MediaIngestion ----------------------------
(***************************************************************************)
(* The media of one kind of an interview attempt on their way into the     *)
(* control plane: modules/hire/services/runtimeMediaIngestionService.ts    *)
(* as resultIngestionService.ts calls it, over the rows and objects of     *)
(* module MediaStore, with the hourly purge, a verified deletion of the    *)
(* candidate and the deletion and recovery of the workspace.               *)
(*                                                                         *)
(* The reservation (module IngestionReservation) is reduced to what it     *)
(* promises: events are settled one after the other, by the owner.  The    *)
(* job stays open here; see module JobMediaRetention.                      *)
(***************************************************************************)
EXTENDS MediaStore, FiniteSets

CONSTANTS
    Request,        \* concurrent deliveries
    Purger,         \* overlapping cron runs
    MaxEvent,       \* bound: result events of the attempt
    MaxGeneration,  \* bound: rows of one event (100 in the code)
    MaxUploads,     \* bound: uploads on their way at a time
    Lifecycle,      \* bound: what may happen besides ("privacy", "workspace", "bad_source")
    Content,        \* what each event's artifact holds (its checksum)
    NoRequest

Event == 1 .. MaxEvent

\* A row is known by its event and its generation, the checkpoint key.
ASSUME IngestionAssumption ==
    /\ MaxEvent \in Nat /\ MaxGeneration \in Nat /\ MaxUploads \in Nat
    /\ Row = Event \X (0 .. MaxGeneration)
    /\ Worker = Request \cup Purger
    /\ Request \cap Purger = {}
    /\ NoRequest \notin Request
    /\ DOMAIN Content = Event

VARIABLES
    stream,     \* the reservation: its owner, events settled, last one processed
    request,    \* the deliveries
    uploads,    \* conditional writes on their way to the store
    workspace,
    privacy     \* the candidate's verified deletion request

contextVars == <<workspace, privacy>>
vars == <<storeVars, stream, request, uploads, contextVars>>

\* token: the lease it was granted, or read, is still the row's.
\* then: where a delivery goes on when it has cleaned up.
RequestRecord == [pc : {"idle", "look", "reuse", "reclaim", "create", "verify", "put", "putting",
                        "prepared", "reused", "quarantine", "sealing", "fenced", "settle"},
                  event : 0 .. MaxEvent,
                  row : Row \cup {NoRow},
                  token : BOOLEAN,
                  then : {"none", "look", "fail", "stale", "discard"}]

Idle == [pc |-> "idle", event |-> 0, row |-> NoRow, token |-> FALSE, then |-> "none"]

MediaTypeOK ==
    /\ StoreTypeOK
    /\ stream \in [owner : Request \cup {NoRequest}, settled : 0 .. MaxEvent, shown : 0 .. MaxEvent]
    /\ request \in [Request -> RequestRecord]
    /\ uploads \in SUBSET [row : Row, content : {"data", "wrong"}, by : Request \cup {NoRequest}]
    /\ workspace \in {"active", "deletion_pending"}
    /\ privacy \in {"none", "processing", "completed"}

MediaInit ==
    /\ StoreInit
    /\ stream = [owner |-> NoRequest, settled |-> 0, shown |-> 0]
    /\ request = [h \in Request |-> Idle]
    /\ uploads = {}
    /\ workspace = "active"
    /\ privacy = "none"

\* Variant with a bug: the candidate's deletion is no fence.
FencedByWorkspace == IF workspace # "active" THEN "stale" ELSE "none"

Fenced ==
    IF workspace # "active" THEN "stale"
    ELSE IF privacy # "none" THEN "discard" ELSE "none"

\* The delivery goes on.
Go(h, pc, r, token, then) ==
    request' = [request EXCEPT ![h] =
        [pc |-> pc, event |-> request[h].event, row |-> r, token |-> token, then |-> then]]

-----------------------------------------------------------------------------
(* Finding or reserving a row. *)

IsNextRow(e, r) ==
    /\ r[1] = e
    /\ asset[r].state = "absent"
    /\ \A k \in Row : k[1] = e /\ k[2] < r[2] => asset[k].state \notin {"absent", "staging"}

IsStaging(e, r) == r[1] = e /\ asset[r].state = "staging"

\* The owner of the reservation starts, also over from a dead one, and looks for
\* the event's latest checkpoint, unless it has already read of the deletion.
Begin(h) ==
    LET e == stream.settled + 1 IN
    /\ request[h].pc = "idle"
    /\ e \in Event
    /\ stream' = [owner |-> h, settled |-> stream.settled, shown |-> stream.shown]
    /\ \E r \in Row : \E found \in BOOLEAN :
         /\ IF found THEN IsStaging(e, r) ELSE IsNextRow(e, r)
         /\ request' = [request EXCEPT ![h] =
              [pc |-> IF found THEN "reclaim" ELSE "reuse",
               event |-> e, row |-> r, token |-> found, then |-> "none"]]
    /\ UNCHANGED <<storeVars, uploads, contextVars>>

DiscardAtOnce(h) ==
    LET e == stream.settled + 1 IN
    /\ request[h].pc = "idle"
    /\ e \in Event
    /\ privacy # "none"
    /\ stream' = [owner |-> h, settled |-> stream.settled, shown |-> stream.shown]
    /\ request' = [request EXCEPT ![h] =
         [pc |-> "settle", event |-> e, row |-> NoRow, token |-> FALSE, then |-> "discard"]]
    /\ UNCHANGED <<storeVars, uploads, contextVars>>

LookAgain(h) ==
    /\ request[h].pc = "look"
    /\ \E r \in Row :
         \/ IsStaging(request[h].event, r) /\ Go(h, "reclaim", r, TRUE, "none")
         \/ IsNextRow(request[h].event, r) /\ Go(h, "create", r, FALSE, "none")
    /\ UNCHANGED <<storeVars, stream, uploads, contextVars>>

\* Variant with a bug: whatever is shown is taken for the same bytes.
ReusableAnyContent(e, r) ==
    /\ asset[r].state = "ready"
    /\ asset[r].active
    /\ asset[r].reason # "privacy_request"
    /\ ~Due(r)

\* The same bytes, ready to be shown, and not about to be purged.
Reusable(e, r) ==
    /\ asset[r].state = "ready"
    /\ asset[r].active
    /\ asset[r].reason # "privacy_request"
    /\ ~Due(r)
    /\ Content[r[1]] = Content[e]

\* findReusableRuntimeMedia: a transaction that only reads the row.
Reuse(h) ==
    /\ request[h].pc = "reuse"
    /\ IF Fenced # "none" THEN Go(h, "fenced", NoRow, FALSE, Fenced)
       ELSE \/ \E r \in Row : Reusable(request[h].event, r) /\ Go(h, "reused", r, FALSE, "none")
            \/ /\ \A r \in Row : ~Reusable(request[h].event, r)
               /\ IF request[h].row[2] = 0 THEN Go(h, "look", NoRow, FALSE, "none")
                                           ELSE Go(h, "create", request[h].row, FALSE, "none")
    /\ UNCHANGED <<storeVars, stream, uploads, contextVars>>

\* reserveRuntimeMediaIngestion for a new row; its key is unique.
CreateRow(h) ==
    LET r == request[h].row IN
    /\ request[h].pc = "create"
    /\ IF Fenced # "none" THEN Go(h, "fenced", NoRow, FALSE, Fenced) /\ asset' = asset
       ELSE IF asset[r].state # "absent" THEN Go(h, "look", NoRow, FALSE, "none") /\ asset' = asset
       ELSE /\ asset' = [asset EXCEPT ![r] = Asset("staging", Never, "none")]
            /\ Go(h, "verify", r, TRUE, "none")
    /\ UNCHANGED <<object, purging, lateSeals, elapsed, stream, uploads, contextVars>>

\* reserveRuntimeMediaIngestion for a row in staging: the new lease takes the
\* place of the old, live or not.
ReclaimRow(h) ==
    LET r == request[h].row IN
    /\ request[h].pc = "reclaim"
    /\ IF Fenced # "none" THEN Go(h, "quarantine", r, request[h].token, Fenced) /\ asset' = asset
       ELSE /\ asset[r].state = "staging"
            /\ asset[r].reason # "privacy_request"
            /\ asset' = [asset EXCEPT ![r] = Asset("staging", Never, "none")]
            /\ request' = [k \in Request |->
                 IF k = h THEN [pc |-> "verify", event |-> request[h].event, row |-> r,
                                token |-> TRUE, then |-> "none"]
                 ELSE [pc |-> request[k].pc, event |-> request[k].event, row |-> request[k].row,
                       token |-> request[k].token /\ request[k].row # r,
                       then |-> request[k].then]]
    /\ UNCHANGED <<object, purging, lateSeals, elapsed, stream, uploads, contextVars>>

-----------------------------------------------------------------------------
(* Copying. *)

\* verifyExistingDestination: the object as it is, or whatever beat the upload.
Verify(h) ==
    LET r == request[h].row IN
    /\ request[h].pc = "verify"
    /\ Go(h, IF object[r] = "data" THEN "prepared" ELSE IF object[r] = "none" THEN "put" ELSE "quarantine",
          r, request[h].token, IF object[r] \in {"wrong", "sealed"} THEN "look" ELSE "none")
    /\ UNCHANGED <<storeVars, stream, uploads, contextVars>>

\* copyAndVerify streams the source, whose bytes may have changed.
Put(h) ==
    LET r == request[h].row IN
    /\ request[h].pc = "put"
    /\ Cardinality(uploads) < MaxUploads
    /\ \E content \in IF "bad_source" \in Lifecycle THEN {"data", "wrong"} ELSE {"data"} :
         uploads' = uploads \cup {[row |-> r, content |-> content, by |-> h]}
    /\ Go(h, "putting", r, request[h].token, "none")
    /\ UNCHANGED <<storeVars, stream, contextVars>>

\* An upload lands if its key is free; its sender, if there still is one, checks
\* the bytes it has sent, or what was there before.
PutIfFree(u) ==
    IF object[u.row] = "none"
    THEN /\ object' = [object EXCEPT ![u.row] = u.content]
         /\ IF u.by \in Request
            THEN Go(u.by, IF u.content = "data" THEN "prepared" ELSE "quarantine", u.row,
                    request[u.by].token, IF u.content = "data" THEN "none" ELSE "fail")
            ELSE request' = request
    ELSE /\ object' = object
         /\ IF u.by \in Request
            THEN Go(u.by, "verify", u.row, request[u.by].token, "none")
            ELSE request' = request

Land(u) ==
    /\ u \in uploads
    /\ uploads' = uploads \ {u}
    /\ PutIfFree(u)
    /\ UNCHANGED <<asset, purging, lateSeals, elapsed, stream, contextVars>>

-----------------------------------------------------------------------------
(* Cleaning up. *)

\* Variant with a bug: no purge reason of its own.
ReasonVerbatim(then) == then

ReasonOf(then) == IF then = "discard" THEN "privacy_request" ELSE "stale_staging"

\* Only the lease that is known may give the row up.
MayQuarantine(h) == asset[request[h].row].state = "staging" /\ request[h].token

\* quarantineAndDeleteFailedCopy: the claim.  When the row is not its any more a
\* delivery that met a fence goes on, any other fails (see Stop).
QuarantineCopy(h) ==
    LET r == request[h].row
        then == request[h].then
    IN
    /\ request[h].pc = "quarantine"
    /\ \/ /\ MayQuarantine(h)
          /\ asset' = [asset EXCEPT ![r] = Claimed(h, 0, ReasonOf(then))]
          /\ StartSeal(h, r)
          /\ Go(h, "sealing", r, FALSE, then)
       \/ /\ ~MayQuarantine(h)
          /\ then \in {"stale", "discard"}
          /\ Go(h, "fenced", NoRow, FALSE, then)
          /\ UNCHANGED <<asset, purging>>
    /\ UNCHANGED <<object, lateSeals, elapsed, stream, uploads, contextVars>>

SealCopy(h) == SealObject(h) /\ UNCHANGED <<stream, request, uploads, contextVars>>

FinishCleanup(h) ==
    /\ request[h].pc = "sealing"
    /\ SettlePurge(h) \/ FailPurge(h, ReasonOf(request[h].then))
    /\ IF request[h].then = "fail" THEN request' = [request EXCEPT ![h] = Idle]
       ELSE IF request[h].then = "look" THEN Go(h, "look", NoRow, FALSE, "none")
       ELSE Go(h, "fenced", NoRow, FALSE, request[h].then)
    /\ stream' = IF request[h].then = "fail" /\ stream.owner = h
                 THEN [owner |-> NoRequest, settled |-> stream.settled, shown |-> stream.shown]
                 ELSE stream
    /\ UNCHANGED <<uploads, contextVars>>

\* Row r is set aside by a transaction that met a fence: a staged copy is given
\* up, and behind a deletion also what is shown.
SetAside(r, then) ==
    IF asset[r].state = "staging" /\ (then = "discard" \/ asset[r].reason # "privacy_request")
    THEN Asset("purge_failed", 0, ReasonOf(then))
    ELSE IF asset[r].state = "ready" /\ then = "discard"
    THEN [state |-> "ready", active |-> FALSE, lease |-> asset[r].lease,
          due |-> 0, reason |-> "privacy_request", claim |-> asset[r].claim]
    ELSE asset[r]

\* quarantineRuntimeMediaCheckpoints: every row of the event.
SetEventAside(h) ==
    LET then == request[h].then IN
    /\ request[h].pc = "fenced"
    /\ asset' = [r \in Row |-> IF r[1] = request[h].event THEN SetAside(r, then) ELSE asset[r]]
    /\ Go(h, "settle", NoRow, FALSE, then)
    /\ UNCHANGED <<object, purging, lateSeals, elapsed, stream, uploads, contextVars>>

-----------------------------------------------------------------------------
(* The end of a delivery. *)

Settled(e, shown) == [owner |-> NoRequest, settled |-> e, shown |-> shown]

\* completeResultAsStale and discardResultBehindPrivacyTombstone.
Settle(h) ==
    LET then == request[h].then IN
    /\ request[h].pc = "settle"
    /\ stream.owner = h
    /\ asset' = IF request[h].row = NoRow THEN asset
                ELSE [asset EXCEPT ![request[h].row] = SetAside(request[h].row, then)]
    /\ stream' = Settled(request[h].event, stream.shown)
    /\ request' = [request EXCEPT ![h] = Idle]
    /\ UNCHANGED <<object, purging, lateSeals, elapsed, uploads, contextVars>>

\* The terminal transaction meets a fence, or reused media that changed.
Barred(h) ==
    /\ request[h].pc \in {"prepared", "reused"}
    /\ \/ Fenced # "none" /\ Go(h, "settle", request[h].row, FALSE, Fenced)
       \/ /\ Fenced = "none"
          /\ request[h].pc = "reused"
          /\ ~Reusable(request[h].event, request[h].row)
          /\ Go(h, "settle", request[h].row, FALSE, "stale")
    /\ UNCHANGED <<storeVars, stream, uploads, contextVars>>

\* Variant with a bug: the row may have been given up meanwhile.
ActivatableUnlessPurged(h) == asset[request[h].row].state # "purged"

Activatable(h) ==
    /\ asset[request[h].row].state = "staging"
    /\ asset[request[h].row].reason # "privacy_request"
    /\ request[h].token
    /\ asset[request[h].row].lease = "live"

\* activateRuntimeMediaArtifacts: the copy takes the place of what is shown.
Activate(h) ==
    LET r == request[h].row IN
    /\ request[h].pc = "prepared"
    /\ stream.owner = h
    /\ Fenced = "none"
    /\ Activatable(h)
    /\ asset' = [k \in Row |->
         IF k = r THEN Asset("ready", Never, "none")
         ELSE IF asset[k].active
         THEN [state |-> asset[k].state, active |-> FALSE, lease |-> asset[k].lease,
               due |-> 0, reason |-> "replaced", claim |-> asset[k].claim]
         ELSE asset[k]]
    /\ stream' = Settled(request[h].event, request[h].event)
    /\ request' = [request EXCEPT ![h] = Idle]
    /\ UNCHANGED <<object, purging, lateSeals, elapsed, uploads, contextVars>>

\* activateRuntimeMediaArtifacts with reused media: they are kept for good.
Retain(h) ==
    LET r == request[h].row IN
    /\ request[h].pc = "reused"
    /\ stream.owner = h
    /\ Fenced = "none"
    /\ Reusable(request[h].event, r)
    /\ asset' = [asset EXCEPT ![r] =
         [state |-> asset[r].state, active |-> asset[r].active, lease |-> asset[r].lease,
          due |-> Never, reason |-> "none", claim |-> asset[r].claim]]
    /\ stream' = Settled(request[h].event, request[h].event)
    /\ request' = [request EXCEPT ![h] = Idle]
    /\ UNCHANGED <<object, purging, lateSeals, elapsed, uploads, contextVars>>

\* The delivery fails, is killed, or loses an answer; its upload, its seal and
\* its lease outlive it.
Stop(h) ==
    /\ request[h].pc # "idle"
    /\ request' = [request EXCEPT ![h] = Idle]
    /\ stream' = [owner |-> IF stream.owner = h THEN NoRequest ELSE stream.owner,
                  settled |-> stream.settled, shown |-> stream.shown]
    /\ uploads' = {[row |-> u.row, content |-> u.content,
                    by |-> IF u.by = h THEN NoRequest ELSE u.by] : u \in uploads}
    /\ IF purging[h] = NotPurging THEN UNCHANGED storeVars ELSE KillPurge(h)
    /\ UNCHANGED contextVars

DeliveryStep(h) ==
    \/ Begin(h)
    \/ DiscardAtOnce(h)
    \/ LookAgain(h)
    \/ Reuse(h)
    \/ CreateRow(h)
    \/ ReclaimRow(h)
    \/ Verify(h)
    \/ Put(h)
    \/ QuarantineCopy(h)
    \/ SealCopy(h)
    \/ FinishCleanup(h)
    \/ SetEventAside(h)
    \/ Settle(h)
    \/ Barred(h)
    \/ Activate(h)
    \/ Retain(h)
    \/ Stop(h)

-----------------------------------------------------------------------------
(* The clock, the purge, and what recruiters and candidates do. *)

\* The hour of row r's ingestion lease has passed.
LeaseExpires(r) ==
    /\ asset[r].lease = "live"
    /\ asset' = [asset EXCEPT ![r] =
         [state |-> asset[r].state, active |-> asset[r].active, lease |-> "expired",
          due |-> asset[r].due, reason |-> asset[r].reason, claim |-> asset[r].claim]]
    /\ UNCHANGED <<object, purging, lateSeals, elapsed, stream, request, uploads, contextVars>>

\* applyVerifiedHirePrivacyRequest: every row that is not purged is due at once.
DeleteCandidate ==
    /\ "privacy" \in Lifecycle
    /\ privacy = "none"
    /\ privacy' = "processing"
    /\ asset' = [r \in Row |->
         IF asset[r].state \in {"absent", "purged"} THEN asset[r]
         ELSE [state |-> asset[r].state, active |-> FALSE, lease |-> asset[r].lease,
               due |-> 0, reason |-> "privacy_request", claim |-> asset[r].claim]]
    /\ UNCHANGED <<object, purging, lateSeals, elapsed, stream, request, uploads, workspace>>

\* Variant with a bug: claims in progress are taken for done.
ErasedOrClaimed ==
    \A r \in Row : asset[r].state \in {"absent", "purge_claimed", "purged"} /\ asset[r].lease = "none"

AllErased == \A r \in Row : asset[r].state \in {"absent", "purged"} /\ asset[r].lease = "none"

\* completeSatisfiedPrivacyRequests
CompletePrivacyRequest ==
    /\ privacy = "processing"
    /\ AllErased
    /\ privacy' = "completed"
    /\ UNCHANGED <<storeVars, stream, request, uploads, workspace>>

DeleteOrRestoreWorkspace ==
    /\ "workspace" \in Lifecycle
    /\ workspace' = IF workspace = "active" THEN "deletion_pending" ELSE "active"
    /\ UNCHANGED <<storeVars, stream, request, uploads, privacy>>

PurgeStep ==
    /\ SweepStep \/ \E w \in Purger : CronStep(w)
    /\ UNCHANGED <<stream, request, uploads, contextVars>>

MediaNext ==
    \/ \E h \in Request : DeliveryStep(h)
    \/ \E u \in uploads : Land(u)
    \/ \E r \in Row : LeaseExpires(r)
    \/ PurgeStep
    \/ DeleteCandidate
    \/ CompletePrivacyRequest
    \/ DeleteOrRestoreWorkspace

MediaSpec == MediaInit /\ [][MediaNext]_vars

\* The purge runs every hour; a row whose purge is tried again and again is
\* claimed, sealed and settled some time before its claim is recovered.  Nothing
\* is assumed of the deliveries.
Rest == UNCHANGED <<stream, request, uploads, contextVars>>

PurgeFairness ==
    /\ \A r \in Row :
         /\ WF_vars(LeaseExpires(r))
         /\ WF_vars(MarkStale(r) /\ Rest)
         /\ WF_vars(RecoverClaim(r) /\ Rest)
         /\ SF_vars((\E w \in Purger : ClaimDue(w, r)) /\ Rest)
         /\ SF_vars((\E w \in Purger : purging[w].row = r /\ HoldsClaim(w) /\ SealObject(w)) /\ Rest)
         /\ SF_vars((\E w \in Purger : purging[w].row = r /\ HoldsClaim(w) /\ SettlePurge(w)) /\ Rest)
    /\ \A w \in Purger : WF_vars((SettlePurge(w) \/ FailPurge(w, "none")) /\ Rest)
    /\ WF_vars(CompletePrivacyRequest)

FairMediaSpec == MediaSpec /\ PurgeFairness

-----------------------------------------------------------------------------
(* Properties. *)

\* Recruiters see at most one copy, and its bytes are there and verified: neither
\* a copy that went wrong nor one a purge is about to seal.
VisibleIsVerified ==
    \A r \in Row : asset[r].active =>
        /\ asset[r].state = "ready"
        /\ object[r] = "data"
        /\ r \notin lateSeals
        /\ \A w \in Worker : purging[w].row # r
        /\ \A k \in Row \ {r} : ~asset[k].active

\* As long as the candidate has not been deleted, the media of the result that
\* was processed last can be seen.
LatestMediaVisible ==
    privacy = "none" /\ stream.shown > 0 =>
        \E r \in Row : asset[r].active /\ Content[r[1]] = Content[stream.shown]

\* A privacy request is completed only when none of the candidate's bytes are
\* left, and none that are still being sent can arrive.
PrivacyRequestErases ==
    privacy = "completed" =>
        \A r \in Row : /\ object[r] \in {"none", "sealed"}
                       /\ object[r] = "none" => \A u \in uploads : u.row # r

\* What the state of a row means to those the media are of.
CustodyOf == [absent |-> "none", staging |-> "kept", ready |-> "kept",
              purge_claimed |-> "given_up", purge_failed |-> "given_up", purged |-> "erased"]

Custody == INSTANCE MediaCustody WITH
    custody <- [r \in Row |-> CustodyOf[asset[r].state]],
    bytes <- object,
    shown <- {r \in Row : asset[r].active},
    deletion <- privacy

\* Whatever deliveries, purges and late seals do to rows and objects is what
\* module MediaCustody promises: a copy that was given up is neither kept nor shown
\* again, and nothing is reserved or shown behind a deletion.
ImplementsCustody == Custody!CustodySpec

\* Whatever is abandoned of a settled event (a copy a killed delivery left in
\* staging, a replaced recording, a purge that was killed) is erased in the end.
AbandonedCopiesArePurged ==
    \A r \in Row :
        asset[r].state # "absent" /\ ~asset[r].active /\ r[1] <= stream.settled
            ~> asset[r].state = "purged"

\* A privacy request does not stay open for ever.
PrivacyRequestCompletes == privacy = "processing" ~> privacy = "completed"
=============================================================================
