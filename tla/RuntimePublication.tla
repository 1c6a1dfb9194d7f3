------------------------- MODULE RuntimePublication -------------------------
(***************************************************************************)
(* What happens to a completed runtime interview: its result is published  *)
(* to the control plane in revisions, its replay recordings follow as they *)
(* arrive, and a recording that never comes is declared unavailable.       *)
(*   modules/hire-runtime/services/resultPublisher.ts,                     *)
(*   mediaCompletionService.ts, runtimeWriteFence.ts, with the routes      *)
(*   hire-engine/write-fence and hire-engine/completion-status and the     *)
(*   engine's recordingArtifactService.ts.                                 *)
(*                                                                         *)
(* Several publisher runs, uploads and reports work on one binding; every  *)
(* database operation is a step, and a run works on the row it scanned,    *)
(* however old it is.                                                      *)
(*                                                                         *)
(* Time is counted in ticks, Horizon of which are HIRE_RUNTIME_WRITE_      *)
(* DRAIN_MS.  A request is dead before a drain it set or met has run out,  *)
(* and a capability before the drain recorded with it.                     *)
(***************************************************************************)
EXTENDS Naturals, FiniteSets

CONSTANTS
    Publisher,      \* publisher runs that may overlap
    Replay,         \* replay kinds: camera, screen
    Consent,        \* the sets of kinds a consent version may require
    MaxUploads,     \* bound: uploads the browser attempts
    MaxCore,        \* bound: versions of the engine's feedback
    Horizon,        \* ticks a drain lasts
    Failing,        \* bound: the runs and reports that may be killed or be slow
    None

ASSUME PublicationAssumption ==
    /\ MaxUploads \in Nat
    /\ MaxCore \in Nat
    /\ Horizon \in Nat \ {0}
    /\ IsFiniteSet(Replay)
    /\ Consent \subseteq SUBSET Replay
    /\ Publisher \cap Replay = {}
    /\ Failing \subseteq Publisher \cup Replay
    /\ None \notin Publisher \cup Replay \cup (1 .. MaxUploads)

VARIABLES
    session,    \* InterviewSession: completed, version of the feedback, recording keys
    binding,    \* HireRuntimeBinding
    objects,    \* recordings in the runtime's storage
    late,       \* mediaCompletionDeadlineAt has passed
    pub,        \* publisher runs
    report,     \* reports of the browser that a kind will not come, one per kind
    upload,     \* uploads of the browser
    delivered   \* history: payloads the control plane has accepted

pubVars == <<session, binding, objects, late, pub, report, upload, delivered>>

Upload == 1 .. MaxUploads    \* an upload and the key minted for it, oldest first

\* A result of the given revision: the scorecard's version, the recordings
\* named in its manifest, and what it says of each replay kind.
Payload == [revision : 1 .. Cardinality(Replay) + 2,
            core : 1 .. MaxCore,
            media : SUBSET Upload,
            completion : [Replay -> {"published", "pending", "unavailable", "not_required"}]]

ASSUME NoneIsNoPayload == None \notin Payload

Lifecycle == {"active", "completed", "revoked"}
State == [revision : 0 .. Cardinality(Replay) + 2,
          media : [Replay -> {"absent", "pending", "published", "unavailable"}],
          reported : SUBSET Replay]
Row == [state : State, status : Lifecycle, snapshot : Payload \cup {None}]

PublisherStep == {"claim", "after", "finalize", "reserve", "build", "stage",
                  "reserveSend", "send", "delete", "complete"}
UploadStep == {"reserveMint", "mint", "holding", "uploaded", "reserveAssociate", "associate", "done"}

IdleRun == [pc |-> "idle", row |-> None, payload |-> None, todo |-> {}, defer |-> FALSE]
IdleUpload == [pc |-> "idle", kind |-> None]

PublicationTypeOK ==
    /\ session \in [completed : BOOLEAN, core : 0 .. MaxCore,
                    artifact : [Replay -> Upload \cup {None}]]
    /\ binding \in [required : Consent,
                    state : State,
                    status : Lifecycle,
                    purge : BOOLEAN,
                    snapshot : Payload \cup {None},
                    digest : Payload \cup {None},
                    drain : 0 .. Horizon,
                    claim : [Replay -> Publisher \cup Replay \cup {None}],
                    stale : SUBSET Replay,
                    reserved : SUBSET Upload,
                    capabilities : SUBSET Upload]
    /\ objects \in SUBSET Upload
    /\ late \in BOOLEAN
    /\ pub \in [Publisher -> [pc : {"idle"} \cup PublisherStep,
                              row : Row \cup {None},
                              payload : Payload \cup {None},
                              todo : SUBSET Replay,
                              defer : BOOLEAN]]
    /\ report \in [Replay -> {"idle", "claim", "after", "finalize"}]
    /\ upload \in [Upload -> [pc : {"idle"} \cup UploadStep, kind : Replay \cup {None}]]
    /\ delivered \in SUBSET Payload

Init ==
    /\ session = [completed |-> FALSE, core |-> 0, artifact |-> [k \in Replay |-> None]]
    /\ binding \in [required : Consent, state : {[revision |-> 0, media |-> [k \in Replay |-> "absent"], reported |-> {}]},
                    status : {"active"}, purge : {FALSE}, snapshot : {None}, digest : {None},
                    drain : {0}, claim : {[k \in Replay |-> None]}, stale : {{}},
                    reserved : {{}}, capabilities : {{}}]
    /\ objects = {}
    /\ late = FALSE
    /\ pub = [p \in Publisher |-> IdleRun]
    /\ report = [k \in Replay |-> "idle"]
    /\ upload = [u \in Upload |-> IdleUpload]
    /\ delivered = {}

-----------------------------------------------------------------------------
(* The engine and the lifecycle of the binding. *)

\* The browser saves the interview it has ended.
CompleteSession ==
    /\ ~session.completed
    /\ session' = [session EXCEPT !.completed = TRUE]
    /\ UNCHANGED <<binding, objects, late, pub, report, upload, delivered>>

\* Generated feedback completes the interview that was not yet saved as such.
\* A later generation or save may change the result again.
WriteFeedback ==
    /\ session.core < MaxCore
    /\ session' = [session EXCEPT !.completed = TRUE, !.core = @ + 1]
    /\ UNCHANGED <<binding, objects, late, pub, report, upload, delivered>>

\* Module RuntimeBinding; the purge itself waits for the drain.
Revoke ==
    /\ ~binding.purge
    /\ \E purge \in BOOLEAN :
         /\ binding.status = "revoked" => purge
         /\ binding' = [binding EXCEPT !.status = "revoked", !.purge = purge]
    /\ UNCHANGED <<session, objects, late, pub, report, upload, delivered>>

-----------------------------------------------------------------------------
(* Uploads: two fenced requests, and a transfer straight to storage. *)

Terminal == {"published", "unavailable"}

\* claimRuntimeWriteCapability.
WriteClaimable ==
    /\ ~binding.purge
    /\ \/ binding.status = "active"
       \/ binding.status = "completed" /\ \E k \in Replay : binding.state.media[k] = "pending"

\* assertPostResultReplayWrite, and the scope of a recorded capability.
WriteAdmitted(k) ==
    /\ binding.status = "active" \/ (binding.status = "completed" /\ binding.state.media[k] = "pending")
    /\ ~binding.purge
    /\ binding.state.media[k] # "unavailable"

\* replayReservationStatusScope and replayTerminalClaimScope.
WriteReservable(k) ==
    /\ \/ binding.status = "active" /\ binding.state.media[k] \notin Terminal
       \/ binding.status = "completed" /\ binding.state.media[k] = "pending"
    /\ ~binding.purge
    /\ binding.claim[k] = None \/ k \in binding.stale

UploadStepTo(u, pc) == upload' = [upload EXCEPT ![u].pc = pc]

\* The drain is extended before anything else happens, also for a write that
\* is then refused.
ClaimMint(u, k) ==
    /\ upload[u].pc = "idle"
    /\ u > 1 => upload[u - 1].pc # "idle"
    /\ k \in binding.required
    /\ WriteClaimable
    /\ upload' = [upload EXCEPT ![u] = [pc |-> IF WriteAdmitted(k) THEN "reserveMint" ELSE "done", kind |-> k]]
    /\ binding' = [binding EXCEPT !.drain = Horizon]
    /\ UNCHANGED <<session, objects, late, pub, report, delivered>>

ClaimAssociate(u) ==
    /\ upload[u].pc = "uploaded"
    /\ WriteClaimable
    /\ UploadStepTo(u, IF u \in binding.capabilities /\ WriteAdmitted(upload[u].kind)
                       THEN "reserveAssociate" ELSE "done")
    /\ binding' = [binding EXCEPT !.drain = Horizon]
    /\ UNCHANGED <<session, objects, late, pub, report, delivered>>

ReserveWrite(u) ==
    /\ upload[u].pc \in {"reserveMint", "reserveAssociate"}
    /\ IF WriteReservable(upload[u].kind)
       THEN /\ binding' = [binding EXCEPT !.reserved = @ \cup {u}]
            /\ UploadStepTo(u, IF upload[u].pc = "reserveMint" THEN "mint" ELSE "associate")
       ELSE UploadStepTo(u, "done") /\ UNCHANGED binding
    /\ UNCHANGED <<session, objects, late, pub, report, delivered>>

\* recordRuntimeStorageCapability: the key is minted and recorded.  A request
\* that succeeded then gives its reservation back; to die just
\* before that is like dying before the step.
RecordKey(u) ==
    /\ upload[u].pc = "mint"
    /\ IF WriteAdmitted(upload[u].kind)
       THEN /\ binding' = [binding EXCEPT !.capabilities = @ \cup {u}, !.reserved = @ \ {u},
                                          !.drain = Horizon]
            /\ UploadStepTo(u, "holding")
       ELSE UploadStepTo(u, "done") /\ UNCHANGED binding
    /\ UNCHANGED <<session, objects, late, pub, report, delivered>>

PutObject(u) ==
    /\ upload[u].pc = "holding"
    /\ u \in binding.capabilities
    /\ objects' = objects \cup {u}
    /\ UploadStepTo(u, "uploaded")
    /\ UNCHANGED <<session, binding, late, pub, report, delivered>>

\* associateRecordingArtifact: a newer key replaces an older one, and the
\* object that lost is deleted.
Associate(u) ==
    /\ upload[u].pc = "associate"
    /\ LET k == upload[u].kind
           current == session.artifact[k]
       IN IF current # None /\ current > u
          THEN objects' = objects \ {u} /\ UNCHANGED session
          ELSE /\ session' = [session EXCEPT !.artifact[k] = u]
               /\ objects' = objects \ ({current} \ {u})
    /\ binding' = [binding EXCEPT !.reserved = @ \ {u}]
    /\ UploadStepTo(u, "done")
    /\ UNCHANGED <<late, pub, report, delivered>>

\* The browser or a request dies; its reservation and capability stay.
AbandonUpload(u) ==
    /\ upload[u].pc \notin {"idle", "done"}
    /\ UploadStepTo(u, "done")
    /\ UNCHANGED <<session, binding, objects, late, pub, report, delivered>>

-----------------------------------------------------------------------------
(* terminalizeRuntimeReplayMedia, called by the browser and by the publisher. *)

Staged == binding.snapshot # None /\ binding.snapshot.revision = binding.state.revision + 1

\* Nobody can be writing the kind, and no revision is under way.
NoWriter(k) ==
    /\ binding.drain = 0
    /\ \A u \in binding.capabilities \cup binding.reserved : upload[u].kind # k
    /\ ~Staged

\* The filter the claim and the final update share.
Terminalizable(k, revoked) ==
    /\ binding.state.media[k] \notin Terminal
    /\ NoWriter(k)
    /\ (binding.status = "revoked") = revoked
    /\ ~binding.purge

Claimable(k, revoked) ==
    Terminalizable(k, revoked) /\ (binding.claim[k] = None \/ k \in binding.stale)

Claim(k, t) == [binding EXCEPT !.claim[k] = t, !.stale = @ \ {k}]
Unclaim(k, t) == IF binding.claim[k] = t
                 THEN [binding EXCEPT !.claim[k] = None, !.stale = @ \ {k}]
                 ELSE binding
Unavailable(k) == [binding EXCEPT !.state.media[k] = "unavailable", !.state.reported = @ \ {k},
                                  !.claim[k] = None, !.stale = @ \ {k}]

\* POST completion-status: the browser has nothing to upload of this kind.
StartReport(k) ==
    /\ report[k] = "idle"
    /\ session.completed
    /\ k \in binding.required
    /\ binding.status # "revoked"
    /\ binding.state.media[k] \notin Terminal
    /\ session.artifact[k] = None
    /\ report' = [report EXCEPT ![k] = "claim"]
    /\ UNCHANGED <<session, binding, objects, late, pub, upload, delivered>>

ClaimReport(k) ==
    /\ report[k] = "claim"
    /\ IF Claimable(k, FALSE)
       THEN binding' = Claim(k, k) /\ report' = [report EXCEPT ![k] = "after"]
       ELSE UNCHANGED binding /\ report' = [report EXCEPT ![k] = "idle"]
    /\ UNCHANGED <<session, objects, late, pub, upload, delivered>>

\* A variant for the checks: the recording is not looked for again.
RecheckNothing(k) ==
    /\ report[k] = "after"
    /\ report' = [report EXCEPT ![k] = "finalize"]
    /\ UNCHANGED <<session, binding, objects, late, pub, upload, delivered>>

\* The recording is looked for again under the claim.
RecheckReport(k) ==
    /\ report[k] = "after"
    /\ IF session.artifact[k] = None
       THEN UNCHANGED binding /\ report' = [report EXCEPT ![k] = "finalize"]
       ELSE binding' = Unclaim(k, k) /\ report' = [report EXCEPT ![k] = "idle"]
    /\ UNCHANGED <<session, objects, late, pub, upload, delivered>>

FinalizeReport(k) ==
    /\ report[k] = "finalize"
    /\ binding' = IF binding.claim[k] = k /\ k \notin binding.stale /\ Terminalizable(k, FALSE)
                  THEN Unavailable(k) ELSE Unclaim(k, k)
    /\ report' = [report EXCEPT ![k] = "idle"]
    /\ UNCHANGED <<session, objects, late, pub, upload, delivered>>

AbandonReport(k) ==
    /\ k \in Failing
    /\ report[k] # "idle"
    /\ report' = [report EXCEPT ![k] = "idle"]
    /\ UNCHANGED <<session, binding, objects, late, pub, upload, delivered>>

-----------------------------------------------------------------------------
(* publishRuntimeBindingResult. *)

Pending(state) == {k \in Replay : state.media[k] = "pending"}

\* A variant for the checks: what was reported unavailable is due again.
ReportAgain(state) == {k \in Replay : state.media[k] = "unavailable"}

Unreported(state) == {k \in Replay : state.media[k] = "unavailable"} \ state.reported

IsPublishable(state) ==
    state.revision = 0 \/ Pending(state) \cup Unreported(state) # {}

Step(p, pc) == pub' = [pub EXCEPT ![p].pc = pc]
EndRun(p) == pub' = [pub EXCEPT ![p] = IdleRun]

NextRevision(p) == pub[p].row.state.revision + 1

\* settleKnownExpiredMediaBeforePublish: after the deadline, kinds that nobody
\* may still be uploading are to be declared unavailable first.
Overdue ==
    IF late
    THEN {k \in binding.required : /\ binding.state.media[k] \notin Terminal
                                   /\ \A u \in binding.capabilities : upload[u].kind # k}
    ELSE {}

\* The scan; a reserved payload of the next revision is sent as it is, and a
\* revision after the first needs the payload of the one before.
Scan(p) ==
    /\ pub[p].pc = "idle"
    /\ ~binding.purge
    /\ IsPublishable(binding.state)
    /\ Staged \/ binding.state.revision = 0 \/ binding.snapshot # None
    /\ LET row == [state |-> binding.state, status |-> binding.status, snapshot |-> binding.snapshot]
           run == [IdleRun EXCEPT !.row = row]
       IN pub' = [pub EXCEPT ![p] =
                    IF Staged THEN [run EXCEPT !.pc = "reserveSend", !.payload = binding.snapshot]
                    ELSE IF Overdue = {} THEN [run EXCEPT !.pc = "reserve"]
                    ELSE [run EXCEPT !.pc = "claim", !.todo = Overdue]]
    /\ UNCHANGED <<session, binding, objects, late, report, upload, delivered>>

\* One kind at a time, in an arbitrary fixed order.  A kind that was settled, or
\* that somebody may still be writing, puts the publication off: the row the
\* run works on is old, and its drain must not be extended.
Current(p) == CHOOSE k \in pub[p].todo : TRUE
Settled(p, defer) ==
    LET todo == pub[p].todo \ {Current(p)}
        put == defer \/ pub[p].defer
    IN IF todo = {} /\ put THEN EndRun(p)
       ELSE pub' = [pub EXCEPT ![p].pc = IF todo = {} THEN "reserve" ELSE "claim",
                               ![p].todo = todo,
                               ![p].defer = put]

\* A recording that is there is published, not declared unavailable.
SkipArtifact(p) ==
    /\ pub[p].pc = "claim"
    /\ session.artifact[Current(p)] # None
    /\ Settled(p, FALSE)
    /\ UNCHANGED <<session, binding, objects, late, report, upload, delivered>>

ClaimSettle(p) ==
    /\ pub[p].pc = "claim"
    /\ session.artifact[Current(p)] = None
    /\ IF Claimable(Current(p), pub[p].row.status = "revoked")
       THEN binding' = Claim(Current(p), p) /\ Step(p, "after")
       ELSE UNCHANGED binding /\ Settled(p, TRUE)
    /\ UNCHANGED <<session, objects, late, report, upload, delivered>>

RecheckSettle(p) ==
    /\ pub[p].pc = "after"
    /\ IF session.artifact[Current(p)] = None
       THEN UNCHANGED binding /\ Step(p, "finalize")
       ELSE binding' = Unclaim(Current(p), p) /\ Settled(p, TRUE)
    /\ UNCHANGED <<session, objects, late, report, upload, delivered>>

\* Compared with the time the settlement began, its own claim never expires.
FinalizeSettle(p) ==
    /\ pub[p].pc = "finalize"
    /\ LET k == Current(p)
       IN binding' = IF binding.claim[k] = p /\ Terminalizable(k, pub[p].row.status = "revoked")
                     THEN Unavailable(k) ELSE Unclaim(k, p)
    /\ Settled(p, TRUE)
    /\ UNCHANGED <<session, objects, late, report, upload, delivered>>

\* reserveRuntimePublishDrain, before the session is read and before the send.
ReserveDrain(p) ==
    /\ pub[p].pc \in {"reserve", "reserveSend"}
    /\ IF binding.purge
       THEN EndRun(p) /\ UNCHANGED binding
       ELSE /\ binding' = [binding EXCEPT !.drain = Horizon]
            /\ Step(p, IF pub[p].pc = "reserve" THEN "build" ELSE "send")
    /\ UNCHANGED <<session, objects, late, report, upload, delivered>>

\* The recordings a new manifest would name.
Manifest(p) ==
    {session.artifact[k] : k \in {l \in binding.required : pub[p].row.state.media[l] \notin Terminal}} \ {None}

Completion(state, media) ==
    [k \in Replay |-> IF k \notin binding.required THEN "not_required"
                      ELSE IF \E u \in media : upload[u].kind = k THEN "published"
                      ELSE IF state.media[k] \in Terminal THEN state.media[k] ELSE "pending"]

\* The session is read and every object hashed.  Nothing is built before the
\* feedback, nor without anything to say, nor from an object that is gone; the
\* scorecard of a later revision is that of the revision before.
Build(p) ==
    LET row == pub[p].row
        media == Manifest(p)
        nothing == row.state.revision > 0 /\ media = {} /\ Unreported(row.state) = {}
    IN /\ pub[p].pc = "build"
       /\ IF session.core = 0 \/ nothing \/ ~(media \subseteq objects)
          THEN EndRun(p)
          ELSE pub' = [pub EXCEPT ![p].pc = "stage",
                                  ![p].payload = [revision |-> NextRevision(p),
                                                  core |-> IF row.snapshot = None THEN session.core
                                                           ELSE row.snapshot.core,
                                                  media |-> media,
                                                  completion |-> Completion(row.state, media)]]
       /\ UNCHANGED <<session, binding, objects, late, report, upload, delivered>>

\* A variant for the checks: the state is compared, the snapshot is not.
StageOver(p) ==
    /\ pub[p].pc = "stage"
    /\ IF binding.state = pub[p].row.state /\ ~binding.purge
       THEN binding' = [binding EXCEPT !.snapshot = pub[p].payload] /\ Step(p, "reserveSend")
       ELSE EndRun(p) /\ UNCHANGED binding
    /\ UNCHANGED <<session, objects, late, report, upload, delivered>>

\* reserveResultPayloadSnapshot: one run defines the revision; the others send
\* what it reserved, or give up when the state they scanned is gone.
Stage(p) ==
    /\ pub[p].pc = "stage"
    /\ \/ /\ binding.state = pub[p].row.state /\ ~binding.purge
          /\ binding.snapshot = pub[p].row.snapshot
          /\ binding' = [binding EXCEPT !.snapshot = pub[p].payload]
          /\ Step(p, "reserveSend")
       \/ /\ binding.state = pub[p].row.state /\ ~binding.purge
          /\ binding.snapshot # pub[p].row.snapshot
          /\ IF Staged
             THEN pub' = [pub EXCEPT ![p].pc = "reserveSend", ![p].payload = binding.snapshot]
             ELSE EndRun(p)
          /\ UNCHANGED binding
       \/ /\ binding.state # pub[p].row.state \/ binding.purge
          /\ EndRun(p)
          /\ UNCHANGED binding
    /\ UNCHANGED <<session, objects, late, report, upload, delivered>>

\* publishResultToControl: the control plane copies every recording before it
\* accepts, and answers a payload it knows as a duplicate.
Send(p) ==
    LET payload == pub[p].payload
    IN /\ pub[p].pc = "send"
       /\ \/ /\ payload \in delivered \/ payload.media \subseteq objects
             /\ delivered' = delivered \cup {payload}
             /\ Step(p, "delete")
          \/ /\ payload \notin delivered /\ ~(payload.media \subseteq objects)
             /\ EndRun(p)
             /\ UNCHANGED delivered
       /\ UNCHANGED <<session, binding, objects, late, report, upload>>

\* A variant for the checks: whatever the session names by now is deleted.
DeleteNamed(p) ==
    /\ pub[p].pc = "delete"
    /\ objects' = objects \ {session.artifact[k] : k \in Replay}
    /\ Step(p, "complete")
    /\ UNCHANGED <<session, binding, late, report, upload, delivered>>

\* deleteRuntimeMediaManifest.
DeleteSources(p) ==
    /\ pub[p].pc = "delete"
    /\ objects' = objects \ pub[p].payload.media
    /\ Step(p, "complete")
    /\ UNCHANGED <<session, binding, late, report, upload, delivered>>

\* A variant for the checks: the payload's own word is kept for each kind.
PublishedVerbatim(p) ==
    LET payload == pub[p].payload
    IN [binding EXCEPT
          !.state = [revision |-> payload.revision, media |-> payload.completion,
                     reported |-> {k \in Replay : payload.completion[k] = "unavailable"}],
          !.status = "completed",
          !.digest = payload,
          !.snapshot = payload]

\* The published state, unless the binding is not the one that was scanned.
\* The payload is kept while a replay kind is pending.
Published(p) ==
    LET payload == pub[p].payload
        state == pub[p].row.state
        media == [k \in Replay |->
                    IF k \notin binding.required \/ state.media[k] \in Terminal THEN state.media[k]
                    ELSE IF payload.completion[k] = "published" THEN "published" ELSE "pending"]
        told == {k \in Replay : payload.completion[k] = "unavailable"}
    IN [binding EXCEPT
          !.state = [revision |-> payload.revision, media |-> media, reported |-> @.reported \cup told],
          !.status = IF pub[p].row.status = "revoked" THEN @ ELSE "completed",
          !.digest = payload,
          !.snapshot = IF \E k \in Replay : media[k] = "pending" THEN payload ELSE None]

Complete(p) ==
    /\ pub[p].pc = "complete"
    /\ binding' = IF /\ binding.state = pub[p].row.state
                     /\ binding.status = pub[p].row.status
                     /\ ~binding.purge
                     /\ binding.snapshot = pub[p].payload
                  THEN Published(p) ELSE binding
    /\ EndRun(p)
    /\ UNCHANGED <<session, objects, late, report, upload, delivered>>

\* A run is killed, or one of its calls fails, or its answer is lost.
AbortRun(p) ==
    /\ p \in Failing
    /\ pub[p].pc # "idle"
    /\ EndRun(p)
    /\ UNCHANGED <<session, binding, objects, late, report, upload, delivered>>

-----------------------------------------------------------------------------
(* Time. *)

\* Nothing is in progress that a running drain must outlive.
Quiet ==
    /\ binding.capabilities = {}
    /\ \A u \in Upload : upload[u].pc \in {"idle", "holding", "uploaded", "done"}
    /\ \A k \in Replay : report[k] \notin {"after", "finalize"}
    /\ \A p \in Publisher : pub[p].pc \notin {"after", "finalize"}

Tick ==
    /\ binding.drain > 0
    /\ binding.drain = 1 => Quiet
    /\ binding' = [binding EXCEPT !.drain = @ - 1]
    /\ UNCHANGED <<session, objects, late, pub, report, upload, delivered>>

\* The step a claim's owner is at.
OwnerStep(t) == IF t \in Replay THEN report[t] ELSE pub[t].pc

\* What a dead request left behind runs out, and the claim of a slow one.
Expire ==
    /\ \/ \E u \in binding.capabilities : binding' = [binding EXCEPT !.capabilities = @ \ {u}]
       \/ \E u \in binding.reserved :
             upload[u].pc = "done" /\ binding' = [binding EXCEPT !.reserved = @ \ {u}]
       \/ \E k \in Replay \ binding.stale :
             /\ binding.claim[k] # None
             /\ binding.claim[k] \in Failing \/ OwnerStep(binding.claim[k]) \notin {"after", "finalize"}
             /\ binding' = [binding EXCEPT !.stale = @ \cup {k}]
    /\ UNCHANGED <<session, objects, late, pub, report, upload, delivered>>

\* mediaCompletionDeadlineAt is set with the first revision.
DeadlinePasses ==
    /\ ~late
    /\ binding.state.revision > 0
    /\ late' = TRUE
    /\ UNCHANGED <<session, binding, objects, pub, report, upload, delivered>>

EngineNext == CompleteSession \/ WriteFeedback

UploadNext(u) ==
    \/ \E k \in Replay : ClaimMint(u, k)
    \/ ReserveWrite(u) \/ RecordKey(u) \/ PutObject(u)
    \/ ClaimAssociate(u) \/ Associate(u) \/ AbandonUpload(u)

ReportNext(k) == StartReport(k) \/ ClaimReport(k) \/ RecheckReport(k) \/ FinalizeReport(k)

SettleNext(p) ==
    \/ SkipArtifact(p) \/ ClaimSettle(p) \/ RecheckSettle(p) \/ FinalizeSettle(p)

RunNext(p) ==
    \/ Scan(p) \/ SettleNext(p) \/ ReserveDrain(p) \/ Build(p) \/ Stage(p)
    \/ Send(p) \/ DeleteSources(p) \/ Complete(p)

Next ==
    \/ EngineNext \/ Revoke
    \/ \E u \in Upload : UploadNext(u)
    \/ \E k \in Replay : ReportNext(k) \/ AbandonReport(k)
    \/ \E p \in Publisher : RunNext(p) \/ AbortRun(p)
    \/ Tick \/ Expire \/ DeadlinePasses

Spec == Init /\ [][Next]_pubVars

\* The publisher's schedule, the browser's retries, the clock and the engine go
\* on.  Nothing is assumed of the deadline, which is seven days away, nor of
\* the uploads.
Fairness ==
    /\ \A p \in Publisher : WF_pubVars(RunNext(p))
    /\ \A k \in Replay : WF_pubVars(ReportNext(k))
    /\ WF_pubVars(EngineNext)
    /\ WF_pubVars(Tick)
    /\ WF_pubVars(Expire)

FairSpec == Spec /\ Fairness

-----------------------------------------------------------------------------
(* Properties. *)

\* Runs may build the payload of a revision from different states, but the
\* control plane is given one payload per revision, without a gap, and every
\* revision carries the scorecard of the first.
OnePayloadPerRevision ==
    \A x, y \in delivered :
        /\ x.revision = y.revision => x = y
        /\ x.core = y.core
        /\ x.revision > 1 => \E z \in delivered : z.revision = x.revision - 1

\* A recording the session names is never lost: it is in the runtime's storage
\* or the control plane has copied it.
NoRecordingLost ==
    \A k \in Replay : session.artifact[k] # None =>
        \/ session.artifact[k] \in objects
        \/ \E x \in delivered : session.artifact[k] \in x.media

\* A kind is declared unavailable only for good reason: no recording of it is
\* known, none is being associated, and none was ever published.
UnavailableIsTrue ==
    \A k \in Replay : binding.state.media[k] = "unavailable" =>
        /\ session.artifact[k] = None
        /\ \A u \in Upload : upload[u].kind = k => upload[u].pc # "associate"
        /\ \A x \in delivered : x.completion[k] # "published"

\* Each later revision settles a kind, so their number is bounded: the limit
\* MAX_RESULT_REVISION is never what stops a pending kind.  And the payload a
\* later revision is built on is at hand whenever one is still due.
FollowUpPossible ==
    LET state == binding.state
    IN /\ state.revision <= 1 + Cardinality({k \in Replay : state.media[k] \in Terminal})
       /\ state.revision > 0 /\ IsPublishable(state) =>
             /\ binding.snapshot # None
             /\ \/ binding.snapshot = binding.digest
                \/ Staged /\ binding.snapshot.core = binding.digest.core

\* Once the interview is over and nothing of a required kind exists or can
\* arrive, the browser's report that it will not come is accepted, so that the
\* candidate may leave.  The publisher's own drains refuse it for as long as
\* publication is due.
ReportIsHeard ==
    \A k \in Replay :
        (/\ session.completed
         /\ k \in binding.required
         /\ session.artifact[k] = None
         /\ objects = {} /\ binding.capabilities = {} /\ binding.reserved = {}
         /\ \A u \in Upload : upload[u].pc = "done")
            ~> (binding.state.media[k] \in Terminal \/ binding.status = "revoked")
=============================================================================
