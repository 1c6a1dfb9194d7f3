-------------------------- MODULE JobMediaRetention --------------------------
(***************************************************************************)
(* How long a job's interview media are kept: the schedule, cancel and     *)
(* reconcile functions of modules/hire/services/mediaLifecycleService.ts   *)
(* over the rows of module MediaStore, called by updateJobStatus           *)
(* (pipelineService.ts) after it has committed and by the hourly run.      *)
(*                                                                         *)
(* Media arrive in two steps, a row in staging and its activation; module  *)
(* MediaIngestion has the details.                                         *)
(***************************************************************************)
EXTENDS MediaStore

VARIABLES
    job,            \* whether it is open, and how often it was closed
    reopened,       \* it was reopened before: a client may repeat that request
    scheduling,     \* closings whose call of scheduleHireJobMediaPurge is pending
    cancelling,     \* a call of cancelFutureHireJobMediaPurge is pending
    reconciling     \* the closing the reconciler has read, 0 if none

jobVars == <<job, reopened, scheduling, cancelling, reconciling>>
vars == <<storeVars, jobVars>>

JobTypeOK ==
    /\ StoreTypeOK
    /\ job \in [open : BOOLEAN, closing : 0 .. MaxClosing]
    /\ reopened \in BOOLEAN
    /\ scheduling \in SUBSET (1 .. MaxClosing)
    /\ cancelling \in BOOLEAN
    /\ reconciling \in 0 .. MaxClosing

JobInit ==
    /\ StoreInit
    /\ job = [open |-> TRUE, closing |-> 0]
    /\ reopened = FALSE
    /\ scheduling = {}
    /\ cancelling = FALSE
    /\ reconciling = 0

\* Row r with another deadline.
Rescheduled(r, due, reason) ==
    [state |-> asset[r].state, active |-> asset[r].active, lease |-> asset[r].lease,
     due |-> due, reason |-> reason, claim |-> asset[r].claim]

KeepStore == UNCHANGED <<object, purging, lateSeals, elapsed>>

-----------------------------------------------------------------------------
(* Media arrive (claimHireJobMediaRetention). *)

RetentionEnded == ~job.open /\ job.closing <= elapsed
RetentionDue == IF job.open THEN Never ELSE job.closing
RetentionReason == IF job.open THEN "none" ELSE "job_closed"

StageMedia(r) ==
    /\ asset[r].state = "absent"
    /\ ~RetentionEnded
    /\ asset' = [asset EXCEPT ![r] = Asset("staging", RetentionDue, RetentionReason)]
    /\ KeepStore
    /\ UNCHANGED jobVars

\* The copy is there and is activated, or set aside when the retention has ended.
ActivateMedia(r) ==
    /\ asset[r].state = "staging"
    /\ asset[r].lease = "live"
    /\ asset' = [asset EXCEPT ![r] =
          IF RetentionEnded THEN Asset("purge_failed", 0, "stale_staging")
          ELSE Asset("ready", RetentionDue, RetentionReason)]
    /\ object' = [object EXCEPT ![r] = "data"]
    /\ UNCHANGED <<purging, lateSeals, elapsed, jobVars>>

\* A delivery was killed: its lease runs out.
LeaseExpires(r) ==
    /\ asset[r].lease = "live"
    /\ asset' = [asset EXCEPT ![r] =
          [state |-> asset[r].state, active |-> asset[r].active, lease |-> "expired",
           due |-> asset[r].due, reason |-> asset[r].reason, claim |-> asset[r].claim]]
    /\ KeepStore
    /\ UNCHANGED jobVars

-----------------------------------------------------------------------------
(* The job and the calls that follow its transactions. *)

CloseJob ==
    /\ job.open
    /\ job.closing < MaxClosing
    /\ job' = [open |-> FALSE, closing |-> job.closing + 1]
    /\ scheduling' = scheduling \cup {job.closing + 1}
    /\ UNCHANGED <<storeVars, reopened, cancelling, reconciling>>

ReopenJob ==
    /\ ~job.open
    /\ job' = [open |-> TRUE, closing |-> job.closing]
    /\ reopened' = TRUE
    /\ cancelling' = TRUE
    /\ UNCHANGED <<storeVars, scheduling, reconciling>>

\* A repeated request finds its operation done and repeats what follows: a close
\* for the job as it is now, a reopening without looking at it.
RepeatClose ==
    /\ ~job.open
    /\ job.closing \notin scheduling
    /\ scheduling' = scheduling \cup {job.closing}
    /\ UNCHANGED <<storeVars, job, reopened, cancelling, reconciling>>

RepeatReopen ==
    /\ reopened
    /\ ~cancelling
    /\ cancelling' = TRUE
    /\ UNCHANGED <<storeVars, job, reopened, scheduling, reconciling>>

Schedulable(r) ==
    /\ asset[r].state \notin {"absent", "purged", "purge_claimed"}
    /\ asset[r].reason \in {"none", "job_closed"}

\* Variant with a bug: the six months are not added.
ScheduleAtOnce(k) ==
    /\ k \in scheduling
    /\ scheduling' = scheduling \ {k}
    /\ asset' = [r \in Row |-> IF Schedulable(r) THEN Rescheduled(r, 0, "job_closed") ELSE asset[r]]
    /\ KeepStore
    /\ UNCHANGED <<job, reopened, cancelling, reconciling>>

\* Variant with a bug: a reason the schema does not list.
ScheduleUnlisted(k) ==
    /\ k \in scheduling
    /\ scheduling' = scheduling \ {k}
    /\ asset' = [r \in Row |-> IF Schedulable(r) THEN Rescheduled(r, k, "closed") ELSE asset[r]]
    /\ KeepStore
    /\ UNCHANGED <<job, reopened, cancelling, reconciling>>

\* scheduleHireJobMediaPurge: it does not look at the job again.
Schedule(k) ==
    /\ k \in scheduling
    /\ scheduling' = scheduling \ {k}
    /\ asset' = [r \in Row |-> IF Schedulable(r) THEN Rescheduled(r, k, "job_closed") ELSE asset[r]]
    /\ KeepStore
    /\ UNCHANGED <<job, reopened, cancelling, reconciling>>

\* Variant with a bug: what was given up loses its deadline like the rest.
KeptAll(r) == Rescheduled(r, Never, "none")

\* A row whose deadline is cancelled is kept; one that was given up is purged.
Kept(r) ==
    IF asset[r].state = "purge_failed" THEN Asset("purge_failed", 0, "stale_staging")
    ELSE Rescheduled(r, Never, "none")

\* cancelFutureHireJobMediaPurge, as of the time it is called.
Cancel ==
    /\ cancelling
    /\ cancelling' = FALSE
    /\ asset' = [r \in Row |->
          IF /\ asset[r].state \in {"ready", "staging", "purge_failed"}
             /\ asset[r].reason = "job_closed"
             /\ ~Due(r)
          THEN Kept(r) ELSE asset[r]]
    /\ KeepStore
    /\ UNCHANGED <<job, reopened, scheduling, reconciling>>

\* The process is killed between the commit and the call.
LoseSchedule(k) ==
    /\ k \in scheduling
    /\ scheduling' = scheduling \ {k}
    /\ UNCHANGED <<storeVars, job, reopened, cancelling, reconciling>>

LoseCancel ==
    /\ cancelling
    /\ cancelling' = FALSE
    /\ UNCHANGED <<storeVars, job, reopened, scheduling, reconciling>>

\* Variant with a bug: only media that had a deadline once.
UnscheduledOnce(r) == Schedulable(r) /\ asset[r].due = Never /\ asset[r].reason = "job_closed"

Unscheduled(r) == Schedulable(r) /\ asset[r].due = Never

\* reconcileClosedJobMediaRetention reads the closed jobs that have media without
\* a deadline, and then writes.
ReadClosedJob ==
    /\ reconciling = 0
    /\ ~job.open
    /\ \E r \in Row : Unscheduled(r)
    /\ reconciling' = job.closing
    /\ UNCHANGED <<storeVars, job, reopened, scheduling, cancelling>>

Reconcile ==
    /\ reconciling # 0
    /\ asset' = [r \in Row |->
          IF Unscheduled(r) THEN Rescheduled(r, reconciling, "job_closed") ELSE asset[r]]
    /\ reconciling' = 0
    /\ KeepStore
    /\ UNCHANGED <<job, reopened, scheduling, cancelling>>

\* Six months after the next closing.  Calls and cron runs take minutes.
SixMonthsPass ==
    /\ elapsed < job.closing
    /\ scheduling = {} /\ ~cancelling /\ reconciling = 0
    /\ elapsed' = elapsed + 1
    /\ UNCHANGED <<asset, object, purging, lateSeals, jobVars>>

JobNext ==
    \/ \E r \in Row : StageMedia(r) \/ ActivateMedia(r) \/ LeaseExpires(r)
    \/ CloseJob
    \/ ReopenJob
    \/ RepeatClose
    \/ RepeatReopen
    \/ \E k \in 1 .. MaxClosing : Schedule(k) \/ LoseSchedule(k)
    \/ Cancel
    \/ LoseCancel
    \/ ReadClosedJob
    \/ Reconcile
    \/ SixMonthsPass
    \/ (SweepStep \/ \E w \in Worker : CronStep(w)) /\ UNCHANGED jobVars

JobSpec == JobInit /\ [][JobNext]_vars

\* The hourly run comes again and again, calls end one way or the other, and time
\* passes; requests are not repeated for ever.  Nothing is assumed of recruiters
\* else, nor of media that arrive.
JobFairness ==
    /\ \A k \in 1 .. MaxClosing : WF_vars(Schedule(k) \/ LoseSchedule(k))
    /\ WF_vars(Cancel \/ LoseCancel)
    /\ WF_vars(Reconcile)
    /\ SF_vars(ReadClosedJob)
    /\ SF_vars(SixMonthsPass)
    /\ <>[][~RepeatClose /\ ~RepeatReopen]_vars
    /\ \A r \in Row :
         /\ WF_vars(LeaseExpires(r))
         /\ WF_vars(MarkStale(r) /\ UNCHANGED jobVars)
         /\ WF_vars(RecoverClaim(r) /\ UNCHANGED jobVars)
         /\ SF_vars((\E w \in Worker : ClaimDue(w, r)) /\ UNCHANGED jobVars)
         /\ SF_vars((\E w \in Worker : purging[w].row = r /\ HoldsClaim(w) /\ SealObject(w))
                        /\ UNCHANGED jobVars)
         /\ SF_vars((\E w \in Worker : purging[w].row = r /\ HoldsClaim(w) /\ SettlePurge(w))
                        /\ UNCHANGED jobVars)
    /\ \A w \in Worker : WF_vars((SettlePurge(w) \/ FailPurge(w, "none")) /\ UNCHANGED jobVars)

FairJobSpec == JobSpec /\ JobFairness

-----------------------------------------------------------------------------
(* Properties. *)

\* Nothing is purged for a closed job before six months have passed since one of
\* its closings, whatever call is late, lost or repeated.
NeverPurgedEarly ==
    \A r \in Row : asset[r].reason = "job_closed" =>
        /\ asset[r].due \in 1 .. job.closing
        /\ asset[r].state \in {"purge_claimed", "purged"} => asset[r].due <= elapsed

\* The media of a job that stays closed are erased in the end, although the call
\* that schedules it may be lost and late calls of a reopening may cancel it.
ClosedJobMediaIsPurged ==
    <>[](~job.open) => \A r \in Row : asset[r].state = "ready" ~> asset[r].state = "purged"

\* A copy that was given up is erased in the end, also when its job's deadline is
\* cancelled.
FailedCopiesArePurged ==
    \A r \in Row : asset[r].state = "purge_failed" ~> asset[r].state = "purged"

\* What candidates are told: recordings "are removed six calendar months after the
\* job closes" (aiInterviewConsent.ts).  So a recording may only fall due while the
\* job has been closed since the closing its deadline is counted from.
KeptUntilJobIsClosed ==
    [][\A r \in Row :
        asset[r].state = "ready" /\ ~Due(r) /\ asset'[r].due <= elapsed' =>
            ~job.open /\ asset'[r].due = job.closing]_vars
=============================================================================
