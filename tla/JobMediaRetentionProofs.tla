------------------------ MODULE JobMediaRetentionProofs ------------------------
(***************************************************************************)
(* No media are purged for a closed job before their six months are over,  *)
(* for any rows, workers and closings.                                     *)
(***************************************************************************)
EXTENDS JobMediaRetention, MediaStoreProofs

\* A pending call, the reconciler and a closed job know a closing that has been.
ClosingsKnown ==
    /\ scheduling \subseteq 1 .. job.closing
    /\ reconciling \in 0 .. job.closing
    /\ ~job.open => job.closing >= 1

JInv ==
    /\ StoreInv
    /\ JobTypeOK
    /\ ClosingsKnown
    /\ NeverPurgedEarly

\* NeverPurgedEarly of one row.
OnTime(row, closing, now) ==
    row.reason = "job_closed" =>
        /\ row.due \in 1 .. closing
        /\ row.state \in {"purge_claimed", "purged"} => row.due <= now

-----------------------------------------------------------------------------

\* Rows that are on time satisfy the property.
LEMMA OnTimeSuffices ==
    NeverPurgedEarly <=> \A r \in Row : OnTime(asset[r], job.closing, elapsed)
  BY DEF NeverPurgedEarly, OnTime

\* A purge claims what is due and changes no deadline, except that what had none
\* gets one with another reason.
LEMMA PurgeOnTime ==
    ASSUME StoreInv, NEW c \in Nat,
           \A r \in Row : OnTime(asset[r], c, elapsed),
           SweepStep \/ \E w \in Worker : CronStep(w)
    PROVE  \A r \in Row : OnTime(asset'[r], c, elapsed')
  <1>0. elapsed' = elapsed
    BY DEF SweepStep, CronStep, LateSealLands, MarkStale, RecoverClaim, ClaimDue, SealObject,
           SettlePurge, FailPurge, KillPurge
  <1> USE DEF OnTime
  <1>1. ASSUME NEW r \in Row, MarkStale(r) \/ RecoverClaim(r)
        PROVE  \A k \in Row : OnTime(asset'[k], c, elapsed)
    <2>1. asset' = Forsaken(r)
      BY <1>1 DEF MarkStale, RecoverClaim
    <2>2. \A k \in Row \ {r} : asset'[k] = asset[k]
      BY <2>1 DEF Forsaken, StoreInv, StoreTypeOK
    <2>3. /\ asset'[r].state = "purge_failed"
          /\ asset'[r].reason = "job_closed" => asset'[r].due = asset[r].due /\ asset[r].reason = "job_closed"
      BY <2>1 DEF Forsaken, Asset, StoreInv, StoreTypeOK
    <2> QED BY <2>2, <2>3
  <1>2. ASSUME NEW w \in Worker, CronStep(w)
        PROVE  \A k \in Row : OnTime(asset'[k], c, elapsed)
    <2>1. ASSUME NEW r \in Row, ClaimDue(w, r)
          PROVE  \A k \in Row : OnTime(asset'[k], c, elapsed)
      <3>1. \A k \in Row \ {r} : asset'[k] = asset[k]
        BY <2>1 DEF ClaimDue, StoreInv, StoreTypeOK
      <3>2. asset'[r].due = asset[r].due /\ asset'[r].reason = asset[r].reason /\ asset[r].due <= elapsed
        BY <2>1 DEF ClaimDue, Due, Claimed, StoreInv, StoreTypeOK
      <3> QED BY <3>1, <3>2
    <2>2. CASE SealObject(w)
      BY <2>2 DEF SealObject
    <2>3. CASE SettlePurge(w) \/ FailPurge(w, "none") \/ KillPurge(w)
      <3>1. \A k \in Row :
               \/ asset'[k] = asset[k]
               \/ /\ asset[k].state = "purge_claimed"
                  /\ asset'[k].due = asset[k].due
                  /\ asset'[k].reason = asset[k].reason
        BY <2>3 DEF SettlePurge, FailPurge, KillPurge, HoldsClaim, Asset, Claimed, StoreInv, StoreTypeOK
      <3> QED BY <3>1
    <2> QED BY <1>2, <2>1, <2>2, <2>3 DEF CronStep
  <1>3. ASSUME NEW r \in Row, LateSealLands(r)
        PROVE  \A k \in Row : OnTime(asset'[k], c, elapsed)
    BY <1>3 DEF LateSealLands
  <1> QED BY <1>0, <1>1, <1>2, <1>3 DEF SweepStep

-----------------------------------------------------------------------------

\* Another deadline does not change what a row is.
LEMMA RescheduledRow ==
    ASSUME StoreInv, NEW r \in Row, NEW due \in 0 .. Never, NEW reason \in {"none", "job_closed"}
    PROVE  /\ Rescheduled(r, due, reason) \in AssetRecord
           /\ Rescheduled(r, due, reason).state = asset[r].state
           /\ Rescheduled(r, due, reason).due = due
           /\ Rescheduled(r, due, reason).reason = reason
  BY DEF Rescheduled, StoreInv, StoreTypeOK, AssetRecord

\* A closing is a deadline.
LEMMA ClosingIsDeadline ==
    ASSUME JInv
    PROVE  /\ job.closing \in 0 .. Never
           /\ 1 .. job.closing \subseteq 0 .. Never
           /\ job.closing # Never
  BY StoreAssumption DEF JInv, JobTypeOK, Never

\* Steps that write only rows, of which none is given up for anything else than
\* what it was, and which leave the calls and the job as they are or shrink them.
LEMMA RowsSafe ==
    ASSUME JInv,
           asset' \in [Row -> AssetRecord], object' \in [Row -> {"none", "data", "wrong", "sealed"}],
           UNCHANGED <<purging, lateSeals, elapsed>>, JobTypeOK => JobTypeOK', ClosingsKnown',
           job'.closing = job.closing,
           \A r \in Row : IF asset[r].state \in GivenUp
                          THEN asset'[r].state = asset[r].state /\ object'[r] = object[r]
                          ELSE asset'[r].state \notin {"purge_claimed", "purged"} /\ object'[r] # "sealed",
           \A r \in Row : OnTime(asset'[r], job.closing, elapsed)
    PROVE  JInv'
  <1>1. StoreTypeOK'
    BY DEF JInv, StoreInv, StoreTypeOK
  <1>2. StoreInv'
    BY <1>1, WriterSafe DEF JInv, StoreInv, SealsOnlyGivenUp, GivenUp
  <1>3. NeverPurgedEarly'
    BY DEF OnTime, NeverPurgedEarly
  <1> QED BY <1>1, <1>2, <1>3 DEF JInv

-----------------------------------------------------------------------------

\* Media arrive.
LEMMA StageMediaSafe ==
    ASSUME JInv, NEW r \in Row, StageMedia(r)
    PROVE  JInv'
  <1> USE DEF StageMedia, KeepStore, jobVars
  <1> DEFINE row == Asset("staging", RetentionDue, RetentionReason)
  <1>1. row \in AssetRecord
    BY RowTypes, ClosingIsDeadline, Deadlines DEF RetentionDue, RetentionReason
  <1>2. row.state = "staging" /\ (row.reason = "job_closed" => row.due \in 1 .. job.closing)
    BY DEF Asset, RetentionDue, RetentionReason, JInv, ClosingsKnown, JobTypeOK
  <1> HIDE DEF row
  <1>3. asset' = [asset EXCEPT ![r] = row]
    BY DEF row
  <1>4. asset' \in [Row -> AssetRecord] /\ object' \in [Row -> {"none", "data", "wrong", "sealed"}]
    BY <1>1, <1>3 DEF JInv, StoreInv, StoreTypeOK
  <1>5. \A k \in Row : OnTime(asset'[k], job.closing, elapsed)
    BY <1>2, <1>3, OnTimeSuffices DEF JInv, StoreInv, StoreTypeOK, OnTime
  <1>6. \A k \in Row : IF asset[k].state \in GivenUp
                       THEN asset'[k].state = asset[k].state /\ object'[k] = object[k]
                       ELSE asset'[k].state \notin {"purge_claimed", "purged"} /\ object'[k] # "sealed"
    BY <1>2, <1>3 DEF JInv, StoreInv, StoreTypeOK, SealsOnlyGivenUp, GivenUp
  <1>7. (JobTypeOK => JobTypeOK') /\ ClosingsKnown'
    BY <1>4 DEF JInv, JobTypeOK, StoreTypeOK, ClosingsKnown
  <1> QED BY <1>4, <1>5, <1>6, <1>7, RowsSafe

\* A copy is activated or set aside.
LEMMA ActivateMediaSafe ==
    ASSUME JInv, NEW r \in Row, ActivateMedia(r)
    PROVE  JInv'
  <1> USE DEF ActivateMedia, jobVars
  <1> DEFINE row == IF RetentionEnded THEN Asset("purge_failed", 0, "stale_staging")
                    ELSE Asset("ready", RetentionDue, RetentionReason)
  <1>1. row \in AssetRecord
    BY RowTypes, ClosingIsDeadline, Deadlines DEF RetentionDue, RetentionReason
  <1>2. /\ row.state \in {"ready", "purge_failed"}
        /\ row.reason = "job_closed" => row.due \in 1 .. job.closing
    BY DEF Asset, RetentionDue, RetentionReason, JInv, ClosingsKnown, JobTypeOK
  <1> HIDE DEF row
  <1>3. asset' = [asset EXCEPT ![r] = row]
    BY DEF row
  <1>4. asset' \in [Row -> AssetRecord] /\ object' \in [Row -> {"none", "data", "wrong", "sealed"}]
    BY <1>1, <1>3 DEF JInv, StoreInv, StoreTypeOK
  <1>5. \A k \in Row : OnTime(asset'[k], job.closing, elapsed)
    BY <1>2, <1>3, OnTimeSuffices DEF JInv, StoreInv, StoreTypeOK, OnTime
  <1>6. \A k \in Row : IF asset[k].state \in GivenUp
                       THEN asset'[k].state = asset[k].state /\ object'[k] = object[k]
                       ELSE asset'[k].state \notin {"purge_claimed", "purged"} /\ object'[k] # "sealed"
    BY <1>2, <1>3 DEF JInv, StoreInv, StoreTypeOK, SealsOnlyGivenUp, GivenUp
  <1>7. (JobTypeOK => JobTypeOK') /\ ClosingsKnown'
    BY <1>4 DEF JInv, JobTypeOK, StoreTypeOK, ClosingsKnown
  <1> QED BY <1>4, <1>5, <1>6, <1>7, RowsSafe

\* A delivery's lease runs out.
LEMMA LeaseExpiresSafe ==
    ASSUME JInv, NEW r \in Row, LeaseExpires(r)
    PROVE  JInv'
  <1> USE DEF LeaseExpires, KeepStore, jobVars
  <1>1. \A k \in Row : /\ asset'[k] \in AssetRecord
                       /\ asset'[k].state = asset[k].state
                       /\ asset'[k].due = asset[k].due
                       /\ asset'[k].reason = asset[k].reason
    <2>1. asset[r] \in AssetRecord
      BY RowFields DEF JInv
    <2> QED BY <2>1 DEF JInv, StoreInv, StoreTypeOK, AssetRecord
  <1>4. asset' \in [Row -> AssetRecord] /\ object' \in [Row -> {"none", "data", "wrong", "sealed"}]
    BY <1>1 DEF JInv, StoreInv, StoreTypeOK
  <1>5. \A k \in Row : OnTime(asset'[k], job.closing, elapsed)
    BY <1>1, OnTimeSuffices DEF JInv, OnTime
  <1>6. \A k \in Row : IF asset[k].state \in GivenUp
                       THEN asset'[k].state = asset[k].state /\ object'[k] = object[k]
                       ELSE asset'[k].state \notin {"purge_claimed", "purged"} /\ object'[k] # "sealed"
    BY <1>1 DEF JInv, StoreInv, SealsOnlyGivenUp, GivenUp
  <1>7. (JobTypeOK => JobTypeOK') /\ ClosingsKnown'
    BY <1>4 DEF JInv, JobTypeOK, StoreTypeOK, ClosingsKnown
  <1> QED BY <1>4, <1>5, <1>6, <1>7, RowsSafe

\* Writing the deadline of closing k over some rows that may be scheduled.
LEMMA RescheduleSafe ==
    ASSUME JInv, NEW k \in 1 .. job.closing, NEW hit \in SUBSET Row,
           \A r \in hit : Schedulable(r),
           asset' = [r \in Row |-> IF r \in hit THEN Rescheduled(r, k, "job_closed") ELSE asset[r]],
           KeepStore, UNCHANGED job, JobTypeOK => JobTypeOK', ClosingsKnown'
    PROVE  JInv'
  <1> USE DEF KeepStore
  <1>1. \A r \in Row : /\ asset'[r] \in AssetRecord
                       /\ asset'[r].state = asset[r].state
                       /\ IF r \in hit THEN asset'[r].due = k ELSE asset'[r] = asset[r]
    <2>1. k \in 0 .. Never
      BY ClosingIsDeadline
    <2> QED BY <2>1, RescheduledRow, RowFields DEF JInv
  <1>4. asset' \in [Row -> AssetRecord] /\ object' \in [Row -> {"none", "data", "wrong", "sealed"}]
    BY <1>1 DEF JInv, StoreInv, StoreTypeOK
  <1>5. \A r \in Row : OnTime(asset'[r], job.closing, elapsed)
    BY <1>1, OnTimeSuffices DEF JInv, OnTime, Schedulable
  <1>6. \A r \in Row : IF asset[r].state \in GivenUp
                       THEN asset'[r].state = asset[r].state /\ object'[r] = object[r]
                       ELSE asset'[r].state \notin {"purge_claimed", "purged"} /\ object'[r] # "sealed"
    BY <1>1 DEF JInv, StoreInv, SealsOnlyGivenUp, GivenUp
  <1> QED BY <1>4, <1>5, <1>6, RowsSafe

\* A deadline is cancelled.
LEMMA CancelSafe ==
    ASSUME JInv, Cancel
    PROVE  JInv'
  <1> USE DEF Cancel, KeepStore
  <1>1. \A r \in Row : /\ asset'[r] \in AssetRecord
                       /\ asset'[r].state = asset[r].state
                       /\ asset'[r] = asset[r] \/ asset'[r].reason # "job_closed"
    <2>1. \A r \in Row : /\ Kept(r) \in AssetRecord
                         /\ Kept(r).state = asset[r].state
                         /\ Kept(r).reason # "job_closed"
      <3> TAKE r \in Row
      <3>1. CASE asset[r].state = "purge_failed"
        BY <3>1, RowTypes, Deadlines DEF Kept, Asset
      <3>2. CASE asset[r].state # "purge_failed"
        BY <3>2, RescheduledRow, Deadlines DEF Kept, JInv
      <3> QED BY <3>1, <3>2
    <2> QED BY <2>1, RowFields DEF JInv
  <1>4. asset' \in [Row -> AssetRecord] /\ object' \in [Row -> {"none", "data", "wrong", "sealed"}]
    BY <1>1 DEF JInv, StoreInv, StoreTypeOK
  <1>5. \A r \in Row : OnTime(asset'[r], job.closing, elapsed)
    BY <1>1, OnTimeSuffices DEF JInv, OnTime
  <1>6. \A r \in Row : IF asset[r].state \in GivenUp
                       THEN asset'[r].state = asset[r].state /\ object'[r] = object[r]
                       ELSE asset'[r].state \notin {"purge_claimed", "purged"} /\ object'[r] # "sealed"
    BY <1>1 DEF JInv, StoreInv, SealsOnlyGivenUp, GivenUp
  <1>7. (JobTypeOK => JobTypeOK') /\ ClosingsKnown'
    BY <1>4 DEF JInv, JobTypeOK, StoreTypeOK, ClosingsKnown
  <1> QED BY <1>4, <1>5, <1>6, <1>7, RowsSafe

\* Steps of the job and its calls that leave rows and objects alone.
LEMMA JobOnlySafe ==
    ASSUME JInv, UNCHANGED <<asset, object, purging, lateSeals>>,
           elapsed' \in elapsed .. MaxClosing,
           JobTypeOK', ClosingsKnown', job'.closing \in job.closing .. MaxClosing
    PROVE  JInv'
  <1>1. StoreTypeOK'
    BY DEF JobTypeOK
  <1>2. StoreInv'
    BY <1>1, WriterSafe DEF JInv, StoreInv, SealsOnlyGivenUp, PurgedStaysErased
  <1>3. NeverPurgedEarly'
    <2>1. elapsed \in Nat /\ elapsed' \in Nat /\ elapsed <= elapsed'
      BY StoreAssumption DEF JInv, StoreInv, StoreTypeOK
    <2>2. job.closing \in Nat /\ job'.closing \in Nat /\ job.closing <= job'.closing
      BY StoreAssumption DEF JInv, JobTypeOK
    <2> SUFFICES ASSUME NEW r \in Row, asset[r].reason = "job_closed"
                 PROVE  /\ asset[r].due \in 1 .. job'.closing
                        /\ asset[r].state \in {"purge_claimed", "purged"} => asset[r].due <= elapsed'
      BY DEF NeverPurgedEarly
    <2>3. /\ asset[r].due \in 1 .. job.closing
          /\ asset[r].state \in {"purge_claimed", "purged"} => asset[r].due <= elapsed
      BY DEF JInv, NeverPurgedEarly
    <2> QED BY <2>1, <2>2, <2>3
  <1> QED BY <1>2, <1>3 DEF JInv

\* Closing the job.
LEMMA CloseJobSafe == ASSUME JInv, CloseJob PROVE JInv'
  <1> USE DEF CloseJob, storeVars
  <1>0. job.closing \in Nat /\ elapsed \in Nat /\ elapsed <= MaxClosing
    BY StoreAssumption DEF JInv, JobTypeOK, StoreInv, StoreTypeOK
  <1>1. job'.closing = job.closing + 1 /\ ~job'.open /\ job'.closing \in job.closing .. MaxClosing
    BY <1>0, StoreAssumption
  <1>2. ClosingsKnown'
    <2>1. \A k \in scheduling' : k \in 1 .. job'.closing
      <3>1. \A k \in scheduling : k \in 1 .. job.closing
        BY DEF JInv, ClosingsKnown
      <3> QED BY <1>0, <1>1, <3>1
    <2>2. reconciling' \in 0 .. job'.closing
      BY <1>0, <1>1 DEF JInv, ClosingsKnown
    <2> QED BY <1>0, <1>1, <2>1, <2>2 DEF ClosingsKnown
  <1>3. JobTypeOK'
    <2>1. StoreTypeOK'
      BY DEF JInv, StoreInv, StoreTypeOK
    <2>2. job' \in [open : BOOLEAN, closing : 0 .. MaxClosing]
      BY <1>0, <1>1, StoreAssumption
    <2>3. \A k \in scheduling' : k \in 1 .. MaxClosing
      BY <1>0, <1>1, <1>2, StoreAssumption DEF ClosingsKnown
    <2> QED BY <2>1, <2>2, <2>3 DEF JInv, JobTypeOK
  <1> QED BY <1>0, <1>1, <1>2, <1>3, StoreAssumption, JobOnlySafe

\* Reopening it, repeating that request, and losing calls; the reconciler reads.
LEMMA CallsSafe ==
    ASSUME JInv,
           \/ ReopenJob
           \/ RepeatClose
           \/ RepeatReopen
           \/ LoseCancel
           \/ ReadClosedJob
           \/ \E k \in 1 .. MaxClosing : LoseSchedule(k)
    PROVE  JInv'
  <1> USE DEF ReopenJob, RepeatClose, RepeatReopen, LoseCancel, ReadClosedJob, LoseSchedule, storeVars
  <1>0. job.closing \in Nat /\ elapsed \in Nat /\ elapsed <= MaxClosing /\ job.closing <= MaxClosing
    BY StoreAssumption DEF JInv, JobTypeOK, StoreInv, StoreTypeOK
  <1>1. UNCHANGED <<asset, object, purging, lateSeals, elapsed>> /\ job'.closing = job.closing
    OBVIOUS
  <1>2. ClosingsKnown'
    <2>1. ~job.open => job.closing \in 1 .. job.closing
      BY <1>0 DEF JInv, ClosingsKnown
    <2>2. \A k \in scheduling' : k \in 1 .. job'.closing
      BY <1>1, <2>1 DEF JInv, ClosingsKnown
    <2>3. reconciling' \in 0 .. job'.closing
      BY <1>0, <1>1 DEF JInv, ClosingsKnown
    <2>4. ~job'.open => job'.closing >= 1
      BY <1>0 DEF JInv, ClosingsKnown
    <2> QED BY <2>2, <2>3, <2>4 DEF ClosingsKnown
  <1>3. JobTypeOK'
    <2>1. StoreTypeOK'
      BY <1>1 DEF JInv, StoreInv, StoreTypeOK
    <2>2. job' \in [open : BOOLEAN, closing : 0 .. MaxClosing]
      <3>1. job' = job \/ job' = [open |-> TRUE, closing |-> job.closing]
        OBVIOUS
      <3>2. job \in [open : BOOLEAN, closing : 0 .. MaxClosing]
        BY DEF JInv, JobTypeOK
      <3>3. [open |-> TRUE, closing |-> job.closing] \in [open : BOOLEAN, closing : 0 .. MaxClosing]
        BY <3>2
      <3> HIDE DEF ReopenJob, RepeatClose, RepeatReopen, LoseCancel, ReadClosedJob, LoseSchedule
      <3> QED BY <3>1, <3>2, <3>3, Zenon
    <2>3. \A k \in scheduling' : k \in 1 .. MaxClosing
      BY <1>0, <1>1, <1>2, StoreAssumption DEF ClosingsKnown
    <2>4. reconciling' \in 0 .. MaxClosing
      BY <1>0 DEF JInv, JobTypeOK
    <2>5. reopened' \in BOOLEAN /\ cancelling' \in BOOLEAN
      BY DEF JInv, JobTypeOK
    <2> QED BY <2>1, <2>2, <2>3, <2>4, <2>5 DEF JobTypeOK
  <1> QED BY <1>0, <1>1, <1>2, <1>3, StoreAssumption, JobOnlySafe

\* Half a year later.
LEMMA SixMonthsSafe == ASSUME JInv, SixMonthsPass PROVE JInv'
  <1> USE DEF SixMonthsPass, jobVars
  <1>0. job.closing \in Nat /\ elapsed \in Nat /\ elapsed <= MaxClosing /\ job.closing <= MaxClosing
    BY StoreAssumption DEF JInv, JobTypeOK, StoreInv, StoreTypeOK
  <1>1. elapsed' \in elapsed .. MaxClosing /\ elapsed' \in 0 .. MaxClosing
    BY <1>0, StoreAssumption
  <1>2. StoreTypeOK' /\ JobTypeOK' /\ ClosingsKnown'
    BY <1>1 DEF JInv, JobTypeOK, StoreInv, StoreTypeOK, ClosingsKnown
  <1> QED BY <1>0, <1>1, <1>2, StoreAssumption, JobOnlySafe

\* The hourly purge.
LEMMA HourlySafe ==
    ASSUME JInv, SweepStep \/ \E w \in Worker : CronStep(w), UNCHANGED jobVars
    PROVE  JInv'
  <1>1. StoreInv'
    BY PurgeSafe DEF JInv
  <1>2. JobTypeOK' /\ ClosingsKnown'
    BY <1>1 DEF JInv, JobTypeOK, ClosingsKnown, StoreInv, jobVars
  <1>3. job.closing \in Nat
    BY StoreAssumption DEF JInv, JobTypeOK
  <1>4. \A r \in Row : OnTime(asset[r], job.closing, elapsed)
    BY OnTimeSuffices DEF JInv
  <1>5. \A r \in Row : OnTime(asset'[r], job.closing, elapsed')
    BY <1>3, <1>4, PurgeOnTime DEF JInv
  <1>6. NeverPurgedEarly'
    BY <1>5 DEF OnTime, NeverPurgedEarly, jobVars
  <1> QED BY <1>1, <1>2, <1>6 DEF JInv

\* The calls that write deadlines.
LEMMA ScheduleSafe == ASSUME JInv, NEW k \in 1 .. MaxClosing, Schedule(k) PROVE JInv'
  <1> USE DEF Schedule, KeepStore
  <1> DEFINE hit == {r \in Row : Schedulable(r)}
  <1>1. k \in 1 .. job.closing
    BY DEF JInv, ClosingsKnown
  <1>2. asset' = [r \in Row |-> IF r \in hit THEN Rescheduled(r, k, "job_closed") ELSE asset[r]]
    OBVIOUS
  <1>3. \A r \in Row : asset'[r] \in AssetRecord
    BY <1>1, <1>2, ClosingIsDeadline, RescheduledRow, RowFields DEF JInv
  <1>4. (JobTypeOK => JobTypeOK') /\ ClosingsKnown'
    BY <1>2, <1>3 DEF JInv, JobTypeOK, StoreTypeOK, ClosingsKnown
  <1>5. \A r \in hit : Schedulable(r)
    OBVIOUS
  <1> HIDE DEF hit
  <1>6. hit \in SUBSET Row
    BY DEF hit
  <1> QED BY <1>1, <1>2, <1>4, <1>5, <1>6, RescheduleSafe

\* The reconciler writes the deadline it has read.
LEMMA ReconcileSafe == ASSUME JInv, Reconcile PROVE JInv'
  <1> USE DEF Reconcile, KeepStore
  <1> DEFINE hit == {r \in Row : Unscheduled(r)}
  <1>1. reconciling \in 1 .. job.closing
    BY StoreAssumption DEF JInv, ClosingsKnown, JobTypeOK
  <1>2. asset' = [r \in Row |-> IF r \in hit THEN Rescheduled(r, reconciling, "job_closed") ELSE asset[r]]
    OBVIOUS
  <1>3. \A r \in Row : asset'[r] \in AssetRecord
    BY <1>1, <1>2, ClosingIsDeadline, RescheduledRow, RowFields DEF JInv
  <1>4. (JobTypeOK => JobTypeOK') /\ ClosingsKnown'
    <2>1. asset' \in [Row -> AssetRecord]
      BY <1>2, <1>3
    <2>2. 0 \in 0 .. MaxClosing /\ 0 \in 0 .. job.closing
      BY <1>1, StoreAssumption DEF JInv, JobTypeOK
    <2> QED BY <2>1, <2>2 DEF JInv, JobTypeOK, StoreTypeOK, ClosingsKnown
  <1>5. \A r \in hit : Schedulable(r)
    BY DEF Unscheduled
  <1> HIDE DEF hit
  <1>6. hit \in SUBSET Row
    BY DEF hit
  <1> QED BY <1>1, <1>2, <1>4, <1>5, <1>6, RescheduleSafe

-----------------------------------------------------------------------------

\* Every step keeps the invariant.
LEMMA JobStep == JInv /\ [JobNext]_vars => JInv'
  <1> SUFFICES ASSUME JInv, [JobNext]_vars PROVE JInv'
    OBVIOUS
  <1>1. CASE UNCHANGED vars
    BY <1>1 DEF vars, storeVars, jobVars, JInv, StoreInv, StoreTypeOK, AckMeansSealed, SealsOnlyGivenUp,
                PurgedStaysErased, JobTypeOK, ClosingsKnown, NeverPurgedEarly
  <1>2. CASE JobNext
    BY <1>2, StageMediaSafe, ActivateMediaSafe, LeaseExpiresSafe, CloseJobSafe, CallsSafe, ScheduleSafe,
       CancelSafe, ReconcileSafe, SixMonthsSafe, HourlySafe
       DEF JobNext
  <1> QED BY <1>1, <1>2

\* The invariant holds initially.
LEMMA JobInitial == JobInit => JInv
  <1> SUFFICES ASSUME JobInit PROVE JInv
    OBVIOUS
  <1>1. StoreInv
    BY StoreInitial DEF JobInit
  <1>2. JobTypeOK /\ ClosingsKnown
    <2>1. 0 \in 0 .. MaxClosing /\ 0 \in 0 .. 0
      BY StoreAssumption
    <2> QED BY <1>1, <2>1 DEF JobInit, JobTypeOK, ClosingsKnown, StoreInv
  <1>3. NeverPurgedEarly
    BY DEF JobInit, StoreInit, Asset, NeverPurgedEarly
  <1> QED BY <1>1, <1>2, <1>3 DEF JInv

\* The invariant holds always.
LEMMA JobInvariant == JobSpec => []JInv
  BY JobInitial, JobStep, PTL DEF JobSpec

\* The variables keep their types.
THEOREM JobTypeCorrect == JobSpec => []JobTypeOK
  <1>1. JInv => JobTypeOK
    BY DEF JInv
  <1> QED BY <1>1, JobInvariant, PTL

\* Whatever call is late, lost or repeated: nothing is purged for a closed job
\* before six months have passed since one of its closings.
THEOREM MediaAreKept == JobSpec => []NeverPurgedEarly
  <1>1. JInv => NeverPurgedEarly
    BY DEF JInv
  <1> QED BY <1>1, JobInvariant, PTL
=============================================================================
