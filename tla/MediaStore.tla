------------------------------ MODULE MediaStore ------------------------------
(***************************************************************************)
(* The rows of HireMediaAsset, the private objects they stand for, and the *)
(* hourly purge of modules/hire/services/mediaLifecycleService.ts.         *)
(*                                                                         *)
(* An object is deleted by writing an empty seal over it, and every upload *)
(* is conditional on the key being free (hireMediaStorage.ts).  A seal     *)
(* that was sent by a process that has died since may still land.          *)
(*                                                                         *)
(* Purge deadlines are six months after a closing of the job and are named *)
(* by the number of that closing; deadline 0 has always passed.            *)
(***************************************************************************)
EXTENDS Integers

CONSTANTS
    Row,
    Worker,         \* processes that may purge: cron runs, and deliveries cleaning up
    NoRow,
    NoWorker,
    MaxClosing      \* bound: closings of the job

ASSUME StoreAssumption ==
    /\ NoRow \notin Row
    /\ NoWorker \notin Worker
    /\ MaxClosing \in Nat

VARIABLES
    asset,      \* HireMediaAsset rows
    object,     \* the object at each row's key
    purging,    \* the row each worker is deleting, and whether its seal has landed
    lateSeals,  \* rows whose seal is on its way though its sender has gone
    elapsed     \* closings of the job that are more than six months ago

storeVars == <<asset, object, purging, lateSeals, elapsed>>

Never == MaxClosing + 1
NotPurging == [row |-> NoRow, sealed |-> FALSE]

AssetRecord == [state : {"absent", "staging", "ready", "purge_claimed", "purge_failed", "purged"},
                active : BOOLEAN,
                lease : {"none", "live", "expired"},
                due : 0 .. Never,
                reason : {"none", "job_closed", "privacy_request", "replaced", "stale_staging"},
                claim : Worker \cup {NoWorker}]

StoreTypeOK ==
    /\ asset \in [Row -> AssetRecord]
    /\ object \in [Row -> {"none", "data", "wrong", "sealed"}]
    /\ purging \in [Worker -> [row : Row \cup {NoRow}, sealed : BOOLEAN]]
    /\ lateSeals \in SUBSET Row
    /\ elapsed \in 0 .. MaxClosing

Asset(state, due, reason) ==
    [state |-> state, active |-> state = "ready",
     lease |-> IF state = "staging" THEN "live" ELSE "none",
     due |-> due, reason |-> reason, claim |-> NoWorker]

Claimed(w, due, reason) ==
    [state |-> "purge_claimed", active |-> FALSE, lease |-> "none",
     due |-> due, reason |-> reason, claim |-> w]

StoreInit ==
    /\ asset = [r \in Row |-> Asset("absent", Never, "none")]
    /\ object = [r \in Row |-> "none"]
    /\ purging = [w \in Worker |-> NotPurging]
    /\ lateSeals = {}
    /\ elapsed = 0

Due(r) == asset[r].due <= elapsed

\* What remains of row r when its purge fails or its writer is given up.
Forsaken(r) ==
    [asset EXCEPT ![r] = Asset("purge_failed",
                               IF asset[r].due = Never THEN 0 ELSE asset[r].due,
                               IF asset[r].due = Never THEN "stale_staging" ELSE asset[r].reason)]

-----------------------------------------------------------------------------
(* Steps of a purge: claim the row, seal the object, settle the row. *)

StartSeal(w, r) == purging' = [purging EXCEPT ![w] = [row |-> r, sealed |-> FALSE]]
StopSeal(w) == purging' = [purging EXCEPT ![w] = NotPurging]

ClaimDue(w, r) ==
    /\ purging[w] = NotPurging
    /\ asset[r].state \in {"ready", "purge_failed"}
    /\ Due(r)
    /\ asset[r].lease = "none"
    /\ asset' = [asset EXCEPT ![r] = Claimed(w, asset[r].due, asset[r].reason)]
    /\ StartSeal(w, r)
    /\ UNCHANGED <<object, lateSeals, elapsed>>

\* Variant with a bug: the object is deleted instead of sealed.
DeleteObject(w) ==
    /\ purging[w].row # NoRow
    /\ ~purging[w].sealed
    /\ object' = [object EXCEPT ![purging[w].row] = "none"]
    /\ purging' = [purging EXCEPT ![w] = [row |-> purging[w].row, sealed |-> TRUE]]
    /\ UNCHANGED <<asset, lateSeals, elapsed>>

SealObject(w) ==
    /\ purging[w].row # NoRow
    /\ ~purging[w].sealed
    /\ object' = [object EXCEPT ![purging[w].row] = "sealed"]
    /\ purging' = [purging EXCEPT ![w] = [row |-> purging[w].row, sealed |-> TRUE]]
    /\ UNCHANGED <<asset, lateSeals, elapsed>>

\* Only the claim that was taken may end the purge.
HoldsClaim(w) ==
    /\ purging[w].row # NoRow
    /\ asset[purging[w].row].state = "purge_claimed"
    /\ asset[purging[w].row].claim = w

SettlePurge(w) ==
    LET r == purging[w].row IN
    /\ purging[w].sealed
    /\ asset' = IF HoldsClaim(w)
                THEN [asset EXCEPT ![r] = Asset("purged", asset[r].due, asset[r].reason)]
                ELSE asset
    /\ StopSeal(w)
    /\ UNCHANGED <<object, lateSeals, elapsed>>

\* The seal failed or timed out: it may still be on its way.
SealMayBeLate(w) ==
    \/ lateSeals' = lateSeals
    \/ ~purging[w].sealed /\ lateSeals' = lateSeals \cup {purging[w].row}

\* A delivery that cleans up writes the reason again, a cron run does not.
FailPurge(w, reason) ==
    LET r == purging[w].row IN
    /\ r # NoRow
    /\ asset' = IF HoldsClaim(w)
                THEN [asset EXCEPT ![r] = Asset("purge_failed", asset[r].due,
                                                IF reason = "none" THEN asset[r].reason ELSE reason)]
                ELSE asset
    /\ SealMayBeLate(w)
    /\ StopSeal(w)
    /\ UNCHANGED <<object, elapsed>>

\* The process dies in the middle of a purge: its claim stays.
KillPurge(w) ==
    LET r == purging[w].row IN
    /\ r # NoRow
    /\ asset' = IF HoldsClaim(w)
                THEN [asset EXCEPT ![r] = Claimed(NoWorker, asset[r].due, asset[r].reason)]
                ELSE asset
    /\ SealMayBeLate(w)
    /\ StopSeal(w)
    /\ UNCHANGED <<object, elapsed>>

LateSealLands(r) ==
    /\ r \in lateSeals
    /\ object' = [object EXCEPT ![r] = "sealed"]
    /\ lateSeals' = lateSeals \ {r}
    /\ UNCHANGED <<asset, purging, elapsed>>

-----------------------------------------------------------------------------
(* The other steps of an hourly run. *)

\* Variant with a bug: rows that have a deadline already are passed over.
MarkUnscheduledStale(r) ==
    /\ asset[r].state = "staging"
    /\ asset[r].lease = "expired"
    /\ asset[r].due = Never
    /\ asset' = Forsaken(r)
    /\ UNCHANGED <<object, purging, lateSeals, elapsed>>

\* markStaleHireMediaForPurge
MarkStale(r) ==
    /\ asset[r].state = "staging"
    /\ asset[r].lease = "expired"
    /\ asset' = Forsaken(r)
    /\ UNCHANGED <<object, purging, lateSeals, elapsed>>

\* Variant with a bug: only the claims of processes that are still at work.
RecoverWorkingClaim(r) ==
    /\ asset[r].state = "purge_claimed"
    /\ asset[r].claim # NoWorker
    /\ asset' = Forsaken(r)
    /\ UNCHANGED <<object, purging, lateSeals, elapsed>>

\* recoverStaleHireMediaPurgeClaims.  A claim carries the time its run began, so
\* that it may be fifteen minutes old and its owner still at work.
RecoverClaim(r) ==
    /\ asset[r].state = "purge_claimed"
    /\ asset' = Forsaken(r)
    /\ UNCHANGED <<object, purging, lateSeals, elapsed>>

CronStep(w) ==
    \/ \E r \in Row : ClaimDue(w, r)
    \/ SealObject(w)
    \/ SettlePurge(w)
    \/ FailPurge(w, "none")
    \/ KillPurge(w)

SweepStep == \E r \in Row : LateSealLands(r) \/ MarkStale(r) \/ RecoverClaim(r)

-----------------------------------------------------------------------------
\* An object is erased for good when its row says so: no upload that was still on
\* its way brings the bytes back.
PurgedStaysErased ==
    \A r \in Row : asset[r].state = "purged" => object[r] = "sealed"
=============================================================================
