--------------------------- MODULE MediaStoreProofs ---------------------------
(***************************************************************************)
(* What every step of a purge keeps true of rows and objects.  The modules *)
(* MediaIngestionProofs and JobMediaRetentionProofs build on it.           *)
(***************************************************************************)
EXTENDS MediaStore, TLAPS

\* A row in one of these states never comes back.
GivenUp == {"purge_claimed", "purge_failed", "purged"}

\* Whoever holds an acknowledgement of its seal has sealed the object.
AckMeansSealed ==
    \A w \in Worker : purging[w].sealed =>
        purging[w].row \in Row /\ object[purging[w].row] = "sealed"

\* Seals, landed or on their way, belong to rows that were given up.
SealsOnlyGivenUp ==
    /\ \A w \in Worker : purging[w].row \in Row => asset[purging[w].row].state \in GivenUp
    /\ \A r \in lateSeals : asset[r].state \in GivenUp
    /\ \A r \in Row : object[r] = "sealed" => asset[r].state \in GivenUp

StoreInv ==
    /\ StoreTypeOK
    /\ AckMeansSealed
    /\ SealsOnlyGivenUp
    /\ PurgedStaysErased

\* A purge changes only rows that are there and not purged, and gives them up; it
\* changes only objects of rows that were given up, and seals them.
StoreEffect ==
    \A r \in Row :
        /\ \/ asset'[r] = asset[r]
           \/ /\ asset[r].state \notin {"absent", "purged"}
              /\ asset'[r].state \in GivenUp
              /\ ~asset'[r].active
        /\ \/ object'[r] = object[r]
           \/ asset[r].state \in GivenUp /\ object'[r] = "sealed"

-----------------------------------------------------------------------------

\* A row written by Asset or Claimed is a row of the schema.
LEMMA RowTypes ==
    /\ \A state \in {"absent", "staging", "ready", "purge_failed", "purged"}, due \in 0 .. Never,
          reason \in {"none", "job_closed", "privacy_request", "replaced", "stale_staging"} :
            Asset(state, due, reason) \in AssetRecord
    /\ \A w \in Worker \cup {NoWorker}, due \in 0 .. Never,
          reason \in {"none", "job_closed", "privacy_request", "replaced", "stale_staging"} :
            Claimed(w, due, reason) \in AssetRecord
  BY DEF Asset, Claimed, AssetRecord

\* What the schema says of a row.
LEMMA RowFields ==
    ASSUME StoreInv, NEW r \in Row
    PROVE  /\ asset[r].due \in 0 .. Never
           /\ asset[r].reason \in {"none", "job_closed", "privacy_request", "replaced", "stale_staging"}
           /\ asset[r].claim \in Worker \cup {NoWorker}
           /\ asset[r] \in AssetRecord
  BY DEF StoreInv, StoreTypeOK, AssetRecord

\* Never and 0 are deadlines.
LEMMA Deadlines == Never \in 0 .. Never /\ 0 \in 0 .. Never
  BY StoreAssumption DEF Never

\* Initially there is nothing.
LEMMA StoreInitial == StoreInit => StoreInv
  <1> SUFFICES ASSUME StoreInit PROVE StoreInv
    OBVIOUS
  <1>1. StoreTypeOK
    BY RowTypes, Deadlines, StoreAssumption
       DEF StoreInit, StoreTypeOK, NotPurging
  <1>2. AckMeansSealed /\ SealsOnlyGivenUp /\ PurgedStaysErased
    BY StoreAssumption
       DEF StoreInit, NotPurging, Asset, AckMeansSealed, SealsOnlyGivenUp, PurgedStaysErased
  <1> QED BY <1>1, <1>2 DEF StoreInv

\* A due row is claimed.
LEMMA ClaimDueSafe ==
    ASSUME StoreInv, NEW w \in Worker, NEW r \in Row, ClaimDue(w, r)
    PROVE  StoreInv' /\ StoreEffect
  <1> USE DEF ClaimDue, StartSeal
  <1>1. StoreTypeOK'
    <2>1. Claimed(w, asset[r].due, asset[r].reason) \in AssetRecord
      BY RowTypes, RowFields
    <2> QED BY <2>1 DEF StoreInv, StoreTypeOK
  <1>2. AckMeansSealed'
    BY DEF StoreInv, StoreTypeOK, AckMeansSealed
  <1>3. asset' = [asset EXCEPT ![r] = Claimed(w, asset[r].due, asset[r].reason)]
    OBVIOUS
  <1>4. \A k \in Row : IF k = r THEN asset'[k].state = "purge_claimed" /\ ~asset'[k].active
                                ELSE asset'[k] = asset[k]
    BY <1>3 DEF StoreInv, StoreTypeOK, Claimed
  <1>5. SealsOnlyGivenUp'
    BY <1>4 DEF StoreInv, StoreTypeOK, SealsOnlyGivenUp, GivenUp
  <1>6. PurgedStaysErased'
    BY <1>4 DEF StoreInv, PurgedStaysErased
  <1>7. StoreEffect
    BY <1>4 DEF StoreEffect, GivenUp
  <1> QED BY <1>1, <1>2, <1>5, <1>6, <1>7 DEF StoreInv

\* A worker's seal lands.
LEMMA SealObjectSafe ==
    ASSUME StoreInv, NEW w \in Worker, SealObject(w)
    PROVE  StoreInv' /\ StoreEffect
  <1> USE DEF SealObject
  <1> DEFINE r == purging[w].row
  <1>0. r \in Row
    BY DEF StoreInv, StoreTypeOK
  <1>1. StoreTypeOK'
    BY <1>0 DEF StoreInv, StoreTypeOK
  <1>2. AckMeansSealed'
    BY <1>0 DEF StoreInv, StoreTypeOK, AckMeansSealed
  <1>3. SealsOnlyGivenUp'
    BY <1>0 DEF StoreInv, StoreTypeOK, SealsOnlyGivenUp
  <1>4. PurgedStaysErased'
    BY <1>0 DEF StoreInv, StoreTypeOK, PurgedStaysErased
  <1>5. StoreEffect
    BY <1>0 DEF StoreInv, StoreTypeOK, SealsOnlyGivenUp, StoreEffect
  <1> QED BY <1>1, <1>2, <1>3, <1>4, <1>5 DEF StoreInv

\* A late seal lands.
LEMMA LateSealSafe ==
    ASSUME StoreInv, NEW r \in Row, LateSealLands(r)
    PROVE  StoreInv' /\ StoreEffect
  <1> USE DEF LateSealLands
  <1>1. StoreTypeOK'
    BY DEF StoreInv, StoreTypeOK
  <1>2. AckMeansSealed'
    BY DEF StoreInv, StoreTypeOK, AckMeansSealed
  <1>3. SealsOnlyGivenUp'
    BY DEF StoreInv, StoreTypeOK, SealsOnlyGivenUp
  <1>4. PurgedStaysErased'
    BY DEF StoreInv, StoreTypeOK, PurgedStaysErased
  <1>5. StoreEffect
    BY DEF StoreInv, StoreTypeOK, SealsOnlyGivenUp, StoreEffect
  <1> QED BY <1>1, <1>2, <1>3, <1>4, <1>5 DEF StoreInv

-----------------------------------------------------------------------------

\* Ending a purge, or giving rows up, keeps the invariant when no row becomes
\* purged without its seal.
LEMMA GivingUpSafe ==
    ASSUME StoreInv, StoreTypeOK', StoreEffect,
           \A w \in Worker : purging'[w] \in {purging[w], NotPurging},
           \A r \in lateSeals' : r \in Row /\ asset[r].state \in GivenUp,
           \A r \in Row : asset'[r].state = "purged" => asset[r].state = "purged" \/ object'[r] = "sealed"
    PROVE  StoreInv'
  <1>1. \A r \in Row : asset[r].state \in GivenUp => asset'[r].state \in GivenUp
    BY DEF StoreEffect
  <1>2. \A r \in Row : object[r] = "sealed" => object'[r] = "sealed"
    BY DEF StoreEffect
  <1>3. AckMeansSealed'
    BY <1>2 DEF StoreInv, AckMeansSealed, NotPurging
  <1>4. SealsOnlyGivenUp'
    <2>1. \A w \in Worker : purging'[w].row \in Row => asset'[purging'[w].row].state \in GivenUp
      BY <1>1, StoreAssumption DEF StoreInv, SealsOnlyGivenUp, NotPurging
    <2>2. \A r \in lateSeals' : asset'[r].state \in GivenUp
      BY <1>1
    <2>3. \A r \in Row : object'[r] = "sealed" => asset'[r].state \in GivenUp
      BY <1>1 DEF StoreInv, SealsOnlyGivenUp, StoreEffect
    <2> QED BY <2>1, <2>2, <2>3 DEF SealsOnlyGivenUp
  <1>5. PurgedStaysErased'
    BY <1>2 DEF StoreInv, PurgedStaysErased
  <1> QED BY <1>3, <1>4, <1>5 DEF StoreInv

\* A worker settles the purge whose seal was acknowledged.
LEMMA SettlePurgeSafe ==
    ASSUME StoreInv, NEW w \in Worker, SettlePurge(w)
    PROVE  StoreInv' /\ StoreEffect
  <1> USE DEF SettlePurge, StopSeal
  <1> DEFINE r == purging[w].row
  <1>0. r \in Row /\ object[r] = "sealed" /\ asset[r].state \in GivenUp
    BY DEF StoreInv, AckMeansSealed, SealsOnlyGivenUp
  <1>1. Asset("purged", asset[r].due, asset[r].reason) \in AssetRecord
    BY <1>0, RowTypes, RowFields
  <1>2. StoreTypeOK'
    BY <1>0, <1>1 DEF StoreInv, StoreTypeOK, NotPurging
  <1>3. \A k \in Row : \/ asset'[k] = asset[k]
                      \/ /\ k = r
                         /\ asset[k].state = "purge_claimed"
                         /\ asset'[k].state = "purged"
                         /\ ~asset'[k].active
    BY <1>0 DEF StoreInv, StoreTypeOK, HoldsClaim, Asset
  <1>4. StoreEffect
    BY <1>3 DEF StoreEffect, GivenUp
  <1>5. \A k \in Worker : purging'[k] \in {purging[k], NotPurging}
    BY DEF StoreInv, StoreTypeOK
  <1>6. \A k \in lateSeals' : k \in Row /\ asset[k].state \in GivenUp
    BY DEF StoreInv, StoreTypeOK, SealsOnlyGivenUp
  <1>7. \A k \in Row : asset'[k].state = "purged" => asset[k].state = "purged" \/ object'[k] = "sealed"
    BY <1>0, <1>3
  <1> QED BY <1>2, <1>4, <1>5, <1>6, <1>7, GivingUpSafe

\* A purge ends without success: the row may be given back, the seal may be late.
LEMMA BrokenPurgeSafe ==
    ASSUME StoreInv, NEW w \in Worker, purging[w].row # NoRow,
           NEW row \in AssetRecord, row.state \in {"purge_claimed", "purge_failed"}, ~row.active,
           asset' = IF HoldsClaim(w) THEN [asset EXCEPT ![purging[w].row] = row] ELSE asset,
           SealMayBeLate(w), StopSeal(w), UNCHANGED <<object, elapsed>>
    PROVE  StoreInv' /\ StoreEffect
  <1> USE DEF SealMayBeLate, StopSeal
  <1> DEFINE r == purging[w].row
  <1>0. r \in Row /\ asset[r].state \in GivenUp
    BY DEF StoreInv, StoreTypeOK, SealsOnlyGivenUp
  <1>2. StoreTypeOK'
    BY <1>0 DEF StoreInv, StoreTypeOK, NotPurging
  <1>3. \A k \in Row : \/ asset'[k] = asset[k]
                      \/ /\ k = r
                         /\ asset[k].state = "purge_claimed"
                         /\ asset'[k].state \in {"purge_claimed", "purge_failed"}
                         /\ ~asset'[k].active
    BY <1>0 DEF StoreInv, StoreTypeOK, HoldsClaim
  <1>4. StoreEffect
    BY <1>3 DEF StoreEffect, GivenUp
  <1>5. \A k \in Worker : purging'[k] \in {purging[k], NotPurging}
    BY DEF StoreInv, StoreTypeOK
  <1>6. \A k \in lateSeals' : k \in Row /\ asset[k].state \in GivenUp
    BY <1>0 DEF StoreInv, StoreTypeOK, SealsOnlyGivenUp
  <1>7. \A k \in Row : asset'[k].state = "purged" => asset[k].state = "purged" \/ object'[k] = "sealed"
    BY <1>3
  <1> QED BY <1>2, <1>4, <1>5, <1>6, <1>7, GivingUpSafe

\* A purge fails.
LEMMA FailPurgeSafe ==
    ASSUME StoreInv, NEW w \in Worker,
           NEW reason \in {"none", "privacy_request", "stale_staging"}, FailPurge(w, reason)
    PROVE  StoreInv' /\ StoreEffect
  <1> DEFINE r == purging[w].row
             row == Asset("purge_failed", asset[r].due,
                          IF reason = "none" THEN asset[r].reason ELSE reason)
  <1>1. r \in Row
    BY DEF FailPurge, StoreInv, StoreTypeOK
  <1>2. row \in AssetRecord
    BY <1>1, RowTypes, RowFields
  <1>3. row.state = "purge_failed" /\ ~row.active
    BY DEF Asset
  <1> HIDE DEF row
  <1>4. asset' = IF HoldsClaim(w) THEN [asset EXCEPT ![r] = row] ELSE asset
    BY DEF FailPurge, row
  <1> QED BY <1>2, <1>3, <1>4, BrokenPurgeSafe DEF FailPurge

\* A worker is killed in the middle of a purge.
LEMMA KillPurgeSafe ==
    ASSUME StoreInv, NEW w \in Worker, KillPurge(w)
    PROVE  StoreInv' /\ StoreEffect
  <1> DEFINE r == purging[w].row
             row == Claimed(NoWorker, asset[r].due, asset[r].reason)
  <1>1. r \in Row
    BY DEF KillPurge, StoreInv, StoreTypeOK
  <1>2. row \in AssetRecord
    BY <1>1, RowTypes, RowFields
  <1>3. row.state = "purge_claimed" /\ ~row.active
    BY DEF Claimed
  <1> HIDE DEF row
  <1>4. asset' = IF HoldsClaim(w) THEN [asset EXCEPT ![r] = row] ELSE asset
    BY DEF KillPurge, row
  <1> QED BY <1>2, <1>3, <1>4, BrokenPurgeSafe DEF KillPurge

\* The hourly run gives up a stale copy, or a stale claim.
LEMMA ForsakenSafe ==
    ASSUME StoreInv, NEW r \in Row, asset[r].state \in {"staging", "purge_claimed"},
           asset' = Forsaken(r), UNCHANGED <<object, purging, lateSeals, elapsed>>
    PROVE  StoreInv' /\ StoreEffect
  <1> DEFINE due == IF asset[r].due = Never THEN 0 ELSE asset[r].due
             reason == IF asset[r].due = Never THEN "stale_staging" ELSE asset[r].reason
             row == Asset("purge_failed", due, reason)
  <1>1. row \in AssetRecord
    BY RowTypes, RowFields, Deadlines
  <1>2. row.state = "purge_failed" /\ ~row.active
    BY DEF Asset
  <1>3. asset' = [asset EXCEPT ![r] = row]
    BY DEF Forsaken
  <1> HIDE DEF row
  <1>4. StoreTypeOK'
    BY <1>1, <1>3 DEF StoreInv, StoreTypeOK
  <1>5. \A k \in Row : \/ asset'[k] = asset[k]
                      \/ /\ asset[k].state \in {"staging", "purge_claimed"}
                         /\ asset'[k].state = "purge_failed"
                         /\ ~asset'[k].active
    BY <1>2, <1>3 DEF StoreInv, StoreTypeOK
  <1>6. StoreEffect
    BY <1>5 DEF StoreEffect, GivenUp
  <1>7. \A k \in lateSeals' : k \in Row /\ asset[k].state \in GivenUp
    BY DEF StoreInv, StoreTypeOK, SealsOnlyGivenUp
  <1> QED BY <1>4, <1>5, <1>6, <1>7, GivingUpSafe

\* Every step of the purge is safe.
LEMMA PurgeSafe ==
    ASSUME StoreInv, SweepStep \/ \E w \in Worker : CronStep(w)
    PROVE  StoreInv' /\ StoreEffect
  <1>1. ASSUME NEW r \in Row, LateSealLands(r) \/ MarkStale(r) \/ RecoverClaim(r)
        PROVE  StoreInv' /\ StoreEffect
    BY <1>1, LateSealSafe, ForsakenSafe DEF MarkStale, RecoverClaim
  <1>2. ASSUME NEW w \in Worker, CronStep(w)
        PROVE  StoreInv' /\ StoreEffect
    BY <1>2, ClaimDueSafe, SealObjectSafe, SettlePurgeSafe, FailPurgeSafe, KillPurgeSafe
       DEF CronStep
  <1> QED BY <1>1, <1>2 DEF SweepStep

\* No step of a purge touches a row that is ready and not due.
LEMMA UndueUntouched ==
    ASSUME StoreInv, NEW r \in Row, asset[r].state = "ready", ~Due(r),
           \/ SweepStep
           \/ \E w \in Worker :
                \/ CronStep(w)
                \/ \E reason \in {"none", "privacy_request", "stale_staging"} : FailPurge(w, reason)
    PROVE  asset'[r] = asset[r]
  <1>1. asset \in [Row -> AssetRecord]
    BY DEF StoreInv, StoreTypeOK
  <1>2. CASE SweepStep
    BY <1>1, <1>2 DEF SweepStep, LateSealLands, MarkStale, RecoverClaim, Forsaken
  <1>3. ASSUME NEW w \in Worker, ClaimDue(w, r) \/ SealObject(w)
        PROVE  asset'[r] = asset[r]
    BY <1>3 DEF ClaimDue, SealObject
  <1>4. ASSUME NEW w \in Worker, NEW k \in Row, ClaimDue(w, k)
        PROVE  asset'[r] = asset[r]
    BY <1>1, <1>4 DEF ClaimDue
  <1>5. ASSUME NEW w \in Worker, SettlePurge(w) \/ KillPurge(w) \/ \E reason : FailPurge(w, reason)
        PROVE  asset'[r] = asset[r]
    <2>1. HoldsClaim(w) => purging[w].row # r
      BY DEF HoldsClaim
    <2>2. CASE SettlePurge(w)
      BY <1>1, <2>1, <2>2 DEF SettlePurge
    <2>3. CASE KillPurge(w)
      BY <1>1, <2>1, <2>3 DEF KillPurge
    <2>4. ASSUME NEW reason, FailPurge(w, reason)
          PROVE  asset'[r] = asset[r]
      BY <1>1, <2>1, <2>4 DEF FailPurge
    <2> QED BY <1>5, <2>2, <2>3, <2>4
  <1> QED BY <1>2, <1>3, <1>4, <1>5 DEF CronStep

-----------------------------------------------------------------------------

\* The other writers: what was given up stays so, nothing else is purged, sealed
\* objects stay as they are, seals are only started for what was given up.
LEMMA WriterSafe ==
    ASSUME StoreInv, StoreTypeOK', UNCHANGED lateSeals,
           \A w \in Worker :
              \/ purging'[w] = purging[w]
              \/ /\ ~purging'[w].sealed
                 /\ purging'[w].row \in Row => asset'[purging'[w].row].state \in GivenUp,
           \A r \in Row :
              /\ asset[r].state \in GivenUp => asset'[r].state \in GivenUp
              /\ asset'[r].state = "purged" => asset[r].state = "purged"
              /\ (object[r] = "sealed") <=> (object'[r] = "sealed")
    PROVE  StoreInv'
  <1>1. AckMeansSealed'
    BY DEF StoreInv, AckMeansSealed, SealsOnlyGivenUp
  <1>2. SealsOnlyGivenUp'
    <2>1. \A w \in Worker : purging'[w].row \in Row => asset'[purging'[w].row].state \in GivenUp
      BY DEF StoreInv, SealsOnlyGivenUp
    <2>2. \A r \in lateSeals' : asset'[r].state \in GivenUp
      BY DEF StoreInv, StoreTypeOK, SealsOnlyGivenUp
    <2>3. \A r \in Row : object'[r] = "sealed" => asset'[r].state \in GivenUp
      BY DEF StoreInv, SealsOnlyGivenUp
    <2> QED BY <2>1, <2>2, <2>3 DEF SealsOnlyGivenUp
  <1>3. PurgedStaysErased'
    BY DEF StoreInv, PurgedStaysErased, GivenUp
  <1> QED BY <1>1, <1>2, <1>3 DEF StoreInv
=============================================================================
