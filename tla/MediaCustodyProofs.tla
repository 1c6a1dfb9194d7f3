-------------------------- MODULE MediaCustodyProofs --------------------------
(***************************************************************************)
(* The media ingestion implements MediaCustody, for any deliveries, cron   *)
(* runs, events and generations: every step is a step of custody or leaves *)
(* it alone.                                                               *)
(***************************************************************************)
EXTENDS MediaIngestionProofs

\* The stages of the states.
LEMMA Stages ==
    /\ CustodyOf["absent"] = "none"
    /\ CustodyOf["staging"] = "kept" /\ CustodyOf["ready"] = "kept"
    /\ CustodyOf["purge_claimed"] = "given_up" /\ CustodyOf["purge_failed"] = "given_up"
    /\ CustodyOf["purged"] = "erased"
  BY DEF CustodyOf

\* A row in one of the six states, and the stage it is in.
LEMMA StageOfRow ==
    ASSUME MInv, NEW r \in Row
    PROVE  /\ asset[r].state \in {"absent", "staging", "ready", "purge_claimed", "purge_failed", "purged"}
           /\ CustodyOf[asset[r].state] = "none" <=> asset[r].state = "absent"
           /\ CustodyOf[asset[r].state] = "kept" <=> asset[r].state \in {"staging", "ready"}
           /\ CustodyOf[asset[r].state] = "given_up" <=> asset[r].state \in {"purge_claimed", "purge_failed"}
           /\ CustodyOf[asset[r].state] = "erased" <=> asset[r].state = "purged"
           /\ asset[r].active => asset[r].state = "ready"
  <1>1. asset[r].state \in {"absent", "staging", "ready", "purge_claimed", "purge_failed", "purged"}
    BY DEF MInv, StoreInv, StoreTypeOK, AssetRecord
  <1>2. asset[r].active => asset[r].state = "ready"
    BY DEF MInv, ShownAlone
  <1> QED BY <1>1, <1>2, Stages

\* A row stays in its stage or is given up, and is not shown anew.
OnlyGivenUp(r) ==
    /\ asset'[r].active => asset[r].active
    /\ \/ asset'[r].state = asset[r].state
       \/ /\ asset[r].state \in {"staging", "ready"}
          /\ asset'[r].state \in {"purge_claimed", "purge_failed"}
          /\ ~asset'[r].active
       \/ /\ asset[r].state \in {"purge_claimed", "purge_failed"}
          /\ asset'[r].state \in {"purge_claimed", "purge_failed"}

\* Steps that do no more than that to rows give up what they give up.
LEMMA GivesUp ==
    ASSUME MInv, \A r \in Row : OnlyGivenUp(r), UNCHANGED <<object, privacy>>
    PROVE  Custody!CustodyNext
  <1>1. PICK rows \in SUBSET Row :
          rows = {r \in Row : /\ asset[r].state \in {"staging", "ready"}
                              /\ asset'[r].state \in {"purge_claimed", "purge_failed"}}
    OBVIOUS
  <1>2. \A r \in Row : CustodyOf[asset'[r].state] =
                           IF r \in rows THEN "given_up" ELSE CustodyOf[asset[r].state]
    <2> SUFFICES ASSUME NEW r \in Row
                 PROVE  CustodyOf[asset'[r].state] =
                            IF r \in rows THEN "given_up" ELSE CustodyOf[asset[r].state]
      OBVIOUS
    <2> QED BY <1>1, Stages, StageOfRow DEF OnlyGivenUp
  <1>3. {r \in Row : asset[r].active}' \subseteq {r \in Row : asset[r].active} \ rows
    <2> SUFFICES ASSUME NEW r \in Row, asset'[r].active
                 PROVE  asset[r].active /\ r \notin rows
      OBVIOUS
    <2> QED BY <1>1, StageOfRow DEF OnlyGivenUp
  <1>4. Custody!GiveUp(rows)
    BY <1>1, <1>2, <1>3 DEF Custody!GiveUp
  <1>5. rows \in SUBSET {r \in Row : [k \in Row |-> CustodyOf[asset[k].state]][r] = "kept"}
    BY <1>1, StageOfRow
  <1> QED BY <1>4, <1>5 DEF Custody!CustodyNext

\* Nothing happens to rows, objects and the candidate.
LEMMA NothingHappens ==
    ASSUME MInv, UNCHANGED <<asset, object, privacy>>
    PROVE  Custody!CustodyNext
  BY GivesUp DEF OnlyGivenUp

\* The seal of a row that was given up lands.
LEMMA SealStep ==
    ASSUME MInv, NEW r \in Row, asset[r].state \in GivenUp,
           object' = [object EXCEPT ![r] = "sealed"], UNCHANGED <<asset, privacy>>
    PROVE  Custody!CustodyNext
  <1>1. CASE asset[r].state = "purged"
    <2>1. object[r] = "sealed" /\ object \in [Row -> {"none", "data", "wrong", "sealed"}]
      BY <1>1 DEF MInv, StoreInv, PurgedStaysErased, StoreTypeOK
    <2>2. UNCHANGED object
      BY <2>1
    <2> QED BY <2>2, NothingHappens
  <1>2. CASE asset[r].state # "purged"
    <2>1. CustodyOf[asset[r].state] = "given_up"
      BY <1>2, StageOfRow DEF GivenUp
    <2>2. Custody!Seal(r)
      BY <2>1 DEF Custody!Seal
    <2> QED BY <2>2 DEF Custody!CustodyNext
  <1> QED BY <1>1, <1>2

\* Only a sealed object is erased.
LEMMA SettleStep ==
    ASSUME MInv, NEW w \in Worker, SettlePurge(w), UNCHANGED privacy
    PROVE  Custody!CustodyNext
  <1>1. asset \in [Row -> AssetRecord] /\ UNCHANGED object
    BY DEF MInv, StoreInv, StoreTypeOK, SettlePurge
  <1>2. CASE HoldsClaim(w)
    <2>0. PICK r \in Row : r = purging[w].row
      BY DEF MInv, StoreInv, AckMeansSealed, SettlePurge
    <2>1. object[r] = "sealed" /\ asset[r].state = "purge_claimed"
      BY <1>2, <2>0 DEF MInv, StoreInv, AckMeansSealed, SettlePurge, HoldsClaim
    <2>2. asset' = [asset EXCEPT ![r] = Asset("purged", asset[r].due, asset[r].reason)]
      BY <1>2, <2>0 DEF SettlePurge
    <2>3. /\ asset'[r].state = "purged" /\ ~asset'[r].active
          /\ \A k \in Row \ {r} : asset'[k] = asset[k]
      BY <1>1, <2>1, <2>2 DEF Asset
    <2>4. CustodyOf[asset[r].state] = "given_up" /\ ~asset[r].active
      BY <2>1, StageOfRow
    <2>5. \A k \in Row : CustodyOf[asset'[k].state] =
                             IF k = r THEN "erased" ELSE CustodyOf[asset[k].state]
      BY <2>3, Stages
    <2>6. {k \in Row : asset[k].active}' = {k \in Row : asset[k].active}
      BY <2>3, <2>4
    <2>7. Custody!Erase(r)
      BY <1>1, <2>1, <2>4, <2>5, <2>6 DEF Custody!Erase
    <2> QED BY <2>7 DEF Custody!CustodyNext
  <1>3. CASE ~HoldsClaim(w)
    BY <1>1, <1>3, NothingHappens DEF SettlePurge
  <1> QED BY <1>2, <1>3

\* A purge that fails or is killed leaves the row given up.
LEMMA BrokenPurgeStep ==
    ASSUME MInv, NEW w \in Worker, UNCHANGED privacy,
           KillPurge(w) \/ \E reason : FailPurge(w, reason)
    PROVE  Custody!CustodyNext
  <1>1. asset \in [Row -> AssetRecord] /\ UNCHANGED object
    BY DEF MInv, StoreInv, StoreTypeOK, KillPurge, FailPurge
  <1>2. \A r \in Row :
           \/ asset'[r] = asset[r]
           \/ /\ asset[r].state = "purge_claimed"
              /\ asset'[r].state \in {"purge_claimed", "purge_failed"}
              /\ ~asset'[r].active
    <2>1. PICK row : /\ asset' = IF HoldsClaim(w) THEN [asset EXCEPT ![purging[w].row] = row] ELSE asset
                     /\ row.state \in {"purge_claimed", "purge_failed"}
                     /\ ~row.active
      <3>1. CASE KillPurge(w)
        <4> DEFINE row == Claimed(NoWorker, asset[purging[w].row].due, asset[purging[w].row].reason)
        <4>1. row.state = "purge_claimed" /\ ~row.active
          BY DEF Claimed
        <4>2. asset' = IF HoldsClaim(w) THEN [asset EXCEPT ![purging[w].row] = row] ELSE asset
          BY <3>1 DEF KillPurge
        <4> HIDE DEF row
        <4> QED BY <4>1, <4>2
      <3>2. ASSUME NEW reason, FailPurge(w, reason)
            PROVE  \E row : /\ asset' = IF HoldsClaim(w) THEN [asset EXCEPT ![purging[w].row] = row]
                                                         ELSE asset
                            /\ row.state \in {"purge_claimed", "purge_failed"}
                            /\ ~row.active
        <4> DEFINE old == asset[purging[w].row]
                   row == Asset("purge_failed", old.due, IF reason = "none" THEN old.reason ELSE reason)
        <4>1. row.state = "purge_failed" /\ ~row.active
          BY DEF Asset
        <4>2. asset' = IF HoldsClaim(w) THEN [asset EXCEPT ![purging[w].row] = row] ELSE asset
          BY <3>2 DEF FailPurge
        <4> HIDE DEF row
        <4> QED BY <4>1, <4>2
      <3> QED BY <3>1, <3>2
    <2> QED BY <1>1, <2>1 DEF HoldsClaim
  <1>3. \A r \in Row : OnlyGivenUp(r)
    BY <1>2 DEF OnlyGivenUp
  <1> QED BY <1>1, <1>3, GivesUp

\* One row is written.
LEMMA OneRowStep ==
    ASSUME MInv, NEW r \in Row, NEW row,
           asset' = [asset EXCEPT ![r] = row], UNCHANGED <<object, privacy>>,
           row.active => asset[r].active /\ row.state = asset[r].state,
           \/ row.state = asset[r].state
           \/ /\ asset[r].state \in {"staging", "ready", "purge_claimed", "purge_failed"}
              /\ row.state \in {"purge_claimed", "purge_failed"}
    PROVE  Custody!CustodyNext
  <1>1. asset'[r] = row /\ \A k \in Row \ {r} : asset'[k] = asset[k]
    BY DEF MInv, StoreInv, StoreTypeOK
  <1>2. ASSUME NEW k \in Row PROVE OnlyGivenUp(k)
    <2>1. CASE k = r
      BY <1>1, <2>1, StageOfRow DEF OnlyGivenUp
    <2>2. CASE k # r
      BY <1>1, <2>2 DEF OnlyGivenUp
    <2> QED BY <2>1, <2>2
  <1> QED BY <1>2, GivesUp

\* Whatever the hourly run does is a step of custody.
LEMMA CronCustody ==
    ASSUME MInv, SweepStep \/ \E w \in Worker : CronStep(w), UNCHANGED privacy
    PROVE  Custody!CustodyNext
  <1>1. ASSUME NEW w \in Worker, NEW r \in Row, ClaimDue(w, r)
        PROVE  Custody!CustodyNext
    <2> DEFINE row == Claimed(w, asset[r].due, asset[r].reason)
    <2>1. row.state = "purge_claimed" /\ ~row.active
      BY DEF Claimed
    <2>2. /\ asset' = [asset EXCEPT ![r] = row] /\ UNCHANGED object
          /\ asset[r].state \in {"ready", "purge_failed"}
      BY <1>1 DEF ClaimDue
    <2> HIDE DEF row
    <2> QED BY <2>1, <2>2, OneRowStep
  <1>2. ASSUME NEW w \in Worker, SealObject(w)
        PROVE  Custody!CustodyNext
    <2>1. purging[w].row \in Row /\ asset[purging[w].row].state \in GivenUp
      BY <1>2 DEF SealObject, MInv, StoreInv, StoreTypeOK, SealsOnlyGivenUp
    <2> QED BY <1>2, <2>1, SealStep DEF SealObject
  <1>3. ASSUME NEW r \in Row, LateSealLands(r)
        PROVE  Custody!CustodyNext
    <2>1. asset[r].state \in GivenUp
      BY <1>3 DEF LateSealLands, MInv, StoreInv, SealsOnlyGivenUp
    <2> QED BY <1>3, <2>1, SealStep DEF LateSealLands
  <1>4. ASSUME NEW r \in Row, MarkStale(r) \/ RecoverClaim(r)
        PROVE  Custody!CustodyNext
    <2> DEFINE row == Asset("purge_failed",
                            IF asset[r].due = Never THEN 0 ELSE asset[r].due,
                            IF asset[r].due = Never THEN "stale_staging" ELSE asset[r].reason)
    <2>1. row.state = "purge_failed" /\ ~row.active
      BY DEF Asset
    <2>2. /\ asset' = [asset EXCEPT ![r] = row] /\ UNCHANGED object
          /\ asset[r].state \in {"staging", "purge_claimed"}
      BY <1>4 DEF MarkStale, RecoverClaim, Forsaken
    <2> HIDE DEF row
    <2> QED BY <2>1, <2>2, OneRowStep
  <1> QED BY <1>1, <1>2, <1>3, <1>4, SettleStep, BrokenPurgeStep DEF SweepStep, CronStep

-----------------------------------------------------------------------------

\* A row is reserved, or taken over.
LEMMA ReserveCustody ==
    ASSUME MInv, NEW h \in Request, CreateRow(h) \/ ReclaimRow(h)
    PROVE  Custody!CustodyNext
  <1> DEFINE row == Asset("staging", Never, "none")
  <1>0. UNCHANGED <<object, privacy>> /\ asset \in [Row -> AssetRecord]
    BY DEF CreateRow, ReclaimRow, contextVars, MInv, StoreInv, StoreTypeOK
  <1>r. PICK r \in Row : r = request[h].row
    BY RequestFields DEF CreateRow, ReclaimRow, KnowsRow
  <1>1. row.state = "staging" /\ ~row.active
    BY DEF Asset
  <1>2. CASE UNCHANGED asset
    BY <1>0, <1>2, NothingHappens
  <1>3. CASE asset' = [asset EXCEPT ![r] = row] /\ asset[r].state = "staging"
    <2> HIDE DEF row
    <2> QED BY <1>0, <1>1, <1>3, OneRowStep
  <1>4. CASE asset' = [asset EXCEPT ![r] = row] /\ asset[r].state = "absent" /\ Fenced = "none"
    <2> HIDE DEF row
    <2>1. CustodyOf[asset[r].state] = "none" /\ ~asset[r].active
      BY <1>0, <1>4, StageOfRow
    <2>2. asset'[r] = row /\ \A k \in Row \ {r} : asset'[k] = asset[k]
      BY <1>0, <1>4
    <2>3. \A k \in Row : CustodyOf[asset'[k].state] =
                             IF k = r THEN "kept" ELSE CustodyOf[asset[k].state]
      BY <1>1, <2>2, Stages
    <2>4. {k \in Row : asset[k].active}' = {k \in Row : asset[k].active}
      BY <1>1, <2>1, <2>2
    <2>5. privacy = "none"
      BY <1>4 DEF Fenced
    <2>6. Custody!Reserve(r)
      BY <1>0, <2>1, <2>3, <2>4, <2>5 DEF Custody!Reserve
    <2> QED BY <2>6 DEF Custody!CustodyNext
  <1> QED BY <1>r, <1>2, <1>3, <1>4 DEF CreateRow, ReclaimRow

\* A failed copy is given up.
LEMMA QuarantineCustody ==
    ASSUME MInv, NEW h \in Request, QuarantineCopy(h)
    PROVE  Custody!CustodyNext
  <1> DEFINE r == request[h].row
             row == Claimed(h, 0, ReasonOf(request[h].then))
  <1>0. UNCHANGED <<object, privacy>> /\ r \in Row
    BY RequestFields DEF QuarantineCopy, KnowsRow, contextVars
  <1>1. row.state = "purge_claimed" /\ ~row.active
    BY DEF Claimed
  <1>2. CASE UNCHANGED asset
    BY <1>0, <1>2, NothingHappens
  <1>3. CASE asset' = [asset EXCEPT ![r] = row] /\ asset[r].state = "staging"
    <2> HIDE DEF r, row
    <2> QED BY <1>0, <1>1, <1>3, OneRowStep
  <1> QED BY <1>2, <1>3 DEF QuarantineCopy, MayQuarantine

\* A clean-up ends, a seal lands, a delivery is killed.
LEMMA CleanupCustody ==
    ASSUME MInv, NEW h \in Request, FinishCleanup(h) \/ SealCopy(h) \/ Stop(h)
    PROVE  Custody!CustodyNext
  <1>0. UNCHANGED privacy /\ h \in Worker
    BY IngestionAssumption DEF FinishCleanup, SealCopy, Stop, contextVars
  <1>1. CASE FinishCleanup(h)
    BY <1>0, <1>1, SettleStep, BrokenPurgeStep DEF FinishCleanup
  <1>2. CASE SealCopy(h)
    BY <1>0, <1>2, CronCustody DEF SealCopy, CronStep
  <1>3. CASE Stop(h)
    BY <1>0, <1>3, NothingHappens, BrokenPurgeStep DEF Stop, storeVars
  <1> QED BY <1>1, <1>2, <1>3

\* Rows are set aside.
LEMMA AsideCustody ==
    ASSUME MInv, NEW h \in Request, SetEventAside(h) \/ Settle(h)
    PROVE  Custody!CustodyNext
  <1> DEFINE then == request[h].then
  <1>0. UNCHANGED <<object, privacy>> /\ asset \in [Row -> AssetRecord]
    BY DEF SetEventAside, Settle, contextVars, MInv, StoreInv, StoreTypeOK
  <1>1. \A r \in Row : asset'[r] = asset[r] \/ asset'[r] = SetAside(r, then)
    BY <1>0 DEF SetEventAside, Settle
  <1> HIDE DEF then
  <1>2. ASSUME NEW r \in Row, asset'[r] = SetAside(r, then)
        PROVE  OnlyGivenUp(r)
    <2>1. CASE SetAside(r, then) = asset[r]
      BY <1>2, <2>1 DEF OnlyGivenUp
    <2>2. CASE asset[r].state = "staging" /\ asset'[r] = Asset("purge_failed", 0, ReasonOf(then))
      <3>1. Asset("purge_failed", 0, ReasonOf(then)).state = "purge_failed"
            /\ ~Asset("purge_failed", 0, ReasonOf(then)).active
        BY DEF Asset
      <3> QED BY <2>2, <3>1 DEF OnlyGivenUp
    <2>3. CASE asset'[r].state = asset[r].state /\ ~asset'[r].active
      BY <2>3 DEF OnlyGivenUp
    <2> QED BY <1>2, <2>1, <2>2, <2>3 DEF SetAside
  <1>3. ASSUME NEW r \in Row PROVE OnlyGivenUp(r)
    BY <1>1, <1>2 DEF OnlyGivenUp
  <1> QED BY <1>0, <1>3, GivesUp

\* A verified copy is shown in the place of the one before.
LEMMA ActivateCustody ==
    ASSUME MInv, NEW h \in Request, Activate(h)
    PROVE  Custody!CustodyNext
  <1>r. PICK r \in Row : r = request[h].row
    BY RequestFields DEF Activate, KnowsRow
  <1>0. /\ UNCHANGED <<object, privacy>>
        /\ asset[r].state = "staging" /\ object[r] \in {"data", "sealed"}
    BY <1>r, RequestFields DEF Activate, Activatable, KnowsRow, contextVars
  <1>1. object[r] = "data"
    BY <1>0 DEF MInv, StoreInv, SealsOnlyGivenUp, GivenUp
  <1>2. /\ asset'[r].state = "ready" /\ asset'[r].active
        /\ \A k \in Row \ {r} : asset'[k].state = asset[k].state /\ ~asset'[k].active
    <2>1. asset'[r] = Asset("ready", Never, "none")
      BY <1>r DEF Activate
    <2>2. Asset("ready", Never, "none").state = "ready" /\ Asset("ready", Never, "none").active = TRUE
      BY DEF Asset
    <2>3. \A k \in Row \ {r} : asset'[k].state = asset[k].state /\ ~asset'[k].active
      BY <1>r DEF Activate
    <2> QED BY <2>1, <2>2, <2>3
  <1>3. privacy = "none"
    BY DEF Activate, Fenced
  <1>4. \A k \in Row : CustodyOf[asset'[k].state] = CustodyOf[asset[k].state]
    BY <1>0, <1>2, Stages
  <1>5. {k \in Row : asset[k].active}' = {r}
    BY <1>0, <1>2
  <1>6. CustodyOf[asset[r].state] = "kept"
    BY <1>0, Stages
  <1>7. Custody!Show(r)
    BY <1>0, <1>1, <1>3, <1>4, <1>5, <1>6 DEF Custody!Show
  <1> QED BY <1>7 DEF Custody!CustodyNext

\* What is reused stays as it is, a lease that runs out changes nothing either.
LEMMA SameStageCustody ==
    ASSUME MInv, (\E h \in Request : Retain(h)) \/ (\E r \in Row : LeaseExpires(r))
    PROVE  Custody!CustodyNext
  <1>1. UNCHANGED <<object, privacy>> /\ asset \in [Row -> AssetRecord]
    BY DEF Retain, LeaseExpires, contextVars, MInv, StoreInv, StoreTypeOK
  <1>2. \A r \in Row : asset'[r].state = asset[r].state /\ asset'[r].active = asset[r].active
    <2>1. ASSUME NEW h \in Request, Retain(h)
          PROVE  \A r \in Row : asset'[r].state = asset[r].state /\ asset'[r].active = asset[r].active
      BY <1>1, <2>1 DEF Retain
    <2>2. ASSUME NEW k \in Row, LeaseExpires(k)
          PROVE  \A r \in Row : asset'[r].state = asset[r].state /\ asset'[r].active = asset[r].active
      BY <1>1, <2>2 DEF LeaseExpires
    <2> QED BY <2>1, <2>2
  <1> QED BY <1>1, <1>2, GivesUp DEF OnlyGivenUp

\* An upload lands.
LEMMA LandCustody ==
    ASSUME MInv, NEW u \in uploads, Land(u)
    PROVE  Custody!CustodyNext
  <1>0. UNCHANGED <<asset, privacy>> /\ u.row \in Row /\ u.content \in {"data", "wrong"}
    BY DEF Land, contextVars, MInv, MediaTypeOK
  <1>1. CASE object[u.row] = "none"
    <2>1. asset[u.row].state \notin {"absent", "purged"}
      BY <1>0, <1>1 DEF MInv, BytesHaveRows, StoreInv, PurgedStaysErased
    <2>2. CustodyOf[asset[u.row].state] \in {"kept", "given_up"}
      BY <1>0, <2>1, StageOfRow
    <2>3. object' = [object EXCEPT ![u.row] = u.content]
      BY <1>1 DEF Land, PutIfFree
    <2>4. Custody!Arrive(u.row, u.content)
      BY <1>0, <1>1, <2>2, <2>3 DEF Custody!Arrive
    <2> QED BY <1>0, <2>4 DEF Custody!CustodyNext
  <1>2. CASE object[u.row] # "none"
    BY <1>0, <1>2, NothingHappens DEF Land, PutIfFree
  <1> QED BY <1>1, <1>2

\* The candidate is deleted, and the deletion completed.
LEMMA DeletionCustody ==
    ASSUME MInv, DeleteCandidate \/ CompletePrivacyRequest \/ DeleteOrRestoreWorkspace
    PROVE  Custody!CustodyNext
  <1>1. CASE DeleteCandidate
    <2>1. UNCHANGED object /\ privacy = "none" /\ privacy' = "processing"
      BY <1>1 DEF DeleteCandidate
    <2>2. \A r \in Row : asset'[r].state = asset[r].state /\ ~asset'[r].active
      BY <1>1, StageOfRow DEF DeleteCandidate
    <2>3. Custody!Delete
      BY <2>1, <2>2 DEF Custody!Delete
    <2> QED BY <2>3 DEF Custody!CustodyNext
  <1>2. CASE CompletePrivacyRequest
    <2>1. UNCHANGED <<asset, object>> /\ privacy = "processing" /\ privacy' = "completed"
      BY <1>2 DEF CompletePrivacyRequest, storeVars
    <2>2. \A r \in Row : CustodyOf[asset[r].state] \in {"none", "erased"}
      BY <1>2, Stages DEF CompletePrivacyRequest, AllErased
    <2>3. Custody!CompleteDeletion
      BY <2>1, <2>2 DEF Custody!CompleteDeletion
    <2> QED BY <2>3 DEF Custody!CustodyNext
  <1>3. CASE DeleteOrRestoreWorkspace
    BY <1>3, NothingHappens DEF DeleteOrRestoreWorkspace, storeVars
  <1> QED BY <1>1, <1>2, <1>3

-----------------------------------------------------------------------------

\* Deliveries that look, verify, send or meet a fence leave custody alone.
LEMMA RequestCustody ==
    ASSUME MInv, NEW h \in Request,
           \/ Begin(h) \/ DiscardAtOnce(h) \/ LookAgain(h)
           \/ Reuse(h) \/ Verify(h) \/ Put(h) \/ Barred(h)
    PROVE  Custody!CustodyNext
  <1>1. UNCHANGED <<asset, object, privacy>>
    BY DEF Begin, DiscardAtOnce, LookAgain, Reuse, Verify, Put, Barred, storeVars, contextVars
  <1> QED BY <1>1, NothingHappens

\* Every step is one of custody.
LEMMA CustodyStep ==
    ASSUME MInv, [MediaNext]_vars
    PROVE  [Custody!CustodyNext]_(Custody!custodyVars)
  <1>1. ASSUME NEW h \in Request, DeliveryStep(h) PROVE Custody!CustodyNext
    BY <1>1, RequestCustody, ReserveCustody, QuarantineCustody, CleanupCustody, AsideCustody,
       ActivateCustody, SameStageCustody
       DEF DeliveryStep
  <1>2. CASE PurgeStep
    <2>1. SweepStep \/ \E w \in Worker : CronStep(w)
      BY <1>2, IngestionAssumption DEF PurgeStep
    <2> QED BY <1>2, <2>1, CronCustody DEF PurgeStep, contextVars
  <1>3. CASE UNCHANGED vars
    BY <1>3, NothingHappens DEF vars, storeVars, contextVars
  <1> QED BY <1>1, <1>2, <1>3, LandCustody, SameStageCustody, DeletionCustody DEF MediaNext

\* There is nothing at first.
LEMMA CustodyInitial == MediaInit => Custody!CustodyInit
  <1> SUFFICES ASSUME MediaInit PROVE Custody!CustodyInit
    OBVIOUS
  <1>1. \A r \in Row : asset[r].state = "absent" /\ ~asset[r].active
    BY DEF MediaInit, StoreInit, Asset
  <1>2. object = [r \in Row |-> "none"] /\ privacy = "none"
    BY DEF MediaInit, StoreInit
  <1> QED BY <1>1, <1>2, Stages DEF Custody!CustodyInit

\* The media ingestion keeps the promises of MediaCustody.
THEOREM IngestionImplementsCustody == MediaSpec => ImplementsCustody
  BY CustodyInitial, CustodyStep, MediaInvariant, PTL
     DEF MediaSpec, ImplementsCustody, Custody!CustodySpec
=============================================================================
