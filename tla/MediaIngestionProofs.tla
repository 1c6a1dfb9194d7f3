------------------------- MODULE MediaIngestionProofs -------------------------
(***************************************************************************)
(* For any deliveries, cron runs, events and generations: deleted bytes    *)
(* never return, what recruiters see is verified and is what the last      *)
(* result brought, and a completed privacy request has erased everything.  *)
(***************************************************************************)
EXTENDS MediaIngestion, MediaStoreProofs

\* What delivery q knows of its row, given the rows a and the objects o.
KnowsRow(q, a, o) ==
    /\ q.pc \in {"reuse", "create", "reclaim", "verify", "put", "putting", "prepared", "reused", "quarantine"}
          => q.row \in Row
    /\ q.pc \in {"reclaim", "verify", "put", "putting", "prepared", "reused", "quarantine"}
          => a[q.row].state # "absent"
    /\ q.pc = "prepared" => o[q.row] \in {"data", "sealed"}

RequestsKnowRows == \A h \in Request : KnowsRow(request[h], asset, object)

\* Nothing is stored, or sent, for a row that was never reserved.
BytesHaveRows ==
    /\ \A u \in uploads : asset[u.row].state # "absent"
    /\ \A r \in Row : asset[r].state = "absent" => object[r] = "none"

ReadyHasData == \A r \in Row : asset[r].state = "ready" => object[r] = "data"

ShownAlone ==
    \A r \in Row : asset[r].active =>
        /\ asset[r].state = "ready"
        /\ \A k \in Row \ {r} : ~asset[k].active

ErasedOnceCompleted ==
    privacy = "completed" => \A r \in Row : asset[r].state \in {"absent", "purged"}

MInv ==
    /\ StoreInv
    /\ MediaTypeOK
    /\ RequestsKnowRows
    /\ BytesHaveRows
    /\ ReadyHasData
    /\ ShownAlone
    /\ ErasedOnceCompleted

-----------------------------------------------------------------------------
(* What is common to all steps. *)

\* What any step may do to a row and its object.
RowEffect(r) ==
    /\ asset[r].state # "absent" => asset'[r].state # "absent"
    /\ asset[r].state = "absent" => /\ object'[r] = object[r]
                                    /\ asset'[r].state # "absent" => privacy = "none"
    /\ asset[r].state = "purged" => asset'[r].state = "purged"
    /\ asset'[r].state = "ready" => asset[r].state = "ready" \/ object'[r] = "data"
    /\ object[r] \in {"data", "sealed"} => object'[r] \in {"data", "sealed"}

\* Nothing new is shown, or one copy alone.
ShownEffect ==
    \/ \A r \in Row : asset'[r].active => asset[r].active /\ asset'[r].state = "ready"
    \/ \E r \in Row : /\ asset'[r].state = "ready"
                      /\ \A k \in Row : asset'[k].active => k = r

\* Every delivery is where it was, or knows its row.
RequestEffect ==
    \A k \in Request :
        \/ request'[k].pc = request[k].pc /\ request'[k].row = request[k].row
        \/ KnowsRow(request'[k], asset', object')

\* The parts of the invariant follow from these effects.
LEMMA EffectsSuffice ==
    ASSUME MInv, StoreInv', MediaTypeOK',
           \A r \in Row : RowEffect(r), ShownEffect, RequestEffect,
           \A u \in uploads' : asset'[u.row].state # "absent",
           privacy' = "completed" => privacy = "completed" \/ (AllErased /\ UNCHANGED asset)
    PROVE  MInv'
  <1>1. RequestsKnowRows'
    <2> SUFFICES ASSUME NEW h \in Request PROVE KnowsRow(request'[h], asset', object')
      BY DEF RequestsKnowRows
    <2>1. CASE request'[h].pc = request[h].pc /\ request'[h].row = request[h].row
      <3>1. KnowsRow(request[h], asset, object)
        BY DEF MInv, RequestsKnowRows
      <3> QED BY <2>1, <3>1 DEF KnowsRow, RowEffect
    <2>2. CASE KnowsRow(request'[h], asset', object')
      BY <2>2
    <2> QED BY <2>1, <2>2 DEF RequestEffect
  <1>2. BytesHaveRows'
    BY DEF MInv, BytesHaveRows, RowEffect
  <1>3. ReadyHasData'
    BY DEF MInv, ReadyHasData, RowEffect, StoreInv, SealsOnlyGivenUp, GivenUp
  <1>4. ShownAlone'
    BY DEF MInv, ShownAlone, ShownEffect
  <1>5. ErasedOnceCompleted'
    <2> SUFFICES ASSUME privacy' = "completed", NEW r \in Row
                 PROVE  asset'[r].state \in {"absent", "purged"}
      BY DEF ErasedOnceCompleted
    <2>1. CASE privacy = "completed"
      BY <2>1 DEF MInv, ErasedOnceCompleted, RowEffect
    <2>2. CASE AllErased /\ UNCHANGED asset
      BY <2>2 DEF AllErased
    <2> QED BY <2>1, <2>2
  <1> QED BY <1>1, <1>2, <1>3, <1>4, <1>5 DEF MInv

\* Where a delivery may go on when it has cleaned up.
Continuation == {"none", "look", "fail", "stale", "discard"}

USE DEF Continuation

\* A delivery goes on.
LEMMA GoEffect ==
    ASSUME MediaTypeOK, NEW h \in Request, NEW r \in Row \cup {NoRow}, NEW token \in BOOLEAN,
           NEW then \in Continuation,
           NEW pc \in {"look", "reuse", "reclaim", "create", "verify", "put", "putting", "prepared",
                       "reused", "quarantine", "sealing", "fenced", "settle"},
           Go(h, pc, r, token, then)
    PROVE  /\ request' \in [Request -> RequestRecord]
           /\ \A k \in Request \ {h} : request'[k] = request[k]
           /\ request'[h].pc = pc /\ request'[h].row = r
  <1>1. request[h].event \in 0 .. MaxEvent
    BY DEF MediaTypeOK, RequestRecord
  <1>2. [pc |-> pc, event |-> request[h].event, row |-> r, token |-> token, then |-> then] \in RequestRecord
    BY <1>1 DEF RequestRecord
  <1> QED BY <1>2 DEF Go, MediaTypeOK

\* The token and the continuation of a delivery, and its row, are what they are.
LEMMA RequestFields ==
    ASSUME MInv, NEW h \in Request
    PROVE  /\ request[h].token \in BOOLEAN
           /\ request[h].then \in Continuation
           /\ request[h].row \in Row \cup {NoRow}
           /\ request[h].event \in 0 .. MaxEvent
           /\ KnowsRow(request[h], asset, object)
           /\ Fenced \in {"none", "stale", "discard"}
  BY DEF MInv, MediaTypeOK, RequestRecord, RequestsKnowRows, Fenced

\* An idle delivery is a delivery.
LEMMA IdleTyped == Idle \in RequestRecord
  <1>1. 0 \in 0 .. MaxEvent
    BY IngestionAssumption
  <1> QED BY <1>1 DEF Idle, RequestRecord

-----------------------------------------------------------------------------
(* Steps of a delivery that leave rows and objects alone. *)

\* Such a step keeps the invariant when the delivery knows its row.
LEMMA RequestOnlySafe ==
    ASSUME MInv, UNCHANGED <<storeVars, contextVars>>, RequestEffect,
           request' \in [Request -> RequestRecord],
           stream' \in [owner : Request \cup {NoRequest}, settled : 0 .. MaxEvent, shown : 0 .. MaxEvent],
           uploads' \in SUBSET [row : Row, content : {"data", "wrong"}, by : Request \cup {NoRequest}],
           \A u \in uploads' : asset[u.row].state # "absent"
    PROVE  MInv'
  <1> USE DEF storeVars, contextVars
  <1>1. StoreInv'
    BY DEF MInv, StoreInv, StoreTypeOK, AckMeansSealed, SealsOnlyGivenUp, PurgedStaysErased
  <1>2. MediaTypeOK'
    BY <1>1 DEF MInv, MediaTypeOK, StoreInv
  <1>3. \A r \in Row : RowEffect(r)
    BY DEF RowEffect, MInv, ReadyHasData
  <1>4. ShownEffect
    BY DEF ShownEffect, MInv, ShownAlone
  <1> QED BY <1>1, <1>2, <1>3, <1>4, EffectsSuffice

\* A delivery starts.
LEMMA BeginSafe ==
    ASSUME MInv, NEW h \in Request, Begin(h) \/ DiscardAtOnce(h)
    PROVE  MInv'
  <1> DEFINE e == stream.settled + 1
  <1>1. e \in Event /\ e \in 0 .. MaxEvent
    BY IngestionAssumption DEF Begin, DiscardAtOnce, Event
  <1>2. stream' \in [owner : Request \cup {NoRequest}, settled : 0 .. MaxEvent, shown : 0 .. MaxEvent]
    BY DEF Begin, DiscardAtOnce, MInv, MediaTypeOK
  <1>3. PICK q \in RequestRecord : /\ request' = [request EXCEPT ![h] = q]
                                   /\ KnowsRow(q, asset, object)
    <2>1. CASE Begin(h)
      <3>1. PICK r \in Row, found \in BOOLEAN :
              /\ IF found THEN IsStaging(e, r) ELSE IsNextRow(e, r)
              /\ request' = [request EXCEPT ![h] =
                   [pc |-> IF found THEN "reclaim" ELSE "reuse",
                    event |-> e, row |-> r, token |-> found, then |-> "none"]]
        BY <2>1 DEF Begin
      <3> DEFINE q == [pc |-> IF found THEN "reclaim" ELSE "reuse",
                       event |-> e, row |-> r, token |-> found, then |-> "none"]
      <3> HIDE DEF e
      <3>2. q \in RequestRecord
        BY <1>1 DEF RequestRecord
      <3>3. KnowsRow(q, asset, object)
        BY <3>1 DEF KnowsRow, IsStaging
      <3> QED BY <3>1, <3>2, <3>3
    <2>2. CASE DiscardAtOnce(h)
      <3> DEFINE q == [pc |-> "settle", event |-> e, row |-> NoRow, token |-> FALSE, then |-> "discard"]
      <3>1. request' = [request EXCEPT ![h] = q]
        BY <2>2 DEF DiscardAtOnce
      <3> HIDE DEF e
      <3>2. q \in RequestRecord
        BY <1>1 DEF RequestRecord
      <3>3. KnowsRow(q, asset, object)
        BY DEF KnowsRow
      <3> QED BY <3>1, <3>2, <3>3
    <2> QED BY <2>1, <2>2
  <1>4. UNCHANGED <<storeVars, contextVars, uploads>>
    BY DEF Begin, DiscardAtOnce
  <1>5. request' \in [Request -> RequestRecord]
    BY <1>3 DEF MInv, MediaTypeOK
  <1>6. RequestEffect
    BY <1>3, <1>4 DEF RequestEffect, MInv, MediaTypeOK, storeVars
  <1> QED BY <1>2, <1>4, <1>5, <1>6, RequestOnlySafe DEF MInv, MediaTypeOK, BytesHaveRows

\* A delivery goes on to a place where it knows its row.
LEMMA GoSafe ==
    ASSUME MInv, NEW h \in Request, NEW r \in Row \cup {NoRow}, NEW token \in BOOLEAN,
           NEW then \in Continuation,
           NEW pc \in {"look", "reuse", "reclaim", "create", "verify", "put", "putting", "prepared",
                       "reused", "quarantine", "sealing", "fenced", "settle"},
           Go(h, pc, r, token, then), UNCHANGED <<storeVars, contextVars, stream, uploads>>,
           pc \notin {"look", "sealing", "fenced", "settle"} => r \in Row,
           pc \notin {"look", "sealing", "fenced", "settle", "create", "reuse"} => asset[r].state # "absent",
           pc = "prepared" => object[r] \in {"data", "sealed"}
    PROVE  MInv'
  <1>1. /\ request' \in [Request -> RequestRecord]
        /\ \A k \in Request \ {h} : request'[k] = request[k]
        /\ request'[h].pc = pc /\ request'[h].row = r
    BY GoEffect DEF MInv
  <1>2. KnowsRow(request'[h], asset', object')
    BY <1>1 DEF KnowsRow, storeVars
  <1>3. RequestEffect
    BY <1>1, <1>2 DEF RequestEffect
  <1> QED BY <1>1, <1>3, RequestOnlySafe DEF MInv, MediaTypeOK, BytesHaveRows

\* Looking for a checkpoint again, or for media to reuse, verifying what is stored,
\* and meeting a fence in the end.
LEMMA LooksSafe ==
    ASSUME MInv, NEW h \in Request, LookAgain(h) \/ Reuse(h) \/ Verify(h) \/ Barred(h)
    PROVE  MInv'
  <1>0. KnowsRow(request[h], asset, object) /\ request[h].token \in BOOLEAN
    BY RequestFields
  <1>1. CASE LookAgain(h)
    BY <1>1, GoSafe DEF LookAgain, IsStaging
  <1>2. CASE Reuse(h)
    <2>1. request[h].row \in Row
      BY <1>0, <1>2 DEF Reuse, KnowsRow
    <2>2. UNCHANGED <<storeVars, contextVars, stream, uploads>>
      BY <1>2 DEF Reuse
    <2>3. Fenced \in {"none", "stale", "discard"}
      BY DEF Fenced
    <2>4. CASE Go(h, "fenced", NoRow, FALSE, Fenced)
      BY <2>2, <2>3, <2>4, GoSafe
    <2>5. CASE Go(h, "look", NoRow, FALSE, "none")
      BY <2>2, <2>5, GoSafe
    <2>6. CASE Go(h, "create", request[h].row, FALSE, "none")
      BY <2>1, <2>2, <2>6, GoSafe
    <2>7. ASSUME NEW r \in Row, Reusable(request[h].event, r), Go(h, "reused", r, FALSE, "none")
          PROVE  MInv'
      BY <2>2, <2>7, GoSafe DEF Reusable
    <2> QED BY <1>2, <2>4, <2>5, <2>6, <2>7 DEF Reuse
  <1>3. CASE Verify(h)
    <2>1. request[h].row \in Row /\ asset[request[h].row].state # "absent"
      BY <1>0, <1>3 DEF Verify, KnowsRow
    <2>2. UNCHANGED <<storeVars, contextVars, stream, uploads>>
      BY <1>3 DEF Verify
    <2>3. CASE object[request[h].row] = "data"
      <3>1. Go(h, "prepared", request[h].row, request[h].token, "none")
        BY <1>3, <2>3 DEF Verify
      <3> QED BY <1>0, <2>1, <2>2, <2>3, <3>1, GoSafe
    <2>4. CASE object[request[h].row] = "none"
      <3>1. Go(h, "put", request[h].row, request[h].token, "none")
        BY <1>3, <2>4 DEF Verify
      <3> QED BY <1>0, <2>1, <2>2, <3>1, GoSafe
    <2>5. CASE object[request[h].row] \in {"wrong", "sealed"}
      <3>1. Go(h, "quarantine", request[h].row, request[h].token, "look")
        BY <1>3, <2>5 DEF Verify
      <3> QED BY <1>0, <2>1, <2>2, <3>1, GoSafe
    <2> QED BY <2>1, <2>3, <2>4, <2>5 DEF MInv, StoreInv, StoreTypeOK
  <1>4. CASE Barred(h)
    <2>1. request[h].row \in Row
      BY <1>0, <1>4 DEF Barred, KnowsRow
    <2>2. UNCHANGED <<storeVars, contextVars, stream, uploads>>
      BY <1>4 DEF Barred
    <2>3. Fenced \in {"none", "stale", "discard"}
      BY DEF Fenced
    <2>4. \E then \in {"stale", "discard"} : Go(h, "settle", request[h].row, FALSE, then)
      BY <1>4, <2>3 DEF Barred
    <2> QED BY <2>1, <2>2, <2>4, GoSafe
  <1> QED BY <1>1, <1>2, <1>3, <1>4

\* An upload is sent.
LEMMA PutSafe ==
    ASSUME MInv, NEW h \in Request, Put(h)
    PROVE  MInv'
  <1> DEFINE r == request[h].row
  <1>1. r \in Row /\ asset[r].state # "absent" /\ request[h].token \in BOOLEAN
    BY RequestFields DEF Put, KnowsRow
  <1>2. PICK content \in {"data", "wrong"} :
          uploads' = uploads \cup {[row |-> r, content |-> content, by |-> h]}
    BY DEF Put
  <1>3. Go(h, "putting", r, request[h].token, "none") /\ UNCHANGED <<storeVars, stream, contextVars>>
    BY DEF Put
  <1>4. /\ request' \in [Request -> RequestRecord]
        /\ \A k \in Request \ {h} : request'[k] = request[k]
        /\ request'[h].pc = "putting" /\ request'[h].row = r
    BY <1>1, <1>3, GoEffect DEF MInv
  <1>5. KnowsRow(request'[h], asset', object')
    BY <1>1, <1>3, <1>4 DEF KnowsRow, storeVars
  <1>6. RequestEffect
    BY <1>4, <1>5 DEF RequestEffect
  <1>7. uploads' \in SUBSET [row : Row, content : {"data", "wrong"}, by : Request \cup {NoRequest}]
    BY <1>1, <1>2 DEF MInv, MediaTypeOK
  <1>8. \A u \in uploads' : asset[u.row].state # "absent"
    BY <1>1, <1>2 DEF MInv, BytesHaveRows
  <1> QED BY <1>3, <1>4, <1>6, <1>7, <1>8, RequestOnlySafe DEF MInv, MediaTypeOK

-----------------------------------------------------------------------------
(* Steps that write rows. *)

\* What writers may do to the state of a row.
RowWrite(r) ==
    \/ asset'[r].state = asset[r].state
    \/ asset[r].state = "absent" /\ asset'[r].state = "staging" /\ privacy = "none"
    \/ asset[r].state = "staging" /\ asset'[r].state \in {"purge_claimed", "purge_failed"}
    \/ asset[r].state = "staging" /\ asset'[r].state = "ready" /\ object[r] = "data"

\* A step that writes rows in one of these ways keeps the invariant.
LEMMA RowWriterSafe ==
    ASSUME MInv, asset' \in [Row -> AssetRecord], UNCHANGED <<object, lateSeals, elapsed, uploads>>,
           purging' \in [Worker -> [row : Row \cup {NoRow}, sealed : BOOLEAN]],
           \A w \in Worker :
              \/ purging'[w] = purging[w]
              \/ /\ ~purging'[w].sealed
                 /\ purging'[w].row \in Row => asset'[purging'[w].row].state \in GivenUp,
           \A r \in Row : RowWrite(r), ShownEffect, RequestEffect,
           request' \in [Request -> RequestRecord],
           stream' \in [owner : Request \cup {NoRequest}, settled : 0 .. MaxEvent, shown : 0 .. MaxEvent],
           UNCHANGED workspace, privacy' = privacy \/ privacy' = "processing"
    PROVE  MInv'
  <1>1. StoreTypeOK'
    BY DEF MInv, StoreInv, StoreTypeOK
  <1>2. StoreInv'
    <2>1. \A r \in Row : /\ asset[r].state \in GivenUp => asset'[r].state \in GivenUp
                         /\ asset'[r].state = "purged" => asset[r].state = "purged"
                         /\ (object[r] = "sealed") <=> (object'[r] = "sealed")
      BY DEF RowWrite, GivenUp
    <2> QED BY <1>1, <2>1, WriterSafe DEF MInv
  <1>3. MediaTypeOK'
    BY <1>1 DEF MInv, MediaTypeOK
  <1>4. \A r \in Row : RowEffect(r)
    BY DEF RowEffect, RowWrite
  <1>5. \A u \in uploads' : asset'[u.row].state # "absent"
    BY DEF MInv, BytesHaveRows, MediaTypeOK, RowWrite
  <1> QED BY <1>2, <1>3, <1>4, <1>5, EffectsSuffice

\* One row is written, or none, and the delivery goes on.
LEMMA OneRowSafe ==
    ASSUME MInv, NEW h \in Request, NEW r \in Row, NEW row \in AssetRecord,
           asset' = [asset EXCEPT ![r] = row], RowWrite(r),
           row.active => asset[r].active /\ row.state = "ready",
           UNCHANGED <<object, lateSeals, elapsed, uploads, contextVars>>,
           \/ UNCHANGED purging
           \/ StartSeal(h, r) /\ row.state \in GivenUp,
           RequestEffect, request' \in [Request -> RequestRecord],
           stream' \in [owner : Request \cup {NoRequest}, settled : 0 .. MaxEvent, shown : 0 .. MaxEvent]
    PROVE  MInv'
  <1>0. h \in Worker
    BY IngestionAssumption
  <1>1. asset' \in [Row -> AssetRecord] /\ asset'[r] = row /\ \A k \in Row \ {r} : asset'[k] = asset[k]
    BY DEF MInv, StoreInv, StoreTypeOK
  <1>2. purging' \in [Worker -> [row : Row \cup {NoRow}, sealed : BOOLEAN]]
    <2>1. [row |-> r, sealed |-> FALSE] \in [row : Row \cup {NoRow}, sealed : BOOLEAN]
      OBVIOUS
    <2>2. purging \in [Worker -> [row : Row \cup {NoRow}, sealed : BOOLEAN]]
      BY DEF MInv, StoreInv, StoreTypeOK
    <2>3. CASE UNCHANGED purging
      BY <2>2, <2>3
    <2>4. CASE StartSeal(h, r)
      BY <1>0, <2>1, <2>2, <2>4 DEF StartSeal
    <2> QED BY <2>3, <2>4
  <1>3. \A w \in Worker :
           \/ purging'[w] = purging[w]
           \/ /\ ~purging'[w].sealed
              /\ purging'[w].row \in Row => asset'[purging'[w].row].state \in GivenUp
    BY <1>0, <1>1 DEF StartSeal, MInv, StoreInv, StoreTypeOK
  <1>4. \A k \in Row : RowWrite(k)
    BY <1>1 DEF RowWrite
  <1>5. ShownEffect
    BY <1>1 DEF ShownEffect, MInv, ShownAlone
  <1> QED BY <1>1, <1>2, <1>3, <1>4, <1>5, RowWriterSafe DEF contextVars

\* A new row is reserved.
LEMMA CreateRowSafe ==
    ASSUME MInv, NEW h \in Request, CreateRow(h)
    PROVE  MInv'
  <1> DEFINE r == request[h].row
  <1>0. r \in Row /\ Fenced \in {"none", "stale", "discard"}
    BY RequestFields DEF CreateRow, KnowsRow
  <1>1. UNCHANGED <<object, purging, lateSeals, elapsed, stream, uploads, contextVars>>
    BY DEF CreateRow
  <1>2. CASE Fenced # "none"
    <2>1. Go(h, "fenced", NoRow, FALSE, Fenced) /\ UNCHANGED asset
      BY <1>2 DEF CreateRow
    <2> QED BY <1>0, <1>1, <1>2, <2>1, GoSafe DEF storeVars
  <1>3. CASE Fenced = "none" /\ asset[r].state # "absent"
    <2>1. Go(h, "look", NoRow, FALSE, "none") /\ UNCHANGED asset
      BY <1>3 DEF CreateRow
    <2> QED BY <1>1, <2>1, GoSafe DEF storeVars
  <1>4. CASE Fenced = "none" /\ asset[r].state = "absent"
    <2> DEFINE row == Asset("staging", Never, "none")
    <2>1. Go(h, "verify", r, TRUE, "none") /\ asset' = [asset EXCEPT ![r] = row]
      BY <1>4 DEF CreateRow
    <2>2. row \in AssetRecord /\ row.state = "staging" /\ ~row.active
      BY RowTypes, Deadlines DEF Asset
    <2>3. privacy = "none"
      BY <1>4 DEF Fenced
    <2>4. /\ request' \in [Request -> RequestRecord]
          /\ \A k \in Request \ {h} : request'[k] = request[k]
          /\ request'[h].pc = "verify" /\ request'[h].row = r
      BY <1>0, <2>1, GoEffect DEF MInv
    <2> HIDE DEF row
    <2>5. asset'[r] = row
      BY <1>0, <2>1 DEF MInv, StoreInv, StoreTypeOK
    <2>6. RequestEffect
      BY <1>0, <2>2, <2>4, <2>5 DEF RequestEffect, KnowsRow
    <2>7. RowWrite(r)
      BY <1>4, <2>2, <2>3, <2>5 DEF RowWrite
    <2> QED BY <1>0, <1>1, <2>1, <2>2, <2>4, <2>6, <2>7, OneRowSafe DEF MInv, MediaTypeOK
  <1> QED BY <1>2, <1>3, <1>4

\* A row in staging is taken over.
LEMMA ReclaimRowSafe ==
    ASSUME MInv, NEW h \in Request, ReclaimRow(h)
    PROVE  MInv'
  <1> DEFINE r == request[h].row
  <1>0. r \in Row /\ asset[r].state # "absent" /\ Fenced \in {"none", "stale", "discard"}
        /\ request[h].token \in BOOLEAN
    BY RequestFields DEF ReclaimRow, KnowsRow
  <1>1. UNCHANGED <<object, purging, lateSeals, elapsed, stream, uploads, contextVars>>
    BY DEF ReclaimRow
  <1>2. CASE Fenced # "none"
    <2>1. Go(h, "quarantine", r, request[h].token, Fenced) /\ UNCHANGED asset
      BY <1>2 DEF ReclaimRow
    <2> QED BY <1>0, <1>1, <1>2, <2>1, GoSafe DEF storeVars
  <1>3. CASE Fenced = "none"
    <2> DEFINE row == Asset("staging", Never, "none")
    <2>1. /\ asset[r].state = "staging"
          /\ asset' = [asset EXCEPT ![r] = row]
          /\ request' = [k \in Request |->
               IF k = h THEN [pc |-> "verify", event |-> request[h].event, row |-> r,
                              token |-> TRUE, then |-> "none"]
               ELSE [pc |-> request[k].pc, event |-> request[k].event, row |-> request[k].row,
                     token |-> request[k].token /\ request[k].row # r,
                     then |-> request[k].then]]
      BY <1>3 DEF ReclaimRow
    <2>2. row \in AssetRecord /\ row.state = "staging" /\ ~row.active
      BY RowTypes, Deadlines DEF Asset
    <2> HIDE DEF row
    <2>3. asset'[r] = row
      BY <1>0, <2>1 DEF MInv, StoreInv, StoreTypeOK
    <2>4. request' \in [Request -> RequestRecord]
      <3>1. [pc |-> "verify", event |-> request[h].event, row |-> r, token |-> TRUE, then |-> "none"]
              \in RequestRecord
        BY <1>0, RequestFields DEF RequestRecord
      <3>2. \A k \in Request :
              [pc |-> request[k].pc, event |-> request[k].event, row |-> request[k].row,
               token |-> request[k].token /\ request[k].row # r, then |-> request[k].then] \in RequestRecord
        BY DEF RequestRecord, MInv, MediaTypeOK
      <3> QED BY <2>1, <3>1, <3>2
    <2>5. RequestEffect
      <3>1. \A k \in Request \ {h} : request'[k].pc = request[k].pc /\ request'[k].row = request[k].row
        BY <2>1
      <3>2. request'[h].pc = "verify" /\ request'[h].row = r
        BY <2>1
      <3>3. KnowsRow(request'[h], asset', object')
        BY <1>0, <2>2, <2>3, <3>2 DEF KnowsRow
      <3> QED BY <3>1, <3>3 DEF RequestEffect
    <2>6. RowWrite(r)
      BY <2>1, <2>2, <2>3 DEF RowWrite
    <2> QED BY <1>0, <1>1, <2>1, <2>2, <2>4, <2>5, <2>6, OneRowSafe DEF MInv, MediaTypeOK
  <1> QED BY <1>2, <1>3

\* A delivery that gives up claims its row, or goes on without it.
LEMMA QuarantineCopySafe ==
    ASSUME MInv, NEW h \in Request, QuarantineCopy(h)
    PROVE  MInv'
  <1> DEFINE r == request[h].row
             then == request[h].then
  <1>0. r \in Row /\ asset[r].state # "absent" /\ then \in Continuation
    BY RequestFields DEF QuarantineCopy, KnowsRow
  <1>1. UNCHANGED <<object, lateSeals, elapsed, stream, uploads, contextVars>>
    BY DEF QuarantineCopy
  <1>2. CASE MayQuarantine(h)
    <2> DEFINE row == Claimed(h, 0, ReasonOf(then))
    <2>1. /\ asset[r].state = "staging"
          /\ asset' = [asset EXCEPT ![r] = row]
          /\ StartSeal(h, r)
          /\ Go(h, "sealing", r, FALSE, then)
      BY <1>2 DEF QuarantineCopy, MayQuarantine
    <2>2. row \in AssetRecord /\ row.state = "purge_claimed" /\ ~row.active
      <3>1. ReasonOf(then) \in {"privacy_request", "stale_staging"}
        BY DEF ReasonOf
      <3>2. h \in Worker
        BY IngestionAssumption
      <3> HIDE DEF then
      <3>3. row \in AssetRecord
        BY <3>1, <3>2, RowTypes, Deadlines
      <3>4. row.state = "purge_claimed" /\ ~row.active
        BY DEF Claimed
      <3> QED BY <3>3, <3>4
    <2>3. /\ request' \in [Request -> RequestRecord]
          /\ \A k \in Request \ {h} : request'[k] = request[k]
          /\ request'[h].pc = "sealing"
      <3>1. MediaTypeOK /\ FALSE \in BOOLEAN
        BY DEF MInv
      <3>2. Go(h, "sealing", r, FALSE, then)
        BY <2>1
      <3> HIDE DEF r, then, Continuation
      <3>3. r \in Row \cup {NoRow}
        BY <1>0
      <3> QED BY <1>0, <3>1, <3>2, <3>3, GoEffect
    <2> HIDE DEF row
    <2>4. RequestEffect
      BY <2>3 DEF RequestEffect, KnowsRow
    <2>5. RowWrite(r)
      BY <1>0, <2>1, <2>2 DEF RowWrite, MInv, StoreInv, StoreTypeOK
    <2>6. row.state \in GivenUp
      BY <2>2 DEF GivenUp
    <2> QED BY <1>0, <1>1, <2>1, <2>2, <2>3, <2>4, <2>5, <2>6, OneRowSafe DEF MInv, MediaTypeOK
  <1>3. CASE ~MayQuarantine(h)
    <2>1. Go(h, "fenced", NoRow, FALSE, then) /\ UNCHANGED <<asset, purging>>
      BY <1>3 DEF QuarantineCopy
    <2> QED BY <1>0, <1>1, <2>1, GoSafe DEF storeVars
  <1> QED BY <1>2, <1>3

\* What setting a row aside does.
LEMMA SetAsideRow ==
    ASSUME MInv, NEW r \in Row, NEW then \in Continuation
    PROVE  /\ SetAside(r, then) \in AssetRecord
           /\ \/ SetAside(r, then).state = asset[r].state
              \/ asset[r].state = "staging" /\ SetAside(r, then).state = "purge_failed"
           /\ SetAside(r, then).active => asset[r].active /\ SetAside(r, then).state = "ready"
  <1>1. asset[r] \in AssetRecord
    BY RowFields DEF MInv
  <1> DEFINE staged == asset[r].state = "staging" /\ (then = "discard" \/ asset[r].reason # "privacy_request")
             shown == asset[r].state = "ready" /\ then = "discard"
  <1>2. CASE staged
    <2> DEFINE row == Asset("purge_failed", 0, ReasonOf(then))
    <2>1. ReasonOf(then) \in {"privacy_request", "stale_staging"}
      BY DEF ReasonOf
    <2>2. row \in AssetRecord
      BY <2>1, RowTypes, Deadlines
    <2>3. row.state = "purge_failed" /\ ~row.active
      BY DEF Asset
    <2>4. SetAside(r, then) = row
      BY <1>2 DEF SetAside
    <2> HIDE DEF row
    <2> QED BY <1>2, <2>2, <2>3, <2>4
  <1>3. CASE shown
    <2> DEFINE row == [state |-> "ready", active |-> FALSE, lease |-> asset[r].lease,
                       due |-> 0, reason |-> "privacy_request", claim |-> asset[r].claim]
    <2>1. row \in AssetRecord
      BY <1>1, Deadlines DEF AssetRecord
    <2>2. row.state = "ready" /\ ~row.active
      OBVIOUS
    <2>3. SetAside(r, then) = row
      BY <1>3 DEF SetAside
    <2> HIDE DEF row
    <2> QED BY <1>3, <2>1, <2>2, <2>3
  <1>4. CASE ~staged /\ ~shown
    <2>1. SetAside(r, then) = asset[r]
      BY <1>4 DEF SetAside
    <2> QED BY <1>1, <2>1 DEF MInv, ShownAlone
  <1> QED BY <1>2, <1>3, <1>4

\* The rows of an event, or the row of a delivery, are set aside.
LEMMA AsideSafe ==
    ASSUME MInv, NEW h \in Request, SetEventAside(h) \/ Settle(h)
    PROVE  MInv'
  <1> DEFINE then == request[h].then
  <1>0. then \in Continuation
    BY RequestFields
  <1>1. UNCHANGED <<object, purging, lateSeals, elapsed, uploads, contextVars>>
    BY DEF SetEventAside, Settle
  <1>2. \A r \in Row : asset'[r] = asset[r] \/ asset'[r] = SetAside(r, then)
    BY DEF SetEventAside, Settle, MInv, StoreInv, StoreTypeOK
  <1>3. DOMAIN asset' = Row /\ asset' = [r \in Row |-> asset'[r]]
    BY DEF SetEventAside, Settle, MInv, StoreInv, StoreTypeOK
  <1>4. /\ request' \in [Request -> RequestRecord]
        /\ RequestEffect
    <2>1. CASE SetEventAside(h)
      <3>1. Go(h, "settle", NoRow, FALSE, then)
        BY <2>1 DEF SetEventAside
      <3>2. /\ request' \in [Request -> RequestRecord]
            /\ \A k \in Request \ {h} : request'[k] = request[k]
            /\ request'[h].pc = "settle"
        <4>1. MediaTypeOK /\ FALSE \in BOOLEAN
          BY DEF MInv
        <4> HIDE DEF then, Continuation
        <4> QED BY <1>0, <3>1, <4>1, GoEffect
      <3> QED BY <3>2 DEF RequestEffect, KnowsRow
    <2>2. CASE Settle(h)
      <3>1. request' = [request EXCEPT ![h] = Idle]
        BY <2>2 DEF Settle
      <3> QED BY <3>1, IdleTyped DEF RequestEffect, KnowsRow, Idle, MInv, MediaTypeOK
    <2> QED BY <2>1, <2>2
  <1>5. stream' \in [owner : Request \cup {NoRequest}, settled : 0 .. MaxEvent, shown : 0 .. MaxEvent]
    <2>1. stream.shown \in 0 .. MaxEvent /\ request[h].event \in 0 .. MaxEvent
      BY RequestFields DEF MInv, MediaTypeOK
    <2>2. Settled(request[h].event, stream.shown)
            \in [owner : Request \cup {NoRequest}, settled : 0 .. MaxEvent, shown : 0 .. MaxEvent]
      BY <2>1 DEF Settled
    <2>3. stream' = stream \/ stream' = Settled(request[h].event, stream.shown)
      BY DEF SetEventAside, Settle
    <2> QED BY <2>2, <2>3, Zenon DEF MInv, MediaTypeOK
  <1> HIDE DEF then
  <1>6. asset' \in [Row -> AssetRecord]
    BY <1>0, <1>2, <1>3, SetAsideRow, RowFields DEF MInv
  <1>7. \A r \in Row : RowWrite(r)
    BY <1>0, <1>2, SetAsideRow DEF RowWrite
  <1>8. ShownEffect
    BY <1>0, <1>2, SetAsideRow DEF ShownEffect, MInv, ShownAlone
  <1>9. purging' \in [Worker -> [row : Row \cup {NoRow}, sealed : BOOLEAN]]
    BY <1>1 DEF MInv, StoreInv, StoreTypeOK
  <1> QED BY <1>1, <1>4, <1>5, <1>6, <1>7, <1>8, <1>9, RowWriterSafe DEF contextVars

\* What is settled and shown in the end is an event.
LEMMA SettledTyped ==
    ASSUME MInv, NEW h \in Request
    PROVE  Settled(request[h].event, request[h].event)
             \in [owner : Request \cup {NoRequest}, settled : 0 .. MaxEvent, shown : 0 .. MaxEvent]
  BY RequestFields DEF Settled

\* A delivery that ends knows nothing.
LEMMA IdleEffect ==
    ASSUME MInv, NEW h \in Request, request' = [request EXCEPT ![h] = Idle]
    PROVE  request' \in [Request -> RequestRecord] /\ RequestEffect
  BY IdleTyped DEF RequestEffect, KnowsRow, Idle, MInv, MediaTypeOK

\* A new copy is shown alone, and its bytes are verified.
LEMMA ActivateSafe ==
    ASSUME MInv, NEW h \in Request, Activate(h)
    PROVE  MInv'
  <1> DEFINE r == request[h].row
             new == Asset("ready", Never, "none")
             Hidden(k) == [state |-> asset[k].state, active |-> FALSE, lease |-> asset[k].lease,
                           due |-> 0, reason |-> "replaced", claim |-> asset[k].claim]
  <1>0. r \in Row /\ asset[r].state = "staging" /\ object[r] \in {"data", "sealed"}
    BY RequestFields DEF Activate, Activatable, KnowsRow
  <1>1. object[r] = "data"
    BY <1>0 DEF MInv, StoreInv, SealsOnlyGivenUp, GivenUp
  <1>2. UNCHANGED <<object, purging, lateSeals, elapsed, uploads, contextVars>>
    BY DEF Activate
  <1>3. asset' = [k \in Row |-> IF k = r THEN new ELSE IF asset[k].active THEN Hidden(k) ELSE asset[k]]
    BY DEF Activate
  <1>4. new \in AssetRecord /\ new.state = "ready"
    BY RowTypes, Deadlines DEF Asset
  <1>5. \A k \in Row : Hidden(k) \in AssetRecord /\ Hidden(k).state = asset[k].state /\ ~Hidden(k).active
    <2> TAKE k \in Row
    <2>1. asset[k] \in AssetRecord
      BY RowFields DEF MInv
    <2> QED BY <2>1, Deadlines DEF AssetRecord
  <1>6. request' \in [Request -> RequestRecord] /\ RequestEffect
    BY IdleEffect DEF Activate
  <1>7. stream' \in [owner : Request \cup {NoRequest}, settled : 0 .. MaxEvent, shown : 0 .. MaxEvent]
    BY SettledTyped DEF Activate
  <1> HIDE DEF r, new, Hidden
  <1>8. asset' \in [Row -> AssetRecord]
    BY <1>3, <1>4, <1>5, RowFields DEF MInv
  <1>9. /\ asset'[r].state = "ready"
        /\ \A k \in Row \ {r} : asset'[k].state = asset[k].state /\ ~asset'[k].active
    <2>1. \A k \in Row : asset[k].active \in BOOLEAN
      BY DEF MInv, StoreInv, StoreTypeOK, AssetRecord
    <2> QED BY <1>0, <1>3, <1>4, <1>5, <2>1
  <1>10. \A k \in Row : RowWrite(k)
    BY <1>0, <1>1, <1>9 DEF RowWrite
  <1>11. ShownEffect
    BY <1>0, <1>9 DEF ShownEffect
  <1>12. purging' \in [Worker -> [row : Row \cup {NoRow}, sealed : BOOLEAN]]
    BY <1>2 DEF MInv, StoreInv, StoreTypeOK
  <1> QED BY <1>2, <1>6, <1>7, <1>8, <1>10, <1>11, <1>12, RowWriterSafe DEF contextVars

\* Reused media stay as they are.
LEMMA RetainSafe ==
    ASSUME MInv, NEW h \in Request, Retain(h)
    PROVE  MInv'
  <1> DEFINE r == request[h].row
             row == [state |-> asset[r].state, active |-> asset[r].active, lease |-> asset[r].lease,
                     due |-> Never, reason |-> "none", claim |-> asset[r].claim]
  <1>0. r \in Row
    BY RequestFields DEF Retain, KnowsRow
  <1>1. row \in AssetRecord /\ row.state = asset[r].state /\ row.active = asset[r].active
    <2>1. asset[r] \in AssetRecord
      BY <1>0, RowFields DEF MInv
    <2> QED BY <2>1, Deadlines DEF AssetRecord
  <1>2. asset' = [asset EXCEPT ![r] = row]
    BY DEF Retain
  <1>3. UNCHANGED <<object, purging, lateSeals, elapsed, uploads, contextVars>>
    BY DEF Retain
  <1>4. request' \in [Request -> RequestRecord] /\ RequestEffect
    BY IdleEffect DEF Retain
  <1>5. stream' \in [owner : Request \cup {NoRequest}, settled : 0 .. MaxEvent, shown : 0 .. MaxEvent]
    BY SettledTyped DEF Retain
  <1> HIDE DEF r, row
  <1>6. RowWrite(r)
    BY <1>0, <1>1, <1>2 DEF RowWrite, MInv, StoreInv, StoreTypeOK
  <1>7. row.active => asset[r].active /\ row.state = "ready"
    BY <1>0, <1>1 DEF MInv, ShownAlone
  <1> QED BY <1>0, <1>1, <1>2, <1>3, <1>4, <1>5, <1>6, <1>7, OneRowSafe

-----------------------------------------------------------------------------
(* What happens besides. *)

\* Nothing happens to the deliveries.
LEMMA RestEffect ==
    ASSUME MInv, UNCHANGED <<stream, request>>
    PROVE  /\ RequestEffect
           /\ request' \in [Request -> RequestRecord]
           /\ stream' \in [owner : Request \cup {NoRequest}, settled : 0 .. MaxEvent, shown : 0 .. MaxEvent]
  BY DEF MInv, MediaTypeOK, RequestEffect

\* A row's lease runs out.
LEMMA LeaseExpiresSafe ==
    ASSUME MInv, NEW r \in Row, LeaseExpires(r)
    PROVE  MInv'
  <1> DEFINE row == [state |-> asset[r].state, active |-> asset[r].active, lease |-> "expired",
                     due |-> asset[r].due, reason |-> asset[r].reason, claim |-> asset[r].claim]
  <1>1. row \in AssetRecord /\ row.state = asset[r].state /\ row.active = asset[r].active
    <2>1. asset[r] \in AssetRecord
      BY RowFields DEF MInv
    <2> QED BY <2>1 DEF AssetRecord
  <1>2. asset' = [asset EXCEPT ![r] = row]
    BY DEF LeaseExpires
  <1>3. UNCHANGED <<object, purging, lateSeals, elapsed, stream, request, uploads, contextVars>>
    BY DEF LeaseExpires
  <1> HIDE DEF row
  <1>4. asset' \in [Row -> AssetRecord] /\ asset'[r] = row /\ \A k \in Row \ {r} : asset'[k] = asset[k]
    BY <1>1, <1>2 DEF MInv, StoreInv, StoreTypeOK
  <1>5. \A k \in Row : RowWrite(k)
    BY <1>1, <1>4 DEF RowWrite
  <1>6. ShownEffect
    BY <1>1, <1>4 DEF ShownEffect, MInv, ShownAlone
  <1>7. purging' \in [Worker -> [row : Row \cup {NoRow}, sealed : BOOLEAN]]
    BY <1>3 DEF MInv, StoreInv, StoreTypeOK
  <1> QED BY <1>3, <1>4, <1>5, <1>6, <1>7, RestEffect, RowWriterSafe DEF contextVars

\* The candidate's deletion hides every row.
LEMMA DeleteCandidateSafe ==
    ASSUME MInv, DeleteCandidate
    PROVE  MInv'
  <1> DEFINE Doomed(r) == [state |-> asset[r].state, active |-> FALSE, lease |-> asset[r].lease,
                           due |-> 0, reason |-> "privacy_request", claim |-> asset[r].claim]
  <1>1. \A r \in Row : Doomed(r) \in AssetRecord /\ Doomed(r).state = asset[r].state /\ ~Doomed(r).active
    <2> TAKE r \in Row
    <2>1. asset[r] \in AssetRecord
      BY RowFields DEF MInv
    <2> QED BY <2>1, Deadlines DEF AssetRecord
  <1>2. asset' = [r \in Row |-> IF asset[r].state \in {"absent", "purged"} THEN asset[r] ELSE Doomed(r)]
    BY DEF DeleteCandidate
  <1>3. UNCHANGED <<object, purging, lateSeals, elapsed, stream, request, uploads, workspace>>
        /\ privacy' = "processing"
    BY DEF DeleteCandidate
  <1> HIDE DEF Doomed
  <1>4. asset' \in [Row -> AssetRecord]
    BY <1>1, <1>2, RowFields DEF MInv
  <1>5. \A r \in Row : RowWrite(r)
    BY <1>1, <1>2 DEF RowWrite
  <1>6. ShownEffect
    BY <1>1, <1>2 DEF ShownEffect, MInv, ShownAlone
  <1>7. purging' \in [Worker -> [row : Row \cup {NoRow}, sealed : BOOLEAN]]
    BY <1>3 DEF MInv, StoreInv, StoreTypeOK
  <1> QED BY <1>3, <1>4, <1>5, <1>6, <1>7, RestEffect, RowWriterSafe

\* A privacy request is completed, or the workspace changes.
LEMMA CompletePrivacyRequestSafe ==
    ASSUME MInv, CompletePrivacyRequest \/ DeleteOrRestoreWorkspace
    PROVE  MInv'
  <1>1. UNCHANGED <<storeVars, stream, request, uploads>>
    BY DEF CompletePrivacyRequest, DeleteOrRestoreWorkspace
  <1>2. StoreInv'
    BY <1>1 DEF storeVars, MInv, StoreInv, StoreTypeOK, AckMeansSealed, SealsOnlyGivenUp, PurgedStaysErased
  <1>3. MediaTypeOK'
    BY <1>1, <1>2 DEF CompletePrivacyRequest, DeleteOrRestoreWorkspace, MInv, MediaTypeOK, StoreInv
  <1>4. \A r \in Row : RowEffect(r)
    BY <1>1 DEF RowEffect, storeVars
  <1>5. ShownEffect
    BY <1>1 DEF ShownEffect, MInv, ShownAlone, storeVars
  <1>6. RequestEffect
    BY <1>1 DEF RequestEffect
  <1>7. \A u \in uploads' : asset'[u.row].state # "absent"
    BY <1>1 DEF MInv, BytesHaveRows, storeVars
  <1>8. privacy' = "completed" => privacy = "completed" \/ (AllErased /\ UNCHANGED asset)
    BY <1>1 DEF CompletePrivacyRequest, DeleteOrRestoreWorkspace, storeVars
  <1> QED BY <1>2, <1>3, <1>4, <1>5, <1>6, <1>7, <1>8, EffectsSuffice

\* What a delivery does when its upload has ended.
LEMMA SenderEffect ==
    ASSUME MInv, NEW h \in Request, NEW r \in Row, asset[r].state # "absent", UNCHANGED asset,
           NEW pc \in {"prepared", "quarantine", "verify"}, NEW then \in Continuation,
           Go(h, pc, r, request[h].token, then),
           pc = "prepared" => object'[r] \in {"data", "sealed"}
    PROVE  RequestEffect /\ request' \in [Request -> RequestRecord]
  <1>1. /\ request' \in [Request -> RequestRecord]
        /\ \A k \in Request \ {h} : request'[k] = request[k]
        /\ request'[h].pc = pc /\ request'[h].row = r
    <2>1. request[h].token \in BOOLEAN /\ MediaTypeOK
      BY RequestFields DEF MInv
    <2> HIDE DEF Continuation
    <2> QED BY <2>1, GoEffect
  <1>2. KnowsRow(request'[h], asset', object')
    BY <1>1 DEF KnowsRow
  <1> QED BY <1>1, <1>2 DEF RequestEffect

\* An upload lands, or finds its key taken.
LEMMA LandSafe ==
    ASSUME MInv, NEW u \in uploads, Land(u)
    PROVE  MInv'
  <1>0. u.row \in Row /\ u.content \in {"data", "wrong"} /\ asset[u.row].state # "absent"
        /\ u.by \in Request \cup {NoRequest}
    BY DEF MInv, MediaTypeOK, BytesHaveRows
  <1>1. uploads' = uploads \ {u} /\ UNCHANGED <<asset, purging, lateSeals, elapsed, stream, contextVars>>
    BY DEF Land
  <1>2. CASE object[u.row] = "none"
    <2>1. object' = [object EXCEPT ![u.row] = u.content]
      BY <1>2 DEF Land, PutIfFree
    <2>2. /\ object' \in [Row -> {"none", "data", "wrong", "sealed"}]
          /\ object'[u.row] = u.content
          /\ \A r \in Row \ {u.row} : object'[r] = object[r]
      BY <1>0, <2>1 DEF MInv, StoreInv, StoreTypeOK
    <2>3. RequestEffect /\ request' \in [Request -> RequestRecord]
      <3>1. CASE u.by \in Request /\ u.content = "data"
        <4>1. Go(u.by, "prepared", u.row, request[u.by].token, "none")
          BY <1>2, <3>1 DEF Land, PutIfFree
        <4>2. "none" \in Continuation
          OBVIOUS
        <4> HIDE DEF Continuation
        <4> QED BY <1>0, <1>1, <2>2, <3>1, <4>1, <4>2, SenderEffect
      <3>2. CASE u.by \in Request /\ u.content = "wrong"
        <4>1. Go(u.by, "quarantine", u.row, request[u.by].token, "fail")
          BY <1>2, <3>2 DEF Land, PutIfFree
        <4>2. "fail" \in Continuation
          OBVIOUS
        <4> HIDE DEF Continuation
        <4> QED BY <1>0, <1>1, <3>2, <4>1, <4>2, SenderEffect
      <3>3. CASE u.by \notin Request
        BY <1>2, <3>3, <1>1, RestEffect DEF Land, PutIfFree
      <3> QED BY <1>0, <3>1, <3>2, <3>3
    <2>4. StoreTypeOK'
      BY <1>1, <2>2 DEF MInv, StoreInv, StoreTypeOK
    <2>5. StoreInv'
      BY <1>0, <1>1, <1>2, <2>2, <2>4, WriterSafe DEF MInv
    <2>6. MediaTypeOK'
      BY <1>1, <2>3, <2>4 DEF MInv, MediaTypeOK, contextVars
    <2>7. \A r \in Row : RowEffect(r)
      BY <1>0, <1>1, <1>2, <2>2 DEF RowEffect
    <2>8. ShownEffect
      BY <1>1 DEF ShownEffect, MInv, ShownAlone
    <2>9. \A v \in uploads' : asset'[v.row].state # "absent"
      BY <1>1 DEF MInv, BytesHaveRows
    <2> QED BY <1>1, <2>3, <2>5, <2>6, <2>7, <2>8, <2>9, EffectsSuffice DEF contextVars
  <1>3. CASE object[u.row] # "none"
    <2>1. UNCHANGED object
      BY <1>3 DEF Land, PutIfFree
    <2>2. RequestEffect /\ request' \in [Request -> RequestRecord]
      <3>1. CASE u.by \in Request
        <4>1. Go(u.by, "verify", u.row, request[u.by].token, "none")
          BY <1>3, <3>1 DEF Land, PutIfFree
        <4>2. "none" \in Continuation
          OBVIOUS
        <4> HIDE DEF Continuation
        <4> QED BY <1>0, <1>1, <3>1, <4>1, <4>2, SenderEffect
      <3>2. CASE u.by \notin Request
        BY <1>3, <3>2, <1>1, RestEffect DEF Land, PutIfFree
      <3> QED BY <3>1, <3>2
    <2>3. \A v \in uploads' : asset[v.row].state # "absent"
      BY <1>1 DEF MInv, BytesHaveRows
    <2> QED BY <1>1, <2>1, <2>2, <2>3, RequestOnlySafe DEF MInv, MediaTypeOK, storeVars
  <1> QED BY <1>2, <1>3

-----------------------------------------------------------------------------
(* Purging. *)

\* A step of a purge, by whomever.
LEMMA PurgingSafe ==
    ASSUME MInv, StoreInv', StoreEffect, UNCHANGED contextVars, RequestEffect,
           request' \in [Request -> RequestRecord],
           stream' \in [owner : Request \cup {NoRequest}, settled : 0 .. MaxEvent, shown : 0 .. MaxEvent],
           uploads' \in SUBSET [row : Row, content : {"data", "wrong"}, by : Request \cup {NoRequest}],
           \A u \in uploads' : asset[u.row].state # "absent"
    PROVE  MInv'
  <1>1. MediaTypeOK'
    BY DEF MInv, MediaTypeOK, StoreInv, contextVars
  <1>2. \A r \in Row : RowEffect(r)
    BY DEF RowEffect, StoreEffect, GivenUp
  <1>3. ShownEffect
    BY DEF ShownEffect, StoreEffect, MInv, ShownAlone
  <1>4. \A u \in uploads' : asset'[u.row].state # "absent"
    BY <1>2 DEF RowEffect
  <1> QED BY <1>1, <1>2, <1>3, <1>4, EffectsSuffice DEF contextVars

\* The hourly run, and a delivery that seals its copy.
LEMMA PurgeStepSafe ==
    ASSUME MInv, PurgeStep \/ \E h \in Request : SealCopy(h)
    PROVE  MInv'
  <1>1. UNCHANGED <<stream, request, uploads, contextVars>>
    BY DEF PurgeStep, SealCopy
  <1>2. SweepStep \/ \E w \in Worker : CronStep(w)
    BY IngestionAssumption DEF PurgeStep, SealCopy, CronStep
  <1>3. StoreInv' /\ StoreEffect
    BY <1>2, PurgeSafe DEF MInv
  <1> QED BY <1>1, <1>3, RestEffect, PurgingSafe DEF MInv, MediaTypeOK, BytesHaveRows

\* A clean-up ends.
LEMMA FinishCleanupSafe ==
    ASSUME MInv, NEW h \in Request, FinishCleanup(h)
    PROVE  MInv'
  <1> DEFINE then == request[h].then
  <1>0. then \in Continuation /\ h \in Worker
    BY RequestFields, IngestionAssumption
  <1>1. StoreInv' /\ StoreEffect
    <2>1. CASE SettlePurge(h)
      BY <1>0, <2>1, SettlePurgeSafe DEF MInv
    <2>2. CASE FailPurge(h, ReasonOf(then))
      <3>1. ReasonOf(then) \in {"none", "privacy_request", "stale_staging"}
        BY DEF ReasonOf
      <3> QED BY <1>0, <2>2, <3>1, FailPurgeSafe DEF MInv
    <2> QED BY <2>1, <2>2 DEF FinishCleanup
  <1>2. UNCHANGED <<uploads, contextVars>>
    BY DEF FinishCleanup
  <1>3. RequestEffect /\ request' \in [Request -> RequestRecord]
    <2>1. CASE request' = [request EXCEPT ![h] = Idle]
      BY <2>1, IdleEffect
    <2>2. ASSUME NEW next \in Continuation,
                 Go(h, "look", NoRow, FALSE, next) \/ Go(h, "fenced", NoRow, FALSE, next)
          PROVE  RequestEffect /\ request' \in [Request -> RequestRecord]
      <3>1. MediaTypeOK
        BY DEF MInv
      <3> HIDE DEF Continuation
      <3>2. CASE Go(h, "look", NoRow, FALSE, next)
        <4>1. /\ request' \in [Request -> RequestRecord]
              /\ \A k \in Request \ {h} : request'[k] = request[k]
              /\ request'[h].pc = "look"
          BY <3>1, <3>2, GoEffect
        <4> QED BY <4>1 DEF RequestEffect, KnowsRow
      <3>3. CASE Go(h, "fenced", NoRow, FALSE, next)
        <4>1. /\ request' \in [Request -> RequestRecord]
              /\ \A k \in Request \ {h} : request'[k] = request[k]
              /\ request'[h].pc = "fenced"
          BY <3>1, <3>3, GoEffect
        <4> QED BY <4>1 DEF RequestEffect, KnowsRow
      <3> QED BY <2>2, <3>2, <3>3
    <2>3. "none" \in Continuation
      OBVIOUS
    <2>4. \/ request' = [request EXCEPT ![h] = Idle]
          \/ Go(h, "look", NoRow, FALSE, "none")
          \/ Go(h, "fenced", NoRow, FALSE, then)
      BY DEF FinishCleanup
    <2> HIDE DEF Continuation, then
    <2> QED BY <1>0, <2>1, <2>2, <2>3, <2>4
  <1>4. stream' \in [owner : Request \cup {NoRequest}, settled : 0 .. MaxEvent, shown : 0 .. MaxEvent]
    BY DEF FinishCleanup, MInv, MediaTypeOK
  <1> QED BY <1>1, <1>2, <1>3, <1>4, PurgingSafe DEF MInv, MediaTypeOK, BytesHaveRows

\* A delivery stops, perhaps in the middle of a purge.
LEMMA StopSafe ==
    ASSUME MInv, NEW h \in Request, Stop(h)
    PROVE  MInv'
  <1>1. RequestEffect /\ request' \in [Request -> RequestRecord]
    BY IdleEffect DEF Stop
  <1>2. stream' \in [owner : Request \cup {NoRequest}, settled : 0 .. MaxEvent, shown : 0 .. MaxEvent]
    BY DEF Stop, MInv, MediaTypeOK
  <1>3. \A u \in uploads' :
           /\ u \in [row : Row, content : {"data", "wrong"}, by : Request \cup {NoRequest}]
           /\ asset[u.row].state # "absent"
    <2> SUFFICES ASSUME NEW v \in uploads
                 PROVE  LET u == [row |-> v.row, content |-> v.content,
                                  by |-> IF v.by = h THEN NoRequest ELSE v.by] IN
                        /\ u \in [row : Row, content : {"data", "wrong"}, by : Request \cup {NoRequest}]
                        /\ asset[u.row].state # "absent"
      BY DEF Stop
    <2> QED BY DEF MInv, MediaTypeOK, BytesHaveRows
  <1>4. UNCHANGED contextVars
    BY DEF Stop
  <1>5. CASE purging[h] = NotPurging
    <2>1. UNCHANGED storeVars
      BY <1>5 DEF Stop
    <2> QED BY <1>1, <1>2, <1>3, <1>4, <2>1, RequestOnlySafe
  <1>6. CASE KillPurge(h)
    <2>1. StoreInv' /\ StoreEffect
      BY <1>6, KillPurgeSafe, IngestionAssumption DEF MInv
    <2> QED BY <1>1, <1>2, <1>3, <1>4, <2>1, PurgingSafe
  <1> QED BY <1>5, <1>6 DEF Stop

-----------------------------------------------------------------------------

\* Every step of a delivery keeps the invariant.
LEMMA DeliverySafe ==
    ASSUME MInv, NEW h \in Request, DeliveryStep(h)
    PROVE  MInv'
  BY BeginSafe, LooksSafe, CreateRowSafe, ReclaimRowSafe, PutSafe, QuarantineCopySafe, PurgeStepSafe,
     FinishCleanupSafe, AsideSafe, ActivateSafe, RetainSafe, StopSafe
     DEF DeliveryStep

\* Every step keeps the invariant.
LEMMA MediaStep == MInv /\ [MediaNext]_vars => MInv'
  <1> SUFFICES ASSUME MInv, [MediaNext]_vars PROVE MInv'
    OBVIOUS
  <1>1. CASE UNCHANGED vars
    BY <1>1, RestEffect, RequestOnlySafe DEF vars, MInv, MediaTypeOK, BytesHaveRows
  <1>2. CASE MediaNext
    BY <1>2, DeliverySafe, LandSafe, LeaseExpiresSafe, PurgeStepSafe, DeleteCandidateSafe,
       CompletePrivacyRequestSafe
       DEF MediaNext
  <1> QED BY <1>1, <1>2

\* The invariant holds initially.
LEMMA MediaInitial == MediaInit => MInv
  <1> SUFFICES ASSUME MediaInit PROVE MInv
    OBVIOUS
  <1>1. StoreInv
    BY StoreInitial DEF MediaInit
  <1>2. MediaTypeOK
    <2>1. 0 \in 0 .. MaxEvent
      BY IngestionAssumption
    <2> QED BY <1>1, <2>1, IdleTyped DEF MediaInit, MediaTypeOK, StoreInv
  <1>3. RequestsKnowRows
    BY DEF MediaInit, RequestsKnowRows, KnowsRow, Idle
  <1>4. BytesHaveRows /\ ReadyHasData /\ ShownAlone /\ ErasedOnceCompleted
    BY DEF MediaInit, StoreInit, Asset, BytesHaveRows, ReadyHasData, ShownAlone, ErasedOnceCompleted
  <1> QED BY <1>1, <1>2, <1>3, <1>4 DEF MInv

\* The invariant holds always.
LEMMA MediaInvariant == MediaSpec => []MInv
  BY MediaInitial, MediaStep, PTL DEF MediaSpec

\* The variables keep their types.
THEOREM MediaTypeCorrect == MediaSpec => []MediaTypeOK
  <1>1. MInv => MediaTypeOK
    BY DEF MInv
  <1> QED BY <1>1, MediaInvariant, PTL

\* Bytes whose row says that they are purged never come back, whatever upload or
\* seal is still on its way.
THEOREM DeletedBytesNeverReturn == MediaSpec => []PurgedStaysErased
  <1>1. MInv => PurgedStaysErased
    BY DEF MInv, StoreInv
  <1> QED BY <1>1, MediaInvariant, PTL

\* What recruiters see is one copy, verified, and not about to be sealed.
THEOREM ShownIsVerified == MediaSpec => []VisibleIsVerified
  <1>1. MInv => VisibleIsVerified
    BY DEF MInv, VisibleIsVerified, ShownAlone, ReadyHasData, StoreInv, SealsOnlyGivenUp, GivenUp
  <1> QED BY <1>1, MediaInvariant, PTL

\* A completed privacy request has left no bytes, and none can arrive.
THEOREM CompletedRequestHasErased == MediaSpec => []PrivacyRequestErases
  <1>1. MInv => PrivacyRequestErases
    BY DEF MInv, PrivacyRequestErases, ErasedOnceCompleted, BytesHaveRows, StoreInv, PurgedStaysErased
  <1> QED BY <1>1, MediaInvariant, PTL

-----------------------------------------------------------------------------
(* What is shown stays, until the candidate is deleted. *)

\* A delivery copies into a row of its event, and discards it only behind a deletion.
DeliveryFits(q) ==
    /\ q.pc \in {"reuse", "create", "reclaim", "verify", "put", "putting", "prepared", "quarantine"}
          => q.row[1] = q.event
    /\ q.then = "discard" => privacy # "none"

\* A delivery with an upload on its way waits for this one, and for its own row.
UploadsAwaited ==
    \A u \in uploads : u.by \in Request =>
        /\ request[u.by].pc = "putting"
        /\ request[u.by].row = u.row
        /\ \A v \in uploads : v.by = u.by => v = u

\* Without a deletion nothing that is shown falls due.
ShownIsKept ==
    privacy = "none" => \A r \in Row : asset[r].active => asset[r].due = Never

ShownInv ==
    /\ MInv
    /\ \A h \in Request : DeliveryFits(request[h])
    /\ UploadsAwaited
    /\ ShownIsKept
    /\ LatestMediaVisible

\* Of the deliveries only h moves, and none of its uploads is on its way any more.
OneMoves(h) ==
    /\ \A k \in Request \ {h} :
         /\ request'[k].pc = request[k].pc
         /\ request'[k].event = request[k].event
         /\ request'[k].row = request[k].row
         /\ request'[k].then = request[k].then
    /\ DeliveryFits(request'[h])
    /\ \A u \in uploads' : u.by \in Request => u \in uploads /\ u.by # h

\* What is shown remains, with its deadline, and nothing else is shown.
RowsStay ==
    \A r \in Row :
        /\ asset'[r].active => asset[r].active
        /\ asset[r].active => asset'[r].active /\ asset'[r].due = asset[r].due

\* The deliveries still fit when only one of them has moved.
LEMMA OneMovesSafe ==
    ASSUME ShownInv, NEW h \in Request, OneMoves(h), UNCHANGED privacy
    PROVE  (\A k \in Request : DeliveryFits(request[k]))' /\ UploadsAwaited'
  <1>1. ASSUME NEW k \in Request PROVE DeliveryFits(request[k])'
    BY DEF ShownInv, OneMoves, DeliveryFits
  <1>2. UploadsAwaited'
    BY DEF ShownInv, OneMoves, UploadsAwaited
  <1> QED BY <1>1, <1>2

\* The visible media are still those of the last result when rows and result stay.
LEMMA RowsStaySafe ==
    ASSUME ShownInv, privacy' = "none" => privacy = "none" /\ RowsStay,
           stream'.shown = stream.shown
    PROVE  ShownIsKept' /\ LatestMediaVisible'
  BY DEF ShownInv, RowsStay, ShownIsKept, LatestMediaVisible

\* Without a deletion what is shown is ready, kept, and not due.
LEMMA ShownIsReady ==
    ASSUME ShownInv, privacy = "none", NEW r \in Row, asset[r].active
    PROVE  asset[r].state = "ready" /\ asset[r].due = Never /\ ~Due(r)
  <1>1. asset[r].state = "ready" /\ asset[r].due = Never
    BY DEF ShownInv, MInv, ShownAlone, ShownIsKept
  <1>2. elapsed \in 0 .. MaxClosing
    BY DEF ShownInv, MInv, StoreInv, StoreTypeOK
  <1> QED BY <1>1, <1>2, StoreAssumption DEF Due, Never

\* Where a delivery is when it has gone on.
LEMMA GoMoves ==
    ASSUME ShownInv, NEW h \in Request, NEW pc, NEW r, NEW token, NEW then,
           Go(h, pc, r, token, then), UNCHANGED uploads,
           request[h].pc # "putting",
           pc \in {"reuse", "create", "reclaim", "verify", "put", "putting", "prepared", "quarantine"}
               => r[1] = request[h].event,
           then = "discard" => privacy # "none"
    PROVE  OneMoves(h)
  <1>1. request \in [Request -> RequestRecord]
    BY DEF ShownInv, MInv, MediaTypeOK
  <1>2. request'[h] = [pc |-> pc, event |-> request[h].event, row |-> r, token |-> token, then |-> then]
    BY <1>1 DEF Go
  <1>3. \A k \in Request \ {h} : request'[k] = request[k]
    BY <1>1 DEF Go
  <1>4. DeliveryFits(request'[h])
    BY <1>2 DEF DeliveryFits
  <1>5. \A u \in uploads' : u.by \in Request => u \in uploads /\ u.by # h
    BY DEF ShownInv, UploadsAwaited
  <1> QED BY <1>3, <1>4, <1>5 DEF OneMoves

\* A delivery that ends leaves no upload that waits for it.
LEMMA IdleMoves ==
    ASSUME ShownInv, NEW h \in Request, request' = [request EXCEPT ![h] = Idle],
           \A u \in uploads' : u.by \in Request => u \in uploads /\ u.by # h
    PROVE  OneMoves(h)
  <1>1. request \in [Request -> RequestRecord]
    BY DEF ShownInv, MInv, MediaTypeOK
  <1>2. request'[h] = Idle
    BY <1>1
  <1>3. \A k \in Request \ {h} : request'[k] = request[k]
    BY <1>1
  <1>4. DeliveryFits(request'[h])
    BY <1>2 DEF DeliveryFits, Idle
  <1> QED BY <1>3, <1>4 DEF OneMoves

\* What is left to show of a step in which one delivery moves and what is shown
\* remains.
LEMMA MoveKeepsShown ==
    ASSUME ShownInv, MInv', NEW h \in Request, OneMoves(h), UNCHANGED privacy,
           privacy = "none" => RowsStay, stream'.shown = stream.shown
    PROVE  ShownInv'
  <1>1. (\A k \in Request : DeliveryFits(request[k]))' /\ UploadsAwaited'
    BY OneMovesSafe
  <1>2. ShownIsKept' /\ LatestMediaVisible'
    BY RowsStaySafe
  <1> QED BY <1>1, <1>2 DEF ShownInv

\* A delivery starts.
LEMMA BeginKeepsShown ==
    ASSUME ShownInv, MInv', NEW h \in Request, Begin(h) \/ DiscardAtOnce(h)
    PROVE  ShownInv'
  <1>1. request \in [Request -> RequestRecord]
    BY DEF ShownInv, MInv, MediaTypeOK
  <1>2. UNCHANGED <<storeVars, uploads, contextVars>> /\ stream'.shown = stream.shown
    BY DEF Begin, DiscardAtOnce
  <1>3. DeliveryFits(request'[h]) /\ \A k \in Request \ {h} : request'[k] = request[k]
    <2>1. CASE Begin(h)
      <3>1. PICK r \in Row, found \in BOOLEAN :
              /\ r[1] = stream.settled + 1
              /\ request' = [request EXCEPT ![h] =
                   [pc |-> IF found THEN "reclaim" ELSE "reuse",
                    event |-> stream.settled + 1, row |-> r, token |-> found, then |-> "none"]]
        BY <2>1 DEF Begin, IsStaging, IsNextRow
      <3>2. request'[h].row = r /\ request'[h].event = stream.settled + 1 /\ request'[h].then = "none"
        BY <1>1, <3>1
      <3> QED BY <1>1, <3>1, <3>2 DEF DeliveryFits
    <2>2. CASE DiscardAtOnce(h)
      <3>1. request'[h].pc = "settle" /\ privacy # "none"
        BY <1>1, <2>2 DEF DiscardAtOnce
      <3> QED BY <1>1, <2>2, <3>1 DEF DiscardAtOnce, DeliveryFits
    <2> QED BY <2>1, <2>2
  <1>4. \A u \in uploads' : u.by \in Request => u \in uploads /\ u.by # h
    BY <1>2 DEF ShownInv, UploadsAwaited, Begin, DiscardAtOnce
  <1>5. OneMoves(h)
    BY <1>3, <1>4 DEF OneMoves
  <1>6. RowsStay
    BY <1>2 DEF RowsStay, storeVars
  <1> QED BY <1>2, <1>5, <1>6, MoveKeepsShown DEF contextVars

\* What a delivery is known to be about to do with its row.
LEMMA DeliveryFacts ==
    ASSUME ShownInv, NEW h \in Request
    PROVE  /\ DeliveryFits(request[h])
           /\ Fenced = "discard" => privacy # "none"
           /\ Fenced = "none" => privacy = "none"
           /\ MInv
  BY DEF ShownInv, Fenced

\* Looking for a checkpoint or for media to reuse, verifying, meeting a fence.
LEMMA LooksKeepShown ==
    ASSUME ShownInv, MInv', NEW h \in Request, LookAgain(h) \/ Reuse(h) \/ Verify(h) \/ Barred(h)
    PROVE  ShownInv'
  <1>1. UNCHANGED <<storeVars, contextVars, stream, uploads>>
    BY DEF LookAgain, Reuse, Verify, Barred
  <1>2. RowsStay
    BY <1>1 DEF RowsStay, storeVars
  <1>3. OneMoves(h)
    <2>1. CASE LookAgain(h)
      BY <1>1, <2>1, GoMoves DEF LookAgain, IsStaging, IsNextRow
    <2>2. CASE Reuse(h)
      <3>1. request[h].row[1] = request[h].event
        BY <2>2, DeliveryFacts DEF Reuse, DeliveryFits
      <3> QED BY <1>1, <2>2, <3>1, DeliveryFacts, GoMoves DEF Reuse
    <2>3. CASE Verify(h)
      <3>1. request[h].row[1] = request[h].event
        BY <2>3, DeliveryFacts DEF Verify, DeliveryFits
      <3>2. \E pc, then : Go(h, pc, request[h].row, request[h].token, then) /\ then # "discard"
        BY <2>3 DEF Verify
      <3> QED BY <1>1, <2>3, <3>1, <3>2, GoMoves DEF Verify
    <2>4. CASE Barred(h)
      <3>1. CASE Go(h, "settle", request[h].row, FALSE, Fenced)
        BY <1>1, <2>4, <3>1, DeliveryFacts, GoMoves DEF Barred
      <3>2. CASE Go(h, "settle", request[h].row, FALSE, "stale")
        <4>1. request[h].pc # "putting" /\ UNCHANGED uploads
          BY <1>1, <2>4 DEF Barred
        <4>2. "stale" # "discard" /\ "settle" \notin {"reuse", "create", "reclaim", "verify", "put",
                                                     "putting", "prepared", "quarantine"}
          OBVIOUS
        <4> QED BY <3>2, <4>1, <4>2, GoMoves
      <3> QED BY <2>4, <3>1, <3>2 DEF Barred
    <2> QED BY <2>1, <2>2, <2>3, <2>4
  <1> QED BY <1>1, <1>2, <1>3, MoveKeepsShown DEF contextVars

\* An upload is sent, and waited for.
LEMMA PutKeepsShown ==
    ASSUME ShownInv, MInv', NEW h \in Request, Put(h)
    PROVE  ShownInv'
  <1>1. request \in [Request -> RequestRecord]
    BY DEF ShownInv, MInv, MediaTypeOK
  <1>2. PICK content : uploads' = uploads \cup {[row |-> request[h].row, content |-> content, by |-> h]}
    BY DEF Put
  <1>3. /\ request'[h].pc = "putting" /\ request'[h].then = "none"
        /\ request'[h].row = request[h].row /\ request'[h].event = request[h].event
        /\ \A k \in Request \ {h} : request'[k] = request[k]
    BY <1>1 DEF Put, Go
  <1>4. request[h].row[1] = request[h].event
    BY DeliveryFacts DEF Put, DeliveryFits
  <1>5. UNCHANGED <<storeVars, stream, contextVars>>
    BY DEF Put
  <1>6. \A k \in Request : DeliveryFits(request'[k])
    BY <1>3, <1>4, DeliveryFacts DEF DeliveryFits
  <1>7. \A u \in uploads : u.by # h
    BY DEF Put, ShownInv, UploadsAwaited
  <1>8. UploadsAwaited'
    <2> SUFFICES ASSUME NEW u \in uploads', u.by \in Request
                 PROVE  /\ request'[u.by].pc = "putting"
                        /\ request'[u.by].row = u.row
                        /\ \A v \in uploads' : v.by = u.by => v = u
      BY DEF UploadsAwaited
    <2>1. CASE u \in uploads
      BY <1>2, <1>3, <1>7, <2>1 DEF ShownInv, UploadsAwaited
    <2>2. CASE u.by = h
      BY <1>2, <1>3, <1>7, <2>2
    <2> QED BY <1>2, <2>1, <2>2
  <1>9. (\A k \in Request : DeliveryFits(request[k]))'
    BY <1>5, <1>6 DEF DeliveryFits, contextVars
  <1>10. ShownIsKept' /\ LatestMediaVisible'
    BY <1>5, RowsStaySafe DEF RowsStay, storeVars, contextVars
  <1> QED BY <1>8, <1>9, <1>10 DEF ShownInv

\* An upload ends, and its sender goes on with the row it has written.
LEMMA LandKeepsShown ==
    ASSUME ShownInv, MInv', NEW u \in uploads, Land(u)
    PROVE  ShownInv'
  <1>1. request \in [Request -> RequestRecord]
    BY DEF ShownInv, MInv, MediaTypeOK
  <1>2. uploads' = uploads \ {u} /\ UNCHANGED <<asset, stream, contextVars>>
    BY DEF Land
  <1>3. RowsStay
    BY <1>2 DEF RowsStay
  <1>4. CASE u.by \in Request
    <2>1. PICK pc, then : /\ then # "discard"
                          /\ Go(u.by, pc, u.row, request[u.by].token, then)
      BY <1>4 DEF Land, PutIfFree
    <2>2. u.row[1] = request[u.by].event
      BY <1>4, DeliveryFacts DEF DeliveryFits, ShownInv, UploadsAwaited
    <2>3. /\ request'[u.by].row = u.row /\ request'[u.by].then # "discard"
          /\ request'[u.by].event = request[u.by].event
          /\ \A k \in Request \ {u.by} : request'[k] = request[k]
      BY <1>1, <1>4, <2>1 DEF Go
    <2>4. DeliveryFits(request'[u.by])
      BY <2>2, <2>3 DEF DeliveryFits
    <2>5. \A v \in uploads' : v \in uploads /\ v.by # u.by
      BY <1>2, <1>4 DEF ShownInv, UploadsAwaited
    <2>6. OneMoves(u.by)
      BY <2>3, <2>4, <2>5 DEF OneMoves
    <2> QED BY <1>2, <1>3, <1>4, <2>6, MoveKeepsShown DEF contextVars
  <1>5. CASE u.by \notin Request
    <2>1. UNCHANGED request
      BY <1>5 DEF Land, PutIfFree
    <2>2. UploadsAwaited'
      BY <1>2, <2>1 DEF ShownInv, UploadsAwaited
    <2>3. (\A k \in Request : DeliveryFits(request[k]))'
      BY <1>2, <2>1 DEF ShownInv, DeliveryFits, contextVars
    <2>4. ShownIsKept' /\ LatestMediaVisible'
      BY <1>2, <1>3, RowsStaySafe DEF contextVars
    <2> QED BY <2>2, <2>3, <2>4 DEF ShownInv
  <1> QED BY <1>4, <1>5

\* A row is written that is not shown, and the delivery goes on.
LEMMA HiddenRowStays ==
    ASSUME ShownInv, NEW r \in Row, asset[r].state # "ready", NEW row,
           asset' = [asset EXCEPT ![r] = row], ~row.active
    PROVE  RowsStay
  <1>1. asset \in [Row -> AssetRecord] /\ ~asset[r].active
    BY DEF ShownInv, MInv, StoreInv, StoreTypeOK, ShownAlone
  <1> QED BY <1>1 DEF RowsStay

\* A row is reserved, or taken over from another delivery.
LEMMA ReserveKeepsShown ==
    ASSUME ShownInv, MInv', NEW h \in Request, CreateRow(h) \/ ReclaimRow(h)
    PROVE  ShownInv'
  <1> DEFINE r == request[h].row
             new == Asset("staging", Never, "none")
  <1>0. UNCHANGED <<uploads, stream, contextVars>>
    BY DEF CreateRow, ReclaimRow
  <1>1. r \in Row /\ r[1] = request[h].event
    BY DeliveryFacts, RequestFields DEF CreateRow, ReclaimRow, DeliveryFits, KnowsRow
  <1>2. ~new.active
    BY DEF Asset
  <1>3. RowsStay
    <2>1. CASE UNCHANGED asset
      BY <2>1 DEF RowsStay
    <2>2. CASE asset' = [asset EXCEPT ![r] = new] /\ asset[r].state # "ready"
      <3> HIDE DEF new, r
      <3> QED BY <1>1, <1>2, <2>2, HiddenRowStays
    <2> QED BY <2>1, <2>2 DEF CreateRow, ReclaimRow
  <1>4. OneMoves(h)
    <2>1. CASE CreateRow(h)
      <3>1. \/ Go(h, "fenced", NoRow, FALSE, Fenced)
            \/ Go(h, "look", NoRow, FALSE, "none")
            \/ Go(h, "verify", r, TRUE, "none")
        BY <2>1 DEF CreateRow
      <3> QED BY <1>0, <1>1, <2>1, <3>1, DeliveryFacts, GoMoves DEF CreateRow
    <2>2. CASE ReclaimRow(h) /\ Fenced # "none"
      <3>1. Go(h, "quarantine", r, request[h].token, Fenced)
        BY <2>2 DEF ReclaimRow
      <3> QED BY <1>0, <1>1, <2>2, <3>1, DeliveryFacts, GoMoves DEF ReclaimRow
    <2>3. CASE ReclaimRow(h) /\ Fenced = "none"
      <3>1. request' = [k \in Request |->
                 IF k = h THEN [pc |-> "verify", event |-> request[h].event, row |-> r,
                                token |-> TRUE, then |-> "none"]
                 ELSE [pc |-> request[k].pc, event |-> request[k].event, row |-> request[k].row,
                       token |-> request[k].token /\ request[k].row # r,
                       then |-> request[k].then]]
        BY <2>3 DEF ReclaimRow
      <3>2. DeliveryFits(request'[h])
        BY <1>1, <3>1 DEF DeliveryFits
      <3>3. \A u \in uploads' : u.by \in Request => u \in uploads /\ u.by # h
        BY <1>0, <2>3 DEF ReclaimRow, ShownInv, UploadsAwaited
      <3> QED BY <3>1, <3>2, <3>3 DEF OneMoves
    <2> QED BY <2>1, <2>2, <2>3
  <1> QED BY <1>0, <1>3, <1>4, MoveKeepsShown DEF contextVars

\* A copy that failed is given up.
LEMMA QuarantineKeepsShown ==
    ASSUME ShownInv, MInv', NEW h \in Request, QuarantineCopy(h)
    PROVE  ShownInv'
  <1> DEFINE r == request[h].row
             then == request[h].then
  <1>0. UNCHANGED <<uploads, stream, contextVars>>
    BY DEF QuarantineCopy
  <1>1. r \in Row /\ r[1] = request[h].event
    BY DeliveryFacts, RequestFields DEF QuarantineCopy, DeliveryFits, KnowsRow
  <1>2. RowsStay
    <2>1. CASE UNCHANGED asset
      BY <2>1 DEF RowsStay
    <2>2. CASE MayQuarantine(h) /\ asset' = [asset EXCEPT ![r] = Claimed(h, 0, ReasonOf(then))]
      <3>1. ~Claimed(h, 0, ReasonOf(then)).active /\ asset[r].state # "ready"
        BY <2>2 DEF MayQuarantine, Claimed
      <3> HIDE DEF r
      <3> QED BY <1>1, <2>2, <3>1, HiddenRowStays
    <2> QED BY <2>1, <2>2 DEF QuarantineCopy
  <1>3. Go(h, "sealing", r, FALSE, then) \/ Go(h, "fenced", NoRow, FALSE, then)
    BY DEF QuarantineCopy
  <1>4. OneMoves(h)
    BY <1>0, <1>3, DeliveryFacts, GoMoves DEF DeliveryFits, QuarantineCopy
  <1> QED BY <1>0, <1>2, <1>4, MoveKeepsShown DEF contextVars

\* As long as the candidate is not deleted a purge leaves what is shown alone.
LEMMA PurgeKeepsRows ==
    ASSUME ShownInv, privacy = "none",
           \/ SweepStep
           \/ \E w \in Worker :
                \/ CronStep(w)
                \/ \E reason \in {"none", "privacy_request", "stale_staging"} : FailPurge(w, reason)
    PROVE  RowsStay
  <1>1. StoreInv
    BY DEF ShownInv, MInv
  <1>2. \A r \in Row : asset[r].active => asset'[r] = asset[r]
    BY <1>1, ShownIsReady, UndueUntouched
  <1>3. StoreEffect
    BY <1>1, PurgeSafe, FailPurgeSafe
  <1> QED BY <1>2, <1>3 DEF RowsStay, StoreEffect

\* A clean-up ends, and a seal lands.
LEMMA CleanupKeepsShown ==
    ASSUME ShownInv, MInv', NEW h \in Request, FinishCleanup(h) \/ SealCopy(h) \/ Stop(h)
    PROVE  ShownInv'
  <1>0. UNCHANGED contextVars /\ stream'.shown = stream.shown /\ h \in Worker
    <2>1. UNCHANGED contextVars /\ h \in Worker
      BY IngestionAssumption DEF FinishCleanup, SealCopy, Stop
    <2>2. CASE FinishCleanup(h)
      BY <2>1, <2>2 DEF FinishCleanup
    <2>3. CASE SealCopy(h)
      BY <2>1, <2>3 DEF SealCopy
    <2>4. CASE Stop(h)
      BY <2>1, <2>4 DEF Stop
    <2> QED BY <2>1, <2>2, <2>3, <2>4
  <1>1. \/ UNCHANGED asset
        \/ CronStep(h)
        \/ \E reason \in {"none", "privacy_request", "stale_staging"} : FailPurge(h, reason)
    BY DEF FinishCleanup, ReasonOf, SealCopy, Stop, CronStep, storeVars
  <1>2. privacy = "none" => RowsStay
    BY <1>0, <1>1, PurgeKeepsRows DEF RowsStay
  <1>3. CASE FinishCleanup(h)
    <2>1. request[h].pc = "sealing" /\ UNCHANGED uploads
      BY <1>3 DEF FinishCleanup
    <2>2. CASE request' = [request EXCEPT ![h] = Idle]
      <3>1. \A u \in uploads' : u.by \in Request => u \in uploads /\ u.by # h
        BY <2>1 DEF ShownInv, UploadsAwaited
      <3> QED BY <1>0, <1>2, <2>2, <3>1, IdleMoves, MoveKeepsShown DEF contextVars
    <2>3. CASE Go(h, "look", NoRow, FALSE, "none") \/ Go(h, "fenced", NoRow, FALSE, request[h].then)
      <3>1. OneMoves(h)
        BY <2>1, <2>3, DeliveryFacts, GoMoves DEF DeliveryFits
      <3> QED BY <1>0, <1>2, <3>1, MoveKeepsShown DEF contextVars
    <2> QED BY <1>3, <2>2, <2>3 DEF FinishCleanup
  <1>4. CASE SealCopy(h)
    <2>1. UNCHANGED <<request, uploads>>
      BY <1>4 DEF SealCopy
    <2>2. UploadsAwaited' /\ (\A k \in Request : DeliveryFits(request[k]))'
      BY <1>0, <2>1 DEF ShownInv, UploadsAwaited, DeliveryFits, contextVars
    <2>3. ShownIsKept' /\ LatestMediaVisible'
      BY <1>0, <1>2, RowsStaySafe DEF contextVars
    <2> QED BY <2>2, <2>3 DEF ShownInv
  <1>5. CASE Stop(h)
    <2>1. \A u \in uploads' : u.by \in Request => u \in uploads /\ u.by # h
      <3> SUFFICES ASSUME NEW v \in uploads,
                          IF v.by = h THEN NoRequest \in Request ELSE v.by \in Request
                   PROVE  /\ [row |-> v.row, content |-> v.content,
                              by |-> IF v.by = h THEN NoRequest ELSE v.by] \in uploads
                          /\ v.by # h
        BY <1>5, IngestionAssumption DEF Stop
      <3>1. v.by # h
        BY IngestionAssumption
      <3>2. v = [row |-> v.row, content |-> v.content, by |-> v.by]
        BY DEF ShownInv, MInv, MediaTypeOK
      <3> QED BY <3>1, <3>2
    <2> QED BY <1>0, <1>2, <1>5, <2>1, IdleMoves, MoveKeepsShown DEF Stop, contextVars
  <1> QED BY <1>3, <1>4, <1>5

\* A step of the hourly run.
LEMMA PurgeStepKeepsShown ==
    ASSUME ShownInv, MInv', PurgeStep
    PROVE  ShownInv'
  <1>1. UNCHANGED <<stream, request, uploads, contextVars>>
    BY DEF PurgeStep
  <1>2. SweepStep \/ \E w \in Worker : CronStep(w)
    BY IngestionAssumption DEF PurgeStep
  <1>3. privacy = "none" => RowsStay
    BY <1>2, PurgeKeepsRows
  <1>4. UploadsAwaited' /\ (\A k \in Request : DeliveryFits(request[k]))'
    BY <1>1 DEF ShownInv, UploadsAwaited, DeliveryFits, contextVars
  <1>5. ShownIsKept' /\ LatestMediaVisible'
    BY <1>1, <1>3, RowsStaySafe DEF contextVars
  <1> QED BY <1>4, <1>5 DEF ShownInv

\* Rows are set aside: nothing that is shown, unless the candidate was deleted.
LEMMA AsideKeepsShown ==
    ASSUME ShownInv, MInv', NEW h \in Request, SetEventAside(h) \/ Settle(h)
    PROVE  ShownInv'
  <1> DEFINE then == request[h].then
  <1>0. UNCHANGED <<uploads, contextVars>> /\ stream'.shown = stream.shown
    <2>1. UNCHANGED <<uploads, contextVars>>
      BY DEF SetEventAside, Settle
    <2>2. CASE SetEventAside(h)
      BY <2>1, <2>2 DEF SetEventAside
    <2>3. CASE Settle(h)
      BY <2>1, <2>3 DEF Settle, Settled
    <2> QED BY <2>2, <2>3
  <1>1. then = "discard" => privacy # "none"
    BY DeliveryFacts DEF DeliveryFits
  <1>2. ASSUME privacy = "none", NEW r \in Row
        PROVE  /\ asset[r].active => SetAside(r, then) = asset[r]
               /\ ~asset[r].active => ~SetAside(r, then).active
    <2>1. asset[r].active => asset[r].state = "ready"
      BY <1>2, ShownIsReady
    <2> QED BY <1>1, <1>2, <2>1 DEF SetAside, Asset
  <1>3. \A r \in Row : asset'[r] = asset[r] \/ asset'[r] = SetAside(r, then)
    <2>1. asset \in [Row -> AssetRecord]
      BY DEF ShownInv, MInv, StoreInv, StoreTypeOK
    <2> HIDE DEF then
    <2>2. CASE SetEventAside(h)
      BY <2>2 DEF SetEventAside, then
    <2>3. CASE Settle(h)
      BY <2>1, <2>3 DEF Settle, then
    <2> QED BY <2>2, <2>3
  <1>4. privacy = "none" => RowsStay
    <2> HIDE DEF then
    <2> QED BY <1>2, <1>3 DEF RowsStay
  <1>5. OneMoves(h)
    <2>1. CASE SetEventAside(h)
      BY <1>0, <1>1, <2>1, GoMoves DEF SetEventAside
    <2>2. CASE Settle(h)
      <3>1. \A u \in uploads' : u.by \in Request => u \in uploads /\ u.by # h
        BY <1>0, <2>2 DEF ShownInv, UploadsAwaited, Settle
      <3> QED BY <2>2, <3>1, IdleMoves DEF Settle
    <2> QED BY <2>1, <2>2
  <1> QED BY <1>0, <1>4, <1>5, MoveKeepsShown DEF contextVars

\* What a result brings, or finds already shown, is shown from then on.
LEMMA ShowKeepsShown ==
    ASSUME ShownInv, MInv', NEW h \in Request, Activate(h) \/ Retain(h)
    PROVE  ShownInv'
  <1> DEFINE r == request[h].row
  <1>0. UNCHANGED <<uploads, contextVars>> /\ stream'.shown = request[h].event
    BY DEF Activate, Retain, Settled
  <1>1. r \in Row /\ asset \in [Row -> AssetRecord] /\ request[h].pc # "putting"
    BY RequestFields DEF Activate, Retain, KnowsRow, ShownInv, MInv, StoreInv, StoreTypeOK
  <1>2. OneMoves(h)
    <2>1. \A u \in uploads' : u.by \in Request => u \in uploads /\ u.by # h
      BY <1>0, <1>1 DEF ShownInv, UploadsAwaited
    <2> QED BY <2>1, IdleMoves DEF Activate, Retain
  <1>3. Content[r[1]] = Content[request[h].event]
    BY DeliveryFacts DEF Activate, Retain, Reusable, DeliveryFits
  <1>4. /\ asset'[r].active /\ asset'[r].due = Never
        /\ \A k \in Row \ {r} : asset'[k].active => asset[k].active /\ asset'[k].due = asset[k].due
    <2>1. CASE Activate(h)
      <3>1. asset'[r] = Asset("ready", Never, "none")
        BY <1>1, <2>1 DEF Activate
      <3>2. \A k \in Row \ {r} : ~asset'[k].active
        BY <2>1 DEF Activate
      <3>3. asset'[r].active /\ asset'[r].due = Never
        <4>1. Asset("ready", Never, "none").active = TRUE /\ Asset("ready", Never, "none").due = Never
          BY DEF Asset
        <4> HIDE DEF r
        <4> QED BY <3>1, <4>1
      <3> QED BY <3>2, <3>3
    <2>2. CASE Retain(h)
      <3>1. asset'[r].active /\ asset'[r].due = Never
        BY <1>1, <2>2 DEF Retain, Reusable
      <3>2. \A k \in Row \ {r} : asset'[k] = asset[k]
        BY <1>1, <2>2 DEF Retain
      <3> QED BY <3>1, <3>2
    <2> QED BY <2>1, <2>2
  <1>5. ShownIsKept'
    <2> HIDE DEF r
    <2> QED BY <1>0, <1>1, <1>4 DEF ShownInv, ShownIsKept, contextVars
  <1>6. LatestMediaVisible'
    <2> HIDE DEF r
    <2> QED BY <1>0, <1>1, <1>3, <1>4 DEF LatestMediaVisible
  <1>7. (\A k \in Request : DeliveryFits(request[k]))' /\ UploadsAwaited'
    BY <1>0, <1>2, OneMovesSafe DEF contextVars
  <1> QED BY <1>5, <1>6, <1>7 DEF ShownInv

\* What the clock, the candidate and the workspace do.
LEMMA RestKeepsShown ==
    ASSUME ShownInv, MInv',
           \/ \E r \in Row : LeaseExpires(r)
           \/ DeleteCandidate \/ CompletePrivacyRequest \/ DeleteOrRestoreWorkspace
           \/ UNCHANGED vars
    PROVE  ShownInv'
  <1>1. UNCHANGED <<stream, request, uploads>>
    BY DEF LeaseExpires, DeleteCandidate, CompletePrivacyRequest, DeleteOrRestoreWorkspace, vars
  <1>2. privacy' = "none" => privacy = "none"
    BY DEF LeaseExpires, DeleteCandidate, CompletePrivacyRequest, DeleteOrRestoreWorkspace, vars,
           contextVars
  <1>3. privacy' = "none" => RowsStay
    <2>1. ASSUME NEW r \in Row, LeaseExpires(r) PROVE RowsStay
      <3>1. asset \in [Row -> AssetRecord]
        BY DEF ShownInv, MInv, StoreInv, StoreTypeOK
      <3>2. asset'[r].active = asset[r].active /\ asset'[r].due = asset[r].due
        BY <2>1, <3>1 DEF LeaseExpires
      <3>3. \A k \in Row \ {r} : asset'[k] = asset[k]
        BY <2>1, <3>1 DEF LeaseExpires
      <3> QED BY <3>2, <3>3 DEF RowsStay
    <2>2. CASE DeleteCandidate
      BY <2>2 DEF DeleteCandidate
    <2>3. CASE CompletePrivacyRequest \/ DeleteOrRestoreWorkspace \/ UNCHANGED vars
      BY <2>3 DEF CompletePrivacyRequest, DeleteOrRestoreWorkspace, vars, storeVars, RowsStay
    <2> QED BY <2>1, <2>2, <2>3
  <1>4. ShownIsKept' /\ LatestMediaVisible'
    BY <1>1, <1>2, <1>3, RowsStaySafe
  <1>5. (\A k \in Request : DeliveryFits(request[k]))' /\ UploadsAwaited'
    BY <1>1, <1>2 DEF ShownInv, UploadsAwaited, DeliveryFits
  <1> QED BY <1>4, <1>5 DEF ShownInv

\* Every step keeps it.
LEMMA ShownStep == ShownInv /\ [MediaNext]_vars => ShownInv'
  <1> SUFFICES ASSUME ShownInv, [MediaNext]_vars PROVE ShownInv'
    OBVIOUS
  <1>1. MInv'
    BY MediaStep DEF ShownInv
  <1>2. ASSUME NEW h \in Request, DeliveryStep(h) PROVE ShownInv'
    BY <1>1, <1>2, BeginKeepsShown, LooksKeepShown, ReserveKeepsShown, PutKeepsShown,
       QuarantineKeepsShown, CleanupKeepsShown, AsideKeepsShown, ShowKeepsShown
       DEF DeliveryStep
  <1> QED BY <1>1, <1>2, LandKeepsShown, PurgeStepKeepsShown, RestKeepsShown DEF MediaNext

\* It holds initially.
LEMMA ShownInitial == MediaInit => ShownInv
  <1> SUFFICES ASSUME MediaInit PROVE ShownInv
    OBVIOUS
  <1>1. MInv
    BY MediaInitial
  <1>2. (\A h \in Request : DeliveryFits(request[h])) /\ UploadsAwaited
    BY DEF MediaInit, Idle, DeliveryFits, UploadsAwaited
  <1>3. ShownIsKept /\ LatestMediaVisible
    BY DEF MediaInit, StoreInit, Asset, ShownIsKept, LatestMediaVisible
  <1> QED BY <1>1, <1>2, <1>3 DEF ShownInv

\* As long as the candidate is not deleted recruiters see the media of the last
\* result, whatever deliveries, purges and clean-ups run beside each other.
THEOREM LatestResultStaysVisible == MediaSpec => []LatestMediaVisible
  <1>1. ShownInv => LatestMediaVisible
    BY DEF ShownInv
  <1> QED BY <1>1, ShownInitial, ShownStep, PTL DEF MediaSpec
=============================================================================
