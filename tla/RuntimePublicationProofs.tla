----------------------- MODULE RuntimePublicationProofs -----------------------
(***************************************************************************)
(* RuntimePublication for any set of publisher runs, of replay kinds, of   *)
(* uploads and of consents, and for a drain of any length.                 *)
(***************************************************************************)
EXTENDS RuntimePublication, FiniteSetTheorems, TLAPS

\* The types of the rows.
SessionRow == [completed : BOOLEAN, core : 0 .. MaxCore, artifact : [Replay -> Upload \cup {None}]]
BindingRow == [required : Consent,
               state : State,
               status : Lifecycle,
               purge : BOOLEAN,
               snapshot : Payload \cup {None},
               digest : Payload \cup {None},
               drain : 0 .. Horizon,
               claim : [Replay -> Publisher \cup Replay \cup {None}],
               stale : SUBSET Replay,
               reserved : SUBSET Upload,
               capabilities : SUBSET Upload]
RunRow == [pc : {"idle"} \cup PublisherStep, row : Row \cup {None}, payload : Payload \cup {None},
           todo : SUBSET Replay, defer : BOOLEAN]
UploadRow == [pc : {"idle"} \cup UploadStep, kind : Replay \cup {None}]

\* What a revision has settled for good: published kinds, and unavailable kinds
\* the control plane has been told of.
Told(s) == {k \in Replay : s.media[k] = "published"} \cup s.reported

\* A published state: each revision after the first settled a kind, and no
\* required kind is left out of it.
StateFits(s) ==
    /\ s \in State
    /\ \A k \in Replay : k \notin binding.required => s.media[k] = "absent"
    /\ \A k \in s.reported : s.media[k] = "unavailable"
    /\ s.revision <= 1 + Cardinality(Told(s))
    /\ s.revision > 0 => \A k \in binding.required : s.media[k] # "absent"

\* Payload x is one for the revision after state s: it repeats what s settled,
\* and a later revision has something to say.
Fits(x, s) ==
    /\ x.revision = s.revision + 1
    /\ \A k \in Replay :
          /\ x.completion[k] = "unavailable" <=> s.media[k] = "unavailable"
          /\ x.completion[k] = "published" =>
                s.media[k] = "published" \/ (k \in binding.required /\ s.media[k] \notin Terminal)
    /\ s.revision > 0 => \E k \in Replay :
          \/ k \in binding.required /\ s.media[k] \notin Terminal /\ x.completion[k] = "published"
          \/ k \in Unreported(s)

\* The binding: what is staged fits the state, anything else kept is the payload
\* of the last revision, and one is kept while a follow-up is due.
BindingFits ==
    /\ StateFits(binding.state)
    /\ Staged => Fits(binding.snapshot, binding.state)
    /\ binding.snapshot # None /\ ~Staged => binding.snapshot = binding.digest
    /\ binding.state.revision = 0 => binding.digest = None
    /\ binding.state.revision > 0 =>
          /\ binding.digest \in delivered
          /\ binding.digest.revision = binding.state.revision
          /\ IsPublishable(binding.state) => binding.snapshot # None

\* The control plane has the payloads of the past revisions, and at most the
\* staged one besides.
DeliveredFits ==
    \A x \in delivered :
        \/ Staged /\ x = binding.snapshot
        \/ /\ x.revision <= binding.state.revision
           /\ \A k \in Replay : x.completion[k] = "published" => binding.state.media[k] = "published"
           /\ Staged => x.core = binding.snapshot.core

\* A run builds on the row it scanned, and sends only what is staged or was
\* accepted before.
RunFits(p) ==
    LET run == pub[p]
        row == run.row
    IN
    /\ run.pc # "idle" => row \in Row /\ StateFits(row.state)
    /\ run.pc \in {"claim", "after", "finalize"} => run.todo # {} /\ run.todo \subseteq binding.required
    /\ run.pc \in {"claim", "after", "finalize", "reserve", "build", "stage"} =>
          IF row.snapshot = None THEN row.state.revision = 0
          ELSE row.snapshot.revision # row.state.revision + 1
    /\ run.pc \in {"stage", "reserveSend", "send", "delete", "complete"} =>
          /\ run.payload \in Payload
          /\ run.payload.revision = row.state.revision + 1
    /\ run.pc = "stage" =>
          /\ Fits(run.payload, row.state)
          /\ row.snapshot # None => run.payload.core = row.snapshot.core
    /\ run.pc \in {"reserveSend", "send", "delete", "complete"} =>
          (Staged /\ run.payload = binding.snapshot) \/ run.payload \in delivered
    /\ run.pc \in {"delete", "complete"} => run.payload \in delivered

\* A recording belongs to its kind and is final once a session or a payload
\* names it; what is about to be associated is in storage.
UploadsFit ==
    /\ \A u \in Upload :
          /\ upload[u].pc # "idle" => upload[u].kind \in Replay
          /\ upload[u].pc \in {"uploaded", "reserveAssociate", "associate"} => u \in objects
    /\ \A k \in Replay : session.artifact[k] # None =>
          upload[session.artifact[k]].kind = k /\ upload[session.artifact[k]].pc = "done"
    /\ binding.snapshot # None => \A u \in binding.snapshot.media : upload[u].pc = "done"
    /\ \A p \in Publisher : pub[p].pc \in {"stage", "reserveSend", "send", "delete", "complete"} =>
          \A u \in pub[p].payload.media : upload[u].pc = "done"

\* No write is under way once the drain has run out; it does not run out during
\* a settlement, so that one whose drain is at zero saw all there is.
DrainFits ==
    binding.drain = 0 =>
        /\ \A u \in Upload : upload[u].pc \in {"idle", "holding", "uploaded", "done"}
        /\ \A k \in Replay : report[k] = "finalize" => session.artifact[k] = None
        /\ \A p \in Publisher : pub[p].pc = "finalize" => session.artifact[Current(p)] = None

\* Only kinds the consent requires are reported.
ReportsFit == \A k \in Replay : report[k] # "idle" => k \in binding.required

\* The inductive invariant.
PubInv ==
    /\ PublicationTypeOK
    /\ BindingFits
    /\ DeliveredFits
    /\ \A p \in Publisher : RunFits(p)
    /\ UploadsFit
    /\ DrainFits
    /\ ReportsFit
    /\ OnePayloadPerRevision
    /\ NoRecordingLost
    /\ UnavailableIsTrue

-----------------------------------------------------------------------------
(* Constants and types. *)

\* The kinds can be counted.
LEMMA KindsAreFinite ==
    /\ IsFiniteSet(Replay)
    /\ Cardinality(Replay) \in Nat
  BY PublicationAssumption, FS_CardinalityType

\* The types, row by row.
LEMMA Typed ==
    PublicationTypeOK <=>
        /\ session \in SessionRow
        /\ binding \in BindingRow
        /\ objects \in SUBSET Upload
        /\ late \in BOOLEAN
        /\ pub \in [Publisher -> RunRow]
        /\ report \in [Replay -> {"idle", "claim", "after", "finalize"}]
        /\ upload \in [Upload -> UploadRow]
        /\ delivered \in SUBSET Payload
  BY DEF PublicationTypeOK, SessionRow, BindingRow, RunRow, UploadRow

\* There is no more to settle than kinds.
LEMMA RevisionIsBounded ==
    ASSUME NEW s, StateFits(s)
    PROVE  /\ Cardinality(Told(s)) \in Nat
           /\ s.revision \in Nat
           /\ s.revision <= 1 + Cardinality(Replay)
  <1>1. Told(s) \subseteq Replay
    BY DEF Told, StateFits, State
  <1>2. Cardinality(Told(s)) \in Nat /\ Cardinality(Told(s)) <= Cardinality(Replay)
    BY <1>1, KindsAreFinite, FS_Subset, FS_CardinalityType
  <1>3. s.revision \in Nat /\ s.revision <= 1 + Cardinality(Told(s))
    BY KindsAreFinite DEF StateFits, State
  <1> QED BY <1>2, <1>3, KindsAreFinite

\* A state that has settled one more kind may have one more revision.
LEMMA TellingCounts ==
    ASSUME NEW s \in State, NEW t \in State, Told(s) \subseteq Told(t),
           NEW k, k \in Told(t), k \notin Told(s)
    PROVE  Cardinality(Told(s)) + 1 <= Cardinality(Told(t))
  <1>1. Told(t) \subseteq Replay
    BY DEF Told, State
  <1>2. IsFiniteSet(Told(t)) /\ Cardinality(Told(t)) \in Nat
    BY <1>1, KindsAreFinite, FS_Subset, FS_CardinalityType
  <1>3. /\ IsFiniteSet(Told(s)) /\ Cardinality(Told(s)) \in Nat
        /\ Cardinality(Told(s)) <= Cardinality(Told(t))
        /\ Cardinality(Told(s)) = Cardinality(Told(t)) => Told(s) = Told(t)
    BY <1>2, FS_Subset, FS_CardinalityType
  <1> QED BY <1>2, <1>3

-----------------------------------------------------------------------------
(* Parts of the invariant a step does not touch. *)

\* The ledger: what is published, staged and delivered.
SameLedger ==
    /\ binding'.required = binding.required
    /\ binding'.state = binding.state
    /\ binding'.snapshot = binding.snapshot
    /\ binding'.digest = binding.digest
    /\ delivered' = delivered

\* It stays as it is.
LEMMA LedgerKept ==
    ASSUME PubInv, SameLedger
    PROVE  BindingFits' /\ DeliveredFits' /\ OnePayloadPerRevision'
  <1> USE DEF SameLedger
  <1>1. Staged' = Staged
    BY DEF Staged
  <1>2. BindingFits'
    BY <1>1 DEF PubInv, BindingFits, StateFits, Fits
  <1>3. DeliveredFits'
    BY <1>1 DEF PubInv, DeliveredFits
  <1> QED BY <1>2, <1>3 DEF PubInv, OnePayloadPerRevision

\* A run that does not move keeps what it has, as long as what was staged stays
\* staged or was delivered.
LEMMA RunKept ==
    ASSUME PubInv, NEW p \in Publisher, pub'[p] = pub[p],
           binding'.required = binding.required,
           delivered \subseteq delivered',
           Staged => \/ Staged' /\ binding'.snapshot = binding.snapshot
                     \/ binding.snapshot \in delivered'
    PROVE  RunFits(p)'
  <1>1. RunFits(p)
    BY DEF PubInv
  <1>2. ASSUME NEW s, StateFits(s)
        PROVE  StateFits(s)'
    BY <1>2 DEF StateFits
  <1>3. ASSUME NEW x, NEW s, Fits(x, s)
        PROVE  Fits(x, s)'
    BY <1>3 DEF Fits
  <1> QED BY <1>1, <1>2, <1>3 DEF RunFits

\* A step of run p that changes the binding in nothing but its claims and its
\* drain, which does not run out.
LEMMA RunMoves ==
    ASSUME PubInv, NEW p \in Publisher, SameLedger,
           UNCHANGED <<session, objects, late, report, upload>>,
           binding' \in BindingRow, binding'.drain = 0 => binding.drain = 0,
           pub' \in [Publisher -> RunRow],
           \A q \in Publisher \ {p} : pub'[q] = pub[q],
           RunFits(p)',
           pub'[p].pc \in {"stage", "reserveSend", "send", "delete", "complete"} =>
               \A u \in pub'[p].payload.media : upload[u].pc = "done",
           pub'[p].pc = "finalize" /\ binding.drain = 0 => session.artifact[Current(p)'] = None
    PROVE  PubInv'
  <1>1. BindingFits' /\ DeliveredFits' /\ OnePayloadPerRevision'
    BY LedgerKept
  <1>2. PublicationTypeOK'
    BY Typed DEF PubInv, SameLedger, PublicationTypeOK, BindingRow, RunRow
  <1>3. ASSUME NEW q \in Publisher
        PROVE  RunFits(q)'
    BY RunKept DEF SameLedger, Staged
  <1>4. UploadsFit'
    BY DEF PubInv, UploadsFit, SameLedger
  <1>5. DrainFits'
    <2> SUFFICES ASSUME binding'.drain = 0
                 PROVE  DrainFits'
      BY DEF DrainFits
    <2>1. ASSUME NEW q \in Publisher, pub'[q].pc = "finalize"
          PROVE  session.artifact[Current(q)'] = None
      <3>1. CASE q = p
        BY <2>1, <3>1
      <3>2. CASE q # p
        BY <2>1, <3>2 DEF PubInv, DrainFits, Current
      <3> QED BY <3>1, <3>2
    <2> QED BY <2>1 DEF PubInv, DrainFits
  <1>6. ReportsFit' /\ NoRecordingLost' /\ UnavailableIsTrue'
    BY DEF PubInv, ReportsFit, NoRecordingLost, UnavailableIsTrue, SameLedger
  <1> QED BY <1>1, <1>2, <1>3, <1>4, <1>5, <1>6 DEF PubInv

-----------------------------------------------------------------------------
(* How a run moves. *)

\* The invariant, as a run sees it.
LEMMA RunKnows ==
    ASSUME PubInv, NEW p \in Publisher
    PROVE  /\ pub \in [Publisher -> RunRow] /\ pub[p] \in RunRow
           /\ binding \in BindingRow /\ session \in SessionRow
           /\ RunFits(p)
  BY Typed DEF PubInv

\* A run takes its next step.
LEMMA StepOf ==
    ASSUME PubInv, NEW p \in Publisher, NEW pc \in {"idle"} \cup PublisherStep, Step(p, pc)
    PROVE  /\ pub' \in [Publisher -> RunRow]
           /\ \A q \in Publisher \ {p} : pub'[q] = pub[q]
           /\ pub'[p].pc = pc
           /\ pub'[p].row = pub[p].row
           /\ pub'[p].payload = pub[p].payload
           /\ pub'[p].todo = pub[p].todo
           /\ Current(p)' = Current(p)
  <1>1. pub \in [Publisher -> RunRow]
    BY RunKnows
  <1>2. /\ pub' \in [Publisher -> RunRow]
        /\ \A q \in Publisher \ {p} : pub'[q] = pub[q]
        /\ pub'[p].pc = pc
        /\ pub'[p].row = pub[p].row
        /\ pub'[p].payload = pub[p].payload
        /\ pub'[p].todo = pub[p].todo
    BY <1>1 DEF Step, RunRow
  <1>3. Current(p)' = Current(p)
    BY <1>2 DEF Current
  <1> QED BY <1>2, <1>3

\* A run ends.
LEMMA EndOf ==
    ASSUME PubInv, NEW p \in Publisher, EndRun(p)
    PROVE  /\ pub' \in [Publisher -> RunRow]
           /\ \A q \in Publisher \ {p} : pub'[q] = pub[q]
           /\ pub'[p].pc = "idle"
           /\ RunFits(p)'
  <1>1. pub \in [Publisher -> RunRow]
    BY RunKnows
  <1>2. /\ pub' \in [Publisher -> RunRow]
        /\ \A q \in Publisher \ {p} : pub'[q] = pub[q]
        /\ pub'[p].pc = "idle"
    BY <1>1 DEF EndRun, IdleRun, RunRow
  <1> QED BY <1>2 DEF RunFits

\* A run that ends changes nothing else.
LEMMA EndKept ==
    ASSUME PubInv, NEW p \in Publisher, EndRun(p),
           UNCHANGED <<session, binding, objects, late, report, upload, delivered>>
    PROVE  PubInv'
  <1>1. binding' \in BindingRow /\ SameLedger
    BY RunKnows DEF SameLedger
  <1>2. pub'[p].pc = "idle"
    BY EndOf
  <1> QED BY <1>1, <1>2, EndOf, RunMoves

\* The next kind to settle is one of the required kinds.
LEMMA CurrentIsRequired ==
    ASSUME PubInv, NEW p \in Publisher, pub[p].pc \in {"claim", "after", "finalize"}
    PROVE  Current(p) \in pub[p].todo /\ Current(p) \in binding.required /\ Current(p) \in Replay
  <1>1. pub[p].todo # {} /\ pub[p].todo \subseteq binding.required
    BY RunKnows DEF RunFits
  <1>2. binding.required \subseteq Replay
    BY RunKnows, PublicationAssumption DEF BindingRow
  <1>3. Current(p) \in pub[p].todo
    BY <1>1 DEF Current
  <1> QED BY <1>1, <1>2, <1>3

\* One kind is dealt with, and the run goes on to the next or to the payload.
LEMMA SettledOf ==
    ASSUME PubInv, NEW p \in Publisher, pub[p].pc \in {"claim", "after", "finalize"},
           NEW defer \in BOOLEAN, Settled(p, defer), binding'.required = binding.required
    PROVE  /\ pub' \in [Publisher -> RunRow]
           /\ \A q \in Publisher \ {p} : pub'[q] = pub[q]
           /\ pub'[p].pc \in {"idle", "claim", "reserve"}
           /\ RunFits(p)'
  <1> DEFINE todo == pub[p].todo \ {Current(p)}
             put == defer \/ pub[p].defer
  <1>1. CASE todo = {} /\ put
    BY <1>1, EndOf DEF Settled
  <1>2. CASE ~(todo = {} /\ put)
    <2>1. pub' = [pub EXCEPT ![p].pc = IF todo = {} THEN "reserve" ELSE "claim",
                             ![p].todo = todo, ![p].defer = put]
      BY <1>2 DEF Settled
    <2>2. pub \in [Publisher -> RunRow] /\ todo \in SUBSET Replay /\ put \in BOOLEAN
      BY RunKnows DEF RunRow
    <2> HIDE DEF todo, put
    <2>3. /\ pub' \in [Publisher -> RunRow]
          /\ \A q \in Publisher \ {p} : pub'[q] = pub[q]
          /\ pub'[p].pc = IF todo = {} THEN "reserve" ELSE "claim"
          /\ pub'[p].row = pub[p].row
          /\ pub'[p].todo = todo
      <3> DEFINE next == [pub[p] EXCEPT !.pc = IF todo = {} THEN "reserve" ELSE "claim",
                                        !.todo = todo, !.defer = put]
      <3>1. pub' = [pub EXCEPT ![p] = next]
        BY <2>1, <2>2
      <3>2. /\ next \in RunRow
            /\ next.pc = IF todo = {} THEN "reserve" ELSE "claim"
            /\ next.row = pub[p].row /\ next.todo = todo
        BY <2>2 DEF RunRow, PublisherStep
      <3> HIDE DEF next
      <3> QED BY <2>2, <3>1, <3>2
    <2>4. RunFits(p) /\ todo \subseteq pub[p].todo
      BY RunKnows DEF todo
    <2>5. RunFits(p)'
      BY <2>3, <2>4 DEF RunFits, StateFits
    <2> QED BY <2>3, <2>5
  <1> QED BY <1>1, <1>2

\* The scan of a run.
LEMMA ScanKept ==
    ASSUME PubInv, NEW p \in Publisher, Scan(p)
    PROVE  PubInv'
  <1> DEFINE row == [state |-> binding.state, status |-> binding.status, snapshot |-> binding.snapshot]
             run == [IdleRun EXCEPT !.row = row]
             next == IF Staged THEN [run EXCEPT !.pc = "reserveSend", !.payload = binding.snapshot]
                     ELSE IF Overdue = {} THEN [run EXCEPT !.pc = "reserve"]
                     ELSE [run EXCEPT !.pc = "claim", !.todo = Overdue]
  <1>1. pub' = [pub EXCEPT ![p] = next]
    BY DEF Scan
  <1>2. UNCHANGED <<session, binding, objects, late, report, upload, delivered>>
    BY DEF Scan
  <1>3. binding \in BindingRow /\ pub \in [Publisher -> RunRow] /\ BindingFits
    BY RunKnows DEF PubInv
  <1>4. row \in Row /\ row.state = binding.state /\ row.snapshot = binding.snapshot
    BY <1>3 DEF BindingRow, Row
  <1>5. Overdue \subseteq binding.required /\ binding.required \subseteq Replay
    BY <1>3, PublicationAssumption DEF Overdue, BindingRow
  <1> HIDE DEF row
  <1>6. /\ next \in RunRow /\ next.row = row
        /\ next.pc \in {"reserveSend", "reserve", "claim"}
        /\ next.pc = "reserveSend" => Staged /\ next.payload = binding.snapshot
        /\ next.pc \in {"reserve", "claim"} => ~Staged
        /\ next.pc = "claim" => next.todo # {} /\ next.todo \subseteq binding.required
    <2>1. CASE Staged
      BY <1>3, <1>4, <2>1 DEF IdleRun, RunRow, PublisherStep, BindingRow
    <2>2. CASE ~Staged /\ Overdue = {}
      BY <1>4, <2>2 DEF IdleRun, RunRow, PublisherStep
    <2>3. CASE ~Staged /\ Overdue # {}
      BY <1>4, <1>5, <2>3 DEF IdleRun, RunRow, PublisherStep
    <2> QED BY <2>1, <2>2, <2>3
  <1> HIDE DEF next
  <1>7. /\ pub' \in [Publisher -> RunRow] /\ pub'[p] = next
        /\ \A q \in Publisher \ {p} : pub'[q] = pub[q]
    BY <1>1, <1>3, <1>6
  <1>8. StateFits(pub[p].row.state)'
    BY <1>2, <1>3, <1>4, <1>6, <1>7 DEF BindingFits, StateFits
  <1>9. RunFits(p)'
    <2>1. CASE next.pc = "reserveSend"
      <3>1. /\ next.payload \in Payload /\ next.payload.revision = row.state.revision + 1
            /\ Staged' /\ next.payload = binding'.snapshot
        BY <1>2, <1>3, <1>4, <1>6, <2>1 DEF Staged, BindingRow
      <3> QED BY <1>4, <1>6, <1>7, <1>8, <2>1, <3>1 DEF RunFits
    <2>2. CASE next.pc \in {"reserve", "claim"}
      <3>1. IF row.snapshot = None THEN row.state.revision = 0
            ELSE row.snapshot.revision # row.state.revision + 1
        BY <1>4, <1>6, <2>2 DEF Scan, Staged
      <3> QED BY <1>2, <1>4, <1>6, <1>7, <1>8, <2>2, <3>1 DEF RunFits
    <2> QED BY <1>6, <2>1, <2>2
  <1>10. next.pc = "reserveSend" => \A u \in next.payload.media : upload[u].pc = "done"
    BY <1>6 DEF PubInv, UploadsFit, Staged
  <1> QED BY <1>2, <1>3, <1>6, <1>7, <1>9, <1>10, RunMoves DEF SameLedger

\* A claim is taken or given up.
LEMMA ClaimsOf ==
    ASSUME PubInv, NEW k \in Replay, NEW t \in Publisher \cup Replay,
           binding' = Claim(k, t) \/ binding' = Unclaim(k, t), delivered' = delivered
    PROVE  binding' \in BindingRow /\ SameLedger /\ binding'.drain = binding.drain
  <1>1. binding \in BindingRow
    BY Typed DEF PubInv
  <1>2. CASE binding' = Claim(k, t)
    BY <1>1, <1>2 DEF Claim, BindingRow, SameLedger
  <1>3. CASE binding' = Unclaim(k, t) /\ binding.claim[k] = t
    BY <1>1, <1>3 DEF Unclaim, BindingRow, SameLedger
  <1>4. CASE binding' = Unclaim(k, t) /\ binding.claim[k] # t
    BY <1>1, <1>4 DEF Unclaim, SameLedger
  <1> QED BY <1>2, <1>3, <1>4

\* The drain is extended.
LEMMA DrainOf ==
    ASSUME PubInv, binding' = [binding EXCEPT !.drain = Horizon], delivered' = delivered
    PROVE  binding' \in BindingRow /\ SameLedger /\ binding'.drain # 0
  <1>1. binding \in BindingRow
    BY Typed DEF PubInv
  <1> QED BY <1>1, PublicationAssumption DEF BindingRow, SameLedger

\* A run settles what is overdue, but for the declaration itself.
LEMMA SettleKept ==
    ASSUME PubInv, NEW p \in Publisher, SkipArtifact(p) \/ ClaimSettle(p) \/ RecheckSettle(p)
    PROVE  PubInv'
  <1>1. UNCHANGED <<session, objects, late, report, upload, delivered>>
    BY DEF SkipArtifact, ClaimSettle, RecheckSettle
  <1>2. pub[p].pc \in {"claim", "after"}
    BY DEF SkipArtifact, ClaimSettle, RecheckSettle
  <1>3. binding' \in BindingRow /\ SameLedger /\ binding'.drain = binding.drain
    <2>1. CASE binding' = binding
      BY <1>1, <2>1, RunKnows DEF SameLedger
    <2>2. CASE binding' = Claim(Current(p), p) \/ binding' = Unclaim(Current(p), p)
      BY <1>1, <1>2, <2>2, CurrentIsRequired, ClaimsOf
    <2> QED BY <2>1, <2>2 DEF SkipArtifact, ClaimSettle, RecheckSettle
  <1>4. CASE \E defer \in BOOLEAN : Settled(p, defer)
    BY <1>1, <1>2, <1>3, <1>4, SettledOf, RunMoves DEF SameLedger
  <1>5. CASE Step(p, "after") \/ (Step(p, "finalize") /\ session.artifact[Current(p)] = None)
    <2>1. /\ pub' \in [Publisher -> RunRow]
          /\ \A q \in Publisher \ {p} : pub'[q] = pub[q]
          /\ pub'[p].pc \in {"after", "finalize"}
          /\ pub'[p].pc = "finalize" => session.artifact[Current(p)'] = None
          /\ pub'[p].row = pub[p].row
          /\ pub'[p].todo = pub[p].todo
      BY <1>5, StepOf DEF PublisherStep
    <2>2. RunFits(p)'
      BY <1>2, <1>3, <2>1, RunKnows DEF RunFits, StateFits, SameLedger
    <2> QED BY <1>1, <1>3, <2>1, <2>2, RunMoves
  <1> QED BY <1>4, <1>5 DEF SkipArtifact, ClaimSettle, RecheckSettle

\* The drain is reserved before the session is read and before the send.
LEMMA ReserveDrainKept ==
    ASSUME PubInv, NEW p \in Publisher, ReserveDrain(p)
    PROVE  PubInv'
  <1>1. UNCHANGED <<session, objects, late, report, upload, delivered>>
    BY DEF ReserveDrain
  <1>2. CASE EndRun(p) /\ binding' = binding
    BY <1>1, <1>2, EndKept
  <1>3. CASE /\ binding' = [binding EXCEPT !.drain = Horizon]
             /\ Step(p, IF pub[p].pc = "reserve" THEN "build" ELSE "send")
    <2> DEFINE next == IF pub[p].pc = "reserve" THEN "build" ELSE "send"
    <2>1. binding' \in BindingRow /\ SameLedger /\ binding'.drain # 0
      BY <1>1, <1>3, DrainOf
    <2>2. /\ pub' \in [Publisher -> RunRow]
          /\ \A q \in Publisher \ {p} : pub'[q] = pub[q]
          /\ pub'[p].pc = next
          /\ pub'[p].row = pub[p].row /\ pub'[p].payload = pub[p].payload
      BY <1>3, StepOf DEF PublisherStep
    <2>3. pub[p].pc \in {"reserve", "reserveSend"}
      BY DEF ReserveDrain
    <2>4. next = "send" => pub[p].pc = "reserveSend"
      BY <2>3
    <2>5. RunFits(p)'
      <3>1. RunFits(p) /\ Staged' = Staged
        BY <2>1, RunKnows DEF Staged, SameLedger
      <3>2. CASE pub[p].pc = "reserve"
        BY <2>1, <2>2, <3>1, <3>2 DEF RunFits, StateFits, SameLedger
      <3>3. CASE pub[p].pc = "reserveSend"
        BY <2>1, <2>2, <3>1, <3>3 DEF RunFits, StateFits, SameLedger
      <3> QED BY <2>3, <3>2, <3>3
    <2>6. next = "send" => \A u \in pub'[p].payload.media : upload[u].pc = "done"
      BY <2>2, <2>4 DEF PubInv, UploadsFit
    <2> QED BY <1>1, <2>1, <2>2, <2>5, <2>6, RunMoves
  <1> QED BY <1>2, <1>3 DEF ReserveDrain

\* The manifest names recordings the session names, of kinds not yet settled.
LEMMA ManifestOf ==
    ASSUME PubInv, NEW p \in Publisher
    PROVE  /\ Manifest(p) \subseteq Upload
           /\ \A u \in Manifest(p) :
                 /\ upload[u].pc = "done"
                 /\ upload[u].kind \in binding.required
                 /\ pub[p].row.state.media[upload[u].kind] \notin Terminal
  <1>1. binding.required \subseteq Replay
    BY RunKnows, PublicationAssumption DEF BindingRow
  <1> SUFFICES ASSUME NEW u \in Manifest(p)
               PROVE  /\ u \in Upload
                      /\ upload[u].pc = "done"
                      /\ upload[u].kind \in binding.required
                      /\ pub[p].row.state.media[upload[u].kind] \notin Terminal
    OBVIOUS
  <1>2. PICK k \in binding.required : /\ u = session.artifact[k] /\ u # None
                                      /\ pub[p].row.state.media[k] \notin Terminal
    BY DEF Manifest
  <1>3. k \in Replay /\ u \in Upload
    BY <1>1, <1>2, RunKnows DEF SessionRow
  <1>4. upload[u].kind = k /\ upload[u].pc = "done"
    BY <1>2, <1>3 DEF PubInv, UploadsFit
  <1> QED BY <1>2, <1>3, <1>4

\* What the completion says of a kind.
LEMMA CompletionOf ==
    ASSUME PubInv, NEW p \in Publisher, pub[p].pc # "idle", NEW k \in Replay
    PROVE  LET said == Completion(pub[p].row.state, Manifest(p))[k]
               known == pub[p].row.state.media[k]
           IN /\ said \in {"published", "pending", "unavailable", "not_required"}
              /\ said = "unavailable" <=> known = "unavailable"
              /\ said = "published" =>
                    known = "published" \/ (k \in binding.required /\ known \notin Terminal)
              /\ \A u \in Manifest(p) : upload[u].kind = k => said = "published"
  <1> DEFINE state == pub[p].row.state
             said == Completion(state, Manifest(p))[k]
             known == state.media[k]
             named == \E u \in Manifest(p) : upload[u].kind = k
  <1>1. known \in {"absent", "pending", "published", "unavailable"}
    BY RunKnows DEF RunFits, StateFits, State
  <1>2. k \notin binding.required => known = "absent"
    BY RunKnows DEF RunFits, StateFits
  <1>3. named => k \in binding.required /\ known \notin Terminal
    BY ManifestOf
  <1>4. said = IF k \notin binding.required THEN "not_required"
               ELSE IF named THEN "published"
               ELSE IF known \in Terminal THEN known ELSE "pending"
    BY DEF Completion
  <1> HIDE DEF said, known, named
  <1>5. /\ said \in {"published", "pending", "unavailable", "not_required"}
        /\ said = "unavailable" <=> known = "unavailable"
        /\ said = "published" =>
              known = "published" \/ (k \in binding.required /\ known \notin Terminal)
        /\ named => said = "published"
    BY <1>1, <1>2, <1>3, <1>4 DEF Terminal
  <1> QED BY <1>5 DEF said, known, named

\* The payload of the next revision is built.
LEMMA BuildKept ==
    ASSUME PubInv, NEW p \in Publisher, Build(p)
    PROVE  PubInv'
  <1> DEFINE row == pub[p].row
             media == Manifest(p)
             completion == Completion(row.state, media)
             core == IF row.snapshot = None THEN session.core ELSE row.snapshot.core
             payload == [revision |-> NextRevision(p), core |-> core,
                         media |-> media, completion |-> completion]
             nothing == row.state.revision > 0 /\ media = {} /\ Unreported(row.state) = {}
  <1>1. UNCHANGED <<session, binding, objects, late, report, upload, delivered>> /\ pub[p].pc = "build"
    BY DEF Build
  <1>2. CASE EndRun(p)
    BY <1>1, <1>2, EndKept
  <1>3. CASE /\ session.core # 0 /\ ~nothing
             /\ pub' = [pub EXCEPT ![p].pc = "stage", ![p].payload = payload]
    <2>1. RunFits(p) /\ row \in Row /\ StateFits(row.state) /\ row.state \in State
      BY <1>1, RunKnows DEF RunFits, StateFits
    <2>2. completion \in [Replay -> {"published", "pending", "unavailable", "not_required"}]
      BY <1>1, CompletionOf DEF Completion
    <2>3. core \in 1 .. MaxCore
      <3>1. session.core \in 1 .. MaxCore
        BY <1>3, RunKnows DEF SessionRow
      <3>2. row.snapshot # None => row.snapshot.core \in 1 .. MaxCore
        BY <2>1 DEF Row, Payload
      <3> QED BY <3>1, <3>2
    <2>4. NextRevision(p) = row.state.revision + 1 /\ NextRevision(p) \in 1 .. Cardinality(Replay) + 2
      BY <2>1, KindsAreFinite, RevisionIsBounded DEF NextRevision
    <2>5. media \subseteq Upload
      BY ManifestOf
    <2>6. payload \in Payload /\ payload.revision = row.state.revision + 1
      BY <2>2, <2>3, <2>4, <2>5 DEF Payload
    <2>7. Fits(payload, row.state)
      <3>1. row.state.revision > 0 => \E k \in Replay :
               \/ /\ k \in binding.required /\ row.state.media[k] \notin Terminal
                  /\ completion[k] = "published"
               \/ k \in Unreported(row.state)
        <4>1. CASE media = {}
          BY <1>3, <4>1 DEF Unreported
        <4>2. ASSUME NEW u \in media
              PROVE  \E k \in Replay : /\ k \in binding.required /\ row.state.media[k] \notin Terminal
                                       /\ completion[k] = "published"
          <5>1. upload[u].kind \in binding.required /\ row.state.media[upload[u].kind] \notin Terminal
            BY ManifestOf
          <5>2. upload[u].kind \in Replay
            BY <5>1, RunKnows, PublicationAssumption DEF BindingRow
          <5> QED BY <1>1, <5>1, <5>2, CompletionOf
        <4> QED BY <4>1, <4>2
      <3>2. \A k \in Replay :
               /\ completion[k] = "unavailable" <=> row.state.media[k] = "unavailable"
               /\ completion[k] = "published" =>
                     row.state.media[k] = "published"
                     \/ (k \in binding.required /\ row.state.media[k] \notin Terminal)
        BY <1>1, CompletionOf
      <3> HIDE DEF completion
      <3> QED BY <2>6, <3>1, <3>2 DEF Fits
    <2>8. payload.core = core /\ payload.media = media
      OBVIOUS
    <2> HIDE DEF payload, media, completion
    <2>9. /\ pub' \in [Publisher -> RunRow]
          /\ \A q \in Publisher \ {p} : pub'[q] = pub[q]
          /\ pub'[p].pc = "stage" /\ pub'[p].payload = payload /\ pub'[p].row = row
      BY <1>3, <2>6, RunKnows DEF RunRow, PublisherStep
    <2>10. RunFits(p)'
      <3>1. StateFits(pub[p].row.state)'
        BY <1>1, <2>1, <2>9 DEF StateFits
      <3>2. Fits(pub[p].payload, pub[p].row.state)'
        BY <1>1, <2>7, <2>9 DEF Fits
      <3> QED BY <1>1, <2>1, <2>6, <2>8, <2>9, <3>1, <3>2 DEF RunFits
    <2>11. \A u \in pub'[p].payload.media : upload[u].pc = "done"
      BY <2>8, <2>9, ManifestOf DEF media
    <2> QED BY <1>1, <2>9, <2>10, <2>11, RunMoves, RunKnows DEF SameLedger
  <1> QED BY <1>2, <1>3 DEF Build

\* A killed run changes nothing.
LEMMA AbortKept ==
    ASSUME PubInv, NEW p \in Publisher, AbortRun(p)
    PROVE  PubInv'
  BY EndKept DEF AbortRun

-----------------------------------------------------------------------------
(* Staging, sending and completing a revision. *)

\* A run reserves its payload as the one of the next revision.
LEMMA ReserveKept ==
    ASSUME PubInv, NEW p \in Publisher, pub[p].pc = "stage",
           binding.state = pub[p].row.state, binding.snapshot = pub[p].row.snapshot,
           binding' = [binding EXCEPT !.snapshot = pub[p].payload], Step(p, "reserveSend"),
           UNCHANGED <<session, objects, late, report, upload, delivered>>
    PROVE  PubInv'
  <1> DEFINE payload == pub[p].payload
             rev == binding.state.revision
  <1>1. /\ payload \in Payload /\ payload # None
        /\ payload.revision = rev + 1
        /\ Fits(payload, binding.state)
        /\ IF binding.snapshot = None THEN rev = 0 ELSE binding.snapshot.revision # rev + 1
        /\ binding.snapshot # None => payload.core = binding.snapshot.core
    BY RunKnows, NoneIsNoPayload DEF RunFits
  <1>2. ~Staged
    BY <1>1 DEF Staged
  <1>3. /\ binding' \in BindingRow
        /\ binding'.required = binding.required /\ binding'.state = binding.state
        /\ binding'.digest = binding.digest /\ binding'.snapshot = payload
        /\ binding'.drain = binding.drain
    BY <1>1, RunKnows DEF BindingRow
  <1>4. Staged'
    BY <1>1, <1>3 DEF Staged
  <1>5. /\ pub' \in [Publisher -> RunRow]
        /\ \A q \in Publisher \ {p} : pub'[q] = pub[q]
        /\ pub'[p].pc = "reserveSend" /\ pub'[p].payload = payload /\ pub'[p].row = pub[p].row
    BY StepOf DEF PublisherStep
  <1>6. rev \in Nat /\ BindingFits /\ DeliveredFits /\ OnePayloadPerRevision /\ delivered \subseteq Payload
    BY Typed, RevisionIsBounded DEF PubInv, BindingFits
  <1>7. ASSUME NEW x \in delivered
        PROVE  x.revision <= rev /\ x.core = payload.core
    <2>1. x.revision <= rev
      BY <1>2, <1>6 DEF DeliveredFits
    <2>2. x.revision \in Nat /\ x.revision > 0
      BY <1>6, KindsAreFinite DEF Payload
    <2>3. binding.snapshot # None
      BY <1>1, <1>6, <2>1, <2>2
    <2>4. binding.snapshot = binding.digest /\ rev > 0
      BY <1>2, <1>6, <2>3 DEF BindingFits
    <2>5. binding.digest \in delivered
      BY <1>6, <2>4 DEF BindingFits
    <2> QED BY <1>1, <1>6, <2>1, <2>3, <2>4, <2>5 DEF OnePayloadPerRevision
  <1>8. BindingFits'
    <2>1. StateFits(binding.state)'
      BY <1>3, <1>6 DEF BindingFits, StateFits
    <2>2. Fits(binding.snapshot, binding.state)'
      BY <1>1, <1>3 DEF Fits
    <2> QED BY <1>1, <1>3, <1>4, <1>6, <2>1, <2>2 DEF BindingFits
  <1>9. DeliveredFits' /\ OnePayloadPerRevision'
    BY <1>2, <1>3, <1>6, <1>7 DEF DeliveredFits, OnePayloadPerRevision
  <1>10. PublicationTypeOK'
    BY <1>3, <1>5, Typed DEF PubInv, PublicationTypeOK, BindingRow, RunRow
  <1>11. ASSUME NEW q \in Publisher
         PROVE  RunFits(q)'
    <2>1. CASE q # p
      BY <1>2, <1>3, <1>5, <2>1, RunKept
    <2>2. CASE q = p
      <3>1. StateFits(pub[p].row.state)'
        BY <1>3, <1>5, RunKnows DEF RunFits, StateFits
      <3>2. pub[p].row \in Row /\ payload.revision = pub[p].row.state.revision + 1
        BY RunKnows DEF RunFits
      <3> QED BY <1>1, <1>3, <1>4, <1>5, <2>2, <3>1, <3>2 DEF RunFits
    <2> QED BY <2>1, <2>2
  <1>12. UploadsFit'
    BY <1>3, <1>5 DEF PubInv, UploadsFit
  <1>13. DrainFits'
    BY <1>3, <1>5 DEF PubInv, DrainFits, Current
  <1>14. ReportsFit' /\ NoRecordingLost' /\ UnavailableIsTrue'
    BY <1>3 DEF PubInv, ReportsFit, NoRecordingLost, UnavailableIsTrue
  <1> QED BY <1>8, <1>9, <1>10, <1>11, <1>12, <1>13, <1>14 DEF PubInv

\* The runs agree on one payload for the next revision.
LEMMA StageKept ==
    ASSUME PubInv, NEW p \in Publisher, Stage(p)
    PROVE  PubInv'
  <1>1. UNCHANGED <<session, objects, late, report, upload, delivered>> /\ pub[p].pc = "stage"
    BY DEF Stage
  <1>2. CASE /\ binding.state = pub[p].row.state /\ binding.snapshot = pub[p].row.snapshot
             /\ binding' = [binding EXCEPT !.snapshot = pub[p].payload] /\ Step(p, "reserveSend")
    BY <1>1, <1>2, ReserveKept
  <1>3. CASE EndRun(p) /\ UNCHANGED binding
    BY <1>1, <1>3, EndKept
  <1>4. CASE /\ binding.state = pub[p].row.state /\ Staged /\ UNCHANGED binding
             /\ pub' = [pub EXCEPT ![p].pc = "reserveSend", ![p].payload = binding.snapshot]
    <2>1. /\ binding.snapshot \in Payload
          /\ binding.snapshot.revision = binding.state.revision + 1
      BY <1>4, RunKnows DEF Staged, BindingRow
    <2>2. /\ pub' \in [Publisher -> RunRow]
          /\ \A q \in Publisher \ {p} : pub'[q] = pub[q]
          /\ pub'[p].pc = "reserveSend" /\ pub'[p].payload = binding.snapshot
          /\ pub'[p].row = pub[p].row
      BY <1>4, <2>1, RunKnows DEF RunRow, PublisherStep
    <2>3. RunFits(p)'
      <3>1. StateFits(pub[p].row.state)' /\ Staged'
        BY <1>1, <1>4, <2>2, RunKnows DEF RunFits, StateFits, Staged
      <3> QED BY <1>1, <1>4, <2>1, <2>2, <3>1, RunKnows DEF RunFits
    <2>4. \A u \in pub'[p].payload.media : upload[u].pc = "done"
      BY <1>4, <2>2 DEF PubInv, UploadsFit, Staged
    <2> QED BY <1>1, <1>4, <2>2, <2>3, <2>4, RunMoves, RunKnows DEF SameLedger
  <1> QED BY <1>2, <1>3, <1>4 DEF Stage

\* The control plane accepts what is staged, or knows the payload.
LEMMA SendKept ==
    ASSUME PubInv, NEW p \in Publisher, Send(p)
    PROVE  PubInv'
  <1> DEFINE payload == pub[p].payload
             rev == binding.state.revision
  <1>1. UNCHANGED <<session, binding, objects, late, report, upload>> /\ pub[p].pc = "send"
    BY DEF Send
  <1>2. CASE EndRun(p) /\ UNCHANGED delivered
    BY <1>1, <1>2, EndKept
  <1>3. CASE delivered' = delivered \cup {payload} /\ Step(p, "delete")
    <2>1. /\ payload \in Payload
          /\ (Staged /\ payload = binding.snapshot) \/ payload \in delivered
          /\ BindingFits /\ DeliveredFits /\ OnePayloadPerRevision /\ delivered \subseteq Payload
          /\ rev \in Nat
      BY <1>1, RunKnows, Typed, RevisionIsBounded DEF RunFits, PubInv, BindingFits
    <2>2. /\ pub' \in [Publisher -> RunRow]
          /\ \A q \in Publisher \ {p} : pub'[q] = pub[q]
          /\ pub'[p].pc = "delete" /\ pub'[p].payload = payload /\ pub'[p].row = pub[p].row
      BY <1>3, StepOf DEF PublisherStep
    <2>3. Staged' = Staged
      BY <1>1 DEF Staged
    <2>4. BindingFits'
      BY <1>1, <1>3, <2>1, <2>3 DEF BindingFits, StateFits, Fits
    <2>5. DeliveredFits'
      BY <1>1, <1>3, <2>1, <2>3 DEF DeliveredFits
    <2>6. OnePayloadPerRevision'
      <3>1. CASE payload \in delivered
        BY <1>3, <2>1, <3>1 DEF OnePayloadPerRevision
      <3>2. CASE Staged /\ payload = binding.snapshot
        <4>1. payload.revision = rev + 1
          BY <3>2 DEF Staged
        <4>2. \A x \in delivered : x.core = payload.core /\ (x = payload \/ x.revision <= rev)
          BY <2>1, <3>2 DEF DeliveredFits
        <4>3. payload.revision > 1 => \E z \in delivered : z.revision = payload.revision - 1
          BY <2>1, <4>1 DEF BindingFits
        <4>4. \A x \in delivered : x.revision = payload.revision => x = payload
          BY <2>1, <4>1, <4>2
        <4> QED BY <1>3, <2>1, <4>2, <4>3, <4>4 DEF OnePayloadPerRevision
      <3> QED BY <2>1, <3>1, <3>2
    <2>7. PublicationTypeOK'
      BY <1>1, <1>3, <2>1, <2>2, Typed DEF PubInv, PublicationTypeOK, RunRow
    <2>8. ASSUME NEW q \in Publisher
          PROVE  RunFits(q)'
      <3>1. CASE q # p
        BY <1>1, <1>3, <2>2, <2>3, <3>1, RunKept
      <3>2. CASE q = p
        <4>1. StateFits(pub[p].row.state)'
          BY <1>1, <2>2, RunKnows DEF RunFits, StateFits
        <4>2. pub[p].row \in Row /\ payload.revision = pub[p].row.state.revision + 1
          BY <1>1, RunKnows DEF RunFits
        <4> QED BY <1>3, <2>1, <2>2, <3>2, <4>1, <4>2 DEF RunFits
      <3> QED BY <3>1, <3>2
    <2>9. UploadsFit'
      BY <1>1, <2>2 DEF PubInv, UploadsFit
    <2>10. DrainFits'
      BY <1>1, <2>2 DEF PubInv, DrainFits, Current
    <2>11. ReportsFit' /\ NoRecordingLost'
      BY <1>1, <1>3 DEF PubInv, ReportsFit, NoRecordingLost
    <2>12. UnavailableIsTrue'
      <3>1. ASSUME NEW k \in Replay, binding.state.media[k] = "unavailable"
            PROVE  payload \in delivered \/ payload.completion[k] # "published"
        BY <2>1, <3>1 DEF BindingFits, Fits, Terminal
      <3> QED BY <1>1, <1>3, <3>1 DEF PubInv, UnavailableIsTrue
    <2> QED BY <2>4, <2>5, <2>6, <2>7, <2>8, <2>9, <2>10, <2>11, <2>12 DEF PubInv
  <1> QED BY <1>2, <1>3 DEF Send

\* The sources of an accepted payload are deleted.
LEMMA DeleteKept ==
    ASSUME PubInv, NEW p \in Publisher, DeleteSources(p)
    PROVE  PubInv'
  <1> DEFINE payload == pub[p].payload
  <1>1. /\ UNCHANGED <<session, binding, late, report, upload, delivered>>
        /\ pub[p].pc = "delete"
        /\ objects' = objects \ payload.media
    BY DEF DeleteSources
  <1>2. payload \in delivered /\ \A u \in payload.media : upload[u].pc = "done"
    BY <1>1, RunKnows DEF RunFits, PubInv, UploadsFit
  <1>3. /\ pub' \in [Publisher -> RunRow]
        /\ \A q \in Publisher \ {p} : pub'[q] = pub[q]
        /\ pub'[p].pc = "complete" /\ pub'[p].payload = payload /\ pub'[p].row = pub[p].row
    BY StepOf DEF DeleteSources, PublisherStep
  <1>4. BindingFits' /\ DeliveredFits' /\ OnePayloadPerRevision'
    BY <1>1, LedgerKept DEF SameLedger
  <1>5. PublicationTypeOK'
    BY <1>1, <1>3, Typed DEF PubInv, PublicationTypeOK, RunRow
  <1>6. ASSUME NEW q \in Publisher
        PROVE  RunFits(q)'
    <2>1. CASE q # p
      BY <1>1, <1>3, <2>1, RunKept DEF Staged
    <2>2. CASE q = p
      <3>1. StateFits(pub[p].row.state)' /\ Staged' = Staged
        BY <1>1, <1>3, RunKnows DEF RunFits, StateFits, Staged
      <3> QED BY <1>1, <1>2, <1>3, <2>2, <3>1, RunKnows DEF RunFits
    <2> QED BY <2>1, <2>2
  <1>7. UploadsFit'
    BY <1>1, <1>2, <1>3 DEF PubInv, UploadsFit
  <1>8. DrainFits'
    BY <1>1, <1>3 DEF PubInv, DrainFits, Current
  <1>9. ReportsFit' /\ NoRecordingLost' /\ UnavailableIsTrue'
    BY <1>1, <1>2 DEF PubInv, ReportsFit, NoRecordingLost, UnavailableIsTrue
  <1> QED BY <1>4, <1>5, <1>6, <1>7, <1>8, <1>9 DEF PubInv

\* The state after the staged payload x is published.
MediaAfter(x) ==
    [k \in Replay |->
        IF k \notin binding.required \/ binding.state.media[k] \in Terminal THEN binding.state.media[k]
        ELSE IF x.completion[k] = "published" THEN "published" ELSE "pending"]
ToldBy(x) == {k \in Replay : x.completion[k] = "unavailable"}
StateAfter(x) == [revision |-> x.revision, media |-> MediaAfter(x),
                  reported |-> binding.state.reported \cup ToldBy(x)]

\* Each revision settles a kind, says all that is to be said, and takes nothing
\* back.
LEMMA StateAfterFits ==
    ASSUME PubInv, Staged, NEW x \in Payload, x = binding.snapshot
    PROVE  /\ StateFits(StateAfter(x))
           /\ Unreported(StateAfter(x)) = {}
           /\ \A k \in Replay :
                 /\ MediaAfter(x)[k] = "unavailable" => binding.state.media[k] = "unavailable"
                 /\ binding.state.media[k] = "published" => MediaAfter(x)[k] = "published"
                 /\ x.completion[k] = "published" => MediaAfter(x)[k] = "published"
  <1> DEFINE s == binding.state
             t == StateAfter(x)
             media == MediaAfter(x)
  <1>1. /\ s \in State /\ StateFits(s) /\ Fits(x, s)
        /\ x.revision = s.revision + 1 /\ s.revision \in Nat
        /\ s.media \in [Replay -> {"absent", "pending", "published", "unavailable"}]
        /\ s.reported \subseteq Replay
        /\ \A k \in s.reported : s.media[k] = "unavailable"
    BY RevisionIsBounded DEF PubInv, BindingFits, StateFits, Staged, State
  <1>2. /\ media \in [Replay -> {"absent", "pending", "published", "unavailable"}]
        /\ \A k \in Replay : media[k] =
              IF k \notin binding.required \/ s.media[k] \in Terminal THEN s.media[k]
              ELSE IF x.completion[k] = "published" THEN "published" ELSE "pending"
    BY <1>1 DEF MediaAfter
  <1>3. t.revision = x.revision /\ t.media = media /\ t.reported = s.reported \cup ToldBy(x)
    BY DEF StateAfter
  <1>4. t \in State
    BY <1>1, <1>2 DEF StateAfter, State, Payload, ToldBy
  <1> HIDE DEF t, media
  <1>5. ASSUME NEW k \in Replay
        PROVE  /\ media[k] = "unavailable" <=> s.media[k] = "unavailable"
               /\ s.media[k] = "published" => media[k] = "published"
               /\ x.completion[k] = "published" => media[k] = "published"
               /\ k \notin binding.required => media[k] = "absent"
               /\ k \in binding.required => media[k] # "absent"
    BY <1>1, <1>2 DEF Fits, StateFits, Terminal
  <1>6. \A k \in Replay : k \in ToldBy(x) <=> s.media[k] = "unavailable"
    BY <1>1 DEF ToldBy, Fits
  <1>7. t.revision <= 1 + Cardinality(Told(t))
    <2>1. Told(s) \subseteq Told(t)
      BY <1>1, <1>3, <1>5 DEF Told
    <2>2. Cardinality(Told(s)) \in Nat /\ s.revision <= 1 + Cardinality(Told(s))
      BY <1>1, RevisionIsBounded DEF StateFits
    <2>3. Cardinality(Told(t)) \in Nat
      <3>1. Told(t) \subseteq Replay
        BY <1>4 DEF Told, State
      <3> QED BY <3>1, KindsAreFinite, FS_Subset, FS_CardinalityType
    <2>4. CASE s.revision = 0
      BY <1>1, <1>3, <2>3, <2>4
    <2>5. CASE s.revision > 0
      <3>1. PICK k \in Replay :
               \/ s.media[k] \notin Terminal /\ x.completion[k] = "published"
               \/ k \in Unreported(s)
        BY <1>1, <2>5 DEF Fits
      <3>2. k \in Told(t) /\ k \notin Told(s)
        <4>1. CASE s.media[k] \notin Terminal /\ x.completion[k] = "published"
          BY <1>1, <1>3, <1>5, <4>1 DEF Told, Terminal
        <4>2. CASE k \in Unreported(s)
          BY <1>3, <1>6, <4>2 DEF Told, Unreported
        <4> QED BY <3>1, <4>1, <4>2
      <3>3. Cardinality(Told(s)) + 1 <= Cardinality(Told(t))
        BY <1>1, <1>4, <2>1, <3>2, TellingCounts
      <3> QED BY <1>1, <1>3, <2>2, <2>3, <3>3
    <2> QED BY <1>1, <2>4, <2>5
  <1>8. \A k \in t.reported : t.media[k] = "unavailable"
    BY <1>1, <1>3, <1>5, <1>6 DEF ToldBy
  <1>9. StateFits(t)
    <2>1. binding.required \subseteq Replay
      BY Typed, PublicationAssumption DEF PubInv, BindingRow
    <2> QED BY <1>3, <1>4, <1>5, <1>7, <1>8, <2>1 DEF StateFits
  <1>10. Unreported(t) = {}
    BY <1>3, <1>5, <1>6 DEF Unreported
  <1> QED BY <1>5, <1>9, <1>10 DEF t, media

\* A revision is complete: what was staged is published.
LEMMA PublishedKept ==
    ASSUME PubInv, NEW p \in Publisher, pub[p].pc = "complete", EndRun(p),
           binding.state = pub[p].row.state, binding.snapshot = pub[p].payload,
           binding' = Published(p),
           UNCHANGED <<session, objects, late, report, upload, delivered>>
    PROVE  PubInv'
  <1> DEFINE x == pub[p].payload
             kept == IF \E k \in Replay : MediaAfter(x)[k] = "pending" THEN x ELSE None
  <1>1. /\ x \in Payload /\ x # None /\ x \in delivered
        /\ x.revision = binding.state.revision + 1
        /\ x = binding.snapshot /\ Staged
    BY RunKnows, NoneIsNoPayload DEF RunFits, Staged
  <1>2. /\ StateFits(StateAfter(x)) /\ StateAfter(x) \in State
        /\ Unreported(StateAfter(x)) = {}
        /\ \A k \in Replay :
              /\ MediaAfter(x)[k] = "unavailable" => binding.state.media[k] = "unavailable"
              /\ binding.state.media[k] = "published" => MediaAfter(x)[k] = "published"
              /\ x.completion[k] = "published" => MediaAfter(x)[k] = "published"
        /\ StateAfter(x).revision = x.revision /\ StateAfter(x).media = MediaAfter(x)
    BY <1>1, StateAfterFits DEF StateFits, StateAfter
  <1>3. kept \in {x, None}
    OBVIOUS
  <1>4. /\ binding' \in BindingRow
        /\ binding'.required = binding.required
        /\ binding'.state = StateAfter(x)
        /\ binding'.digest = x
        /\ binding'.snapshot = kept
        /\ binding'.drain = binding.drain
    <2> DEFINE status == IF pub[p].row.status = "revoked" THEN binding.status ELSE "completed"
    <2>1. binding' = [binding EXCEPT !.state = StateAfter(x), !.status = status,
                                     !.digest = x, !.snapshot = kept]
      BY DEF Published, StateAfter, MediaAfter, ToldBy
    <2>2. binding \in BindingRow /\ status \in Lifecycle
      BY RunKnows DEF BindingRow, Lifecycle
    <2>3. kept \in Payload \cup {None} /\ x \in Payload /\ StateAfter(x) \in State
      BY <1>1, <1>2, <1>3
    <2> HIDE DEF kept, x, status
    <2> QED BY <2>1, <2>2, <2>3 DEF BindingRow
  <1> HIDE DEF x
  <1>5. binding.state.revision \in Nat /\ BindingFits /\ DeliveredFits
    BY RevisionIsBounded DEF PubInv, BindingFits
  <1>6. ~Staged'
    BY <1>1, <1>2, <1>4, <1>5 DEF Staged
  <1>7. BindingFits'
    <2>1. StateFits(binding.state)'
      BY <1>2, <1>4 DEF StateFits
    <2>2. binding'.state.revision # 0
      BY <1>1, <1>2, <1>4, <1>5
    <2>3. IsPublishable(binding.state)' => binding'.snapshot # None
      BY <1>1, <1>2, <1>4, <2>2 DEF IsPublishable, Pending, Unreported
    <2> QED BY <1>1, <1>2, <1>4, <1>6, <2>1, <2>2, <2>3 DEF BindingFits
  <1>8. DeliveredFits'
    <2>1. ASSUME NEW y \in delivered
          PROVE  /\ y.revision <= x.revision
                 /\ \A k \in Replay : y.completion[k] = "published" => MediaAfter(x)[k] = "published"
      <3>1. y \in Payload /\ y.revision \in Nat /\ x.revision \in Nat
        BY <1>1, Typed, KindsAreFinite DEF PubInv, Payload
      <3> QED BY <1>1, <1>2, <1>5, <3>1 DEF DeliveredFits
    <2> QED BY <1>2, <1>4, <1>6, <2>1 DEF DeliveredFits
  <1>9. PublicationTypeOK'
    BY <1>4, EndOf, Typed DEF PubInv, PublicationTypeOK, BindingRow, RunRow
  <1>10. ASSUME NEW q \in Publisher
         PROVE  RunFits(q)'
    BY <1>1, <1>4, EndOf, RunKept
  <1>11. UploadsFit'
    BY <1>1, <1>3, <1>4, EndOf DEF PubInv, UploadsFit
  <1>12. DrainFits'
    BY <1>4, EndOf DEF PubInv, DrainFits, Current
  <1>13. ReportsFit' /\ NoRecordingLost' /\ OnePayloadPerRevision'
    BY <1>4 DEF PubInv, ReportsFit, NoRecordingLost, OnePayloadPerRevision
  <1>14. UnavailableIsTrue'
    BY <1>2, <1>4 DEF PubInv, UnavailableIsTrue
  <1> QED BY <1>7, <1>8, <1>9, <1>10, <1>11, <1>12, <1>13, <1>14 DEF PubInv

\* The end of a run, whether its row is still the binding's or not.
LEMMA CompleteKept ==
    ASSUME PubInv, NEW p \in Publisher, Complete(p)
    PROVE  PubInv'
  <1>1. /\ UNCHANGED <<session, objects, late, report, upload, delivered>>
        /\ pub[p].pc = "complete" /\ EndRun(p)
    BY DEF Complete
  <1>2. CASE binding' = binding
    BY <1>1, <1>2, EndKept
  <1>3. CASE /\ binding.state = pub[p].row.state /\ binding.snapshot = pub[p].payload
             /\ binding' = Published(p)
    BY <1>1, <1>3, PublishedKept
  <1> QED BY <1>2, <1>3 DEF Complete

-----------------------------------------------------------------------------
(* Declaring a kind unavailable. *)

\* A declaration is made when the drain has run out and nothing is staged, so it
\* is true and no payload says otherwise.
LEMMA DeclarationFits ==
    ASSUME PubInv, NEW k \in binding.required, NEW revoked, Terminalizable(k, revoked),
           session.artifact[k] = None, binding' = Unavailable(k),
           UNCHANGED <<session, objects, upload, delivered>>
    PROVE  /\ binding' \in BindingRow
           /\ binding'.required = binding.required /\ binding'.snapshot = binding.snapshot
           /\ binding'.drain = binding.drain
           /\ ~Staged
           /\ BindingFits' /\ DeliveredFits' /\ OnePayloadPerRevision'
           /\ NoRecordingLost' /\ UnavailableIsTrue'
  <1> DEFINE s == binding.state
             t == [s EXCEPT !.media[k] = "unavailable", !.reported = @ \ {k}]
  <1>1. binding \in BindingRow /\ k \in Replay /\ s \in State
    BY Typed, PublicationAssumption DEF PubInv, BindingRow
  <1>2. binding.drain = 0 /\ ~Staged /\ s.media[k] \notin Terminal
    BY DEF Terminalizable, NoWriter
  <1>3. binding' = [binding EXCEPT !.state = t, !.claim[k] = None, !.stale = @ \ {k}]
    BY <1>1 DEF Unavailable, BindingRow
  <1>4. /\ t \in State /\ t.revision = s.revision /\ t.reported = s.reported \ {k}
        /\ t.media[k] = "unavailable" /\ \A l \in Replay \ {k} : t.media[l] = s.media[l]
    BY <1>1 DEF State
  <1> HIDE DEF t
  <1>5. /\ binding' \in BindingRow /\ binding'.state = t
        /\ binding'.required = binding.required /\ binding'.snapshot = binding.snapshot
        /\ binding'.digest = binding.digest
        /\ binding'.drain = binding.drain
    <2> DEFINE claim == [binding.claim EXCEPT ![k] = None]
               stale == binding.stale \ {k}
    <2>1. binding' = [binding EXCEPT !.state = t, !.claim = claim, !.stale = stale]
      BY <1>1, <1>3 DEF BindingRow
    <2>2. claim \in [Replay -> Publisher \cup Replay \cup {None}] /\ stale \in SUBSET Replay
      BY <1>1 DEF BindingRow
    <2> HIDE DEF claim, stale
    <2> QED BY <1>1, <1>4, <2>1, <2>2 DEF BindingRow
  <1>6. BindingFits /\ DeliveredFits /\ StateFits(s)
    BY DEF PubInv, BindingFits
  <1>7. ~Staged'
    BY <1>2, <1>4, <1>5 DEF Staged
  <1>8. StateFits(binding.state)'
    <2>1. k \notin s.reported
      BY <1>2, <1>6 DEF StateFits, Terminal
    <2>2. Told(t) = Told(s)
      BY <1>1, <1>2, <1>4, <2>1 DEF Told, Terminal
    <2>3. StateFits(t)
      <3>1. \A l \in Replay : l \notin binding.required => t.media[l] = "absent"
        BY <1>4, <1>6 DEF StateFits
      <3>2. \A l \in t.reported : t.media[l] = "unavailable"
        BY <1>1, <1>4, <1>6 DEF StateFits, State
      <3>3. t.revision > 0 => \A l \in binding.required : t.media[l] # "absent"
        <4>1. binding.required \subseteq Replay
          BY <1>1, PublicationAssumption DEF BindingRow
        <4> QED BY <1>4, <1>6, <4>1 DEF StateFits
      <3> QED BY <1>4, <1>6, <2>2, <3>1, <3>2, <3>3 DEF StateFits
    <2> QED BY <1>5, <2>3 DEF StateFits
  <1>9. s.revision > 0 => IsPublishable(s)
    <2> SUFFICES ASSUME s.revision > 0
                 PROVE  IsPublishable(s)
      OBVIOUS
    <2>1. s.media[k] = "pending"
      BY <1>1, <1>2, <1>6 DEF StateFits, State, Terminal
    <2> QED BY <1>1, <2>1 DEF IsPublishable, Pending
  <1>10. BindingFits'
    BY <1>2, <1>4, <1>5, <1>6, <1>7, <1>8, <1>9 DEF BindingFits
  <1>11. DeliveredFits'
    BY <1>1, <1>2, <1>4, <1>5, <1>6, <1>7 DEF DeliveredFits, Terminal
  <1>12. UnavailableIsTrue'
    <2>1. \A u \in Upload : upload[u].pc # "associate"
      BY <1>2 DEF PubInv, DrainFits
    <2>2. \A x \in delivered : x.completion[k] # "published"
      BY <1>1, <1>2, <1>6 DEF DeliveredFits, Terminal
    <2>3. UnavailableIsTrue
      BY DEF PubInv
    <2> QED BY <1>4, <1>5, <2>1, <2>2, <2>3 DEF UnavailableIsTrue
  <1>13. OnePayloadPerRevision' /\ NoRecordingLost'
    BY DEF PubInv, OnePayloadPerRevision, NoRecordingLost
  <1> QED BY <1>2, <1>5, <1>10, <1>11, <1>12, <1>13

\* A run declares a kind unavailable, or gives its claim up.
LEMMA FinalizeSettleKept ==
    ASSUME PubInv, NEW p \in Publisher, FinalizeSettle(p)
    PROVE  PubInv'
  <1> DEFINE k == Current(p)
             revoked == pub[p].row.status = "revoked"
  <1>1. /\ UNCHANGED <<session, objects, late, report, upload, delivered>>
        /\ pub[p].pc = "finalize" /\ Settled(p, TRUE)
    BY DEF FinalizeSettle
  <1>2. k \in binding.required /\ k \in Replay
    BY <1>1, CurrentIsRequired
  <1>3. CASE binding' = Unclaim(k, p)
    <2>1. binding' \in BindingRow /\ SameLedger /\ binding'.drain = binding.drain
      BY <1>1, <1>2, <1>3, ClaimsOf
    <2> QED BY <1>1, <2>1, SettledOf, RunMoves DEF SameLedger
  <1>4. CASE Terminalizable(k, revoked) /\ binding' = Unavailable(k)
    <2>1. session.artifact[k] = None
      BY <1>1, <1>4 DEF PubInv, DrainFits, Terminalizable, NoWriter
    <2>2. /\ binding' \in BindingRow
          /\ binding'.required = binding.required /\ binding'.snapshot = binding.snapshot
          /\ binding'.drain = binding.drain
          /\ ~Staged
          /\ BindingFits' /\ DeliveredFits' /\ OnePayloadPerRevision'
          /\ NoRecordingLost' /\ UnavailableIsTrue'
      BY <1>1, <1>2, <1>4, <2>1, DeclarationFits
    <2>3. /\ pub' \in [Publisher -> RunRow]
          /\ \A q \in Publisher \ {p} : pub'[q] = pub[q]
          /\ pub'[p].pc \in {"idle", "claim", "reserve"}
          /\ RunFits(p)'
      BY <1>1, <2>2, SettledOf
    <2>4. \A q \in Publisher : RunFits(q)'
      BY <1>1, <2>2, <2>3, RunKept
    <2>5. PublicationTypeOK'
      BY <1>1, <2>2, <2>3, Typed DEF PubInv, PublicationTypeOK, BindingRow, RunRow
    <2>6. UploadsFit'
      BY <1>1, <2>2, <2>3 DEF PubInv, UploadsFit
    <2>7. DrainFits'
      BY <1>1, <2>2, <2>3 DEF PubInv, DrainFits, Current
    <2>8. ReportsFit'
      BY <1>1, <2>2 DEF PubInv, ReportsFit
    <2> QED BY <2>2, <2>4, <2>5, <2>6, <2>7, <2>8 DEF PubInv
  <1> QED BY <1>3, <1>4 DEF FinalizeSettle

-----------------------------------------------------------------------------
(* Steps of the engine, the browser and the clock. *)

\* A step that touches neither runs nor uploads, nor what the ledger says.
LEMMA BindingMoves ==
    ASSUME PubInv, SameLedger, UNCHANGED <<objects, pub, upload>>,
           session' \in SessionRow, session'.artifact = session.artifact,
           binding' \in BindingRow, late' \in BOOLEAN,
           report' \in [Replay -> {"idle", "claim", "after", "finalize"}],
           ReportsFit', DrainFits'
    PROVE  PubInv'
  <1>1. BindingFits' /\ DeliveredFits' /\ OnePayloadPerRevision'
    BY LedgerKept
  <1>2. PublicationTypeOK'
    BY Typed DEF PubInv, PublicationTypeOK, SameLedger, SessionRow, BindingRow
  <1>3. \A p \in Publisher : RunFits(p)'
    BY RunKept DEF SameLedger, Staged
  <1>4. UploadsFit' /\ NoRecordingLost' /\ UnavailableIsTrue'
    BY DEF PubInv, UploadsFit, NoRecordingLost, UnavailableIsTrue, SameLedger
  <1> QED BY <1>1, <1>2, <1>3, <1>4 DEF PubInv

\* The engine, the deadline and the lifecycle of the binding.
LEMMA EngineKept ==
    ASSUME PubInv, EngineNext \/ Revoke \/ DeadlinePasses
    PROVE  PubInv'
  <1>1. UNCHANGED <<objects, pub, report, upload, delivered>>
    BY DEF EngineNext, CompleteSession, WriteFeedback, Revoke, DeadlinePasses
  <1>2. session \in SessionRow /\ binding \in BindingRow /\ late \in BOOLEAN
    BY Typed DEF PubInv
  <1>3. CASE EngineNext
    <2>1. session' \in SessionRow /\ session'.artifact = session.artifact
      <3>1. CASE CompleteSession
        BY <1>2, <3>1 DEF CompleteSession, SessionRow
      <3>2. CASE WriteFeedback
        <4>1. session.core + 1 \in 0 .. MaxCore
          BY <1>2, <3>2, PublicationAssumption DEF WriteFeedback, SessionRow
        <4> QED BY <1>2, <3>2, <4>1 DEF WriteFeedback, SessionRow
      <3> QED BY <1>3, <3>1, <3>2 DEF EngineNext
    <2>2. UNCHANGED <<binding, late>>
      BY <1>3 DEF EngineNext, CompleteSession, WriteFeedback
    <2>3. ReportsFit' /\ DrainFits'
      BY <1>1, <2>1, <2>2 DEF PubInv, ReportsFit, DrainFits, Current
    <2> QED BY <1>1, <1>2, <2>1, <2>2, <2>3, Typed, BindingMoves DEF PubInv, SameLedger
  <1>4. CASE Revoke
    <2>1. PICK purge \in BOOLEAN : binding' = [binding EXCEPT !.status = "revoked", !.purge = purge]
      BY <1>4 DEF Revoke
    <2>2. binding' \in BindingRow /\ SameLedger /\ binding'.drain = binding.drain
      BY <1>1, <1>2, <2>1 DEF BindingRow, Lifecycle, SameLedger
    <2>3. UNCHANGED <<session, late>>
      BY <1>4 DEF Revoke
    <2>4. ReportsFit' /\ DrainFits'
      BY <1>1, <2>2, <2>3 DEF PubInv, ReportsFit, DrainFits, Current, SameLedger
    <2> QED BY <1>1, <1>2, <2>2, <2>3, <2>4, Typed, BindingMoves DEF PubInv
  <1>5. CASE DeadlinePasses
    <2>1. UNCHANGED <<session, binding>> /\ late' = TRUE
      BY <1>5 DEF DeadlinePasses
    <2>2. ReportsFit' /\ DrainFits'
      BY <1>1, <2>1 DEF PubInv, ReportsFit, DrainFits, Current
    <2> QED BY <1>1, <1>2, <2>1, <2>2, Typed, BindingMoves DEF PubInv, SameLedger
  <1> QED BY <1>3, <1>4, <1>5

\* The drain runs out only when nothing is in progress, and leftovers expire.
LEMMA ClockKept ==
    ASSUME PubInv, Tick \/ Expire
    PROVE  PubInv'
  <1>1. UNCHANGED <<session, objects, late, pub, report, upload, delivered>>
    BY DEF Tick, Expire
  <1>2. session \in SessionRow /\ binding \in BindingRow
    BY Typed DEF PubInv
  <1>3. CASE Tick
    <2>1. binding' \in BindingRow /\ SameLedger /\ binding'.drain = binding.drain - 1
      BY <1>1, <1>2, <1>3, PublicationAssumption DEF Tick, BindingRow, SameLedger
    <2>2. binding'.drain = 0 => Quiet
      BY <1>2, <1>3, <2>1, PublicationAssumption DEF Tick, BindingRow
    <2>3. DrainFits'
      BY <1>1, <2>2 DEF DrainFits, Quiet
    <2>4. ReportsFit'
      BY <1>1, <2>1 DEF PubInv, ReportsFit, SameLedger
    <2> QED BY <1>1, <1>2, <2>1, <2>3, <2>4, Typed, BindingMoves DEF PubInv
  <1>4. CASE Expire
    <2>1. binding' \in BindingRow /\ SameLedger /\ binding'.drain = binding.drain
      <3>1. ASSUME NEW u \in Upload, binding' = [binding EXCEPT !.capabilities = @ \ {u}]
            PROVE  binding' \in BindingRow /\ SameLedger /\ binding'.drain = binding.drain
        BY <1>1, <1>2, <3>1 DEF BindingRow, SameLedger
      <3>2. ASSUME NEW u \in Upload, binding' = [binding EXCEPT !.reserved = @ \ {u}]
            PROVE  binding' \in BindingRow /\ SameLedger /\ binding'.drain = binding.drain
        BY <1>1, <1>2, <3>2 DEF BindingRow, SameLedger
      <3>3. ASSUME NEW k \in Replay, binding' = [binding EXCEPT !.stale = @ \cup {k}]
            PROVE  binding' \in BindingRow /\ SameLedger /\ binding'.drain = binding.drain
        BY <1>1, <1>2, <3>3 DEF BindingRow, SameLedger
      <3>4. binding.capabilities \subseteq Upload /\ binding.reserved \subseteq Upload
        BY <1>2 DEF BindingRow
      <3> QED BY <1>4, <3>1, <3>2, <3>3, <3>4 DEF Expire
    <2>2. ReportsFit' /\ DrainFits'
      BY <1>1, <2>1 DEF PubInv, ReportsFit, DrainFits, Current, SameLedger
    <2> QED BY <1>1, <1>2, <2>1, <2>2, Typed, BindingMoves DEF PubInv
  <1> QED BY <1>3, <1>4

\* A report, but for the declaration itself.
LEMMA ReportKept ==
    ASSUME PubInv, NEW k \in Replay,
           StartReport(k) \/ ClaimReport(k) \/ RecheckReport(k) \/ AbandonReport(k)
    PROVE  PubInv'
  <1> USE DEF StartReport, ClaimReport, RecheckReport, AbandonReport
  <1>1. UNCHANGED <<session, objects, late, pub, upload, delivered>>
    OBVIOUS
  <1>2. /\ session \in SessionRow /\ late \in BOOLEAN
        /\ report \in [Replay -> {"idle", "claim", "after", "finalize"}]
        /\ binding \in BindingRow
    BY Typed DEF PubInv
  <1>3. binding' \in BindingRow /\ SameLedger /\ binding'.drain = binding.drain
    <2>1. CASE binding' = binding
      BY <1>1, <1>2, <2>1 DEF SameLedger
    <2>2. CASE binding' = Claim(k, k) \/ binding' = Unclaim(k, k)
      BY <1>1, <2>2, ClaimsOf
    <2> QED BY <2>1, <2>2
  <1>4. PICK pc \in {"idle", "claim", "after", "finalize"} :
           /\ report' = [report EXCEPT ![k] = pc]
           /\ pc # "idle" => k \in binding.required
           /\ pc = "finalize" => session.artifact[k] = None
    BY <1>2 DEF PubInv, ReportsFit
  <1>5. report' \in [Replay -> {"idle", "claim", "after", "finalize"}] /\ ReportsFit'
    BY <1>2, <1>3, <1>4 DEF PubInv, ReportsFit, SameLedger
  <1>6. DrainFits'
    BY <1>1, <1>2, <1>3, <1>4 DEF PubInv, DrainFits, Current
  <1> QED BY <1>1, <1>2, <1>3, <1>5, <1>6, BindingMoves

\* A report declares a kind unavailable, or gives its claim up.
LEMMA FinalizeReportKept ==
    ASSUME PubInv, NEW k \in Replay, FinalizeReport(k)
    PROVE  PubInv'
  <1>1. /\ UNCHANGED <<session, objects, late, pub, upload, delivered>>
        /\ report[k] = "finalize" /\ report' = [report EXCEPT ![k] = "idle"]
    BY DEF FinalizeReport
  <1>2. /\ report' \in [Replay -> {"idle", "claim", "after", "finalize"}]
        /\ \A l \in Replay : report'[l] # "idle" => report'[l] = report[l]
    BY <1>1, Typed DEF PubInv
  <1>3. CASE binding' = Unclaim(k, k)
    <2>1. binding' \in BindingRow /\ SameLedger /\ binding'.drain = binding.drain
      BY <1>1, <1>3, ClaimsOf
    <2>2. ReportsFit' /\ DrainFits'
      BY <1>1, <1>2, <2>1 DEF PubInv, ReportsFit, DrainFits, Current, SameLedger
    <2> QED BY <1>1, <1>2, <2>1, <2>2, Typed, BindingMoves DEF PubInv
  <1>4. CASE Terminalizable(k, FALSE) /\ binding' = Unavailable(k)
    <2>1. session.artifact[k] = None /\ k \in binding.required
      BY <1>1, <1>4 DEF PubInv, DrainFits, ReportsFit, Terminalizable, NoWriter
    <2>2. /\ binding' \in BindingRow
          /\ binding'.required = binding.required /\ binding'.snapshot = binding.snapshot
          /\ binding'.drain = binding.drain
          /\ ~Staged
          /\ BindingFits' /\ DeliveredFits' /\ OnePayloadPerRevision'
          /\ NoRecordingLost' /\ UnavailableIsTrue'
      BY <1>1, <1>4, <2>1, DeclarationFits
    <2>3. \A q \in Publisher : RunFits(q)'
      BY <1>1, <2>2, RunKept
    <2>4. PublicationTypeOK'
      BY <1>1, <1>2, <2>2, Typed DEF PubInv, PublicationTypeOK, BindingRow
    <2>5. UploadsFit' /\ DrainFits' /\ ReportsFit'
      BY <1>1, <1>2, <2>2 DEF PubInv, UploadsFit, DrainFits, ReportsFit, Current
    <2> QED BY <2>2, <2>3, <2>4, <2>5 DEF PubInv
  <1> QED BY <1>3, <1>4 DEF FinalizeReport

\* A step of upload u that takes nothing out of storage.
LEMMA UploadMoves ==
    ASSUME PubInv, SameLedger, NEW u \in Upload, UNCHANGED <<session, late, pub, report>>,
           binding' \in BindingRow, binding'.drain = 0 => binding.drain = 0,
           upload' \in [Upload -> UploadRow],
           \A v \in Upload \ {u} : upload'[v] = upload[v],
           upload[u].pc # "done",
           upload'[u].kind \in Replay,
           objects \subseteq objects', objects' \subseteq Upload,
           upload'[u].pc \in {"uploaded", "reserveAssociate", "associate"} => u \in objects',
           upload'[u].pc = "associate" => binding.state.media[upload'[u].kind] # "unavailable",
           binding'.drain = 0 => upload'[u].pc \in {"idle", "holding", "uploaded", "done"}
    PROVE  PubInv'
  <1>1. BindingFits' /\ DeliveredFits' /\ OnePayloadPerRevision'
    BY LedgerKept
  <1>2. PublicationTypeOK'
    BY Typed DEF PubInv, PublicationTypeOK, SameLedger, BindingRow, UploadRow
  <1>3. \A p \in Publisher : RunFits(p)'
    BY RunKept DEF SameLedger, Staged
  <1>4. UploadsFit'
    <2>1. ASSUME NEW v \in Upload, upload[v].pc = "done"
          PROVE  upload'[v] = upload[v]
      BY <2>1
    <2>2. /\ session.artifact \in [Replay -> Upload \cup {None}]
          /\ binding.snapshot # None => binding.snapshot.media \subseteq Upload
          /\ \A p \in Publisher :
                pub[p].pc \in {"stage", "reserveSend", "send", "delete", "complete"} =>
                    pub[p].payload.media \subseteq Upload
      BY Typed DEF PubInv, RunFits, SessionRow, BindingRow, Payload
    <2>3. ASSUME NEW v \in Upload
          PROVE  /\ upload'[v].pc # "idle" => upload'[v].kind \in Replay
                 /\ upload'[v].pc \in {"uploaded", "reserveAssociate", "associate"} => v \in objects'
      <3>1. CASE v = u
        BY <3>1
      <3>2. CASE v # u
        BY <3>2 DEF PubInv, UploadsFit
      <3> QED BY <3>1, <3>2
    <2>4. UploadsFit
      BY DEF PubInv
    <2> QED BY <2>1, <2>2, <2>3, <2>4 DEF UploadsFit, SameLedger
  <1>5. DrainFits'
    BY DEF PubInv, DrainFits, Current
  <1>6. ReportsFit' /\ NoRecordingLost'
    BY DEF PubInv, ReportsFit, NoRecordingLost, SameLedger
  <1>7. UnavailableIsTrue'
    BY DEF PubInv, UnavailableIsTrue, SameLedger
  <1> QED BY <1>1, <1>2, <1>3, <1>4, <1>5, <1>6, <1>7 DEF PubInv

\* An upload goes to its next step.
LEMMA UploadTo ==
    ASSUME PubInv, NEW u \in Upload, NEW pc \in {"idle"} \cup UploadStep, UploadStepTo(u, pc)
    PROVE  /\ upload' \in [Upload -> UploadRow]
           /\ \A v \in Upload \ {u} : upload'[v] = upload[v]
           /\ upload'[u].pc = pc
           /\ upload'[u].kind = upload[u].kind
  <1>1. upload \in [Upload -> UploadRow]
    BY Typed DEF PubInv
  <1> QED BY <1>1 DEF UploadStepTo, UploadRow

\* The requests of an upload, up to the association.
LEMMA UploadKept ==
    ASSUME PubInv, NEW u \in Upload,
           \/ \E k \in Replay : ClaimMint(u, k)
           \/ ReserveWrite(u) \/ RecordKey(u) \/ PutObject(u)
           \/ ClaimAssociate(u) \/ AbandonUpload(u)
    PROVE  PubInv'
  <1>1. /\ upload \in [Upload -> UploadRow] /\ binding \in BindingRow /\ objects \subseteq Upload
        /\ upload[u].pc # "idle" => upload[u].kind \in Replay
        /\ upload[u].pc \in {"uploaded", "reserveAssociate", "associate"} => u \in objects
    BY Typed DEF PubInv, UploadsFit
  <1>2. binding.drain = 0 => upload[u].pc \in {"idle", "holding", "uploaded", "done"}
    BY DEF PubInv, DrainFits
  <1>3. ASSUME NEW k \in Replay, ClaimMint(u, k)
        PROVE  PubInv'
    <2>1. UNCHANGED <<session, objects, late, pub, report, delivered>> /\ upload[u].pc = "idle"
      BY <1>3 DEF ClaimMint
    <2>2. binding' \in BindingRow /\ SameLedger /\ binding'.drain # 0
      BY <1>3, <2>1, DrainOf DEF ClaimMint
    <2>3. PICK pc \in {"reserveMint", "done"} : upload' = [upload EXCEPT ![u] = [pc |-> pc, kind |-> k]]
      BY <1>3 DEF ClaimMint
    <2>4. /\ upload' \in [Upload -> UploadRow] /\ \A v \in Upload \ {u} : upload'[v] = upload[v]
          /\ upload'[u].pc \in {"reserveMint", "done"} /\ upload'[u].kind = k
      BY <1>1, <2>3 DEF UploadRow, UploadStep
    <2> QED BY <1>1, <2>1, <2>2, <2>4, UploadMoves
  <1>4. CASE ReserveWrite(u)
    <2>1. /\ UNCHANGED <<session, objects, late, pub, report, delivered>>
          /\ upload[u].pc \in {"reserveMint", "reserveAssociate"}
      BY <1>4 DEF ReserveWrite
    <2>2. binding' \in BindingRow /\ SameLedger /\ binding'.drain = binding.drain
      <3>1. CASE binding' = binding
        BY <1>1, <2>1, <3>1 DEF SameLedger
      <3>2. CASE binding' = [binding EXCEPT !.reserved = @ \cup {u}]
        BY <1>1, <2>1, <3>2 DEF SameLedger, BindingRow
      <3> QED BY <1>4, <3>1, <3>2 DEF ReserveWrite
    <2>3. PICK pc \in {"mint", "associate", "done"} :
             /\ UploadStepTo(u, pc)
             /\ pc = "associate" => WriteReservable(upload[u].kind) /\ upload[u].pc = "reserveAssociate"
      BY <1>4, <2>1 DEF ReserveWrite
    <2>4. /\ upload' \in [Upload -> UploadRow] /\ \A v \in Upload \ {u} : upload'[v] = upload[v]
          /\ upload'[u].pc = pc /\ upload'[u].kind = upload[u].kind
      BY <2>3, UploadTo DEF UploadStep
    <2>5. pc = "associate" => u \in objects /\ binding.state.media[upload[u].kind] # "unavailable"
      BY <1>1, <2>3 DEF WriteReservable, Terminal
    <2> QED BY <1>1, <1>2, <2>1, <2>2, <2>4, <2>5, UploadMoves
  <1>5. CASE RecordKey(u)
    <2>1. UNCHANGED <<session, objects, late, pub, report, delivered>> /\ upload[u].pc = "mint"
      BY <1>5 DEF RecordKey
    <2>2. binding' \in BindingRow /\ SameLedger /\ (binding'.drain = 0 => binding.drain = 0)
      <3>1. CASE binding' = binding
        BY <1>1, <2>1, <3>1 DEF SameLedger
      <3>2. CASE binding' = [binding EXCEPT !.capabilities = @ \cup {u}, !.reserved = @ \ {u},
                                            !.drain = Horizon]
        <4> DEFINE capabilities == binding.capabilities \cup {u}
                   reserved == binding.reserved \ {u}
        <4>1. binding' = [binding EXCEPT !.capabilities = capabilities, !.reserved = reserved,
                                         !.drain = Horizon]
          BY <3>2
        <4>2. /\ capabilities \in SUBSET Upload /\ reserved \in SUBSET Upload
              /\ Horizon \in 0 .. Horizon /\ Horizon # 0
          BY <1>1, PublicationAssumption DEF BindingRow
        <4> HIDE DEF capabilities, reserved
        <4> QED BY <1>1, <2>1, <4>1, <4>2 DEF SameLedger, BindingRow
      <3> QED BY <1>5, <3>1, <3>2 DEF RecordKey
    <2>3. PICK pc \in {"holding", "done"} : UploadStepTo(u, pc)
      BY <1>5 DEF RecordKey
    <2>4. /\ upload' \in [Upload -> UploadRow] /\ \A v \in Upload \ {u} : upload'[v] = upload[v]
          /\ upload'[u].pc \in {"holding", "done"} /\ upload'[u].kind = upload[u].kind
      BY <2>3, UploadTo DEF UploadStep
    <2> QED BY <1>1, <2>1, <2>2, <2>4, UploadMoves
  <1>6. CASE PutObject(u)
    <2>1. /\ UNCHANGED <<session, binding, late, pub, report, delivered>>
          /\ upload[u].pc = "holding" /\ objects' = objects \cup {u}
      BY <1>6 DEF PutObject
    <2>2. /\ upload' \in [Upload -> UploadRow] /\ \A v \in Upload \ {u} : upload'[v] = upload[v]
          /\ upload'[u].pc = "uploaded" /\ upload'[u].kind = upload[u].kind
      BY <1>6, UploadTo DEF PutObject, UploadStep
    <2> QED BY <1>1, <2>1, <2>2, UploadMoves DEF SameLedger
  <1>7. CASE ClaimAssociate(u)
    <2>1. UNCHANGED <<session, objects, late, pub, report, delivered>> /\ upload[u].pc = "uploaded"
      BY <1>7 DEF ClaimAssociate
    <2>2. binding' \in BindingRow /\ SameLedger /\ binding'.drain # 0
      BY <1>7, <2>1, DrainOf DEF ClaimAssociate
    <2>3. PICK pc \in {"reserveAssociate", "done"} : UploadStepTo(u, pc)
      BY <1>7 DEF ClaimAssociate
    <2>4. /\ upload' \in [Upload -> UploadRow] /\ \A v \in Upload \ {u} : upload'[v] = upload[v]
          /\ upload'[u].pc \in {"reserveAssociate", "done"} /\ upload'[u].kind = upload[u].kind
      BY <2>3, UploadTo DEF UploadStep
    <2> QED BY <1>1, <2>1, <2>2, <2>4, UploadMoves
  <1>8. CASE AbandonUpload(u)
    <2>1. /\ UNCHANGED <<session, binding, objects, late, pub, report, delivered>>
          /\ upload[u].pc \notin {"idle", "done"}
      BY <1>8 DEF AbandonUpload
    <2>2. /\ upload' \in [Upload -> UploadRow] /\ \A v \in Upload \ {u} : upload'[v] = upload[v]
          /\ upload'[u].pc = "done" /\ upload'[u].kind = upload[u].kind
      BY <1>8, UploadTo DEF AbandonUpload, UploadStep
    <2> QED BY <1>1, <2>1, <2>2, UploadMoves DEF SameLedger
  <1> QED BY <1>3, <1>4, <1>5, <1>6, <1>7, <1>8

\* A newer recording replaces an older one; the loser's object is deleted, which
\* nothing else names.
LEMMA AssociateKept ==
    ASSUME PubInv, NEW u \in Upload, Associate(u)
    PROVE  PubInv'
  <1> DEFINE k == upload[u].kind
             current == session.artifact[k]
  <1>1. UNCHANGED <<late, pub, report, delivered>> /\ upload[u].pc = "associate"
    BY DEF Associate
  <1>2. /\ session \in SessionRow /\ binding \in BindingRow /\ objects \subseteq Upload
        /\ k \in Replay /\ u \in objects /\ current \in Upload \cup {None}
    BY <1>1, Typed DEF PubInv, UploadsFit, SessionRow
  <1>3. binding.drain # 0 /\ binding.state.media[k] # "unavailable"
    BY <1>1, <1>2 DEF PubInv, DrainFits, UnavailableIsTrue
  <1>4. binding' \in BindingRow /\ SameLedger /\ binding'.drain = binding.drain
    BY <1>1, <1>2 DEF Associate, BindingRow, SameLedger
  <1>5. /\ upload' \in [Upload -> UploadRow] /\ \A v \in Upload \ {u} : upload'[v] = upload[v]
        /\ upload'[u].pc = "done" /\ upload'[u].kind = k
    BY UploadTo DEF Associate, UploadStep
  <1>6. UploadsFit /\ NoRecordingLost
    BY DEF PubInv
  <1>7. /\ session' \in SessionRow /\ objects' \subseteq objects
        /\ \A l \in Replay \ {k} : session'.artifact[l] = session.artifact[l]
        /\ \/ session' = session /\ objects' = objects \ {u}
           \/ /\ session'.artifact[k] = u /\ u \in objects'
              /\ \A v \in objects : v # current => v \in objects'
    <2>1. CASE current # None /\ current > u
      BY <1>2, <2>1 DEF Associate
    <2>2. CASE ~(current # None /\ current > u)
      <3>1. session' = [session EXCEPT !.artifact[k] = u] /\ objects' = objects \ ({current} \ {u})
        BY <2>2 DEF Associate
      <3> HIDE DEF k, current
      <3> QED BY <1>2, <3>1 DEF SessionRow
    <2> QED BY <2>1, <2>2
  <1> HIDE DEF k
  <1>8. current # None => upload[current].kind = k /\ upload[current].pc = "done"
    BY <1>2, <1>6 DEF UploadsFit
  <1>9. ASSUME NEW v \in Upload, upload[v].pc = "done"
        PROVE  upload'[v] = upload[v]
    BY <1>1, <1>5, <1>9
  <1>10. BindingFits' /\ DeliveredFits' /\ OnePayloadPerRevision'
    BY <1>4, LedgerKept
  <1>11. PublicationTypeOK'
    BY <1>1, <1>2, <1>4, <1>5, <1>7, Typed
       DEF PubInv, PublicationTypeOK, SessionRow, BindingRow, UploadRow
  <1>12. \A p \in Publisher : RunFits(p)'
    BY <1>1, <1>4, RunKept DEF SameLedger, Staged
  <1>13. UploadsFit'
    <2>1. /\ binding.snapshot # None => binding.snapshot.media \subseteq Upload
          /\ \A p \in Publisher :
                pub[p].pc \in {"stage", "reserveSend", "send", "delete", "complete"} =>
                    pub[p].payload.media \subseteq Upload
      BY Typed DEF PubInv, RunFits, BindingRow, Payload
    <2>2. ASSUME NEW v \in Upload
          PROVE  /\ upload'[v].pc # "idle" => upload'[v].kind \in Replay
                 /\ upload'[v].pc \in {"uploaded", "reserveAssociate", "associate"} => v \in objects'
      <3>1. CASE v = u
        BY <1>2, <1>5, <3>1
      <3>2. CASE v # u
        BY <1>5, <1>6, <1>7, <1>8, <3>2, PublicationAssumption DEF UploadsFit, Upload
      <3> QED BY <3>1, <3>2
    <2>3. ASSUME NEW l \in Replay, session'.artifact[l] # None
          PROVE  /\ upload'[session'.artifact[l]].kind = l
                 /\ upload'[session'.artifact[l]].pc = "done"
      <3>1. CASE session'.artifact[l] = session.artifact[l]
        <4>1. session.artifact[l] \in Upload
          BY <1>2, <2>3, <3>1 DEF SessionRow
        <4> QED BY <1>6, <1>9, <2>3, <3>1, <4>1 DEF UploadsFit
      <3>2. CASE l = k /\ session'.artifact[l] = u
        BY <1>5, <3>2
      <3> QED BY <1>7, <3>1, <3>2
    <2> QED BY <1>1, <1>4, <1>6, <1>9, <2>1, <2>2, <2>3 DEF UploadsFit, SameLedger
  <1>14. DrainFits'
    BY <1>3, <1>4 DEF DrainFits
  <1>15. ReportsFit'
    BY <1>1, <1>4 DEF PubInv, ReportsFit, SameLedger
  <1>16. NoRecordingLost'
    <2> SUFFICES ASSUME NEW l \in Replay, session'.artifact[l] # None
                 PROVE  \/ session'.artifact[l] \in objects'
                        \/ \E x \in delivered : session'.artifact[l] \in x.media
      BY <1>1 DEF NoRecordingLost
    <2>1. CASE l = k /\ session'.artifact[l] = u /\ u \in objects'
      BY <2>1
    <2>2. CASE session'.artifact[l] = session.artifact[l] /\ session.artifact[l] \notin objects
      BY <1>6, <2>2 DEF NoRecordingLost
    <2>3. CASE session'.artifact[l] = session.artifact[l] /\ session.artifact[l] \in objects
      <3>1. upload[session.artifact[l]].kind = l /\ upload[session.artifact[l]].pc = "done"
        BY <1>6, <2>3 DEF UploadsFit
      <3>2. session.artifact[l] # u
        BY <1>1, <3>1
      <3>3. l # k => session.artifact[l] # current
        BY <1>8, <2>3, <3>1
      <3> QED BY <1>7, <2>3, <3>2, <3>3
    <2> QED BY <1>7, <2>1, <2>2, <2>3
  <1>17. UnavailableIsTrue'
    <2> SUFFICES ASSUME NEW l \in Replay, binding.state.media[l] = "unavailable"
                 PROVE  /\ session'.artifact[l] = None
                        /\ \A v \in Upload : upload'[v].kind = l => upload'[v].pc # "associate"
                        /\ \A x \in delivered : x.completion[l] # "published"
      BY <1>1, <1>4 DEF UnavailableIsTrue, SameLedger
    <2>1. l # k
      BY <1>3
    <2> QED BY <1>5, <1>7, <2>1 DEF PubInv, UnavailableIsTrue
  <1> QED BY <1>10, <1>11, <1>12, <1>13, <1>14, <1>15, <1>16, <1>17 DEF PubInv

-----------------------------------------------------------------------------
(* The invariant and what it gives. *)

\* The invariant holds initially.
LEMMA PubInvStarts ==
    ASSUME Init
    PROVE  PubInv
  <1> DEFINE fresh == [revision |-> 0, media |-> [k \in Replay |-> "absent"], reported |-> {}]
  <1>1. /\ binding \in BindingRow
        /\ binding.state = fresh /\ binding.snapshot = None /\ binding.digest = None
    <2> DEFINE noClaim == [k \in Replay |-> None]
    <2>1. /\ fresh \in State
          /\ noClaim \in [Replay -> Publisher \cup Replay \cup {None}]
          /\ 0 \in 0 .. Horizon
      BY KindsAreFinite, PublicationAssumption DEF State
    <2> HIDE DEF fresh, noClaim
    <2>2. binding \in [required : Consent, state : {fresh}, status : {"active"}, purge : {FALSE},
                       snapshot : {None}, digest : {None}, drain : {0},
                       claim : {noClaim}, stale : {{}}, reserved : {{}}, capabilities : {{}}]
      BY DEF Init, fresh, noClaim
    <2> QED BY <2>1, <2>2 DEF BindingRow, Lifecycle
  <1>2. PublicationTypeOK
    <2>1. session \in SessionRow
      BY PublicationAssumption DEF Init, SessionRow
    <2>2. IdleRun \in RunRow /\ IdleUpload \in UploadRow
      BY DEF RunRow, UploadRow, IdleRun, IdleUpload
    <2>3. /\ objects \in SUBSET Upload /\ late \in BOOLEAN
          /\ pub \in [Publisher -> RunRow]
          /\ report \in [Replay -> {"idle", "claim", "after", "finalize"}]
          /\ upload \in [Upload -> UploadRow]
          /\ delivered \in SUBSET Payload
      BY <2>2 DEF Init
    <2> QED BY <1>1, <2>1, <2>3, Typed
  <1>3. fresh.revision = 0 /\ fresh.reported = {} /\ \A k \in Replay : fresh.media[k] = "absent"
    OBVIOUS
  <1>4. ~Staged
    BY <1>1 DEF Staged
  <1>5. BindingFits
    <2>1. Cardinality(Told(binding.state)) = 0
      <3>1. Told(binding.state) = {}
        BY <1>1, <1>3 DEF Told
      <3> QED BY <3>1, FS_EmptySet
    <2>2. binding.state \in State
      BY <1>1 DEF BindingRow
    <2> HIDE DEF fresh
    <2>3. StateFits(binding.state)
      BY <1>1, <1>3, <2>1, <2>2 DEF StateFits
    <2> QED BY <1>1, <1>3, <1>4, <2>3 DEF BindingFits
  <1>6. DeliveredFits /\ OnePayloadPerRevision
    BY DEF Init, DeliveredFits, OnePayloadPerRevision
  <1>7. \A p \in Publisher : RunFits(p)
    BY DEF Init, RunFits, IdleRun
  <1>8. UploadsFit /\ DrainFits /\ ReportsFit
    BY <1>1 DEF Init, UploadsFit, DrainFits, ReportsFit, IdleRun, IdleUpload
  <1>9. NoRecordingLost /\ UnavailableIsTrue
    BY <1>1, <1>3 DEF Init, NoRecordingLost, UnavailableIsTrue
  <1> QED BY <1>2, <1>5, <1>6, <1>7, <1>8, <1>9 DEF PubInv

\* Every step keeps it.
LEMMA PubInvKept ==
    ASSUME PubInv, [Next]_pubVars
    PROVE  PubInv'
  <1>1. CASE UNCHANGED pubVars
    <2>1. UNCHANGED <<session, binding, objects, late, pub, report, upload, delivered>>
      BY <1>1 DEF pubVars
    <2>2. ReportsFit' /\ DrainFits'
      BY <2>1 DEF PubInv, ReportsFit, DrainFits, Current
    <2> QED BY <2>1, <2>2, Typed, BindingMoves DEF PubInv, SameLedger
  <1>2. CASE EngineNext \/ Revoke \/ DeadlinePasses
    BY <1>2, EngineKept
  <1>3. CASE Tick \/ Expire
    BY <1>3, ClockKept
  <1>4. ASSUME NEW u \in Upload, UploadNext(u)
        PROVE  PubInv'
    BY <1>4, UploadKept, AssociateKept DEF UploadNext
  <1>5. ASSUME NEW k \in Replay, ReportNext(k) \/ AbandonReport(k)
        PROVE  PubInv'
    BY <1>5, ReportKept, FinalizeReportKept DEF ReportNext
  <1>6. ASSUME NEW p \in Publisher, RunNext(p) \/ AbortRun(p)
        PROVE  PubInv'
    <2>1. CASE Scan(p) \/ SettleNext(p) \/ AbortRun(p)
      BY <2>1, ScanKept, SettleKept, FinalizeSettleKept, AbortKept DEF SettleNext
    <2>2. CASE ReserveDrain(p) \/ Build(p) \/ Stage(p) \/ Send(p) \/ DeleteSources(p) \/ Complete(p)
      BY <2>2, ReserveDrainKept, BuildKept, StageKept, SendKept, DeleteKept, CompleteKept
    <2> QED BY <1>6, <2>1, <2>2 DEF RunNext
  <1> QED BY <1>1, <1>2, <1>3, <1>4, <1>5, <1>6 DEF Next

\* So it always holds.
LEMMA PublicationInvariance == Spec => []PubInv
  <1>1. Init => PubInv
    BY PubInvStarts
  <1>2. PubInv /\ [Next]_pubVars => PubInv'
    BY PubInvKept
  <1> QED BY <1>1, <1>2, PTL DEF Spec

\* Every variable keeps its type; in particular the revisions of a result are
\* bounded by the number of replay kinds.
THEOREM PublicationTypeCorrect == Spec => []PublicationTypeOK
  <1>1. PubInv => PublicationTypeOK
    BY DEF PubInv
  <1> QED BY <1>1, PublicationInvariance, PTL

\* However many runs overlap, and whichever of them die, the control plane is
\* given one payload per revision, without a gap and with one scorecard.
THEOREM RevisionsAreUnique == Spec => []OnePayloadPerRevision
  <1>1. PubInv => OnePayloadPerRevision
    BY DEF PubInv
  <1> QED BY <1>1, PublicationInvariance, PTL

\* A recording the session names is in the runtime's storage or was copied.
THEOREM RecordingsAreKept == Spec => []NoRecordingLost
  <1>1. PubInv => NoRecordingLost
    BY DEF PubInv
  <1> QED BY <1>1, PublicationInvariance, PTL

\* A kind declared unavailable has no recording, gets none, and was never said
\* to be published.
THEOREM DeclarationsAreTrue == Spec => []UnavailableIsTrue
  <1>1. PubInv => UnavailableIsTrue
    BY DEF PubInv
  <1> QED BY <1>1, PublicationInvariance, PTL

\* The number of revisions is bounded by the kinds that are settled, and a
\* follow-up that is due has a payload to be built on.
THEOREM FollowUpsArePossible == Spec => []FollowUpPossible
  <1>1. ASSUME PubInv
        PROVE  FollowUpPossible
    <2> DEFINE s == binding.state
               settled == {k \in Replay : s.media[k] \in Terminal}
    <2>1. BindingFits /\ DeliveredFits /\ StateFits(s) /\ s \in State
      BY <1>1 DEF PubInv, BindingFits, StateFits
    <2>2. s.revision <= 1 + Cardinality(settled)
      <3>1. Told(s) \subseteq settled
        BY <2>1 DEF Told, StateFits, State, Terminal
      <3>2. IsFiniteSet(settled)
        BY KindsAreFinite, FS_Subset
      <3>3. Cardinality(Told(s)) <= Cardinality(settled)
        BY <3>1, <3>2, FS_Subset
      <3>4. Cardinality(Told(s)) \in Nat /\ Cardinality(settled) \in Nat
        BY <3>2, <2>1, RevisionIsBounded, FS_CardinalityType
      <3>5. s.revision \in Nat /\ s.revision <= 1 + Cardinality(Told(s))
        BY <2>1, RevisionIsBounded DEF StateFits
      <3> QED BY <3>3, <3>4, <3>5
    <2>3. ASSUME s.revision > 0, IsPublishable(s)
          PROVE  /\ binding.snapshot # None
                 /\ \/ binding.snapshot = binding.digest
                    \/ Staged /\ binding.snapshot.core = binding.digest.core
      <3>1. binding.snapshot # None /\ binding.digest \in delivered
        BY <2>1, <2>3 DEF BindingFits
      <3>2. CASE ~Staged
        BY <2>1, <3>1, <3>2 DEF BindingFits
      <3>3. CASE Staged
        BY <2>1, <3>1, <3>3 DEF DeliveredFits
      <3> QED BY <3>1, <3>2, <3>3
    <2> QED BY <2>2, <2>3 DEF FollowUpPossible
  <1> QED BY <1>1, PublicationInvariance, PTL
=============================================================================
