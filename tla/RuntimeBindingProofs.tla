------------------------ MODULE RuntimeBindingProofs ------------------------
(***************************************************************************)
(* For any exchanges, session creations, writers and deliveries: one       *)
(* engine session and one attempt, nothing after an acknowledged           *)
(* revocation, and nothing of the candidate after an acknowledged purge    *)
(* but what a request that lost its lease is about to delete.              *)
(***************************************************************************)
EXTENDS RuntimeBinding, TLAPS

\* The steps at which a creator holds the session's lease.
HoldingSession == PrincipalStep \cup CreatorStep

\* A creator at work holds the session's lease, unless an ordinary revocation
\* took it, which happens to one creator at most.  Nothing of the kind is true
\* of the principal's lease, which may run out under its holder.
LeasesHeld ==
    /\ \A c \in Creator : request[c].pc \in HoldingSession => binding.sessionLease = c \/ c \in evicted
    /\ evicted # {} => binding.status = "revoked" /\ binding.sessionLease = None
    /\ \A c, d \in evicted : c = d

\* A purge is asked for on a revoked binding only, and the drain covers every
\* capability, each of which the binding knows.
WritersKnown ==
    /\ binding.purge => binding.status = "revoked"
    /\ \A w \in Writer : writer[w] \in {"minting", "usable"} => binding.drain
    /\ \A w \in Writer : writer[w] = "usable" => w \in binding.capabilities
    /\ objects \subseteq binding.capabilities

\* Who is about to insert a session found none, and one that was inserted stays
\* until a purge.
SessionsKnown ==
    /\ \A c \in Creator : At(c, "insert") => sessions = {}
    /\ OneEngineSession
    /\ ~binding.purge =>
         \A c \in Creator : request[c].pc \in {"attach", "discard", "adopt"} => request[c].session \in sessions

\* A binding without a session has not counted one.
AttemptsCounted ==
    /\ OneAttempt
    /\ binding.session = None /\ ~binding.purge => binding.attempts = 0

\* Before its activation the binding has given nobody anything.
NothingStarted ==
    /\ ~signedIn
    /\ user = "absent" /\ sessions = {} /\ objects = {}
    /\ binding.session = None /\ binding.sessionLease = None
    /\ binding.capabilities = {} /\ ~binding.drain
    /\ binding.status \in {"absent", "provisioned", "revoked"}
    /\ \A w \in Writer : writer[w] = "idle"
    /\ \A c \in Creator : At(c, "idle")
    /\ \A q \in Exchange : request[q].pc \in {"idle", "provision", "done", "closeRace", "claim", "check", "dropRelease"}

\* Without a binding nothing has started.
NotProvisioned ==
    binding.status = "absent" =>
        /\ NothingStarted
        /\ binding.principalLease = None /\ ~binding.purge
        /\ \A q \in Exchange : request[q].pc \in {"idle", "provision", "done"}

\* What a purge waits for, and what is then the case for good.
Quiet ==
    /\ PrivacyRevoked
    /\ binding.sessionLease = None /\ PrincipalFree /\ ~binding.drain

\* What each step of a purge has achieved lasts.
PurgeStep == {"fence", "objects", "rows", "user", "scrub", "complete"}
PurgersKnow ==
    \A r \in Revoker :
        /\ revoker[r].pc \in PurgeStep => Quiet
        /\ revoker[r].pc \in {"fence", "objects"} => objects \subseteq revoker[r].keys
        /\ revoker[r].pc \in {"rows", "user", "scrub", "complete"} => objects = {}
        /\ revoker[r].pc \in {"user", "scrub", "complete"} => sessions \subseteq evicted
        /\ revoker[r].pc = "complete" => binding.session = None

\* An acknowledged purge was quiet, or there was never anything to purge.
PurgedForGood ==
    tombstone = "completed" =>
        /\ objects = {} /\ sessions \subseteq evicted /\ binding.session = None
        /\ Quiet \/ NothingStarted

\* Who acknowledges a revocation has written the tombstone and revoked the
\* binding, or found none that ever gave anybody anything.
RevokedForGood ==
    /\ \A r \in Revoker : revoker[r].pc # "idle" => revoker[r].kind # "none"
    /\ \A r \in Revoker : revoker[r].pc \notin {"idle", "stone"} => tombstone # "none"
    /\ \A r \in Revoker : revoker[r].pc = "limit" => binding.status = "revoked"
    /\ acked # {} => tombstone # "none" /\ (binding.status = "revoked" \/ NothingStarted)

\* The inductive invariant.
BInv ==
    /\ TypeOK
    /\ LeasesHeld
    /\ WritersKnown
    /\ SessionsKnown
    /\ AttemptsCounted
    /\ NotProvisioned
    /\ PurgersKnow
    /\ PurgedForGood
    /\ RevokedForGood

RequestPc == {"idle", "done"} \cup PrincipalStep \cup ExchangeStep \cup CreatorStep
RequestType == [Request -> [pc : RequestPc, session : Creator \cup {None}]]

\* Request q goes to a step, and the others stay where they are.
Moves(q, pc) ==
    /\ request' \in RequestType
    /\ request'[q].pc = pc
    /\ \A o \in Request \ {q} : request'[o] = request[o]

-----------------------------------------------------------------------------

\* A request keeps the session it works on until it ends.
LEMMA GotoMoves ==
    ASSUME TypeOK, NEW q \in Request, NEW pc \in RequestPc, Goto(q, pc)
    PROVE  /\ Moves(q, pc)
           /\ pc \notin {"unlease", "done"} => request'[q].session = request[q].session
  BY DEF Goto, TypeOK, RequestPc, RequestType, Moves

\* A step of a request that changes nothing else, except the quota used.
LEMMA RequestAlone ==
    ASSUME BInv, NEW q \in Request, NEW pc \in RequestPc, Moves(q, pc),
           UNCHANGED <<tombstone, binding, user, sessions, objects, signedIn, writer, revoker, acked, evicted, late>>,
           used' \in 0 .. Limit,
           q \in Creator /\ pc \in HoldingSession => binding.sessionLease = q \/ q \in evicted,
           q \in Creator /\ pc = "insert" => sessions = {},
           q \in Creator /\ ~binding.purge /\ pc \in {"attach", "discard", "adopt"} => request'[q].session \in sessions,
           binding.status = "absent" => q \in Exchange /\ pc \in {"idle", "provision", "done"},
           NothingStarted /\ tombstone # "none" => NothingStarted'
    PROVE  BInv'
  <1>1. TypeOK'
    BY DEF BInv, TypeOK, Moves, RequestType, RequestPc
  <1>2. LeasesHeld'
    BY DEF BInv, LeasesHeld, Moves, Request
  <1>3. WritersKnown' /\ AttemptsCounted'
    BY DEF BInv, WritersKnown, AttemptsCounted, OneAttempt
  <1>4. SessionsKnown'
    BY DEF BInv, SessionsKnown, OneEngineSession, At, Moves, Request
  <1>5. NotProvisioned'
    BY BindingAssumption DEF BInv, NotProvisioned, NothingStarted, At, Moves, Request
  <1>6. PurgersKnow'
    BY DEF BInv, PurgersKnow, Quiet, PrincipalFree, PrivacyRevoked
  <1>7. PurgedForGood' /\ RevokedForGood'
    BY DEF BInv, PurgedForGood, RevokedForGood, Quiet, PrincipalFree, PrivacyRevoked
  <1> QED BY <1>1, <1>2, <1>3, <1>4, <1>5, <1>6, <1>7 DEF BInv

\* Initially.
LEMMA BInit == Init => BInv
  <1> SUFFICES ASSUME Init PROVE BInv
    OBVIOUS
  <1>1. TypeOK
    <2>1. used \in 0 .. Limit
      BY BindingAssumption DEF Init
    <2>2. request \in [Request -> [pc : {"idle", "done"} \cup PrincipalStep \cup ExchangeStep \cup CreatorStep,
                                   session : Creator \cup {None}]]
      BY DEF Init, IdleRequest
    <2>3. revoker \in [Revoker -> [pc : {"idle"} \cup RevokerStep, kind : {"none", "ordinary", "privacy"},
                                   purge : BOOLEAN, keys : SUBSET Writer]]
      BY DEF Init, IdleRevoker
    <2> QED BY <2>1, <2>2, <2>3 DEF Init, TypeOK, NoBinding
  <1>2. LeasesHeld /\ WritersKnown /\ SessionsKnown /\ AttemptsCounted
    BY DEF Init, LeasesHeld, WritersKnown, SessionsKnown, AttemptsCounted, OneEngineSession,
           OneAttempt, NoBinding,
           IdleRequest, Request, HoldingSession, PrincipalStep, CreatorStep, At
  <1>3. NotProvisioned
    BY DEF Init, NotProvisioned, NothingStarted, NoBinding, IdleRequest, Request, At
  <1>4. PurgersKnow /\ PurgedForGood /\ RevokedForGood
    BY DEF Init, PurgersKnow, PurgedForGood, RevokedForGood, PurgeStep, IdleRevoker
  <1> QED BY <1>1, <1>2, <1>3, <1>4 DEF BInv

\* A request takes the principal's lease, or finds it taken.
LEMMA ClaimPrincipalKept ==
    ASSUME BInv, NEW q \in Request, ClaimPrincipal(q)
    PROVE  BInv'
  <1>1. CASE Live /\ ~binding.purge /\ PrincipalFree
    <2>1. Moves(q, "check")
      BY <1>1, GotoMoves DEF ClaimPrincipal, BInv, HoldingSession, PrincipalStep,
             CreatorStep, ExchangeStep, RequestPc, Request, At
    <2>2. /\ binding' = [binding EXCEPT !.principalLease = q, !.principalExpired = FALSE]
          /\ UNCHANGED <<tombstone, user, used, sessions, objects, signedIn, writer, revoker, acked, evicted, late>>
          /\ request[q].pc = "claim"
      BY <1>1 DEF ClaimPrincipal, At
    <2>3. TypeOK'
      BY <1>1, <2>1, <2>2, BindingAssumption DEF BInv, TypeOK, RequestPc, RequestType, Moves,
             HoldingSession, PrincipalStep, CreatorStep, ExchangeStep, Live
    <2>4. LeasesHeld'
      BY <1>1, <2>1, <2>2, BindingAssumption DEF BInv, LeasesHeld, Moves, Request, HoldingSession,
             PrincipalStep, CreatorStep, ExchangeStep, Live
    <2>5. WritersKnown'
      BY <1>1, <2>2, BindingAssumption DEF BInv, WritersKnown, Live
    <2>6. SessionsKnown'
      BY <1>1, <2>1, <2>2, BindingAssumption DEF BInv, SessionsKnown, OneEngineSession, At, Moves,
             Request, HoldingSession, PrincipalStep, CreatorStep, ExchangeStep,
             Live
    <2>7. AttemptsCounted'
      BY <1>1, <2>2, BindingAssumption DEF BInv, AttemptsCounted, OneAttempt, SessionsKnown, Live
    <2>8. NotProvisioned'
      BY <1>1, <2>1, <2>2, BindingAssumption DEF BInv, NotProvisioned, NothingStarted, At, Moves,
             Request, HoldingSession, PrincipalStep, CreatorStep, ExchangeStep,
             Live
    <2>9. NothingStarted /\ tombstone # "none" => NothingStarted'
      BY <1>1, <2>1, <2>2, BindingAssumption DEF BInv, NothingStarted, At, Moves, Request,
             HoldingSession, PrincipalStep, CreatorStep, ExchangeStep, Live
    <2>10. PurgersKnow'
      BY <1>1, <2>2, BindingAssumption DEF BInv, PurgersKnow, Quiet, PrincipalFree, PrivacyRevoked,
             PurgeStep, Live
    <2>11. PurgedForGood'
      BY <1>1, <2>2, BindingAssumption, <2>9 DEF BInv, PurgedForGood, Quiet, PrincipalFree,
             PrivacyRevoked, Live
    <2>12. RevokedForGood'
      BY <1>1, <2>2, BindingAssumption, <2>9 DEF BInv, RevokedForGood, Live
    <2> QED BY <2>3, <2>4, <2>5, <2>6, <2>7, <2>8, <2>10, <2>11, <2>12 DEF BInv
  <1>2. CASE ~(Live /\ ~binding.purge /\ PrincipalFree)
    <2>1. Moves(q, WithoutPrincipal(q))
      BY <1>2, GotoMoves DEF ClaimPrincipal, BInv, HoldingSession, PrincipalStep,
             CreatorStep, ExchangeStep, RequestPc, Request, At, WithoutPrincipal
    <2>2. /\ UNCHANGED <<tombstone, binding, user, sessions, objects, signedIn, writer, revoker, acked, evicted, late>>
          /\ used' \in 0 .. Limit
      BY <1>2, <2>1 DEF ClaimPrincipal, BInv, TypeOK, WithoutPrincipal
    <2>3. /\ binding.status # "absent"
          /\ q \in Creator => binding.sessionLease = q \/ q \in evicted
      BY <1>2, BindingAssumption DEF ClaimPrincipal, BInv, LeasesHeld, NotProvisioned,
             NothingStarted, HoldingSession, PrincipalStep, CreatorStep,
             ExchangeStep, RequestPc, Request, At, WithoutPrincipal
    <2>4. NothingStarted /\ tombstone # "none" => NothingStarted'
      BY <1>2, <2>1, <2>2, BindingAssumption DEF ClaimPrincipal, NothingStarted, Moves,
             HoldingSession, PrincipalStep, CreatorStep, ExchangeStep, RequestPc,
             Request, At, WithoutPrincipal
    <2> QED BY <1>2, <2>1, <2>2, <2>3, <2>4, RequestAlone DEF HoldingSession,
                   PrincipalStep, CreatorStep, ExchangeStep, RequestPc, Request, At,
                   WithoutPrincipal
  <1> QED BY <1>1, <1>2 DEF ClaimPrincipal

\* It reads the tombstone under its lease.
LEMMA CheckTombstoneKept ==
    ASSUME BInv, NEW q \in Request, CheckTombstone(q)
    PROVE  BInv'
  <1>1. CASE tombstone = "none"
    <2>1. Moves(q, "upsert")
      BY <1>1, GotoMoves DEF CheckTombstone, BInv, HoldingSession, PrincipalStep,
             CreatorStep, ExchangeStep, RequestPc, Request, At
    <2>2. /\ UNCHANGED <<tombstone, binding, user, sessions, objects, signedIn, writer, revoker, acked, evicted, late>>
          /\ used' \in 0 .. Limit
          /\ request[q].pc = "check"
      BY <1>1 DEF CheckTombstone, BInv, TypeOK, At
    <2>3. q \in Creator => binding.sessionLease = q \/ q \in evicted
      BY <2>2 DEF BInv, LeasesHeld, HoldingSession, PrincipalStep
    <2>4. binding.status # "absent"
      BY <2>2 DEF BInv, NotProvisioned, NothingStarted, At, Request
    <2>5. NothingStarted /\ tombstone # "none" => NothingStarted'
      BY <1>1, <2>1, <2>2 DEF NothingStarted, Moves, Request, At
    <2> QED
      BY <1>1, <2>1, <2>2, <2>3, <2>4, <2>5, RequestAlone
      DEF HoldingSession, PrincipalStep, ExchangeStep, CreatorStep, RequestPc, Request
  <1>2. CASE tombstone # "none"
    <2>1. Moves(q, "dropRelease")
      BY <1>2, GotoMoves DEF CheckTombstone, BInv, HoldingSession, PrincipalStep,
             CreatorStep, ExchangeStep, RequestPc, Request, At
    <2>2. /\ UNCHANGED <<tombstone, binding, user, sessions, objects, signedIn, writer, revoker, acked, evicted, late>>
          /\ used' \in 0 .. Limit
          /\ request[q].pc = "check"
      BY <1>2 DEF CheckTombstone, BInv, TypeOK, At
    <2>3. q \in Creator => binding.sessionLease = q \/ q \in evicted
      BY <2>2 DEF BInv, LeasesHeld, HoldingSession, PrincipalStep
    <2>4. binding.status # "absent"
      BY <2>2 DEF BInv, NotProvisioned, NothingStarted, At, Request
    <2>5. NothingStarted /\ tombstone # "none" => NothingStarted'
      BY <1>2, <2>1, <2>2 DEF NothingStarted, Moves, Request, At
    <2> QED
      BY <1>2, <2>1, <2>2, <2>3, <2>4, <2>5, RequestAlone
      DEF HoldingSession, PrincipalStep, ExchangeStep, CreatorStep, RequestPc, Request
  <1> QED BY <1>1, <1>2 DEF CheckTombstone

\* The user is created or refreshed, perhaps after the lease has run out.
LEMMA UpsertPrincipalKept ==
    ASSUME BInv, NEW q \in Request, UpsertPrincipal(q)
    PROVE  BInv'
  <1>1. Moves(q, "recheck")
    BY GotoMoves DEF UpsertPrincipal, BInv, HoldingSession, PrincipalStep,
           CreatorStep, ExchangeStep, RequestPc, Request, At
  <1>2. ~NothingStarted
    BY BindingAssumption DEF UpsertPrincipal, BInv, LeasesHeld, NothingStarted,
           HoldingSession, PrincipalStep, CreatorStep, ExchangeStep, RequestPc,
           Request, At
  <1>3. /\ user' = "active" /\ used' \in 0 .. Limit
        /\ late' \in SUBSET Request
        /\ UNCHANGED <<tombstone, binding, sessions, objects, signedIn, writer, revoker, acked, evicted>>
        /\ request[q].pc = "upsert"
    BY BindingAssumption DEF UpsertPrincipal, At, BInv, TypeOK
  <1>4. WritersKnown' /\ AttemptsCounted'
    BY <1>3 DEF BInv, WritersKnown, AttemptsCounted, OneAttempt
  <1>5. TypeOK'
    BY <1>1, <1>2, <1>3, BindingAssumption DEF BInv, TypeOK, RequestPc, RequestType, Moves,
           HoldingSession, PrincipalStep, CreatorStep, ExchangeStep, Live
  <1>6. LeasesHeld'
    BY <1>1, <1>2, <1>3, BindingAssumption DEF BInv, LeasesHeld, Moves, Request, HoldingSession,
           PrincipalStep, CreatorStep, ExchangeStep, Live
  <1>7. SessionsKnown'
    BY <1>1, <1>2, <1>3, BindingAssumption DEF BInv, SessionsKnown, OneEngineSession, At, Moves,
           Request, HoldingSession, PrincipalStep, CreatorStep, ExchangeStep,
           Live
  <1>8. NotProvisioned'
    BY <1>1, <1>2, <1>3, BindingAssumption DEF BInv, NotProvisioned, NothingStarted, At, Moves,
           Request, HoldingSession, PrincipalStep, CreatorStep, ExchangeStep,
           Live
  <1>9. NothingStarted /\ tombstone # "none" => NothingStarted'
    BY <1>1, <1>2, <1>3, BindingAssumption DEF BInv, NothingStarted, At, Moves, Request,
           HoldingSession, PrincipalStep, CreatorStep, ExchangeStep, Live
  <1>10. PurgersKnow'
    BY <1>2, <1>3, BindingAssumption DEF BInv, PurgersKnow, Quiet, PrincipalFree, PrivacyRevoked,
           PurgeStep, Live
  <1>11. PurgedForGood'
    BY <1>2, <1>3, BindingAssumption, <1>9 DEF BInv, PurgedForGood, Quiet, PrincipalFree,
           PrivacyRevoked, Live
  <1>12. RevokedForGood'
    BY <1>2, <1>3, BindingAssumption, <1>9 DEF BInv, RevokedForGood, Live
  <1> QED BY <1>4, <1>5, <1>6, <1>7, <1>8, <1>10, <1>11, <1>12 DEF BInv

\* It reads the tombstone again.
LEMMA RecheckPrincipalKept ==
    ASSUME BInv, NEW q \in Request, RecheckPrincipal(q)
    PROVE  BInv'
  <1>1. CASE Live /\ ~binding.purge /\ binding.principalLease = q /\ tombstone = "none"
    <2>1. Moves(q, "keepRelease")
      BY <1>1, GotoMoves DEF RecheckPrincipal, BInv, HoldingSession,
             PrincipalStep, CreatorStep, ExchangeStep, RequestPc, Request, At
    <2>2. /\ UNCHANGED <<tombstone, binding, user, sessions, objects, signedIn, writer, revoker, acked, evicted, late>>
          /\ used' \in 0 .. Limit
          /\ request[q].pc = "recheck"
      BY <1>1 DEF RecheckPrincipal, BInv, TypeOK, At
    <2>3. q \in Creator => binding.sessionLease = q \/ q \in evicted
      BY <2>2 DEF BInv, LeasesHeld, HoldingSession, PrincipalStep
    <2>4. binding.status # "absent"
      BY <2>2 DEF BInv, NotProvisioned, NothingStarted, At, Request
    <2>5. NothingStarted /\ tombstone # "none" => NothingStarted'
      BY <1>1, <2>1, <2>2 DEF NothingStarted, Moves, Request, At
    <2> QED
      BY <1>1, <2>1, <2>2, <2>3, <2>4, <2>5, RequestAlone
      DEF HoldingSession, PrincipalStep, ExchangeStep, CreatorStep, RequestPc, Request
  <1>2. CASE ~(Live /\ ~binding.purge /\ binding.principalLease = q /\ tombstone = "none")
    <2>1. Moves(q, "discardUser")
      BY <1>2, GotoMoves DEF RecheckPrincipal, BInv, HoldingSession,
             PrincipalStep, CreatorStep, ExchangeStep, RequestPc, Request, At
    <2>2. /\ UNCHANGED <<tombstone, binding, user, sessions, objects, signedIn, writer, revoker, acked, evicted, late>>
          /\ used' \in 0 .. Limit
          /\ request[q].pc = "recheck"
      BY <1>2 DEF RecheckPrincipal, BInv, TypeOK, At
    <2>3. q \in Creator => binding.sessionLease = q \/ q \in evicted
      BY <2>2 DEF BInv, LeasesHeld, HoldingSession, PrincipalStep
    <2>4. binding.status # "absent"
      BY <2>2 DEF BInv, NotProvisioned, NothingStarted, At, Request
    <2>5. NothingStarted /\ tombstone # "none" => NothingStarted'
      BY <1>2, <2>1, <2>2 DEF NothingStarted, Moves, Request, At
    <2> QED
      BY <1>2, <2>1, <2>2, <2>3, <2>4, <2>5, RequestAlone
      DEF HoldingSession, PrincipalStep, ExchangeStep, CreatorStep, RequestPc, Request
  <1> QED BY <1>1, <1>2 DEF RecheckPrincipal

\* Who finds the tombstone removes the user it has just written.
LEMMA DiscardPrincipalKept ==
    ASSUME BInv, NEW q \in Request, DiscardPrincipal(q)
    PROVE  BInv'
  <1>1. Moves(q, "dropRelease")
    BY GotoMoves DEF DiscardPrincipal, BInv, HoldingSession, PrincipalStep,
           CreatorStep, ExchangeStep, RequestPc, Request, At
  <1>2. /\ user' = "absent" /\ late' = {}
        /\ UNCHANGED <<tombstone, binding, used, sessions, objects, signedIn, writer, revoker, acked, evicted>>
        /\ request[q].pc = "discardUser"
    BY DEF DiscardPrincipal, At
  <1>3. WritersKnown' /\ AttemptsCounted'
    BY <1>2 DEF BInv, WritersKnown, AttemptsCounted, OneAttempt
  <1>4. TypeOK'
    BY <1>1, <1>2, BindingAssumption DEF BInv, TypeOK, RequestPc, RequestType, Moves,
           HoldingSession, PrincipalStep, CreatorStep, ExchangeStep, Live
  <1>5. LeasesHeld'
    BY <1>1, <1>2, BindingAssumption DEF BInv, LeasesHeld, Moves, Request, HoldingSession,
           PrincipalStep, CreatorStep, ExchangeStep, Live
  <1>6. SessionsKnown'
    BY <1>1, <1>2, BindingAssumption DEF BInv, SessionsKnown, OneEngineSession, At, Moves, Request,
           HoldingSession, PrincipalStep, CreatorStep, ExchangeStep, Live
  <1>7. NotProvisioned'
    BY <1>1, <1>2, BindingAssumption DEF BInv, NotProvisioned, NothingStarted, At, Moves, Request,
           HoldingSession, PrincipalStep, CreatorStep, ExchangeStep, Live
  <1>8. NothingStarted /\ tombstone # "none" => NothingStarted'
    BY <1>1, <1>2, BindingAssumption DEF BInv, NothingStarted, At, Moves, Request, HoldingSession,
           PrincipalStep, CreatorStep, ExchangeStep, Live
  <1>9. PurgersKnow'
    BY <1>2, BindingAssumption DEF BInv, PurgersKnow, Quiet, PrincipalFree, PrivacyRevoked,
           PurgeStep, Live
  <1>10. PurgedForGood'
    BY <1>2, BindingAssumption, <1>8 DEF BInv, PurgedForGood, Quiet, PrincipalFree, PrivacyRevoked,
           Live
  <1>11. RevokedForGood'
    BY <1>2, BindingAssumption, <1>8 DEF BInv, RevokedForGood, Live
  <1> QED BY <1>3, <1>4, <1>5, <1>6, <1>7, <1>9, <1>10, <1>11 DEF BInv

\* The lease goes back, if it is still the request's own.
LEMMA ReleasePrincipalKept ==
    ASSUME BInv, NEW q \in Request, ReleasePrincipal(q)
    PROVE  BInv'
  <1>0. binding' \in [status : {"absent", "provisioned", "active", "revoked"},
                      session : Creator \cup {None},
                      attempts : Nat,
                      sessionLease : Creator \cup {None},
                      principalLease : Request \cup {None},
                      principalExpired : BOOLEAN,
                      purge : BOOLEAN,
                      drain : BOOLEAN,
                      capabilities : SUBSET Writer]
    BY DEF ReleasePrincipal, PrincipalFree, BInv, TypeOK
  <1>1. CASE request[q].pc = "keepRelease"
    <2>1. Moves(q, AfterPrincipal(q))
      BY <1>1, GotoMoves DEF ReleasePrincipal, BInv, HoldingSession,
             PrincipalStep, CreatorStep, ExchangeStep, RequestPc, Request, At, AfterPrincipal
    <2>2. /\ binding'.status = binding.status /\ binding'.session = binding.session
          /\ binding'.attempts = binding.attempts /\ binding'.sessionLease = binding.sessionLease
          /\ binding'.purge = binding.purge /\ binding'.drain = binding.drain
          /\ binding'.capabilities = binding.capabilities
          /\ binding.principalLease = None => binding'.principalLease = None
          /\ PrincipalFree => PrincipalFree'
          /\ UNCHANGED <<tombstone, user, used, sessions, objects, signedIn, writer, revoker, acked, evicted, late>>
          /\ request[q].pc = "keepRelease"
      BY <1>1 DEF ReleasePrincipal, PrincipalFree, BInv, TypeOK
    <2>3. TypeOK'
      BY <1>1, <1>0, <2>1, <2>2, BindingAssumption DEF BInv, TypeOK, RequestPc, RequestType, Moves,
             HoldingSession, PrincipalStep, CreatorStep, ExchangeStep,
             AfterPrincipal, Live
    <2>4. LeasesHeld'
      BY <1>1, <2>1, <2>2, BindingAssumption DEF BInv, LeasesHeld, Moves, Request, HoldingSession,
             PrincipalStep, CreatorStep, ExchangeStep, AfterPrincipal, Live
    <2>5. WritersKnown'
      BY <1>1, <2>2, BindingAssumption DEF BInv, WritersKnown, AfterPrincipal, Live
    <2>6. SessionsKnown'
      BY <1>1, <2>1, <2>2, BindingAssumption DEF BInv, SessionsKnown, OneEngineSession, At, Moves,
             Request, HoldingSession, PrincipalStep, CreatorStep, ExchangeStep,
             AfterPrincipal, Live
    <2>7. AttemptsCounted'
      BY <1>1, <2>2, BindingAssumption DEF BInv, AttemptsCounted, OneAttempt, SessionsKnown,
             AfterPrincipal, Live
    <2>8. NotProvisioned'
      BY <1>1, <2>1, <2>2, BindingAssumption DEF BInv, NotProvisioned, NothingStarted, At, Moves,
             Request, HoldingSession, PrincipalStep, CreatorStep, ExchangeStep,
             AfterPrincipal, Live
    <2>9. NothingStarted /\ tombstone # "none" => NothingStarted'
      BY <1>1, <2>1, <2>2, BindingAssumption DEF BInv, NothingStarted, At, Moves, Request,
             HoldingSession, PrincipalStep, CreatorStep, ExchangeStep,
             AfterPrincipal, Live
    <2>10. PurgersKnow'
      BY <1>1, <2>2, BindingAssumption DEF BInv, PurgersKnow, Quiet, PrivacyRevoked, PurgeStep,
             AfterPrincipal, Live
    <2>11. PurgedForGood'
      BY <1>1, <2>2, BindingAssumption, <2>9 DEF BInv, PurgedForGood, Quiet, PrivacyRevoked,
             AfterPrincipal, Live
    <2>12. RevokedForGood'
      BY <1>1, <2>2, BindingAssumption, <2>9 DEF BInv, RevokedForGood, AfterPrincipal, Live
    <2> QED BY <2>3, <2>4, <2>5, <2>6, <2>7, <2>8, <2>10, <2>11, <2>12 DEF BInv
  <1>2. CASE request[q].pc = "dropRelease"
    <2>1. Moves(q, WithoutPrincipal(q))
      BY <1>2, GotoMoves DEF ReleasePrincipal, BInv, HoldingSession,
             PrincipalStep, CreatorStep, ExchangeStep, RequestPc, Request, At, WithoutPrincipal
    <2>2. /\ binding'.status = binding.status /\ binding'.session = binding.session
          /\ binding'.attempts = binding.attempts /\ binding'.sessionLease = binding.sessionLease
          /\ binding'.purge = binding.purge /\ binding'.drain = binding.drain
          /\ binding'.capabilities = binding.capabilities
          /\ binding.principalLease = None => binding'.principalLease = None
          /\ PrincipalFree => PrincipalFree'
          /\ UNCHANGED <<tombstone, user, used, sessions, objects, signedIn, writer, revoker, acked, evicted, late>>
          /\ request[q].pc = "dropRelease"
      BY <1>2 DEF ReleasePrincipal, PrincipalFree, BInv, TypeOK
    <2>3. TypeOK'
      BY <1>2, <1>0, <2>1, <2>2, BindingAssumption DEF BInv, TypeOK, RequestPc, RequestType, Moves,
             HoldingSession, PrincipalStep, CreatorStep, ExchangeStep,
             WithoutPrincipal, Live
    <2>4. LeasesHeld'
      BY <1>2, <2>1, <2>2, BindingAssumption DEF BInv, LeasesHeld, Moves, Request, HoldingSession,
             PrincipalStep, CreatorStep, ExchangeStep, WithoutPrincipal, Live
    <2>5. WritersKnown'
      BY <1>2, <2>2, BindingAssumption DEF BInv, WritersKnown, WithoutPrincipal, Live
    <2>6. SessionsKnown'
      BY <1>2, <2>1, <2>2, BindingAssumption DEF BInv, SessionsKnown, OneEngineSession, At, Moves,
             Request, HoldingSession, PrincipalStep, CreatorStep, ExchangeStep,
             WithoutPrincipal, Live
    <2>7. AttemptsCounted'
      BY <1>2, <2>2, BindingAssumption DEF BInv, AttemptsCounted, OneAttempt, SessionsKnown,
             WithoutPrincipal, Live
    <2>8. NotProvisioned'
      BY <1>2, <2>1, <2>2, BindingAssumption DEF BInv, NotProvisioned, NothingStarted, At, Moves,
             Request, HoldingSession, PrincipalStep, CreatorStep, ExchangeStep,
             WithoutPrincipal, Live
    <2>9. NothingStarted /\ tombstone # "none" => NothingStarted'
      BY <1>2, <2>1, <2>2, BindingAssumption DEF BInv, NothingStarted, At, Moves, Request,
             HoldingSession, PrincipalStep, CreatorStep, ExchangeStep,
             WithoutPrincipal, Live
    <2>10. PurgersKnow'
      BY <1>2, <2>2, BindingAssumption DEF BInv, PurgersKnow, Quiet, PrivacyRevoked, PurgeStep,
             WithoutPrincipal, Live
    <2>11. PurgedForGood'
      BY <1>2, <2>2, BindingAssumption, <2>9 DEF BInv, PurgedForGood, Quiet, PrivacyRevoked,
             WithoutPrincipal, Live
    <2>12. RevokedForGood'
      BY <1>2, <2>2, BindingAssumption, <2>9 DEF BInv, RevokedForGood, WithoutPrincipal, Live
    <2> QED BY <2>3, <2>4, <2>5, <2>6, <2>7, <2>8, <2>10, <2>11, <2>12 DEF BInv
  <1> QED BY <1>1, <1>2 DEF ReleasePrincipal

\* A handoff ticket is exchanged.
LEMMA StartExchangeKept ==
    ASSUME BInv, NEW q \in Exchange, StartExchange(q)
    PROVE  BInv'
  <1>1. CASE tombstone = "none"
    <2>1. Moves(q, "provision")
      BY <1>1, GotoMoves DEF StartExchange, BInv, HoldingSession, PrincipalStep,
             CreatorStep, ExchangeStep, RequestPc, Request, At
    <2>2. /\ UNCHANGED <<tombstone, binding, user, sessions, objects, signedIn, writer, revoker, acked, evicted, late>>
          /\ used' \in 0 .. Limit
          /\ request[q].pc = "idle"
      BY <1>1 DEF StartExchange, BInv, TypeOK, At
    <2>3. q \notin Creator
      BY BindingAssumption
    <2>4. NothingStarted /\ tombstone # "none" => NothingStarted'
      BY <1>1, <2>1, <2>2, <2>3 DEF NothingStarted, Moves, Request, At
    <2> QED
      BY <1>1, <2>1, <2>2, <2>3, <2>4, RequestAlone
      DEF HoldingSession, PrincipalStep, ExchangeStep, CreatorStep, RequestPc, Request
  <1>2. CASE tombstone # "none"
    <2>1. Moves(q, "done")
      BY <1>2, GotoMoves DEF StartExchange, BInv, HoldingSession, PrincipalStep,
             CreatorStep, ExchangeStep, RequestPc, Request, At
    <2>2. /\ UNCHANGED <<tombstone, binding, user, sessions, objects, signedIn, writer, revoker, acked, evicted, late>>
          /\ used' \in 0 .. Limit
      BY <1>2, <2>1 DEF StartExchange, BInv, TypeOK
    <2>3. /\ q \notin Creator
      BY <1>2, BindingAssumption DEF StartExchange, BInv, LeasesHeld, NotProvisioned,
             NothingStarted, HoldingSession, PrincipalStep, CreatorStep,
             ExchangeStep, RequestPc, Request, At
    <2>4. NothingStarted /\ tombstone # "none" => NothingStarted'
      BY <1>2, <2>1, <2>2, BindingAssumption DEF StartExchange, NothingStarted, Moves,
             HoldingSession, PrincipalStep, CreatorStep, ExchangeStep, RequestPc,
             Request, At
    <2> QED BY <1>2, <2>1, <2>2, <2>3, <2>4, RequestAlone DEF HoldingSession,
                   PrincipalStep, CreatorStep, ExchangeStep, RequestPc, Request, At
  <1> QED BY <1>1, <1>2 DEF StartExchange

\* The binding is created once; a binding that a revocation made stays as it is.
LEMMA ProvisionKept ==
    ASSUME BInv, NEW q \in Exchange, Provision(q)
    PROVE  BInv'
  <1>1. CASE binding.status = "absent"
    <2>1. Moves(q, "closeRace")
      BY <1>1, GotoMoves DEF Provision, BInv, HoldingSession, PrincipalStep,
             CreatorStep, ExchangeStep, RequestPc, Request, At, NoBinding
    <2>2. /\ NothingStarted
          /\ binding.principalLease = None
          /\ ~binding.purge
          /\ binding.session = None
          /\ sessions = {}
          /\ objects = {}
          /\ \A o \in Exchange : request[o].pc \in {"idle", "provision", "done"}
      BY <1>1 DEF BInv, NotProvisioned, NothingStarted
    <2>3. \A c \in Creator : request[c].pc = "idle"
      BY <1>1 DEF BInv, NotProvisioned, NothingStarted, At
    <2>4. \A w \in Writer : writer[w] = "idle"
      BY <1>1 DEF BInv, NotProvisioned, NothingStarted
    <2>5. /\ binding' = [status |-> "provisioned", session |-> None, attempts |-> 0,
                         sessionLease |-> None, principalLease |-> None, principalExpired |-> FALSE,
                         purge |-> FALSE, drain |-> FALSE, capabilities |-> {}]
          /\ UNCHANGED <<tombstone, user, used, sessions, objects, signedIn, writer, revoker, acked, evicted, late>>
          /\ request[q].pc = "provision"
      BY <1>1 DEF Provision, At, NoBinding
    <2>6. TypeOK'
      BY <1>1, <2>1, <2>2, <2>3, <2>4, <2>5, BindingAssumption DEF BInv, TypeOK, RequestPc,
             RequestType, Moves, HoldingSession, PrincipalStep, CreatorStep,
             ExchangeStep, NoBinding, Live
    <2>7. LeasesHeld'
      BY <1>1, <2>1, <2>2, <2>3, <2>4, <2>5, BindingAssumption DEF BInv, LeasesHeld, Moves, Request,
             HoldingSession, PrincipalStep, CreatorStep, ExchangeStep, NoBinding,
             Live
    <2>8. WritersKnown'
      BY <1>1, <2>2, <2>3, <2>4, <2>5, BindingAssumption DEF BInv, WritersKnown, NoBinding, Live
    <2>9. SessionsKnown'
      BY <1>1, <2>1, <2>2, <2>3, <2>4, <2>5, BindingAssumption DEF BInv, SessionsKnown,
             OneEngineSession, At, Moves, Request, HoldingSession, PrincipalStep,
             CreatorStep, ExchangeStep, NoBinding, Live
    <2>10. AttemptsCounted'
      BY <1>1, <2>2, <2>3, <2>4, <2>5, BindingAssumption DEF BInv, AttemptsCounted, OneAttempt,
             SessionsKnown, NoBinding, Live
    <2>11. NotProvisioned'
      BY <1>1, <2>1, <2>2, <2>3, <2>4, <2>5, BindingAssumption DEF BInv, NotProvisioned,
             NothingStarted, At, Moves, Request, HoldingSession, PrincipalStep,
             CreatorStep, ExchangeStep, NoBinding, Live
    <2>12. NothingStarted /\ tombstone # "none" => NothingStarted'
      BY <1>1, <2>1, <2>2, <2>3, <2>4, <2>5, BindingAssumption DEF BInv, NothingStarted, At, Moves,
             Request, HoldingSession, PrincipalStep, CreatorStep, ExchangeStep,
             NoBinding, Live
    <2>13. PurgersKnow'
      BY <1>1, <2>2, <2>3, <2>4, <2>5, BindingAssumption DEF BInv, PurgersKnow, Quiet,
             PrincipalFree,
             PrivacyRevoked, PurgeStep, NoBinding, Live
    <2>14. PurgedForGood'
      BY <1>1, <2>2, <2>3, <2>4, <2>5, BindingAssumption, <2>12 DEF BInv, PurgedForGood, Quiet,
             PrincipalFree,
             PrivacyRevoked, NoBinding, Live
    <2>15. RevokedForGood'
      BY <1>1, <2>2, <2>3, <2>4, <2>5, BindingAssumption, <2>12 DEF BInv, RevokedForGood, NoBinding,
             Live
    <2> QED BY <2>6, <2>7, <2>8, <2>9, <2>10, <2>11, <2>13, <2>14, <2>15 DEF BInv
  <1>2. CASE binding.status = "revoked"
    <2>1. Moves(q, "done")
      BY <1>2, GotoMoves DEF Provision, BInv, HoldingSession, PrincipalStep,
             CreatorStep, ExchangeStep, RequestPc, Request, At
    <2>2. /\ UNCHANGED <<tombstone, binding, user, sessions, objects, signedIn, writer, revoker, acked, evicted, late>>
          /\ used' \in 0 .. Limit
          /\ request[q].pc = "provision"
      BY <1>2 DEF Provision, BInv, TypeOK, At
    <2>3. q \notin Creator
      BY BindingAssumption
    <2>4. NothingStarted /\ tombstone # "none" => NothingStarted'
      BY <1>2, <2>1, <2>2, <2>3 DEF NothingStarted, Moves, Request, At
    <2> QED
      BY <1>2, <2>1, <2>2, <2>3, <2>4, RequestAlone
      DEF HoldingSession, PrincipalStep, ExchangeStep, CreatorStep, RequestPc, Request
  <1>3. CASE binding.status \notin {"absent", "revoked"}
    <2>1. Moves(q, "claim")
      BY <1>3, GotoMoves DEF Provision, BInv, HoldingSession, PrincipalStep,
             CreatorStep, ExchangeStep, RequestPc, Request, At
    <2>2. /\ UNCHANGED <<tombstone, binding, user, sessions, objects, signedIn, writer, revoker, acked, evicted, late>>
          /\ used' \in 0 .. Limit
      BY <1>3, <2>1 DEF Provision, BInv, TypeOK
    <2>3. /\ q \notin Creator
      BY <1>3, BindingAssumption DEF Provision, BInv, LeasesHeld, NotProvisioned, NothingStarted,
             HoldingSession, PrincipalStep, CreatorStep, ExchangeStep, RequestPc,
             Request, At
    <2>4. NothingStarted /\ tombstone # "none" => NothingStarted'
      BY <1>3, <2>1, <2>2, BindingAssumption DEF Provision, NothingStarted, Moves, HoldingSession,
             PrincipalStep, CreatorStep, ExchangeStep, RequestPc, Request, At
    <2> QED BY <1>3, <2>1, <2>2, <2>3, <2>4, RequestAlone DEF HoldingSession,
                   PrincipalStep, CreatorStep, ExchangeStep, RequestPc, Request, At
  <1> QED BY <1>1, <1>2, <1>3 DEF Provision

\* Who provisioned reads the tombstone and revokes what it finds revoked.
LEMMA CloseRaceKept ==
    ASSUME BInv, NEW q \in Exchange, CloseRace(q)
    PROVE  BInv'
  <1>1. CASE tombstone = "none"
    <2>1. Moves(q, "claim")
      BY <1>1, GotoMoves DEF CloseRace, BInv, HoldingSession, PrincipalStep,
             CreatorStep, ExchangeStep, RequestPc, Request, At
    <2>2. /\ UNCHANGED <<tombstone, binding, user, sessions, objects, signedIn, writer, revoker, acked, evicted, late>>
          /\ used' \in 0 .. Limit
      BY <1>1, <2>1 DEF CloseRace, BInv, TypeOK
    <2>3. /\ q \notin Creator /\ binding.status # "absent"
      BY <1>1, BindingAssumption DEF CloseRace, BInv, LeasesHeld, NotProvisioned, NothingStarted,
             HoldingSession, PrincipalStep, CreatorStep, ExchangeStep, RequestPc,
             Request, At
    <2>4. NothingStarted /\ tombstone # "none" => NothingStarted'
      BY <1>1, <2>1, <2>2, BindingAssumption DEF CloseRace, NothingStarted, Moves, HoldingSession,
             PrincipalStep, CreatorStep, ExchangeStep, RequestPc, Request, At
    <2> QED BY <1>1, <2>1, <2>2, <2>3, <2>4, RequestAlone DEF HoldingSession,
                   PrincipalStep, CreatorStep, ExchangeStep, RequestPc, Request, At
  <1>2. CASE tombstone # "none"
    <2>1. Moves(q, "done")
      BY <1>2, GotoMoves DEF CloseRace, BInv, HoldingSession, PrincipalStep,
             CreatorStep, ExchangeStep, RequestPc, Request, At
    <2>2. /\ binding' = [binding EXCEPT !.status = "revoked"]
          /\ UNCHANGED <<tombstone, user, used, sessions, objects, signedIn, writer, revoker, acked, evicted, late>>
          /\ request[q].pc = "closeRace"
      BY <1>2 DEF CloseRace, At
    <2>3. TypeOK'
      BY <1>2, <2>1, <2>2, BindingAssumption DEF BInv, TypeOK, RequestPc, RequestType, Moves,
             HoldingSession, PrincipalStep, CreatorStep, ExchangeStep, Live
    <2>4. LeasesHeld'
      BY <1>2, <2>1, <2>2, BindingAssumption DEF BInv, LeasesHeld, Moves, Request, HoldingSession,
             PrincipalStep, CreatorStep, ExchangeStep, Live
    <2>5. WritersKnown'
      BY <1>2, <2>2, BindingAssumption DEF BInv, WritersKnown, Live
    <2>6. SessionsKnown'
      BY <1>2, <2>1, <2>2, BindingAssumption DEF BInv, SessionsKnown, OneEngineSession, At, Moves,
             Request, HoldingSession, PrincipalStep, CreatorStep, ExchangeStep,
             Live
    <2>7. AttemptsCounted'
      BY <1>2, <2>2, BindingAssumption DEF BInv, AttemptsCounted, OneAttempt, SessionsKnown, Live
    <2>8. NotProvisioned'
      BY <1>2, <2>1, <2>2, BindingAssumption DEF BInv, NotProvisioned, NothingStarted, At, Moves,
             Request, HoldingSession, PrincipalStep, CreatorStep, ExchangeStep,
             Live
    <2>9. NothingStarted /\ tombstone # "none" => NothingStarted'
      BY <1>2, <2>1, <2>2, BindingAssumption DEF BInv, NothingStarted, At, Moves, Request,
             HoldingSession, PrincipalStep, CreatorStep, ExchangeStep, Live
    <2>10. PurgersKnow'
      BY <1>2, <2>2, BindingAssumption DEF BInv, PurgersKnow, Quiet, PrincipalFree, PrivacyRevoked,
             PurgeStep, Live
    <2>11. PurgedForGood'
      BY <1>2, <2>2, BindingAssumption, <2>9 DEF BInv, PurgedForGood, Quiet, PrincipalFree,
             PrivacyRevoked, Live
    <2>12. RevokedForGood'
      BY <1>2, <2>2, BindingAssumption, <2>9 DEF BInv, RevokedForGood, Live
    <2> QED BY <2>3, <2>4, <2>5, <2>6, <2>7, <2>8, <2>10, <2>11, <2>12 DEF BInv
  <1> QED BY <1>1, <1>2 DEF CloseRace

\* Only a provisioned binding is activated.
LEMMA ActivateKept ==
    ASSUME BInv, NEW q \in Exchange, Activate(q)
    PROVE  BInv'
  <1>1. CASE Live
    <2>1. Moves(q, "ticket")
      BY <1>1, GotoMoves DEF Activate, BInv, HoldingSession, PrincipalStep,
             CreatorStep, ExchangeStep, RequestPc, Request, At
    <2>2. /\ binding' = [binding EXCEPT !.status = "active"]
          /\ UNCHANGED <<tombstone, user, used, sessions, objects, signedIn, writer, revoker, acked, evicted, late>>
          /\ request[q].pc = "activate"
      BY <1>1 DEF Activate, At
    <2>3. TypeOK'
      BY <1>1, <2>1, <2>2, BindingAssumption DEF BInv, TypeOK, RequestPc, RequestType, Moves,
             HoldingSession, PrincipalStep, CreatorStep, ExchangeStep, Live
    <2>4. LeasesHeld'
      BY <1>1, <2>1, <2>2, BindingAssumption DEF BInv, LeasesHeld, Moves, Request, HoldingSession,
             PrincipalStep, CreatorStep, ExchangeStep, Live
    <2>5. WritersKnown'
      BY <1>1, <2>2, BindingAssumption DEF BInv, WritersKnown, Live
    <2>6. SessionsKnown'
      BY <1>1, <2>1, <2>2, BindingAssumption DEF BInv, SessionsKnown, OneEngineSession, At, Moves,
             Request, HoldingSession, PrincipalStep, CreatorStep, ExchangeStep,
             Live
    <2>7. AttemptsCounted'
      BY <1>1, <2>2, BindingAssumption DEF BInv, AttemptsCounted, OneAttempt, SessionsKnown, Live
    <2>8. NotProvisioned'
      BY <1>1, <2>1, <2>2, BindingAssumption DEF BInv, NotProvisioned, NothingStarted, At, Moves,
             Request, HoldingSession, PrincipalStep, CreatorStep, ExchangeStep,
             Live
    <2>9. NothingStarted /\ tombstone # "none" => NothingStarted'
      BY <1>1, <2>1, <2>2, BindingAssumption DEF BInv, NothingStarted, At, Moves, Request,
             HoldingSession, PrincipalStep, CreatorStep, ExchangeStep, Live
    <2>10. PurgersKnow'
      BY <1>1, <2>2, BindingAssumption DEF BInv, PurgersKnow, Quiet, PrincipalFree, PrivacyRevoked,
             PurgeStep, Live
    <2>11. PurgedForGood'
      BY <1>1, <2>2, BindingAssumption, <2>9 DEF BInv, PurgedForGood, Quiet, PrincipalFree,
             PrivacyRevoked, Live
    <2>12. RevokedForGood'
      BY <1>1, <2>2, BindingAssumption, <2>9 DEF BInv, RevokedForGood, Live
    <2> QED BY <2>3, <2>4, <2>5, <2>6, <2>7, <2>8, <2>10, <2>11, <2>12 DEF BInv
  <1>2. CASE ~Live
    <2>1. Moves(q, "done")
      BY <1>2, GotoMoves DEF Activate, BInv, HoldingSession, PrincipalStep,
             CreatorStep, ExchangeStep, RequestPc, Request, At
    <2>2. /\ UNCHANGED <<tombstone, binding, user, sessions, objects, signedIn, writer, revoker, acked, evicted, late>>
          /\ used' \in 0 .. Limit
          /\ request[q].pc = "activate"
      BY <1>2 DEF Activate, BInv, TypeOK, At
    <2>3. binding.status # "absent"
      BY <2>2 DEF BInv, NotProvisioned, NothingStarted, At, Request
    <2>4. q \notin Creator
      BY BindingAssumption
    <2>5. NothingStarted /\ tombstone # "none" => NothingStarted'
      BY <1>2, <2>1, <2>2, <2>4 DEF NothingStarted, Moves, Request, At
    <2> QED
      BY <1>2, <2>1, <2>2, <2>3, <2>4, <2>5, RequestAlone
      DEF HoldingSession, PrincipalStep, ExchangeStep, CreatorStep, RequestPc, Request
  <1> QED BY <1>1, <1>2 DEF Activate

\* The cookie is issued to an active binding.
LEMMA SignInKept ==
    ASSUME BInv, NEW q \in Exchange, SignIn(q)
    PROVE  BInv'
  <1>1. Moves(q, "done")
    BY GotoMoves DEF SignIn, BInv, HoldingSession, PrincipalStep, CreatorStep,
           ExchangeStep, RequestPc, Request, At
  <1>2. /\ signedIn' = (signedIn \/ (Live /\ ~binding.purge))
        /\ UNCHANGED <<tombstone, binding, user, used, sessions, objects, writer, revoker, acked, evicted, late>>
        /\ request[q].pc = "ticket"
    BY DEF SignIn, At
  <1>3. WritersKnown' /\ AttemptsCounted' /\ PurgersKnow'
    BY <1>2 DEF BInv, WritersKnown, AttemptsCounted, OneAttempt, PurgersKnow, Quiet, PrincipalFree,
           PrivacyRevoked
  <1>4. TypeOK'
    BY <1>1, <1>2, BindingAssumption DEF BInv, TypeOK, RequestPc, RequestType, Moves,
           HoldingSession, PrincipalStep, CreatorStep, ExchangeStep, Live
  <1>5. LeasesHeld'
    BY <1>1, <1>2, BindingAssumption DEF BInv, LeasesHeld, Moves, Request, HoldingSession,
           PrincipalStep, CreatorStep, ExchangeStep, Live
  <1>6. SessionsKnown'
    BY <1>1, <1>2, BindingAssumption DEF BInv, SessionsKnown, OneEngineSession, At, Moves, Request,
           HoldingSession, PrincipalStep, CreatorStep, ExchangeStep, Live
  <1>7. NotProvisioned'
    BY <1>1, <1>2, BindingAssumption DEF BInv, NotProvisioned, NothingStarted, At, Moves, Request,
           HoldingSession, PrincipalStep, CreatorStep, ExchangeStep, Live
  <1>8. NothingStarted /\ tombstone # "none" => NothingStarted'
    BY <1>1, <1>2, BindingAssumption DEF BInv, NothingStarted, At, Moves, Request, HoldingSession,
           PrincipalStep, CreatorStep, ExchangeStep, Live
  <1>9. PurgedForGood'
    BY <1>2, BindingAssumption, <1>8 DEF BInv, PurgedForGood, Quiet, PrincipalFree, PrivacyRevoked,
           Live
  <1>10. RevokedForGood'
    BY <1>2, BindingAssumption, <1>8 DEF BInv, RevokedForGood, Live
  <1> QED BY <1>3, <1>4, <1>5, <1>6, <1>7, <1>9, <1>10 DEF BInv

\* One creator holds the lease of the engine session.
LEMMA AcquireSessionLeaseKept ==
    ASSUME BInv, NEW c \in Creator, AcquireSessionLease(c)
    PROVE  BInv'
  <1>1. CASE Live /\ binding.session = None /\ binding.sessionLease = None
    <2>1. Moves(c, "claim")
      BY <1>1, GotoMoves DEF AcquireSessionLease, BInv, HoldingSession,
             PrincipalStep, CreatorStep, ExchangeStep, RequestPc, Request, At
    <2>2. /\ binding' = [binding EXCEPT !.sessionLease = c]
          /\ UNCHANGED <<tombstone, user, used, sessions, objects, signedIn, writer, revoker, acked, evicted, late>>
          /\ request[c].pc = "idle"
          /\ signedIn
      BY <1>1 DEF AcquireSessionLease, At
    <2>3. TypeOK'
      BY <1>1, <2>1, <2>2, BindingAssumption DEF BInv, TypeOK, RequestPc, RequestType, Moves,
             HoldingSession, PrincipalStep, CreatorStep, ExchangeStep, Live
    <2>4. LeasesHeld'
      BY <1>1, <2>1, <2>2, BindingAssumption DEF BInv, LeasesHeld, Moves, Request, HoldingSession,
             PrincipalStep, CreatorStep, ExchangeStep, Live
    <2>5. WritersKnown'
      BY <1>1, <2>2, BindingAssumption DEF BInv, WritersKnown, Live
    <2>6. SessionsKnown'
      BY <1>1, <2>1, <2>2, BindingAssumption DEF BInv, SessionsKnown, OneEngineSession, At, Moves,
             Request, HoldingSession, PrincipalStep, CreatorStep, ExchangeStep,
             Live
    <2>7. AttemptsCounted'
      BY <1>1, <2>2, BindingAssumption DEF BInv, AttemptsCounted, OneAttempt, SessionsKnown, Live
    <2>8. NotProvisioned'
      BY <1>1, <2>1, <2>2, BindingAssumption DEF BInv, NotProvisioned, NothingStarted, At, Moves,
             Request, HoldingSession, PrincipalStep, CreatorStep, ExchangeStep,
             Live
    <2>9. NothingStarted /\ tombstone # "none" => NothingStarted'
      BY <1>1, <2>1, <2>2, BindingAssumption DEF BInv, NothingStarted, At, Moves, Request,
             HoldingSession, PrincipalStep, CreatorStep, ExchangeStep, Live
    <2>10. PurgersKnow'
      BY <1>1, <2>2, BindingAssumption DEF BInv, PurgersKnow, Quiet, PrincipalFree, PrivacyRevoked,
             PurgeStep, Live
    <2>11. PurgedForGood'
      BY <1>1, <2>2, BindingAssumption, <2>9 DEF BInv, PurgedForGood, Quiet, PrincipalFree,
             PrivacyRevoked, Live
    <2>12. RevokedForGood'
      BY <1>1, <2>2, BindingAssumption, <2>9 DEF BInv, RevokedForGood, Live
    <2> QED BY <2>3, <2>4, <2>5, <2>6, <2>7, <2>8, <2>10, <2>11, <2>12 DEF BInv
  <1>2. CASE ~(Live /\ binding.session = None /\ binding.sessionLease = None)
    <2>1. Moves(c, "done")
      BY <1>2, GotoMoves DEF AcquireSessionLease, BInv, HoldingSession,
             PrincipalStep, CreatorStep, ExchangeStep, RequestPc, Request, At
    <2>2. /\ UNCHANGED <<tombstone, binding, user, sessions, objects, signedIn, writer, revoker, acked, evicted, late>>
          /\ used' \in 0 .. Limit
          /\ request[c].pc = "idle"
          /\ signedIn
      BY <1>2 DEF AcquireSessionLease, BInv, TypeOK, At
    <2>3. binding.status # "absent"
      BY <2>2 DEF BInv, NotProvisioned, NothingStarted, At, Request
    <2>4. NothingStarted /\ tombstone # "none" => NothingStarted'
      BY <1>2, <2>1, <2>2 DEF NothingStarted, Moves, Request, At
    <2> QED
      BY <1>2, <2>1, <2>2, <2>3, <2>4, RequestAlone
      DEF HoldingSession, PrincipalStep, ExchangeStep, CreatorStep, RequestPc, Request
  <1> QED BY <1>1, <1>2 DEF AcquireSessionLease

\* The quota bounds the sessions a user is charged.
LEMMA ChargeQuotaKept ==
    ASSUME BInv, NEW c \in Creator, ChargeQuota(c)
    PROVE  BInv'
  <1>1. ASSUME NEW s \in sessions, request' = [request EXCEPT ![c] = [pc |-> "attach", session |-> s]], UNCHANGED used
        PROVE  BInv'
    <2>1. Moves(c, "attach") /\ request'[c].session = s
      BY <1>1 DEF BInv, TypeOK, Moves, RequestType, HoldingSession, PrincipalStep,
             CreatorStep, ExchangeStep, RequestPc, Request, At
    <2>2. request[c].pc = "quota" /\ binding.status # "absent"
      BY DEF ChargeQuota, BInv, NotProvisioned, NothingStarted, At
    <2>3. used' \in 0 .. Limit
      BY <1>1 DEF BInv, TypeOK
    <2>4. (binding.sessionLease = c \/ c \in evicted) /\ ~NothingStarted
      BY <2>2 DEF BInv, LeasesHeld, NothingStarted, HoldingSession, PrincipalStep,
             CreatorStep, ExchangeStep, RequestPc, Request, At
    <2> QED BY <1>1, <2>1, <2>2, <2>3, <2>4, RequestAlone DEF ChargeQuota, HoldingSession,
           PrincipalStep, CreatorStep, ExchangeStep, RequestPc, Request, At
  <1>2. CASE Goto(c, "insert") /\ sessions = {} /\ used' = used + 1 /\ used < Limit
    <2>1. Moves(c, "insert")
      BY <1>2, GotoMoves DEF BInv, HoldingSession, PrincipalStep, CreatorStep,
             ExchangeStep, RequestPc, Request, At
    <2>2. used' \in 0 .. Limit
      BY <1>2, BindingAssumption DEF BInv, TypeOK
    <2>3. /\ UNCHANGED <<tombstone, binding, user, sessions, objects, signedIn, writer, revoker, acked, evicted, late>>
          /\ request[c].pc = "quota"
      BY <1>2 DEF ChargeQuota, BInv, TypeOK, At
    <2>4. binding.sessionLease = c \/ c \in evicted
      BY <2>3 DEF BInv, LeasesHeld, HoldingSession, CreatorStep
    <2>5. binding.status # "absent"
      BY <2>3 DEF BInv, NotProvisioned, NothingStarted, At, Request
    <2>6. NothingStarted /\ tombstone # "none" => NothingStarted'
      BY <1>2, <2>1, <2>3 DEF NothingStarted, Moves, Request, At
    <2> QED
      BY <1>2, <2>1, <2>2, <2>3, <2>4, <2>5, <2>6, RequestAlone
      DEF HoldingSession, PrincipalStep, ExchangeStep, CreatorStep, RequestPc, Request
  <1>3. CASE Goto(c, "unlease") /\ UNCHANGED used
    <2>1. Moves(c, "unlease")
      BY <1>3, GotoMoves DEF BInv, HoldingSession, PrincipalStep, CreatorStep,
             ExchangeStep, RequestPc, Request, At
    <2>2. /\ UNCHANGED <<tombstone, binding, user, sessions, objects, signedIn, writer, revoker, acked, evicted, late>>
          /\ used' \in 0 .. Limit
          /\ request[c].pc = "quota"
      BY <1>3 DEF ChargeQuota, BInv, TypeOK, At
    <2>3. binding.sessionLease = c \/ c \in evicted
      BY <2>2 DEF BInv, LeasesHeld, HoldingSession, CreatorStep
    <2>4. binding.status # "absent"
      BY <2>2 DEF BInv, NotProvisioned, NothingStarted, At, Request
    <2>5. NothingStarted /\ tombstone # "none" => NothingStarted'
      BY <1>3, <2>1, <2>2 DEF NothingStarted, Moves, Request, At
    <2> QED
      BY <1>3, <2>1, <2>2, <2>3, <2>4, <2>5, RequestAlone
      DEF HoldingSession, PrincipalStep, ExchangeStep, CreatorStep, RequestPc, Request
  <1> QED BY <1>1, <1>2, <1>3 DEF ChargeQuota

\* The holder found no session, so the one it inserts is the only one.
LEMMA InsertSessionKept ==
    ASSUME BInv, NEW c \in Creator, InsertSession(c)
    PROVE  BInv'
  <1>1. /\ request[c].pc = "insert"
        /\ UNCHANGED <<tombstone, binding, user, objects, signedIn, writer, revoker, acked, evicted, late>>
    BY DEF InsertSession, At
  <1>2. CASE /\ sessions' = sessions \cup {c} /\ UNCHANGED used
             /\ request' = [request EXCEPT ![c] = [pc |-> "attach", session |-> c]]
    <2>1. Moves(c, "attach") /\ request'[c].session = c
      BY <1>2 DEF BInv, TypeOK, Moves, RequestType, HoldingSession, PrincipalStep,
             CreatorStep, ExchangeStep, RequestPc, Request, At
    <2>2. sessions = {} /\ sessions' = {c} /\ UNCHANGED used
      BY <1>1, <1>2 DEF BInv, SessionsKnown, At
    <2>3. binding.sessionLease = c \/ c \in evicted
      BY <1>1 DEF BInv, LeasesHeld, HoldingSession, CreatorStep
    <2>4. \A d \in Creator \ {c} : request[d].pc \notin HoldingSession
      BY <2>3, BindingAssumption DEF BInv, LeasesHeld
    <2>5. ~NothingStarted
      BY <1>1 DEF NothingStarted, At
    <2>6. \A d \in Creator : request'[d].pc # "insert"
      BY <2>1, <2>4 DEF Moves, Request, HoldingSession, CreatorStep
    <2>7. TypeOK'
      BY <1>1, <2>1, <2>2, <2>3, <2>6, <2>5, BindingAssumption DEF BInv, TypeOK, RequestPc,
             RequestType, Moves, HoldingSession, PrincipalStep, CreatorStep,
             ExchangeStep
    <2>8. LeasesHeld'
      BY <1>1, <2>1, <2>2, <2>3, <2>6, <2>5, BindingAssumption DEF BInv, LeasesHeld, Moves, Request,
             HoldingSession, PrincipalStep, CreatorStep, ExchangeStep
    <2>9. WritersKnown'
      BY <1>1, <2>1, <2>2, <2>3, <2>6, <2>5, BindingAssumption DEF BInv, WritersKnown
    <2>10. SessionsKnown'
      BY <1>1, <2>1, <2>2, <2>3, <2>6, <2>5, BindingAssumption DEF BInv, SessionsKnown,
             OneEngineSession, At, Moves, Request, HoldingSession, PrincipalStep,
             CreatorStep, ExchangeStep
    <2>11. AttemptsCounted'
      BY <1>1, <2>1, <2>2, <2>3, <2>6, <2>5, BindingAssumption DEF BInv, AttemptsCounted,
             OneAttempt, SessionsKnown
    <2>12. NotProvisioned'
      BY <1>1, <2>1, <2>2, <2>3, <2>6, <2>5, BindingAssumption DEF BInv, NotProvisioned,
             NothingStarted, At, Moves, Request, HoldingSession, PrincipalStep,
             CreatorStep, ExchangeStep
    <2>13. NothingStarted /\ tombstone # "none" => NothingStarted'
      BY <1>1, <2>1, <2>2, <2>3, <2>6, <2>5, BindingAssumption DEF BInv, NothingStarted, At, Moves,
             Request, HoldingSession, PrincipalStep, CreatorStep, ExchangeStep
    <2>14. PurgersKnow'
      BY <1>1, <2>1, <2>2, <2>3, <2>6, <2>5, BindingAssumption DEF BInv, PurgersKnow, Quiet,
             PrincipalFree,
             PrivacyRevoked, PurgeStep
    <2>15. PurgedForGood'
      BY <1>1, <2>1, <2>2, <2>3, <2>6, <2>5, BindingAssumption, <2>13 DEF BInv, PurgedForGood,
             Quiet, PrincipalFree, PrivacyRevoked
    <2>16. RevokedForGood'
      BY <1>1, <2>1, <2>2, <2>3, <2>6, <2>5, BindingAssumption, <2>13 DEF BInv, RevokedForGood
    <2> QED BY <2>7, <2>8, <2>9, <2>10, <2>11, <2>12, <2>14, <2>15, <2>16 DEF BInv
  <1>3. CASE Goto(c, "unlease") /\ UNCHANGED sessions
    <2>1. Moves(c, "unlease")
      BY <1>3, GotoMoves DEF BInv, HoldingSession, PrincipalStep, CreatorStep,
             ExchangeStep, RequestPc, Request, At
    <2>2. used' \in 0 .. Limit
      BY BindingAssumption DEF InsertSession, BInv, TypeOK
    <2>3. /\ UNCHANGED <<tombstone, binding, user, sessions, objects, signedIn, writer, revoker, acked, evicted, late>>
          /\ request[c].pc = "insert"
      BY <1>1, <1>3 DEF BInv, TypeOK, At
    <2>4. binding.sessionLease = c \/ c \in evicted
      BY <2>3 DEF BInv, LeasesHeld, HoldingSession, CreatorStep
    <2>5. binding.status # "absent"
      BY <2>3 DEF BInv, NotProvisioned, NothingStarted, At, Request
    <2>6. NothingStarted /\ tombstone # "none" => NothingStarted'
      BY <1>1, <1>3, <2>1, <2>3 DEF NothingStarted, Moves, Request, At
    <2> QED
      BY <1>1, <1>3, <2>1, <2>2, <2>3, <2>4, <2>5, <2>6, RequestAlone
      DEF HoldingSession, PrincipalStep, ExchangeStep, CreatorStep, RequestPc, Request
  <1> QED BY <1>2, <1>3 DEF InsertSession

\* The first attachment counts the attempt.
LEMMA AttachSessionKept ==
    ASSUME BInv, NEW c \in Creator, AttachSession(c)
    PROVE  BInv'
  <1>1. CASE binding.sessionLease = c /\ binding.session = None /\ Live
    <2>1. Moves(c, "done")
      BY <1>1, GotoMoves DEF AttachSession, BInv, HoldingSession, PrincipalStep,
             CreatorStep, ExchangeStep, RequestPc, Request, At
    <2>2. /\ ~Quiet
          /\ ~NothingStarted
          /\ request[c].session \in sessions
          /\ request[c].session \in Creator
          /\ ~binding.purge
      BY <1>1 DEF AttachSession, BInv, TypeOK, WritersKnown, SessionsKnown, Quiet, PrincipalFree,
             PrivacyRevoked,
             NothingStarted, At, Live
    <2>3. binding.attempts = 0
      BY <1>1 DEF BInv, AttemptsCounted, WritersKnown, Live
    <2>4. /\ binding' = [binding EXCEPT !.session = request[c].session, !.status = "active",
                         !.attempts = 1, !.sessionLease = None]
          /\ UNCHANGED <<tombstone, user, used, sessions, objects, signedIn, writer, revoker, acked, evicted, late>>
          /\ request[c].pc = "attach"
      BY <1>1, <2>3 DEF AttachSession, At
    <2>5. TypeOK'
      BY <1>1, <2>1, <2>2, <2>3, <2>4, BindingAssumption DEF BInv, TypeOK, RequestPc, RequestType,
             Moves, HoldingSession, PrincipalStep, CreatorStep, ExchangeStep,
             Live
    <2>6. LeasesHeld'
      BY <1>1, <2>1, <2>2, <2>3, <2>4, BindingAssumption DEF BInv, LeasesHeld, Moves, Request,
             HoldingSession, PrincipalStep, CreatorStep, ExchangeStep, Live
    <2>7. WritersKnown'
      BY <1>1, <2>2, <2>3, <2>4, BindingAssumption DEF BInv, WritersKnown, Live
    <2>8. SessionsKnown'
      BY <1>1, <2>1, <2>2, <2>3, <2>4, BindingAssumption DEF BInv, SessionsKnown, OneEngineSession,
             At, Moves, Request, HoldingSession, PrincipalStep, CreatorStep,
             ExchangeStep, Live
    <2>9. AttemptsCounted'
      BY <1>1, <2>2, <2>3, <2>4, BindingAssumption DEF BInv, AttemptsCounted, OneAttempt,
             SessionsKnown, Live
    <2>10. NotProvisioned'
      BY <1>1, <2>1, <2>2, <2>3, <2>4, BindingAssumption DEF BInv, NotProvisioned, NothingStarted,
             At, Moves, Request, HoldingSession, PrincipalStep, CreatorStep,
             ExchangeStep, Live
    <2>11. NothingStarted /\ tombstone # "none" => NothingStarted'
      BY <1>1, <2>1, <2>2, <2>3, <2>4, BindingAssumption DEF BInv, NothingStarted, At, Moves,
             Request, HoldingSession, PrincipalStep, CreatorStep, ExchangeStep,
             Live
    <2>12. PurgersKnow'
      BY <1>1, <2>2, <2>3, <2>4, BindingAssumption DEF BInv, PurgersKnow, Quiet, PrincipalFree,
             PrivacyRevoked,
             PurgeStep, Live
    <2>13. PurgedForGood'
      BY <1>1, <2>2, <2>3, <2>4, BindingAssumption, <2>11 DEF BInv, PurgedForGood, Quiet,
             PrincipalFree,
             PrivacyRevoked, Live
    <2>14. RevokedForGood'
      BY <1>1, <2>2, <2>3, <2>4, BindingAssumption, <2>11 DEF BInv, RevokedForGood, Live
    <2> QED BY <2>5, <2>6, <2>7, <2>8, <2>9, <2>10, <2>12, <2>13, <2>14 DEF BInv
  <1>2. CASE ~(binding.sessionLease = c /\ binding.session = None /\ Live)
    <2>1. Moves(c, "discard") /\ request'[c].session = request[c].session
      BY <1>2, GotoMoves DEF AttachSession, BInv, HoldingSession, PrincipalStep,
             CreatorStep, ExchangeStep, RequestPc, Request, At
    <2>2. /\ UNCHANGED <<tombstone, binding, user, sessions, objects, signedIn, writer, revoker, acked, evicted, late>>
          /\ used' \in 0 .. Limit
          /\ request[c].pc = "attach"
      BY <1>2 DEF AttachSession, BInv, TypeOK, At
    <2>3. binding.sessionLease = c \/ c \in evicted
      BY <2>2 DEF BInv, LeasesHeld, HoldingSession, CreatorStep
    <2>4. ~binding.purge => request'[c].session \in sessions
      BY <2>1, <2>2 DEF BInv, SessionsKnown
    <2>5. ~NothingStarted /\ binding.status # "absent"
      BY <2>2 DEF BInv, NotProvisioned, NothingStarted, At
    <2>6. c \in Request /\ "discard" \in RequestPc
      BY DEF Request, RequestPc, PrincipalStep, CreatorStep
    <2> QED BY <2>1, <2>2, <2>3, <2>4, <2>5, <2>6, RequestAlone
  <1> QED BY <1>1, <1>2 DEF AttachSession

\* A creator that lost its lease removes the session it inserted.
LEMMA DiscardLateSessionKept ==
    ASSUME BInv, NEW c \in Creator, DiscardLateSession(c)
    PROVE  BInv'
  <1>1. CASE PrivacyRevoked
    <2>1. Moves(c, "unlease")
      BY <1>1, GotoMoves DEF DiscardLateSession, BInv, HoldingSession,
             PrincipalStep, CreatorStep, ExchangeStep, RequestPc, Request, At, PrivacyRevoked
    <2>2. /\ sessions' = sessions \ {request[c].session} /\ user' = "absent" /\ late' = {}
          /\ UNCHANGED <<tombstone, binding, used, objects, signedIn, writer, revoker, acked, evicted>>
          /\ request[c].pc = "discard"
      BY <1>1 DEF DiscardLateSession, At, PrivacyRevoked, Discard
    <2>3. TypeOK'
      BY <1>1, <2>1, <2>2, BindingAssumption DEF BInv, TypeOK, RequestPc, RequestType, Moves,
             HoldingSession, PrincipalStep, CreatorStep, ExchangeStep,
             PrivacyRevoked, Live
    <2>4. LeasesHeld'
      BY <1>1, <2>1, <2>2, BindingAssumption DEF BInv, LeasesHeld, Moves, Request, HoldingSession,
             PrincipalStep, CreatorStep, ExchangeStep, PrivacyRevoked, Live
    <2>5. WritersKnown'
      BY <1>1, <2>2, BindingAssumption DEF BInv, WritersKnown, PrivacyRevoked, Live
    <2>6. SessionsKnown'
      BY <1>1, <2>1, <2>2, BindingAssumption DEF BInv, SessionsKnown, OneEngineSession, At, Moves,
             Request, HoldingSession, PrincipalStep, CreatorStep, ExchangeStep,
             PrivacyRevoked, Live
    <2>7. AttemptsCounted'
      BY <1>1, <2>2, BindingAssumption DEF BInv, AttemptsCounted, OneAttempt, SessionsKnown,
             PrivacyRevoked, Live
    <2>8. NotProvisioned'
      BY <1>1, <2>1, <2>2, BindingAssumption DEF BInv, NotProvisioned, NothingStarted, At, Moves,
             Request, HoldingSession, PrincipalStep, CreatorStep, ExchangeStep,
             PrivacyRevoked, Live
    <2>9. NothingStarted /\ tombstone # "none" => NothingStarted'
      BY <1>1, <2>1, <2>2, BindingAssumption DEF BInv, NothingStarted, At, Moves, Request,
             HoldingSession, PrincipalStep, CreatorStep, ExchangeStep,
             PrivacyRevoked, Live
    <2>10. PurgersKnow'
      BY <1>1, <2>2, BindingAssumption DEF BInv, PurgersKnow, Quiet, PrincipalFree, PrivacyRevoked,
             PurgeStep, Live
    <2>11. PurgedForGood'
      BY <1>1, <2>2, BindingAssumption, <2>9 DEF BInv, PurgedForGood, Quiet, PrincipalFree,
             PrivacyRevoked, Live
    <2>12. RevokedForGood'
      BY <1>1, <2>2, BindingAssumption, <2>9 DEF BInv, RevokedForGood, PrivacyRevoked, Live
    <2> QED BY <2>3, <2>4, <2>5, <2>6, <2>7, <2>8, <2>10, <2>11, <2>12 DEF BInv
  <1>2. CASE ~PrivacyRevoked
    <2>1. Moves(c, "adopt") /\ request'[c].session = request[c].session
      BY <1>2, GotoMoves DEF DiscardLateSession, BInv, HoldingSession,
             PrincipalStep, CreatorStep, ExchangeStep, RequestPc, Request, At, Discard,
             PrivacyRevoked
    <2> QED BY <1>2, <2>1, RequestAlone DEF DiscardLateSession, BInv, NothingStarted,
                   NotProvisioned, TypeOK, LeasesHeld, WritersKnown, SessionsKnown, Moves,
                   HoldingSession, PrincipalStep, CreatorStep, ExchangeStep,
                   RequestPc, Request, At, Discard, PrivacyRevoked
  <1> QED BY <1>1, <1>2 DEF DiscardLateSession

\* A binding revoked without a purge adopts the late session, unless it has one.
LEMMA AdoptLateSessionKept ==
    ASSUME BInv, NEW c \in Creator, AdoptLateSession(c)
    PROVE  BInv'
  <1>1. CASE binding.status = "revoked" /\ ~binding.purge /\ binding.session = None
    <2>1. Moves(c, "unlease")
      BY <1>1, GotoMoves DEF AdoptLateSession, BInv, HoldingSession,
             PrincipalStep, CreatorStep, ExchangeStep, RequestPc, Request, At
    <2>2. /\ ~Quiet
          /\ ~NothingStarted
          /\ request[c].session \in sessions
          /\ request[c].session \in Creator
          /\ ~binding.purge
      BY <1>1 DEF AdoptLateSession, BInv, TypeOK, WritersKnown, SessionsKnown, Quiet, PrincipalFree,
             PrivacyRevoked, NothingStarted, At, Live
    <2>3. binding.attempts = 0
      BY <1>1 DEF BInv, AttemptsCounted, WritersKnown, Live
    <2>4. /\ binding' = [binding EXCEPT !.session = request[c].session, !.attempts = 1]
          /\ UNCHANGED <<tombstone, user, used, sessions, objects, signedIn, writer, revoker, acked, evicted, late>>
          /\ request[c].pc = "adopt"
      BY <1>1, <2>3 DEF AdoptLateSession, At
    <2>5. TypeOK'
      BY <1>1, <2>1, <2>2, <2>3, <2>4, BindingAssumption DEF BInv, TypeOK, RequestPc, RequestType,
             Moves, HoldingSession, PrincipalStep, CreatorStep, ExchangeStep,
             Live
    <2>6. LeasesHeld'
      BY <1>1, <2>1, <2>2, <2>3, <2>4, BindingAssumption DEF BInv, LeasesHeld, Moves, Request,
             HoldingSession, PrincipalStep, CreatorStep, ExchangeStep, Live
    <2>7. WritersKnown'
      BY <1>1, <2>2, <2>3, <2>4, BindingAssumption DEF BInv, WritersKnown, Live
    <2>8. SessionsKnown'
      BY <1>1, <2>1, <2>2, <2>3, <2>4, BindingAssumption DEF BInv, SessionsKnown, OneEngineSession,
             At, Moves, Request, HoldingSession, PrincipalStep, CreatorStep,
             ExchangeStep, Live
    <2>9. AttemptsCounted'
      BY <1>1, <2>2, <2>3, <2>4, BindingAssumption DEF BInv, AttemptsCounted, OneAttempt,
             SessionsKnown, Live
    <2>10. NotProvisioned'
      BY <1>1, <2>1, <2>2, <2>3, <2>4, BindingAssumption DEF BInv, NotProvisioned, NothingStarted,
             At, Moves, Request, HoldingSession, PrincipalStep, CreatorStep,
             ExchangeStep, Live
    <2>11. NothingStarted /\ tombstone # "none" => NothingStarted'
      BY <1>1, <2>1, <2>2, <2>3, <2>4, BindingAssumption DEF BInv, NothingStarted, At, Moves,
             Request, HoldingSession, PrincipalStep, CreatorStep, ExchangeStep,
             Live
    <2>12. PurgersKnow'
      BY <1>1, <2>2, <2>3, <2>4, BindingAssumption DEF BInv, PurgersKnow, Quiet, PrincipalFree,
             PrivacyRevoked,
             PurgeStep, Live
    <2>13. PurgedForGood'
      BY <1>1, <2>2, <2>3, <2>4, BindingAssumption, <2>11 DEF BInv, PurgedForGood, Quiet,
             PrincipalFree,
             PrivacyRevoked, Live
    <2>14. RevokedForGood'
      BY <1>1, <2>2, <2>3, <2>4, BindingAssumption, <2>11 DEF BInv, RevokedForGood, Live
    <2> QED BY <2>5, <2>6, <2>7, <2>8, <2>9, <2>10, <2>12, <2>13, <2>14 DEF BInv
  <1>2. CASE ~(binding.status = "revoked" /\ ~binding.purge /\ binding.session = None) /\ PrivacyRevoked
    <2>1. Moves(c, "unlease")
      BY <1>2, GotoMoves DEF AdoptLateSession, BInv, HoldingSession,
             PrincipalStep, CreatorStep, ExchangeStep, RequestPc, Request, At, PrivacyRevoked
    <2>2. /\ sessions' = sessions \ {request[c].session} /\ user' = "absent" /\ late' = {}
          /\ UNCHANGED <<tombstone, binding, used, objects, signedIn, writer, revoker, acked, evicted>>
          /\ request[c].pc = "adopt"
      BY <1>2 DEF AdoptLateSession, At, PrivacyRevoked, Discard
    <2>3. TypeOK'
      BY <1>2, <2>1, <2>2, BindingAssumption DEF BInv, TypeOK, RequestPc, RequestType, Moves,
             HoldingSession, PrincipalStep, CreatorStep, ExchangeStep,
             PrivacyRevoked, Live
    <2>4. LeasesHeld'
      BY <1>2, <2>1, <2>2, BindingAssumption DEF BInv, LeasesHeld, Moves, Request, HoldingSession,
             PrincipalStep, CreatorStep, ExchangeStep, PrivacyRevoked, Live
    <2>5. WritersKnown'
      BY <1>2, <2>2, BindingAssumption DEF BInv, WritersKnown, PrivacyRevoked, Live
    <2>6. SessionsKnown'
      BY <1>2, <2>1, <2>2, BindingAssumption DEF BInv, SessionsKnown, OneEngineSession, At, Moves,
             Request, HoldingSession, PrincipalStep, CreatorStep, ExchangeStep,
             PrivacyRevoked, Live
    <2>7. AttemptsCounted'
      BY <1>2, <2>2, BindingAssumption DEF BInv, AttemptsCounted, OneAttempt, SessionsKnown,
             PrivacyRevoked, Live
    <2>8. NotProvisioned'
      BY <1>2, <2>1, <2>2, BindingAssumption DEF BInv, NotProvisioned, NothingStarted, At, Moves,
             Request, HoldingSession, PrincipalStep, CreatorStep, ExchangeStep,
             PrivacyRevoked, Live
    <2>9. NothingStarted /\ tombstone # "none" => NothingStarted'
      BY <1>2, <2>1, <2>2, BindingAssumption DEF BInv, NothingStarted, At, Moves, Request,
             HoldingSession, PrincipalStep, CreatorStep, ExchangeStep,
             PrivacyRevoked, Live
    <2>10. PurgersKnow'
      BY <1>2, <2>2, BindingAssumption DEF BInv, PurgersKnow, Quiet, PrincipalFree, PrivacyRevoked,
             PurgeStep, Live
    <2>11. PurgedForGood'
      BY <1>2, <2>2, BindingAssumption, <2>9 DEF BInv, PurgedForGood, Quiet, PrincipalFree,
             PrivacyRevoked, Live
    <2>12. RevokedForGood'
      BY <1>2, <2>2, BindingAssumption, <2>9 DEF BInv, RevokedForGood, PrivacyRevoked, Live
    <2> QED BY <2>3, <2>4, <2>5, <2>6, <2>7, <2>8, <2>10, <2>11, <2>12 DEF BInv
  <1>3. CASE ~(binding.status = "revoked" /\ ~binding.purge /\ binding.session = None) /\ ~PrivacyRevoked
    <2>1. Moves(c, "unlease")
      BY <1>3, GotoMoves DEF AdoptLateSession, BInv, HoldingSession,
             PrincipalStep, CreatorStep, ExchangeStep, RequestPc, Request, At, Discard,
             PrivacyRevoked
    <2>2. /\ UNCHANGED <<tombstone, binding, user, sessions, objects, signedIn, writer, revoker, acked, evicted, late>>
          /\ used' \in 0 .. Limit
      BY <1>3, <2>1 DEF AdoptLateSession, BInv, TypeOK, Discard, PrivacyRevoked
    <2>3. /\ binding.status # "absent"
          /\ binding.sessionLease = c \/ c \in evicted
      BY <1>3, BindingAssumption DEF AdoptLateSession, BInv, LeasesHeld, NotProvisioned,
             NothingStarted, HoldingSession, PrincipalStep, CreatorStep,
             ExchangeStep, RequestPc, Request, At, Discard, PrivacyRevoked
    <2>4. NothingStarted /\ tombstone # "none" => NothingStarted'
      BY <1>3, <2>1, <2>2, BindingAssumption DEF AdoptLateSession, NothingStarted, Moves,
             HoldingSession, PrincipalStep, CreatorStep, ExchangeStep, RequestPc,
             Request, At, Discard, PrivacyRevoked
    <2> QED BY <1>3, <2>1, <2>2, <2>3, <2>4, RequestAlone DEF HoldingSession,
                   PrincipalStep, CreatorStep, ExchangeStep, RequestPc, Request, At, Discard,
                   PrivacyRevoked
  <1> QED BY <1>1, <1>2, <1>3 DEF AdoptLateSession

\* The lease of the session goes back.
LEMMA ReleaseSessionLeaseKept ==
    ASSUME BInv, NEW c \in Creator, ReleaseSessionLease(c)
    PROVE  BInv'
  <1>1. CASE binding.sessionLease = c
    <2>1. Moves(c, "done")
      BY <1>1, GotoMoves DEF ReleaseSessionLease, BInv, HoldingSession,
             PrincipalStep, CreatorStep, ExchangeStep, RequestPc, Request, At
    <2>2. /\ binding' = [binding EXCEPT !.sessionLease = None]
          /\ UNCHANGED <<tombstone, user, used, sessions, objects, signedIn, writer, revoker, acked, evicted, late>>
          /\ request[c].pc = "unlease"
      BY <1>1 DEF ReleaseSessionLease, At
    <2>3. TypeOK'
      BY <1>1, <2>1, <2>2, BindingAssumption DEF BInv, TypeOK, RequestPc, RequestType, Moves,
             HoldingSession, PrincipalStep, CreatorStep, ExchangeStep, Live
    <2>4. LeasesHeld'
      BY <1>1, <2>1, <2>2, BindingAssumption DEF BInv, LeasesHeld, Moves, Request, HoldingSession,
             PrincipalStep, CreatorStep, ExchangeStep, Live
    <2>5. WritersKnown'
      BY <1>1, <2>2, BindingAssumption DEF BInv, WritersKnown, Live
    <2>6. SessionsKnown'
      BY <1>1, <2>1, <2>2, BindingAssumption DEF BInv, SessionsKnown, OneEngineSession, At, Moves,
             Request, HoldingSession, PrincipalStep, CreatorStep, ExchangeStep,
             Live
    <2>7. AttemptsCounted'
      BY <1>1, <2>2, BindingAssumption DEF BInv, AttemptsCounted, OneAttempt, SessionsKnown, Live
    <2>8. NotProvisioned'
      BY <1>1, <2>1, <2>2, BindingAssumption DEF BInv, NotProvisioned, NothingStarted, At, Moves,
             Request, HoldingSession, PrincipalStep, CreatorStep, ExchangeStep,
             Live
    <2>9. NothingStarted /\ tombstone # "none" => NothingStarted'
      BY <1>1, <2>1, <2>2, BindingAssumption DEF BInv, NothingStarted, At, Moves, Request,
             HoldingSession, PrincipalStep, CreatorStep, ExchangeStep, Live
    <2>10. PurgersKnow'
      BY <1>1, <2>2, BindingAssumption DEF BInv, PurgersKnow, Quiet, PrincipalFree, PrivacyRevoked,
             PurgeStep, Live
    <2>11. PurgedForGood'
      BY <1>1, <2>2, BindingAssumption, <2>9 DEF BInv, PurgedForGood, Quiet, PrincipalFree,
             PrivacyRevoked, Live
    <2>12. RevokedForGood'
      BY <1>1, <2>2, BindingAssumption, <2>9 DEF BInv, RevokedForGood, Live
    <2> QED BY <2>3, <2>4, <2>5, <2>6, <2>7, <2>8, <2>10, <2>11, <2>12 DEF BInv
  <1>2. CASE binding.sessionLease # c
    <2>1. Moves(c, "done")
      BY <1>2, GotoMoves DEF ReleaseSessionLease, BInv, HoldingSession,
             PrincipalStep, CreatorStep, ExchangeStep, RequestPc, Request, At
    <2>2. /\ UNCHANGED <<tombstone, binding, user, sessions, objects, signedIn, writer, revoker, acked, evicted, late>>
          /\ used' \in 0 .. Limit
          /\ request[c].pc = "unlease"
      BY <1>2 DEF ReleaseSessionLease, BInv, TypeOK, At
    <2>3. binding.status # "absent"
      BY <2>2 DEF BInv, NotProvisioned, NothingStarted, At, Request
    <2>4. NothingStarted /\ tombstone # "none" => NothingStarted'
      BY <1>2, <2>1, <2>2 DEF NothingStarted, Moves, Request, At
    <2> QED
      BY <1>2, <2>1, <2>2, <2>3, <2>4, RequestAlone
      DEF HoldingSession, PrincipalStep, ExchangeStep, CreatorStep, RequestPc, Request
  <1> QED BY <1>1, <1>2 DEF ReleaseSessionLease

\* A request that ends leaves its lease behind.
LEMMA CrashKept ==
    ASSUME BInv, NEW q \in Request, Crash(q)
    PROVE  BInv'
  <1>1. Moves(q, "done")
    BY GotoMoves DEF Crash, BInv, HoldingSession, PrincipalStep, CreatorStep,
           ExchangeStep, RequestPc, Request, At
  <1>2. /\ UNCHANGED <<tombstone, binding, user, sessions, objects, signedIn, writer, revoker, acked, evicted, late>>
        /\ used' \in 0 .. Limit
        /\ request[q].pc # "idle"
    BY DEF Crash, BInv, TypeOK
  <1>3. NothingStarted /\ tombstone # "none" => NothingStarted'
    BY <1>1, <1>2 DEF NothingStarted, Moves, Request, At
  <1>4. binding.status = "absent" => q \in Exchange
    BY <1>2 DEF BInv, NotProvisioned, NothingStarted, At, Request
  <1> QED
    BY <1>1, <1>2, <1>3, <1>4, RequestAlone
    DEF HoldingSession, PrincipalStep, ExchangeStep, CreatorStep, RequestPc

\* A writer drains: no purge is quiet until its capability expires.
LEMMA ClaimCapabilityKept ==
    ASSUME BInv, NEW w \in Writer, ClaimCapability(w)
    PROVE  BInv'
  <1>1. /\ binding' = [binding EXCEPT !.drain = TRUE]
        /\ writer' = [writer EXCEPT ![w] = "minting"]
        /\ UNCHANGED <<tombstone, user, used, sessions, objects, signedIn, request, revoker, acked, evicted, late>>
        /\ binding.status = "active" /\ ~binding.purge /\ ~Quiet /\ signedIn
    BY DEF ClaimCapability, Quiet, PrincipalFree, PrivacyRevoked
  <1>2. TypeOK'
    BY <1>1 DEF BInv, TypeOK
  <1>3. LeasesHeld'
    BY <1>1 DEF BInv, LeasesHeld
  <1>4. WritersKnown'
    BY <1>1 DEF BInv, WritersKnown
  <1>5. SessionsKnown'
    BY <1>1 DEF BInv, SessionsKnown, OneEngineSession, At
  <1>6. AttemptsCounted'
    BY <1>1 DEF BInv, AttemptsCounted, OneAttempt, SessionsKnown
  <1>7. NotProvisioned'
    BY <1>1 DEF BInv, NotProvisioned, NothingStarted, At
  <1>8. NothingStarted /\ tombstone # "none" => NothingStarted'
    BY <1>1 DEF BInv, NothingStarted, At
  <1>9. PurgersKnow'
    BY <1>1 DEF BInv, PurgersKnow, Quiet, PrincipalFree, PrivacyRevoked, PurgeStep
  <1>10. PurgedForGood'
    BY <1>1, <1>8 DEF BInv, PurgedForGood, Quiet, PrincipalFree, PrivacyRevoked
  <1>11. RevokedForGood'
    BY <1>1, <1>8 DEF BInv, RevokedForGood
  <1> QED BY <1>2, <1>3, <1>4, <1>5, <1>6, <1>7, <1>9, <1>10, <1>11 DEF BInv

\* Its capability is recorded on the binding before it is used.
LEMMA RecordCapabilityKept ==
    ASSUME BInv, NEW w \in Writer, RecordCapability(w)
    PROVE  BInv'
  <1>1. CASE Live /\ ~binding.purge
    <2>1. /\ binding' = [binding EXCEPT !.capabilities = @ \cup {w}, !.drain = TRUE]
          /\ writer' = [writer EXCEPT ![w] = "usable"]
          /\ UNCHANGED <<tombstone, user, used, sessions, objects, signedIn, request, revoker, acked, evicted, late>>
          /\ writer[w] = "minting"
          /\ ~binding.purge /\ ~Quiet /\ ~NothingStarted /\ binding.status \in {"provisioned", "active"}
      BY <1>1 DEF RecordCapability, Quiet, PrincipalFree, PrivacyRevoked, NothingStarted, Live
    <2>2. TypeOK'
      BY <2>1 DEF BInv, TypeOK
    <2>3. LeasesHeld'
      BY <2>1 DEF BInv, LeasesHeld
    <2>4. WritersKnown'
      BY <2>1 DEF BInv, WritersKnown
    <2>5. SessionsKnown'
      BY <2>1 DEF BInv, SessionsKnown, OneEngineSession, At
    <2>6. AttemptsCounted'
      BY <2>1 DEF BInv, AttemptsCounted, OneAttempt, SessionsKnown
    <2>7. NotProvisioned'
      BY <2>1 DEF BInv, NotProvisioned, NothingStarted, At
    <2>8. NothingStarted /\ tombstone # "none" => NothingStarted'
      BY <2>1 DEF BInv, NothingStarted, At
    <2>9. PurgersKnow'
      BY <2>1 DEF BInv, PurgersKnow, Quiet, PrincipalFree, PrivacyRevoked, PurgeStep
    <2>10. PurgedForGood'
      BY <2>1, <2>8 DEF BInv, PurgedForGood, Quiet, PrincipalFree, PrivacyRevoked
    <2>11. RevokedForGood'
      BY <2>1, <2>8 DEF BInv, RevokedForGood
    <2> QED BY <2>2, <2>3, <2>4, <2>5, <2>6, <2>7, <2>9, <2>10, <2>11 DEF BInv
  <1>2. CASE ~(Live /\ ~binding.purge)
    <2>1. /\ writer' = [writer EXCEPT ![w] = "done"]
          /\ UNCHANGED <<tombstone, binding, user, used, sessions, objects, signedIn, request, revoker, acked, evicted, late>>
          /\ writer[w] = "minting"
      BY <1>2 DEF RecordCapability
    <2>2. LeasesHeld' /\ SessionsKnown' /\ AttemptsCounted' /\ PurgersKnow'
      BY <2>1 DEF BInv, LeasesHeld, SessionsKnown, OneEngineSession, At, AttemptsCounted,
             OneAttempt, PurgersKnow, Quiet, PrincipalFree, PrivacyRevoked
    <2>3. TypeOK'
      BY <2>1 DEF BInv, TypeOK
    <2>4. WritersKnown'
      BY <2>1 DEF BInv, WritersKnown
    <2>5. NotProvisioned'
      BY <2>1 DEF BInv, NotProvisioned, NothingStarted, At
    <2>6. NothingStarted /\ tombstone # "none" => NothingStarted'
      BY <2>1 DEF BInv, NothingStarted, At
    <2>7. PurgedForGood'
      BY <2>1, <2>6 DEF BInv, PurgedForGood, Quiet, PrincipalFree, PrivacyRevoked
    <2>8. RevokedForGood'
      BY <2>1, <2>6 DEF BInv, RevokedForGood
    <2> QED BY <2>2, <2>3, <2>4, <2>5, <2>7, <2>8 DEF BInv
  <1> QED BY <1>1, <1>2

\* A usable capability writes the object the binding knows.
LEMMA UploadKept ==
    ASSUME BInv, NEW w \in Writer, Upload(w)
    PROVE  BInv'
  <1>1. /\ objects' = objects \cup {w}
        /\ UNCHANGED <<tombstone, binding, user, used, sessions, signedIn, request, writer, revoker, acked, evicted, late>>
        /\ writer[w] = "usable" /\ binding.drain /\ ~Quiet /\ ~NothingStarted
    BY DEF Upload, BInv, WritersKnown, Quiet, NothingStarted
  <1>2. LeasesHeld' /\ SessionsKnown' /\ AttemptsCounted'
    BY <1>1 DEF BInv, LeasesHeld, SessionsKnown, OneEngineSession, At, AttemptsCounted, OneAttempt
  <1>3. TypeOK'
    BY <1>1 DEF BInv, TypeOK
  <1>4. WritersKnown'
    BY <1>1 DEF BInv, WritersKnown
  <1>5. NotProvisioned'
    BY <1>1 DEF BInv, NotProvisioned, NothingStarted, At
  <1>6. NothingStarted /\ tombstone # "none" => NothingStarted'
    BY <1>1 DEF BInv, NothingStarted, At
  <1>7. PurgersKnow'
    BY <1>1 DEF BInv, PurgersKnow, Quiet, PrincipalFree, PrivacyRevoked, PurgeStep
  <1>8. PurgedForGood'
    BY <1>1, <1>6 DEF BInv, PurgedForGood, Quiet, PrincipalFree, PrivacyRevoked
  <1>9. RevokedForGood'
    BY <1>1, <1>6 DEF BInv, RevokedForGood
  <1> QED BY <1>2, <1>3, <1>4, <1>5, <1>7, <1>8, <1>9 DEF BInv

\* A writer ends.
LEMMA EndWriterKept ==
    ASSUME BInv, NEW w \in Writer, EndWriter(w)
    PROVE  BInv'
  <1>1. /\ writer' = [writer EXCEPT ![w] = "done"]
        /\ UNCHANGED <<tombstone, binding, user, used, sessions, objects, signedIn, request, revoker, acked, evicted, late>>
        /\ writer[w] \in {"minting", "usable"}
    BY DEF EndWriter
  <1>2. LeasesHeld' /\ SessionsKnown' /\ AttemptsCounted' /\ PurgersKnow'
    BY <1>1 DEF BInv, LeasesHeld, SessionsKnown, OneEngineSession, At, AttemptsCounted, OneAttempt,
           PurgersKnow, Quiet, PrincipalFree, PrivacyRevoked
  <1>3. TypeOK'
    BY <1>1 DEF BInv, TypeOK
  <1>4. WritersKnown'
    BY <1>1 DEF BInv, WritersKnown
  <1>5. NotProvisioned'
    BY <1>1 DEF BInv, NotProvisioned, NothingStarted, At
  <1>6. NothingStarted /\ tombstone # "none" => NothingStarted'
    BY <1>1 DEF BInv, NothingStarted, At
  <1>7. PurgedForGood'
    BY <1>1, <1>6 DEF BInv, PurgedForGood, Quiet, PrincipalFree, PrivacyRevoked
  <1>8. RevokedForGood'
    BY <1>1, <1>6 DEF BInv, RevokedForGood
  <1> QED BY <1>2, <1>3, <1>4, <1>5, <1>7, <1>8 DEF BInv

\* A delivery takes a step, and the others stay where they are.
Delivers(r, pc) ==
    /\ revoker' \in [Revoker -> [pc : {"idle"} \cup RevokerStep,
                                kind : {"none", "ordinary", "privacy"},
                                purge : BOOLEAN,
                                keys : SUBSET Writer]]
    /\ revoker'[r].pc = pc
    /\ \A o \in Revoker \ {r} : revoker'[o] = revoker[o]

\* A delivery goes to its next step.
LEMMA StepDelivers ==
    ASSUME TypeOK, NEW r \in Revoker, NEW pc \in RevokerStep, Step(r, pc)
    PROVE  /\ Delivers(r, pc)
           /\ revoker'[r].kind = revoker[r].kind /\ revoker'[r].keys = revoker[r].keys
  BY DEF Step, TypeOK, Delivers

\* A delivery ends and forgets what it read.
LEMMA ForgetDelivers ==
    ASSUME TypeOK, NEW r \in Revoker, Forget(r)
    PROVE  Delivers(r, "idle")
  <1>1. IdleRevoker \in [pc : {"idle"} \cup RevokerStep, kind : {"none", "ordinary", "privacy"},
                         purge : BOOLEAN, keys : SUBSET Writer] /\ IdleRevoker.pc = "idle"
    BY DEF IdleRevoker
  <1> QED BY <1>1 DEF Forget, TypeOK, Delivers

\* The tombstone comes first.
LEMMA WriteTombstoneKept ==
    ASSUME BInv, NEW r \in Revoker, WriteTombstone(r)
    PROVE  BInv'
  <1>1. CASE revoker[r].kind = "privacy"
    <2>1. Delivers(r, "mark") /\ revoker'[r].kind = revoker[r].kind /\ revoker'[r].keys = revoker[r].keys
      BY <1>1, StepDelivers DEF WriteTombstone, BInv, RevokerStep
    <2>2. /\ tombstone' = (IF tombstone = "none" THEN "revoked" ELSE tombstone)
          /\ UNCHANGED <<binding, user, used, sessions, objects, signedIn, request, writer, acked, evicted, late>>
          /\ revoker[r].pc = "stone"
      BY <1>1 DEF WriteTombstone
    <2>3. LeasesHeld' /\ WritersKnown' /\ SessionsKnown' /\ AttemptsCounted' /\ NotProvisioned'
      BY <2>2 DEF BInv, LeasesHeld, WritersKnown, SessionsKnown, OneEngineSession, At,
             AttemptsCounted, OneAttempt, NotProvisioned, NothingStarted
    <2>4. TypeOK'
      BY <2>1, <2>2 DEF BInv, TypeOK, Delivers
    <2>5. NothingStarted /\ tombstone # "none" => NothingStarted'
      BY <2>1, <2>2 DEF BInv, NothingStarted, At
    <2>6. PurgersKnow'
      BY <2>1, <2>2 DEF BInv, PurgersKnow, Quiet, PrincipalFree, PrivacyRevoked, PurgeStep,
             Delivers, RevokerStep
    <2>7. PurgedForGood'
      BY <2>2, <2>5 DEF BInv, PurgedForGood, Quiet, PrincipalFree, PrivacyRevoked
    <2>8. RevokedForGood'
      BY <2>1, <2>2, <2>5 DEF BInv, RevokedForGood, Delivers, RevokerStep
    <2> QED BY <2>3, <2>4, <2>6, <2>7, <2>8 DEF BInv
  <1>2. CASE revoker[r].kind # "privacy"
    <2>1. /\ Delivers(r, "binding")
          /\ revoker'[r].kind = revoker[r].kind
          /\ revoker'[r].keys = revoker[r].keys
      BY <1>2, StepDelivers DEF WriteTombstone, BInv, RevokerStep
    <2>2. /\ tombstone' = (IF tombstone = "none" THEN "revoked" ELSE tombstone)
          /\ UNCHANGED <<binding, user, used, sessions, objects, signedIn, request, writer, acked, evicted, late>>
          /\ revoker[r].pc = "stone"
      BY <1>2 DEF WriteTombstone
    <2>3. LeasesHeld' /\ WritersKnown' /\ SessionsKnown' /\ AttemptsCounted' /\ NotProvisioned'
      BY <2>2 DEF BInv, LeasesHeld, WritersKnown, SessionsKnown, OneEngineSession, At,
             AttemptsCounted, OneAttempt, NotProvisioned, NothingStarted
    <2>4. TypeOK'
      BY <2>1, <2>2 DEF BInv, TypeOK, Delivers
    <2>5. NothingStarted /\ tombstone # "none" => NothingStarted'
      BY <2>1, <2>2 DEF BInv, NothingStarted, At
    <2>6. PurgersKnow'
      BY <2>1, <2>2 DEF BInv, PurgersKnow, Quiet, PrincipalFree, PrivacyRevoked, PurgeStep,
             Delivers, RevokerStep
    <2>7. PurgedForGood'
      BY <2>2, <2>5 DEF BInv, PurgedForGood, Quiet, PrincipalFree, PrivacyRevoked
    <2>8. RevokedForGood'
      BY <2>1, <2>2, <2>5 DEF BInv, RevokedForGood, Delivers, RevokerStep
    <2> QED BY <2>3, <2>4, <2>6, <2>7, <2>8 DEF BInv
  <1> QED BY <1>1, <1>2

\* The tombstone of a purge is pending until the purge is acknowledged.
LEMMA MarkPurgeKept ==
    ASSUME BInv, NEW r \in Revoker, MarkPurge(r)
    PROVE  BInv'
  <1>1. /\ Delivers(r, "binding")
        /\ revoker'[r].kind = revoker[r].kind
        /\ revoker'[r].keys = revoker[r].keys
    BY StepDelivers DEF MarkPurge, BInv, RevokerStep
  <1>2. /\ tombstone' = (IF tombstone = "completed" THEN tombstone ELSE "pending")
        /\ UNCHANGED <<binding, user, used, sessions, objects, signedIn, request, writer, acked, evicted, late>>
        /\ revoker[r].pc = "mark"
    BY DEF MarkPurge
  <1>3. LeasesHeld' /\ WritersKnown' /\ SessionsKnown' /\ AttemptsCounted' /\ NotProvisioned'
    BY <1>2 DEF BInv, LeasesHeld, WritersKnown, SessionsKnown, OneEngineSession, At,
           AttemptsCounted, OneAttempt, NotProvisioned, NothingStarted
  <1>4. TypeOK'
    BY <1>1, <1>2 DEF BInv, TypeOK, Delivers
  <1>5. NothingStarted /\ tombstone # "none" => NothingStarted'
    BY <1>1, <1>2 DEF BInv, NothingStarted, At
  <1>6. PurgersKnow'
    BY <1>1, <1>2 DEF BInv, PurgersKnow, Quiet, PrincipalFree, PrivacyRevoked, PurgeStep, Delivers,
           RevokerStep
  <1>7. PurgedForGood'
    BY <1>2, <1>5 DEF BInv, PurgedForGood, Quiet, PrincipalFree, PrivacyRevoked
  <1>8. RevokedForGood'
    BY <1>1, <1>2, <1>5 DEF BInv, RevokedForGood, Delivers, RevokerStep
  <1> QED BY <1>3, <1>4, <1>6, <1>7, <1>8 DEF BInv

\* An ordinary revocation takes the session's lease away.
LEMMA RevokeAccessKept ==
    ASSUME BInv, NEW r \in Revoker, RevokeAccess(r)
    PROVE  BInv'
  <1>1. Delivers(r, "limit") /\ revoker'[r].kind = revoker[r].kind /\ revoker'[r].keys = revoker[r].keys
    BY StepDelivers DEF RevokeAccess, BInv, RevokerStep
  <1>2. /\ binding' = Revoked(binding, FALSE)
        /\ evicted' = evicted \cup ({binding.sessionLease} \ {None})
        /\ UNCHANGED <<tombstone, user, used, sessions, objects, signedIn, request, writer, acked, late>>
        /\ revoker[r].pc = "binding"
        /\ binding.status # "absent"
    BY DEF RevokeAccess
  <1>3. /\ binding'.status = "revoked"
        /\ binding'.sessionLease = None
        /\ binding'.purge = binding.purge
        /\ binding'.session = binding.session
        /\ binding'.attempts = binding.attempts
        /\ binding'.principalLease = binding.principalLease
        /\ binding'.principalExpired = binding.principalExpired
        /\ binding'.drain = binding.drain
        /\ binding'.capabilities = binding.capabilities
    BY <1>2 DEF Revoked, BInv, TypeOK
  <1>4. TypeOK'
    BY <1>1, <1>2, <1>3 DEF BInv, TypeOK, Delivers, Revoked
  <1>5. LeasesHeld'
    BY <1>1, <1>2, <1>3 DEF BInv, LeasesHeld, Revoked
  <1>6. WritersKnown'
    BY <1>2, <1>3 DEF BInv, WritersKnown, Revoked
  <1>7. SessionsKnown'
    BY <1>1, <1>2, <1>3 DEF BInv, SessionsKnown, OneEngineSession, At, Revoked
  <1>8. AttemptsCounted'
    BY <1>2, <1>3 DEF BInv, AttemptsCounted, OneAttempt, SessionsKnown, Revoked
  <1>9. NotProvisioned'
    BY <1>1, <1>2, <1>3 DEF BInv, NotProvisioned, NothingStarted, At, Revoked
  <1>10. NothingStarted /\ tombstone # "none" => NothingStarted'
    BY <1>1, <1>2, <1>3 DEF BInv, NothingStarted, At, Revoked
  <1>11. PurgersKnow'
    BY <1>1, <1>2, <1>3 DEF BInv, PurgersKnow, Quiet, PrincipalFree, PrivacyRevoked, PurgeStep,
           Delivers,
           RevokerStep, Revoked
  <1>12. PurgedForGood'
    BY <1>2, <1>3, <1>10 DEF BInv, PurgedForGood, Quiet, PrincipalFree, PrivacyRevoked, Revoked
  <1>13. RevokedForGood'
    BY <1>1, <1>2, <1>3, <1>10 DEF BInv, RevokedForGood, Delivers, RevokerStep, Revoked
  <1> QED BY <1>4, <1>5, <1>6, <1>7, <1>8, <1>9, <1>11, <1>12, <1>13 DEF BInv

\* Without a binding there is nothing to revoke.
LEMMA NothingProvisionedKept ==
    ASSUME BInv, NEW r \in Revoker, NothingProvisioned(r)
    PROVE  BInv'
  <1>1. Delivers(r, "idle")
    BY ForgetDelivers DEF NothingProvisioned, BInv
  <1>2. /\ tombstone' = (IF revoker[r].purge THEN "completed" ELSE tombstone)
        /\ acked' = acked \cup {revoker[r].kind}
        /\ UNCHANGED <<binding, user, used, sessions, objects, signedIn, request, writer, evicted, late>>
        /\ revoker[r].pc = "binding"
        /\ binding.status = "absent"
    BY DEF NothingProvisioned
  <1>3. /\ NothingStarted
        /\ binding.session = None
        /\ objects = {}
        /\ sessions = {}
        /\ user = "absent"
        /\ tombstone # "none"
        /\ revoker[r].kind \in {"ordinary", "privacy"}
    BY <1>2 DEF BInv, NotProvisioned, NothingStarted, RevokedForGood, TypeOK
  <1>4. LeasesHeld' /\ WritersKnown' /\ SessionsKnown' /\ AttemptsCounted' /\ NotProvisioned'
    BY <1>2 DEF BInv, LeasesHeld, WritersKnown, SessionsKnown, OneEngineSession, At,
           AttemptsCounted, OneAttempt, NotProvisioned, NothingStarted
  <1>5. TypeOK'
    BY <1>1, <1>2, <1>3 DEF BInv, TypeOK, Delivers
  <1>6. NothingStarted /\ tombstone # "none" => NothingStarted'
    BY <1>1, <1>2, <1>3 DEF BInv, NothingStarted, At
  <1>7. PurgersKnow'
    BY <1>1, <1>2, <1>3 DEF BInv, PurgersKnow, Quiet, PrincipalFree, PrivacyRevoked, PurgeStep,
           Delivers,
           RevokerStep
  <1>8. PurgedForGood'
    BY <1>2, <1>3, <1>6 DEF BInv, PurgedForGood, Quiet, PrincipalFree, PrivacyRevoked
  <1>9. RevokedForGood'
    BY <1>1, <1>2, <1>3, <1>6 DEF BInv, RevokedForGood, Delivers, RevokerStep
  <1> QED BY <1>4, <1>5, <1>7, <1>8, <1>9 DEF BInv

\* The user of a revoked binding is limited.
LEMMA LimitUserKept ==
    ASSUME BInv, NEW r \in Revoker, LimitUser(r)
    PROVE  BInv'
  <1>1. Delivers(r, "idle")
    BY ForgetDelivers DEF LimitUser, BInv
  <1>2. /\ user' = (IF user = "active" THEN "limited" ELSE user)
        /\ acked' = acked \cup {revoker[r].kind}
        /\ UNCHANGED <<tombstone, binding, used, sessions, objects, signedIn, request, writer, evicted, late>>
        /\ revoker[r].pc = "limit"
    BY DEF LimitUser
  <1>3. /\ tombstone # "none"
        /\ binding.status = "revoked"
        /\ revoker[r].kind \in {"ordinary", "privacy"}
    BY <1>2 DEF BInv, RevokedForGood, TypeOK
  <1>4. LeasesHeld' /\ WritersKnown' /\ SessionsKnown' /\ AttemptsCounted'
    BY <1>2 DEF BInv, LeasesHeld, WritersKnown, SessionsKnown, OneEngineSession, At,
           AttemptsCounted, OneAttempt
  <1>5. TypeOK'
    BY <1>1, <1>2, <1>3 DEF BInv, TypeOK, Delivers
  <1>6. NotProvisioned'
    BY <1>1, <1>2, <1>3 DEF BInv, NotProvisioned, NothingStarted, At
  <1>7. NothingStarted /\ tombstone # "none" => NothingStarted'
    BY <1>1, <1>2, <1>3 DEF BInv, NothingStarted, At
  <1>8. PurgersKnow'
    BY <1>1, <1>2, <1>3 DEF BInv, PurgersKnow, Quiet, PrincipalFree, PrivacyRevoked, PurgeStep,
           Delivers,
           RevokerStep
  <1>9. PurgedForGood'
    BY <1>2, <1>3, <1>7 DEF BInv, PurgedForGood, Quiet, PrincipalFree, PrivacyRevoked
  <1>10. RevokedForGood'
    BY <1>1, <1>2, <1>3, <1>7 DEF BInv, RevokedForGood, Delivers, RevokerStep
  <1> QED BY <1>4, <1>5, <1>6, <1>8, <1>9, <1>10 DEF BInv

\* A purge fences the user first.
LEMMA FenceUserKept ==
    ASSUME BInv, NEW r \in Revoker, FenceUser(r)
    PROVE  BInv'
  <1>1. /\ Delivers(r, "objects")
        /\ revoker'[r].kind = revoker[r].kind
        /\ revoker'[r].keys = revoker[r].keys
    BY StepDelivers DEF FenceUser, BInv, RevokerStep
  <1>2. /\ user' = (IF user = "absent" THEN user ELSE "deleting")
        /\ UNCHANGED <<tombstone, binding, used, sessions, objects, signedIn, request, writer, acked, evicted, late>>
        /\ revoker[r].pc = "fence"
    BY DEF FenceUser
  <1>3. /\ Quiet
        /\ binding.purge
        /\ binding.status = "revoked"
        /\ binding.sessionLease = None
        /\ tombstone # "none"
    BY <1>2 DEF BInv, PurgersKnow, RevokedForGood, PurgeStep, Quiet, PrincipalFree, PrivacyRevoked
  <1>4. LeasesHeld' /\ WritersKnown' /\ SessionsKnown' /\ AttemptsCounted'
    BY <1>2 DEF BInv, LeasesHeld, WritersKnown, SessionsKnown, OneEngineSession, At,
           AttemptsCounted, OneAttempt
  <1>5. TypeOK'
    BY <1>1, <1>2, <1>3 DEF BInv, TypeOK, Delivers
  <1>6. NotProvisioned'
    BY <1>1, <1>2, <1>3 DEF BInv, NotProvisioned, NothingStarted, At
  <1>7. NothingStarted /\ tombstone # "none" => NothingStarted'
    BY <1>1, <1>2, <1>3 DEF BInv, NothingStarted, At
  <1>8. PurgersKnow'
    BY <1>1, <1>2, <1>3 DEF BInv, PurgersKnow, Quiet, PrincipalFree, PrivacyRevoked, PurgeStep,
           Delivers,
           RevokerStep
  <1>9. PurgedForGood'
    BY <1>2, <1>3, <1>7 DEF BInv, PurgedForGood, Quiet, PrincipalFree, PrivacyRevoked
  <1>10. RevokedForGood'
    BY <1>1, <1>2, <1>3, <1>7 DEF BInv, RevokedForGood, Delivers, RevokerStep
  <1> QED BY <1>4, <1>5, <1>6, <1>8, <1>9, <1>10 DEF BInv

\* The objects of every capability the purge read are deleted.
LEMMA PurgeObjectsKept ==
    ASSUME BInv, NEW r \in Revoker, PurgeObjects(r)
    PROVE  BInv'
  <1>1. Delivers(r, "rows") /\ revoker'[r].kind = revoker[r].kind /\ revoker'[r].keys = revoker[r].keys
    BY StepDelivers DEF PurgeObjects, BInv, RevokerStep
  <1>2. /\ objects' = objects \ revoker[r].keys
        /\ UNCHANGED <<tombstone, binding, user, used, sessions, signedIn, request, writer, acked, evicted, late>>
        /\ revoker[r].pc = "objects"
    BY DEF PurgeObjects
  <1>3. /\ Quiet
        /\ binding.purge
        /\ binding.status = "revoked"
        /\ binding.sessionLease = None
        /\ tombstone # "none"
        /\ objects \subseteq revoker[r].keys
    BY <1>2 DEF BInv, PurgersKnow, RevokedForGood, PurgeStep, Quiet, PrincipalFree, PrivacyRevoked
  <1>4. LeasesHeld' /\ SessionsKnown' /\ AttemptsCounted'
    BY <1>2 DEF BInv, LeasesHeld, SessionsKnown, OneEngineSession, At, AttemptsCounted, OneAttempt
  <1>5. TypeOK'
    BY <1>1, <1>2, <1>3 DEF BInv, TypeOK, Delivers
  <1>6. WritersKnown'
    BY <1>2, <1>3 DEF BInv, WritersKnown
  <1>7. NotProvisioned'
    BY <1>1, <1>2, <1>3 DEF BInv, NotProvisioned, NothingStarted, At
  <1>8. NothingStarted /\ tombstone # "none" => NothingStarted'
    BY <1>1, <1>2, <1>3 DEF BInv, NothingStarted, At
  <1>9. PurgersKnow'
    BY <1>1, <1>2, <1>3 DEF BInv, PurgersKnow, Quiet, PrincipalFree, PrivacyRevoked, PurgeStep,
           Delivers,
           RevokerStep
  <1>10. PurgedForGood'
    BY <1>2, <1>3, <1>8 DEF BInv, PurgedForGood, Quiet, PrincipalFree, PrivacyRevoked
  <1>11. RevokedForGood'
    BY <1>1, <1>2, <1>3, <1>8 DEF BInv, RevokedForGood, Delivers, RevokerStep
  <1> QED BY <1>4, <1>5, <1>6, <1>7, <1>9, <1>10, <1>11 DEF BInv

\* Then the session and what belongs to it.
LEMMA PurgeRowsKept ==
    ASSUME BInv, NEW r \in Revoker, PurgeRows(r)
    PROVE  BInv'
  <1>1. Delivers(r, "user") /\ revoker'[r].kind = revoker[r].kind /\ revoker'[r].keys = revoker[r].keys
    BY StepDelivers DEF PurgeRows, BInv, RevokerStep
  <1>2. /\ sessions' = {}
        /\ UNCHANGED <<tombstone, binding, user, used, objects, signedIn, request, writer, acked, evicted, late>>
        /\ revoker[r].pc = "rows"
    BY DEF PurgeRows
  <1>3. /\ Quiet
        /\ binding.purge
        /\ binding.status = "revoked"
        /\ binding.sessionLease = None
        /\ tombstone # "none"
    BY <1>2 DEF BInv, PurgersKnow, RevokedForGood, PurgeStep, Quiet, PrincipalFree, PrivacyRevoked
  <1>4. LeasesHeld' /\ WritersKnown'
    BY <1>2 DEF BInv, LeasesHeld, WritersKnown
  <1>5. TypeOK'
    BY <1>1, <1>2, <1>3 DEF BInv, TypeOK, Delivers
  <1>6. SessionsKnown'
    BY <1>1, <1>2, <1>3 DEF BInv, SessionsKnown, OneEngineSession, At
  <1>7. AttemptsCounted'
    BY <1>2, <1>3 DEF BInv, AttemptsCounted, OneAttempt, SessionsKnown
  <1>8. NotProvisioned'
    BY <1>1, <1>2, <1>3 DEF BInv, NotProvisioned, NothingStarted, At
  <1>9. NothingStarted /\ tombstone # "none" => NothingStarted'
    BY <1>1, <1>2, <1>3 DEF BInv, NothingStarted, At
  <1>10. PurgersKnow'
    BY <1>1, <1>2, <1>3 DEF BInv, PurgersKnow, Quiet, PrincipalFree, PrivacyRevoked, PurgeStep,
           Delivers,
           RevokerStep
  <1>11. PurgedForGood'
    BY <1>2, <1>3, <1>9 DEF BInv, PurgedForGood, Quiet, PrincipalFree, PrivacyRevoked
  <1>12. RevokedForGood'
    BY <1>1, <1>2, <1>3, <1>9 DEF BInv, RevokedForGood, Delivers, RevokerStep
  <1> QED BY <1>4, <1>5, <1>6, <1>7, <1>8, <1>10, <1>11, <1>12 DEF BInv

\* Then the user.
LEMMA PurgeUserKept ==
    ASSUME BInv, NEW r \in Revoker, PurgeUser(r)
    PROVE  BInv'
  <1>1. CASE user \in {"absent", "deleting"}
    <2>1. /\ Delivers(r, "scrub")
          /\ revoker'[r].kind = revoker[r].kind
          /\ revoker'[r].keys = revoker[r].keys
      BY <1>1, StepDelivers DEF PurgeUser, BInv, RevokerStep
    <2>2. /\ user' = "absent" /\ late' = {}
          /\ UNCHANGED <<tombstone, binding, used, sessions, objects, signedIn, request, writer, acked, evicted>>
          /\ revoker[r].pc = "user"
      BY <1>1 DEF PurgeUser
    <2>3. /\ Quiet
          /\ binding.purge
          /\ binding.status = "revoked"
          /\ binding.sessionLease = None
          /\ tombstone # "none"
      BY <2>2 DEF BInv, PurgersKnow, RevokedForGood, PurgeStep, Quiet, PrincipalFree, PrivacyRevoked
    <2>4. LeasesHeld' /\ WritersKnown' /\ SessionsKnown' /\ AttemptsCounted'
      BY <2>2 DEF BInv, LeasesHeld, WritersKnown, SessionsKnown, OneEngineSession, At,
             AttemptsCounted, OneAttempt
    <2>5. TypeOK'
      BY <2>1, <2>2, <2>3 DEF BInv, TypeOK, Delivers
    <2>6. NotProvisioned'
      BY <2>1, <2>2, <2>3 DEF BInv, NotProvisioned, NothingStarted, At
    <2>7. NothingStarted /\ tombstone # "none" => NothingStarted'
      BY <2>1, <2>2, <2>3 DEF BInv, NothingStarted, At
    <2>8. PurgersKnow'
      BY <2>1, <2>2, <2>3 DEF BInv, PurgersKnow, Quiet, PrincipalFree, PrivacyRevoked, PurgeStep,
             Delivers,
             RevokerStep
    <2>9. PurgedForGood'
      BY <2>2, <2>3, <2>7 DEF BInv, PurgedForGood, Quiet, PrincipalFree, PrivacyRevoked
    <2>10. RevokedForGood'
      BY <2>1, <2>2, <2>3, <2>7 DEF BInv, RevokedForGood, Delivers, RevokerStep
    <2> QED BY <2>4, <2>5, <2>6, <2>8, <2>9, <2>10 DEF BInv
  <1>2. CASE user \notin {"absent", "deleting"}
    <2>1. Delivers(r, "idle")
      BY <1>2, ForgetDelivers DEF PurgeUser, BInv
    <2>2. /\ UNCHANGED <<tombstone, binding, user, used, sessions, objects, signedIn, request, writer, acked, evicted, late>>
          /\ revoker[r].pc = "user"
      BY <1>2 DEF PurgeUser
    <2>3. /\ Quiet
          /\ binding.purge
          /\ binding.status = "revoked"
          /\ binding.sessionLease = None
          /\ tombstone # "none"
      BY <2>2 DEF BInv, PurgersKnow, RevokedForGood, PurgeStep, Quiet, PrincipalFree, PrivacyRevoked
    <2>4. /\ LeasesHeld'
          /\ WritersKnown'
          /\ SessionsKnown'
          /\ AttemptsCounted'
          /\ NotProvisioned'
          /\ PurgedForGood'
      BY <2>2 DEF BInv, LeasesHeld, WritersKnown, SessionsKnown, OneEngineSession, At,
             AttemptsCounted, OneAttempt, NotProvisioned, NothingStarted, PurgedForGood, Quiet,
             PrincipalFree,
             PrivacyRevoked
    <2>5. TypeOK'
      BY <2>1, <2>2, <2>3 DEF BInv, TypeOK, Delivers
    <2>6. NothingStarted /\ tombstone # "none" => NothingStarted'
      BY <2>1, <2>2, <2>3 DEF BInv, NothingStarted, At
    <2>7. PurgersKnow'
      BY <2>1, <2>2, <2>3 DEF BInv, PurgersKnow, Quiet, PrincipalFree, PrivacyRevoked, PurgeStep,
             Delivers,
             RevokerStep
    <2>8. RevokedForGood'
      BY <2>1, <2>2, <2>3, <2>6 DEF BInv, RevokedForGood, Delivers, RevokerStep
    <2> QED BY <2>4, <2>5, <2>7, <2>8 DEF BInv
  <1> QED BY <1>1, <1>2

\* Then the binding forgets its session.
LEMMA ScrubBindingKept ==
    ASSUME BInv, NEW r \in Revoker, ScrubBinding(r)
    PROVE  BInv'
  <1>1. /\ Delivers(r, "complete")
        /\ revoker'[r].kind = revoker[r].kind
        /\ revoker'[r].keys = revoker[r].keys
    BY StepDelivers DEF ScrubBinding, BInv, RevokerStep
  <1>2. /\ binding' = [binding EXCEPT !.session = None, !.sessionLease = None,
                       !.principalLease = None, !.principalExpired = FALSE, !.drain = FALSE, !.capabilities = {}]
        /\ UNCHANGED <<tombstone, user, used, sessions, objects, signedIn, request, writer, acked, evicted, late>>
        /\ revoker[r].pc = "scrub"
        /\ PrivacyRevoked
    BY DEF ScrubBinding
  <1>3. /\ Quiet
        /\ binding.purge
        /\ binding.status = "revoked"
        /\ binding.sessionLease = None
        /\ tombstone # "none"
        /\ objects = {}
        /\ \A w \in Writer : writer[w] \notin {"minting", "usable"}
    BY <1>2 DEF BInv, PurgersKnow, RevokedForGood, PurgeStep, Quiet, PrincipalFree, PrivacyRevoked,
           WritersKnown
  <1>4. TypeOK'
    BY <1>1, <1>2, <1>3 DEF BInv, TypeOK, Delivers
  <1>5. LeasesHeld'
    BY <1>1, <1>2, <1>3 DEF BInv, LeasesHeld
  <1>6. WritersKnown'
    BY <1>2, <1>3 DEF BInv, WritersKnown
  <1>7. SessionsKnown'
    BY <1>1, <1>2, <1>3 DEF BInv, SessionsKnown, OneEngineSession, At
  <1>8. AttemptsCounted'
    BY <1>2, <1>3 DEF BInv, AttemptsCounted, OneAttempt, SessionsKnown
  <1>9. NotProvisioned'
    BY <1>1, <1>2, <1>3 DEF BInv, NotProvisioned, NothingStarted, At
  <1>10. NothingStarted /\ tombstone # "none" => NothingStarted'
    BY <1>1, <1>2, <1>3 DEF BInv, NothingStarted, At
  <1>11. PurgersKnow'
    BY <1>1, <1>2, <1>3 DEF BInv, PurgersKnow, Quiet, PrincipalFree, PrivacyRevoked, PurgeStep,
           Delivers,
           RevokerStep
  <1>12. PurgedForGood'
    BY <1>2, <1>3, <1>10 DEF BInv, PurgedForGood, Quiet, PrincipalFree, PrivacyRevoked
  <1>13. RevokedForGood'
    BY <1>1, <1>2, <1>3, <1>10 DEF BInv, RevokedForGood, Delivers, RevokerStep
  <1> QED BY <1>4, <1>5, <1>6, <1>7, <1>8, <1>9, <1>11, <1>12, <1>13 DEF BInv

\* The purge is acknowledged on the tombstone.
LEMMA CompletePurgeKept ==
    ASSUME BInv, NEW r \in Revoker, CompletePurge(r)
    PROVE  BInv'
  <1>1. Delivers(r, "idle")
    BY ForgetDelivers DEF CompletePurge, BInv
  <1>2. /\ tombstone' = "completed"
        /\ acked' = acked \cup {revoker[r].kind}
        /\ UNCHANGED <<binding, user, used, sessions, objects, signedIn, request, writer, evicted, late>>
        /\ revoker[r].pc = "complete"
    BY DEF CompletePurge
  <1>3. /\ Quiet
        /\ binding.purge
        /\ binding.status = "revoked"
        /\ binding.sessionLease = None
        /\ tombstone # "none"
        /\ revoker[r].kind \in {"ordinary", "privacy"}
        /\ objects = {}
        /\ sessions \subseteq evicted
        /\ binding.session = None
    BY <1>2 DEF BInv, PurgersKnow, RevokedForGood, TypeOK, PurgeStep, Quiet, PrincipalFree,
           PrivacyRevoked
  <1>4. LeasesHeld' /\ WritersKnown' /\ SessionsKnown' /\ AttemptsCounted' /\ NotProvisioned'
    BY <1>2 DEF BInv, LeasesHeld, WritersKnown, SessionsKnown, OneEngineSession, At,
           AttemptsCounted, OneAttempt, NotProvisioned, NothingStarted
  <1>5. TypeOK'
    BY <1>1, <1>2, <1>3 DEF BInv, TypeOK, Delivers
  <1>6. NothingStarted /\ tombstone # "none" => NothingStarted'
    BY <1>1, <1>2, <1>3 DEF BInv, NothingStarted, At
  <1>7. PurgersKnow'
    BY <1>1, <1>2, <1>3 DEF BInv, PurgersKnow, Quiet, PrincipalFree, PrivacyRevoked, PurgeStep,
           Delivers,
           RevokerStep
  <1>8. PurgedForGood'
    BY <1>2, <1>3, <1>6 DEF BInv, PurgedForGood, Quiet, PrincipalFree, PrivacyRevoked
  <1>9. RevokedForGood'
    BY <1>1, <1>2, <1>3, <1>6 DEF BInv, RevokedForGood, Delivers, RevokerStep
  <1> QED BY <1>4, <1>5, <1>7, <1>8, <1>9 DEF BInv

\* A delivery that fails starts again later.
LEMMA AbortRevocationKept ==
    ASSUME BInv, NEW r \in Revoker, AbortRevocation(r)
    PROVE  BInv'
  <1>1. Delivers(r, "idle")
    BY ForgetDelivers DEF AbortRevocation, BInv
  <1>2. /\ UNCHANGED <<tombstone, binding, user, used, sessions, objects, signedIn, request, writer, acked, evicted, late>>
    BY DEF AbortRevocation
  <1>3. /\ LeasesHeld'
        /\ WritersKnown'
        /\ SessionsKnown'
        /\ AttemptsCounted'
        /\ NotProvisioned'
        /\ PurgedForGood'
    BY <1>2 DEF BInv, LeasesHeld, WritersKnown, SessionsKnown, OneEngineSession, At,
           AttemptsCounted, OneAttempt, NotProvisioned, NothingStarted, PurgedForGood, Quiet,
           PrincipalFree,
           PrivacyRevoked
  <1>4. TypeOK'
    BY <1>1, <1>2 DEF BInv, TypeOK, Delivers
  <1>5. NothingStarted /\ tombstone # "none" => NothingStarted'
    BY <1>1, <1>2 DEF BInv, NothingStarted, At
  <1>6. PurgersKnow'
    BY <1>1, <1>2 DEF BInv, PurgersKnow, Quiet, PrincipalFree, PrivacyRevoked, PurgeStep, Delivers,
           RevokerStep
  <1>7. RevokedForGood'
    BY <1>1, <1>2, <1>5 DEF BInv, RevokedForGood, Delivers, RevokerStep
  <1> QED BY <1>3, <1>4, <1>6, <1>7 DEF BInv

\* A purge revokes the binding, and goes on only when nobody holds a lease and no capability drains.
LEMMA RevokeForPurgeKept ==
    ASSUME BInv, NEW r \in Revoker, RevokeForPurge(r)
    PROVE  BInv'
  <1>1. /\ UNCHANGED <<tombstone, user, used, sessions, objects, signedIn, request, writer, acked, evicted, late>>
        /\ revoker[r].pc = "binding" /\ binding.status # "absent"
    BY DEF RevokeForPurge
  <1>2. /\ binding'.status = "revoked"
        /\ binding'.purge
        /\ binding'.sessionLease = binding.sessionLease
        /\ binding'.session = binding.session
        /\ binding'.attempts = binding.attempts
        /\ binding'.principalLease = binding.principalLease
        /\ binding'.principalExpired = binding.principalExpired
        /\ binding'.drain = binding.drain
        /\ binding'.capabilities = binding.capabilities
        /\ tombstone # "none"
        /\ (Quiet => Quiet')
    BY <1>1 DEF RevokeForPurge, Quiet, PrincipalFree, PrivacyRevoked, Revoked, BInv, TypeOK,
           RevokedForGood
  <1>3. binding' = Revoked(binding, TRUE)
    BY DEF RevokeForPurge
  <1>4. CASE binding.sessionLease = None /\ PrincipalFree /\ ~binding.drain
    <2>1. /\ Delivers(r, "fence")
          /\ revoker'[r].kind = revoker[r].kind
          /\ revoker'[r].keys = binding.capabilities
      BY <1>4 DEF RevokeForPurge, Delivers, BInv, TypeOK, RevokerStep
    <2>2. Quiet' /\ objects \subseteq binding.capabilities
      BY <1>4, <1>2 DEF BInv, WritersKnown, Quiet, PrincipalFree, PrivacyRevoked
    <2>3. TypeOK'
      BY <1>4, <2>1, <1>1, <1>2, <1>3, <2>2 DEF BInv, TypeOK, Delivers, Revoked
    <2>4. LeasesHeld'
      BY <1>4, <2>1, <1>1, <1>2, <2>2 DEF BInv, LeasesHeld
    <2>5. WritersKnown'
      BY <1>4, <1>1, <1>2, <2>2 DEF BInv, WritersKnown
    <2>6. SessionsKnown'
      BY <1>4, <2>1, <1>1, <1>2, <2>2 DEF BInv, SessionsKnown, OneEngineSession, At
    <2>7. AttemptsCounted'
      BY <1>4, <1>1, <1>2, <2>2 DEF BInv, AttemptsCounted, OneAttempt, SessionsKnown
    <2>8. NotProvisioned'
      BY <1>4, <2>1, <1>1, <1>2, <2>2 DEF BInv, NotProvisioned, NothingStarted, At
    <2>9. NothingStarted /\ tombstone # "none" => NothingStarted'
      BY <1>4, <2>1, <1>1, <1>2, <2>2 DEF BInv, NothingStarted, At
    <2>10. PurgersKnow'
      BY <1>4, <2>1, <1>1, <1>2, <2>2 DEF BInv, PurgersKnow, PurgeStep, Delivers
    <2>11. PurgedForGood'
      BY <1>4, <1>1, <1>2, <2>2, <2>9 DEF BInv, PurgedForGood, Quiet, PrincipalFree, PrivacyRevoked
    <2>12. RevokedForGood'
      BY <1>4, <2>1, <1>1, <1>2, <2>2, <2>9 DEF BInv, RevokedForGood, Delivers, RevokerStep
    <2> QED BY <2>3, <2>4, <2>5, <2>6, <2>7, <2>8, <2>10, <2>11, <2>12 DEF BInv
  <1>5. CASE ~(binding.sessionLease = None /\ PrincipalFree /\ ~binding.drain)
    <2>1. Delivers(r, "idle")
      BY <1>5, ForgetDelivers DEF RevokeForPurge, BInv
    <2>2. TypeOK'
      BY <1>5, <2>1, <1>1, <1>2, <1>3 DEF BInv, TypeOK, Delivers, Revoked
    <2>3. LeasesHeld'
      BY <1>5, <2>1, <1>1, <1>2 DEF BInv, LeasesHeld
    <2>4. WritersKnown'
      BY <1>5, <1>1, <1>2 DEF BInv, WritersKnown
    <2>5. SessionsKnown'
      BY <1>5, <2>1, <1>1, <1>2 DEF BInv, SessionsKnown, OneEngineSession, At
    <2>6. AttemptsCounted'
      BY <1>5, <1>1, <1>2 DEF BInv, AttemptsCounted, OneAttempt, SessionsKnown
    <2>7. NotProvisioned'
      BY <1>5, <2>1, <1>1, <1>2 DEF BInv, NotProvisioned, NothingStarted, At
    <2>8. NothingStarted /\ tombstone # "none" => NothingStarted'
      BY <1>5, <2>1, <1>1, <1>2 DEF BInv, NothingStarted, At
    <2>9. PurgersKnow'
      BY <1>5, <2>1, <1>1, <1>2 DEF BInv, PurgersKnow, PurgeStep, Delivers
    <2>10. PurgedForGood'
      BY <1>5, <1>1, <1>2, <2>8 DEF BInv, PurgedForGood, Quiet, PrincipalFree, PrivacyRevoked
    <2>11. RevokedForGood'
      BY <1>5, <2>1, <1>1, <1>2, <2>8 DEF BInv, RevokedForGood, Delivers, RevokerStep
    <2> QED BY <2>2, <2>3, <2>4, <2>5, <2>6, <2>7, <2>9, <2>10, <2>11 DEF BInv
  <1> QED BY <1>4, <1>5

\* A revocation is delivered.
LEMMA StartRevocationKept ==
    ASSUME BInv, NEW r \in Revoker, NEW kind \in {"ordinary", "privacy"}, StartRevocation(r, kind)
    PROVE  BInv'
  <1>1. Delivers(r, "stone") /\ revoker'[r].kind = kind
    BY DEF StartRevocation, Delivers, BInv, TypeOK, RevokerStep
  <1>2. /\ UNCHANGED <<tombstone, binding, user, used, sessions, objects, signedIn, request, writer, acked, evicted, late>>
    BY DEF StartRevocation
  <1>3. /\ LeasesHeld'
        /\ WritersKnown'
        /\ SessionsKnown'
        /\ AttemptsCounted'
        /\ NotProvisioned'
        /\ PurgedForGood'
    BY <1>2 DEF BInv, LeasesHeld, WritersKnown, SessionsKnown, OneEngineSession, At,
           AttemptsCounted, OneAttempt, NotProvisioned, NothingStarted, PurgedForGood, Quiet,
           PrincipalFree,
           PrivacyRevoked
  <1>4. TypeOK'
    BY <1>1, <1>2 DEF BInv, TypeOK, Delivers
  <1>5. NothingStarted /\ tombstone # "none" => NothingStarted'
    BY <1>1, <1>2 DEF BInv, NothingStarted, At
  <1>6. PurgersKnow'
    BY <1>1, <1>2 DEF BInv, PurgersKnow, Quiet, PrincipalFree, PrivacyRevoked, PurgeStep, Delivers,
           RevokerStep
  <1>7. RevokedForGood'
    BY <1>1, <1>2, <1>5 DEF BInv, RevokedForGood, Delivers, RevokerStep
  <1> QED BY <1>3, <1>4, <1>6, <1>7 DEF BInv

\* The session's lease expires only when the request that held it has ended, the
\* principal's whenever it likes.
LEMMA LeaseExpiresKept ==
    ASSUME BInv, LeaseExpires
    PROVE  BInv'
  <1>1. CASE /\ binding' = [binding EXCEPT !.sessionLease = None]
             /\ binding.sessionLease # None /\ At(binding.sessionLease, "done")
    <2>1. /\ binding' = [binding EXCEPT !.sessionLease = None]
          /\ binding.sessionLease # None /\ request[binding.sessionLease].pc = "done"
          /\ UNCHANGED <<tombstone, user, used, sessions, objects, signedIn, request, writer, revoker, acked, evicted, late>>
      BY <1>1 DEF LeaseExpires, At
    <2>2. TypeOK'
      BY <2>1 DEF BInv, TypeOK, RequestPc, RequestType, Moves, HoldingSession,
             PrincipalStep, CreatorStep, ExchangeStep
    <2>3. LeasesHeld'
      BY <2>1 DEF BInv, LeasesHeld, Moves, Request, HoldingSession, PrincipalStep,
             CreatorStep, ExchangeStep
    <2>4. WritersKnown'
      BY <2>1 DEF BInv, WritersKnown
    <2>5. SessionsKnown'
      BY <2>1 DEF BInv, SessionsKnown, OneEngineSession, At, Moves, Request, HoldingSession,
             PrincipalStep, CreatorStep, ExchangeStep
    <2>6. AttemptsCounted'
      BY <2>1 DEF BInv, AttemptsCounted, OneAttempt, SessionsKnown
    <2>7. NotProvisioned'
      BY <2>1 DEF BInv, NotProvisioned, NothingStarted, At, Moves, Request, HoldingSession,
             PrincipalStep, CreatorStep, ExchangeStep
    <2>8. NothingStarted /\ tombstone # "none" => NothingStarted'
      BY <2>1 DEF BInv, NothingStarted, At, Moves, Request, HoldingSession,
             PrincipalStep, CreatorStep, ExchangeStep
    <2>9. PurgersKnow'
      BY <2>1 DEF BInv, PurgersKnow, Quiet, PrincipalFree, PrivacyRevoked, PurgeStep
    <2>10. PurgedForGood'
      BY <2>1, <2>8 DEF BInv, PurgedForGood, Quiet, PrincipalFree, PrivacyRevoked
    <2>11. RevokedForGood'
      BY <2>1, <2>8 DEF BInv, RevokedForGood
    <2> QED BY <2>2, <2>3, <2>4, <2>5, <2>6, <2>7, <2>9, <2>10, <2>11 DEF BInv
  <1>2. CASE ~PrincipalFree /\ binding' = [binding EXCEPT !.principalExpired = TRUE]
    <2>1. /\ ~PrincipalFree /\ binding' = [binding EXCEPT !.principalExpired = TRUE]
          /\ UNCHANGED <<tombstone, user, used, sessions, objects, signedIn, request, writer, revoker, acked, evicted, late>>
      BY <1>2 DEF LeaseExpires, At
    <2>2. TypeOK'
      BY <2>1 DEF BInv, TypeOK, RequestPc, RequestType, Moves, HoldingSession,
             PrincipalStep, CreatorStep, ExchangeStep
    <2>3. LeasesHeld'
      BY <2>1 DEF BInv, LeasesHeld, Moves, Request, HoldingSession, PrincipalStep,
             CreatorStep, ExchangeStep
    <2>4. WritersKnown'
      BY <2>1 DEF BInv, WritersKnown
    <2>5. SessionsKnown'
      BY <2>1 DEF BInv, SessionsKnown, OneEngineSession, At, Moves, Request, HoldingSession,
             PrincipalStep, CreatorStep, ExchangeStep
    <2>6. AttemptsCounted'
      BY <2>1 DEF BInv, AttemptsCounted, OneAttempt, SessionsKnown
    <2>7. NotProvisioned'
      BY <2>1 DEF BInv, NotProvisioned, NothingStarted, At, Moves, Request, HoldingSession,
             PrincipalStep, CreatorStep, ExchangeStep
    <2>8. NothingStarted /\ tombstone # "none" => NothingStarted'
      BY <2>1 DEF BInv, NothingStarted, At, Moves, Request, HoldingSession,
             PrincipalStep, CreatorStep, ExchangeStep
    <2>9. PurgersKnow'
      BY <2>1 DEF BInv, PurgersKnow, Quiet, PrincipalFree, PrivacyRevoked, PurgeStep
    <2>10. PurgedForGood'
      BY <2>1, <2>8 DEF BInv, PurgedForGood, Quiet, PrincipalFree, PrivacyRevoked
    <2>11. RevokedForGood'
      BY <2>1, <2>8 DEF BInv, RevokedForGood
    <2> QED BY <2>2, <2>3, <2>4, <2>5, <2>6, <2>7, <2>9, <2>10, <2>11 DEF BInv
  <1> QED BY <1>1, <1>2 DEF LeaseExpires

\* The drain ends when no capability is usable.
LEMMA DrainExpiresKept ==
    ASSUME BInv, DrainExpires
    PROVE  BInv'
  <1>1. /\ binding' = [binding EXCEPT !.drain = FALSE]
        /\ \A w \in Writer : writer[w] \notin {"minting", "usable"}
        /\ UNCHANGED <<tombstone, user, used, sessions, objects, signedIn, request, writer, revoker, acked, evicted, late>>
    BY DEF DrainExpires
  <1>2. TypeOK'
    BY <1>1 DEF BInv, TypeOK
  <1>3. LeasesHeld'
    BY <1>1 DEF BInv, LeasesHeld
  <1>4. WritersKnown'
    BY <1>1 DEF BInv, WritersKnown
  <1>5. SessionsKnown'
    BY <1>1 DEF BInv, SessionsKnown, OneEngineSession, At
  <1>6. AttemptsCounted'
    BY <1>1 DEF BInv, AttemptsCounted, OneAttempt, SessionsKnown
  <1>7. NotProvisioned'
    BY <1>1 DEF BInv, NotProvisioned, NothingStarted, At
  <1>8. NothingStarted /\ tombstone # "none" => NothingStarted'
    BY <1>1 DEF BInv, NothingStarted, At
  <1>9. PurgersKnow'
    BY <1>1 DEF BInv, PurgersKnow, Quiet, PrincipalFree, PrivacyRevoked, PurgeStep
  <1>10. PurgedForGood'
    BY <1>1, <1>8 DEF BInv, PurgedForGood, Quiet, PrincipalFree, PrivacyRevoked
  <1>11. RevokedForGood'
    BY <1>1, <1>8 DEF BInv, RevokedForGood
  <1> QED BY <1>2, <1>3, <1>4, <1>5, <1>6, <1>7, <1>9, <1>10, <1>11 DEF BInv

\* The invariant is inductive.
LEMMA BNext ==
    ASSUME BInv, [Next]_bindingVars
    PROVE  BInv'
  <1>1. ASSUME NEW q \in Request, PrincipalNext(q) \/ Crash(q)
        PROVE  BInv'
    BY <1>1, ClaimPrincipalKept, CheckTombstoneKept, UpsertPrincipalKept, RecheckPrincipalKept,
       DiscardPrincipalKept, ReleasePrincipalKept, CrashKept
       DEF PrincipalNext
  <1>2. ASSUME NEW q \in Exchange, ExchangeNext(q)
        PROVE  BInv'
    BY <1>2, StartExchangeKept, ProvisionKept, CloseRaceKept, ActivateKept, SignInKept
       DEF ExchangeNext
  <1>3. ASSUME NEW c \in Creator, CreatorNext(c)
        PROVE  BInv'
    BY <1>3, AcquireSessionLeaseKept, ChargeQuotaKept, InsertSessionKept, AttachSessionKept,
       DiscardLateSessionKept, AdoptLateSessionKept, ReleaseSessionLeaseKept
       DEF CreatorNext
  <1>4. ASSUME NEW w \in Writer, WriterNext(w)
        PROVE  BInv'
    BY <1>4, ClaimCapabilityKept, RecordCapabilityKept, UploadKept, EndWriterKept DEF WriterNext
  <1>5. ASSUME NEW r \in Revoker, RevokerNext(r)
        PROVE  BInv'
    BY <1>5, WriteTombstoneKept, MarkPurgeKept, RevokeForPurgeKept, RevokeAccessKept,
       NothingProvisionedKept, LimitUserKept, FenceUserKept, PurgeObjectsKept, PurgeRowsKept,
       PurgeUserKept, ScrubBindingKept, CompletePurgeKept, AbortRevocationKept, StartRevocationKept
       DEF RevokerNext, Revoke
  <1>6. CASE LeaseExpires \/ DrainExpires
    BY <1>6, LeaseExpiresKept, DrainExpiresKept
  <1>7. CASE UNCHANGED bindingVars
    BY <1>7 DEF bindingVars, BInv, TypeOK, LeasesHeld, WritersKnown, SessionsKnown, AttemptsCounted,
           OneAttempt,
                OneEngineSession, NotProvisioned, NothingStarted, PurgersKnow, PurgedForGood,
                RevokedForGood,
                Quiet, PrincipalFree, PrivacyRevoked, At
  <1> QED BY <1>1, <1>2, <1>3, <1>4, <1>5, <1>6, <1>7 DEF Next

\* So it holds always.
LEMMA BInvariant == Spec => []BInv
  <1>1. BInv /\ [Next]_bindingVars => BInv'
    BY BNext
  <1> QED BY <1>1, BInit, PTL DEF Spec

-----------------------------------------------------------------------------

\* From the deletion of the user on, and for good once the purge is acknowledged.
Purged == tombstone = "completed" \/ \E r \in Revoker : revoker[r].pc \in {"scrub", "complete"}

\* The steps of a request between a late write of the user and its deletion.
LatePc == {"recheck", "discardUser", "done"}

\* Who brings the user back after its deletion has lost the lease, and goes on
\* to delete it, unless it is killed.
UserInv ==
    /\ user = "absent" => late = {}
    /\ Purged /\ user # "absent" => late # {} /\ \A q \in late : request[q].pc \in LatePc

\* The user is deleted when nothing can change any more, or nothing ever was.
LEMMA PurgedQuiet == ASSUME BInv, Purged PROVE Quiet \/ NothingStarted
  BY DEF BInv, Purged, PurgersKnow, PurgeStep, PurgedForGood

\* A request that does not touch the user may not leave its late steps.
LEMMA UserUntouched ==
    ASSUME BInv, UserInv, NEW q \in Request, UNCHANGED <<tombstone, user, revoker, late>>,
           \A o \in Request \ {q} : request'[o] = request[o],
           Purged /\ user # "absent" /\ request[q].pc \in LatePc => request'[q].pc \in LatePc
    PROVE  UserInv'
  BY DEF UserInv, Purged, BInv, TypeOK

\* A request deletes the user.
LEMMA UserDeleted ==
    ASSUME user' = "absent", late' = {} PROVE UserInv'
  BY DEF UserInv

\* The user is written: if it had been deleted, by a request without its lease,
\* which looks again next.
LEMMA UserWritten ==
    ASSUME BInv, UserInv, NEW q \in Request, UpsertPrincipal(q)
    PROVE  UserInv'
  <1>1. /\ user' = "active" /\ UNCHANGED <<tombstone, revoker, binding>>
        /\ late' = IF binding.principalLease = q /\ ~binding.principalExpired THEN late ELSE late \cup {q}
        /\ request[q].pc = "upsert"
    BY DEF UpsertPrincipal, At
  <1>2. request'[q].pc = "recheck" /\ \A o \in Request \ {q} : request'[o] = request[o]
    BY GotoMoves DEF UpsertPrincipal, RequestPc, PrincipalStep, Moves, BInv
  <1>3. ~NothingStarted
    BY <1>1, BindingAssumption DEF NothingStarted, Request, At
  <1>4. CASE Purged
    <2>1. PrincipalFree
      BY <1>3, <1>4, PurgedQuiet DEF Quiet
    <2>2. late' = late \cup {q}
      BY <1>1, <2>1, BindingAssumption DEF PrincipalFree, Request
    <2>3. late \subseteq Request /\ \A o \in late : request[o].pc \in LatePc
      BY <1>4 DEF UserInv, BInv, TypeOK
    <2> QED BY <1>1, <1>2, <2>2, <2>3 DEF UserInv, LatePc
  <1>5. CASE ~Purged
    BY <1>1, <1>5 DEF UserInv, Purged
  <1> QED BY <1>4, <1>5

\* The other steps of a request leave the user alone.
LEMMA UserKeptByRequest ==
    ASSUME BInv, UserInv, NEW q \in Request, PrincipalNext(q) \/ Crash(q)
    PROVE  UserInv'
  <1>1. CASE ClaimPrincipal(q)
    BY <1>1, UserUntouched DEF ClaimPrincipal, Goto, At, LatePc, BInv, TypeOK
  <1>2. CASE CheckTombstone(q)
    BY <1>2, UserUntouched DEF CheckTombstone, Goto, At, LatePc, BInv, TypeOK
  <1>3. CASE RecheckPrincipal(q)
    <2>1. ASSUME Purged
          PROVE  ~Live
      <3>1. ~NothingStarted
        BY <1>3, BindingAssumption DEF RecheckPrincipal, NothingStarted, Request, At
      <3> QED BY <2>1, <3>1, PurgedQuiet DEF Quiet, PrivacyRevoked, Live
    <2> QED BY <1>3, <2>1, UserUntouched DEF RecheckPrincipal, Goto, At, LatePc, BInv, TypeOK
  <1>4. CASE DiscardPrincipal(q)
    BY <1>4, UserDeleted DEF DiscardPrincipal
  <1>5. CASE ReleasePrincipal(q)
    BY <1>5, UserUntouched DEF ReleasePrincipal, Goto, At, LatePc, BInv, TypeOK
  <1>6. CASE Crash(q)
    BY <1>6, UserUntouched DEF Crash, Goto, At, LatePc, BInv, TypeOK
  <1> QED BY <1>1, <1>2, <1>3, <1>4, <1>5, <1>6, UserWritten DEF PrincipalNext

\* So do those of an exchange,
LEMMA UserKeptByExchange ==
    ASSUME BInv, UserInv, NEW q \in Exchange, ExchangeNext(q)
    PROVE  UserInv'
  <1>1. q \in Request
    BY DEF Request
  <1>2. /\ UNCHANGED <<tombstone, user, revoker, late>>
        /\ request[q].pc \notin LatePc
    BY DEF ExchangeNext, StartExchange, Provision, CloseRace, Activate, SignIn, At, LatePc
  <1>3. \E pc \in RequestPc : Goto(q, pc)
    BY DEF ExchangeNext, StartExchange, Provision, CloseRace, Activate, SignIn, RequestPc,
           PrincipalStep, ExchangeStep
  <1>4. \A o \in Request \ {q} : request'[o] = request[o]
    BY <1>1, <1>3 DEF Goto, BInv, TypeOK
  <1> QED BY <1>1, <1>2, <1>4, UserUntouched

\* and of a creator, except that it may delete the user with its late session.
LEMMA UserKeptByCreator ==
    ASSUME BInv, UserInv, NEW c \in Creator, CreatorNext(c)
    PROVE  UserInv'
  <1>1. c \in Request
    BY DEF Request
  <1>2. \/ user' = "absent" /\ late' = {}
        \/ UNCHANGED <<user, late>>
    BY DEF CreatorNext, AcquireSessionLease, ChargeQuota, InsertSession, AttachSession,
           DiscardLateSession, AdoptLateSession, ReleaseSessionLease, Discard
  <1>3. /\ UNCHANGED <<tombstone, revoker>>
        /\ request[c].pc \notin LatePc
    BY DEF CreatorNext, AcquireSessionLease, ChargeQuota, InsertSession, AttachSession,
           DiscardLateSession, AdoptLateSession, ReleaseSessionLease, At, LatePc
  <1>4. \A o \in Request \ {c} : request'[o] = request[o]
    BY <1>1 DEF CreatorNext, AcquireSessionLease, ChargeQuota, InsertSession, AttachSession,
           DiscardLateSession, AdoptLateSession, ReleaseSessionLease, Goto, BInv, TypeOK
  <1> QED BY <1>1, <1>2, <1>3, <1>4, UserUntouched, UserDeleted

\* A delivery deletes the user before the purge counts as done.
LEMMA UserKeptByRevoker ==
    ASSUME BInv, UserInv, NEW r \in Revoker, RevokerNext(r)
    PROVE  UserInv'
  <1>1. UNCHANGED request
    BY DEF RevokerNext, Revoke, AbortRevocation, StartRevocation, WriteTombstone, MarkPurge,
           RevokeForPurge, RevokeAccess, NothingProvisioned, LimitUser, FenceUser, PurgeObjects,
           PurgeRows, PurgeUser, ScrubBinding, CompletePurge
  <1>2. CASE PurgeUser(r)
    <2>1. CASE user \in {"absent", "deleting"}
      BY <1>2, <2>1, UserDeleted DEF PurgeUser
    <2>2. CASE user \notin {"absent", "deleting"}
      BY <1>1, <1>2, <2>2, ForgetDelivers DEF PurgeUser, Delivers, UserInv, Purged, BInv
    <2> QED BY <2>1, <2>2
  <1>3. CASE NothingProvisioned(r)
    BY <1>3 DEF NothingProvisioned, BInv, NotProvisioned, NothingStarted, UserInv
  <1>4. ASSUME UNCHANGED tombstone, UNCHANGED late, (user' = "absent") <=> (user = "absent"),
               NEW pc \in {"idle"} \cup RevokerStep, Delivers(r, pc),
               pc \in {"scrub", "complete"} => revoker[r].pc \in {"scrub", "complete"}
        PROVE  UserInv'
    BY <1>1, <1>4 DEF Delivers, UserInv, Purged
  <1>5. CASE WriteTombstone(r) \/ MarkPurge(r) \/ CompletePurge(r)
    <2>1. (user' = "absent") <=> (user = "absent")
      BY <1>5 DEF WriteTombstone, MarkPurge, CompletePurge
    <2>2. UNCHANGED late /\ UNCHANGED user
      BY <1>5 DEF WriteTombstone, MarkPurge, CompletePurge
    <2>3. Purged' => Purged
      BY <1>5 DEF WriteTombstone, MarkPurge, CompletePurge, Purged, Step, Forget, IdleRevoker,
             BInv, TypeOK
    <2> QED BY <1>1, <2>2, <2>3 DEF UserInv
  <1>6. CASE RevokeForPurge(r)
    <2>1. Delivers(r, "fence") \/ Delivers(r, "idle")
      BY <1>6, ForgetDelivers DEF RevokeForPurge, Delivers, BInv, TypeOK, RevokerStep
    <2> QED BY <1>4, <1>6, <2>1 DEF RevokeForPurge, RevokerStep
  <1>7. CASE RevokeAccess(r) \/ FenceUser(r) \/ PurgeObjects(r) \/ PurgeRows(r)
    <2>1. \E pc \in {"limit", "objects", "rows", "user"} : Step(r, pc)
      BY <1>7 DEF RevokeAccess, FenceUser, PurgeObjects, PurgeRows
    <2>2. PICK pc \in {"limit", "objects", "rows", "user"} : Delivers(r, pc)
      BY <2>1, StepDelivers DEF BInv, RevokerStep
    <2> QED BY <1>4, <1>7, <2>2 DEF RevokeAccess, FenceUser, PurgeObjects, PurgeRows, RevokerStep
  <1>8. CASE LimitUser(r) \/ AbortRevocation(r)
    BY <1>4, <1>8, ForgetDelivers DEF LimitUser, AbortRevocation, BInv
  <1>9. CASE ScrubBinding(r)
    BY <1>4, <1>9, StepDelivers DEF ScrubBinding, RevokerStep, BInv
  <1>10. ASSUME NEW kind \in {"ordinary", "privacy"}, StartRevocation(r, kind)
         PROVE  UserInv'
    <2>1. Delivers(r, "stone")
      BY <1>10 DEF StartRevocation, Delivers, BInv, TypeOK, RevokerStep
    <2> QED BY <1>4, <1>10, <2>1 DEF StartRevocation, RevokerStep
  <1> QED BY <1>2, <1>3, <1>5, <1>6, <1>7, <1>8, <1>9, <1>10 DEF RevokerNext, Revoke

\* It is inductive, given what is known of the binding.
LEMMA UserInvariant == Spec => []UserInv
  <1>1. Init => UserInv
    BY DEF Init, UserInv
  <1>2. ASSUME BInv, UserInv, [Next]_bindingVars
        PROVE  UserInv'
    <2>1. ASSUME NEW w \in Writer, WriterNext(w)
          PROVE  UserInv'
      BY <1>2, <2>1 DEF WriterNext, ClaimCapability, RecordCapability, Upload, EndWriter, UserInv,
             Purged
    <2>2. CASE LeaseExpires \/ DrainExpires \/ UNCHANGED bindingVars
      BY <1>2, <2>2 DEF LeaseExpires, DrainExpires, bindingVars, UserInv, Purged
    <2> QED BY <1>2, <2>1, <2>2, UserKeptByRequest, UserKeptByExchange, UserKeptByCreator,
               UserKeptByRevoker DEF Next
  <1> QED BY <1>1, <1>2, BInvariant, PTL DEF Spec

-----------------------------------------------------------------------------

\* The documents of the binding keep their types: TypeOK.
THEOREM BindingTypeCorrect == Spec => []TypeOK
  <1>1. BInv => TypeOK
    BY DEF BInv
  <1> QED BY <1>1, BInvariant, PTL

\* However many creations are interrupted, killed and repeated, an interview has
\* one engine session.
THEOREM InterviewHasOneSession == Spec => []OneEngineSession
  <1>1. BInv => OneEngineSession
    BY DEF BInv, SessionsKnown
  <1> QED BY <1>1, BInvariant, PTL

\* The binding counts one attempt, whatever its creators and revocations do, and
\* until a purge the session it names exists.
THEOREM BindingCountsOneAttempt == Spec => []OneAttempt
  <1>1. BInv => OneAttempt
    BY DEF BInv, AttemptsCounted
  <1> QED BY <1>1, BInvariant, PTL

\* An acknowledged purge has left nothing of the candidate, and nothing can
\* arrive any more, except the session of a creator whose lease was taken away,
\* and the user row, while whoever wrote it after losing its lease is about to
\* look again and delete it, or was killed before.
THEOREM PurgeLeavesNothing == Spec => []PurgedMeansGone
  <1>1. ASSUME BInv, UserInv, tombstone = "completed"
        PROVE  PurgedMeansGone
    <2>1. objects = {} /\ sessions \subseteq evicted /\ binding.session = None
      BY <1>1 DEF BInv, PurgedForGood
    <2>2. user # "absent" => late # {} /\ \A q \in late : request[q].pc \in {"recheck", "discardUser", "done"}
      BY <1>1 DEF UserInv, Purged, LatePc
    <2>3. CASE Quiet
      <3>1. \A w \in Writer : writer[w] # "usable"
        BY <1>1, <2>3 DEF BInv, WritersKnown, Quiet
      <3>2. \A c \in Creator \ evicted : request[c].pc \notin {"insert", "attach", "adopt", "discard"}
        BY <1>1, <2>3, BindingAssumption DEF BInv, LeasesHeld, Quiet, HoldingSession, CreatorStep
      <3> QED BY <2>1, <2>2, <3>1, <3>2 DEF PurgedMeansGone
    <2>4. CASE NothingStarted
      BY <2>1, <2>4 DEF PurgedMeansGone, NothingStarted, At
    <2> QED BY <1>1, <2>3, <2>4 DEF BInv, PurgedForGood
  <1>2. BInv /\ UserInv => PurgedMeansGone
    BY <1>1 DEF PurgedMeansGone
  <1> QED BY <1>2, BInvariant, UserInvariant, PTL

\* After an acknowledged revocation nobody logs in, and no session lease, capability
\* or activation is given, although tombstone, binding and user are three documents.
THEOREM RevocationIsFinal == Spec => AcknowledgedRevocationIsFinal
  <1> DEFINE Final == /\ signedIn' = signedIn
                      /\ binding'.sessionLease \in {binding.sessionLease, None}
                      /\ binding'.capabilities \subseteq binding.capabilities
                      /\ (binding'.status = "active" => binding.status = "active")
  <1>1. ASSUME BInv, [Next]_bindingVars, acked # {}
        PROVE  Final
    <2>1. tombstone # "none" /\ (binding.status = "revoked" \/ NothingStarted)
      BY <1>1 DEF BInv, RevokedForGood
    <2>2. ASSUME NEW q \in Request, PrincipalNext(q) \/ Crash(q)
          PROVE  Final
      BY <1>1, <2>2 DEF BInv, TypeOK, PrincipalNext, Crash, ClaimPrincipal, CheckTombstone,
             UpsertPrincipal, RecheckPrincipal, DiscardPrincipal, ReleasePrincipal
    <2>3. ASSUME NEW q \in Exchange, ExchangeNext(q)
          PROVE  Final
      BY <1>1, <2>1, <2>3 DEF BInv, TypeOK, NotProvisioned, NothingStarted, At, Live, NoBinding,
             ExchangeNext, StartExchange, Provision, CloseRace, Activate, SignIn
    <2>4. ASSUME NEW c \in Creator, CreatorNext(c)
          PROVE  Final
      BY <1>1, <2>1, <2>4 DEF BInv, TypeOK, NothingStarted, At, Live, CreatorNext,
             AcquireSessionLease, ChargeQuota, InsertSession, AttachSession, DiscardLateSession,
             AdoptLateSession, ReleaseSessionLease
    <2>5. ASSUME NEW w \in Writer, WriterNext(w)
          PROVE  Final
      BY <1>1, <2>1, <2>5 DEF BInv, TypeOK, NothingStarted, Live, WriterNext, ClaimCapability,
             RecordCapability, Upload, EndWriter
    <2>6. ASSUME NEW r \in Revoker, RevokerNext(r)
          PROVE  Final
      BY <1>1, <2>6 DEF BInv, TypeOK, Revoked, RevokerNext, Revoke, AbortRevocation,
             StartRevocation, WriteTombstone, MarkPurge, RevokeForPurge, RevokeAccess,
             NothingProvisioned, LimitUser, FenceUser, PurgeObjects, PurgeRows, PurgeUser,
             ScrubBinding, CompletePurge
    <2>7. CASE LeaseExpires \/ DrainExpires
      BY <1>1, <2>7 DEF BInv, TypeOK, LeaseExpires, DrainExpires
    <2>8. CASE UNCHANGED bindingVars
      BY <2>8 DEF bindingVars
    <2> QED BY <1>1, <2>2, <2>3, <2>4, <2>5, <2>6, <2>7, <2>8 DEF Next
  <1>2. BInv /\ [Next]_bindingVars => [acked # {} => Final]_bindingVars
    BY <1>1
  <1> QED BY <1>2, BInvariant, PTL DEF Spec, AcknowledgedRevocationIsFinal
=============================================================================
