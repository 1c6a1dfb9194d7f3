--------------------------- MODULE RuntimeBinding ---------------------------
(***************************************************************************)
(* The runtime binding of one AI round, from the exchange of a handoff to  *)
(* the verified deletion of the candidate's runtime data:                  *)
(*   modules/hire-runtime/services/bindingService.ts, revocationService.ts,*)
(*   runtimePrincipalService.ts, runtimePersonalDataPurge.ts,              *)
(*   runtimeWriteFence.ts, and the routes that call them.                  *)
(*                                                                         *)
(* A request is a process; each database operation is one step, and a      *)
(* request may be killed between any two.  The runtime and MongoDB share   *)
(* no transaction here: the tombstone, the binding, the engine's user and  *)
(* its sessions are separate documents.                                    *)
(*                                                                         *)
(* Time is only what the code's constants promise: a session request ends  *)
(* within 300 s and its lease lasts 360 s, and a write capability is dead  *)
(* before the drain horizon its claim set.  Such a lease or drain counts   *)
(* as absent once it ran out, so running out clears it.  Nothing bounds    *)
(* who holds the principal's lease of 60 s: it may run out at any time,    *)
(* and its token stays on the binding until somebody else claims it.       *)
(***************************************************************************)
EXTENDS Naturals

CONSTANTS
    Exchange,       \* requests of the handoff exchange route
    Creator,        \* requests of the session creation route
    Writer,         \* requests for a storage capability, each with its upload
    Revoker,        \* slots for deliveries of a revocation
    Failing,        \* bound: the slots whose deliveries may be killed or fail
    Limit,          \* HIRE_RUNTIME_INTERVIEW_LIMIT
    None

ASSUME BindingAssumption ==
    /\ None \notin Exchange \cup Creator \cup Writer \cup Revoker
    /\ Exchange \cap Creator = {}
    /\ Failing \subseteq Revoker
    /\ Limit \in Nat \ {0}

VARIABLES
    tombstone,  \* HireRuntimeRevocation: purgePersonalData and purgeStatus
    binding,    \* HireRuntimeBinding
    user,       \* the synthetic User row: accountState, quota left by a revocation
    used,       \* User.monthlyInterviewsUsed
    sessions,   \* InterviewSession rows of the principal, named by their creator
    objects,    \* uploads in the runtime's storage, named by their writer
    signedIn,   \* the candidate's browser holds a runtime login
    request,    \* exchanges and session creations in flight
    writer,     \* capabilities in flight
    revoker,    \* revocation deliveries in flight
    acked,      \* the revocations the control plane has been told are done
    evicted,    \* history: creators whose lease an ordinary revocation took
    late        \* history: requests that wrote the user row, since it was last
                \* absent, without a lease that was still good

bindingVars == <<tombstone, binding, user, used, sessions, objects, signedIn,
                 request, writer, revoker, acked, evicted, late>>

Request == Exchange \cup Creator

NoBinding ==
    [status |-> "absent", session |-> None, attempts |-> 0, sessionLease |-> None,
     principalLease |-> None, principalExpired |-> FALSE, purge |-> FALSE, drain |-> FALSE, capabilities |-> {}]

IdleRequest == [pc |-> "idle", session |-> None]
IdleRevoker == [pc |-> "idle", kind |-> "none", purge |-> FALSE, keys |-> {}]

PrincipalStep == {"claim", "check", "upsert", "recheck", "discardUser", "keepRelease", "dropRelease"}
ExchangeStep == {"provision", "closeRace", "activate", "ticket"}
CreatorStep == {"quota", "insert", "attach", "discard", "adopt", "unlease"}
RevokerStep == {"stone", "mark", "binding", "limit", "fence", "objects", "rows", "user", "scrub", "complete"}

TypeOK ==
    /\ tombstone \in {"none", "revoked", "pending", "completed"}
    /\ binding \in [status : {"absent", "provisioned", "active", "revoked"},
                    session : Creator \cup {None},
                    attempts : Nat,
                    sessionLease : Creator \cup {None},
                    principalLease : Request \cup {None},
                    principalExpired : BOOLEAN,
                    purge : BOOLEAN,
                    drain : BOOLEAN,
                    capabilities : SUBSET Writer]
    /\ user \in {"absent", "active", "limited", "deleting"}
    /\ used \in 0 .. Limit
    /\ sessions \in SUBSET Creator
    /\ objects \in SUBSET Writer
    /\ signedIn \in BOOLEAN
    /\ request \in [Request -> [pc : {"idle", "done"} \cup PrincipalStep \cup ExchangeStep \cup CreatorStep,
                                session : Creator \cup {None}]]
    /\ writer \in [Writer -> {"idle", "minting", "usable", "done"}]
    /\ revoker \in [Revoker -> [pc : {"idle"} \cup RevokerStep,
                                kind : {"none", "ordinary", "privacy"},
                                purge : BOOLEAN,
                                keys : SUBSET Writer]]
    /\ acked \in SUBSET {"ordinary", "privacy"}
    /\ evicted \in SUBSET Creator
    /\ late \in SUBSET Request

Init ==
    /\ tombstone = "none"
    /\ binding = NoBinding
    /\ user = "absent"
    /\ used = 0
    /\ sessions = {}
    /\ objects = {}
    /\ signedIn = FALSE
    /\ request = [q \in Request |-> IdleRequest]
    /\ writer = [w \in Writer |-> "idle"]
    /\ revoker = [r \in Revoker |-> IdleRevoker]
    /\ acked = {}
    /\ evicted = {}
    /\ late = {}

\* status in (provisioned, active) and no revokedAt.
Live == binding.status \in {"provisioned", "active"}

At(q, pc) == request[q].pc = pc
Goto(q, pc) ==
    request' = [request EXCEPT ![q] =
                   [pc |-> pc, session |-> IF pc \in {"unlease", "done"} THEN None ELSE @.session]]

-----------------------------------------------------------------------------
(* ensureRuntimePrincipal: the steps both routes share. *)

\* The route goes on with the principal, or gives up without one.
AfterPrincipal(q) == IF q \in Creator THEN "quota" ELSE "activate"
WithoutPrincipal(q) == IF q \in Creator THEN "unlease" ELSE "done"

\* Nobody's lease is still good, as the claim and the purge look at it.
PrincipalFree == binding.principalLease = None \/ binding.principalExpired

\* The principal lease is claimed on a live binding, perhaps over an expired one.
ClaimPrincipal(q) ==
    /\ At(q, "claim")
    /\ IF Live /\ ~binding.purge /\ PrincipalFree
       THEN /\ binding' = [binding EXCEPT !.principalLease = q, !.principalExpired = FALSE]
            /\ Goto(q, "check")
       ELSE /\ Goto(q, WithoutPrincipal(q))
            /\ UNCHANGED binding
    /\ UNCHANGED <<tombstone, user, used, sessions, objects, signedIn, writer, revoker, acked, evicted, late>>

CheckTombstone(q) ==
    /\ At(q, "check")
    /\ Goto(q, IF tombstone = "none" THEN "upsert" ELSE "dropRelease")
    /\ UNCHANGED <<tombstone, binding, user, used, sessions, objects, signedIn, writer, revoker, acked, evicted, late>>

\* The upsert reactivates the row and restores its quota, whether the lease is
\* still good or not.
UpsertPrincipal(q) ==
    /\ At(q, "upsert")
    /\ user' = "active"
    /\ late' = IF binding.principalLease = q /\ ~binding.principalExpired THEN late ELSE late \cup {q}
    /\ used' = IF user = "absent" THEN 0 ELSE used
    /\ Goto(q, "recheck")
    /\ UNCHANGED <<tombstone, binding, sessions, objects, signedIn, writer, revoker, acked, evicted>>

\* The binding and the tombstone are read again; the token counts, expired or
\* not.  Both only ever turn revoked and the token is never given back, so the
\* two reads see what one read at the later of them would.
RecheckPrincipal(q) ==
    /\ At(q, "recheck")
    /\ Goto(q, IF Live /\ ~binding.purge /\ binding.principalLease = q /\ tombstone = "none"
               THEN "keepRelease" ELSE "discardUser")
    /\ UNCHANGED <<tombstone, binding, user, used, sessions, objects, signedIn, writer, revoker, acked, evicted, late>>

DiscardPrincipal(q) ==
    /\ At(q, "discardUser")
    /\ user' = "absent"
    /\ late' = {}
    /\ Goto(q, "dropRelease")
    /\ UNCHANGED <<tombstone, binding, used, sessions, objects, signedIn, writer, revoker, acked, evicted>>

\* finally: the lease is given back, whatever the outcome.
ReleasePrincipal(q) ==
    /\ request[q].pc \in {"keepRelease", "dropRelease"}
    /\ binding' = IF binding.principalLease = q
                  THEN [binding EXCEPT !.principalLease = None, !.principalExpired = FALSE] ELSE binding
    /\ Goto(q, IF At(q, "keepRelease") THEN AfterPrincipal(q) ELSE WithoutPrincipal(q))
    /\ UNCHANGED <<tombstone, user, used, sessions, objects, signedIn, writer, revoker, acked, evicted, late>>

-----------------------------------------------------------------------------
(* POST hire-engine/handoff/exchange. *)

\* provisionRuntimeBinding looks for the tombstone first.
StartExchange(q) ==
    /\ At(q, "idle")
    /\ Goto(q, IF tombstone = "none" THEN "provision" ELSE "done")
    /\ UNCHANGED <<tombstone, binding, user, used, sessions, objects, signedIn, writer, revoker, acked, evicted, late>>

\* The binding is found or created; a concurrent creation is found.
Provision(q) ==
    /\ At(q, "provision")
    /\ \/ /\ binding.status = "absent"
          /\ binding' = [NoBinding EXCEPT !.status = "provisioned"]
          /\ Goto(q, "closeRace")
       \/ /\ binding.status # "absent"
          /\ Goto(q, IF binding.status = "revoked" THEN "done" ELSE "claim")
          /\ UNCHANGED binding
    /\ UNCHANGED <<tombstone, user, used, sessions, objects, signedIn, writer, revoker, acked, evicted, late>>

\* After its own insert, the exchange looks for the tombstone again.
CloseRace(q) ==
    /\ At(q, "closeRace")
    /\ IF tombstone = "none"
       THEN Goto(q, "claim") /\ UNCHANGED binding
       ELSE Goto(q, "done") /\ binding' = [binding EXCEPT !.status = "revoked"]
    /\ UNCHANGED <<tombstone, user, used, sessions, objects, signedIn, writer, revoker, acked, evicted, late>>

Activate(q) ==
    /\ At(q, "activate")
    /\ IF Live
       THEN Goto(q, "ticket") /\ binding' = [binding EXCEPT !.status = "active"]
       ELSE Goto(q, "done") /\ UNCHANGED binding
    /\ UNCHANGED <<tombstone, user, used, sessions, objects, signedIn, writer, revoker, acked, evicted, late>>

\* The login ticket is issued and redeemed (module EngineHandoff), which a
\* binding that is no longer live refuses.
SignIn(q) ==
    /\ At(q, "ticket")
    /\ signedIn' = (signedIn \/ (Live /\ ~binding.purge))
    /\ Goto(q, "done")
    /\ UNCHANGED <<tombstone, binding, user, used, sessions, objects, writer, revoker, acked, evicted, late>>

-----------------------------------------------------------------------------
(* POST hire-engine/sessions, with the engine's createSession. *)

\* The creator takes the session lease, or answers with the session that is
\* there, or that somebody else is at work.
AcquireSessionLease(c) ==
    /\ At(c, "idle")
    /\ signedIn
    /\ IF Live /\ binding.session = None /\ binding.sessionLease = None
       THEN Goto(c, "claim") /\ binding' = [binding EXCEPT !.sessionLease = c]
       ELSE Goto(c, "done") /\ UNCHANGED binding
    /\ UNCHANGED <<tombstone, user, used, sessions, objects, signedIn, writer, revoker, acked, evicted, late>>

\* Variant with a bug: the session of an interrupted creation is not looked for.
NoOrphanLookup(c) ==
    /\ At(c, "quota")
    /\ IF user = "active" /\ used < Limit
       THEN Goto(c, "insert") /\ used' = used + 1
       ELSE Goto(c, "unlease") /\ UNCHANGED used
    /\ UNCHANGED <<tombstone, binding, user, sessions, objects, signedIn, writer, revoker, acked, evicted, late>>

\* A session an interrupted creation left behind is adopted; otherwise the
\* quota of a user that is not being deleted is charged, before the insert.
ChargeQuota(c) ==
    /\ At(c, "quota")
    /\ \/ /\ sessions # {}
          /\ \E s \in sessions : request' = [request EXCEPT ![c] = [pc |-> "attach", session |-> s]]
          /\ UNCHANGED used
       \/ /\ sessions = {}
          /\ IF user = "active" /\ used < Limit
             THEN Goto(c, "insert") /\ used' = used + 1
             ELSE Goto(c, "unlease") /\ UNCHANGED used
    /\ UNCHANGED <<tombstone, binding, user, sessions, objects, signedIn, writer, revoker, acked, evicted, late>>

\* The insert of the session row is conditional on nothing; it may fail, and
\* then the charge is taken back.
InsertSession(c) ==
    /\ At(c, "insert")
    /\ \/ /\ sessions' = sessions \cup {c}
          /\ request' = [request EXCEPT ![c] = [pc |-> "attach", session |-> c]]
          /\ UNCHANGED used
       \/ /\ used' = IF user = "absent" \/ used = 0 THEN used ELSE used - 1
          /\ Goto(c, "unlease")
          /\ UNCHANGED sessions
    /\ UNCHANGED <<tombstone, binding, user, objects, signedIn, writer, revoker, acked, evicted, late>>

\* The session is bound by the holder of the lease, once, while the round lives.
AttachSession(c) ==
    /\ At(c, "attach")
    /\ IF binding.sessionLease = c /\ binding.session = None /\ Live
       THEN /\ binding' = [binding EXCEPT !.session = request[c].session, !.status = "active",
                                          !.attempts = @ + 1, !.sessionLease = None]
            /\ Goto(c, "done")
       ELSE Goto(c, "discard") /\ UNCHANGED binding
    /\ UNCHANGED <<tombstone, user, used, sessions, objects, signedIn, writer, revoker, acked, evicted, late>>

PrivacyRevoked == binding.status = "revoked" /\ binding.purge

\* A session that lost to a privacy revocation is deleted with its user.
Discard(c) ==
    IF PrivacyRevoked
    THEN sessions' = sessions \ {request[c].session} /\ user' = "absent" /\ late' = {}
    ELSE UNCHANGED <<sessions, user, late>>

DiscardLateSession(c) ==
    /\ At(c, "discard")
    /\ Discard(c)
    /\ Goto(c, IF PrivacyRevoked THEN "unlease" ELSE "adopt")
    /\ UNCHANGED <<tombstone, binding, used, objects, signedIn, writer, revoker, acked, evicted>>

\* Variant with a bug: the late session is not counted as an attempt.
AdoptUncounted(c) ==
    /\ At(c, "adopt")
    /\ IF binding.status = "revoked" /\ ~binding.purge /\ binding.session = None
       THEN binding' = [binding EXCEPT !.session = request[c].session] /\ UNCHANGED <<sessions, user, late>>
       ELSE Discard(c) /\ UNCHANGED binding
    /\ Goto(c, "unlease")
    /\ UNCHANGED <<tombstone, used, objects, signedIn, writer, revoker, acked, evicted>>

\* One that lost to an ordinary revocation is kept for audit; if the privacy
\* revocation came in between, it is deleted after all.
AdoptLateSession(c) ==
    /\ At(c, "adopt")
    /\ IF binding.status = "revoked" /\ ~binding.purge /\ binding.session = None
       THEN /\ binding' = [binding EXCEPT !.session = request[c].session, !.attempts = @ + 1]
            /\ UNCHANGED <<sessions, user, late>>
       ELSE Discard(c) /\ UNCHANGED binding
    /\ Goto(c, "unlease")
    /\ UNCHANGED <<tombstone, used, objects, signedIn, writer, revoker, acked, evicted>>

ReleaseSessionLease(c) ==
    /\ At(c, "unlease")
    /\ binding' = IF binding.sessionLease = c THEN [binding EXCEPT !.sessionLease = None] ELSE binding
    /\ Goto(c, "done")
    /\ UNCHANGED <<tombstone, user, used, sessions, objects, signedIn, writer, revoker, acked, evicted, late>>

-----------------------------------------------------------------------------
(* The write fence: one request for a storage capability and its upload. *)

\* The claim extends the drain before the engine mints anything.
ClaimCapability(w) ==
    /\ writer[w] = "idle"
    /\ signedIn
    /\ binding.status = "active"
    /\ binding.session # None
    /\ ~binding.purge
    /\ binding' = [binding EXCEPT !.drain = TRUE]
    /\ writer' = [writer EXCEPT ![w] = "minting"]
    /\ UNCHANGED <<tombstone, user, used, sessions, objects, signedIn, request, revoker, acked, evicted, late>>

\* Variant with a bug: the round is not looked at again when the key is recorded.
RecordRevoked(w) ==
    /\ writer[w] = "minting"
    /\ binding' = [binding EXCEPT !.capabilities = @ \cup {w}, !.drain = TRUE]
    /\ writer' = [writer EXCEPT ![w] = "usable"]
    /\ UNCHANGED <<tombstone, user, used, sessions, objects, signedIn, request, revoker, acked, evicted, late>>

\* The key is recorded before the response: a round revoked meanwhile hands
\* out nothing.
RecordCapability(w) ==
    /\ writer[w] = "minting"
    /\ IF Live /\ ~binding.purge
       THEN /\ binding' = [binding EXCEPT !.capabilities = @ \cup {w}, !.drain = TRUE]
            /\ writer' = [writer EXCEPT ![w] = "usable"]
       ELSE /\ writer' = [writer EXCEPT ![w] = "done"]
            /\ UNCHANGED binding
    /\ UNCHANGED <<tombstone, user, used, sessions, objects, signedIn, request, revoker, acked, evicted, late>>

\* The browser uploads straight to storage, whatever became of the round.
Upload(w) ==
    /\ writer[w] = "usable"
    /\ objects' = objects \cup {w}
    /\ UNCHANGED <<tombstone, binding, user, used, sessions, signedIn, request, writer, revoker, acked, evicted, late>>

\* The request is killed, or the capability runs out.
EndWriter(w) ==
    /\ writer[w] \in {"minting", "usable"}
    /\ writer' = [writer EXCEPT ![w] = "done"]
    /\ UNCHANGED <<tombstone, binding, user, used, sessions, objects, signedIn, request, revoker, acked, evicted, late>>

-----------------------------------------------------------------------------
(* POST internal/hire-engine/revoke: revokeRuntimeBinding. *)

Step(r, pc) == revoker' = [revoker EXCEPT ![r].pc = pc]
Forget(r) == revoker' = [revoker EXCEPT ![r] = IdleRevoker]

\* A delivery reads the tombstone: whether a purge was ever asked for.
StartRevocation(r, kind) ==
    /\ revoker[r].pc = "idle"
    /\ revoker' = [revoker EXCEPT ![r] = [pc |-> "stone", kind |-> kind, keys |-> {},
                        purge |-> kind = "privacy" \/ tombstone \in {"pending", "completed"}]]
    /\ UNCHANGED <<tombstone, binding, user, used, sessions, objects, signedIn, request, writer, acked, evicted, late>>

\* The tombstone is written before the binding is looked at.
WriteTombstone(r) ==
    /\ revoker[r].pc = "stone"
    /\ tombstone' = IF tombstone = "none" THEN "revoked" ELSE tombstone
    /\ Step(r, IF revoker[r].kind = "privacy" THEN "mark" ELSE "binding")
    /\ UNCHANGED <<binding, user, used, sessions, objects, signedIn, request, writer, acked, evicted, late>>

\* purgePersonalData is set for good; a completed purge stays completed.
MarkPurge(r) ==
    /\ revoker[r].pc = "mark"
    /\ tombstone' = IF tombstone = "completed" THEN tombstone ELSE "pending"
    /\ Step(r, "binding")
    /\ UNCHANGED <<binding, user, used, sessions, objects, signedIn, request, writer, acked, evicted, late>>

Revoked(b, purge) ==
    [b EXCEPT !.status = "revoked", !.purge = @ \/ purge,
              !.sessionLease = IF purge THEN @ ELSE None]

\* Variant with a bug: the purge does not wait for the writers it found.
PurgeAtOnce(r) ==
    /\ revoker[r].pc = "binding"
    /\ binding.status # "absent"
    /\ revoker[r].purge
    /\ binding' = Revoked(binding, TRUE)
    /\ revoker' = [revoker EXCEPT ![r].pc = "fence", ![r].keys = binding.capabilities]
    /\ UNCHANGED <<tombstone, user, used, sessions, objects, signedIn, request, writer, acked, evicted, late>>

\* A privacy revocation keeps the leases and gives up, to be delivered again,
\* while a writer it found is at work.
RevokeForPurge(r) ==
    /\ revoker[r].pc = "binding"
    /\ binding.status # "absent"
    /\ revoker[r].purge
    /\ binding' = Revoked(binding, TRUE)
    /\ IF binding.sessionLease = None /\ PrincipalFree /\ ~binding.drain
       THEN revoker' = [revoker EXCEPT ![r].pc = "fence", ![r].keys = binding.capabilities]
       ELSE Forget(r)
    /\ UNCHANGED <<tombstone, user, used, sessions, objects, signedIn, request, writer, acked, evicted, late>>

\* An ordinary revocation takes the session lease away from its holder.
RevokeAccess(r) ==
    /\ revoker[r].pc = "binding"
    /\ binding.status # "absent"
    /\ ~revoker[r].purge
    /\ binding' = Revoked(binding, FALSE)
    /\ evicted' = evicted \cup ({binding.sessionLease} \ {None})
    /\ Step(r, "limit")
    /\ UNCHANGED <<tombstone, user, used, sessions, objects, signedIn, request, writer, acked, late>>

\* No binding was ever provisioned: there is nothing to purge.
NothingProvisioned(r) ==
    /\ revoker[r].pc = "binding"
    /\ binding.status = "absent"
    /\ tombstone' = IF revoker[r].purge THEN "completed" ELSE tombstone
    /\ acked' = acked \cup {revoker[r].kind}
    /\ Forget(r)
    /\ UNCHANGED <<binding, user, used, sessions, objects, signedIn, request, writer, evicted, late>>

LimitUser(r) ==
    /\ revoker[r].pc = "limit"
    /\ user' = IF user = "active" THEN "limited" ELSE user
    /\ acked' = acked \cup {revoker[r].kind}
    /\ Forget(r)
    /\ UNCHANGED <<tombstone, binding, used, sessions, objects, signedIn, request, writer, evicted, late>>

\* The user row is the durable writer fence of the purge.
FenceUser(r) ==
    /\ revoker[r].pc = "fence"
    /\ user' = IF user = "absent" THEN user ELSE "deleting"
    /\ Step(r, "objects")
    /\ UNCHANGED <<tombstone, binding, used, sessions, objects, signedIn, request, writer, acked, evicted, late>>

\* The storage keys the binding knew are deleted.
PurgeObjects(r) ==
    /\ revoker[r].pc = "objects"
    /\ objects' = objects \ revoker[r].keys
    /\ Step(r, "rows")
    /\ UNCHANGED <<tombstone, binding, user, used, sessions, signedIn, request, writer, acked, evicted, late>>

\* Every session of the principal is deleted, bound or not.
PurgeRows(r) ==
    /\ revoker[r].pc = "rows"
    /\ sessions' = {}
    /\ Step(r, "user")
    /\ UNCHANGED <<tombstone, binding, user, used, objects, signedIn, request, writer, acked, evicted, late>>

\* The fenced user goes last; one that is not fenced any more stops the purge.
PurgeUser(r) ==
    /\ revoker[r].pc = "user"
    /\ IF user \in {"absent", "deleting"}
       THEN user' = "absent" /\ late' = {} /\ Step(r, "scrub")
       ELSE UNCHANGED <<user, late>> /\ Forget(r)
    /\ UNCHANGED <<tombstone, binding, used, sessions, objects, signedIn, request, writer, acked, evicted>>

\* Variant with a bug: the scrubbed binding is given back as if it never was.
ScrubAway(r) ==
    /\ revoker[r].pc = "scrub"
    /\ PrivacyRevoked
    /\ binding' = [NoBinding EXCEPT !.status = "purged"]
    /\ Step(r, "complete")
    /\ UNCHANGED <<tombstone, user, used, sessions, objects, signedIn, request, writer, acked, evicted, late>>

ScrubBinding(r) ==
    /\ revoker[r].pc = "scrub"
    /\ PrivacyRevoked
    /\ binding' = [binding EXCEPT !.session = None, !.sessionLease = None, !.principalLease = None,
                                  !.principalExpired = FALSE, !.drain = FALSE, !.capabilities = {}]
    /\ Step(r, "complete")
    /\ UNCHANGED <<tombstone, user, used, sessions, objects, signedIn, request, writer, acked, evicted, late>>

CompletePurge(r) ==
    /\ revoker[r].pc = "complete"
    /\ tombstone' = "completed"
    /\ acked' = acked \cup {revoker[r].kind}
    /\ Forget(r)
    /\ UNCHANGED <<binding, user, used, sessions, objects, signedIn, request, writer, evicted, late>>

\* A delivery is killed, or one of its operations fails.
AbortRevocation(r) ==
    /\ r \in Failing
    /\ revoker[r].pc # "idle"
    /\ Forget(r)
    /\ UNCHANGED <<tombstone, binding, user, used, sessions, objects, signedIn, request, writer, acked, evicted, late>>

-----------------------------------------------------------------------------
(* Time and crashes. *)

\* The platform kills a request; its leases stay.
Crash(q) ==
    /\ request[q].pc \notin {"idle", "done"}
    /\ Goto(q, "done")
    /\ UNCHANGED <<tombstone, binding, user, used, sessions, objects, signedIn, writer, revoker, acked, evicted, late>>

\* Variant with a bug: the principal's lease does not run out.
SessionLeaseExpires ==
    /\ binding.sessionLease # None
    /\ At(binding.sessionLease, "done")
    /\ binding' = [binding EXCEPT !.sessionLease = None]
    /\ UNCHANGED <<tombstone, user, used, sessions, objects, signedIn, request, writer, revoker, acked, evicted, late>>

\* PRINCIPAL_LEASE_MS may run out under its holder; SESSION_LEASE_MS outlives the
\* request that took it (bindingService.ts:18-21).
LeaseExpires ==
    /\ \/ /\ binding.sessionLease # None
          /\ At(binding.sessionLease, "done")
          /\ binding' = [binding EXCEPT !.sessionLease = None]
       \/ /\ ~PrincipalFree
          /\ binding' = [binding EXCEPT !.principalExpired = TRUE]
    /\ UNCHANGED <<tombstone, user, used, sessions, objects, signedIn, request, writer, revoker, acked, evicted, late>>

\* The drain horizon passes once every capability it covered is dead.
DrainExpires ==
    /\ binding.drain
    /\ \A w \in Writer : writer[w] \notin {"minting", "usable"}
    /\ binding' = [binding EXCEPT !.drain = FALSE]
    /\ UNCHANGED <<tombstone, user, used, sessions, objects, signedIn, request, writer, revoker, acked, evicted, late>>

PrincipalNext(q) ==
    \/ ClaimPrincipal(q) \/ CheckTombstone(q) \/ UpsertPrincipal(q)
    \/ RecheckPrincipal(q) \/ DiscardPrincipal(q) \/ ReleasePrincipal(q)

ExchangeNext(q) ==
    \/ StartExchange(q) \/ Provision(q) \/ CloseRace(q) \/ Activate(q) \/ SignIn(q)

CreatorNext(c) ==
    \/ AcquireSessionLease(c) \/ ChargeQuota(c) \/ InsertSession(c) \/ AttachSession(c)
    \/ DiscardLateSession(c) \/ AdoptLateSession(c) \/ ReleaseSessionLease(c)

WriterNext(w) ==
    \/ ClaimCapability(w) \/ RecordCapability(w) \/ Upload(w) \/ EndWriter(w)

Revoke(r) ==
    \/ WriteTombstone(r) \/ MarkPurge(r) \/ RevokeForPurge(r) \/ RevokeAccess(r)
    \/ NothingProvisioned(r) \/ LimitUser(r) \/ FenceUser(r) \/ PurgeObjects(r)
    \/ PurgeRows(r) \/ PurgeUser(r) \/ ScrubBinding(r) \/ CompletePurge(r)

RevokerNext(r) ==
    \/ \E kind \in {"ordinary", "privacy"} : StartRevocation(r, kind)
    \/ Revoke(r)
    \/ AbortRevocation(r)

Next ==
    \/ \E q \in Request : PrincipalNext(q) \/ Crash(q)
    \/ \E q \in Exchange : ExchangeNext(q)
    \/ \E c \in Creator : CreatorNext(c)
    \/ \E w \in Writer : WriterNext(w)
    \/ \E r \in Revoker : RevokerNext(r)
    \/ LeaseExpires
    \/ DrainExpires

Spec == Init /\ [][Next]_bindingVars

\* Requests end, leases and drains run out, and the control plane's outbox
\* delivers a privacy revocation again until it is told that it is done.  Some
\* deliveries are killed or fail, but not every one for ever.
Redeliver ==
    /\ "privacy" \notin acked /\ tombstone = "pending"
    /\ \E r \in Revoker \ Failing : StartRevocation(r, "privacy")

Fairness ==
    /\ \A q \in Exchange : WF_bindingVars(~At(q, "idle") /\ (PrincipalNext(q) \/ ExchangeNext(q)))
    /\ \A c \in Creator : WF_bindingVars(~At(c, "idle") /\ (PrincipalNext(c) \/ CreatorNext(c)))
    /\ \A w \in Writer : WF_bindingVars(EndWriter(w))
    /\ WF_bindingVars(LeaseExpires)
    /\ WF_bindingVars(DrainExpires)
    /\ \A r \in Revoker : WF_bindingVars(Revoke(r))
    /\ SF_bindingVars(Redeliver)

FairSpec == Spec /\ Fairness

-----------------------------------------------------------------------------
(* Properties. *)

\* However many creations are interrupted and repeated, one interview has one
\* engine session: the second creator adopts what the first left behind.
OneEngineSession == \A s, t \in sessions : s = t

\* The attempt number of the binding counts sessions, and the first is the only
\* one, also when the creation races a revocation; the session it names exists
\* until a purge.
OneAttempt ==
    /\ binding.attempts <= 1
    /\ binding.session # None => binding.attempts = 1
    /\ binding.session # None /\ ~binding.purge => binding.session \in sessions

\* When the control plane is told that the purge is done, nothing of the
\* candidate is left or can still arrive, with two exceptions: the session of a
\* creator that an ordinary revocation had deprived of its lease, and the user
\* row of requests whose lease ran out before they wrote it, which have yet to
\* look again and delete it, or were killed before they could.
PurgedMeansGone ==
    tombstone = "completed" =>
        /\ objects = {}
        /\ user # "absent" =>
              late # {} /\ \A q \in late : request[q].pc \in {"recheck", "discardUser", "done"}
        /\ sessions \subseteq evicted
        /\ binding.session = None
        /\ \A w \in Writer : writer[w] # "usable"
        /\ \A c \in Creator \ evicted : request[c].pc \notin {"insert", "attach", "adopt", "discard"}

\* A revocation that was acknowledged is final, although the tombstone, the
\* binding and the user are three documents: no login, no session lease, no
\* capability and no activation after it.
AcknowledgedRevocationIsFinal ==
    [][acked # {} => /\ signedIn' = signedIn
                     /\ binding'.sessionLease \in {binding.sessionLease, None}
                     /\ binding'.capabilities \subseteq binding.capabilities
                     /\ (binding'.status = "active" => binding.status = "active")]_bindingVars

\* A requested purge waits for writers, but not for ever.
PurgeCompletes == tombstone = "pending" ~> tombstone = "completed"

\* bindingService.ts: "a privacy purge can never acknowledge while a creator is
\* still able to land".
PurgeWaitsForCreators == tombstone = "completed" => \A c \in Creator : ~At(c, "insert")
=============================================================================
