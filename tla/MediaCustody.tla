----------------------------- MODULE MediaCustody -----------------------------
(***************************************************************************)
(* What the private media of an interview promise to the recruiters who    *)
(* see them and to the candidate they are of, with no deliveries, leases,  *)
(* purge runs or seals of dead processes.                                  *)
(*                                                                         *)
(*   - A copy is kept, then given up, then erased, and never the other way *)
(*     round; it is erased only when its bytes have been sealed.           *)
(*   - Only a copy that is kept, and whose bytes are verified, is shown,   *)
(*     and it takes the place of what was shown before.                    *)
(*   - Behind a deletion of the candidate no copy is reserved and none is  *)
(*     shown; the deletion is completed when everything has been erased.   *)
(***************************************************************************)
CONSTANT Row

VARIABLES
    custody,    \* [Row -> {"none", "kept", "given_up", "erased"}]
    bytes,      \* [Row -> {"none", "data", "wrong", "sealed"}]
    shown,      \* the rows recruiters see
    deletion    \* "none", "processing" or "completed"

custodyVars == <<custody, bytes, shown, deletion>>

CustodyInit ==
    /\ custody = [r \in Row |-> "none"]
    /\ bytes = [r \in Row |-> "none"]
    /\ shown = {}
    /\ deletion = "none"

Reserve(r) ==
    /\ custody[r] = "none"
    /\ deletion = "none"
    /\ custody' = [custody EXCEPT ![r] = "kept"]
    /\ UNCHANGED <<bytes, shown, deletion>>

\* Bytes may arrive late, but never over others, and never for an erased row.
Arrive(r, content) ==
    /\ custody[r] \in {"kept", "given_up"}
    /\ bytes[r] = "none"
    /\ bytes' = [bytes EXCEPT ![r] = content]
    /\ UNCHANGED <<custody, shown, deletion>>

Show(r) ==
    /\ custody[r] = "kept"
    /\ bytes[r] = "data"
    /\ deletion = "none"
    /\ shown' = {r}
    /\ UNCHANGED <<custody, bytes, deletion>>

\* Some copies that are kept are given up; these, and perhaps others, are no longer shown.
GiveUp(rows) ==
    /\ custody' = [r \in Row |-> IF r \in rows THEN "given_up" ELSE custody[r]]
    /\ shown' \subseteq shown \ rows
    /\ UNCHANGED <<bytes, deletion>>

Seal(r) ==
    /\ custody[r] = "given_up"
    /\ bytes' = [bytes EXCEPT ![r] = "sealed"]
    /\ UNCHANGED <<custody, shown, deletion>>

Erase(r) ==
    /\ custody[r] = "given_up"
    /\ bytes[r] = "sealed"
    /\ custody' = [custody EXCEPT ![r] = "erased"]
    /\ UNCHANGED <<bytes, shown, deletion>>

Delete ==
    /\ deletion = "none"
    /\ deletion' = "processing"
    /\ shown' = {}
    /\ UNCHANGED <<custody, bytes>>

CompleteDeletion ==
    /\ deletion = "processing"
    /\ \A r \in Row : custody[r] \in {"none", "erased"}
    /\ deletion' = "completed"
    /\ UNCHANGED <<custody, bytes, shown>>

CustodyNext ==
    \/ \E rows \in SUBSET {r \in Row : custody[r] = "kept"} : GiveUp(rows)
    \/ \E r \in Row :
         \/ Reserve(r)
         \/ \E content \in {"data", "wrong"} : Arrive(r, content)
         \/ Show(r)
         \/ Seal(r)
         \/ Erase(r)
    \/ Delete
    \/ CompleteDeletion

CustodySpec == CustodyInit /\ [][CustodyNext]_custodyVars
=============================================================================
