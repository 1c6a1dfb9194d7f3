------------------------ MODULE MCRuntimePublication ------------------------
(* Instances of RuntimePublication for TLC. *)
EXTENDS RuntimePublication, TLC

CONSTANTS p1, p2, camera, screen    \* runs and replay kinds

\* Overlapping runs and two versions of the feedback with the camera alone;
\* one run at a time, one version and no revocation with both kinds.
OneRunForBoth ==
    binding.required = {camera, screen} =>
        /\ Cardinality({p \in Publisher : pub[p].pc # "idle"}) <= 1
        /\ session.core <= 1
        /\ binding.status # "revoked"

RunSymmetry == Permutations(Publisher)
=============================================================================
