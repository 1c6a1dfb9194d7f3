------------------------- MODULE MCJobMediaRetention -------------------------
(* Instances of JobMediaRetention for TLC. *)
EXTENDS JobMediaRetention, TLC

CONSTANTS r1, c1

MCRow == {r1}
MCCron == {c1}
=============================================================================
