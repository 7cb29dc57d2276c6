------------------------- MODULE MCCommandTransaction -------------------------
(***************************************************************************)
(* MCCommandTransaction.cfg: two sessions, two commands, one Expedition;   *)
(* every pair of statements and every pair of operations meet.  Symmetry   *)
(* is not used, because CallsEnd is a liveness property.                   *)
(***************************************************************************)
EXTENDS CommandTransaction
=============================================================================
