-------------------------- MODULE MCExpeditionSetup --------------------------
(***************************************************************************)
(* Small Expeditions for TLC.  The cook's role comes second in the cycle:  *)
(* a team of one has somebody to lead the product.                         *)
(*                                                                         *)
(* MCExpeditionSetup.cfg: two invocations that race, a team of one or two  *)
(* out of three people, so that captains choose when it is complete, and   *)
(* one more invitation than seats, so that invitations are revoked, pruned *)
(* from the view and issued again.                                         *)
(*                                                                         *)
(* MCExpiredInvitation.cfg: two people, two invitations, strong fairness.  *)
(***************************************************************************)
EXTENDS ExpeditionSetup, TLC

RoleCycle == <<"navigation", "cook", "mooring">>

Symmetry == Permutations(People) \union Permutations(Workers)
=============================================================================
