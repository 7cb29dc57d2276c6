---------------------------- MODULE MCCommandLog ----------------------------
(***************************************************************************)
(* CommandLog alone, called with every request a gateway could send: any   *)
(* command id for any Expedition, with any expected position, batch and    *)
(* set of mutations.                                                       *)
(***************************************************************************)
EXTENDS CommandLog, CommandLogRefinement, TLC

Symmetry == Permutations(CommandIds) \union Permutations(Expeditions)
=============================================================================
