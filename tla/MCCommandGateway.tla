-------------------------- MODULE MCCommandGateway --------------------------
(***************************************************************************)
(* Two invocations at a time, two commands (one of them may be reused for  *)
(* another intent), a user whose actor context changes, the system clock,  *)
(* one document.                                                           *)
(***************************************************************************)
EXTENDS CommandGateway, TLC

Symmetry ==
    Permutations(Workers) \union Permutations(CommandIds)
       \union Permutations(Intents) \union Permutations(ActorContexts)
=============================================================================
