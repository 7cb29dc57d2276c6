------------------------------ MODULE MCBootstrap ------------------------------
(***************************************************************************)
(* Two captains, two keys, two command ids, one payload that the reducer   *)
(* accepts and one that it does not, two invocations that race and three   *)
(* attempts that reach the transaction.                                    *)
(***************************************************************************)
EXTENDS Bootstrap, TLC

Symmetry ==
    Permutations(Users) \union Permutations(Keys) \union Permutations(CommandIds)
       \union Permutations(Workers)
=============================================================================
