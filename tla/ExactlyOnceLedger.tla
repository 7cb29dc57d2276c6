-------------------------- MODULE ExactlyOnceLedger --------------------------
(***************************************************************************)
(* What the command store promises a client, without tables, positions or  *)
(* locks: every command is decided at most once, and a decision to accept  *)
(* appends the whole batch of the command, in order, to the history of one *)
(* Expedition.                                                             *)
(***************************************************************************)
EXTENDS Naturals, Sequences

CONSTANTS Expeditions, CommandIds, MaxBatch

VARIABLES
    decision,  \* what became of each command
    history    \* the accepted events of each Expedition, oldest first

ledgerVars == <<decision, history>>

LedgerInit ==
    /\ decision = [c \in CommandIds |-> "none"]
    /\ history = [e \in Expeditions |-> <<>>]

Accept(c, e, n) ==
    /\ decision[c] = "none"
    /\ decision' = [decision EXCEPT ![c] = "accepted"]
    /\ history' = [history EXCEPT ![e] = @ \o [i \in 1..n |-> <<c, i>>]]

Reject(c) ==
    /\ decision[c] = "none"
    /\ decision' = [decision EXCEPT ![c] = "rejected"]
    /\ UNCHANGED history

LedgerNext ==
    \E c \in CommandIds :
        \/ \E e \in Expeditions, n \in 1..MaxBatch : Accept(c, e, n)
        \/ Reject(c)

LedgerSpec == LedgerInit /\ [][LedgerNext]_ledgerVars
=============================================================================
