------------------------ MODULE CommandLogRefinement ------------------------
(***************************************************************************)
(* CommandLog implements ExactlyOnceLedger: the receipt's status is the    *)
(* decision, and the rows of event_log read in the order of their stream   *)
(* positions are the history.                                              *)
(***************************************************************************)
EXTENDS CommandLog

decisionOf ==
    [c \in CommandIds |-> IF receipts[c] = NoReceipt THEN "none"
                                                     ELSE receipts[c].status]

RowAt(e, p) ==
    CHOOSE row \in event_log : row.expedition = e /\ row.stream_position = p

historyOf ==
    [e \in Expeditions |-> [p \in 1..stream_heads[e] |-> RowAt(e, p).event_id]]

Ledger == INSTANCE ExactlyOnceLedger
              WITH decision <- decisionOf, history <- historyOf

\* process_command keeps the ledger's promise: whatever requests arrive, in
\* whatever order and however often, each command is decided once and its events
\* enter one Expedition's history once, together and in order.
ImplementsLedger == Ledger!LedgerSpec
=============================================================================
