--------------------- MODULE CommandLogRefinementProofs ---------------------
(***************************************************************************)
(* A proof, for every set of Expeditions, commands and users and for every *)
(* bound, that CommandLog implements ExactlyOnceLedger.                    *)
(*                                                                         *)
(* The mapping reads the history off the event rows by their positions.    *)
(* It is a function of the log only because the stream has no gap and no   *)
(* fork (StreamGapless): that is where the invariant is needed.            *)
(***************************************************************************)
EXTENDS CommandLogRefinement, CommandLogProofs, SequenceTheorems

\* Concatenation, position by position.
LEMMA Concatenation ==
    ASSUME NEW m \in Nat, NEW n \in Nat, NEW f, NEW g,
           f = [p \in 1..m |-> f[p]], g = [p \in 1..n |-> g[p]]
    PROVE  f \o g = [p \in 1..(m + n) |-> IF p <= m THEN f[p] ELSE g[p - m]]
  <1> DEFINE S == {f[p] : p \in 1..m} \union {g[p] : p \in 1..n}
  <1>1. f \in [1..m -> S] /\ g \in [1..n -> S]
    <2>1. [p \in 1..m |-> f[p]] \in [1..m -> S]
      OBVIOUS
    <2>2. [p \in 1..n |-> g[p]] \in [1..n -> S]
      OBVIOUS
    <2> QED
      BY <2>1, <2>2
  <1> HIDE DEF S
  <1>2. f \in Seq(S) /\ g \in Seq(S)
    BY <1>1, SeqDef
  <1>3. Len(f) = m /\ Len(g) = n
    BY <1>1, <1>2
  <1>4. /\ f \o g \in Seq(S) /\ Len(f \o g) = m + n
        /\ \A p \in 1..(m + n) : (f \o g)[p] = IF p <= m THEN f[p] ELSE g[p - m]
    BY <1>2, <1>3, ConcatProperties
  <1>5. f \o g = [p \in 1..(m + n) |-> (f \o g)[p]]
    BY <1>4, LenProperties
  <1> QED
    BY <1>4, <1>5

\* On every position of a stream there is the row that RowAt reads, and no other.
LEMMA RowAtUnique ==
    ASSUME StreamGapless, NEW e \in Expeditions, NEW p \in 1..stream_heads[e],
           NEW row \in event_log, row.expedition = e, row.stream_position = p
    PROVE  RowAt(e, p) = row
  <1>1. /\ RowAt(e, p) \in event_log
        /\ RowAt(e, p).expedition = e /\ RowAt(e, p).stream_position = p
    BY DEF RowAt
  <1> QED
    BY <1>1 DEF StreamGapless

\* The ledger starts empty.
LEMMA LedgerInitially == LogInit => Ledger!LedgerInit
  <1> SUFFICES ASSUME LogInit PROVE Ledger!LedgerInit
    OBVIOUS
  <1>1. decisionOf = [c \in CommandIds |-> "none"]
    BY DEF LogInit, decisionOf
  <1>2. ASSUME NEW e \in Expeditions
        PROVE  [p \in 1..stream_heads[e] |-> RowAt(e, p).event_id] = <<>>
    BY DEF LogInit
  <1>3. historyOf = [e \in Expeditions |-> <<>>]
    BY <1>2 DEF historyOf
  <1> QED
    BY <1>1, <1>3 DEF Ledger!LedgerInit

\* A step that leaves receipts, events and heads alone leaves the ledger alone.
LEMMA LedgerUnchanged ==
    UNCHANGED <<receipts, event_log, stream_heads>> => UNCHANGED Ledger!ledgerVars
  BY DEF Ledger!ledgerVars, decisionOf, historyOf, RowAt

\* The decision of the command is recorded, and no other.
LEMMA DecisionAfter ==
    ASSUME LogTypeOK, NEW r \in Requests, Persist(r)
    PROVE  /\ decisionOf[r.command_id] = "none"
           /\ decisionOf' = [decisionOf EXCEPT ![r.command_id] = r.status]
  <1>1. /\ r.command_id \in CommandIds /\ receipts[r.command_id] = NoReceipt
        /\ receipts'[r.command_id] = NewReceipt(r)
        /\ \A c \in CommandIds \ {r.command_id} : receipts'[c] = receipts[c]
    BY PersistAddsOneReceipt
  <1>2. NewReceipt(r) # NoReceipt /\ NewReceipt(r).status = r.status
    BY PersistWritesReceipt DEF NewReceipt
  <1> QED
    BY <1>1, <1>2 DEF decisionOf

\* Rows that were there keep their positions.
LEMMA OldRowsStay ==
    ASSUME LogTypeOK, StreamGapless, StreamGapless', NEW r \in Requests, Persist(r),
           NEW e \in Expeditions, NEW p \in 1..stream_heads[e]
    PROVE  RowAt(e, p)' = RowAt(e, p)
  <1>1. PICK row \in event_log : row.expedition = e /\ row.stream_position = p
    BY DEF StreamGapless
  <1>2. RowAt(e, p) = row
    BY <1>1, RowAtUnique
  <1>3. row \in event_log'
    BY DEF Persist
  <1>4. stream_heads[e] \in Nat /\ stream_heads'[e] \in Nat
        /\ stream_heads[e] <= stream_heads'[e]
    BY BoundAssumption DEF LogTypeOK, Persist, FinalPosition, Requests
  <1>5. p \in 1..stream_heads'[e]
    BY <1>4
  <1>6. /\ RowAt(e, p)' \in event_log'
        /\ RowAt(e, p)'.expedition = e /\ RowAt(e, p)'.stream_position = p
    BY <1>1, <1>3 DEF RowAt
  <1>7. RowAt(e, p)' = row
    BY <1>1, <1>3, <1>5, <1>6 DEF StreamGapless
  <1> QED
    BY <1>2, <1>7

\* The n-th event of the batch is read n positions after the old head.
LEMMA NewRowsRead ==
    ASSUME LogTypeOK, StreamGapless', NEW r \in Requests, Persist(r), NEW n \in 1..r.batch,
           NEW p \in Nat, p = stream_heads[r.expedition] + n
    PROVE  RowAt(r.expedition, p)'.event_id = <<r.command_id, n>>
  <1> DEFINE e == r.expedition
             row == [event_id |-> EventId(r.command_id, n), command_id |-> r.command_id,
                     expedition |-> e, stream_position |-> p]
  <1>1. row \in event_log'
    BY DEF Persist, NewRows
  <1>2. /\ e \in Expeditions /\ stream_heads[e] \in Nat /\ r.batch \in Nat
        /\ stream_heads'[e] = stream_heads[e] + r.batch
    BY BoundAssumption DEF LogTypeOK, Persist, FinalPosition, Requests
  <1>3. p \in 1..stream_heads'[e]
    BY <1>2
  <1>4. row.expedition = e /\ row.stream_position = p
    OBVIOUS
  <1>5. /\ RowAt(e, p)' \in event_log'
        /\ RowAt(e, p)'.expedition = e /\ RowAt(e, p)'.stream_position = p
    BY <1>1, <1>4 DEF RowAt
  <1>6. RowAt(e, p)' = row
    BY <1>1, <1>2, <1>3, <1>4, <1>5 DEF StreamGapless
  <1>7. row.event_id = <<r.command_id, n>>
    BY DEF EventId
  <1> QED
    BY <1>6, <1>7

\* The batch is appended to the history of its Expedition, and to no other.
LEMMA HistoryAfter ==
    ASSUME LogTypeOK, StreamGapless, StreamGapless', NEW r \in Requests, Persist(r)
    PROVE  historyOf' = [historyOf EXCEPT ![r.expedition]
                            = @ \o [i \in 1..r.batch |-> <<r.command_id, i>>]]
  <1> DEFINE x == r.expedition
             batch == [i \in 1..r.batch |-> <<r.command_id, i>>]
  <1>1. /\ x \in Expeditions /\ r.batch \in Nat
        /\ \A e \in Expeditions :
              /\ stream_heads[e] \in Nat
              /\ stream_heads'[e] = IF e = x THEN stream_heads[e] + r.batch
                                             ELSE stream_heads[e]
    BY BoundAssumption DEF LogTypeOK, Persist, FinalPosition, Requests
  <1>2. ASSUME NEW e \in Expeditions, e # x
        PROVE  historyOf'[e] = historyOf[e]
    <2>1. \A p \in 1..stream_heads[e] : RowAt(e, p)' = RowAt(e, p)
      BY OldRowsStay
    <2> QED
      BY <1>1, <1>2, <2>1 DEF historyOf
  <1>3. historyOf'[x] = historyOf[x] \o batch
    <2>1. \A p \in 1..stream_heads[x] : RowAt(x, p)' = RowAt(x, p)
      BY <1>1, OldRowsStay
    <2>2. \A n \in 1..r.batch : \A p \in Nat :
             p = stream_heads[x] + n => RowAt(x, p)'.event_id = <<r.command_id, n>>
      BY NewRowsRead
    <2>3. /\ historyOf[x] = [p \in 1..stream_heads[x] |-> RowAt(x, p).event_id]
          /\ historyOf'[x] = [p \in 1..stream_heads'[x] |-> RowAt(x, p)'.event_id]
      BY <1>1 DEF historyOf
    <2>4. /\ historyOf[x] = [p \in 1..stream_heads[x] |-> historyOf[x][p]]
          /\ batch = [p \in 1..r.batch |-> batch[p]]
      BY <2>3
    <2>5. historyOf[x] \o batch
             = [p \in 1..(stream_heads[x] + r.batch) |->
                   IF p <= stream_heads[x] THEN historyOf[x][p]
                                           ELSE batch[p - stream_heads[x]]]
      <3> DEFINE head == stream_heads[x]
                 size == r.batch
                 old == historyOf[x]
      <3>1. head \in Nat /\ size \in Nat
        BY <1>1
      <3>2. old = [p \in 1..head |-> old[p]] /\ batch = [p \in 1..size |-> batch[p]]
        BY <2>4
      <3> HIDE DEF batch, head, size, old
      <3>3. old \o batch = [p \in 1..(head + size) |->
                              IF p <= head THEN old[p] ELSE batch[p - head]]
        BY <3>1, <3>2, Concatenation
      <3> QED
        BY <3>3 DEF head, size, old
    <2>6. ASSUME NEW p \in 1..(stream_heads[x] + r.batch)
          PROVE  RowAt(x, p)'.event_id
                    = IF p <= stream_heads[x] THEN historyOf[x][p]
                                              ELSE batch[p - stream_heads[x]]
      <3>1. CASE p <= stream_heads[x]
        <4>1. p \in 1..stream_heads[x]
          BY <1>1, <3>1
        <4> QED
          BY <2>1, <2>3, <3>1, <4>1
      <3>2. CASE ~(p <= stream_heads[x])
        <4>1. /\ p - stream_heads[x] \in 1..r.batch /\ p \in Nat
              /\ p = stream_heads[x] + (p - stream_heads[x])
          BY <1>1, <3>2
        <4>2. RowAt(x, p)'.event_id = <<r.command_id, p - stream_heads[x]>>
          BY <2>2, <4>1
        <4> QED
          BY <3>2, <4>1, <4>2
      <3> QED
        BY <3>1, <3>2
    <2> QED
      BY <1>1, <2>3, <2>5, <2>6
  <1>4. historyOf = [e \in Expeditions |-> historyOf[e]]
        /\ historyOf' = [e \in Expeditions |-> historyOf'[e]]
    BY DEF historyOf
  <1> QED
    BY <1>1, <1>2, <1>3, <1>4

\* A rejection appends nothing.
LEMMA EmptyBatch ==
    ASSUME LogTypeOK, NEW e \in Expeditions, NEW c
    PROVE  historyOf[e] \o [i \in 1..0 |-> <<c, i>>] = historyOf[e]
  <1>1. stream_heads[e] \in Nat
    BY DEF LogTypeOK
  <1>2. historyOf[e] = [p \in 1..stream_heads[e] |-> historyOf[e][p]]
    BY DEF historyOf
  <1>3. historyOf[e] \in Seq({historyOf[e][p] : p \in 1..stream_heads[e]})
    BY <1>1, <1>2, SeqDef
  <1>4. [i \in 1..0 |-> <<c, i>>] = <<>>
    OBVIOUS
  <1> QED
    BY <1>3, <1>4, ConcatEmptySeq

LEMMA PersistIsLedgerStep ==
    ASSUME LogTypeOK, StreamGapless, StreamGapless', NEW r \in Requests, Persist(r)
    PROVE  Ledger!LedgerNext
  <1>1. /\ r.command_id \in CommandIds /\ r.expedition \in Expeditions
        /\ r.status \in {"accepted", "rejected"} /\ r.batch \in 0..MaxBatch
    BY DEF Requests
  <1>2. /\ r.status = "accepted" => r.batch > 0
        /\ r.status = "rejected" => r.batch = 0
    BY DEF Persist, Persists, WellFormed
  <1>3. CASE r.status = "accepted"
    <2>1. r.batch \in 1..MaxBatch
      BY <1>1, <1>2, <1>3, BoundAssumption
    <2>2. Ledger!Accept(r.command_id, r.expedition, r.batch)
      BY <1>3, DecisionAfter, HistoryAfter DEF Ledger!Accept
    <2> QED
      BY <1>1, <2>1, <2>2 DEF Ledger!LedgerNext
  <1>4. CASE r.status = "rejected"
    <2>1. historyOf' = historyOf
      <3>1. historyOf' = [historyOf EXCEPT ![r.expedition]
                             = @ \o [i \in 1..0 |-> <<r.command_id, i>>]]
        BY <1>2, <1>4, HistoryAfter
      <3>2. historyOf[r.expedition] \o [i \in 1..0 |-> <<r.command_id, i>>]
               = historyOf[r.expedition]
        BY <1>1, EmptyBatch
      <3>3. historyOf = [e \in Expeditions |-> historyOf[e]]
        BY DEF historyOf
      <3> QED
        BY <1>1, <3>1, <3>2, <3>3
    <2>2. Ledger!Reject(r.command_id)
      BY <1>4, <2>1, DecisionAfter DEF Ledger!Reject
    <2> QED
      BY <1>1, <2>2 DEF Ledger!LedgerNext
  <1> QED
    BY <1>1, <1>3, <1>4

\* The store keeps the promise of the ledger: whatever requests arrive and however
\* often, each command is decided once, and an accepted batch enters one history once,
\* together and in order.
THEOREM StoreImplementsLedger == LogSpec => ImplementsLedger
  <1>1. LogInit => Ledger!LedgerInit
    BY LedgerInitially
  <1>2. LogTypeOK /\ StreamGapless /\ StreamGapless' /\ [LogNext]_storeVars
           => [Ledger!LedgerNext]_(Ledger!ledgerVars)
    <2> SUFFICES ASSUME LogTypeOK, StreamGapless, StreamGapless', [LogNext]_storeVars
                 PROVE  Ledger!LedgerNext \/ UNCHANGED Ledger!ledgerVars
      OBVIOUS
    <2>1. CASE \E r \in Requests : FinalPosition(r) <= MaxPosition /\ Persist(r)
      BY <2>1, PersistIsLedgerStep
    <2>2. CASE \E e \in Expeditions, u \in Users : ChangeActor(e, u)
      BY <2>2, LedgerUnchanged DEF ChangeActor, logVars
    <2>3. CASE UNCHANGED storeVars
      BY <2>3, LedgerUnchanged DEF storeVars, logVars
    <2> QED
      BY <2>1, <2>2, <2>3 DEF LogNext
  <1>3. LogSpec => []LogTypeOK /\ []StreamGapless
    BY TypeCorrect, Gapless
  <1> QED
    BY <1>1, <1>2, <1>3, PTL DEF LogSpec, ImplementsLedger, Ledger!LedgerSpec
=============================================================================
