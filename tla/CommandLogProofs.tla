--------------------------- MODULE CommandLogProofs ---------------------------
(***************************************************************************)
(* Proofs, for every set of Expeditions, commands, users and projection    *)
(* keys and for every bound, of the safety properties of CommandLog.       *)
(*                                                                         *)
(* Each property is inductive together with LogTypeOK, so every proof has  *)
(* the same shape: it holds of LogInit, ChangeActor does not touch what it *)
(* speaks of, and the one interesting step is Persist(r).                  *)
(***************************************************************************)
EXTENDS CommandLog, TLAPS

\* The writes of a request.
Writes(r) ==
    /\ receipts' = [receipts EXCEPT ![r.command_id] = NewReceipt(r)]
    /\ event_log' = event_log \union NewRows(r)
    /\ stream_heads' = [stream_heads EXCEPT ![r.expedition] = FinalPosition(r)]
    /\ documents' = [documents EXCEPT ![r.expedition] = UpsertedDocuments(r)]
    /\ projection_heads' = [projection_heads EXCEPT ![r.expedition] = FinalVersion(r)]
    /\ UNCHANGED actor_contexts

\* A persisted request moves its own Expedition's position and version forward, or
\* leaves them, and writes a well-typed receipt.
LEMMA PersistWritesReceipt ==
    ASSUME LogTypeOK, NEW r \in Requests
    PROVE  /\ NewReceipt(r) \in Receipts
           /\ NewReceipt(r) # NoReceipt
           /\ FinalPosition(r) \in Nat
           /\ FinalPosition(r) = stream_heads[r.expedition] + r.batch
           /\ FinalVersion(r) \in Nat
           /\ projection_heads[r.expedition] <= FinalVersion(r)
  <1>1. /\ r.command_id \in CommandIds /\ r.expedition \in Expeditions
        /\ r.intent \in Intents /\ r.user \in Principals
        /\ r.actor \in ActorContexts \union {NoActor}
        /\ r.status \in {"accepted", "rejected"} /\ r.batch \in Nat
    BY BoundAssumption DEF Requests
  <1>2. /\ stream_heads[r.expedition] \in Nat
        /\ projection_heads[r.expedition] \in Nat
    BY <1>1 DEF LogTypeOK
  <1>3. /\ FinalPosition(r) \in Nat
        /\ FinalPosition(r) = stream_heads[r.expedition] + r.batch
    BY <1>1, <1>2 DEF FinalPosition
  <1>4. FinalVersion(r) \in Nat /\ projection_heads[r.expedition] <= FinalVersion(r)
    BY <1>2 DEF FinalVersion
  <1>5. RequestHash(r.expedition, r.intent) \in RequestHashes
    BY <1>1 DEF RequestHash, RequestHashes
  <1>6. NewReceipt(r) \in Receipts
    BY <1>1, <1>3, <1>4, <1>5 DEF NewReceipt, Receipts
  <1> QED
    BY <1>3, <1>4, <1>6, SentinelAssumption

\* The rows of a persisted request are well typed.
LEMMA PersistWritesRows ==
    ASSUME LogTypeOK, NEW r \in Requests
    PROVE  NewRows(r) \subseteq EventRows
  <1>1. r.command_id \in CommandIds /\ r.expedition \in Expeditions /\ r.batch \in Nat
    BY BoundAssumption DEF Requests
  <1>2. stream_heads[r.expedition] \in Nat
    BY <1>1 DEF LogTypeOK
  <1>3. ASSUME NEW n \in 1..r.batch
        PROVE  [event_id |-> EventId(r.command_id, n), command_id |-> r.command_id,
                expedition |-> r.expedition,
                stream_position |-> stream_heads[r.expedition] + n] \in EventRows
    <2>1. n \in Nat
      BY <1>1
    <2>2. EventId(r.command_id, n) \in CommandIds \X Nat
      BY <1>1, <2>1 DEF EventId
    <2>3. stream_heads[r.expedition] + n \in Nat
      BY <1>2, <2>1
    <2> QED
      BY <1>1, <2>2, <2>3 DEF EventRows
  <1> QED
    BY <1>3 DEF NewRows

LEMMA TypeInit == LogInit => LogTypeOK
  BY DEF LogInit, LogTypeOK

LEMMA TypeWrites ==
    ASSUME LogTypeOK, NEW r \in Requests, Writes(r)
    PROVE  LogTypeOK'
  <1>1. r.command_id \in CommandIds /\ r.expedition \in Expeditions
    BY DEF Requests
  <1>2. receipts' \in [CommandIds -> Receipts \union {NoReceipt}]
    BY <1>1, PersistWritesReceipt DEF Writes, LogTypeOK
  <1>3. event_log' \subseteq EventRows
    BY PersistWritesRows DEF Writes, LogTypeOK
  <1>4. /\ stream_heads' \in [Expeditions -> Nat]
        /\ projection_heads' \in [Expeditions -> Nat]
    BY <1>1, PersistWritesReceipt DEF Writes, LogTypeOK
  <1>5. [projection_version |-> FinalVersion(r),
         source_stream_position |-> FinalPosition(r)] \in Documents
    BY PersistWritesReceipt DEF Documents
  <1>6. documents[r.expedition] \in [ProjectionKeys -> Documents \union {NoDocument}]
    BY <1>1 DEF LogTypeOK
  <1>7. UpsertedDocuments(r) \in [ProjectionKeys -> Documents \union {NoDocument}]
    BY <1>5, <1>6 DEF UpsertedDocuments
  <1>8. documents' \in [Expeditions -> [ProjectionKeys -> Documents \union {NoDocument}]]
    BY <1>1, <1>7 DEF Writes, LogTypeOK
  <1>9. actor_contexts' \in [Expeditions -> [Users -> ActorContexts \union {NoActor}]]
    BY DEF Writes, LogTypeOK
  <1> QED
    BY <1>2, <1>3, <1>4, <1>8, <1>9 DEF LogTypeOK

LEMMA TypePersist ==
    ASSUME LogTypeOK, NEW r \in Requests, Persist(r)
    PROVE  LogTypeOK'
  BY TypeWrites DEF Persist, Writes

LEMMA TypeChangeActor ==
    ASSUME LogTypeOK, NEW e \in Expeditions, NEW u \in Users, ChangeActor(e, u)
    PROVE  LogTypeOK'
  <1>1. PICK a \in ActorContexts \union {NoActor} :
           actor_contexts' = [actor_contexts EXCEPT ![e][u] = a]
    BY DEF ChangeActor
  <1>2. actor_contexts' \in [Expeditions -> [Users -> ActorContexts \union {NoActor}]]
    BY <1>1 DEF LogTypeOK
  <1> QED
    BY <1>2 DEF ChangeActor, logVars, LogTypeOK

\* Type correctness of the store, whatever requests arrive.
THEOREM TypeCorrect == LogSpec => []LogTypeOK
  <1>1. LogTypeOK /\ [LogNext]_storeVars => LogTypeOK'
    <2> SUFFICES ASSUME LogTypeOK, [LogNext]_storeVars PROVE LogTypeOK'
      OBVIOUS
    <2>1. CASE \E r \in Requests : FinalPosition(r) <= MaxPosition /\ Persist(r)
      BY <2>1, TypePersist
    <2>2. CASE \E e \in Expeditions, u \in Users : ChangeActor(e, u)
      BY <2>2, TypeChangeActor
    <2>3. CASE UNCHANGED storeVars
      BY <2>3 DEF storeVars, logVars, LogTypeOK
    <2> QED
      BY <2>1, <2>2, <2>3 DEF LogNext
  <1> QED
    BY <1>1, TypeInit, PTL DEF LogSpec

-----------------------------------------------------------------------------
(***************************************************************************)
(* The stream has no gap and no fork                                       *)
(***************************************************************************)

LEMMA GaplessPersist ==
    ASSUME LogTypeOK, StreamGapless, NEW r \in Requests, Persist(r)
    PROVE  StreamGapless'
  <1> DEFINE x == r.expedition
             head == stream_heads[x]
  <1>1. /\ x \in Expeditions /\ head \in Nat /\ r.batch \in Nat
        /\ \A e \in Expeditions : stream_heads[e] \in Nat
    BY BoundAssumption DEF Requests, LogTypeOK
  <1>2. /\ \A e \in Expeditions :
              stream_heads'[e] = IF e = x THEN head + r.batch ELSE stream_heads[e]
        /\ event_log' = event_log \union NewRows(r)
    BY <1>1 DEF Persist, FinalPosition, LogTypeOK
  <1>3. \A row \in NewRows(r) :
           /\ row.expedition = x
           /\ \E n \in 1..r.batch : row.stream_position = head + n
    BY DEF NewRows
  <1>4. \A row1, row2 \in NewRows(r) :
           row1.stream_position = row2.stream_position => row1 = row2
    <2> SUFFICES ASSUME NEW row1 \in NewRows(r), NEW row2 \in NewRows(r),
                        row1.stream_position = row2.stream_position
                 PROVE  row1 = row2
      OBVIOUS
    <2>1. PICK n \in 1..r.batch :
             row1 = [event_id |-> EventId(r.command_id, n), command_id |-> r.command_id,
                     expedition |-> x, stream_position |-> head + n]
      BY DEF NewRows
    <2>2. PICK m \in 1..r.batch :
             row2 = [event_id |-> EventId(r.command_id, m), command_id |-> r.command_id,
                     expedition |-> x, stream_position |-> head + m]
      BY DEF NewRows
    <2>3. head + n = head + m
      BY <2>1, <2>2
    <2>4. n = m
      BY <2>3, <1>1
    <2> QED
      BY <2>1, <2>2, <2>4
  <1>5. ASSUME NEW n \in 1..r.batch
        PROVE  \E row \in NewRows(r) :
                  row.expedition = x /\ row.stream_position = head + n
    <2> DEFINE new == [event_id |-> EventId(r.command_id, n),
                       command_id |-> r.command_id,
                       expedition |-> x, stream_position |-> head + n]
    <2>1. new \in NewRows(r)
      BY DEF NewRows
    <2>2. new.expedition = x /\ new.stream_position = head + n
      OBVIOUS
    <2> QED
      BY <2>1, <2>2
  <1> SUFFICES ASSUME NEW e \in Expeditions
               PROVE  /\ \A row \in event_log' :
                            row.expedition = e => row.stream_position \in 1..stream_heads'[e]
                      /\ \A p \in 1..stream_heads'[e] :
                            \E row \in event_log' :
                               row.expedition = e /\ row.stream_position = p
                      /\ \A row1, row2 \in event_log' :
                            row1.expedition = e /\ row2.expedition = e
                               /\ row1.stream_position = row2.stream_position
                                  => row1 = row2
    BY DEF StreamGapless
  <1>6. /\ \A row \in event_log :
              row.expedition = e => row.stream_position \in 1..stream_heads[e]
        /\ \A p \in 1..stream_heads[e] :
              \E row \in event_log : row.expedition = e /\ row.stream_position = p
        /\ \A row1, row2 \in event_log :
              row1.expedition = e /\ row2.expedition = e
                 /\ row1.stream_position = row2.stream_position => row1 = row2
    BY DEF StreamGapless
  <1>7. CASE e # x
    BY <1>2, <1>3, <1>6, <1>7
  <1>8. CASE e = x
    <2>1. stream_heads'[e] = head + r.batch /\ stream_heads[e] = head
      BY <1>2, <1>8
    <2>2. \A row \in event_log' :
             row.expedition = e => row.stream_position \in 1..stream_heads'[e]
      BY <1>1, <1>2, <1>3, <1>6, <2>1
    <2>3. ASSUME NEW p \in 1..stream_heads'[e]
          PROVE  \E row \in event_log' : row.expedition = e /\ row.stream_position = p
      <3>1. CASE p <= head
        BY <1>1, <1>2, <1>6, <2>1, <3>1
      <3>2. CASE p > head
        <4>1. p - head \in 1..r.batch /\ p = head + (p - head)
          BY <1>1, <2>1, <3>2
        <4> QED
          BY <1>2, <1>5, <1>8, <4>1
      <3> QED
        BY <1>1, <2>1, <3>1, <3>2
    <2>4. ASSUME NEW row1 \in event_log', NEW row2 \in event_log',
                 row1.expedition = e, row2.expedition = e,
                 row1.stream_position = row2.stream_position
          PROVE  row1 = row2
      <3>1. \A row \in event_log, new \in NewRows(r) :
               row.expedition = e => row.stream_position # new.stream_position
        BY <1>1, <1>3, <1>6, <2>1
      <3> QED
        BY <1>2, <1>4, <1>6, <2>4, <3>1
    <2> QED
      BY <2>2, <2>3, <2>4
  <1> QED
    BY <1>7, <1>8

\* Exactly one event at each position up to the head of each Expedition's stream.
THEOREM Gapless == LogSpec => []StreamGapless
  <1>1. LogInit => StreamGapless
    <2> SUFFICES ASSUME LogInit
                 PROVE  StreamGapless
      OBVIOUS
    <2>1. event_log = {} /\ \A e \in Expeditions : stream_heads[e] = 0
      BY DEF LogInit
    <2>2. 1..0 = {}
      OBVIOUS
    <2> QED
      BY <2>1, <2>2 DEF StreamGapless
  <1>2. LogTypeOK /\ StreamGapless /\ [LogNext]_storeVars => StreamGapless'
    <2> SUFFICES ASSUME LogTypeOK, StreamGapless, [LogNext]_storeVars
                 PROVE  StreamGapless'
      OBVIOUS
    <2>1. CASE \E r \in Requests : FinalPosition(r) <= MaxPosition /\ Persist(r)
      BY <2>1, GaplessPersist
    <2>2. CASE \E e \in Expeditions, u \in Users : ChangeActor(e, u)
      BY <2>2 DEF ChangeActor, logVars, StreamGapless
    <2>3. CASE UNCHANGED storeVars
      BY <2>3 DEF storeVars, logVars, StreamGapless
    <2> QED
      BY <2>1, <2>2, <2>3 DEF LogNext
  <1> QED
    BY <1>1, <1>2, TypeCorrect, PTL DEF LogSpec

-----------------------------------------------------------------------------
(***************************************************************************)
(* Receipts account for the events                                         *)
(***************************************************************************)

LEMMA AccountPersist ==
    ASSUME LogTypeOK, ReceiptsAccountForEvents, NEW r \in Requests, Persist(r)
    PROVE  ReceiptsAccountForEvents'
  <1> DEFINE k == r.command_id
  <1>1. /\ k \in CommandIds /\ r.expedition \in Expeditions /\ r.batch \in Nat
        /\ r.status \in {"accepted", "rejected"}
        /\ stream_heads[r.expedition] \in Nat
    BY BoundAssumption DEF Requests, LogTypeOK
  <1>2. /\ \A c \in CommandIds :
              receipts'[c] = IF c = k THEN NewReceipt(r) ELSE receipts[c]
        /\ event_log' = event_log \union NewRows(r)
        /\ receipts[k] = NoReceipt
        /\ r.status = "accepted" => r.batch > 0
        /\ r.status = "rejected" => r.batch = 0
    BY <1>1 DEF Persist, Persists, HasReceipt, WellFormed, LogTypeOK
  <1>3. /\ NewReceipt(r) # NoReceipt
        /\ NewReceipt(r).expedition = r.expedition
        /\ NewReceipt(r).events = r.batch
        /\ NewReceipt(r).status = r.status
        /\ NewReceipt(r).stream_position = stream_heads[r.expedition] + r.batch
    BY PersistWritesReceipt DEF NewReceipt
  <1>4. /\ \A c \in CommandIds \ {k} : Accepted(c)' = Accepted(c)
        /\ Accepted(k)' = (r.status = "accepted")
    BY <1>1, <1>2, <1>3 DEF Accepted
  <1>5. ASSUME NEW row \in event_log
        PROVE  /\ row.command_id \in CommandIds /\ row.command_id # k
               /\ Accepted(row.command_id)'
               /\ receipts'[row.command_id] = receipts[row.command_id]
    <2>1. row.command_id \in CommandIds
      BY DEF LogTypeOK, EventRows
    <2>2. Accepted(row.command_id)
      BY DEF ReceiptsAccountForEvents
    <2>3. row.command_id # k
      BY <2>2, <1>2 DEF Accepted
    <2> QED
      BY <2>1, <2>2, <2>3, <1>2, <1>4
  <1>6. ASSUME NEW row \in NewRows(r)
        PROVE  /\ row.command_id = k /\ row.expedition = r.expedition
               /\ r.status = "accepted"
               /\ \E n \in 1..r.batch : row.event_id = EventId(k, n)
    BY <1>1, <1>2 DEF NewRows
  <1>7. ASSUME NEW row \in event_log'
        PROVE  /\ Accepted(row.command_id)'
               /\ receipts'[row.command_id].expedition = row.expedition
               /\ \E n \in 1..receipts'[row.command_id].events :
                     row.event_id = EventId(row.command_id, n)
    <2>1. CASE row \in event_log
      BY <2>1, <1>5 DEF ReceiptsAccountForEvents
    <2>2. CASE row \in NewRows(r)
      <3>1. /\ row.command_id = k /\ row.expedition = r.expedition
            /\ r.status = "accepted"
            /\ \E n \in 1..r.batch : row.event_id = EventId(k, n)
        BY <2>2, <1>6
      <3>2. receipts'[row.command_id] = NewReceipt(r)
        BY <3>1, <1>1, <1>2
      <3>3. Accepted(row.command_id)'
        BY <3>1, <3>2, <1>3 DEF Accepted
      <3> QED
        BY <3>1, <3>2, <3>3, <1>3
    <2> QED
      BY <1>2, <2>1, <2>2
  <1>8. ASSUME NEW c \in CommandIds, Accepted(c)', NEW n \in 1..receipts'[c].events
        PROVE  \E row \in event_log' :
                  /\ row.event_id = EventId(c, n)
                  /\ row.expedition = receipts'[c].expedition
                  /\ row.stream_position + receipts'[c].events
                        = receipts'[c].stream_position + n
    <2>1. CASE c # k
      BY <2>1, <1>2, <1>4, <1>8 DEF ReceiptsAccountForEvents
    <2>2. CASE c = k
      <3>1. n \in 1..r.batch /\ n \in Nat
        BY <2>2, <1>1, <1>2, <1>3
      <3> DEFINE row == [event_id |-> EventId(k, n), command_id |-> k,
                         expedition |-> r.expedition,
                         stream_position |-> stream_heads[r.expedition] + n]
      <3>2. row \in event_log'
        BY <3>1, <1>2 DEF NewRows
      <3>3. row.stream_position + r.batch
              = (stream_heads[r.expedition] + r.batch) + n
        BY <3>1, <1>1
      <3> QED
        BY <2>2, <3>2, <3>3, <1>1, <1>2, <1>3
    <2> QED
      BY <2>1, <2>2
  <1> QED
    BY <1>7, <1>8 DEF ReceiptsAccountForEvents

\* The events of a command are exactly those its receipt declares, and none of a
\* command without an accepted receipt.
THEOREM Accounted == LogSpec => []ReceiptsAccountForEvents
  <1>1. LogInit => ReceiptsAccountForEvents
    BY DEF LogInit, ReceiptsAccountForEvents, Accepted
  <1>2. LogTypeOK /\ ReceiptsAccountForEvents /\ [LogNext]_storeVars
           => ReceiptsAccountForEvents'
    <2> SUFFICES ASSUME LogTypeOK, ReceiptsAccountForEvents, [LogNext]_storeVars
                 PROVE  ReceiptsAccountForEvents'
      OBVIOUS
    <2>1. CASE \E r \in Requests : FinalPosition(r) <= MaxPosition /\ Persist(r)
      BY <2>1, AccountPersist
    <2>2. CASE \E e \in Expeditions, u \in Users : ChangeActor(e, u)
      BY <2>2 DEF ChangeActor, logVars, ReceiptsAccountForEvents, Accepted
    <2>3. CASE UNCHANGED storeVars
      BY <2>3 DEF storeVars, logVars, ReceiptsAccountForEvents, Accepted
    <2> QED
      BY <2>1, <2>2, <2>3 DEF LogNext
  <1> QED
    BY <1>1, <1>2, TypeCorrect, PTL DEF LogSpec

-----------------------------------------------------------------------------
(***************************************************************************)
(* Documents name receipts, and receipts are ordered                       *)
(***************************************************************************)

\* What persisting a request does to the receipts: it adds one and keeps the rest.
LEMMA PersistAddsOneReceipt ==
    ASSUME LogTypeOK, NEW r \in Requests, Persist(r)
    PROVE  /\ r.command_id \in CommandIds
           /\ receipts[r.command_id] = NoReceipt
           /\ receipts'[r.command_id] = NewReceipt(r)
           /\ \A c \in CommandIds \ {r.command_id} : receipts'[c] = receipts[c]
  BY DEF Requests, Persist, Persists, HasReceipt, LogTypeOK

LEMMA DocumentsPersist ==
    ASSUME LogTypeOK, DocumentsNameReceipts, NEW r \in Requests, Persist(r)
    PROVE  DocumentsNameReceipts'
  <1> SUFFICES ASSUME NEW e \in Expeditions, NEW k \in ProjectionKeys,
                      documents'[e][k] # NoDocument
               PROVE  \E c \in CommandIds :
                         /\ Accepted(c)'
                         /\ receipts'[c].expedition = e
                         /\ receipts'[c].projection_version
                               = documents'[e][k].projection_version
                         /\ receipts'[c].stream_position
                               = documents'[e][k].source_stream_position
    BY DEF DocumentsNameReceipts
  <1>1. \A x \in Expeditions :
           documents'[x] = IF x = r.expedition THEN UpsertedDocuments(r)
                                               ELSE documents[x]
    BY DEF Persist, LogTypeOK
  <1>2. CASE e = r.expedition /\ k \in r.mutations
    <2>1. documents'[e][k] = [projection_version |-> FinalVersion(r),
                              source_stream_position |-> FinalPosition(r)]
      BY <1>1, <1>2 DEF UpsertedDocuments
    <2>2. r.status = "accepted"
      BY <1>2 DEF Persist, Persists, WellFormed, Requests
    <2>3. /\ NewReceipt(r).expedition = e /\ NewReceipt(r).status = "accepted"
          /\ NewReceipt(r).projection_version = FinalVersion(r)
          /\ NewReceipt(r).stream_position = FinalPosition(r)
      BY <1>2, <2>2 DEF NewReceipt
    <2>4. Accepted(r.command_id)'
      BY <2>3, PersistAddsOneReceipt, PersistWritesReceipt DEF Accepted
    <2> QED
      BY <2>1, <2>3, <2>4, PersistAddsOneReceipt
  <1>3. CASE ~(e = r.expedition /\ k \in r.mutations)
    <2>1. documents'[e][k] = documents[e][k]
      <3>1. CASE e = r.expedition
        <4>1. UpsertedDocuments(r)[k] = documents[r.expedition][k]
          BY <1>3, <3>1 DEF UpsertedDocuments
        <4> QED
          BY <1>1, <3>1, <4>1
      <3>2. CASE e # r.expedition
        BY <1>1, <3>2
      <3> QED
        BY <3>1, <3>2
    <2>2. PICK c \in CommandIds :
             /\ Accepted(c)
             /\ receipts[c].expedition = e
             /\ receipts[c].projection_version = documents[e][k].projection_version
             /\ receipts[c].stream_position = documents[e][k].source_stream_position
      BY <2>1 DEF DocumentsNameReceipts
    <2>3. receipts'[c] = receipts[c]
      BY <2>2, PersistAddsOneReceipt DEF Accepted
    <2>4. Accepted(c)'
      BY <2>2, <2>3 DEF Accepted
    <2> QED
      BY <2>1, <2>2, <2>3, <2>4
  <1> QED
    BY <1>2, <1>3

\* A projection document never stands for anything but an accepted receipt.
THEOREM DocumentsNamed == LogSpec => []DocumentsNameReceipts
  <1>1. LogInit => DocumentsNameReceipts
    BY DEF LogInit, DocumentsNameReceipts
  <1>2. LogTypeOK /\ DocumentsNameReceipts /\ [LogNext]_storeVars
           => DocumentsNameReceipts'
    <2> SUFFICES ASSUME LogTypeOK, DocumentsNameReceipts, [LogNext]_storeVars
                 PROVE  DocumentsNameReceipts'
      OBVIOUS
    <2>1. CASE \E r \in Requests : FinalPosition(r) <= MaxPosition /\ Persist(r)
      BY <2>1, DocumentsPersist
    <2>2. CASE \E e \in Expeditions, u \in Users : ChangeActor(e, u)
      BY <2>2 DEF ChangeActor, logVars, DocumentsNameReceipts, Accepted
    <2>3. CASE UNCHANGED storeVars
      BY <2>3 DEF storeVars, logVars, DocumentsNameReceipts, Accepted
    <2> QED
      BY <2>1, <2>2, <2>3 DEF LogNext
  <1> QED
    BY <1>1, <1>2, TypeCorrect, PTL DEF LogSpec

\* A new receipt is never behind an older one of its Expedition, because the heads
\* it is stamped from never are.
LEMMA OrderPersist ==
    ASSUME LogTypeOK, PositionOrdersVersions, NEW r \in Requests, Persist(r)
    PROVE  PositionOrdersVersions'
  <1> DEFINE x == r.expedition
             k == r.command_id
  <1>1. x \in Expeditions /\ r.batch \in Nat
    BY BoundAssumption DEF Requests
  <1>2. /\ \A e \in Expeditions :
              /\ stream_heads[e] \in Nat /\ projection_heads[e] \in Nat
              /\ stream_heads'[e]
                    = IF e = x THEN FinalPosition(r) ELSE stream_heads[e]
              /\ projection_heads'[e]
                    = IF e = x THEN FinalVersion(r) ELSE projection_heads[e]
    BY <1>1 DEF Persist, LogTypeOK
  <1>3. /\ FinalPosition(r) \in Nat /\ stream_heads[x] <= FinalPosition(r)
        /\ FinalVersion(r) \in Nat /\ projection_heads[x] <= FinalVersion(r)
    BY <1>1, <1>2, PersistWritesReceipt
  <1>4. /\ NewReceipt(r).expedition = x
        /\ NewReceipt(r).stream_position = FinalPosition(r)
        /\ NewReceipt(r).projection_version = FinalVersion(r)
    BY DEF NewReceipt
  <1>5. ASSUME NEW c \in CommandIds, receipts[c] # NoReceipt
        PROVE  /\ c # k /\ receipts'[c] = receipts[c]
               /\ receipts[c].expedition \in Expeditions
               /\ receipts[c].stream_position \in Nat
               /\ receipts[c].projection_version \in Nat
               /\ receipts[c].stream_position <= stream_heads[receipts[c].expedition]
               /\ receipts[c].projection_version
                     <= projection_heads[receipts[c].expedition]
    <2>1. receipts[c] \in Receipts
      BY <1>5 DEF LogTypeOK
    <2>2. c # k /\ receipts'[c] = receipts[c]
      BY <1>5, PersistAddsOneReceipt
    <2>3. /\ receipts[c].expedition \in Expeditions
          /\ receipts[c].stream_position \in Nat
          /\ receipts[c].projection_version \in Nat
      BY <2>1 DEF Receipts
    <2>4. /\ receipts[c].stream_position <= stream_heads[receipts[c].expedition]
          /\ receipts[c].projection_version
                <= projection_heads[receipts[c].expedition]
      BY <1>5 DEF PositionOrdersVersions
    <2> QED
      BY <2>2, <2>3, <2>4
  <1> SUFFICES ASSUME NEW c \in CommandIds, NEW d \in CommandIds,
                      receipts'[c] # NoReceipt, receipts'[d] # NoReceipt,
                      receipts'[c].expedition = receipts'[d].expedition
               PROVE  /\ receipts'[c].stream_position < receipts'[d].stream_position
                            => receipts'[c].projection_version
                                  <= receipts'[d].projection_version
                      /\ receipts'[c].stream_position
                            <= stream_heads'[receipts'[c].expedition]
                      /\ receipts'[c].projection_version
                            <= projection_heads'[receipts'[c].expedition]
    BY DEF PositionOrdersVersions
  <1>6. \A i \in CommandIds \ {k} :
           receipts'[i] # NoReceipt =>
              /\ receipts[i] # NoReceipt /\ receipts'[i] = receipts[i]
              /\ receipts'[i].stream_position <= stream_heads'[receipts'[i].expedition]
              /\ receipts'[i].projection_version
                    <= projection_heads'[receipts'[i].expedition]
    <2> SUFFICES ASSUME NEW i \in CommandIds \ {k}, receipts'[i] # NoReceipt
                 PROVE  /\ receipts[i] # NoReceipt /\ receipts'[i] = receipts[i]
                        /\ receipts'[i].stream_position
                              <= stream_heads'[receipts'[i].expedition]
                        /\ receipts'[i].projection_version
                              <= projection_heads'[receipts'[i].expedition]
      OBVIOUS
    <2>1. receipts[i] # NoReceipt /\ receipts'[i] = receipts[i]
      BY PersistAddsOneReceipt
    <2> QED
      BY <1>2, <1>3, <1>5, <2>1
  <1>7. /\ receipts'[k] = NewReceipt(r)
        /\ NewReceipt(r).stream_position = stream_heads'[x]
        /\ NewReceipt(r).projection_version = projection_heads'[x]
    BY <1>1, <1>2, <1>4, PersistAddsOneReceipt
  <1>8. CASE c # k /\ d # k
    <2>1. receipts'[c] = receipts[c] /\ receipts'[d] = receipts[d]
      BY <1>6, <1>8
    <2> QED
      BY <1>6, <1>8, <2>1 DEF PositionOrdersVersions
  <1>9. CASE c # k /\ d = k
    <2>1. receipts'[c].projection_version <= projection_heads'[x]
      BY <1>4, <1>6, <1>7, <1>9
    <2> QED
      BY <1>6, <1>7, <1>9, <2>1
  <1>10. CASE c = k
    <2>1. receipts'[d].stream_position <= stream_heads'[x]
      BY <1>1, <1>2, <1>3, <1>4, <1>6, <1>7, <1>10
    <2>2. /\ receipts'[c].stream_position = stream_heads'[x]
          /\ receipts'[c].projection_version = projection_heads'[x]
          /\ receipts'[c].expedition = x
      BY <1>4, <1>7, <1>10
    <2>3. stream_heads'[x] \in Nat /\ projection_heads'[x] \in Nat
      BY <1>1, <1>2, <1>3
    <2>4. receipts'[d].stream_position \in Nat
      BY <1>3, <1>4, <1>5, <1>6, <1>7
    <2> QED
      BY <2>1, <2>2, <2>3, <2>4
  <1> QED
    BY <1>8, <1>9, <1>10

\* Positions and projection versions order the decisions of an Expedition alike.
THEOREM Ordered == LogSpec => []PositionOrdersVersions
  <1>1. LogInit => PositionOrdersVersions
    BY DEF LogInit, PositionOrdersVersions
  <1>2. LogTypeOK /\ PositionOrdersVersions /\ [LogNext]_storeVars
           => PositionOrdersVersions'
    <2> SUFFICES ASSUME LogTypeOK, PositionOrdersVersions, [LogNext]_storeVars
                 PROVE  PositionOrdersVersions'
      OBVIOUS
    <2>1. CASE \E r \in Requests : FinalPosition(r) <= MaxPosition /\ Persist(r)
      BY <2>1, OrderPersist
    <2>2. CASE \E e \in Expeditions, u \in Users : ChangeActor(e, u)
      BY <2>2 DEF ChangeActor, logVars, PositionOrdersVersions
    <2>3. CASE UNCHANGED storeVars
      BY <2>3 DEF storeVars, logVars, PositionOrdersVersions
    <2> QED
      BY <2>1, <2>2, <2>3 DEF LogNext
  <1> QED
    BY <1>1, <1>2, TypeCorrect, PTL DEF LogSpec

-----------------------------------------------------------------------------
(***************************************************************************)
(* History is append-only                                                  *)
(***************************************************************************)

\* No committed receipt or event is ever altered and no head moves back.
THEOREM Immutable == LogSpec => HistoryImmutable
  <1> DEFINE Kept ==
        /\ \A c \in CommandIds : receipts[c] # NoReceipt => receipts'[c] = receipts[c]
        /\ event_log \subseteq event_log'
        /\ \A e \in Expeditions :
              /\ stream_heads[e] <= stream_heads'[e]
              /\ projection_heads[e] <= projection_heads'[e]
  <1>1. LogTypeOK /\ [LogNext]_storeVars => [Kept]_storeVars
    <2> SUFFICES ASSUME LogTypeOK, LogNext PROVE Kept
      OBVIOUS
    <2>1. \A e \in Expeditions : stream_heads[e] \in Nat /\ projection_heads[e] \in Nat
      BY DEF LogTypeOK
    <2>2. CASE \E r \in Requests : FinalPosition(r) <= MaxPosition /\ Persist(r)
      <3>1. PICK r \in Requests : Persist(r)
        BY <2>2
      <3>2. \A c \in CommandIds : receipts[c] # NoReceipt => receipts'[c] = receipts[c]
        BY <3>1, PersistAddsOneReceipt
      <3>3. event_log \subseteq event_log'
        BY <3>1 DEF Persist
      <3>4. /\ r.expedition \in Expeditions /\ r.batch \in Nat
            /\ FinalPosition(r) = stream_heads[r.expedition] + r.batch
            /\ FinalVersion(r) \in Nat
            /\ projection_heads[r.expedition] <= FinalVersion(r)
        BY <3>1, BoundAssumption, PersistWritesReceipt DEF Requests
      <3>5. \A e \in Expeditions :
               /\ stream_heads'[e] = IF e = r.expedition THEN FinalPosition(r)
                                                         ELSE stream_heads[e]
               /\ projection_heads'[e] = IF e = r.expedition THEN FinalVersion(r)
                                                             ELSE projection_heads[e]
        BY <3>1, <3>4 DEF Persist, LogTypeOK
      <3>6. \A e \in Expeditions : /\ stream_heads[e] <= stream_heads'[e]
                                   /\ projection_heads[e] <= projection_heads'[e]
        BY <2>1, <3>4, <3>5
      <3> QED
        BY <3>2, <3>3, <3>6
    <2>3. CASE \E e \in Expeditions, u \in Users : ChangeActor(e, u)
      BY <2>1, <2>3 DEF ChangeActor, logVars
    <2> QED
      BY <2>2, <2>3 DEF LogNext
  <1>2. []LogTypeOK /\ [][LogNext]_storeVars => [][Kept]_storeVars
    BY <1>1, PTL
  <1> QED
    BY <1>2, TypeCorrect DEF LogSpec, HistoryImmutable
=============================================================================
