------------------------------ MODULE CommandLog ------------------------------
(***************************************************************************)
(* The authoritative store of the command gateway: the PostgreSQL tables   *)
(* command_receipts, event_log, stream_heads, projection_heads and         *)
(* projection_documents, written only by private.process_command           *)
(* (supabase/migrations/20260720190000_atomic_command_transaction.sql) and *)
(* guarded by the triggers of 20260720170000_immutable_history.sql.        *)
(*                                                                         *)
(* One call of process_command is one step.  It takes the advisory lock of *)
(* the command and then the one of the Expedition, every statement after   *)
(* them reads what is committed, and any exception rolls everything back:  *)
(* what other sessions see is all of a call or none of it                  *)
(* (CommandTransaction shows that).                                        *)
(***************************************************************************)
EXTENDS Naturals, FiniteSets

CONSTANTS
    Expeditions,     \* ilka.expeditions rows
    CommandIds,      \* client-generated command ids
    Intents,         \* what a command asks for, apart from its id and Expedition
    Users,           \* authenticated users (auth.users)
    ActorContexts,   \* the (profile, membership, participant) a user resolves to
    ProjectionKeys,  \* keys of ilka.projection_documents
    MaxBatch,        \* bound: events one command may append
    MaxPosition,     \* bound: events one Expedition's stream may hold
    System,          \* the trusted system actor, which is no user
    NoActor,         \* SQL null for a whole actor context
    NoReceipt,       \* no row in command_receipts
    NoDocument       \* no row in projection_documents

ASSUME BoundAssumption == MaxBatch \in Nat \ {0} /\ MaxPosition \in Nat

Principals == Users \union {System}

\* The SHA-256 of the normalised intent covers the Expedition but not the actor
\* fields; it is taken to be injective.  The command id, covered too, is the key
\* the hash is stored under.
RequestHash(e, intent) == <<e, intent>>

RequestHashes == Expeditions \X Intents

\* What the gateway hands to process_command.  "batch" is the number of prepared
\* events, "mutations" the projection keys the reducer rewrites.
Requests ==
    [command_id: CommandIds, expedition: Expeditions, intent: Intents,
     user: Principals, actor: ActorContexts \union {NoActor},
     expected: 0..MaxPosition, status: {"accepted", "rejected"},
     batch: 0..MaxBatch, mutations: SUBSET ProjectionKeys]

\* The n-th event a reducer prepares for a command is named after both.
EventId(c, n) == <<c, n>>

EventRows ==
    [event_id: CommandIds \X Nat, command_id: CommandIds,
     expedition: Expeditions, stream_position: Nat]

Receipts ==
    [expedition: Expeditions, request_hash: RequestHashes, user: Principals,
     actor: ActorContexts \union {NoActor}, status: {"accepted", "rejected"},
     events: Nat, stream_position: Nat, projection_version: Nat]

Documents == [projection_version: Nat, source_stream_position: Nat]

ASSUME SentinelAssumption == NoReceipt \notin Receipts /\ NoDocument \notin Documents

VARIABLES
    receipts,          \* command_receipts, keyed by command_id
    event_log,         \* the set of rows of event_log
    stream_heads,      \* stream_heads.current_stream_position
    projection_heads,  \* projection_heads.current_projection_version
    documents,         \* projection_documents, by Expedition and key
    actor_contexts     \* what resolve_actor_context answers for each user

logVars == <<receipts, event_log, stream_heads, projection_heads, documents>>
storeVars == <<logVars, actor_contexts>>

LogTypeOK ==
    /\ receipts \in [CommandIds -> Receipts \union {NoReceipt}]
    /\ event_log \subseteq EventRows
    /\ stream_heads \in [Expeditions -> Nat]
    /\ projection_heads \in [Expeditions -> Nat]
    /\ documents \in [Expeditions -> [ProjectionKeys -> Documents \union {NoDocument}]]
    /\ actor_contexts \in [Expeditions -> [Users -> ActorContexts \union {NoActor}]]

LogInit ==
    /\ receipts = [c \in CommandIds |-> NoReceipt]
    /\ event_log = {}
    /\ stream_heads = [e \in Expeditions |-> 0]
    /\ projection_heads = [e \in Expeditions |-> 0]
    /\ documents = [e \in Expeditions |-> [k \in ProjectionKeys |-> NoDocument]]
    /\ actor_contexts \in [Expeditions -> [Users -> ActorContexts \union {NoActor}]]

-----------------------------------------------------------------------------
(***************************************************************************)
(* private.process_command                                                 *)
(***************************************************************************)

\* Mutant of WellFormed: a rejection may rewrite documents.
RejectionMayMutate(r) == IF r.status = "accepted" THEN r.batch > 0 ELSE r.batch = 0

\* An accepted command has events; a rejected one has neither events nor
\* mutations.
WellFormed(r) ==
    IF r.status = "accepted" THEN r.batch > 0
                             ELSE r.batch = 0 /\ r.mutations = {}

\* The three ways a call ends before anything is written.  Idempotency is decided
\* first, then the actor, then the stream position.
HasReceipt(r) == receipts[r.command_id] # NoReceipt

\* Mutant of IsReplay: the hash of the payload is not compared.
ReplayOfAnyIntent(r) ==
    HasReceipt(r) /\ receipts[r.command_id].expedition = r.expedition

IsReplay(r) ==
    /\ HasReceipt(r)
    /\ receipts[r.command_id].expedition = r.expedition
    /\ receipts[r.command_id].request_hash = RequestHash(r.expedition, r.intent)

\* Mutant of ActorMatches: the context the gateway loaded is believed.
ActorAsLoaded(r) == (r.user = System) <=> (r.actor = NoActor)

\* A human context must be complete and still be what the user resolves to now;
\* a system request must carry no human context at all.
ActorMatches(r) ==
    IF r.user = System
    THEN r.actor = NoActor
    ELSE r.actor # NoActor /\ r.actor = actor_contexts[r.expedition][r.user]

IsConflict(r) ==
    /\ ~HasReceipt(r)
    /\ ActorMatches(r)
    /\ r.expected # stream_heads[r.expedition]

\* Mutant of Persists: a command that already has a receipt is persisted again.
PersistsAgain(r) ==
    WellFormed(r) /\ ActorMatches(r) /\ r.expected = stream_heads[r.expedition]

Persists(r) ==
    /\ WellFormed(r)
    /\ ~HasReceipt(r)
    /\ ActorMatches(r)
    /\ r.expected = stream_heads[r.expedition]

FinalPosition(r) == stream_heads[r.expedition] + r.batch

\* Mutant of FinalVersion: the version is the document's own, 1 for a new one.
VersionOfNewDocument(r) ==
    IF \E k \in r.mutations : documents[r.expedition][k] = NoDocument
    THEN 1
    ELSE projection_heads[r.expedition] + Cardinality(r.mutations)

FinalVersion(r) ==
    IF r.mutations # {} THEN projection_heads[r.expedition] + 1
                        ELSE projection_heads[r.expedition]

\* Mutant of NewReceipt: positions counted from 0.
ReceiptCountsFromZero(r) ==
    [expedition |-> r.expedition, request_hash |-> RequestHash(r.expedition, r.intent),
     user |-> r.user, actor |-> r.actor, status |-> r.status, events |-> r.batch,
     stream_position |-> FinalPosition(r) - 1, projection_version |-> FinalVersion(r)]

NewReceipt(r) ==
    [expedition |-> r.expedition,
     request_hash |-> RequestHash(r.expedition, r.intent),
     user |-> r.user,
     actor |-> r.actor,
     status |-> r.status,
     events |-> r.batch,
     stream_position |-> FinalPosition(r),
     projection_version |-> FinalVersion(r)]

\* Mutants of NewRows: positions from the head itself, ids numbered along the stream,
\* the batch in reverse order.
RowAtPosition(r, id, position) ==
    [event_id |-> EventId(r.command_id, id), command_id |-> r.command_id,
     expedition |-> r.expedition, stream_position |-> stream_heads[r.expedition] + position]

RowsFromHead(r) == {RowAtPosition(r, n, n - 1) : n \in 1..r.batch}

RowsNumberedByStream(r) ==
    {RowAtPosition(r, stream_heads[r.expedition] + n, n) : n \in 1..r.batch}

RowsReversed(r) == {RowAtPosition(r, n, (r.batch + 1) - n) : n \in 1..r.batch}

\* The rows inserted one by one: each takes the position after the head, which the
\* insert trigger then advances.
NewRows(r) ==
    {[event_id |-> EventId(r.command_id, n),
      command_id |-> r.command_id,
      expedition |-> r.expedition,
      stream_position |-> stream_heads[r.expedition] + n] : n \in 1..r.batch}

\* Mutant of UpsertedDocuments: stamped with the position before the batch.
DocumentsStampedEarly(r) ==
    [k \in ProjectionKeys |->
        IF k \in r.mutations
        THEN [projection_version |-> FinalVersion(r),
              source_stream_position |-> stream_heads[r.expedition]]
        ELSE documents[r.expedition][k]]

\* Every rewritten document carries the final position and the final version.
UpsertedDocuments(r) ==
    [k \in ProjectionKeys |->
        IF k \in r.mutations
        THEN [projection_version |-> FinalVersion(r),
              source_stream_position |-> FinalPosition(r)]
        ELSE documents[r.expedition][k]]

Persist(r) ==
    /\ Persists(r)
    /\ receipts' = [receipts EXCEPT ![r.command_id] = NewReceipt(r)]
    /\ event_log' = event_log \union NewRows(r)
    /\ stream_heads' = [stream_heads EXCEPT ![r.expedition] = FinalPosition(r)]
    /\ documents' = [documents EXCEPT ![r.expedition] = UpsertedDocuments(r)]
    /\ projection_heads' = [projection_heads EXCEPT ![r.expedition] = FinalVersion(r)]
    /\ UNCHANGED actor_contexts

\* A profile is disabled, a membership revoked or banned, a Participant added or
\* banned: the user resolves to another context, or to none.
ChangeActor(e, u) ==
    /\ \E a \in ActorContexts \union {NoActor} :
          /\ a # actor_contexts[e][u]
          /\ actor_contexts' = [actor_contexts EXCEPT ![e][u] = a]
    /\ UNCHANGED logVars

LogNext ==
    \/ \E r \in Requests : FinalPosition(r) <= MaxPosition /\ Persist(r)
    \/ \E e \in Expeditions, u \in Users : ChangeActor(e, u)

LogSpec == LogInit /\ [][LogNext]_storeVars

-----------------------------------------------------------------------------
(***************************************************************************)
(* Safety                                                                  *)
(***************************************************************************)

Accepted(c) == receipts[c] # NoReceipt /\ receipts[c].status = "accepted"

\* The stream of an Expedition has exactly one event at each position from 1 to its
\* head (the unique constraint, process_command's arithmetic and the head that the
\* insert trigger advances agree).
StreamGapless ==
    \A e \in Expeditions :
        /\ \A row \in event_log :
              row.expedition = e => row.stream_position \in 1..stream_heads[e]
        /\ \A p \in 1..stream_heads[e] :
              \E row \in event_log : row.expedition = e /\ row.stream_position = p
        /\ \A row1, row2 \in event_log :
              row1.expedition = e /\ row2.expedition = e
                 /\ row1.stream_position = row2.stream_position => row1 = row2

\* The events of a command are exactly those its receipt declares, in the declared
\* order, on the positions that end at the receipt's own; a rejected receipt has
\* none.  This is what the deferred trigger validate_command_receipt_event_set
\* tests for one receipt, here for the whole history.
ReceiptsAccountForEvents ==
    /\ \A row \in event_log :
          /\ Accepted(row.command_id)
          /\ receipts[row.command_id].expedition = row.expedition
          /\ \E n \in 1..receipts[row.command_id].events :
                row.event_id = EventId(row.command_id, n)
    /\ \A c \in CommandIds : Accepted(c) =>
          \A n \in 1..receipts[c].events :
             \E row \in event_log :
                /\ row.event_id = EventId(c, n)
                /\ row.expedition = receipts[c].expedition
                /\ row.stream_position + receipts[c].events
                      = receipts[c].stream_position + n

\* A projection document names a real decision: an accepted receipt of its own
\* Expedition with the same version and the same stream position.  So no reader
\* sees a document built from events that are not in the log.
DocumentsNameReceipts ==
    \A e \in Expeditions, k \in ProjectionKeys :
        documents[e][k] # NoDocument =>
            \E c \in CommandIds :
                /\ Accepted(c)
                /\ receipts[c].expedition = e
                /\ receipts[c].projection_version = documents[e][k].projection_version
                /\ receipts[c].stream_position = documents[e][k].source_stream_position

\* Stream position and projection version order the receipts of an Expedition the
\* same way: a later position never carries an earlier version, and neither is
\* ahead of its head.
PositionOrdersVersions ==
    \A c, d \in CommandIds :
        receipts[c] # NoReceipt /\ receipts[d] # NoReceipt
          /\ receipts[c].expedition = receipts[d].expedition =>
            /\ receipts[c].stream_position < receipts[d].stream_position
                  => receipts[c].projection_version <= receipts[d].projection_version
            /\ receipts[c].stream_position <= stream_heads[receipts[c].expedition]
            /\ receipts[c].projection_version <= projection_heads[receipts[c].expedition]

\* What the append-only triggers promise of every transaction: no receipt and no
\* event that was ever committed is altered or removed, and no head moves back.
HistoryImmutable ==
    [][/\ \A c \in CommandIds :
             receipts[c] # NoReceipt => receipts'[c] = receipts[c]
       /\ event_log \subseteq event_log'
       /\ \A e \in Expeditions :
             /\ stream_heads[e] <= stream_heads'[e]
             /\ projection_heads[e] <= projection_heads'[e]]_storeVars
=============================================================================
