------------------------- MODULE CommandGatewayProofs -------------------------
(***************************************************************************)
(* Proofs, for every set of invocations, Expeditions, commands and users,  *)
(* of the safety properties of CommandGateway.                             *)
(*                                                                         *)
(* The gateway works on the store only through process_command, so what    *)
(* CommandLogProofs shows of the store holds behind the gateway too.  What *)
(* the gateway adds rests on LoadedContexts: a context that was loaded is  *)
(* not ahead of its stream.                                                *)
(***************************************************************************)
EXTENDS CommandGateway, CommandLogProofs

LoadedContexts ==
    \A w \in Workers : flight[w].phase = "loaded" =>
        /\ flight[w].context \in Contexts
        /\ flight[w].context.stream_position <= stream_heads[flight[w].expedition]

-----------------------------------------------------------------------------
(***************************************************************************)
(* Every step of the gateway is a step of the store, or leaves it alone    *)
(***************************************************************************)

LEMMA FlightTypes ==
    ASSUME TypeOK, NEW w \in Workers, flight[w].phase \in {"checked", "loaded"}
    PROVE  flight[w] \in Flights
  BY DEF TypeOK, Idle

\* The request an invocation commits is one of the requests of the store, and it
\* speaks of the invocation's own command.
LEMMA CommitRequest ==
    ASSUME TypeOK, LoadedContexts, NEW w \in Workers, flight[w].phase = "loaded",
           NEW r \in PreparedRequests(flight[w]),
           FinalPosition(r) <= MaxPosition, Persist(r)
    PROVE  /\ r \in Requests
           /\ r.command_id = flight[w].command_id
           /\ r.expedition = flight[w].expedition
           /\ r.intent = flight[w].intent
           /\ r.user = flight[w].user
           /\ r.actor = flight[w].context.actor
           /\ flight[w].context.stream_position = stream_heads[r.expedition]
  <1> DEFINE f == flight[w]
  <1>1. f \in Flights /\ f.context \in Contexts
    BY FlightTypes DEF LoadedContexts
  <1>2. /\ r.command_id = f.command_id /\ r.expedition = f.expedition
        /\ r.intent = f.intent /\ r.user = f.user /\ r.actor = f.context.actor
        /\ r.expected = f.context.stream_position
        /\ r.status \in {"accepted", "rejected"} /\ r.batch \in 0..MaxBatch
        /\ r.mutations \in SUBSET ProjectionKeys
    BY DEF PreparedRequests
  <1>3. /\ f.command_id \in CommandIds /\ f.expedition \in Expeditions
        /\ f.intent \in Intents /\ f.user \in Principals
        /\ f.context.actor \in ActorContexts \union {NoActor}
    BY <1>1 DEF Flights, Contexts
  <1>4. r.expected = stream_heads[r.expedition]
    BY DEF Persist, Persists
  <1>5. r.expected \in 0..MaxPosition
    <2>1. stream_heads[r.expedition] \in Nat /\ r.batch \in Nat
      BY <1>2, <1>3, BoundAssumption DEF TypeOK, LogTypeOK
    <2> QED
      BY <1>4, <2>1, BoundAssumption DEF FinalPosition
  <1>6. r = [command_id |-> r.command_id, expedition |-> r.expedition,
             intent |-> r.intent, user |-> r.user, actor |-> r.actor,
             expected |-> r.expected, status |-> r.status, batch |-> r.batch,
             mutations |-> r.mutations]
    BY DEF PreparedRequests
  <1>7. r \in Requests
    BY <1>2, <1>3, <1>5, <1>6 DEF Requests
  <1> QED
    BY <1>2, <1>4, <1>7

\* A step commits a request of one invocation, or changes an actor, or leaves the
\* store alone.
LEMMA StepKinds ==
    ASSUME TypeOK, LoadedContexts, [Next]_gatewayVars
    PROVE  \/ \E w \in Workers : Commit(w)
           \/ OperatorChangesActor
           \/ UNCHANGED storeVars
  <1>1. CASE \E w \in Workers : \/ Receive(w) \/ LoadContext(w)
                                \/ CommitWithoutWriting(w) \/ Abort(w)
    BY <1>1 DEF Receive, LoadContext, CommitWithoutWriting, Abort
  <1>2. CASE UNCHANGED gatewayVars
    BY <1>2 DEF gatewayVars
  <1> QED
    BY <1>1, <1>2 DEF Next

LEMMA GatewayStepIsLogStep ==
    ASSUME TypeOK, LoadedContexts, [Next]_gatewayVars
    PROVE  [LogNext]_storeVars
  <1>1. ASSUME NEW w \in Workers, Commit(w)
        PROVE  LogNext
    <2>1. PICK r \in PreparedRequests(flight[w]) :
             FinalPosition(r) <= MaxPosition /\ Persist(r)
      BY <1>1 DEF Commit
    <2>2. r \in Requests
      BY <1>1, <2>1, CommitRequest DEF Commit
    <2> QED
      BY <2>1, <2>2 DEF LogNext
  <1>2. OperatorChangesActor => LogNext
    BY DEF OperatorChangesActor, LogNext
  <1> QED
    BY <1>1, <1>2, StepKinds

LEMMA LogStepKeepsTypes ==
    ASSUME LogTypeOK, [LogNext]_storeVars
    PROVE  LogTypeOK'
  <1>1. CASE \E r \in Requests : FinalPosition(r) <= MaxPosition /\ Persist(r)
    BY <1>1, TypePersist
  <1>2. CASE \E e \in Expeditions, u \in Users : ChangeActor(e, u)
    BY <1>2, TypeChangeActor
  <1>3. CASE UNCHANGED storeVars
    BY <1>3 DEF storeVars, logVars, LogTypeOK
  <1> QED
    BY <1>1, <1>2, <1>3 DEF LogNext

\* No head moves back, and the documents and the version of an Expedition change
\* only together with its position.
LEMMA HeadsAdvance ==
    ASSUME LogTypeOK, [LogNext]_storeVars, NEW e \in Expeditions
    PROVE  /\ stream_heads[e] <= stream_heads'[e]
           /\ stream_heads'[e] = stream_heads[e] =>
                 /\ projection_heads'[e] = projection_heads[e]
                 /\ documents'[e] = documents[e]
  <1>1. stream_heads[e] \in Nat
    BY DEF LogTypeOK
  <1>2. ASSUME NEW r \in Requests, Persist(r)
        PROVE  /\ stream_heads[e] <= stream_heads'[e]
               /\ stream_heads'[e] = stream_heads[e] =>
                     /\ projection_heads'[e] = projection_heads[e]
                     /\ documents'[e] = documents[e]
    <2>1. CASE e # r.expedition
      BY <1>1, <1>2, <2>1 DEF Persist, LogTypeOK
    <2>2. CASE e = r.expedition
      <3>1. r.batch \in Nat /\ r.expedition \in Expeditions
        BY BoundAssumption DEF Requests
      <3>2. stream_heads'[e] = stream_heads[e] + r.batch
        BY <1>2, <2>2, <3>1 DEF Persist, FinalPosition, LogTypeOK
      <3>3. r.batch = 0 => r.mutations = {}
        BY <1>2 DEF Persist, Persists, WellFormed
      <3>4. r.mutations = {} =>
               /\ projection_heads'[e] = projection_heads[e]
               /\ documents'[e] = documents[e]
        <4>1. SUFFICES ASSUME r.mutations = {}
                       PROVE  /\ projection_heads'[e] = projection_heads[e]
                              /\ documents'[e] = documents[e]
          OBVIOUS
        <4>2. projection_heads'[e] = projection_heads[e]
          BY <1>2, <2>2, <4>1 DEF Persist, FinalVersion, LogTypeOK
        <4>3. documents[e] \in [ProjectionKeys -> Documents \union {NoDocument}]
          BY DEF LogTypeOK
        <4>4. UpsertedDocuments(r) = documents[e]
          BY <2>2, <4>1, <4>3 DEF UpsertedDocuments
        <4>5. documents'[e] = UpsertedDocuments(r)
          BY <1>2, <2>2 DEF Persist, LogTypeOK
        <4> QED
          BY <4>2, <4>4, <4>5
      <3> QED
        BY <1>1, <3>1, <3>2, <3>3, <3>4
    <2> QED
      BY <2>1, <2>2
  <1>3. CASE \E r \in Requests : FinalPosition(r) <= MaxPosition /\ Persist(r)
    BY <1>2, <1>3
  <1>4. CASE UNCHANGED logVars
    BY <1>1, <1>4 DEF logVars
  <1>5. CASE \E x \in Expeditions, u \in Users : ChangeActor(x, u)
    BY <1>4, <1>5 DEF ChangeActor
  <1> QED
    BY <1>3, <1>4, <1>5 DEF LogNext, storeVars

-----------------------------------------------------------------------------
(***************************************************************************)
(* Types, and the position as a version stamp                              *)
(***************************************************************************)

\* What an invocation holds after a step: nothing, what it held before, a request
\* that has just arrived, or its request with the context of this moment.
LEMMA FlightAfter ==
    ASSUME TypeOK, [Next]_gatewayVars, NEW w \in Workers
    PROVE  /\ DOMAIN flight' = Workers
           /\ \/ flight'[w] = Idle
              \/ flight'[w] = flight[w]
              \/ flight'[w] \in Arrivals
              \/ /\ flight[w].phase = "checked"
                 /\ flight'[w] = [flight[w] EXCEPT !.phase = "loaded",
                       !.context = CurrentContext(flight[w].expedition, flight[w].user)]
  <1>0. DOMAIN flight = Workers
    BY DEF TypeOK
  <1>1. ASSUME NEW v \in Workers, Receive(v)
        PROVE  \/ flight' = flight
               \/ \E f \in Arrivals : flight' = [flight EXCEPT ![v] = f]
    BY <1>1 DEF Receive
  <1>2. ASSUME NEW v \in Workers, LoadContext(v)
        PROVE  \/ flight' = [flight EXCEPT ![v] = Idle]
               \/ /\ flight[v].phase = "checked"
                  /\ flight' = [flight EXCEPT ![v] = [flight[v] EXCEPT !.phase = "loaded",
                        !.context = CurrentContext(flight[v].expedition, flight[v].user)]]
    <2>1. CASE Finish(v)
      BY <2>1 DEF Finish
    <2>2. CASE flight' = [flight EXCEPT ![v].phase = "loaded",
                 ![v].context = CurrentContext(flight[v].expedition, flight[v].user)]
      BY <1>0, <1>2, <2>2 DEF LoadContext
    <2> QED
      BY <1>2, <2>1, <2>2 DEF LoadContext
  <1>3. ASSUME NEW v \in Workers, Commit(v) \/ CommitWithoutWriting(v) \/ Abort(v)
        PROVE  flight' = [flight EXCEPT ![v] = Idle]
    BY <1>3 DEF Commit, CommitWithoutWriting, Abort, Finish
  <1>4. CASE OperatorChangesActor \/ UNCHANGED gatewayVars
    BY <1>0, <1>4 DEF OperatorChangesActor, gatewayVars
  <1>5. CASE \E v \in Workers : Receive(v)
    BY <1>0, <1>1, <1>5
  <1>6. CASE \E v \in Workers : LoadContext(v)
    <2>1. PICK v \in Workers : LoadContext(v)
      BY <1>6
    <2>2. CASE flight' = [flight EXCEPT ![v] = Idle]
      BY <1>0, <2>2
    <2>3. CASE /\ flight[v].phase = "checked"
               /\ flight' = [flight EXCEPT ![v] = [flight[v] EXCEPT !.phase = "loaded",
                        !.context = CurrentContext(flight[v].expedition, flight[v].user)]]
      <3>1. CASE w = v
        BY <1>0, <2>3, <3>1
      <3>2. CASE w # v
        BY <1>0, <2>3, <3>2
      <3> QED
        BY <3>1, <3>2
    <2> QED
      BY <1>2, <2>1, <2>2, <2>3
  <1>7. CASE \E v \in Workers : Commit(v) \/ CommitWithoutWriting(v) \/ Abort(v)
    BY <1>0, <1>3, <1>7
  <1> QED
    BY <1>4, <1>5, <1>6, <1>7 DEF Next

\* What LoadContext reads is a context.
LEMMA ContextTypes ==
    ASSUME LogTypeOK, NEW e \in Expeditions, NEW u \in Principals
    PROVE  CurrentContext(e, u) \in Contexts
  <1>1. u # System => u \in Users
    BY DEF Principals
  <1>2. (IF u = System THEN NoActor ELSE actor_contexts[e][u])
           \in ActorContexts \union {NoActor}
    BY <1>1 DEF LogTypeOK
  <1> QED
    BY <1>2 DEF LogTypeOK, CurrentContext, Contexts

LEMMA FlightStaysTyped ==
    ASSUME TypeOK, [Next]_gatewayVars
    PROVE  flight' \in [Workers -> Flights \union {Idle}]
  <1>1. ASSUME NEW w \in Workers
        PROVE  flight'[w] \in Flights \union {Idle}
    <2>1. CASE flight'[w] \in Arrivals
      BY <2>1 DEF Arrivals, Flights
    <2>2. CASE /\ flight[w].phase = "checked"
               /\ flight'[w] = [flight[w] EXCEPT !.phase = "loaded",
                       !.context = CurrentContext(flight[w].expedition, flight[w].user)]
      <3>1. flight[w] \in Flights
        BY <2>2, FlightTypes
      <3>2. CurrentContext(flight[w].expedition, flight[w].user) \in Contexts
        BY <3>1, ContextTypes DEF Flights, TypeOK
      <3> QED
        BY <2>2, <3>1, <3>2 DEF Flights
    <2> QED
      BY <2>1, <2>2, FlightAfter DEF TypeOK
  <1>2. CASE Workers # {}
    <2>1. DOMAIN flight' = Workers
      BY <1>2, FlightAfter
    <2>2. flight' = [w \in Workers |-> flight'[w]]
      BY <1>2 DEF TypeOK, Next, gatewayVars, Receive, LoadContext, Commit, Finish,
                  CommitWithoutWriting, Abort, OperatorChangesActor
    <2> QED
      BY <1>1, <2>1, <2>2
  <1>3. CASE Workers = {}
    BY <1>3 DEF TypeOK, Next, gatewayVars, OperatorChangesActor
  <1> QED
    BY <1>2, <1>3

LEMMA AnswersStayTyped ==
    ASSUME TypeOK, LoadedContexts, [Next]_gatewayVars
    PROVE  answers' \subseteq Answers
  <1>1. ASSUME NEW f \in Flights, NEW outcome \in {"accepted", "rejected", "conflict"},
               NEW persisted \in BOOLEAN, NEW position \in Nat, NEW version \in Nat,
               Answer(f, outcome, persisted, position, version)
        PROVE  answers' \subseteq Answers
    <2>1. f.command_id \in CommandIds /\ RequestHash(f.expedition, f.intent) \in RequestHashes
      BY DEF Flights, RequestHash, RequestHashes
    <2> QED
      BY <1>1, <2>1 DEF Answer, Answers, TypeOK
  <1>2. ASSUME NEW f \in Flights, HasReceipt(f), AnswerFromReceipt(f)
        PROVE  answers' \subseteq Answers
    <2>1. receipts[f.command_id] \in Receipts
      BY <1>2 DEF Flights, HasReceipt, TypeOK, LogTypeOK
    <2>2. /\ receipts[f.command_id].status \in {"accepted", "rejected", "conflict"}
          /\ receipts[f.command_id].stream_position \in Nat
          /\ receipts[f.command_id].projection_version \in Nat
      BY <2>1 DEF Receipts
    <2> QED
      BY <1>1, <1>2, <2>2 DEF AnswerFromReceipt
  <1>3. CASE UNCHANGED answers
    BY <1>3 DEF TypeOK
  <1>4. ASSUME NEW w \in Workers, Receive(w)
        PROVE  answers' \subseteq Answers
    <2>1. Arrivals \subseteq Flights
      BY DEF Arrivals, Flights
    <2> QED
      BY <1>2, <1>3, <1>4, <2>1 DEF Receive, IsReplay
  <1>5. ASSUME NEW w \in Workers, Commit(w)
        PROVE  answers' \subseteq Answers
    <2>1. PICK r \in PreparedRequests(flight[w]) :
             /\ FinalPosition(r) <= MaxPosition
             /\ Persist(r)
             /\ Answer(flight[w], r.status, TRUE, FinalPosition(r), FinalVersion(r))
      BY <1>5 DEF Commit
    <2>2. flight[w] \in Flights /\ r \in Requests
      BY <1>5, <2>1, FlightTypes, CommitRequest DEF Commit
    <2>3. FinalPosition(r) \in Nat /\ FinalVersion(r) \in Nat
      BY <2>1, <2>2, PersistWritesReceipt DEF TypeOK
    <2>4. r.status \in {"accepted", "rejected", "conflict"}
      BY <2>2 DEF Requests
    <2> QED
      BY <1>1, <2>1, <2>2, <2>3, <2>4
  <1>6. ASSUME NEW w \in Workers, CommitWithoutWriting(w)
        PROVE  answers' \subseteq Answers
    <2>1. PICK r \in PreparedRequests(flight[w]) :
             \/ IsReplay(r) /\ AnswerFromReceipt(flight[w])
             \/ UNCHANGED answers
             \/ AnswerUnpersisted(flight[w], "rejected")
             \/ AnswerUnpersisted(flight[w], "conflict")
      BY <1>6 DEF CommitWithoutWriting
    <2>2. flight[w] \in Flights
      BY <1>6, FlightTypes DEF CommitWithoutWriting
    <2>3. IsReplay(r) => HasReceipt(flight[w])
      BY DEF PreparedRequests, IsReplay, HasReceipt
    <2>4. /\ stream_heads[flight[w].expedition] \in Nat
          /\ projection_heads[flight[w].expedition] \in Nat
      BY <2>2 DEF Flights, TypeOK, LogTypeOK
    <2>5. ASSUME NEW outcome \in {"rejected", "conflict"},
                 AnswerUnpersisted(flight[w], outcome)
          PROVE  answers' \subseteq Answers
      BY <1>1, <2>2, <2>4, <2>5 DEF AnswerUnpersisted
    <2> QED
      BY <1>2, <1>3, <2>1, <2>2, <2>3, <2>5
  <1>7. CASE (\E w \in Workers : LoadContext(w) \/ Abort(w)) \/ OperatorChangesActor
                \/ UNCHANGED gatewayVars
    BY <1>3, <1>7 DEF LoadContext, Abort, OperatorChangesActor, gatewayVars
  <1> QED
    BY <1>4, <1>5, <1>6, <1>7 DEF Next

\* Only LoadContext gives an invocation a context.
LEMMA LoadedByItself ==
    ASSUME TypeOK, [Next]_gatewayVars, NEW w \in Workers,
           flight[w].phase = "checked", flight'[w].phase = "loaded"
    PROVE  LoadContext(w)
  <1>1. CASE UNCHANGED flight
    BY <1>1
  <1>2. ASSUME NEW v \in Workers, Receive(v)
        PROVE  flight'[w].phase # "loaded"
    BY <1>2 DEF Receive, Arrivals, TypeOK
  <1>3. ASSUME NEW v \in Workers, Finish(v)
        PROVE  flight'[w].phase # "loaded"
    BY <1>3 DEF Finish, Idle, TypeOK
  <1>4. ASSUME NEW v \in Workers, v # w, LoadContext(v)
        PROVE  flight'[w].phase # "loaded"
    BY <1>3, <1>4 DEF LoadContext, TypeOK
  <1> QED
    BY <1>1, <1>2, <1>3, <1>4
       DEF Next, Commit, CommitWithoutWriting, Abort, OperatorChangesActor, gatewayVars

\* A context that was loaded names a position the stream has reached, and as long as
\* the stream stays there, what it was loaded with is current.
LEMMA StampsStep ==
    ASSUME TypeOK, LoadedContexts, PositionStampsContext, [Next]_gatewayVars
    PROVE  LoadedContexts' /\ PositionStampsContext'
  <1> SUFFICES ASSUME NEW w \in Workers, flight'[w].phase = "loaded"
               PROVE  LET f == flight'[w]
                      IN  /\ f.context \in Contexts
                          /\ f.context.stream_position <= stream_heads'[f.expedition]
                          /\ f.context.stream_position = stream_heads'[f.expedition] =>
                                /\ f.context.projection_version = projection_heads'[f.expedition]
                                /\ f.context.documents = documents'[f.expedition]
    BY DEF LoadedContexts, PositionStampsContext
  <1>1. [LogNext]_storeVars /\ LogTypeOK /\ LogTypeOK'
    BY GatewayStepIsLogStep, LogStepKeepsTypes DEF TypeOK
  <1>2. CASE flight'[w] = flight[w]
    <2> DEFINE e == flight[w].expedition
               at == flight[w].context.stream_position
    <2>1. flight[w] \in Flights
      BY <1>2, FlightTypes
    <2>2. e \in Expeditions /\ flight[w].context \in Contexts /\ at <= stream_heads[e]
      BY <1>2, <2>1 DEF Flights, LoadedContexts
    <2>3. at \in Nat /\ stream_heads[e] \in Nat /\ stream_heads'[e] \in Nat
      BY <1>1, <2>2 DEF Contexts, LogTypeOK
    <2>4. stream_heads[e] <= stream_heads'[e]
      BY <1>1, <2>2, HeadsAdvance
    <2>5. at <= stream_heads'[e]
      BY <2>2, <2>3, <2>4
    <2>6. at = stream_heads'[e] =>
             /\ flight[w].context.projection_version = projection_heads'[e]
             /\ flight[w].context.documents = documents'[e]
      <3>1. SUFFICES ASSUME at = stream_heads'[e]
                     PROVE  /\ flight[w].context.projection_version = projection_heads'[e]
                            /\ flight[w].context.documents = documents'[e]
        OBVIOUS
      <3>2. at = stream_heads[e] /\ stream_heads'[e] = stream_heads[e]
        BY <2>2, <2>3, <2>4, <3>1
      <3>3. /\ flight[w].context.projection_version = projection_heads[e]
            /\ flight[w].context.documents = documents[e]
        BY <1>2, <3>2 DEF PositionStampsContext
      <3>4. projection_heads'[e] = projection_heads[e] /\ documents'[e] = documents[e]
        BY <1>1, <2>2, <3>2, HeadsAdvance
      <3> QED
        BY <3>3, <3>4
    <2> QED
      BY <1>2, <2>2, <2>5, <2>6
  <1>3. CASE /\ flight[w].phase = "checked"
             /\ flight'[w] = [flight[w] EXCEPT !.phase = "loaded",
                     !.context = CurrentContext(flight[w].expedition, flight[w].user)]
    <2> DEFINE e == flight[w].expedition
               context == CurrentContext(e, flight[w].user)
    <2>1. flight[w] \in Flights
      BY <1>3, FlightTypes
    <2>2. e \in Expeditions /\ context \in Contexts
      BY <2>1, ContextTypes DEF Flights, TypeOK
    <2>3. flight'[w].expedition = e /\ flight'[w].context = context
      BY <1>3, <2>1 DEF Flights
    <2>4. LoadContext(w)
      BY <1>3, LoadedByItself
    <2>5. UNCHANGED logVars
      BY <2>4 DEF LoadContext, storeVars
    <2>6. stream_heads'[e] \in Nat
      BY <1>1, <2>2 DEF LogTypeOK
    <2> QED
      BY <2>2, <2>3, <2>5, <2>6 DEF CurrentContext, logVars
  <1>4. flight'[w] # Idle /\ flight'[w] \notin Arrivals
    BY DEF Idle, Arrivals
  <1> QED
    BY <1>2, <1>3, <1>4, FlightAfter

LEMMA GatewayInvariant ==
    Spec => [](TypeOK /\ LoadedContexts /\ PositionStampsContext)
  <1>1. Init => TypeOK /\ LoadedContexts /\ PositionStampsContext
    <2>1. Init => TypeOK
      BY TypeInit DEF Init, TypeOK
    <2> QED
      BY <2>1 DEF Init, LoadedContexts, PositionStampsContext, Idle
  <1>2. ASSUME TypeOK, LoadedContexts, PositionStampsContext, [Next]_gatewayVars
        PROVE  TypeOK' /\ LoadedContexts' /\ PositionStampsContext'
    <2>1. LogTypeOK'
      BY <1>2, GatewayStepIsLogStep, LogStepKeepsTypes DEF TypeOK
    <2>2. TypeOK'
      BY <1>2, <2>1, FlightStaysTyped, AnswersStayTyped DEF TypeOK
    <2> QED
      BY <1>2, <2>2, StampsStep
  <1> QED
    BY <1>1, <1>2, PTL DEF Spec

\* The tables, the invocations and the answers keep their types.
THEOREM GatewayTypeCorrect == Spec => []TypeOK
  BY GatewayInvariant, PTL

\* A loaded context whose position is still the head of the stream is current: one
\* number stands for everything a reducer has read.
THEOREM PositionIsStamp == Spec => []PositionStampsContext
  BY GatewayInvariant, PTL

\* Whatever invocations race, repeat or are cut off, the store sees only calls of
\* process_command and changes of actors: all that CommandLogProofs shows of LogSpec
\* holds behind the gateway.
THEOREM GatewayUsesLog == Spec => LogSpec
  <1>1. Init => LogInit
    BY DEF Init
  <1>2. TypeOK /\ LoadedContexts /\ [Next]_gatewayVars => [LogNext]_storeVars
    BY GatewayStepIsLogStep
  <1> QED
    BY <1>1, <1>2, GatewayInvariant, PTL DEF Spec, LogSpec

-----------------------------------------------------------------------------
(***************************************************************************)
(* Decisions and answers                                                   *)
(***************************************************************************)

LEMMA DecisionIsCurrent ==
    ASSUME TypeOK, LoadedContexts, PositionStampsContext, NEW w \in Workers,
           Commit(w), NEW c \in CommandIds, receipts'[c] # receipts[c]
    PROVE  LET f == flight[w]
           IN  /\ f.phase = "loaded"
               /\ f.command_id = c
               /\ f.context.documents = documents[f.expedition]
               /\ f.context.projection_version = projection_heads[f.expedition]
               /\ f.user # System =>
                     /\ actor_contexts[f.expedition][f.user] # NoActor
                     /\ actor_contexts[f.expedition][f.user] = receipts'[c].actor
  <1>1. PICK r \in PreparedRequests(flight[w]) :
           FinalPosition(r) <= MaxPosition /\ Persist(r)
    BY DEF Commit
  <1>2. flight[w].phase = "loaded"
    BY DEF Commit
  <1>3. /\ r \in Requests /\ r.command_id = flight[w].command_id
        /\ r.expedition = flight[w].expedition /\ r.user = flight[w].user
        /\ flight[w].context.stream_position = stream_heads[r.expedition]
    BY <1>1, <1>2, CommitRequest
  <1>4. r.command_id = c /\ receipts'[c] = NewReceipt(r)
    BY <1>1, <1>3, PersistAddsOneReceipt DEF TypeOK
  <1>5. /\ flight[w].context.documents = documents[flight[w].expedition]
        /\ flight[w].context.projection_version = projection_heads[flight[w].expedition]
    BY <1>2, <1>3 DEF PositionStampsContext
  <1>6. r.user # System =>
           r.actor # NoActor /\ r.actor = actor_contexts[r.expedition][r.user]
    BY <1>1 DEF Persist, Persists, ActorMatches
  <1>7. receipts'[c].actor = r.actor
    BY <1>4 DEF NewReceipt
  <1> QED
    BY <1>2, <1>3, <1>4, <1>5, <1>6, <1>7

\* What becomes durable was decided on the documents of the moment it is stored, for
\* somebody who still is the actor it was decided for.
THEOREM DecisionsAreCurrent == Spec => DecisionsUseCurrentState
  <1>1. ASSUME TypeOK, LoadedContexts, PositionStampsContext, [Next]_gatewayVars,
               NEW c \in CommandIds, receipts'[c] # receipts[c]
        PROVE  \E w \in Workers :
                  LET f == flight[w]
                  IN  /\ f.phase = "loaded"
                      /\ f.command_id = c
                      /\ f.context.documents = documents[f.expedition]
                      /\ f.context.projection_version = projection_heads[f.expedition]
                      /\ f.user # System =>
                            /\ actor_contexts[f.expedition][f.user] # NoActor
                            /\ actor_contexts[f.expedition][f.user] = receipts'[c].actor
    <2>1. UNCHANGED storeVars \/ OperatorChangesActor => UNCHANGED receipts
      BY DEF OperatorChangesActor, ChangeActor, storeVars, logVars
    <2>2. PICK w \in Workers : Commit(w)
      BY <1>1, <2>1, StepKinds
    <2> QED
      BY <1>1, <2>2, DecisionIsCurrent
  <1>2. /\ TypeOK /\ LoadedContexts /\ PositionStampsContext
        /\ [Next]_gatewayVars
        => [\A c \in CommandIds : receipts'[c] # receipts[c] =>
               \E w \in Workers :
                  LET f == flight[w]
                  IN  /\ f.phase = "loaded"
                      /\ f.command_id = c
                      /\ f.context.documents = documents[f.expedition]
                      /\ f.context.projection_version = projection_heads[f.expedition]
                      /\ f.user # System =>
                            /\ actor_contexts[f.expedition][f.user] # NoActor
                            /\ actor_contexts[f.expedition][f.user]
                                  = receipts'[c].actor]_gatewayVars
    BY <1>1
  <1> QED
    BY <1>2, GatewayInvariant, PTL DEF Spec, DecisionsUseCurrentState

\* A receipt, once there, stays as it is.
LEMMA ReceiptsStay ==
    ASSUME TypeOK, LoadedContexts, [Next]_gatewayVars,
           NEW c \in CommandIds, receipts[c] # NoReceipt
    PROVE  receipts'[c] = receipts[c]
  <1>1. UNCHANGED storeVars \/ OperatorChangesActor => UNCHANGED receipts
    BY DEF OperatorChangesActor, ChangeActor, storeVars, logVars
  <1>2. CASE \E r \in Requests : Persist(r)
    BY <1>2, PersistAddsOneReceipt DEF TypeOK
  <1>3. [LogNext]_storeVars
    BY GatewayStepIsLogStep
  <1>4. CASE \E e \in Expeditions, u \in Users : ChangeActor(e, u)
    BY <1>4 DEF ChangeActor, logVars
  <1> QED
    BY <1>1, <1>2, <1>3, <1>4 DEF LogNext

\* A receipt is stored under the Expedition that its hash names.
HashesNameExpeditions ==
    \A c \in CommandIds : receipts[c] # NoReceipt =>
        \E i \in Intents :
            receipts[c].request_hash = RequestHash(receipts[c].expedition, i)

LEMMA HashesStep ==
    ASSUME TypeOK, LoadedContexts, HashesNameExpeditions, [Next]_gatewayVars
    PROVE  HashesNameExpeditions'
  <1>1. UNCHANGED storeVars \/ OperatorChangesActor => UNCHANGED receipts
    BY DEF OperatorChangesActor, ChangeActor, storeVars, logVars
  <1>2. CASE UNCHANGED receipts
    BY <1>2 DEF HashesNameExpeditions
  <1>3. ASSUME NEW w \in Workers, Commit(w)
        PROVE  HashesNameExpeditions'
    <2>1. PICK r \in PreparedRequests(flight[w]) :
             FinalPosition(r) <= MaxPosition /\ Persist(r)
      BY <1>3 DEF Commit
    <2>2. r \in Requests
      BY <1>3, <2>1, CommitRequest DEF Commit
    <2>3. /\ receipts'[r.command_id] = NewReceipt(r)
          /\ \A c \in CommandIds \ {r.command_id} : receipts'[c] = receipts[c]
      BY <2>1, <2>2, PersistAddsOneReceipt DEF TypeOK
    <2>4. /\ NewReceipt(r).request_hash = RequestHash(NewReceipt(r).expedition, r.intent)
          /\ r.intent \in Intents
      BY <2>2 DEF NewReceipt, Requests
    <2> QED
      BY <2>3, <2>4 DEF HashesNameExpeditions
  <1> QED
    BY <1>1, <1>2, <1>3, StepKinds

\* What an answer other than a conflict says of the receipt of its command id.
Tells(a, stored) ==
    /\ stored # NoReceipt
    /\ IF a.persisted
       THEN /\ stored.request_hash = a.request_hash
            /\ stored.status = a.outcome
            /\ stored.stream_position = a.stream_position
            /\ stored.projection_version = a.projection_version
       ELSE /\ a.outcome = "rejected"
            /\ stored.request_hash # a.request_hash

LEMMA NewAnswerTold ==
    ASSUME TypeOK, LoadedContexts, HashesNameExpeditions, [Next]_gatewayVars,
           NEW a \in answers' \ answers, a.outcome # "conflict"
    PROVE  Tells(a, receipts'[a.command_id])
  <1>1. ASSUME NEW f \in Flights, IsReplay(f), AnswerFromReceipt(f), UNCHANGED receipts
        PROVE  Tells(a, receipts'[a.command_id])
    <2>1. a = [command_id |-> f.command_id,
               request_hash |-> RequestHash(f.expedition, f.intent),
               outcome |-> receipts[f.command_id].status,
               persisted |-> TRUE,
               stream_position |-> receipts[f.command_id].stream_position,
               projection_version |-> receipts[f.command_id].projection_version]
      BY <1>1 DEF AnswerFromReceipt, Answer
    <2> QED
      BY <1>1, <2>1 DEF IsReplay, HasReceipt, Tells
  <1>2. ASSUME NEW w \in Workers, Receive(w)
        PROVE  Tells(a, receipts'[a.command_id])
    <2>1. Arrivals \subseteq Flights
      BY DEF Arrivals, Flights
    <2> QED
      BY <1>1, <1>2, <2>1 DEF Receive, storeVars, logVars
  <1>3. ASSUME NEW w \in Workers, Commit(w)
        PROVE  Tells(a, receipts'[a.command_id])
    <2>1. PICK r \in PreparedRequests(flight[w]) :
             /\ FinalPosition(r) <= MaxPosition
             /\ Persist(r)
             /\ Answer(flight[w], r.status, TRUE, FinalPosition(r), FinalVersion(r))
      BY <1>3 DEF Commit
    <2>2. /\ r \in Requests /\ r.command_id = flight[w].command_id
          /\ r.expedition = flight[w].expedition /\ r.intent = flight[w].intent
      BY <1>3, <2>1, CommitRequest DEF Commit
    <2>3. a = [command_id |-> flight[w].command_id,
               request_hash |-> RequestHash(flight[w].expedition, flight[w].intent),
               outcome |-> r.status, persisted |-> TRUE,
               stream_position |-> FinalPosition(r),
               projection_version |-> FinalVersion(r)]
      BY <2>1 DEF Answer
    <2>4. receipts'[a.command_id] = NewReceipt(r) /\ NewReceipt(r) # NoReceipt
      BY <2>1, <2>2, <2>3, PersistAddsOneReceipt, PersistWritesReceipt DEF TypeOK
    <2> QED
      BY <2>2, <2>3, <2>4 DEF NewReceipt, Tells
  <1>4. ASSUME NEW w \in Workers, CommitWithoutWriting(w)
        PROVE  Tells(a, receipts'[a.command_id])
    <2>1. PICK r \in PreparedRequests(flight[w]) :
             \/ IsReplay(r) /\ AnswerFromReceipt(flight[w])
             \/ /\ HasReceipt(r) /\ ~IsReplay(r)
                /\ AnswerUnpersisted(flight[w], "rejected")
             \/ UNCHANGED answers
             \/ AnswerUnpersisted(flight[w], "conflict")
      BY <1>4 DEF CommitWithoutWriting
    <2>2. flight[w] \in Flights
      BY <1>4, FlightTypes DEF CommitWithoutWriting
    <2>3. UNCHANGED receipts
      BY <1>4 DEF CommitWithoutWriting, storeVars, logVars
    <2>4. /\ IsReplay(r) <=> IsReplay(flight[w])
          /\ HasReceipt(r) <=> HasReceipt(flight[w])
      BY DEF PreparedRequests, IsReplay, HasReceipt
    <2>5. ~AnswerUnpersisted(flight[w], "conflict")
      BY DEF AnswerUnpersisted, Answer
    <2>6. ASSUME HasReceipt(flight[w]), ~IsReplay(flight[w]),
                 AnswerUnpersisted(flight[w], "rejected")
          PROVE  Tells(a, receipts'[a.command_id])
      <3> DEFINE f == flight[w]
                 stored == receipts[f.command_id]
      <3>1. /\ a.command_id = f.command_id
            /\ a.request_hash = RequestHash(f.expedition, f.intent)
            /\ a.outcome = "rejected" /\ a.persisted = FALSE
        BY <2>6 DEF AnswerUnpersisted, Answer
      <3>2. stored # NoReceipt /\ f.command_id \in CommandIds
        BY <2>2, <2>6 DEF HasReceipt, Flights
      <3>3. PICK i \in Intents : stored.request_hash = RequestHash(stored.expedition, i)
        BY <3>2 DEF HashesNameExpeditions
      <3>4. stored.request_hash # RequestHash(f.expedition, f.intent)
        BY <2>6, <3>3 DEF IsReplay, RequestHash
      <3> QED
        BY <2>3, <3>1, <3>2, <3>4 DEF Tells
    <2> QED
      BY <1>1, <2>1, <2>2, <2>3, <2>4, <2>5, <2>6
  <1>5. answers' # answers
    OBVIOUS
  <1> QED
    BY <1>2, <1>3, <1>4, <1>5
       DEF Next, LoadContext, Abort, OperatorChangesActor, gatewayVars

AllTold == \A a \in answers : a.outcome # "conflict" => Tells(a, receipts[a.command_id])

\* Answers that are told by one receipt agree.
LEMMA ToldAgree ==
    ASSUME AllTold, TypeOK
    PROVE  AnswersAreReceipts
  <1>1. ASSUME NEW a \in answers, NEW b \in answers, a.command_id = b.command_id,
               a.request_hash = b.request_hash, a.outcome # "conflict",
               b.outcome # "conflict"
        PROVE  a.outcome = b.outcome
    <2>1. /\ Tells(a, receipts[a.command_id])
          /\ Tells(b, receipts[a.command_id])
      BY <1>1 DEF AllTold
    <2> QED
      BY <1>1, <2>1 DEF Tells
  <1>2. ASSUME NEW a \in answers, a.outcome # "conflict"
        PROVE  Tells(a, receipts[a.command_id])
    BY <1>2 DEF AllTold
  <1> QED
    BY <1>1, <1>2 DEF AnswersAreReceipts, Tells

\* Whoever is told "accepted", or "rejected" and persisted, is told what the log holds;
\* whoever is told "rejected" of what is not persisted has lost the command id to
\* another request for good; and no two are told different outcomes of one request.
THEOREM AnswersAreTold == Spec => []AnswersAreReceipts
  <1>1. Init => AllTold /\ HashesNameExpeditions
    BY DEF Init, LogInit, AllTold, HashesNameExpeditions
  <1>2. ASSUME TypeOK, LoadedContexts, AllTold, HashesNameExpeditions,
               [Next]_gatewayVars
        PROVE  AllTold' /\ HashesNameExpeditions'
    <2>1. HashesNameExpeditions'
      BY <1>2, HashesStep
    <2>2. ASSUME NEW a \in answers', a.outcome # "conflict"
          PROVE  Tells(a, receipts'[a.command_id])
      <3>1. CASE a \in answers
        <4>1. Tells(a, receipts[a.command_id])
          BY <1>2, <2>2, <3>1 DEF AllTold
        <4>2. a.command_id \in CommandIds
          BY <1>2, <3>1 DEF TypeOK, Answers
        <4>3. receipts'[a.command_id] = receipts[a.command_id]
          BY <1>2, <4>1, <4>2, ReceiptsStay DEF Tells
        <4> QED
          BY <4>1, <4>3
      <3>2. CASE a \notin answers
        BY <1>2, <2>2, <3>2, NewAnswerTold
      <3> QED
        BY <3>1, <3>2
    <2> QED
      BY <2>1, <2>2 DEF AllTold
  <1>3. AllTold /\ TypeOK => AnswersAreReceipts
    BY ToldAgree
  <1> QED
    BY <1>1, <1>2, <1>3, GatewayInvariant, PTL DEF Spec
=============================================================================
