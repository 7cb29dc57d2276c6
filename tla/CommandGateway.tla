---------------------------- MODULE CommandGateway ----------------------------
(***************************************************************************)
(* The Edge Function in front of the store: invocations of                 *)
(* createCommandGatewayHandler (supabase/functions/_shared/command-gateway *)
(* /handler.ts).  An invocation looks the receipt up, loads its context,   *)
(* reduces the command against that context and calls process_command.     *)
(* These are three transactions: other invocations and the operators who   *)
(* manage memberships run between them, and an invocation may be cut off,  *)
(* or its answer lost, at any point.                                       *)
(***************************************************************************)
EXTENDS CommandLog

CONSTANTS
    Workers,   \* invocations that may be in flight at once
    NoContext

Contexts ==
    [stream_position: Nat, projection_version: Nat,
     documents: [ProjectionKeys -> Documents \union {NoDocument}],
     actor: ActorContexts \union {NoActor}]

Flights ==
    [phase: {"checked", "loaded"}, command_id: CommandIds, expedition: Expeditions,
     intent: Intents, user: Principals, context: Contexts \union {NoContext}]

Idle == [phase |-> "idle"]

Answers ==
    [command_id: CommandIds, request_hash: RequestHashes,
     outcome: {"accepted", "rejected", "conflict"}, persisted: BOOLEAN,
     stream_position: Nat, projection_version: Nat]

VARIABLES
    flight,   \* what each invocation is doing
    answers   \* results of process_command that have reached a client

gatewayVars == <<storeVars, flight, answers>>

TypeOK ==
    /\ LogTypeOK
    /\ flight \in [Workers -> Flights \union {Idle}]
    /\ answers \subseteq Answers

Init ==
    /\ LogInit
    /\ flight = [w \in Workers |-> Idle]
    /\ answers = {}

-----------------------------------------------------------------------------

Finish(w) == flight' = [flight EXCEPT ![w] = Idle]

\* The answer reaches the client or is lost on the way.
Answer(f, outcome, persisted, position, version) ==
    \/ answers' = answers \union
          {[command_id |-> f.command_id,
            request_hash |-> RequestHash(f.expedition, f.intent),
            outcome |-> outcome,
            persisted |-> persisted,
            stream_position |-> position,
            projection_version |-> version]}
    \/ UNCHANGED answers

AnswerFromReceipt(f) ==
    LET stored == receipts[f.command_id]
    IN  Answer(f, stored.status, TRUE, stored.stream_position, stored.projection_version)

\* A result that is not stored: it carries the heads of the moment.
AnswerUnpersisted(f, outcome) ==
    Answer(f, outcome, FALSE, stream_heads[f.expedition], projection_heads[f.expedition])

\* A request that has been validated and authenticated (or carries the signature of
\* the system clock).  Clients retry: the same command may arrive any number of
\* times, while an earlier delivery is still being handled.
Arrivals ==
    [phase: {"checked"}, command_id: CommandIds, expedition: Expeditions,
     intent: Intents, user: Principals, context: {NoContext}]

\* A request arrives and its receipt is looked up.  No receipt: the invocation goes
\* on.  The receipt of another payload or another user: refused.  Its own receipt:
\* the author gets the original result.
Receive(w) ==
    /\ flight[w].phase = "idle"
    /\ \E f \in Arrivals :
          \/ /\ ~HasReceipt(f)
             /\ flight' = [flight EXCEPT ![w] = f]
             /\ UNCHANGED answers
          \/ /\ HasReceipt(f)
             /\ ~(IsReplay(f) /\ receipts[f.command_id].user = f.user)
             /\ UNCHANGED <<flight, answers>>
          \/ /\ IsReplay(f)
             /\ receipts[f.command_id].user = f.user
             /\ AnswerFromReceipt(f)
             /\ UNCHANGED flight
    /\ UNCHANGED storeVars

\* One statement reads the position, the version, the documents and the actor.
CurrentContext(e, u) ==
    [stream_position |-> stream_heads[e],
     projection_version |-> projection_heads[e],
     documents |-> documents[e],
     actor |-> IF u = System THEN NoActor ELSE actor_contexts[e][u]]

\* Without an active membership the command is refused.
LoadContext(w) ==
    LET f == flight[w]
        context == CurrentContext(f.expedition, f.user)
    IN  /\ f.phase = "checked"
        /\ \/ /\ f.user # System /\ context.actor = NoActor
              /\ Finish(w)
           \/ /\ f.user = System \/ context.actor # NoActor
              /\ flight' = [flight EXCEPT ![w].phase = "loaded",
                                          ![w].context = context]
        /\ UNCHANGED <<storeVars, answers>>

\* The request built from the loaded context; the reducer's verdict is any
\* well-formed one.
PreparedRequests(f) ==
    {r \in [command_id: {f.command_id}, expedition: {f.expedition},
            intent: {f.intent}, user: {f.user}, actor: {f.context.actor},
            expected: {f.context.stream_position},
            status: {"accepted", "rejected"}, batch: 0..MaxBatch,
            mutations: SUBSET ProjectionKeys] : WellFormed(r)}

\* process_command decides.
Commit(w) ==
    LET f == flight[w]
    IN  /\ f.phase = "loaded"
        /\ \E r \in PreparedRequests(f) :
              /\ FinalPosition(r) <= MaxPosition
              /\ Persist(r)
              /\ Answer(f, r.status, TRUE, FinalPosition(r), FinalVersion(r))
        /\ Finish(w)

\* Or process_command answers without writing.  In the meantime another delivery may
\* have left its receipt, which is replayed, or another request may have taken the
\* id: that is a rejection of which nothing is stored.  The actor may have changed,
\* an exception (reported as retryable), or the stream have moved, a conflict.
CommitWithoutWriting(w) ==
    LET f == flight[w]
    IN  /\ f.phase = "loaded"
        /\ \E r \in PreparedRequests(f) :
              \/ IsReplay(r) /\ AnswerFromReceipt(f)
              \/ HasReceipt(r) /\ ~IsReplay(r) /\ AnswerUnpersisted(f, "rejected")
              \/ ~HasReceipt(r) /\ ~ActorMatches(r) /\ UNCHANGED answers
              \/ IsConflict(r) /\ AnswerUnpersisted(f, "conflict")
        /\ Finish(w)
        /\ UNCHANGED storeVars

\* The function is stopped, or a database call fails.
Abort(w) ==
    /\ flight[w].phase # "idle"
    /\ Finish(w)
    /\ UNCHANGED <<storeVars, answers>>

OperatorChangesActor ==
    /\ \E e \in Expeditions, u \in Users : ChangeActor(e, u)
    /\ UNCHANGED <<flight, answers>>

Next ==
    \/ \E w \in Workers :
          \/ Receive(w) \/ LoadContext(w)
          \/ Commit(w) \/ CommitWithoutWriting(w) \/ Abort(w)
    \/ OperatorChangesActor

Spec == Init /\ [][Next]_gatewayVars

-----------------------------------------------------------------------------
(***************************************************************************)
(* Safety                                                                  *)
(***************************************************************************)

\* The position a reducer worked from is a version stamp for everything it read: if
\* the stream has not moved since the context was loaded, neither has any document
\* nor the projection version.  It is why comparing one number in process_command
\* is enough, though rejections are stored and contexts are read long before.
PositionStampsContext ==
    \A w \in Workers :
        LET f == flight[w]
        IN  f.phase = "loaded" /\ f.context.stream_position = stream_heads[f.expedition]
              => /\ f.context.projection_version = projection_heads[f.expedition]
                 /\ f.context.documents = documents[f.expedition]

\* Every decision that becomes durable was reduced from the documents of the moment
\* it is stored, and for a user who at that moment still is the actor it was
\* reduced for: nothing read before process_command is used after it went stale.
DecisionsUseCurrentState ==
    [][\A c \in CommandIds : receipts'[c] # receipts[c] =>
          \E w \in Workers :
             LET f == flight[w]
             IN  /\ f.phase = "loaded"
                 /\ f.command_id = c
                 /\ f.context.documents = documents[f.expedition]
                 /\ f.context.projection_version = projection_heads[f.expedition]
                 /\ f.user # System =>
                       /\ actor_contexts[f.expedition][f.user] # NoActor
                       /\ actor_contexts[f.expedition][f.user] = receipts'[c].actor]_gatewayVars

\* Whatever deliveries, retries, races and lost answers there were: an answer marked
\* "persisted" is the durable receipt of that very request, "accepted" never comes
\* without it, and a rejection that is not persisted means that the id is durably
\* taken by another request, so that this one can never enter the log.  Two clients
\* may hold different outcomes of one command id, never of one request.
AnswersAreReceipts ==
    /\ \A a \in answers : a.outcome # "conflict" =>
          LET stored == receipts[a.command_id]
          IN  /\ stored # NoReceipt
              /\ IF a.persisted
                 THEN /\ stored.request_hash = a.request_hash
                      /\ stored.status = a.outcome
                      /\ stored.stream_position = a.stream_position
                      /\ stored.projection_version = a.projection_version
                 ELSE /\ a.outcome = "rejected"
                      /\ stored.request_hash # a.request_hash
    /\ \A a, b \in answers :
          /\ a.command_id = b.command_id /\ a.request_hash = b.request_hash
          /\ a.outcome # "conflict" /\ b.outcome # "conflict"
          => a.outcome = b.outcome
=============================================================================
