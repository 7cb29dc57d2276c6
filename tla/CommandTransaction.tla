-------------------------- MODULE CommandTransaction --------------------------
(***************************************************************************)
(* private.process_command statement by statement, as database sessions    *)
(* run it next to each other under READ COMMITTED: advisory locks, the     *)
(* reads that decide, the row lock of the stream head, uncommitted rows,   *)
(* commit and release of the locks.  CommandLog calls all of this one      *)
(* step; here it is shown to be one (ImplementsLog).  Source:              *)
(* supabase/migrations/20260720190000_atomic_command_transaction.sql and   *)
(* 20260720170000_immutable_history.sql, called by itself or at the end of *)
(* a wrapper: private.invite_participant takes a further advisory lock,    *)
(* private.process_day_boundary locks the two heads in the other order.    *)
(*                                                                         *)
(* The tables of CommandLog are what is committed.  Operators change what  *)
(* an actor resolves to at any time and take none of these locks.          *)
(***************************************************************************)
EXTENDS CommandLog, Sequences

CONSTANT Sessions    \* connections of the gateway's pools

VARIABLE session     \* what the transaction of each connection is doing

txVars == <<storeVars, session>>

Wrappers == {"invite_participant", "process_day_boundary"}

Operations == Wrappers \union {"process_command"}

Idle == [phase |-> "idle"]

CommandLock(r) == <<"command", r.command_id>>
ExpeditionLock(r) == <<"expedition", r.expedition>>
EmailLock(r) == <<"invitation-email", r.expedition>>

\* Mutants of LocksOf: the command alone is locked; the boundary starts with the
\* Expedition.
LocksOfCommand(op, r) == <<CommandLock(r)>>

LocksOfBoundaryReversed(op, r) ==
    CASE op = "invite_participant" -> <<CommandLock(r), ExpeditionLock(r), EmailLock(r)>>
      [] op = "process_day_boundary" -> <<ExpeditionLock(r), CommandLock(r)>>
      [] OTHER -> <<CommandLock(r), ExpeditionLock(r)>>

\* The advisory locks in the order they are asked for; the second request of a
\* wrapper for a lock that its transaction holds is granted at once.  One address
\* per Expedition is enough: sessions that ask for the lock hold the Expedition's.
LocksOf(op, r) ==
    IF op = "invite_participant"
    THEN <<CommandLock(r), ExpeditionLock(r), EmailLock(r)>>
    ELSE <<CommandLock(r), ExpeditionLock(r)>>

Phases == {"locking", "new", "surveyed", "authorized", "positioned", "versioned",
           "written", "committed"}

Transactions ==
    [phase: Phases, op: Operations, request: Requests, taken: Nat,
     position: Nat, version: Nat]

Active(s) == session[s] # Idle

\* Advisory locks are kept to the end of the transaction.
Holds(s, lock) ==
    Active(s) /\ \E n \in 1..session[s].taken :
                    lock = LocksOf(session[s].op, session[s].request)[n]

\* assert_expected_stream_position selects the stream head FOR UPDATE.
HoldsStreamHead(s, e) ==
    /\ session[s].phase \in {"positioned", "versioned", "written", "committed"}
    /\ session[s].request.expedition = e

\* So does process_command with the projection head, after it, and
\* process_day_boundary before it.
HoldsProjectionHead(s, e) ==
    /\ \/ session[s].phase \in {"versioned", "written", "committed"}
       \/ /\ session[s].phase \in {"surveyed", "authorized", "positioned"}
          /\ session[s].op = "process_day_boundary"
    /\ session[s].request.expedition = e

TypeOK ==
    /\ LogTypeOK
    /\ session \in [Sessions -> Transactions \union {Idle}]

Init == LogInit /\ session = [s \in Sessions |-> Idle]

-----------------------------------------------------------------------------
(***************************************************************************)
(* The statements                                                          *)
(***************************************************************************)

\* The gateway builds the request from a context it has loaded, so the position is not
\* ahead of the stream.  The two wrappers take accepted decisions only, of a Captain
\* and of the system clock, which sends no other command.
Begin(s) ==
    /\ session[s] = Idle
    /\ \E op \in Operations, r \in Requests :
          /\ WellFormed(r)
          /\ (r.user = System) <=> (r.actor = NoActor)
          /\ op \in Wrappers => r.status = "accepted" /\ r.mutations # {}
          /\ (op = "process_day_boundary") <=> (r.user = System)
          /\ r.expected <= stream_heads[r.expedition]
          /\ r.expected + r.batch <= MaxPosition
          /\ session' = [session EXCEPT ![s] =
                [phase |-> "locking", op |-> op, request |-> r, taken |-> 0,
                 position |-> 0, version |-> 0]]
    /\ UNCHANGED storeVars

WantsLock(s) ==
    /\ session[s].phase = "locking"
    /\ session[s].taken < Len(LocksOf(session[s].op, session[s].request))

NextLock(s) == LocksOf(session[s].op, session[s].request)[session[s].taken + 1]

TakeLock(s) ==
    /\ WantsLock(s)
    /\ \A other \in Sessions \ {s} : ~Holds(other, NextLock(s))
    /\ session' = [session EXCEPT ![s].taken = @ + 1]
    /\ UNCHANGED storeVars

\* The transaction at a statement, with what it has read.
At(t, phase, position, version) ==
    [phase |-> phase, op |-> t.op, request |-> t.request, taken |-> t.taken,
     position |-> position, version |-> version]

Advance(s, phase) ==
    session' = [session EXCEPT ![s] = At(@, phase, @.position, @.version)]

HasLocks(s) == session[s].phase = "locking" /\ ~WantsLock(s)

FindNoReceipt(s) ==
    /\ HasLocks(s)
    /\ ~HasReceipt(session[s].request)
    /\ Advance(s, "new")
    /\ UNCHANGED storeVars

Stream(s) == session[s].request.expedition

StreamHeadFree(s) == \A other \in Sessions \ {s} : ~HoldsStreamHead(other, Stream(s))

ProjectionHeadFree(s) ==
    \A other \in Sessions \ {s} : ~HoldsProjectionHead(other, Stream(s))

\* A wrapper reads both heads for the checks it makes before and after process_command.
Surveys(s) == session[s].phase = "new" /\ session[s].op \in Wrappers

Survey(s) ==
    /\ Surveys(s)
    /\ session[s].op = "process_day_boundary" => ProjectionHeadFree(s)
    /\ session' = [session EXCEPT ![s] =
          At(@, "surveyed", stream_heads[Stream(s)], projection_heads[Stream(s)])]
    /\ UNCHANGED storeVars

ChecksActor(s) ==
    \/ session[s].phase = "new" /\ session[s].op \notin Wrappers
    \/ session[s].phase = "surveyed"

AuthorizeActor(s) ==
    /\ ChecksActor(s)
    /\ ActorMatches(session[s].request)
    /\ Advance(s, "authorized")
    /\ UNCHANGED storeVars

LockStreamHead(s) ==
    /\ session[s].phase = "authorized"
    /\ StreamHeadFree(s)
    /\ session[s].request.expected = stream_heads[Stream(s)]
    /\ session' = [session EXCEPT ![s] =
          At(@, "positioned", stream_heads[Stream(s)], @.version)]
    /\ UNCHANGED storeVars

LockProjectionHead(s) ==
    /\ session[s].phase = "positioned"
    /\ ProjectionHeadFree(s)
    /\ session' = [session EXCEPT ![s] =
          At(@, "versioned", @.position, projection_heads[Stream(s)])]
    /\ UNCHANGED storeVars

\* The rows, invisible to other sessions.  The primary key of command_receipts admits
\* no second row, committed or not.
WriteRows(s) ==
    /\ session[s].phase = "versioned"
    /\ ~HasReceipt(session[s].request)
    /\ \A other \in Sessions \ {s} :
          session[other].phase = "written"
             => session[other].request.command_id # session[s].request.command_id
    /\ Advance(s, "written")
    /\ UNCHANGED storeVars

\* The values of the rows come from what the transaction has read.
PositionAfter(t) == t.position + t.request.batch

VersionAfter(t) == IF t.request.mutations # {} THEN t.version + 1 ELSE t.version

ReceiptOf(t) ==
    [expedition |-> t.request.expedition,
     request_hash |-> RequestHash(t.request.expedition, t.request.intent),
     user |-> t.request.user, actor |-> t.request.actor, status |-> t.request.status,
     events |-> t.request.batch, stream_position |-> PositionAfter(t),
     projection_version |-> VersionAfter(t)]

RowsOf(t) ==
    {[event_id |-> EventId(t.request.command_id, n), command_id |-> t.request.command_id,
      expedition |-> t.request.expedition, stream_position |-> t.position + n]
        : n \in 1..t.request.batch}

DocumentsOf(t) ==
    [k \in ProjectionKeys |->
        IF k \in t.request.mutations
        THEN [projection_version |-> VersionAfter(t),
              source_stream_position |-> PositionAfter(t)]
        ELSE documents[t.request.expedition][k]]

\* Mutant of Commit: the projection head is written in a transaction of its own.
CommitWithoutVersion(s) ==
    LET t == session[s]
    IN  /\ t.phase = "written"
        /\ receipts' = [receipts EXCEPT ![t.request.command_id] = ReceiptOf(t)]
        /\ event_log' = event_log \union RowsOf(t)
        /\ stream_heads' = [stream_heads EXCEPT ![t.request.expedition] = PositionAfter(t)]
        /\ documents' = [documents EXCEPT ![t.request.expedition] = DocumentsOf(t)]
        /\ Advance(s, "committed")
        /\ UNCHANGED <<projection_heads, actor_contexts>>

\* Everything becomes visible at once; the locks go a moment later.
Commit(s) ==
    LET t == session[s]
    IN  /\ t.phase = "written"
        /\ receipts' = [receipts EXCEPT ![t.request.command_id] = ReceiptOf(t)]
        /\ event_log' = event_log \union RowsOf(t)
        /\ stream_heads' = [stream_heads EXCEPT ![t.request.expedition] = PositionAfter(t)]
        /\ documents' = [documents EXCEPT ![t.request.expedition] = DocumentsOf(t)]
        /\ projection_heads' =
              [projection_heads EXCEPT ![t.request.expedition] = VersionAfter(t)]
        /\ Advance(s, "committed")
        /\ UNCHANGED actor_contexts

Close(s) == session' = [session EXCEPT ![s] = Idle]

Release(s) == session[s].phase = "committed" /\ Close(s) /\ UNCHANGED storeVars

\* Replayed or reused, refused, in conflict: the transaction ends without a write.
Decline(s) ==
    /\ \/ HasLocks(s) /\ HasReceipt(session[s].request)
       \/ ChecksActor(s) /\ ~ActorMatches(session[s].request)
       \/ /\ session[s].phase = "authorized"
          /\ StreamHeadFree(s)
          /\ session[s].request.expected # stream_heads[Stream(s)]
    /\ Close(s)
    /\ UNCHANGED storeVars

\* An exception (a refusal of the wrapper is one), a lost connection or a timeout
\* rolls back.
Rollback(s) ==
    /\ Active(s) /\ session[s].phase # "committed"
    /\ Close(s)
    /\ UNCHANGED storeVars

Statement(s) ==
    \/ TakeLock(s) \/ FindNoReceipt(s) \/ Survey(s) \/ AuthorizeActor(s)
    \/ LockStreamHead(s) \/ LockProjectionHead(s) \/ WriteRows(s)
    \/ Commit(s) \/ Release(s) \/ Decline(s)

Next ==
    \/ \E s \in Sessions : Begin(s) \/ Statement(s) \/ Rollback(s)
    \/ \E e \in Expeditions, u \in Users : ChangeActor(e, u) /\ UNCHANGED session

Spec == Init /\ [][Next]_txVars

-----------------------------------------------------------------------------
(***************************************************************************)
(* Safety                                                                  *)
(***************************************************************************)

Uncommitted(s) == session[s].phase \in Phases \ {"locking", "committed"}

\* The statements that have read the stream head, and the projection head.
KnowsPosition(s) ==
    \/ session[s].phase \in {"positioned", "versioned", "written"}
    \/ session[s].phase \in {"surveyed", "authorized"} /\ session[s].op \in Wrappers

KnowsVersion(s) ==
    \/ session[s].phase \in {"versioned", "written"}
    \/ /\ session[s].phase \in {"surveyed", "authorized", "positioned"}
       /\ session[s].op \in Wrappers

\* What a transaction has read before it writes is still so when it writes, although
\* it has read it in statements with snapshots of their own and a wrapper before any
\* row was locked: no receipt for its command in any Expedition, the position and
\* the version of its stream.  (Nothing of the kind holds for the actor.)
ReadsStayTrue ==
    \A s \in Sessions :
        /\ Uncommitted(s) => ~HasReceipt(session[s].request)
        /\ KnowsPosition(s) => session[s].position = stream_heads[Stream(s)]
        /\ KnowsVersion(s) => session[s].version = projection_heads[Stream(s)]

WaitsFor(s, t) ==
    \/ WantsLock(s) /\ Holds(t, NextLock(s))
    \/ session[s].phase = "authorized" /\ HoldsStreamHead(t, Stream(s))
    \/ /\ \/ session[s].phase = "positioned"
          \/ Surveys(s) /\ session[s].op = "process_day_boundary"
       /\ HoldsProjectionHead(t, Stream(s))

\* No set of sessions in which everyone waits for another of the set: with one order
\* of advisory locks for every operation PostgreSQL never has to kill a transaction,
\* although the row locks of the two heads are taken in both orders.
NobodyWaitsInACircle ==
    \A waiting \in SUBSET Sessions :
        waiting # {} => \E s \in waiting : \A t \in waiting \ {s} : ~WaitsFor(s, t)

\* An actor's change that is committed while a transaction of his is past the check
\* comes after that transaction: it does not wait for it and does not stop it.
Past(s, e, u) ==
    /\ session[s].phase \in
          {"authorized", "positioned", "versioned", "written", "committed"}
    /\ session[s].request.expedition = e /\ session[s].request.user = u

actorsInOrder ==
    [e \in Expeditions |-> [u \in Users |->
        IF \E s \in Sessions : Past(s, e, u)
        THEN session[CHOOSE s \in Sessions : Past(s, e, u)].request.actor
        ELSE actor_contexts[e][u]]]

Log == INSTANCE CommandLog WITH actor_contexts <- actorsInOrder

\* ADR-013: one RPC is one transaction.  To everyone who reads the tables it is one
\* step, with the check of the actor, of the receipt and of the position inside it.
ImplementsLog == Log!LogSpec

-----------------------------------------------------------------------------
(***************************************************************************)
(* Liveness                                                                *)
(***************************************************************************)

\* The server executes what it can.  The queue of a lock is first come, first served,
\* so a lock that becomes free again and again is granted.
TakesLock(s) == TakeLock(s) \/ Survey(s) \/ LockStreamHead(s) \/ LockProjectionHead(s)

FairSpec ==
    /\ Spec
    /\ \A s \in Sessions : WF_txVars(Statement(s)) /\ SF_txVars(TakesLock(s))

\* Every call is answered, without a timeout or a failure to end it.
CallsEnd == \A s \in Sessions : Active(s) ~> ~Active(s)
=============================================================================
