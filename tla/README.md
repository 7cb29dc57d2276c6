# ILKA Expedition OS: a TLA+ model

TLA+ modules, TLC runs and TLAPS proofs for the part of the repository that
decides what happened in an Expedition: the command store in PostgreSQL, the
Edge Function in front of it, the creation and setup of an Expedition, the
opening and the tasks of its first Day, and the Participant app that delivers
commands which were given offline. Paths below are relative
to the root of the repository; `M/` is `supabase/migrations/`, `G/` is
`supabase/functions/_shared/command-gateway/`, `R/` is
`supabase/functions/_shared/engine-runtime/`, `F/` is `frontend/src/`.

    tlc -workers 2 -config MCCommandLog.cfg MCCommandLog      # a run
    tlapm CommandLogProofs.tla                                # the proofs

`PROJECT.json` lists the runs, the code each definition stands for, the hazards
each property is for, and for each property a mutated definition that breaks it.

## 1. The system

A client sends a *command* (id, type, Expedition, payload) to the Command
Gateway. A pure reducer of the runtime release that is pinned to the Expedition
turns the command and a *context* (stream position, projection version,
projection documents, actor) into events and rewritten documents, or into a
rejection. One SQL function stores the verdict.

| Part | State | Operations | What is hard, and what must hold |
| --- | --- | --- | --- |
| **Command store** (`M/20260720170000`, `M/20260720190000`) | receipts, event log, stream heads, projection heads, projection documents | `process_command` | retries, reuse of ids, concurrent appends, several tables per call: streams without gap or fork, receipts/events/documents agree, append-only, exactly once |
| **Command Gateway** (`G/handler.ts`, `G/database.ts`) | none of its own; one invocation holds a context | receipt lookup, `loadContext`, reduce, `processCommand`, answer | three transactions per invocation, others run in between; lost answers: nothing stale becomes durable, clients are told what the log holds |
| **Expedition setup** (`G/invitation.ts`, `rotation.ts`, `start.ts`, `R/expedition-{invitations,rotation,start}-v1.ts`, five transactions) | Expedition status, invitations, memberships and Participants, the setup view | invite, accept, revoke, generate rotation, start | races between them, expiry, bans by operators: capacity, one seat per person, rows = log = view, one rotation and one start, for the team that was planned |
| **Identity** (`M/20260720160000`) | profiles, members, Participants | `resolve_actor_context`; operators' updates | the actor of a command may change while it is handled |
| **Expedition bootstrap** (`G/bootstrap.ts`, `R/expedition-bootstrap-v1.ts`, `M/20260721103000`) | Expedition, Captain's membership, first event | `bootstrap_expedition` | no stream to compare, fresh ids per attempt: one Expedition per command and per key, truthful answers |
| **Day boundary** (`G/day-boundary*.ts`, `system-clock-auth.ts`, `R/day1-boundary-v1.ts`, `M/20260723010000`) | Day 1 views, events | `process_day_boundary`, signed by the clock, repeated by a scheduler | one opening of the Day, after the start, for the active team, under clocks that differ; a refusal must not use up the date's command |
| **Day 1 commands** (`R/day1-complete-task-v1.ts`, `day1-pilot-v1.ts`) | task states in the TodayView, readiness in the Captain's view | `complete_task` | several devices and Participants at once: a task completed once, both views and the log agree |
| **Offline queue** (`F/application/offline`) | IndexedDB records, in-memory fallback | enqueue, list, update | storage failures per call, several tabs, the device clock |
| **Offline synchronizer** (`F/application/sync`, `F/app/App.tsx`, `F/infrastructure/supabase`) | the active cycle, the displayed TodayView | `sync`, triggers | every `await` is an interleaving; offline, lost, late and repeated deliveries, closed pages: order, agreement with the server, eventual delivery |
| **Read APIs, releases, screens, service worker, scripts, content** | derived or static | | not behaviour of the protocol |

They interact so: the synchronizer calls the gateway over HTTP; the gateway
calls `process_command` directly, or through the wrapper of a setup command,
which adds its own rows to the same transaction; reducers see only the context;
views reach the client through read APIs. Operators change memberships in the
database, outside the log.

## 2. Modules

| Module | Models | Uses |
| --- | --- | --- |
| `ExactlyOnceLedger` | abstract: a command is decided at most once, an accepted batch enters one history as a whole and in order | |
| `CommandLog` | the store; `process_command` as one step | |
| `CommandLogRefinement` | the mapping from tables to ledger | `CommandLog`, `ExactlyOnceLedger` |
| `CommandLogProofs` | theorems about `CommandLog` | `CommandLog`, TLAPS |
| `CommandLogRefinementProofs` | the refinement proved | `CommandLogRefinement`, `CommandLogProofs` |
| `CommandTransaction` | `process_command` and two of its wrappers statement by statement, in concurrent sessions; implements `CommandLog` | `CommandLog` |
| `CommandTransactionProofs` | theorems about `CommandTransaction` | `CommandTransaction`, `CommandLogProofs` |
| `CommandGateway` | invocations around the store | `CommandLog` |
| `CommandGatewayProofs` | theorems about `CommandGateway` | `CommandGateway`, `CommandLogProofs` |
| `ExpeditionSetup` | setup commands: executors, reducers, transactions | |
| `ExpeditionSetupProofs` | theorems about `ExpeditionSetup` | `ExpeditionSetup`, TLAPS |
| `Bootstrap` | `create_expedition`, from the first invocation to the first event | |
| `BootstrapProofs` | theorems about `Bootstrap` | `Bootstrap`, TLAPS |
| `DayOne` | start, day boundary, `complete_task`, with time | |
| `DayOneProofs` | theorems about `DayOne` | `DayOne`, TLAPS |
| `OfflineSync` | queue, synchronizer, triggers, network, server | |
| `OfflineSyncProofs` | theorems about `OfflineSync` | `OfflineSync`, TLAPS |
| `OfflineQueue` | IndexedDB, the memory fallback, the device clock | |
| `MCCommandLog`, `MCCommandTransaction`, `MCCommandGateway`, `MCExpeditionSetup`, `MCBootstrap`, `MCDayOne` | small instances and symmetry | |

### CommandLog

`receipts`, `event_log`, `stream_heads`, `projection_heads` and `documents` are
the tables of those names. `Persist(r)` is a call that writes: its guard
`Persists` follows the order of the code (well-formedness, receipt, actor,
position), and it inserts receipt, events and documents and moves both heads.
The ways a call ends without writing (`IsReplay`, a reused id, a refused actor,
`IsConflict`) change nothing and are used by the gateway. A call is one step
because it holds the advisory locks of its command and its Expedition to the end
of the transaction, and every statement in it reads committed rows after the
locks are granted; an exception rolls all of it back. That this makes it one step is
not assumed but shown, by `CommandTransaction`. The triggers
(`validate_command_receipt_insert`, `validate_and_advance_event_stream`,
`validate_command_receipt_event_set`, `reject_immutable_history_mutation`)
raise when a property below would break; the model leaves them out, so that the
properties are established by the arithmetic of `process_command` and not by
the guards that watch over it. `ChangeActor` is everything operators do that
changes what `resolve_actor_context` answers. Event payloads, document bodies
and time are abstracted. Hashes are injective. `MaxBatch` and `MaxPosition`
bound a batch and a stream.

### CommandTransaction

`session[s]` is what the open transaction of one database connection is doing: the
operation, its request, how many advisory locks it has (`taken`), the statement it
has reached (`phase`) and the two numbers it has read (`position`, `version`). The
tables are those of `CommandLog` and hold what is committed; under READ COMMITTED each
statement sees them as they are when it starts. `TakeLock` asks for the advisory locks
of command, Expedition and, in `invite_participant`, e-mail address, which are
transaction-scoped: they go with `Release`, after `Commit` has made the rows visible.
`FindNoReceipt`, `AuthorizeActor`, `LockStreamHead`, `LockProjectionHead` and
`WriteRows` are the statements of `process_command` in its order; the two `SELECT ...
FOR UPDATE` wait for whoever holds the row. `Survey` is what a wrapper reads of both
heads before it calls `process_command`; `process_day_boundary` locks the projection
head there, so the two row locks are taken in both orders. `Decline` is every end
without a write that the code intends, `Rollback` every other one: an exception, a
refusal of the wrapper, a lost connection, a timeout. The hash that names a lock is
taken to be injective.

Nothing locks the rows of a membership. A change of an actor can commit between the
check of the actor and the commit of his command; the transaction is then the earlier
of the two, and the mapping to `CommandLog` (`actorsInOrder`) lets the change be seen
after it. This is the only variable that is mapped.

The wrappers for acceptance, revocation, rotation and start take their locks in the same
order (command, Expedition, then rows behind the Expedition's lock) and add nothing that
waits for anything else; `bootstrap_expedition` also locks its key, and an Expedition
that no other session can know yet.

### CommandGateway

`flight[w]` is an invocation: `checked` after the receipt lookup, `loaded` after
`loadContext`. `Receive`, `LoadContext`, `Commit` and `CommitWithoutWriting` are
its transactions, `Abort` its end at any point. The same command may arrive any
number of times and concurrently, with another intent or another user.
`answers` collects the results that reached a client, with the field `persisted` of the
code; every answer may be lost. The author of a receipt, and the invocation that commits,
get the persisted result. Two results are not persisted: a conflict, and the rejection
`process_command` returns when two requests with one command id have both passed the
receipt lookup and the other one was stored first (`M/20260720190000:346`, sent with HTTP
200). It says "rejected" of a request of which the log holds nothing, while the receipt
of that id may say "accepted": outcomes are unique per request, not per command id. The reducer's
verdict is any well-formed one, so what holds here holds for every runtime.
Parsing, CORS, schema, role and permission checks only end an invocation
without a write; they are covered by `Abort`.

### ExpeditionSetup

One Expedition. `invitations` are the rows (the status and whether `expires_at`
has passed), `participants` stands for a person's membership and Participant
rows, which the code writes together, `events` for the stream, `view` for the
document `expedition_setup_view`. An invocation loads its context
(`LoadContext`), an acceptance also reads its candidate in a transaction of its
own (`ReadCandidate`), and then one of five actions is the whole transaction:
the reducer's checks on the *loaded* context (`...Allowed`), the checks of the SQL
function on the *current* rows, `ProcessCommand`, and the rows it changes. A
check that fails ends the invocation without a write (`Abort`). The view keeps
the fields from which the reducers compute counters, readiness and controls;
those are operators (`InviteControl`, `RevokeControl`, `GenerateControl`,
`StartControl`). The first, third and fourth are granted whenever they are offered, as
long as nobody was banned. `RevokeControl` looks at the status of the entries and not at
`expires_at`: with nothing but lapsed invitations left it is offered and every revocation
is refused, which `ControlsHonestUntilLapse` says in so many words.
`Lapse` is time passing for an invitation, `Ban` an operator's update.
Rejections by these reducers are not stored: the executors turn them into
errors. The Captain is a member who is no Participant, and stays one.

The checks of each SQL function are an operator of their own (`MayInvite`,
`MayAccept`, `MayRevoke`, `MayRotate`, `MayStart`).

### Bootstrap

Users with a Profile each send `create_expedition` requests (command id, key,
payload), any number of times and concurrently; nothing stops two users from
using one command id. An invocation looks for a receipt (`Receive`,
`AnswerFromReceipt`), resolves the Profile, reduces, draws the ids of Expedition
and membership (`Prepare`) and calls `bootstrap_expedition`, whose three outcomes
are `CreateExpedition`, `ReplayBootstrap` and `RefuseBootstrap`. `RefusalCode` has
the order of the checks in the SQL. `ChangeProfile` is an operator's update.
The payload is valid, another valid one, or one the reducer refuses. The rows
written by `CreateExpedition` are the `Init` of `ExpeditionSetup`.

### DayOne

One Expedition from the end of its setup (`Init` is what `generate_rotation`
leaves). `events`, `version` and the three kinds of views (`setup`, `today`,
`captain`) are the stream, the projection head and the projection documents;
`active` is the membership and Participant rows. An invocation finds no receipt
(`Receive`), loads its context and then writes, is refused, or ends. The
boundary's writer (`ProcessDayBoundary`) is reducer (`BoundaryAllowed`, on the
loaded context), SQL checks (`DayMayOpen`, on the current rows) and
`process_command` (`Accept`) in one step; a boundary refused by the reducer
(`RefuseBoundary`) leaves no receipt, a refused task (`RejectTask`) does.
Time is counted in ticks: `now` is the true time, and every invocation takes
`received_at` (`Readings`) from a clock that may run up to `Skew` ahead. `DateOf`
and `BoundaryOf` are the local calendar, `DayLength` ticks a day, the Day opening
`BoundaryTime` ticks after midnight. Timezones and daylight saving are left out.
`start_expedition` appears with the guards that matter here; module
`ExpeditionSetup` has all of it.

### OfflineSync

`queue` is the IndexedDB store in FIFO order, `tab[t]` the program counter of the
cycle of one JavaScript runtime with its own snapshot of the queue, `shown[t]`
the version of the TodayView on display (the number of accepted commands it
contains). Each `await` of `OfflineCommandSynchronizer.run` separates two
actions. A delivery that fails leaves an *orphan*, which the server may process
at any later time or never. `Reload` closes and opens the page at any moment.
The server is the ledger that `CommandLog` implements: a decided command is
replayed, an undecided one is accepted, rejected, or meets a conflict that
leaves no trace. `Faults` selects what may go wrong in a run.

### OfflineQueue

`disk` and `memory` are the object store of IndexedDB and the fallback queue of
the page. Each call of `enqueue`, `list` or `update` reaches one of them:
IndexedDB (`Works`) or, when it fails, memory (`Fails`, at most `MaxFaults` times).
The synchronizer is reduced to list, deliver, settle; `OfflineSync` has its detail
and takes the store for reliable.

## 3. Runs

| Run | Bounds | Shows |
| --- | --- | --- |
| `command_log` | 2 Expeditions, 3 commands, 2 documents, batches of 2, 4 positions | all requests anyone could send: `LogTypeOK`, `StreamGapless`, `ReceiptsAccountForEvents`, `DocumentsNameReceipts`, `PositionOrdersVersions`, `HistoryImmutable`, `ImplementsLedger` |
| `transactions` | 2 sessions, 1 Expedition, 2 commands, 1 event | every operation against every other at one stream: `ReadsStayTrue`, `NobodyWaitsInACircle`, `ImplementsLog`, `CallsEnd` |
| `command_gateway` | 2 invocations, 2 commands, 2 intents, 2 contexts of one user, the system clock | `PositionStampsContext`, `DecisionsUseCurrentState`, `AnswersAreReceipts` |
| `setup_race` | 2 invocations, 3 people, a team of 1 or 2, 3 invitations | `RowsAndViewFollowLog`, `TeamWithinCapacity`, `OneSeatPerPerson`, `SetupViewCurrent`, `StatusMatchesHistory`, `ControlsHonestUntilLapse`, `TeamFrozenAfterRotation`, `StartsWithPlannedTeam` |
| `expired_invitation` (violation) | 2 people, 2 invitations | `ExpiredInvitationsBecomeTerminal` fails |
| `bootstrap` | 2 users, 2 keys, 2 commands, 3 payloads, 2 invocations, 3 ids | `ExpeditionsMatchReceipts`, `AnswersBind`, `CreatorWasActive` |
| `day_one` | 2 Participants with one task each, 4 task commands, 2 invocations, times 0 and 1, clocks up to 1 ahead, one ban | `DayFollowsLog`, `TaskCompletedOnce`, `RecordedInOrder`, `BlockersNameOpenTasks`, `DayOpensForActiveTeam`, `DayEventuallyOpens` |
| `day_one_retry` (violation) | the same over two dates | `RetryReturnsReceipt` fails |
| `offline_sync` | 1 tab, 2 commands, all faults | `SettledAgreesWithServer`, `SyncedCommandsAreVisible`, `SyncedInQueueOrder`, `NoOvertaking`, `SettledStaysSettled`, `QueuedCommandsSettle` |
| `offline_trigger` (violation) | 1 tab, 3 commands, no fault | `EnqueuedOnlineIsSent` fails |
| `offline_two_tabs` (violation) | 2 tabs, 1 command | `SettledStaysSettled` fails |
| `offline_storage` (violation) | 2 commands, at most 2 failed calls, 2 openings of the page | `QueuedIsDelivered` fails |

Why the bounds are enough to see the interesting cases: in `command_log` three
commands over two streams give two appends that race for one stream, a
rejection between them, a reused id and an unrelated stream. Two sessions
(`transactions`) show every race of two statements, and every lock in the hands of the
other; circles of more sessions, and an id used in two Expeditions at once, are left to
the proofs, which hold for any number of both. In
`command_gateway` two invocations are enough for every race the gateway has,
since each only competes with "someone else wrote in between"; `ChangeActor`
provides the change that is not a command. The team of two with three
invitations is the smallest in which the list of the view is full and must be
pruned, a person is invited twice, and an acceptance races with an invitation;
a team may also be complete with one person, so that the captain can generate the
rotation while an invitation is on its way. (The policies of a release may start at
one; the pilot's starts at three.) The cook comes second in the role cycle, so that one
person can form a team; in teams so small the first seat then leads the product, and
the rule that the cook does not is only exercised by the second seat. The properties of `offline_sync`
relate at most two commands of the queue, hence two. In `bootstrap` two
invocations can be two attempts of one command, two commands for one key, or two
users; three ids allow an attempt that is wasted between two that count. In
`day_one` one Participant has two commands for the task that both share, so
that two devices and two Participants race, and one command names a task that is
not in the sender's bundle; the single date has moments before and after the
boundary, and a clock that runs ahead can be past it early. A boundary command
for another date than today's occurs in `day_one_retry` only.

The type invariants of `CommandTransaction`, `CommandGateway`, `Bootstrap` and `DayOne`
are proved (section 4) and not repeated in the runs.

Deadlock is checked in all runs but `offline_trigger`, which has no fault that
keeps the system moving and does stop when all commands are settled, and
`day_one`, where nothing is left to do once time has reached its bound and every
command has its receipt.

**Fairness.** `Spec` of every module has none; safety needs none. `FairSpec`
of `CommandTransaction` says that the server executes a statement that can be executed
(weak fairness) and that a lock which becomes free again and again is granted (strong
fairness: PostgreSQL queues those who wait for a lock). No timeout and no failure is
assumed to happen, so `CallsEnd` does not rest on them. In
`OfflineSync`, `RuntimeFairness` says the JavaScript runtime runs what is ready
and a request in flight is answered or fails; `FaultsPass` says that faults do
not last for ever and that the app is opened again and again. The latter is an
assumption about the world and the user, and `QueuedCommandsSettle` needs it:
after a retryable error nothing in the code schedules another cycle.
`offline_trigger` uses only `RuntimeFairness`. `FairSpec` of `ExpeditionSetup`
is generous on purpose (captains and invitees retry for ever), because the run
shows what fails even then. `Fairness` of `DayOne` is the scheduler: time passes,
invocations end (the platform cuts them off), and the boundary of each date is
sent for ever, so that it is loaded and written if it can be again and again
(strong fairness, because conflicts with other writers only delay it). The
repository defines the command and its exact retry and leaves the scheduler to
the deployment (ADR-021), so this is an assumption about it, and the only one:
no user has to act for `DayEventuallyOpens`. `OfflineQueue` needs only that the open page lists, delivers
and updates.

### What the violations show

* **Expired invitations** (`expired_invitation`).
  `docs/architecture/expedition-setup-and-day1-pilot-runtime.md:216` has the
  transition `pending --trusted expiry--> expired`; no code writes that status.
  After `expires_at` an invitation can be neither accepted nor revoked
  (`M/20260721172000:216` raises `invitation_expired`), yet as a pending row it
  keeps its place in the team and keeps `generate_rotation` refusing. The setup view
  offers `revoke_invitation` all the while (`R/expedition-invitations-v1.ts:268`): of the
  four controls it is the one that can promise what the server refuses. The
  document allows a scheduler to come later; until then the setup of such an
  Expedition cannot be finished.
* **A lost trigger** (`offline_trigger`). ADR-016 lets the enqueueing of a command
  online trigger synchronization. `sync()` joins a running cycle, whose list of
  records was taken before; the new command waits for an unrelated trigger. (The joining
  itself is what ADR-016:61 asks of duplicate triggers; this one is not a duplicate.)
* **Two tabs** (`offline_two_tabs`). "One cycle at a time" holds per tab, the
  queue is shared. A retryable error of one tab writes `pending` over a record
  the other has settled (`OfflineCommandSynchronizer.ts:149`), against
  `docs/architecture/offline-command-sync.md:132`.

* **A racing retry of the boundary** (`day_one_retry`).
  ADR-021:139 promises the original receipt for an exact retry. If the retry looks
  for its receipt before the first delivery commits and loads its context after,
  the reducer refuses with `active_day_already_exists`, a 409 that is not
  retryable (`G/day-boundary.ts:325`); `private.process_day_boundary`, which would
  have replayed the receipt, is not called. `G/start.ts` has the same order of
  steps. No state is damaged: the log keeps one Day.
* **A command lost in memory** (`offline_storage`). `withFallback`
  (`OfflineCommandQueue.ts:210`) chooses the queue for each call; a command that
  a failed enqueue has put into memory is invisible to every later `list` that
  works, and is never sent, although the app has shown it as queued
  (README.md:73 promises an in-memory fallback). That one failure is enough; the trace
  TLC prints also spends the second on a `list`.

Two more remarks, which are no violations of today's program.
The client's transport takes a 409 whose body is a public error for retryable
(`frontend/src/infrastructure/supabase/SupabaseCommandGatewayTransport.ts:117`), and so
also the gateway's refusal of a reused command id, which ADR-016:107 wants "rejected".
`OfflineSync` leaves that refusal out: the client draws a random id for every command and
never changes a queued one, so that it cannot be met.

`BlockersNameOpenTasks` holds because a bundle of the pilot policy has at most one
required task per Participant. `R/day1-complete-task-v1.ts:391` removes only the
blocker of the task that makes *all* tasks terminal; with two tasks in a bundle
(`TasksOf` giving a Participant both `t1` and `t2`) the blocker of the first would
stay for ever and `can_close_day` never become true. Likewise `R/day1-boundary-v1.ts:373`
opens everyone with `required_tasks_terminal` false, and only a completion makes it
true: a Participant without a required task would never get there.
`BundleAssumption` excludes that, because the policy has a task among its shared
cards (`R/day1-pilot-policy.generated.ts:58`).

## 4. Proofs

`CommandLogProofs` proves, for all sets of Expeditions, commands, intents, users
and documents and all bounds, from `BoundAssumption` and `SentinelAssumption`
only (the two null values are no receipt and no document):

| Theorem | Statement |
| --- | --- |
| `TypeCorrect` | `LogSpec => []LogTypeOK` |
| `Gapless` | `LogSpec => []StreamGapless` |
| `Accounted` | `LogSpec => []ReceiptsAccountForEvents` |
| `DocumentsNamed` | `LogSpec => []DocumentsNameReceipts` |
| `Ordered` | `LogSpec => []PositionOrdersVersions` |
| `Immutable` | `LogSpec => HistoryImmutable` |

Each property is inductive together with `LogTypeOK`; no other strengthening is
needed, because each is stated for the whole history and not only for the last
command. The argument of each proof is its lemma about one `Persist(r)`:
`GaplessPersist` (the new rows take the positions after the head, each exactly
one), `AccountPersist` (no old event belongs to the command, as it had no
receipt), `DocumentsPersist` (only accepted commands rewrite documents, and the
receipt and the documents are stamped alike), `OrderPersist` (both heads only
grow and the new receipt is stamped with them). `PersistWritesReceipt` and
`PersistAddsOneReceipt` are the facts they share.

`CommandLogRefinementProofs` proves `StoreImplementsLedger`,
`LogSpec => ImplementsLedger`, from the same assumptions. The mapping reads the
history off the rows by their positions, which is a function of the log only as long
as there is one row at every position: the proof rests on `Gapless`. Rows that were
there are read at the same place after a step (`OldRowsStay`), and the n-th event of a
batch n places after the old head (`NewRowsRead`).

`CommandTransactionProofs` proves, from the same assumptions and for any number of
sessions:

| Theorem | Statement |
| --- | --- |
| `TransactionTypeCorrect` | `Spec => []TypeOK` |
| `ReadsStayTrueAlways` | `Spec => []ReadsStayTrue` |
| `NoDeadlock` | `Spec => []NobodyWaitsInACircle` |
| `TransactionsAreSteps` | `Spec => ImplementsLog` |

The inductive invariant is `TransactionInv`: types, `LocksInv` (an advisory lock has one
holder, so that two sessions past their locks have different commands and different
Expeditions), `RequestsOK` (what a session carries is a request of `CommandLog`) and
`ReadsHold`, of which `ReadsStayTrue` is a part. `ReadsStayTrue` is not inductive without
the locks: another session's commit would change what was read. `NoDeadlock` has the
measure that an order of locks gives: of the sessions in a set one has taken the most
advisory locks (`BoundedClimb`), and it waits for none of them; a session behind the
Expedition's lock meets no other at the row locks, whatever their order. For
`TransactionsAreSteps`, `Commit` is the step `Persist` of the request, because the reads
still hold, and a change of an actor becomes visible in the mapping at once or when the
transaction that used him is over (`OneActorStep`); every other statement is a stutter.
With `StoreImplementsLedger` this makes the sessions implement the ledger.

`CommandGatewayProofs` proves, for any number of invocations:

| Theorem | Statement |
| --- | --- |
| `GatewayTypeCorrect` | `Spec => []TypeOK` |
| `PositionIsStamp` | `Spec => []PositionStampsContext` |
| `DecisionsAreCurrent` | `Spec => DecisionsUseCurrentState` |
| `AnswersAreTold` | `Spec => []AnswersAreReceipts` |
| `GatewayUsesLog` | `Spec => LogSpec` |

`PositionStampsContext` is not inductive: a context ahead of its stream would be
wrong as soon as the stream reached it. `LoadedContexts` says that no context is
ahead. With it, the argument is `HeadsAdvance`: a step of the store that changes
documents or version of an Expedition also moves its position, because a command
without events rewrites nothing (`WellFormed`). The request an invocation commits is
then one of the requests of `CommandLog` (`CommitRequest`), so `GatewayUsesLog`
carries every theorem about the store over to the gateway. `AnswersAreTold` needs, for
the rejection that is not persisted, that a receipt is stored under the Expedition its
hash names (`HashesNameExpeditions`): a request that is no replay then differs from the
stored one in its hash. Each answer is told by the one receipt of its id (`AllTold`),
which never changes (`ReceiptsStay`), and answers told by one receipt agree
(`ToldAgree`).

`BootstrapProofs` proves, for all sets of users, keys, commands, payloads and
invocations and every number of ids, from `PayloadAssumption`, `DrawsAssumption`
(the bound of ids is a number) and `SentinelAssumption` (no receipt is no row)
and, for the cardinalities, nothing more than that the rows are numbered:

| Theorem | Statement |
| --- | --- |
| `BootstrapTypeCorrect` | `Spec => []TypeOK` |
| `OneExpeditionPerReceipt` | `Spec => []ExpeditionsMatchReceipts` |
| `AnswersAreTrue` | `Spec => []AnswersBind` |
| `ActiveCreators` | `Spec => CreatorWasActive` |

`ExpeditionsMatchReceipts` is not inductive: nothing in it says that the id an
attempt is about to use is new, and a used one would give an old Expedition a
second captain. The strengthening is `FreshIds`: the id held by an invocation
that has not written yet belongs to no row and to no other invocation
(`FreshAlways`). With it `CreateWrites` says what a successful attempt adds, and
the equalities follow row by row. `AnswersBind` rests on receipts being kept and
on `KeyHasReceipt`: a key that is taken belongs to a stored command, which under
the guard of the refusal is another one.

`DayOneProofs` proves every safety property of the run `day_one`, for every team,
bundle of tasks, set of commands, number of invocations, horizon and skew, from
`BundleAssumption` (everyone has a required task), `TaskCommandsAssumption` (a command
names a Participant and a task), `ClockAssumption` and `SentinelAssumption` (the null
view is no view):

| Theorem | Statement |
| --- | --- |
| `DayTypeCorrect` | `Spec => []TypeOK` |
| `ViewsFollowLog` | `Spec => []DayFollowsLog` |
| `CompletedByOneCommand` | `Spec => []TaskCompletedOnce` |
| `StreamInOrder` | `Spec => []RecordedInOrder` |
| `OpensForActiveTeam` | `Spec => DayOpensForActiveTeam` |
| `BlockersAreTheOpenTasks` | `OneTaskEach` implies `Spec => []BlockersNameOpenTasks` |

Every write of a Day is computed from a context that was read earlier, and no
property says anything about contexts. The strengthening is `Stamped`: as long as the
stream is where it was when a context was loaded, the context is the current state,
and no event in it is later than the moment of loading plus the skew. It is inductive
because every accepted command appends at least one event and every change of a view
is an accepted command; `Ban` changes neither. `StartWrites`, `BoundaryWrites` and
`CompleteWrites` then restate each transaction in terms of the current state alone, and
the properties follow write by write (`FollowsStart`, `FollowsBoundary`,
`FollowsComplete` for the views). `DayFollowsLog` needs `TasksAfterDay` besides (no
completion before the Day), `TaskCompletedOnce` needs `DayFollowsLog` (a task that is
open in the view has no completion in the log), and `RecordedInOrder` too (a start
cannot follow the Day). `BlockersAreTheOpenTasks` assumes `OneTaskEach`, exactly one
required task in a bundle, as the pilot policy has it and as the remark in section 3
says it must.

`ExpeditionSetupProofs` proves every property of the run `setup_race`, for every set of
people, every team size and role cycle and any number of invocations and invitations:

| Theorem | Statement |
| --- | --- |
| `TypeCorrectness` | `Spec => []TypeOK` |
| `ViewIsCurrent` | `Spec => []SetupViewCurrent` |
| `HistoryMatchesStatus` | `Spec => []StatusMatchesHistory` |
| `NeverOverCapacity` | `Spec => []TeamWithinCapacity` |
| `OneSeatEach` | `Spec => []OneSeatPerPerson` |
| `OneStory` | `Spec => []RowsAndViewFollowLog` |
| `TeamIsFrozen` | `Spec => TeamFrozenAfterRotation` |
| `StartsAsPlanned` | `Spec => StartsWithPlannedTeam` |
| `HonestUntilLapse` | `Spec => []ControlsHonestUntilLapse` |

from the assumptions on the constants that `ExpeditionSetup` names: the sizes of the team
and its roles (`PolicyAssumption`), `NullAssumption` (the null values
are no row, no view and no rotation) and `LeaderAssumption`: among the first `TeamMin`
places of the role cycle is one that is not the cook. The last is what makes a plan
possible for every complete team; the reader of the policy demands the five distinct
roles, cook included (`R/expedition-rotation-v1.ts:431`), so that it holds for every team
of two or more. A policy with a smallest team of one and the cook first, which the reader
would let through, is excluded: nobody could lead that team.

As in `DayOne`, an invocation writes what it computed from a context it read before, and
an acceptance uses a candidate read in yet another transaction. `Base` contains
`Informed`: a context at the position of the stream *is* the present state. Every
accepted command appends an event, `Lapse` and `Ban` change nothing that is in a context,
so `Informed` is inductive, together with types and `SetupViewCurrent`, which the
reducers' own checks need. With it each transaction is restated as a step of the present
state (`StoreStep`: `Invites`, `Accepts`, `Revokes`, `Rotates`, `Starts`), and the
invocations can be forgotten. The rest of the inductive invariant `IInv` is layered, each
part proved from those before it: `OneTimeEvents` (which the status tells), `RowsFollowLog`
(invitations and seats as sets of what events name), `ViewFollowsRows` (the list of the
view has one entry for each invitation and has dropped revoked ones only: `Faithful`),
`Seating` (a seat per accepted invitation; no one has two open ones; a free order is
greater than none that is taken), `Capacity` and `Planned` (from the rotation on there is
no open invitation, and the plan of log and view fits the seats). `TeamWithinCapacity` is
inductive only together with `Seating` and the rows: an acceptance trades an open
invitation for a seat, which needs that the person has none. The counting that the code
does by filters and lengths is in lemmas on finite sets (one element more or less,
`Cardinality` of images, minima of sets of naturals, lists that are filtered or pruned).
TLC has checked `IInv` on the bounds of `setup_race`.

`OfflineSyncProofs` proves the safety properties of the run `offline_sync`, for any number
of commands and every set of faults, from `FaultsAssumption`:

| Theorem | For | Statement |
| --- | --- | --- |
| `TypeCorrectness` | any tabs | `Spec => []TypeOK` |
| `SettledAgrees` | any tabs | `Spec => []SettledAgreesWithServer` |
| `SyncedIsVisible` | one tab | `Spec => []SyncedCommandsAreVisible` |
| `SyncedInOrder` | one tab | `Spec => []SyncedInQueueOrder` |
| `NothingOvertakes` | one tab | `Spec => NoOvertaking` |
| `SettledIsFinal` | one tab | `Spec => SettledStaysSettled` |

`Base` is for any number of tabs. Its core is `Sound`: an answer that a tab holds is the
decision of the server, which never changes, so that a record settled from it agrees with
the server whatever other tabs and late requests have done meanwhile. The last four hold
for one tab only, and say so (`Tabs = {only}`): the run `offline_two_tabs` shows how a
second tab breaks `SettledStaysSettled`, and with two tabs, two commands and the faults of
network and refusal TLC refutes the other three in the same way. For one tab the invariant
is `Ahead`: what remains to be sent is in the order of the queue, pending, and the pending
records from the oldest on without a gap. Every step is one of five kinds (`Advances`):
statuses stay and the list stays, becomes empty or is the fresh listing; a record is
added; or the head of the list is settled. `Ahead` gives that the current record is pending
and nothing before it is (`CurrentPending`), which is `NoOvertaking` and `SettledStaysSettled`
at once. `SyncedInQueueOrder` needs more, because a request that was given up may be
decided at any time: `SentInOrder` says that whatever has reached the server, or still may,
has nothing pending before it; a record that becomes synced was pending, so no later
command can be in the log. `SyncedCommandsAreVisible` rests on `Visible`, its extension to
the moment between the fetch of the view and the update of the record. TLC has checked this
invariant too, and `Base` with two tabs. The listing of the
queue (`PendingItems`) is a sequence of the pending records in increasing order; that there
is one, and that it is complete, is `OrderedListing` and `PendingItemsListed`.

Only model-checked: the liveness properties, `CallsEnd` of `CommandTransaction`,
`DayEventuallyOpens` of `DayOne` and `QueuedCommandsSettle` of `OfflineSync`. TLAPS does not
handle `ENABLED`, on which fairness rests. Of `OfflineQueue` the project checks only the
violation of `QueuedIsDelivered`.

## 5. Not modelled, and the plan

Not modelled:

* rendering, the service worker (an application-shell cache through which no
  command passes), the overlay that marks pending cards and tasks (a function of
  queue and view), authored content, scripts;
* read APIs (single selects) and row level security;
* the HMAC signature of the system clock and its replay window
  (`G/system-clock-auth.ts`), CORS, schema validation and role claims: each only
  ends an invocation with an error;
* release pinning (constant per Expedition);
* timezones and daylight saving in the local date;
* task states other than `available` and `completed`: `start_task`, `block_task` and
  late completion are in the contracts, but the pilot runtime neither implements
  the first two nor opens a second Day.

Planned, in this order:

1. `RotationPlan` as a pure algorithm against a reference over all teams.
2. An abstract queue that `OfflineQueue` implements as long as storage works, with
   two tabs of `OfflineSync` on top of it.
3. The synchronizer against an abstract delivery: each queued command is decided once and
   in order, for one tab.
