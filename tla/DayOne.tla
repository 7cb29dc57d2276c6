-------------------------------- MODULE DayOne --------------------------------
(***************************************************************************)
(* Day 1 of an Expedition, from the moment its rotation is ready: the      *)
(* captain starts it, the trusted system clock opens the first Day at the  *)
(* local boundary, the Participants complete their tasks.  Sources, under  *)
(* supabase: functions/_shared/command-gateway/day-boundary.ts,            *)
(* day-boundary-database.ts and the system branch of handler.ts;           *)
(* engine-runtime/day1-boundary-v1.ts and day1-complete-task-v1.ts;        *)
(* private.process_day_boundary.                                           *)
(*                                                                         *)
(* A boundary command is named by its date, so a scheduler may send it as  *)
(* often as it likes.  A refused boundary leaves no receipt, a refused     *)
(* task does.  Every invocation reads the clock of the function that       *)
(* serves it, after it has loaded the context and before it writes.        *)
(***************************************************************************)
EXTENDS Naturals, Sequences, FiniteSets

CONSTANTS
    Participants,      \* the team of the rotation plan
    Tasks,             \* the required task cards of Day 1
    TasksOf,           \* those in the bundle of each Participant's two roles
    Outputs,           \* the required outputs of Day 1
    TaskCommands,      \* the commands that complete a task: who, which, distinct id
    Bannable,          \* bound: Participants an operator may ban
    Workers,           \* invocations that may be in flight at once
    TeamMin, TeamMax,  \* the size of a team (3 and 5)
    DayLength,         \* ticks of a local calendar day
    BoundaryTime,      \* day_boundary_local_time, in ticks after midnight
    MaxTime,           \* bound: the last tick
    Skew,              \* how far a function's clock may run ahead
    NoView

ASSUME TeamAssumption ==
    /\ IsFiniteSet(Participants)
    /\ TeamMin \in Nat /\ TeamMax \in Nat
    /\ Cardinality(Participants) \in TeamMin..TeamMax

\* A shared card is a task (day1-pilot-policy.generated.ts:58), so everyone has one.
ASSUME BundleAssumption == TasksOf \in [Participants -> (SUBSET Tasks) \ {{}}]

ASSUME TaskCommandsAssumption ==
    \A c \in TaskCommands : c.participant \in Participants /\ c.task \in Tasks

ASSUME ClockAssumption ==
    /\ DayLength \in Nat \ {0} /\ MaxTime \in Nat /\ Skew \in Nat
    /\ BoundaryTime \in 0..DayLength - 1

\* The local calendar date of a moment, and the moment at which a date's Day opens.
DateOf(time) == time \div DayLength
BoundaryOf(date) == date * DayLength + BoundaryTime

Dates == 0..DateOf(MaxTime)

Commands ==
    [kind: {"start"}] \union [kind: {"boundary"}, date: Dates]
       \union [kind: {"complete"}, task: TaskCommands]

VARIABLES
    status,    \* expeditions.status
    active,    \* Participants whose row and membership are active
    events,    \* the event log, counted from the ready Expedition
    version,   \* projection_heads.current_projection_version, likewise
    setup,     \* expedition_setup_view: its version, the active Participants it names
    today,     \* today_view of each Participant
    captain,   \* captain_day_view
    receipts,  \* what became of each command
    now,       \* true time
    flight     \* what each invocation is doing

log == <<status, events, version, setup, today, captain, receipts>>
vars == <<log, active, now, flight>>

Idle == [phase |-> "idle"]

\* TERMINAL_TASK_STATUSES; completed_late and waived are out of reach on Day 1.
TerminalStatuses == {"completed"}

TaskStatuses == {"available"} \union TerminalStatuses

TodayViews == UNION {[TasksOf[p] -> TaskStatuses] : p \in Participants}

Blockers ==
    ({"required_cards_unacknowledged"} \X Participants)
       \union ({"required_task_incomplete"} \X (Participants \X Tasks))
       \union ({"required_output_unconfirmed"} \X Outputs)

CaptainViews ==
    [blockers: SUBSET Blockers, terminal: SUBSET Participants, can_close_day: BOOLEAN,
     revision: Nat, version: Nat]

SetupViews == [version: Nat, participants: SUBSET Participants]

ASSUME SentinelAssumption == NoView \notin TodayViews /\ NoView \notin CaptainViews

TypeOK ==
    /\ status \in {"ready", "active"}
    /\ active \subseteq Participants
    /\ version \in Nat /\ now \in 0..MaxTime
    /\ setup \in SetupViews
    /\ today \in [Participants -> TodayViews \union {NoView}]
    /\ captain = NoView \/ captain \in CaptainViews
    /\ receipts \in [Commands -> {"none", "accepted", "rejected"}]
    /\ \A w \in Workers :
          flight[w] # Idle =>
             /\ flight[w].phase \in {"received", "loaded", "refused"}
             /\ flight[w].command \in Commands

Init ==
    /\ status = "ready"
    /\ active = Participants
    /\ events = <<>>
    /\ version = 0
    /\ setup = [version |-> 0, participants |-> Participants]
    /\ today = [p \in Participants |-> NoView]
    /\ captain = NoView
    /\ receipts = [c \in Commands |-> "none"]
    /\ now = 0
    /\ flight = [w \in Workers |-> Idle]

Occurrences(type) == {n \in DOMAIN events : events[n].type = type}

-----------------------------------------------------------------------------
(***************************************************************************)
(* The reducers.  A context is what one read transaction saw.              *)
(***************************************************************************)

CurrentContext ==
    [status |-> status, position |-> Len(events), version |-> version,
     setup |-> setup, today |-> today, captain |-> captain,
     started |-> {events[n].at : n \in Occurrences("expedition.started")}]

\* Mutant of Readings: the clock of the device that issued the command.
IssuedAt(f) == 0..(MaxTime + Skew)

\* What dependencies.now() may return between the load and the write.
Readings(f) == f.loaded..(now + Skew)

NoDayYet(context) ==
    context.captain = NoView /\ \A p \in Participants : context.today[p] = NoView

BoundaryReached(context, date, at) ==
    /\ DateOf(at) = date
    /\ at >= BoundaryOf(date)
    /\ \A started \in context.started : at >= started

\* The setup view is current and names a team; each of them has an assignment in the
\* rotation plan, which was made for exactly this team.
PlanResolvable(context) ==
    /\ context.setup.version = context.version
    /\ Cardinality(context.setup.participants) \in TeamMin..TeamMax

BoundaryAllowed(context, date, at) ==
    /\ context.status = "active"
    /\ NoDayYet(context)
    /\ BoundaryReached(context, date, at)
    /\ PlanResolvable(context)

OpeningTasks(p) == [t \in TasksOf[p] |-> "available"]

OpeningToday(context) ==
    [p \in Participants |->
        IF p \in context.setup.participants THEN OpeningTasks(p) ELSE NoView]

\* Everyone has required cards besides the tasks.
OpeningBlockers(team) ==
    ({"required_cards_unacknowledged"} \X team)
       \union ({"required_task_incomplete"}
                  \X {pt \in team \X Tasks : pt[2] \in TasksOf[pt[1]]})
       \union ({"required_output_unconfirmed"} \X Outputs)

OpeningCaptain(context) ==
    [blockers |-> OpeningBlockers(context.setup.participants), terminal |-> {},
     can_close_day |-> FALSE, revision |-> 1, version |-> context.version + 1]

Event(type, at) == [type |-> type, at |-> at]

\* What the reducer prepares for an accepted boundary.
OpenedDay(context, at) ==
    [events |-> <<Event("day.started", at), Event("role_assignments.activated", at),
                  Event("card_bundles.published", at)>>,
     today |-> OpeningToday(context),
     captain |-> OpeningCaptain(context)]

\* resolveToday and resolveCaptain: the view is there; views the runtime has written
\* always parse.
HasToday(context, p) == context.today[p] # NoView
HasCaptain(context) == context.captain # NoView

\* Mutant of TaskOpen: a terminal task may be completed again.
TaskAssigned(context, p, t) ==
    /\ context.status = "active"
    /\ HasToday(context, p) /\ HasCaptain(context)
    /\ t \in DOMAIN context.today[p]

TaskOpen(context, p, t) ==
    /\ context.status = "active"
    /\ HasToday(context, p) /\ HasCaptain(context)
    /\ t \in DOMAIN context.today[p]
    /\ context.today[p][t] \notin TerminalStatuses

TodayAfter(context, p, t) ==
    [context.today EXCEPT ![p][t] = "completed"]

\* required_tasks_terminal: every task of the Participant, not this one alone.
AllTerminal(tasks) == \A t \in DOMAIN tasks : tasks[t] \in TerminalStatuses

\* Mutant of BlockersAfter: the task's blocker is removed for everyone.
BlockersOfTaskGone(context, p, t) ==
    context.captain.blockers \ ({"required_task_incomplete"} \X (Participants \X {t}))

\* The blocker of this task goes once all tasks of the Participant are terminal.
BlockersAfter(context, p, t) ==
    IF AllTerminal(TodayAfter(context, p, t)[p])
    THEN context.captain.blockers \ {<<"required_task_incomplete", <<p, t>>>>}
    ELSE context.captain.blockers

CaptainAfter(context, p, t) ==
    LET left == BlockersAfter(context, p, t)
    IN  [blockers |-> left,
         terminal |-> IF AllTerminal(TodayAfter(context, p, t)[p])
                      THEN context.captain.terminal \union {p}
                      ELSE context.captain.terminal \ {p},
         can_close_day |-> left = {},
         revision |-> context.captain.revision + 1,
         version |-> context.version + 1]

\* What the reducer prepares for an accepted completion.
CompletedTask(context, p, t, at) ==
    [events |-> <<[type |-> "task.completed", at |-> at, participant |-> p, task |-> t]>>,
     today |-> TodayAfter(context, p, t),
     captain |-> CaptainAfter(context, p, t)]

-----------------------------------------------------------------------------
(***************************************************************************)
(* Invocations                                                             *)
(***************************************************************************)

Respond(w) == flight' = [flight EXCEPT ![w] = Idle]

\* A Participant's app offers the tasks of the TodayView it has read.
Offered(c) == c.kind = "complete" => today[c.task.participant] # NoView

HasReceipt(c) == receipts[c] # "none"

\* A request that is authentic and well formed.  One that has a receipt is answered
\* from it at once; this one has none.
Receive(w) ==
    /\ flight[w] = Idle
    /\ \E c \in Commands :
          /\ Offered(c)
          /\ ~HasReceipt(c)
          /\ flight' = [flight EXCEPT ![w] = [phase |-> "received", command |-> c]]
    /\ UNCHANGED <<log, active, now>>

\* A Participant is looked up together with the context; the system clock is nobody.
LoadContext(w) ==
    /\ flight[w].phase = "received"
    /\ flight[w].command.kind = "complete" => flight[w].command.task.participant \in active
    /\ flight' = [flight EXCEPT ![w] =
          [phase |-> "loaded", command |-> flight[w].command,
           context |-> CurrentContext, loaded |-> now]]
    /\ UNCHANGED <<log, active, now>>

ProcessRequest(f, appended) ==
    [command |-> f.command, expected |-> f.context.position, events |-> appended]

\* Mutant of Current: process_command does not compare the stream position.
AnyPosition(request) == ~HasReceipt(request.command)

\* What process_command asks before it writes: no receipt, and nothing appended
\* since the context was loaded.
Current(request) == ~HasReceipt(request.command) /\ request.expected = Len(events)

\* The accepted outcome: receipt, events and projection head in one transaction.
Accept(w, request) ==
    /\ Current(request)
    /\ events' = events \o request.events
    /\ version' = version + 1
    /\ receipts' = [receipts EXCEPT ![request.command] = "accepted"]
    /\ Respond(w)

StartExpedition(w) ==
    LET f == flight[w]
    IN  /\ f.phase = "loaded" /\ f.command.kind = "start"
        /\ f.context.status = "ready" /\ status = "ready"
        /\ f.context.setup.version = f.context.version
        /\ NoDayYet(f.context)
        /\ active = f.context.setup.participants
        /\ \E at \in Readings(f) :
              Accept(w, ProcessRequest(f, <<Event("expedition.started", at),
                                            Event("stage.opened", at)>>))
        /\ status' = "active"
        /\ setup' = [f.context.setup EXCEPT !.version = f.context.version + 1]
        /\ UNCHANGED <<today, captain, active, now>>

\* The Participants that the executor names in the transaction.
ActiveSetup(context) == context.setup.participants

\* Mutant of TeamUnchanged: the team is counted but not compared with the rows.
TeamCounted(team) == Cardinality(active) \in TeamMin..TeamMax

\* The Participants named by the setup view are those active in the table.
TeamUnchanged(team) == Cardinality(active) \in TeamMin..TeamMax /\ active = team

\* What the transaction asks of the tables before it calls process_command.
DayMayOpen(context) ==
    /\ status = "active"
    /\ Occurrences("day.started") = {}
    /\ setup.version = version
    /\ TeamUnchanged(ActiveSetup(context))

ProcessDayBoundary(w) ==
    LET f == flight[w]
    IN  /\ f.phase = "loaded" /\ f.command.kind = "boundary"
        /\ DayMayOpen(f.context)
        /\ \E at \in Readings(f) :
              LET day == OpenedDay(f.context, at)
              IN  /\ BoundaryAllowed(f.context, f.command.date, at)
                  /\ Accept(w, ProcessRequest(f, day.events))
                  /\ today' = day.today
                  /\ captain' = day.captain
        /\ UNCHANGED <<status, setup, active, now>>

\* Mutant of RefuseBoundary: the refusal is kept as a receipt.
RefuseBoundaryForGood(w) ==
    LET f == flight[w]
    IN  /\ f.phase = "loaded" /\ f.command.kind = "boundary"
        /\ \E at \in Readings(f) : ~BoundaryAllowed(f.context, f.command.date, at)
        /\ receipts[f.command] = "none"
        /\ receipts' = [receipts EXCEPT ![f.command] = "rejected"]
        /\ Respond(w)
        /\ UNCHANGED <<status, events, version, setup, today, captain, active, now>>

\* An answer that keeps the command open: only an accepted boundary has a receipt.
PublicFailure(f) == [phase |-> "refused", command |-> f.command]

\* The reducer refuses: the executor answers without going to the database.
RefuseBoundary(w) ==
    LET f == flight[w]
    IN  /\ f.phase = "loaded" /\ f.command.kind = "boundary"
        /\ \E at \in Readings(f) : ~BoundaryAllowed(f.context, f.command.date, at)
        /\ flight' = [flight EXCEPT ![w] = PublicFailure(f)]
        /\ UNCHANGED <<log, active, now>>

\* The membership is resolved again under the lock of the Expedition.
CompleteTask(w) ==
    LET f == flight[w]
        p == f.command.task.participant
        t == f.command.task.task
    IN  /\ f.phase = "loaded" /\ f.command.kind = "complete"
        /\ TaskOpen(f.context, p, t)
        /\ p \in active
        /\ \E at \in Readings(f) :
              LET completed == CompletedTask(f.context, p, t, at)
              IN  /\ Accept(w, ProcessRequest(f, completed.events))
                  /\ today' = completed.today
                  /\ captain' = completed.captain
        /\ UNCHANGED <<status, setup, active, now>>

\* A rejection is a decision of its own: stored, and returned ever after.
RejectTask(w) ==
    LET f == flight[w]
    IN  /\ f.phase = "loaded" /\ f.command.kind = "complete"
        /\ ~TaskOpen(f.context, f.command.task.participant, f.command.task.task)
        /\ f.command.task.participant \in active
        /\ Current(ProcessRequest(f, <<>>))
        /\ receipts' = [receipts EXCEPT ![f.command] = "rejected"]
        /\ Respond(w)
        /\ UNCHANGED <<status, events, version, setup, today, captain, active, now>>

\* Replayed from a receipt, in conflict, refused, failed or cut off: the invocation
\* is over and has written nothing.
Finish(w) ==
    /\ flight[w] # Idle
    /\ flight' = [flight EXCEPT ![w] = Idle]
    /\ UNCHANGED <<log, active, now>>

Tick ==
    /\ now < MaxTime
    /\ now' = now + 1
    /\ UNCHANGED <<log, active, flight>>

\* An operator bans a Participant; neither the log nor the views hear of it.
Ban(p) ==
    /\ p \in active \intersect Bannable
    /\ active' = active \ {p}
    /\ UNCHANGED <<log, now, flight>>

Write(w) == StartExpedition(w) \/ ProcessDayBoundary(w) \/ CompleteTask(w) \/ RejectTask(w)

Next ==
    \/ \E w \in Workers :
          Receive(w) \/ LoadContext(w) \/ Write(w) \/ RefuseBoundary(w) \/ Finish(w)
    \/ \E p \in Participants : Ban(p)
    \/ Tick

Spec == Init /\ [][Next]_vars

-----------------------------------------------------------------------------
(***************************************************************************)
(* Safety                                                                  *)
(***************************************************************************)

CompletedInLog(p) == {events[n].task : n \in {k \in Occurrences("task.completed") :
                                                 events[k].participant = p}}

\* The three views are what the log says: a Day that was started once, shown to
\* everyone from then on, with exactly the completed tasks completed; the captain's
\* view counts every completion as a revision and names the version that the next
\* write must expect, although it is rewritten from what an invocation read earlier.
DayFollowsLog ==
    IF Occurrences("day.started") = {}
    THEN captain = NoView /\ \A p \in Participants : today[p] = NoView
    ELSE /\ Cardinality(Occurrences("day.started")) = 1
         /\ \A p \in Participants :
               /\ today[p] # NoView
               /\ {t \in TasksOf[p] : today[p][t] = "completed"} = CompletedInLog(p)
         /\ captain # NoView
         /\ captain.terminal = {p \in Participants : CompletedInLog(p) = TasksOf[p]}
         /\ captain.revision = 1 + Cardinality(Occurrences("task.completed"))
         /\ captain.version = version

\* A task is completed by one command only, whichever of several commands, sent from
\* one device or from two, reach the server together.
TaskCompletedOnce ==
    /\ \A m, n \in Occurrences("task.completed") :
          events[m].participant = events[n].participant /\ events[m].task = events[n].task
             => m = n
    /\ \A p \in Participants, t \in Tasks :
          Cardinality({c \in Commands : /\ c.kind = "complete" /\ receipts[c] = "accepted"
                                        /\ c.task.participant = p /\ c.task.task = t})
             = Cardinality({n \in Occurrences("task.completed") :
                               events[n].participant = p /\ events[n].task = t})

\* recorded_at follows the order of the stream as far as the clocks allow: it never
\* goes back by more than a clock may be ahead, and the Day never starts before the
\* Expedition does, even when two functions with different clocks serve the commands.
RecordedInOrder ==
    /\ \A m, n \in DOMAIN events : m < n => events[m].at <= events[n].at + Skew
    /\ \A m \in Occurrences("expedition.started"), n \in Occurrences("day.started") :
          events[m].at <= events[n].at

\* ADR-021: a task blocker belongs to one Participant.  The open task blockers of the
\* captain's view are exactly the tasks that are not terminal yet, however the
\* completions of several Participants interleave.  (With several required tasks in
\* a bundle the code no longer does this: see the README.)
BlockersNameOpenTasks ==
    captain # NoView =>
        /\ {b \in captain.blockers : b[1] = "required_task_incomplete"}
              = {"required_task_incomplete"}
                   \X {pt \in Participants \X Tasks : /\ pt[2] \in TasksOf[pt[1]]
                                                        /\ today[pt[1]][pt[2]] = "available"}
        /\ captain.can_close_day => captain.blockers = {}

\* The Day opens only for the team it was planned for: at that moment everyone with
\* a TodayView is active and everyone active has one, although a ban reaches neither
\* the log nor the setup view the Day is built from.
DayOpensForActiveTeam ==
    [][captain = NoView /\ captain' # NoView =>
          {p \in Participants : today'[p] # NoView} = active]_vars

\* ADR-021: "Exact retry preserves the original command body and returns the original
\* receipt": a boundary that was accepted before is not refused when it is sent again.
RetryReturnsReceipt ==
    [][\A w \in Workers :
          flight'[w].phase = "refused" /\ flight[w].phase = "loaded"
             => receipts[flight[w].command] # "accepted"]_vars

-----------------------------------------------------------------------------
(***************************************************************************)
(* Liveness                                                                *)
(***************************************************************************)

RequestBoundary(w, date) ==
    Receive(w) /\ flight'[w].command = [kind |-> "boundary", date |-> date]

LoadForBoundary(w) == LoadContext(w) /\ flight[w].command.kind = "boundary"

\* Time passes, invocations end, the scheduler sends the boundary of every date again
\* and again, and a boundary that can be loaded or written infinitely often is.
Fairness ==
    /\ WF_vars(Tick)
    /\ WF_vars(\E w \in Workers : Finish(w))
    /\ \A date \in Dates : SF_vars(\E w \in Workers : RequestBoundary(w, date))
    /\ SF_vars(\E w \in Workers : LoadForBoundary(w))
    /\ SF_vars(\E w \in Workers : ProcessDayBoundary(w))

FairSpec == Spec /\ Fairness

\* A started Expedition gets its first Day, unless an operator has taken a member out
\* of the team: refusals that came too early, conflicts with other commands and lost
\* answers do not use up the command of the date.
DayEventuallyOpens ==
    status = "active" ~> (captain # NoView \/ active # Participants)
=============================================================================
