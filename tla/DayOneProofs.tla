----------------------------- MODULE DayOneProofs -----------------------------
(***************************************************************************)
(* Proofs, for every team, every bundle of tasks, every number of          *)
(* invocations and any skew of their clocks, of the safety of DayOne.      *)
(*                                                                         *)
(* Every write is computed from a context read earlier.  The invariant     *)
(* Stamped says what makes that right: as long as the stream is where it   *)
(* was when the context was loaded, the context is the current one.        *)
(***************************************************************************)
EXTENDS DayOne, SequenceTheorems, FiniteSetTheorems, TLAPS

EventRecords ==
    [type: {"expedition.started", "stage.opened", "day.started",
            "role_assignments.activated", "card_bundles.published"}, at: Nat]
       \union [type: {"task.completed"}, at: Nat, participant: Participants, task: Tasks]

Typed ==
    /\ TypeOK
    /\ events \in Seq(EventRecords)
    /\ DOMAIN flight = Workers
    /\ setup.participants = Participants
    /\ \A p \in Participants : today[p] # NoView => today[p] \in [TasksOf[p] -> TaskStatuses]

\* No function's clock is further ahead than Skew.
WrittenBy(time) == \A n \in DOMAIN events : events[n].at <= time + Skew

CurrentIfInPlace(f) ==
    /\ f.context.position \in 0..Len(events)
    /\ f.loaded \in Nat
    /\ f.context.position = Len(events) => f.context = CurrentContext /\ WrittenBy(f.loaded)

Stamped ==
    \A w \in Workers : \A f :
        flight[w] = f /\ f.phase = "loaded" => CurrentIfInPlace(f)

TasksAfterDay == Occurrences("day.started") = {} => Occurrences("task.completed") = {}

-----------------------------------------------------------------------------
(***************************************************************************)
(* The stream grows at its end                                             *)
(***************************************************************************)

LEMMA EventsAppended ==
    ASSUME events \in Seq(EventRecords), NEW s \in Seq(EventRecords), events' = events \o s
    PROVE  /\ events' \in Seq(EventRecords)
           /\ Len(events) \in Nat /\ Len(s) \in Nat /\ Len(events') = Len(events) + Len(s)
           /\ DOMAIN events = 1..Len(events) /\ DOMAIN events' = 1..(Len(events) + Len(s))
           /\ \A n \in 1..Len(events) : events'[n] = events[n]
           /\ \A n \in 1..Len(s) : events'[Len(events) + n] = s[n]
  <1>1. Len(events) \in Nat /\ Len(s) \in Nat
    BY LenProperties
  <1>2. /\ events' \in Seq(EventRecords) /\ Len(events') = Len(events) + Len(s)
        /\ \A n \in 1..(Len(events) + Len(s)) :
              events'[n] = IF n <= Len(events) THEN events[n] ELSE s[n - Len(events)]
    BY ConcatProperties
  <1>3. DOMAIN events = 1..Len(events) /\ DOMAIN events' = 1..(Len(events) + Len(s))
    BY <1>2, LenProperties
  <1>4. ASSUME NEW n \in 1..Len(events)
        PROVE  events'[n] = events[n]
    BY <1>1, <1>2
  <1>5. ASSUME NEW n \in 1..Len(s)
        PROVE  events'[Len(events) + n] = s[n]
    <2>1. /\ Len(events) + n \in 1..(Len(events) + Len(s))
          /\ ~(Len(events) + n <= Len(events))
          /\ (Len(events) + n) - Len(events) = n
      BY <1>1
    <2> QED
      BY <1>2, <2>1
  <1> QED
    BY <1>1, <1>2, <1>3, <1>4, <1>5

\* What is appended adds the positions at which it has the type.
LEMMA OccurrencesAfter ==
    ASSUME events \in Seq(EventRecords), NEW s \in Seq(EventRecords), events' = events \o s,
           NEW type
    PROVE  \A k : k \in Occurrences(type)'
                     <=> \/ k \in Occurrences(type)
                         \/ \E n \in 1..Len(s) : s[n].type = type /\ k = Len(events) + n
  <1>1. /\ Len(events) \in Nat /\ Len(s) \in Nat
        /\ DOMAIN events = 1..Len(events) /\ DOMAIN events' = 1..(Len(events) + Len(s))
        /\ \A n \in 1..Len(events) : events'[n] = events[n]
        /\ \A n \in 1..Len(s) : events'[Len(events) + n] = s[n]
    BY EventsAppended
  <1>2. ASSUME NEW k \in Occurrences(type)', k \notin Occurrences(type)
        PROVE  \E n \in 1..Len(s) : s[n].type = type /\ k = Len(events) + n
    <2>1. k \in 1..(Len(events) + Len(s)) /\ events'[k].type = type
      BY <1>1, <1>2 DEF Occurrences
    <2>2. ~(k <= Len(events))
      BY <1>1, <1>2, <2>1 DEF Occurrences
    <2> DEFINE m == k - Len(events)
    <2>3. m \in 1..Len(s) /\ k = Len(events) + m
      BY <1>1, <2>1, <2>2
    <2> HIDE DEF m
    <2>4. s[m].type = type
      BY <1>1, <2>1, <2>3
    <2> QED
      BY <2>3, <2>4
  <1>3. ASSUME NEW k \in Occurrences(type)
        PROVE  k \in Occurrences(type)'
    BY <1>1, <1>3 DEF Occurrences
  <1>4. ASSUME NEW k, NEW n \in 1..Len(s), s[n].type = type, k = Len(events) + n
        PROVE  k \in Occurrences(type)'
    <2>1. k \in 1..(Len(events) + Len(s)) /\ events'[k].type = type
      BY <1>1, <1>4
    <2> QED
      BY <1>1, <2>1 DEF Occurrences
  <1> QED
    BY <1>2, <1>3, <1>4

\* Occurrences are finitely many positions of the stream.
LEMMA OccurrencesFinite ==
    ASSUME events \in Seq(EventRecords), NEW type
    PROVE  /\ IsFiniteSet(Occurrences(type))
           /\ Occurrences(type) \subseteq 1..Len(events)
  <1>1. Len(events) \in Nat /\ DOMAIN events = 1..Len(events)
    BY LenProperties
  <1>2. Occurrences(type) \subseteq 1..Len(events)
    BY <1>1 DEF Occurrences
  <1>3. IsFiniteSet(1..Len(events))
    BY <1>1, FS_Interval
  <1>4. IsFiniteSet(Occurrences(type))
    BY <1>2, <1>3, FS_Subset
  <1> QED
    BY <1>2, <1>4

-----------------------------------------------------------------------------
(***************************************************************************)
(* What a write writes, in terms of the current state                      *)
(***************************************************************************)

\* A write that passes the comparison of positions works on the current context.
LEMMA WritesCurrent ==
    ASSUME Typed, Stamped, NEW w \in Workers, flight[w].phase = "loaded",
           NEW s, Current(ProcessRequest(flight[w], s)), NEW at \in Readings(flight[w])
    PROVE  /\ flight[w].context = CurrentContext
           /\ flight[w].command \in Commands
           /\ receipts[flight[w].command] = "none"
           /\ at \in Nat
           /\ at <= now + Skew
           /\ \A n \in DOMAIN events : events[n].at <= at + Skew
  <1>1. flight[w].context.position = Len(events) /\ receipts[flight[w].command] = "none"
    BY DEF Current, ProcessRequest, HasReceipt
  <1>2. flight[w].command \in Commands
    BY DEF Typed, TypeOK, Idle
  <1>3. /\ flight[w].context = CurrentContext /\ flight[w].loaded \in Nat
        /\ WrittenBy(flight[w].loaded)
    BY <1>1 DEF Stamped, CurrentIfInPlace
  <1>4. now \in Nat /\ Skew \in Nat
    BY ClockAssumption DEF Typed, TypeOK
  <1>5. at \in Int /\ flight[w].loaded <= at /\ at <= now + Skew
    BY <1>3, <1>4 DEF Readings
  <1>6. \A n \in DOMAIN events : events[n].at \in Nat
    BY LenProperties, ElementOfSeq DEF Typed, EventRecords
  <1>7. \A n \in DOMAIN events : events[n].at <= at + Skew
    BY <1>3, <1>4, <1>5, <1>6 DEF WrittenBy
  <1> QED
    BY <1>1, <1>2, <1>3, <1>5, <1>7

LEMMA StartWrites ==
    ASSUME Typed, Stamped, NEW w \in Workers, StartExpedition(w)
    PROVE  \E at \in Nat :
              /\ at <= now + Skew
              /\ \A n \in DOMAIN events : events[n].at <= at + Skew
              /\ events' = events \o <<Event("expedition.started", at),
                                       Event("stage.opened", at)>>
              /\ status = "ready" /\ status' = "active"
              /\ version' = version + 1
              /\ setup' = [version |-> version + 1, participants |-> Participants]
              /\ captain = NoView
              /\ receipts' = [receipts EXCEPT ![flight[w].command] = "accepted"]
              /\ flight[w].command.kind = "start" /\ flight[w].command \in Commands
              /\ UNCHANGED <<today, captain, active, now>>
  <1> DEFINE f == flight[w]
  <1>1. PICK at \in Readings(f) :
           Accept(w, ProcessRequest(f, <<Event("expedition.started", at),
                                         Event("stage.opened", at)>>))
    BY DEF StartExpedition
  <1>2. /\ f.context = CurrentContext /\ f.command \in Commands /\ at \in Nat
        /\ at <= now + Skew /\ \A n \in DOMAIN events : events[n].at <= at + Skew
    BY <1>1, WritesCurrent DEF StartExpedition, Accept
  <1>3. setup \in SetupViews /\ setup.participants = Participants
    BY DEF Typed, TypeOK
  <1>4. setup' = [version |-> version + 1, participants |-> Participants]
    BY <1>2, <1>3 DEF StartExpedition, CurrentContext, SetupViews
  <1>5. captain = NoView
    BY <1>2 DEF StartExpedition, NoDayYet, CurrentContext
  <1>6. /\ events' = events \o <<Event("expedition.started", at), Event("stage.opened", at)>>
        /\ version' = version + 1
        /\ receipts' = [receipts EXCEPT ![f.command] = "accepted"]
    BY <1>1 DEF Accept, ProcessRequest
  <1>7. /\ status = "ready" /\ status' = "active" /\ f.command.kind = "start"
        /\ UNCHANGED <<today, captain, active, now>>
    BY DEF StartExpedition
  <1> QED
    BY <1>2, <1>4, <1>5, <1>6, <1>7

LEMMA BoundaryWrites ==
    ASSUME Typed, Stamped, NEW w \in Workers, ProcessDayBoundary(w)
    PROVE  \E at \in Nat :
              /\ at <= now + Skew
              /\ \A n \in DOMAIN events : events[n].at <= at + Skew
              /\ \A n \in Occurrences("expedition.started") : events[n].at <= at
              /\ events' = events \o <<Event("day.started", at),
                                       Event("role_assignments.activated", at),
                                       Event("card_bundles.published", at)>>
              /\ version' = version + 1
              /\ captain = NoView
              /\ Occurrences("day.started") = {}
              /\ today' = [p \in Participants |-> OpeningTasks(p)]
              /\ captain' = [blockers |-> OpeningBlockers(Participants), terminal |-> {},
                             can_close_day |-> FALSE, revision |-> 1,
                             version |-> version + 1]
              /\ active = Participants
              /\ receipts' = [receipts EXCEPT ![flight[w].command] = "accepted"]
              /\ flight[w].command.kind = "boundary" /\ flight[w].command \in Commands
              /\ UNCHANGED <<status, setup, active, now>>
  <1> DEFINE f == flight[w]
  <1>1. PICK at \in Readings(f) :
           /\ BoundaryAllowed(f.context, f.command.date, at)
           /\ Accept(w, ProcessRequest(f, OpenedDay(f.context, at).events))
           /\ today' = OpenedDay(f.context, at).today
           /\ captain' = OpenedDay(f.context, at).captain
    BY DEF ProcessDayBoundary
  <1>2. /\ f.context = CurrentContext /\ f.command \in Commands /\ at \in Nat
        /\ at <= now + Skew /\ \A n \in DOMAIN events : events[n].at <= at + Skew
    BY <1>1, WritesCurrent DEF ProcessDayBoundary, Accept
  <1>3. f.context.setup.participants = Participants
    BY <1>2 DEF CurrentContext, Typed
  <1>4. today' = [p \in Participants |-> OpeningTasks(p)]
    BY <1>1, <1>3 DEF OpenedDay, OpeningToday
  <1>5. captain' = [blockers |-> OpeningBlockers(Participants), terminal |-> {},
                    can_close_day |-> FALSE, revision |-> 1, version |-> version + 1]
    <2>1. f.context.version = version
      BY <1>2 DEF CurrentContext
    <2>2. captain' = OpeningCaptain(f.context)
      BY <1>1 DEF OpenedDay
    <2> QED
      BY <1>3, <2>1, <2>2 DEF OpeningCaptain
  <1>6. captain = NoView
    BY <1>1, <1>2 DEF BoundaryAllowed, NoDayYet, CurrentContext
  <1>7. ASSUME NEW n \in Occurrences("expedition.started")
        PROVE  events[n].at <= at
    <2>1. events[n].at \in f.context.started
      BY <1>2 DEF CurrentContext
    <2> QED
      BY <1>1, <2>1 DEF BoundaryAllowed, BoundaryReached
  <1>8. /\ events' = events \o <<Event("day.started", at),
                                 Event("role_assignments.activated", at),
                                 Event("card_bundles.published", at)>>
        /\ version' = version + 1
        /\ receipts' = [receipts EXCEPT ![f.command] = "accepted"]
    BY <1>1 DEF Accept, ProcessRequest, OpenedDay
  <1>9. active = Participants /\ Occurrences("day.started") = {}
    BY <1>3 DEF ProcessDayBoundary, DayMayOpen, TeamUnchanged, ActiveSetup
  <1>10. f.command.kind = "boundary" /\ UNCHANGED <<status, setup, active, now>>
    BY DEF ProcessDayBoundary
  <1> QED
    BY <1>2, <1>4, <1>5, <1>6, <1>7, <1>8, <1>9, <1>10

LEMMA CompleteWrites ==
    ASSUME Typed, Stamped, NEW w \in Workers, CompleteTask(w)
    PROVE  LET c == flight[w].command
               p == c.task.participant
               t == c.task.task
               after == [today EXCEPT ![p][t] = "completed"]
               all == \A u \in DOMAIN after[p] : after[p][u] \in TerminalStatuses
               left == IF all
                       THEN captain.blockers \ {<<"required_task_incomplete", <<p, t>>>>}
                       ELSE captain.blockers
           IN  /\ c \in Commands /\ c.kind = "complete" /\ receipts[c] = "none"
               /\ p \in Participants /\ t \in Tasks
               /\ today[p] # NoView /\ captain # NoView
               /\ t \in DOMAIN today[p] /\ today[p][t] \notin TerminalStatuses
               /\ today' = after
               /\ captain' = [blockers |-> left,
                              terminal |-> IF all THEN captain.terminal \union {p}
                                                  ELSE captain.terminal \ {p},
                              can_close_day |-> left = {},
                              revision |-> captain.revision + 1,
                              version |-> version + 1]
               /\ version' = version + 1
               /\ receipts' = [receipts EXCEPT ![c] = "accepted"]
               /\ UNCHANGED <<status, setup, active, now>>
               /\ \E at \in Nat :
                     /\ at <= now + Skew
                     /\ \A n \in DOMAIN events : events[n].at <= at + Skew
                     /\ events' = events \o <<[type |-> "task.completed", at |-> at,
                                               participant |-> p, task |-> t]>>
  <1> DEFINE f == flight[w]
             c == f.command
             p == c.task.participant
             t == c.task.task
             after == [today EXCEPT ![p][t] = "completed"]
             all == \A u \in DOMAIN after[p] : after[p][u] \in TerminalStatuses
             left == IF all
                     THEN captain.blockers \ {<<"required_task_incomplete", <<p, t>>>>}
                     ELSE captain.blockers
  <1>1. PICK at \in Readings(f) :
           /\ Accept(w, ProcessRequest(f, CompletedTask(f.context, p, t, at).events))
           /\ today' = CompletedTask(f.context, p, t, at).today
           /\ captain' = CompletedTask(f.context, p, t, at).captain
    BY DEF CompleteTask
  <1>2. /\ f.context = CurrentContext /\ c \in Commands /\ receipts[c] = "none"
        /\ at \in Nat /\ at <= now + Skew
        /\ \A n \in DOMAIN events : events[n].at <= at + Skew
    BY <1>1, WritesCurrent DEF CompleteTask, Accept
  <1>3. c.kind = "complete" /\ p \in Participants /\ t \in Tasks
    <2>1. c.kind = "complete"
      BY DEF CompleteTask
    <2>2. c.task \in TaskCommands
      BY <1>2, <2>1 DEF Commands
    <2> QED
      BY <2>1, <2>2, TaskCommandsAssumption
  <1>4. /\ f.context.today = today /\ f.context.captain = captain
        /\ f.context.version = version
    BY <1>2 DEF CurrentContext
  <1>5. /\ today[p] # NoView /\ captain # NoView
        /\ t \in DOMAIN today[p] /\ today[p][t] \notin TerminalStatuses
    BY <1>4 DEF CompleteTask, TaskOpen, HasToday, HasCaptain
  <1>6. TodayAfter(f.context, p, t) = after
    BY <1>4 DEF TodayAfter
  <1>7. today' = after
    BY <1>1, <1>6 DEF CompletedTask
  <1>8. BlockersAfter(f.context, p, t) = left
    BY <1>4, <1>6 DEF BlockersAfter, AllTerminal
  <1>9. captain' = [blockers |-> left,
                    terminal |-> IF all THEN captain.terminal \union {p}
                                        ELSE captain.terminal \ {p},
                    can_close_day |-> left = {},
                    revision |-> captain.revision + 1,
                    version |-> version + 1]
    <2>1. captain' = CaptainAfter(f.context, p, t)
      BY <1>1 DEF CompletedTask
    <2> QED
      BY <1>4, <1>6, <1>8, <2>1 DEF CaptainAfter, AllTerminal
  <1>10. /\ version' = version + 1
         /\ receipts' = [receipts EXCEPT ![c] = "accepted"]
         /\ events' = events \o <<[type |-> "task.completed", at |-> at,
                                   participant |-> p, task |-> t]>>
    BY <1>1 DEF Accept, ProcessRequest, CompletedTask
  <1>11. UNCHANGED <<status, setup, active, now>>
    BY DEF CompleteTask
  <1> QED
    BY <1>2, <1>3, <1>5, <1>7, <1>9, <1>10, <1>11

\* A rejection is a receipt and nothing else.
LEMMA RejectWrites ==
    ASSUME Typed, NEW w \in Workers, RejectTask(w)
    PROVE  /\ flight[w].command \in Commands
           /\ receipts[flight[w].command] = "none"
           /\ receipts' = [receipts EXCEPT ![flight[w].command] = "rejected"]
           /\ UNCHANGED <<status, events, version, setup, today, captain, active, now>>
  BY DEF RejectTask, Current, ProcessRequest, HasReceipt, Typed, TypeOK, Idle

-----------------------------------------------------------------------------
(***************************************************************************)
(* Steps                                                                   *)
(***************************************************************************)

LEMMA StepKinds ==
    ASSUME [Next]_vars
    PROVE  \/ \E w \in Workers : \/ StartExpedition(w) \/ ProcessDayBoundary(w)
                                 \/ CompleteTask(w) \/ RejectTask(w)
           \/ UNCHANGED log
  <1>1. CASE \E w \in Workers : Receive(w) \/ LoadContext(w) \/ RefuseBoundary(w) \/ Finish(w)
    BY <1>1 DEF Receive, LoadContext, RefuseBoundary, Finish
  <1>2. CASE \E w \in Workers : Write(w)
    BY <1>2 DEF Write
  <1>3. CASE (\E p \in Participants : Ban(p)) \/ Tick \/ UNCHANGED vars
    BY <1>3 DEF Ban, Tick, vars
  <1> QED
    BY <1>1, <1>2, <1>3 DEF Next

\* Time does not go back.
LEMMA TimePasses ==
    ASSUME now \in 0..MaxTime, [Next]_vars
    PROVE  now' \in 0..MaxTime /\ now <= now'
  <1>1. now \in Nat /\ MaxTime \in Nat
    BY ClockAssumption
  <1>2. CASE Tick
    BY <1>1, <1>2 DEF Tick
  <1>3. CASE UNCHANGED now
    BY <1>1, <1>3
  <1> QED
    BY <1>2, <1>3
       DEF Next, vars, Ban, Write, Receive, LoadContext, RefuseBoundary, Finish,
           StartExpedition, ProcessDayBoundary, CompleteTask, RejectTask

\* What an invocation may be doing after a step.
LEMMA FlightAfter ==
    ASSUME Typed, [Next]_vars, NEW w \in Workers
    PROVE  \/ flight'[w] = Idle
           \/ flight'[w] = flight[w]
           \/ \E c \in Commands : flight'[w] = [phase |-> "received", command |-> c]
           \/ /\ flight[w].phase = "loaded"
              /\ flight'[w] = [phase |-> "refused", command |-> flight[w].command]
           \/ /\ flight[w].phase = "received"
              /\ flight'[w] = [phase |-> "loaded", command |-> flight[w].command,
                               context |-> CurrentContext, loaded |-> now]
              /\ UNCHANGED <<log, now>>
  <1>0. DOMAIN flight = Workers
    BY DEF Typed
  <1>1. CASE UNCHANGED flight
    BY <1>1
  <1>2. ASSUME NEW v \in Workers, flight' = [flight EXCEPT ![v] = Idle]
        PROVE  flight'[w] = Idle \/ flight'[w] = flight[w]
    BY <1>0, <1>2
  <1>3. CASE \E v \in Workers : Receive(v)
    BY <1>0, <1>3 DEF Receive
  <1>4. CASE \E v \in Workers : LoadContext(v)
    BY <1>0, <1>4 DEF LoadContext
  <1>5. CASE \E v \in Workers : RefuseBoundary(v)
    BY <1>0, <1>5 DEF RefuseBoundary, PublicFailure
  <1>6. CASE \E v \in Workers : Write(v) \/ Finish(v)
    <2>1. PICK v \in Workers : Write(v) \/ Finish(v)
      BY <1>6
    <2>2. flight' = [flight EXCEPT ![v] = Idle]
      BY <2>1 DEF Write, Finish, StartExpedition, ProcessDayBoundary, CompleteTask,
                  RejectTask, Accept, Respond
    <2> QED
      BY <1>2, <2>2
  <1> QED
    BY <1>1, <1>3, <1>4, <1>5, <1>6 DEF Next, vars, Ban, Tick

LEMMA FlightDomain ==
    ASSUME DOMAIN flight = Workers, [Next]_vars
    PROVE  DOMAIN flight' = Workers
  <1>1. CASE UNCHANGED flight
    BY <1>1
  <1>2. CASE \E v \in Workers : Receive(v) \/ LoadContext(v) \/ RefuseBoundary(v) \/ Finish(v)
    BY <1>2 DEF Receive, LoadContext, RefuseBoundary, Finish
  <1>3. CASE \E v \in Workers : Write(v)
    BY <1>3 DEF Write, StartExpedition, ProcessDayBoundary, CompleteTask, RejectTask,
                Accept, Respond
  <1> QED
    BY <1>1, <1>2, <1>3 DEF Next, vars, Ban, Tick

\* s is appended, recorded at a moment not too far from now and from what is there.
AppendedAt(at, s) ==
    /\ at <= now + Skew
    /\ \A n \in DOMAIN events : events[n].at <= at + Skew
    /\ events' = events \o s /\ Len(s) > 0
    /\ \A n \in 1..Len(s) : s[n].at = at

\* The events a write appends.
LEMMA Appends ==
    ASSUME Typed, Stamped, [Next]_vars
    PROVE  \/ UNCHANGED <<status, events, version, setup, today, captain>>
           \/ \E at \in Nat, s \in Seq(EventRecords) : AppendedAt(at, s)
  <1>1. CASE \E w \in Workers : StartExpedition(w)
    <2>1. PICK w \in Workers : StartExpedition(w)
      BY <1>1
    <2>2. PICK at \in Nat :
             /\ at <= now + Skew /\ \A n \in DOMAIN events : events[n].at <= at + Skew
             /\ events' = events \o <<Event("expedition.started", at),
                                      Event("stage.opened", at)>>
      BY <2>1, StartWrites
    <2> DEFINE s == <<Event("expedition.started", at), Event("stage.opened", at)>>
    <2>3. Event("expedition.started", at) \in EventRecords
          /\ Event("stage.opened", at) \in EventRecords
      BY DEF Event, EventRecords
    <2>4. s \in Seq(EventRecords) /\ Len(s) = 2
      BY <2>3
    <2>5. \A n \in 1..Len(s) : s[n].at = at
      BY <2>4 DEF Event
    <2>6. AppendedAt(at, s)
      BY <2>2, <2>4, <2>5 DEF AppendedAt
    <2> HIDE DEF s
    <2> QED
      BY <2>4, <2>6
  <1>2. CASE \E w \in Workers : ProcessDayBoundary(w)
    <2>1. PICK w \in Workers : ProcessDayBoundary(w)
      BY <1>2
    <2>2. PICK at \in Nat :
             /\ at <= now + Skew /\ \A n \in DOMAIN events : events[n].at <= at + Skew
             /\ events' = events \o <<Event("day.started", at),
                                      Event("role_assignments.activated", at),
                                      Event("card_bundles.published", at)>>
      BY <2>1, BoundaryWrites
    <2> DEFINE s == <<Event("day.started", at), Event("role_assignments.activated", at),
                      Event("card_bundles.published", at)>>
    <2>3. /\ Event("day.started", at) \in EventRecords
          /\ Event("role_assignments.activated", at) \in EventRecords
          /\ Event("card_bundles.published", at) \in EventRecords
      BY DEF Event, EventRecords
    <2>4. s \in Seq(EventRecords) /\ Len(s) = 3
      BY <2>3
    <2>5. \A n \in 1..Len(s) : s[n].at = at
      BY <2>4 DEF Event
    <2>6. AppendedAt(at, s)
      BY <2>2, <2>4, <2>5 DEF AppendedAt
    <2> HIDE DEF s
    <2> QED
      BY <2>4, <2>6
  <1>3. CASE \E w \in Workers : CompleteTask(w)
    <2>1. PICK w \in Workers : CompleteTask(w)
      BY <1>3
    <2> DEFINE p == flight[w].command.task.participant
               t == flight[w].command.task.task
    <2>0. p \in Participants /\ t \in Tasks
      BY <2>1, CompleteWrites
    <2>2. PICK at \in Nat :
             /\ at <= now + Skew /\ \A n \in DOMAIN events : events[n].at <= at + Skew
             /\ events' = events \o <<[type |-> "task.completed", at |-> at,
                                       participant |-> p, task |-> t]>>
      BY <2>1, CompleteWrites
    <2> DEFINE e == [type |-> "task.completed", at |-> at, participant |-> p, task |-> t]
               s == <<e>>
    <2>3. e \in EventRecords
      BY <2>0 DEF EventRecords
    <2>4. e.at = at
      OBVIOUS
    <2> HIDE DEF e
    <2>5. s \in Seq(EventRecords) /\ Len(s) = 1 /\ s[1] = e
      BY <2>3
    <2>6. \A n \in 1..Len(s) : s[n].at = at
      BY <2>4, <2>5
    <2>7. AppendedAt(at, s)
      BY <2>2, <2>5, <2>6 DEF AppendedAt, e
    <2> HIDE DEF s
    <2> QED
      BY <2>5, <2>7
  <1>4. CASE \E w \in Workers : RejectTask(w)
    BY <1>4, RejectWrites
  <1>5. CASE UNCHANGED log
    BY <1>5 DEF log
  <1> QED
    BY <1>1, <1>2, <1>3, <1>4, <1>5, StepKinds

-----------------------------------------------------------------------------
(***************************************************************************)
(* Types                                                                   *)
(***************************************************************************)

LEMMA FlightTypes ==
    ASSUME Typed, [Next]_vars, NEW w \in Workers, flight'[w] # Idle
    PROVE  /\ flight'[w].phase \in {"received", "loaded", "refused"}
           /\ flight'[w].command \in Commands
  <1>1. flight[w] # Idle => /\ flight[w].phase \in {"received", "loaded", "refused"}
                            /\ flight[w].command \in Commands
    BY DEF Typed, TypeOK
  <1>2. flight[w].phase \in {"received", "loaded"} => flight[w] # Idle
    BY DEF Idle
  <1>3. ASSUME NEW c \in Commands, flight'[w] = [phase |-> "received", command |-> c]
        PROVE  /\ flight'[w].phase \in {"received", "loaded", "refused"}
               /\ flight'[w].command \in Commands
    BY <1>3
  <1>4. CASE /\ flight[w].phase = "loaded"
             /\ flight'[w] = [phase |-> "refused", command |-> flight[w].command]
    BY <1>1, <1>2, <1>4
  <1>5. CASE /\ flight[w].phase = "received"
             /\ flight'[w] = [phase |-> "loaded", command |-> flight[w].command,
                              context |-> CurrentContext, loaded |-> now]
    BY <1>1, <1>2, <1>5
  <1> QED
    BY <1>1, <1>3, <1>4, <1>5, FlightAfter

LEMMA ViewTypes ==
    ASSUME NEW p \in Participants, NEW tasks \in [TasksOf[p] -> TaskStatuses]
    PROVE  tasks \in TodayViews /\ tasks # NoView
  BY SentinelAssumption DEF TodayViews

LEMMA OpeningTypes ==
    /\ OpeningBlockers(Participants) \subseteq Blockers
    /\ \A p \in Participants : OpeningTasks(p) \in [TasksOf[p] -> TaskStatuses]
  <1>1. OpeningBlockers(Participants) \subseteq Blockers
    BY DEF OpeningBlockers, Blockers
  <1>2. \A p \in Participants : OpeningTasks(p) \in [TasksOf[p] -> TaskStatuses]
    BY DEF OpeningTasks, TaskStatuses
  <1> QED
    BY <1>1, <1>2

LEMMA CompletedViewTyped ==
    ASSUME Typed, Stamped, NEW w \in Workers, CompleteTask(w)
    PROVE  captain' \in CaptainViews
  <1> DEFINE p == flight[w].command.task.participant
             t == flight[w].command.task.task
             after == [today EXCEPT ![p][t] = "completed"]
             all == \A u \in DOMAIN after[p] : after[p][u] \in TerminalStatuses
             left == IF all
                     THEN captain.blockers \ {<<"required_task_incomplete", <<p, t>>>>}
                     ELSE captain.blockers
             terminal == IF all THEN captain.terminal \union {p}
                                ELSE captain.terminal \ {p}
  <1>1. p \in Participants /\ captain \in CaptainViews /\ version \in Nat
    BY CompleteWrites DEF Typed, TypeOK
  <1>2. captain' = [blockers |-> left, terminal |-> terminal, can_close_day |-> left = {},
                    revision |-> captain.revision + 1, version |-> version + 1]
    BY CompleteWrites
  <1> HIDE DEF all
  <1>3. left \in SUBSET Blockers /\ terminal \in SUBSET Participants
    BY <1>1 DEF CaptainViews
  <1> HIDE DEF left, terminal
  <1>4. captain.revision + 1 \in Nat /\ version + 1 \in Nat
    BY <1>1 DEF CaptainViews
  <1>5. (left = {}) \in BOOLEAN
    OBVIOUS
  <1> QED
    BY <1>2, <1>3, <1>4, <1>5 DEF CaptainViews

\* What TypeOK and Typed say of the log.
LogTyped ==
    /\ status \in {"ready", "active"} /\ version \in Nat
    /\ setup \in SetupViews /\ setup.participants = Participants
    /\ captain = NoView \/ captain \in CaptainViews
    /\ \A p \in Participants : today[p] # NoView => today[p] \in [TasksOf[p] -> TaskStatuses]
    /\ today = [p \in Participants |-> today[p]]
    /\ receipts \in [Commands -> {"none", "accepted", "rejected"}]

LEMMA LogTypes ==
    ASSUME Typed, Stamped, [Next]_vars
    PROVE  LogTyped'
  <1>0. LogTyped
    BY DEF LogTyped, Typed, TypeOK
  <1>1. CASE \E w \in Workers : StartExpedition(w)
    <2>1. PICK w \in Workers : StartExpedition(w)
      BY <1>1
    <2>2. /\ status' = "active" /\ version' = version + 1
          /\ setup' = [version |-> version + 1, participants |-> Participants]
          /\ receipts' = [receipts EXCEPT ![flight[w].command] = "accepted"]
          /\ UNCHANGED <<today, captain>>
      BY <2>1, StartWrites
    <2>3. setup' \in SetupViews /\ setup'.participants = Participants
      BY <1>0, <2>2 DEF LogTyped, SetupViews
    <2>4. receipts' \in [Commands -> {"none", "accepted", "rejected"}]
      BY <1>0, <2>2 DEF LogTyped
    <2>5. version' \in Nat /\ today' = today /\ captain' = captain
      BY <1>0, <2>2 DEF LogTyped
    <2> QED
      BY <1>0, <2>2, <2>3, <2>4, <2>5 DEF LogTyped
  <1>2. CASE \E w \in Workers : ProcessDayBoundary(w)
    <2>1. PICK w \in Workers : ProcessDayBoundary(w)
      BY <1>2
    <2>2. /\ version' = version + 1
          /\ today' = [p \in Participants |-> OpeningTasks(p)]
          /\ captain' = [blockers |-> OpeningBlockers(Participants), terminal |-> {},
                         can_close_day |-> FALSE, revision |-> 1, version |-> version + 1]
          /\ receipts' = [receipts EXCEPT ![flight[w].command] = "accepted"]
          /\ UNCHANGED <<status, setup>>
      BY <2>1, BoundaryWrites
    <2>3. captain' \in CaptainViews
      BY <1>0, <2>2, OpeningTypes DEF LogTyped, CaptainViews
    <2>4. /\ \A p \in Participants : today'[p] \in [TasksOf[p] -> TaskStatuses]
          /\ today' = [p \in Participants |-> today'[p]]
      BY <2>2, OpeningTypes
    <2>5. receipts' \in [Commands -> {"none", "accepted", "rejected"}]
      BY <1>0, <2>2 DEF LogTyped
    <2>6. version' \in Nat /\ status' = status /\ setup' = setup
      BY <1>0, <2>2 DEF LogTyped
    <2> QED
      BY <1>0, <2>3, <2>4, <2>5, <2>6 DEF LogTyped
  <1>3. CASE \E w \in Workers : CompleteTask(w)
    <2>1. PICK w \in Workers : CompleteTask(w)
      BY <1>3
    <2> DEFINE p == flight[w].command.task.participant
               t == flight[w].command.task.task
    <2>2. /\ p \in Participants /\ t \in Tasks /\ today[p] # NoView /\ captain # NoView
          /\ t \in DOMAIN today[p]
          /\ today' = [today EXCEPT ![p][t] = "completed"]
          /\ version' = version + 1
          /\ receipts' = [receipts EXCEPT ![flight[w].command] = "accepted"]
          /\ UNCHANGED <<status, setup>>
      BY <2>1, CompleteWrites
    <2>3. captain' \in CaptainViews
      BY <2>1, CompletedViewTyped
    <2>4. \A q \in Participants :
             today'[q] # NoView => today'[q] \in [TasksOf[q] -> TaskStatuses]
      <3>1. today[p] \in [TasksOf[p] -> TaskStatuses]
        BY <1>0, <2>2 DEF LogTyped
      <3>2. [today[p] EXCEPT ![t] = "completed"] \in [TasksOf[p] -> TaskStatuses]
        BY <3>1 DEF TaskStatuses, TerminalStatuses
      <3>3. /\ today'[p] = [today[p] EXCEPT ![t] = "completed"]
            /\ \A q \in Participants \ {p} : today'[q] = today[q]
        BY <1>0, <2>2 DEF LogTyped
      <3> QED
        BY <1>0, <3>2, <3>3 DEF LogTyped
    <2>5. today' = [q \in Participants |-> today'[q]]
      BY <1>0, <2>2 DEF LogTyped
    <2>6. receipts' \in [Commands -> {"none", "accepted", "rejected"}]
      BY <1>0, <2>2 DEF LogTyped
    <2>7. version' \in Nat /\ status' = status /\ setup' = setup
      BY <1>0, <2>2 DEF LogTyped
    <2> QED
      BY <1>0, <2>3, <2>4, <2>5, <2>6, <2>7 DEF LogTyped
  <1>4. CASE \E w \in Workers : RejectTask(w)
    <2>1. PICK w \in Workers : RejectTask(w)
      BY <1>4
    <2>2. /\ receipts' = [receipts EXCEPT ![flight[w].command] = "rejected"]
          /\ UNCHANGED <<status, version, setup, today, captain>>
      BY <2>1, RejectWrites
    <2>3. receipts' \in [Commands -> {"none", "accepted", "rejected"}]
      BY <1>0, <2>2 DEF LogTyped
    <2> QED
      BY <1>0, <2>2, <2>3 DEF LogTyped
  <1>5. CASE UNCHANGED log
    BY <1>0, <1>5 DEF log, LogTyped
  <1> QED
    BY <1>1, <1>2, <1>3, <1>4, <1>5, StepKinds

LEMMA ActiveTypes ==
    ASSUME active \subseteq Participants, [Next]_vars
    PROVE  active' \subseteq Participants
  <1>1. CASE \E p \in Participants : Ban(p)
    BY <1>1 DEF Ban
  <1>2. CASE UNCHANGED active
    BY <1>2
  <1> QED
    BY <1>1, <1>2
       DEF Next, vars, Tick, Write, Receive, LoadContext, RefuseBoundary, Finish,
           StartExpedition, ProcessDayBoundary, CompleteTask, RejectTask

LEMMA TypedStep ==
    ASSUME Typed, Stamped, [Next]_vars
    PROVE  Typed'
  <1>1. events' \in Seq(EventRecords)
    <2>1. CASE UNCHANGED events
      BY <2>1 DEF Typed
    <2>2. CASE \E at \in Nat, s \in Seq(EventRecords) : AppendedAt(at, s)
      BY <2>2, EventsAppended DEF Typed, AppendedAt
    <2> QED
      BY <2>1, <2>2, Appends
  <1>2. LogTyped'
    BY LogTypes
  <1>3. today' \in [Participants -> TodayViews \union {NoView}]
    <2>1. \A p \in Participants : today'[p] \in TodayViews \union {NoView}
      BY <1>2, ViewTypes DEF LogTyped
    <2> QED
      BY <1>2, <2>1 DEF LogTyped
  <1>4. now' \in 0..MaxTime /\ active' \subseteq Participants /\ DOMAIN flight' = Workers
    BY TimePasses, ActiveTypes, FlightDomain DEF Typed, TypeOK
  <1> QED
    BY <1>1, <1>2, <1>3, <1>4, FlightTypes DEF Typed, TypeOK, LogTyped

-----------------------------------------------------------------------------
(***************************************************************************)
(* The position as a version stamp, the clocks                             *)
(***************************************************************************)

\* A bound by an earlier moment is a bound by a later one.
LEMMA Monotone ==
    ASSUME NEW a \in Nat, NEW b \in Nat, NEW c \in Nat, NEW d \in Nat, a <= b + d, b <= c
    PROVE  a <= c + d
  OBVIOUS

\* No event is later than a clock could be by now.
LEMMA RecordedByNow ==
    ASSUME Typed, Stamped, WrittenBy(now), [Next]_vars
    PROVE  WrittenBy(now)'
  <1>1. now \in Nat /\ Skew \in Nat /\ now' \in Nat /\ now <= now'
    BY TimePasses, ClockAssumption DEF Typed, TypeOK
  <1>2. \A n \in DOMAIN events : events[n].at \in Nat
    BY LenProperties, ElementOfSeq DEF Typed, EventRecords
  <1>3. CASE UNCHANGED events
    BY <1>1, <1>2, <1>3 DEF WrittenBy
  <1>4. CASE \E at \in Nat, s \in Seq(EventRecords) : AppendedAt(at, s)
    <2>1. PICK at \in Nat, s \in Seq(EventRecords) : AppendedAt(at, s)
      BY <1>4
    <2>2. /\ Len(events) \in Nat /\ Len(s) \in Nat
          /\ DOMAIN events = 1..Len(events) /\ DOMAIN events' = 1..(Len(events) + Len(s))
          /\ \A n \in 1..Len(events) : events'[n] = events[n]
          /\ \A n \in 1..Len(s) : events'[Len(events) + n] = s[n]
      BY <2>1, EventsAppended DEF Typed, AppendedAt
    <2>3. ASSUME NEW n \in DOMAIN events'
          PROVE  events'[n].at <= now' + Skew
      <3>1. CASE n \in 1..Len(events)
        BY <1>1, <1>2, <2>2, <3>1 DEF WrittenBy
      <3>2. CASE n \notin 1..Len(events)
        <4> DEFINE m == n - Len(events)
        <4>1. m \in 1..Len(s) /\ n = Len(events) + m
          BY <2>2, <2>3, <3>2
        <4> HIDE DEF m
        <4>2. events'[n].at = at
          BY <2>1, <2>2, <4>1 DEF AppendedAt
        <4>3. at \in Nat /\ at <= now + Skew
          BY <2>1 DEF AppendedAt
        <4>4. at <= now' + Skew
          BY <1>1, <4>3, Monotone
        <4> QED
          BY <4>2, <4>4
      <3> QED
        BY <3>1, <3>2
    <2> QED
      BY <2>3 DEF WrittenBy
  <1> QED
    BY <1>3, <1>4, Appends

LEMMA StampedStep ==
    ASSUME Typed, Stamped, WrittenBy(now), [Next]_vars
    PROVE  Stamped'
  <1> SUFFICES ASSUME NEW w \in Workers, NEW f, flight'[w] = f, f.phase = "loaded"
               PROVE  CurrentIfInPlace(f)'
    BY DEF Stamped
  <1>1. Len(events) \in Nat
    BY LenProperties DEF Typed
  <1>2. CASE f = flight[w]
    <2>1. CurrentIfInPlace(f)
      BY <1>2 DEF Stamped
    <2>2. CASE UNCHANGED <<status, events, version, setup, today, captain>>
      <3>1. CurrentContext' = CurrentContext
        BY <2>2 DEF CurrentContext, Occurrences
      <3> QED
        BY <2>1, <2>2, <3>1 DEF WrittenBy, CurrentIfInPlace
    <2>3. CASE \E at \in Nat, s \in Seq(EventRecords) : AppendedAt(at, s)
      <3>1. PICK s \in Seq(EventRecords) : events' = events \o s /\ Len(s) > 0
        BY <2>3 DEF AppendedAt
      <3>2. Len(s) \in Nat /\ Len(events') = Len(events) + Len(s)
        BY <3>1, EventsAppended DEF Typed
      <3>3. f.context.position \in 0..Len(events') /\ f.context.position # Len(events')
        BY <1>1, <2>1, <3>1, <3>2 DEF CurrentIfInPlace
      <3>4. f.loaded \in Nat
        BY <2>1 DEF CurrentIfInPlace
      <3> QED
        BY <3>3, <3>4 DEF CurrentIfInPlace
    <2> QED
      BY <2>2, <2>3, Appends
  <1>3. CASE /\ f = [phase |-> "loaded", command |-> flight[w].command,
                     context |-> CurrentContext, loaded |-> now]
             /\ UNCHANGED <<log, now>>
    <2>1. f.context = CurrentContext /\ f.loaded = now
      BY <1>3
    <2>2. CurrentContext.position = Len(events)
      BY DEF CurrentContext
    <2>3. CurrentContext' = CurrentContext /\ events' = events
      BY <1>3 DEF CurrentContext, Occurrences, log
    <2>4. now \in Nat
      BY ClockAssumption DEF Typed, TypeOK
    <2>5. f.context.position \in 0..Len(events')
      BY <1>1, <2>1, <2>2, <2>3
    <2>6. WrittenBy(f.loaded)'
      BY <2>1, <2>3 DEF WrittenBy
    <2> QED
      BY <2>1, <2>3, <2>4, <2>5, <2>6 DEF CurrentIfInPlace
  <1>4. /\ f # Idle
        /\ \A c : f # [phase |-> "received", command |-> c]
        /\ \A c : f # [phase |-> "refused", command |-> c]
    BY DEF Idle
  <1> QED
    BY <1>2, <1>3, <1>4, FlightAfter

LEMMA DayInit == Init => Typed /\ Stamped /\ WrittenBy(now)
  <1> SUFFICES ASSUME Init PROVE Typed /\ Stamped /\ WrittenBy(now)
    OBVIOUS
  <1>1. events \in Seq(EventRecords) /\ DOMAIN events = {}
    BY DEF Init
  <1>2. Typed
    BY <1>1, ClockAssumption DEF Init, Typed, TypeOK, SetupViews
  <1>3. Stamped
    BY DEF Init, Stamped, Idle
  <1>4. WrittenBy(now)
    BY <1>1 DEF WrittenBy
  <1> QED
    BY <1>2, <1>3, <1>4

LEMMA DayInvariant == Spec => [](Typed /\ Stamped /\ WrittenBy(now))
  <1>1. Typed /\ Stamped /\ WrittenBy(now) /\ [Next]_vars
           => Typed' /\ Stamped' /\ WrittenBy(now)'
    BY TypedStep, StampedStep, RecordedByNow
  <1> QED
    BY <1>1, DayInit, PTL DEF Spec

\* The log, the views and the invocations keep their types.
THEOREM DayTypeCorrect == Spec => []TypeOK
  <1>1. Typed => TypeOK
    BY DEF Typed
  <1> QED
    BY <1>1, DayInvariant, PTL

-----------------------------------------------------------------------------
(***************************************************************************)
(* The views and the log                                                   *)
(***************************************************************************)

\* A sequence without an event of a type adds no occurrence of it.
LEMMA NoOccurrence ==
    ASSUME events \in Seq(EventRecords), NEW s \in Seq(EventRecords), events' = events \o s,
           NEW type, \A n \in 1..Len(s) : s[n].type # type
    PROVE  Occurrences(type)' = Occurrences(type)
  <1>1. \A k : k \in Occurrences(type)' <=> k \in Occurrences(type)
    BY OccurrencesAfter
  <1> QED
    BY <1>1

\* If only the first event has the type, it adds that position.
LEMMA OneOccurrence ==
    ASSUME events \in Seq(EventRecords), NEW s \in Seq(EventRecords), events' = events \o s,
           NEW type, 1 \in 1..Len(s), s[1].type = type,
           \A n \in 1..Len(s) : n # 1 => s[n].type # type
    PROVE  Occurrences(type)' = Occurrences(type) \union {Len(events) + 1}
  <1>1. \A k : k \in Occurrences(type)'
                  <=> \/ k \in Occurrences(type)
                      \/ \E n \in 1..Len(s) : s[n].type = type /\ k = Len(events) + n
    BY OccurrencesAfter
  <1>2. \A k : (\E n \in 1..Len(s) : s[n].type = type /\ k = Len(events) + n)
                  <=> k = Len(events) + 1
    OBVIOUS
  <1> QED
    BY <1>1, <1>2

\* Completions that were in the log stay there.
LEMMA CompletedStays ==
    ASSUME events \in Seq(EventRecords), NEW s \in Seq(EventRecords), events' = events \o s,
           Occurrences("task.completed")' = Occurrences("task.completed"),
           NEW q \in Participants
    PROVE  CompletedInLog(q)' = CompletedInLog(q)
  <1>1. \A n \in Occurrences("task.completed") : events'[n] = events[n]
    BY EventsAppended, OccurrencesFinite
  <1> QED
    BY <1>1 DEF CompletedInLog

LEMMA StartEvents ==
    ASSUME Typed, Stamped, NEW w \in Workers, StartExpedition(w)
    PROVE  /\ Occurrences("day.started")' = Occurrences("day.started")
           /\ Occurrences("task.completed")' = Occurrences("task.completed")
           /\ \A q \in Participants : CompletedInLog(q)' = CompletedInLog(q)
  <1>1. PICK at \in Nat : events' = events \o <<Event("expedition.started", at),
                                                Event("stage.opened", at)>>
    BY StartWrites
  <1> DEFINE s == <<Event("expedition.started", at), Event("stage.opened", at)>>
  <1>2. /\ Event("expedition.started", at) \in EventRecords
        /\ Event("stage.opened", at) \in EventRecords
    BY DEF Event, EventRecords
  <1>3. s \in Seq(EventRecords) /\ Len(s) = 2
    BY <1>2
  <1>4. \A n \in 1..Len(s) : s[n].type \in {"expedition.started", "stage.opened"}
    BY <1>3 DEF Event
  <1>5. events \in Seq(EventRecords) /\ events' = events \o s
    BY <1>1 DEF Typed
  <1> HIDE DEF s
  <1>6. /\ \A n \in 1..Len(s) : s[n].type # "day.started"
        /\ \A n \in 1..Len(s) : s[n].type # "task.completed"
    BY <1>4
  <1>7. /\ Occurrences("day.started")' = Occurrences("day.started")
        /\ Occurrences("task.completed")' = Occurrences("task.completed")
    BY <1>3, <1>5, <1>6, NoOccurrence
  <1> QED
    BY <1>3, <1>5, <1>7, CompletedStays

LEMMA BoundaryEvents ==
    ASSUME Typed, Stamped, NEW w \in Workers, ProcessDayBoundary(w)
    PROVE  /\ Occurrences("day.started")' = Occurrences("day.started") \union {Len(events) + 1}
           /\ Occurrences("task.completed")' = Occurrences("task.completed")
           /\ Occurrences("expedition.started")' = Occurrences("expedition.started")
           /\ \A q \in Participants : CompletedInLog(q)' = CompletedInLog(q)
           /\ \A n \in Occurrences("expedition.started") :
                 events'[n] = events[n] /\ events[n].at <= events'[Len(events) + 1].at
  <1>1. PICK at \in Nat :
           /\ \A n \in Occurrences("expedition.started") : events[n].at <= at
           /\ events' = events \o <<Event("day.started", at),
                                    Event("role_assignments.activated", at),
                                    Event("card_bundles.published", at)>>
    BY BoundaryWrites
  <1> DEFINE s == <<Event("day.started", at), Event("role_assignments.activated", at),
                    Event("card_bundles.published", at)>>
  <1>2. /\ Event("day.started", at) \in EventRecords
        /\ Event("role_assignments.activated", at) \in EventRecords
        /\ Event("card_bundles.published", at) \in EventRecords
    BY DEF Event, EventRecords
  <1>3. s \in Seq(EventRecords) /\ Len(s) = 3 /\ 1 \in 1..Len(s)
    BY <1>2
  <1>4. /\ s[1].type = "day.started" /\ s[1].at = at
        /\ \A n \in 1..Len(s) : n # 1 =>
              s[n].type \in {"role_assignments.activated", "card_bundles.published"}
    BY <1>3 DEF Event
  <1>5. events \in Seq(EventRecords) /\ events' = events \o s
    BY <1>1 DEF Typed
  <1> HIDE DEF s
  <1>6. /\ \A n \in 1..Len(s) : n # 1 => s[n].type # "day.started"
        /\ \A n \in 1..Len(s) : s[n].type # "task.completed"
        /\ \A n \in 1..Len(s) : s[n].type # "expedition.started"
    BY <1>4
  <1>7. Occurrences("day.started")' = Occurrences("day.started") \union {Len(events) + 1}
    BY <1>3, <1>4, <1>5, <1>6, OneOccurrence
  <1>8. /\ Occurrences("task.completed")' = Occurrences("task.completed")
        /\ Occurrences("expedition.started")' = Occurrences("expedition.started")
    BY <1>3, <1>5, <1>6, NoOccurrence
  <1>9. events'[Len(events) + 1] = s[1]
    BY <1>3, <1>5, EventsAppended
  <1>10. \A n \in Occurrences("expedition.started") : events'[n] = events[n]
    BY <1>3, <1>5, EventsAppended, OccurrencesFinite
  <1> QED
    BY <1>1, <1>3, <1>4, <1>5, <1>7, <1>8, <1>9, <1>10, CompletedStays

LEMMA CompleteEvents ==
    ASSUME Typed, Stamped, NEW w \in Workers, CompleteTask(w)
    PROVE  LET p == flight[w].command.task.participant
               t == flight[w].command.task.task
               last == Len(events) + 1
           IN  /\ Occurrences("day.started")' = Occurrences("day.started")
               /\ Occurrences("expedition.started")' = Occurrences("expedition.started")
               /\ Occurrences("task.completed")'
                     = Occurrences("task.completed") \union {last}
               /\ last \notin Occurrences("task.completed")
               /\ \A n \in 1..Len(events) : events'[n] = events[n]
               /\ events'[last].participant = p /\ events'[last].task = t
               /\ \A q \in Participants :
                     CompletedInLog(q)' = CompletedInLog(q) \union (IF q = p THEN {t} ELSE {})
  <1> DEFINE p == flight[w].command.task.participant
             t == flight[w].command.task.task
             last == Len(events) + 1
  <1>1. p \in Participants /\ t \in Tasks
    BY CompleteWrites
  <1>2. PICK at \in Nat : events' = events \o <<[type |-> "task.completed", at |-> at,
                                                 participant |-> p, task |-> t]>>
    BY CompleteWrites
  <1> DEFINE e == [type |-> "task.completed", at |-> at, participant |-> p, task |-> t]
             s == <<e>>
  <1>3. e \in EventRecords
    BY <1>1 DEF EventRecords
  <1>4. e.type = "task.completed" /\ e.participant = p /\ e.task = t
    OBVIOUS
  <1>5. events \in Seq(EventRecords) /\ events' = events \o s
    BY <1>2 DEF Typed
  <1> HIDE DEF e
  <1>6. s \in Seq(EventRecords) /\ Len(s) = 1 /\ s[1] = e /\ 1 \in 1..Len(s)
    BY <1>3
  <1> HIDE DEF s, p, t
  <1>7. /\ \A n \in 1..Len(s) : n = 1
        /\ \A n \in 1..Len(s) : s[n].type # "day.started"
        /\ \A n \in 1..Len(s) : s[n].type # "expedition.started"
    BY <1>4, <1>6
  <1>8. /\ Occurrences("day.started")' = Occurrences("day.started")
        /\ Occurrences("expedition.started")' = Occurrences("expedition.started")
    BY <1>5, <1>6, <1>7, NoOccurrence
  <1>9. Occurrences("task.completed")' = Occurrences("task.completed") \union {last}
    BY <1>4, <1>5, <1>6, <1>7, OneOccurrence
  <1>10. /\ Len(events) \in Nat
         /\ Occurrences("task.completed") \subseteq 1..Len(events)
         /\ \A n \in 1..Len(events) : events'[n] = events[n]
         /\ events'[last] = e
    <2>1. Occurrences("task.completed") \subseteq 1..Len(events)
      BY <1>5, OccurrencesFinite
    <2>2. /\ Len(events) \in Nat
          /\ \A n \in 1..Len(events) : events'[n] = events[n]
          /\ \A n \in 1..Len(s) : events'[Len(events) + n] = s[n]
      BY <1>5, <1>6, EventsAppended
    <2> QED
      BY <1>6, <2>1, <2>2
  <1>11. last \notin Occurrences("task.completed")
    BY <1>10
  <1>12. ASSUME NEW q \in Participants
         PROVE  CompletedInLog(q)' = CompletedInLog(q) \union (IF q = p THEN {t} ELSE {})
    <2>1. ASSUME NEW x \in CompletedInLog(q)'
          PROVE  x \in CompletedInLog(q) \/ (q = p /\ x = t)
      <3>1. PICK n \in Occurrences("task.completed")' :
               events'[n].participant = q /\ events'[n].task = x
        BY <2>1 DEF CompletedInLog
      <3>2. CASE n = last
        BY <1>4, <1>10, <3>1, <3>2
      <3>3. CASE n # last
        <4>1. n \in Occurrences("task.completed") /\ events'[n] = events[n]
          BY <1>9, <1>10, <3>1, <3>3
        <4> QED
          BY <3>1, <4>1 DEF CompletedInLog
      <3> QED
        BY <3>2, <3>3
    <2>2. ASSUME NEW x \in CompletedInLog(q)
          PROVE  x \in CompletedInLog(q)'
      <3>1. PICK n \in Occurrences("task.completed") :
               events[n].participant = q /\ events[n].task = x
        BY <2>2 DEF CompletedInLog
      <3>2. n \in Occurrences("task.completed")' /\ events'[n] = events[n]
        BY <1>9, <1>10, <3>1
      <3> QED
        BY <3>1, <3>2 DEF CompletedInLog
    <2>3. q = p => t \in CompletedInLog(q)'
      <3>1. last \in Occurrences("task.completed")'
        BY <1>9
      <3> QED
        BY <1>4, <1>10, <3>1 DEF CompletedInLog
    <2> QED
      BY <2>1, <2>2, <2>3
  <1> QED
    BY <1>4, <1>8, <1>9, <1>10, <1>11, <1>12 DEF p, t

LEMMA FollowsStart ==
    ASSUME Typed, Stamped, DayFollowsLog, TasksAfterDay,
           NEW w \in Workers, StartExpedition(w)
    PROVE  DayFollowsLog' /\ TasksAfterDay'
  <1>1. captain = NoView /\ UNCHANGED <<today, captain>>
    BY StartWrites
  <1>2. Occurrences("day.started") = {}
    BY <1>1 DEF DayFollowsLog
  <1>3. /\ Occurrences("day.started")' = {}
        /\ Occurrences("task.completed")' = {}
    BY <1>2, StartEvents DEF TasksAfterDay
  <1> QED
    BY <1>1, <1>2, <1>3 DEF DayFollowsLog, TasksAfterDay

LEMMA FollowsBoundary ==
    ASSUME Typed, Stamped, DayFollowsLog, TasksAfterDay,
           NEW w \in Workers, ProcessDayBoundary(w)
    PROVE  DayFollowsLog' /\ TasksAfterDay'
  <1>1. /\ Occurrences("day.started") = {}
        /\ version' = version + 1 /\ version \in Nat
        /\ today' = [p \in Participants |-> OpeningTasks(p)]
        /\ captain' = [blockers |-> OpeningBlockers(Participants), terminal |-> {},
                       can_close_day |-> FALSE, revision |-> 1, version |-> version + 1]
    BY BoundaryWrites DEF Typed, TypeOK
  <1>2. Occurrences("task.completed") = {}
    BY <1>1 DEF TasksAfterDay
  <1>3. /\ Occurrences("day.started")' = {Len(events) + 1}
        /\ Occurrences("task.completed")' = {}
    BY <1>1, <1>2, BoundaryEvents
  <1>4. ASSUME NEW p \in Participants
        PROVE  CompletedInLog(p)' = {}
    BY <1>3 DEF CompletedInLog
  <1>5. ASSUME NEW p \in Participants
        PROVE  /\ today'[p] # NoView
               /\ {t \in TasksOf[p] : today'[p][t] = "completed"} = {}
    <2>1. today'[p] = OpeningTasks(p) /\ OpeningTasks(p) \in [TasksOf[p] -> TaskStatuses]
      BY <1>1, OpeningTypes
    <2>2. \A t \in TasksOf[p] : OpeningTasks(p)[t] = "available"
      BY DEF OpeningTasks
    <2> QED
      BY <2>1, <2>2, ViewTypes
  <1>6. captain' # NoView
    <2>1. captain' \in CaptainViews
      BY <1>1, OpeningTypes DEF CaptainViews
    <2> QED
      BY <2>1, SentinelAssumption
  <1>7. {p \in Participants : CompletedInLog(p)' = TasksOf[p]} = {}
    <2>1. \A p \in Participants : TasksOf[p] # {}
      BY BundleAssumption
    <2> QED
      BY <1>4, <2>1
  <1>8. /\ Cardinality(Occurrences("day.started")') = 1
        /\ Cardinality(Occurrences("task.completed")') = 0
    BY <1>3, FS_Singleton, FS_EmptySet
  <1>9. TasksAfterDay'
    BY <1>3 DEF TasksAfterDay
  <1>10. captain'.terminal = {} /\ captain'.revision = 1 /\ captain'.version = version'
    BY <1>1
  <1>11. Occurrences("day.started")' # {}
    BY <1>3
  <1>12. \A p \in Participants :
            /\ today'[p] # NoView
            /\ {t \in TasksOf[p] : today'[p][t] = "completed"} = CompletedInLog(p)'
    BY <1>4, <1>5
  <1>13. captain'.terminal = {p \in Participants : CompletedInLog(p)' = TasksOf[p]}
    BY <1>7, <1>10
  <1>14. captain'.revision = 1 + Cardinality(Occurrences("task.completed")')
    BY <1>8, <1>10
  <1> QED
    BY <1>6, <1>8, <1>9, <1>10, <1>11, <1>12, <1>13, <1>14 DEF DayFollowsLog

LEMMA FollowsComplete ==
    ASSUME Typed, Stamped, DayFollowsLog, TasksAfterDay,
           NEW w \in Workers, CompleteTask(w)
    PROVE  DayFollowsLog' /\ TasksAfterDay'
  <1>0. PICK p \in Participants, t \in Tasks :
           /\ p = flight[w].command.task.participant
           /\ t = flight[w].command.task.task
    BY CompleteWrites
  <1> DEFINE after == [today EXCEPT ![p][t] = "completed"]
             all == \A u \in DOMAIN after[p] : after[p][u] \in TerminalStatuses
             left == IF all
                     THEN captain.blockers \ {<<"required_task_incomplete", <<p, t>>>>}
                     ELSE captain.blockers
  <1>1. /\ today[p] # NoView /\ captain # NoView
        /\ t \in DOMAIN today[p]
        /\ today' = after
        /\ captain' = [blockers |-> left,
                       terminal |-> IF all THEN captain.terminal \union {p}
                                           ELSE captain.terminal \ {p},
                       can_close_day |-> left = {},
                       revision |-> captain.revision + 1,
                       version |-> version + 1]
        /\ version' = version + 1
    BY <1>0, CompleteWrites
  <1>2. /\ Occurrences("day.started")' = Occurrences("day.started")
        /\ Occurrences("task.completed")'
              = Occurrences("task.completed") \union {Len(events) + 1}
        /\ Len(events) + 1 \notin Occurrences("task.completed")
        /\ \A q \in Participants :
              CompletedInLog(q)' = CompletedInLog(q) \union (IF q = p THEN {t} ELSE {})
    BY <1>0, CompleteEvents
  <1>3. Occurrences("day.started") # {}
    BY <1>1 DEF DayFollowsLog
  <1>4. /\ Cardinality(Occurrences("day.started")) = 1
        /\ \A q \in Participants :
              /\ today[q] # NoView
              /\ {u \in TasksOf[q] : today[q][u] = "completed"} = CompletedInLog(q)
        /\ captain.terminal = {q \in Participants : CompletedInLog(q) = TasksOf[q]}
        /\ captain.revision = 1 + Cardinality(Occurrences("task.completed"))
        /\ captain.version = version
    BY <1>3 DEF DayFollowsLog
  <1>5. \A q \in Participants : today[q] \in [TasksOf[q] -> TaskStatuses]
    BY <1>4 DEF Typed
  <1>6. /\ DOMAIN today = Participants
        /\ today'[p] = [today[p] EXCEPT ![t] = "completed"]
        /\ \A q \in Participants \ {p} : today'[q] = today[q]
    BY <1>1 DEF Typed, TypeOK
  <1>7. t \in TasksOf[p] /\ today'[p] \in [TasksOf[p] -> TaskStatuses]
    <2>1. t \in TasksOf[p]
      BY <1>1, <1>5
    <2>2. "completed" \in TaskStatuses
      BY DEF TaskStatuses, TerminalStatuses
    <2>3. today[p] \in [TasksOf[p] -> TaskStatuses]
      BY <1>5
    <2> QED
      BY <1>6, <2>1, <2>2, <2>3
  <1>8. ASSUME NEW q \in Participants
        PROVE  /\ today'[q] # NoView
               /\ {u \in TasksOf[q] : today'[q][u] = "completed"} = CompletedInLog(q)'
    <2>1. CASE q = p
      <3>1. today'[p] # NoView
        BY <1>7, ViewTypes
      <3>2. today'[p][t] = "completed" /\ \A u \in TasksOf[p] \ {t} : today'[p][u] = today[p][u]
        BY <1>5, <1>6, <1>7
      <3>3. {u \in TasksOf[p] : today'[p][u] = "completed"}
               = {u \in TasksOf[p] : today[p][u] = "completed"} \union {t}
        BY <1>7, <3>2
      <3>4. {u \in TasksOf[p] : today[p][u] = "completed"} = CompletedInLog(p)
        BY <1>4
      <3>5. CompletedInLog(q)' = CompletedInLog(q) \union {t}
        BY <1>2, <2>1
      <3> QED
        BY <2>1, <3>1, <3>3, <3>4, <3>5
    <2>2. CASE q # p
      <3>1. CompletedInLog(q)' = CompletedInLog(q)
        BY <1>2, <2>2
      <3>2. today'[q] = today[q]
        BY <1>6, <2>2
      <3> QED
        BY <1>4, <3>1, <3>2
    <2> QED
      BY <2>1, <2>2
  <1>9. all <=> CompletedInLog(p) \union {t} = TasksOf[p]
    <2>1. after[p] = today'[p] /\ DOMAIN today'[p] = TasksOf[p]
      BY <1>1, <1>7
    <2>2. all <=> \A u \in TasksOf[p] : today'[p][u] = "completed"
      BY <2>1 DEF TerminalStatuses
    <2>3. {u \in TasksOf[p] : today'[p][u] = "completed"} = CompletedInLog(p) \union {t}
      <3>1. CompletedInLog(p) = {u \in TasksOf[p] : today[p][u] = "completed"}
        BY <1>4
      <3>2. today'[p][t] = "completed" /\ \A u \in TasksOf[p] \ {t} : today'[p][u] = today[p][u]
        BY <1>5, <1>6, <1>7
      <3> QED
        BY <1>7, <3>1, <3>2
    <2>4. (\A u \in TasksOf[p] : today'[p][u] = "completed")
             <=> {u \in TasksOf[p] : today'[p][u] = "completed"} = TasksOf[p]
      OBVIOUS
    <2> HIDE DEF all
    <2> QED
      BY <2>2, <2>3, <2>4
  <1> HIDE DEF all, left
  <1>10. captain'.terminal = {q \in Participants : CompletedInLog(q)' = TasksOf[q]}
    <2>1. captain'.terminal = IF all THEN captain.terminal \union {p}
                                     ELSE captain.terminal \ {p}
      BY <1>1
    <2>2. \A q \in Participants :
             q \in captain'.terminal <=> CompletedInLog(q)' = TasksOf[q]
      <3>1. ASSUME NEW q \in Participants, q # p
            PROVE  q \in captain'.terminal <=> CompletedInLog(q)' = TasksOf[q]
        <4>1. CompletedInLog(q)' = CompletedInLog(q)
          BY <1>2, <3>1
        <4>2. q \in captain.terminal <=> CompletedInLog(q) = TasksOf[q]
          BY <1>4
        <4> QED
          BY <2>1, <3>1, <4>1, <4>2
      <3>2. ASSUME NEW q \in Participants, q = p
            PROVE  q \in captain'.terminal <=> CompletedInLog(q)' = TasksOf[q]
        <4>1. CompletedInLog(q)' = CompletedInLog(q) \union {t}
          BY <1>2, <3>2
        <4> QED
          BY <1>9, <2>1, <3>2, <4>1
      <3> QED
        BY <3>1, <3>2
    <2>3. captain'.terminal \subseteq Participants
      BY <1>4, <2>1
    <2> QED
      BY <2>2, <2>3
  <1>11. captain'.revision = 1 + Cardinality(Occurrences("task.completed")')
    <2>1. IsFiniteSet(Occurrences("task.completed"))
      BY OccurrencesFinite DEF Typed
    <2>2. /\ Cardinality(Occurrences("task.completed")')
                = Cardinality(Occurrences("task.completed")) + 1
          /\ Cardinality(Occurrences("task.completed")) \in Nat
      BY <1>2, <2>1, FS_AddElement, FS_CardinalityType
    <2>3. captain'.revision = captain.revision + 1
      BY <1>1
    <2> QED
      BY <1>4, <2>2, <2>3
  <1>12. captain' # NoView /\ captain'.version = version'
    <2>1. captain'.version = version'
      BY <1>1
    <2>2. captain' \in CaptainViews
      BY CompletedViewTyped
    <2> QED
      BY <2>1, <2>2, SentinelAssumption
  <1>13. TasksAfterDay'
    BY <1>2, <1>3 DEF TasksAfterDay
  <1>14. Occurrences("day.started")' # {} /\ Cardinality(Occurrences("day.started")') = 1
    BY <1>2, <1>3, <1>4
  <1> QED
    BY <1>8, <1>10, <1>11, <1>12, <1>13, <1>14 DEF DayFollowsLog

\* A step that leaves the log alone leaves the views alone.
LEMMA FollowsNothing ==
    ASSUME DayFollowsLog, TasksAfterDay,
           UNCHANGED <<status, events, version, setup, today, captain>>
    PROVE  DayFollowsLog' /\ TasksAfterDay'
  BY DEF DayFollowsLog, TasksAfterDay, CompletedInLog, Occurrences

LEMMA FollowsStep ==
    ASSUME Typed, Stamped, DayFollowsLog, TasksAfterDay, [Next]_vars
    PROVE  DayFollowsLog' /\ TasksAfterDay'
  <1>1. CASE \E w \in Workers : StartExpedition(w)
    BY <1>1, FollowsStart
  <1>2. CASE \E w \in Workers : ProcessDayBoundary(w)
    BY <1>2, FollowsBoundary
  <1>3. CASE \E w \in Workers : CompleteTask(w)
    BY <1>3, FollowsComplete
  <1>4. CASE \E w \in Workers : RejectTask(w)
    BY <1>4, RejectWrites, FollowsNothing
  <1>5. CASE UNCHANGED log
    BY <1>5, FollowsNothing DEF log
  <1> QED
    BY <1>1, <1>2, <1>3, <1>4, <1>5, StepKinds

LEMMA FollowsInit == Init => DayFollowsLog /\ TasksAfterDay
  <1> SUFFICES ASSUME Init PROVE DayFollowsLog /\ TasksAfterDay
    OBVIOUS
  <1>1. events = <<>> /\ captain = NoView /\ \A p \in Participants : today[p] = NoView
    BY DEF Init
  <1>2. \A type : Occurrences(type) = {}
    BY <1>1 DEF Occurrences
  <1> QED
    BY <1>1, <1>2 DEF DayFollowsLog, TasksAfterDay

LEMMA FollowsInvariant == Spec => [](DayFollowsLog /\ TasksAfterDay)
  <1>1. Typed /\ Stamped /\ DayFollowsLog /\ TasksAfterDay /\ [Next]_vars
           => DayFollowsLog' /\ TasksAfterDay'
    BY FollowsStep
  <1> QED
    BY <1>1, FollowsInit, DayInvariant, PTL DEF Spec

\* The views of the Participants and of the captain are what the log says, although
\* each is rewritten from what an invocation read earlier.
THEOREM ViewsFollowLog == Spec => []DayFollowsLog
  BY FollowsInvariant, PTL

\* The Day opens for the whole team and for nobody else.
THEOREM OpensForActiveTeam == Spec => DayOpensForActiveTeam
  <1>1. ASSUME Typed, Stamped, [Next]_vars, captain = NoView, captain' # NoView
        PROVE  {p \in Participants : today'[p] # NoView} = active
    <2>1. CASE \E w \in Workers : ProcessDayBoundary(w)
      <3>1. active = Participants /\ today' = [p \in Participants |-> OpeningTasks(p)]
        BY <1>1, <2>1, BoundaryWrites
      <3>2. \A p \in Participants : today'[p] # NoView
        BY <3>1, OpeningTypes, ViewTypes
      <3> QED
        BY <3>1, <3>2
    <2>2. CASE \E w \in Workers : StartExpedition(w)
      BY <1>1, <2>2, StartWrites
    <2>3. CASE \E w \in Workers : CompleteTask(w)
      BY <1>1, <2>3, CompleteWrites
    <2>4. CASE \E w \in Workers : RejectTask(w)
      BY <1>1, <2>4, RejectWrites
    <2>5. CASE UNCHANGED log
      BY <1>1, <2>5 DEF log
    <2> QED
      BY <1>1, <2>1, <2>2, <2>3, <2>4, <2>5, StepKinds
  <1>2. Typed /\ Stamped /\ [Next]_vars
           => [captain = NoView /\ captain' # NoView =>
                  {p \in Participants : today'[p] # NoView} = active]_vars
    BY <1>1
  <1> QED
    BY <1>2, DayInvariant, PTL DEF Spec, DayOpensForActiveTeam

-----------------------------------------------------------------------------
(***************************************************************************)
(* The order of the stream                                                 *)
(***************************************************************************)

LEMMA OrderKept ==
    ASSUME Typed, Stamped, [Next]_vars,
           \A m, n \in DOMAIN events : m < n => events[m].at <= events[n].at + Skew
    PROVE  \A m, n \in DOMAIN events' : m < n => events'[m].at <= events'[n].at + Skew
  <1>1. CASE UNCHANGED <<status, events, version, setup, today, captain>>
    BY <1>1
  <1>2. CASE \E at \in Nat, s \in Seq(EventRecords) : AppendedAt(at, s)
    <2>1. PICK at \in Nat, s \in Seq(EventRecords) : AppendedAt(at, s)
      BY <1>2
    <2>2. /\ Len(events) \in Nat /\ Len(s) \in Nat
          /\ DOMAIN events = 1..Len(events) /\ DOMAIN events' = 1..(Len(events) + Len(s))
          /\ \A n \in 1..Len(events) : events'[n] = events[n]
          /\ \A n \in 1..Len(s) : events'[Len(events) + n] = s[n]
      BY <2>1, EventsAppended DEF Typed, AppendedAt
    <2>3. ASSUME NEW n \in DOMAIN events', n \notin 1..Len(events)
          PROVE  events'[n].at = at /\ n > Len(events)
      <3> DEFINE m == n - Len(events)
      <3>1. m \in 1..Len(s) /\ n = Len(events) + m
        BY <2>2, <2>3
      <3> HIDE DEF m
      <3> QED
        BY <2>1, <2>2, <3>1 DEF AppendedAt
    <2>4. Skew \in Nat
      BY ClockAssumption
    <2> SUFFICES ASSUME NEW m \in DOMAIN events', NEW n \in DOMAIN events', m < n
                 PROVE  events'[m].at <= events'[n].at + Skew
      OBVIOUS
    <2>5. CASE n \in 1..Len(events)
      <3>1. m \in 1..Len(events)
        BY <2>2, <2>5
      <3> QED
        BY <2>2, <2>5, <3>1
    <2>6. CASE m \in 1..Len(events) /\ n \notin 1..Len(events)
      <3>1. events[m].at <= at + Skew
        BY <2>1, <2>2, <2>6 DEF AppendedAt
      <3> QED
        BY <2>2, <2>3, <2>6, <3>1
    <2>7. CASE m \notin 1..Len(events) /\ n \notin 1..Len(events)
      BY <2>3, <2>4, <2>7
    <2> QED
      BY <2>5, <2>6, <2>7
  <1> QED
    BY <1>1, <1>2, Appends

StartBeforeDay ==
    \A m \in Occurrences("expedition.started"), n \in Occurrences("day.started") :
       events[m].at <= events[n].at

LEMMA StartBeforeDayKept ==
    ASSUME Typed, Stamped, DayFollowsLog, TasksAfterDay, StartBeforeDay, [Next]_vars
    PROVE  StartBeforeDay'
  <1>1. CASE \E w \in Workers : StartExpedition(w)
    <2>1. Occurrences("day.started") = {}
      BY <1>1, StartWrites DEF DayFollowsLog
    <2>2. Occurrences("day.started")' = {}
      BY <1>1, <2>1, StartEvents
    <2> QED
      BY <2>2 DEF StartBeforeDay
  <1>2. CASE \E w \in Workers : ProcessDayBoundary(w)
    <2>1. Occurrences("day.started") = {}
      BY <1>2, BoundaryWrites
    <2>2. /\ Occurrences("day.started")' = {Len(events) + 1}
          /\ Occurrences("expedition.started")' = Occurrences("expedition.started")
          /\ \A n \in Occurrences("expedition.started") :
                events'[n] = events[n] /\ events[n].at <= events'[Len(events) + 1].at
      BY <1>2, <2>1, BoundaryEvents
    <2> QED
      BY <2>2 DEF StartBeforeDay
  <1>3. CASE \E w \in Workers : CompleteTask(w)
    <2>1. /\ Occurrences("day.started")' = Occurrences("day.started")
          /\ Occurrences("expedition.started")' = Occurrences("expedition.started")
          /\ \A n \in 1..Len(events) : events'[n] = events[n]
      BY <1>3, CompleteEvents
    <2>2. /\ Occurrences("day.started") \subseteq 1..Len(events)
          /\ Occurrences("expedition.started") \subseteq 1..Len(events)
      BY OccurrencesFinite DEF Typed
    <2> QED
      BY <2>1, <2>2 DEF StartBeforeDay
  <1>4. CASE \E w \in Workers : RejectTask(w)
    BY <1>4, RejectWrites DEF StartBeforeDay, Occurrences
  <1>5. CASE UNCHANGED log
    BY <1>5 DEF log, StartBeforeDay, Occurrences
  <1> QED
    BY <1>1, <1>2, <1>3, <1>4, <1>5, StepKinds

\* However the clocks of the functions differ, recorded_at goes back by Skew at most
\* and the Day is never recorded before the start of the Expedition.
THEOREM StreamInOrder == Spec => []RecordedInOrder
  <1>1. Init => RecordedInOrder
    <2>1. Init => DOMAIN events = {}
      BY DEF Init
    <2> QED
      BY <2>1 DEF RecordedInOrder, Occurrences
  <1>2. Typed /\ Stamped /\ DayFollowsLog /\ TasksAfterDay /\ RecordedInOrder /\ [Next]_vars
           => RecordedInOrder'
    BY OrderKept, StartBeforeDayKept DEF RecordedInOrder, StartBeforeDay
  <1> QED
    BY <1>1, <1>2, DayInvariant, FollowsInvariant, PTL DEF Spec

-----------------------------------------------------------------------------
(***************************************************************************)
(* The blockers                                                            *)
(***************************************************************************)

\* What the pilot policy gives every Participant.
OneTaskEach == \A p \in Participants : \E t \in Tasks : TasksOf[p] = {t}

OpenTasks == {pt \in Participants \X Tasks : /\ pt[2] \in TasksOf[pt[1]]
                                             /\ today[pt[1]][pt[2]] = "available"}

TaskBlockers == {b \in captain.blockers : b[1] = "required_task_incomplete"}

LEMMA BlockersAtOpening ==
    ASSUME Typed, Stamped, NEW w \in Workers, ProcessDayBoundary(w)
    PROVE  BlockersNameOpenTasks'
  <1>1. /\ today' = [p \in Participants |-> OpeningTasks(p)]
        /\ captain' = [blockers |-> OpeningBlockers(Participants), terminal |-> {},
                       can_close_day |-> FALSE, revision |-> 1, version |-> version + 1]
    BY BoundaryWrites
  <1>2. \A p \in Participants : \A t \in TasksOf[p] : today'[p][t] = "available"
    BY <1>1 DEF OpeningTasks
  <1>3. captain'.blockers = OpeningBlockers(Participants) /\ ~captain'.can_close_day
    BY <1>1
  <1>4. {b \in OpeningBlockers(Participants) : b[1] = "required_task_incomplete"}
           = {"required_task_incomplete"}
                \X {pt \in Participants \X Tasks : pt[2] \in TasksOf[pt[1]]}
    BY DEF OpeningBlockers
  <1>5. OpenTasks' = {pt \in Participants \X Tasks : pt[2] \in TasksOf[pt[1]]}
    BY <1>2 DEF OpenTasks
  <1> QED
    BY <1>3, <1>4, <1>5 DEF BlockersNameOpenTasks, OpenTasks

LEMMA BlockersAtCompletion ==
    ASSUME OneTaskEach, Typed, Stamped, DayFollowsLog, BlockersNameOpenTasks,
           NEW w \in Workers, CompleteTask(w)
    PROVE  BlockersNameOpenTasks'
  <1>0. PICK p \in Participants, t \in Tasks :
           /\ p = flight[w].command.task.participant
           /\ t = flight[w].command.task.task
    BY CompleteWrites
  <1> DEFINE after == [today EXCEPT ![p][t] = "completed"]
             all == \A u \in DOMAIN after[p] : after[p][u] \in TerminalStatuses
             left == IF all
                     THEN captain.blockers \ {<<"required_task_incomplete", <<p, t>>>>}
                     ELSE captain.blockers
  <1>1. /\ today[p] # NoView /\ captain # NoView /\ t \in DOMAIN today[p]
        /\ today' = after
        /\ captain' = [blockers |-> left,
                       terminal |-> IF all THEN captain.terminal \union {p}
                                           ELSE captain.terminal \ {p},
                       can_close_day |-> left = {},
                       revision |-> captain.revision + 1,
                       version |-> version + 1]
    BY <1>0, CompleteWrites
  <1>2. \A q \in Participants : today[q] \in [TasksOf[q] -> TaskStatuses]
    BY <1>1 DEF DayFollowsLog, Typed
  <1>3. TasksOf[p] = {t}
    BY <1>1, <1>2 DEF OneTaskEach
  <1>4. /\ today'[p] = [today[p] EXCEPT ![t] = "completed"]
        /\ \A q \in Participants \ {p} : today'[q] = today[q]
    BY <1>1 DEF Typed, TypeOK
  <1>5. today'[p][t] = "completed" /\ DOMAIN today'[p] = {t}
    BY <1>2, <1>3, <1>4
  <1>6. all
    BY <1>1, <1>5 DEF TerminalStatuses
  <1>7. left = captain.blockers \ {<<"required_task_incomplete", <<p, t>>>>}
    BY <1>6
  <1> HIDE DEF all, left
  <1>8. TaskBlockers = {"required_task_incomplete"} \X OpenTasks
    BY <1>1 DEF BlockersNameOpenTasks, TaskBlockers, OpenTasks
  <1>9. OpenTasks' = OpenTasks \ {<<p, t>>}
    <2>1. ASSUME NEW q \in Participants, NEW u \in Tasks, u \in TasksOf[q]
          PROVE  today'[q][u] = "available"
                    <=> today[q][u] = "available" /\ <<q, u>> # <<p, t>>
      <3>1. CASE q = p
        BY <1>3, <1>5, <2>1, <3>1
      <3>2. CASE q # p
        BY <1>4, <2>1, <3>2
      <3> QED
        BY <3>1, <3>2
    <2> QED
      BY <2>1 DEF OpenTasks
  <1>10. TaskBlockers' = TaskBlockers \ {<<"required_task_incomplete", <<p, t>>>>}
    BY <1>1, <1>7 DEF TaskBlockers
  <1>11. TaskBlockers' = {"required_task_incomplete"} \X OpenTasks'
    BY <1>8, <1>9, <1>10
  <1>12. captain'.can_close_day => captain'.blockers = {}
    BY <1>1
  <1> QED
    BY <1>11, <1>12 DEF BlockersNameOpenTasks, TaskBlockers, OpenTasks

\* With one required task in every bundle the captain is told exactly which tasks
\* are still open, however the completions interleave.
THEOREM BlockersAreTheOpenTasks ==
    ASSUME OneTaskEach
    PROVE  Spec => []BlockersNameOpenTasks
  <1>1. Init => BlockersNameOpenTasks
    BY DEF Init, BlockersNameOpenTasks
  <1>2. ASSUME Typed, Stamped, DayFollowsLog, BlockersNameOpenTasks, [Next]_vars
        PROVE  BlockersNameOpenTasks'
    <2>1. CASE \E w \in Workers : StartExpedition(w)
      BY <1>2, <2>1, StartWrites DEF BlockersNameOpenTasks
    <2>2. CASE \E w \in Workers : ProcessDayBoundary(w)
      BY <1>2, <2>2, BlockersAtOpening
    <2>3. CASE \E w \in Workers : CompleteTask(w)
      BY <1>2, <2>3, BlockersAtCompletion
    <2>4. CASE \E w \in Workers : RejectTask(w)
      BY <1>2, <2>4, RejectWrites DEF BlockersNameOpenTasks
    <2>5. CASE UNCHANGED log
      BY <1>2, <2>5 DEF log, BlockersNameOpenTasks
    <2> QED
      BY <1>2, <2>1, <2>2, <2>3, <2>4, <2>5, StepKinds
  <1> QED
    BY <1>1, <1>2, DayInvariant, FollowsInvariant, PTL DEF Spec

-----------------------------------------------------------------------------
(***************************************************************************)
(* One command, one completion                                             *)
(***************************************************************************)

AcceptedFor(p, t) ==
    {c \in Commands : /\ c.kind = "complete" /\ receipts[c] = "accepted"
                      /\ c.task.participant = p /\ c.task.task = t}

CompletionsOf(p, t) ==
    {n \in Occurrences("task.completed") : events[n].participant = p /\ events[n].task = t}

DistinctCompletions ==
    \A m, n \in Occurrences("task.completed") :
       events[m].participant = events[n].participant /\ events[m].task = events[n].task
          => m = n

AcceptedAreCompletions ==
    \A p \in Participants, t \in Tasks :
       /\ IsFiniteSet(AcceptedFor(p, t))
       /\ Cardinality(AcceptedFor(p, t)) = Cardinality(CompletionsOf(p, t))

\* A step after which the log has the completions it had, and the receipts of task
\* commands are the same or refusals.
LEMMA CompletionsKept ==
    ASSUME DistinctCompletions, AcceptedAreCompletions,
           Occurrences("task.completed")' = Occurrences("task.completed"),
           \A n \in Occurrences("task.completed") : events'[n] = events[n],
           \A c \in Commands : c.kind = "complete" =>
              (receipts'[c] = "accepted" <=> receipts[c] = "accepted")
    PROVE  DistinctCompletions' /\ AcceptedAreCompletions'
  <1>1. ASSUME NEW p \in Participants, NEW t \in Tasks
        PROVE  /\ AcceptedFor(p, t)' = AcceptedFor(p, t)
               /\ CompletionsOf(p, t)' = CompletionsOf(p, t)
    BY DEF AcceptedFor, CompletionsOf
  <1>2. DistinctCompletions'
    BY DEF DistinctCompletions
  <1> QED
    BY <1>1, <1>2 DEF AcceptedAreCompletions

\* An accepted completion is the first of its task.
LEMMA CompletionsGrow ==
    ASSUME Typed, Stamped, DayFollowsLog, DistinctCompletions, AcceptedAreCompletions,
           NEW w \in Workers, CompleteTask(w)
    PROVE  DistinctCompletions' /\ AcceptedAreCompletions'
  <1>0. PICK c \in Commands, p \in Participants, t \in Tasks :
           c = flight[w].command /\ p = c.task.participant /\ t = c.task.task
    BY CompleteWrites
  <1>1. /\ c.kind = "complete" /\ receipts[c] = "none"
        /\ receipts' = [receipts EXCEPT ![c] = "accepted"]
        /\ captain # NoView /\ t \in DOMAIN today[p] /\ today[p][t] \notin TerminalStatuses
    BY <1>0, CompleteWrites
  <1> DEFINE last == Len(events) + 1
  <1>2. /\ Occurrences("task.completed")' = Occurrences("task.completed") \union {last}
        /\ last \notin Occurrences("task.completed")
        /\ \A n \in 1..Len(events) : events'[n] = events[n]
        /\ events'[last].participant = p /\ events'[last].task = t
    BY <1>0, CompleteEvents
  <1>3. IsFiniteSet(Occurrences("task.completed"))
        /\ \A n \in Occurrences("task.completed") : events'[n] = events[n]
    BY <1>2, OccurrencesFinite DEF Typed
  <1> HIDE DEF last
  <1>4. t \notin CompletedInLog(p)
    BY <1>1 DEF DayFollowsLog, TerminalStatuses
  <1>5. CompletionsOf(p, t) = {}
    BY <1>4 DEF CompletionsOf, CompletedInLog
  <1>6. DistinctCompletions'
    <2>1. ASSUME NEW n \in Occurrences("task.completed")
          PROVE  ~(events'[n].participant = p /\ events'[n].task = t)
      BY <1>3, <1>5 DEF CompletionsOf
    <2> QED
      BY <1>2, <1>3, <2>1 DEF DistinctCompletions
  <1>7. ASSUME NEW q \in Participants, NEW u \in Tasks
        PROVE  /\ IsFiniteSet(AcceptedFor(q, u))'
               /\ Cardinality(AcceptedFor(q, u))' = Cardinality(CompletionsOf(q, u))'
    <2>1. DOMAIN receipts = Commands
      BY DEF Typed, TypeOK
    <2>2. CASE q = p /\ u = t
      <3>1. /\ AcceptedFor(q, u)' = AcceptedFor(q, u) \union {c}
            /\ c \notin AcceptedFor(q, u)
        BY <1>0, <1>1, <2>1, <2>2 DEF AcceptedFor
      <3>2. CompletionsOf(q, u)' = CompletionsOf(q, u) \union {last}
            /\ last \notin CompletionsOf(q, u)
        BY <1>2, <1>3, <2>2 DEF CompletionsOf
      <3>3. CompletionsOf(q, u) \subseteq Occurrences("task.completed")
        BY DEF CompletionsOf
      <3>4. IsFiniteSet(CompletionsOf(q, u))
        BY <1>3, <3>3, FS_Subset
      <3>5. /\ Cardinality(CompletionsOf(q, u) \union {last})
                  = Cardinality(CompletionsOf(q, u)) + 1
        BY <3>2, <3>4, FS_AddElement
      <3>6. /\ IsFiniteSet(AcceptedFor(q, u) \union {c})
            /\ Cardinality(AcceptedFor(q, u) \union {c}) = Cardinality(AcceptedFor(q, u)) + 1
        BY <3>1, FS_AddElement DEF AcceptedAreCompletions
      <3> QED
        BY <3>1, <3>2, <3>5, <3>6 DEF AcceptedAreCompletions
    <2>3. CASE ~(q = p /\ u = t)
      <3>1. AcceptedFor(q, u)' = AcceptedFor(q, u)
        BY <1>0, <1>1, <2>1, <2>3 DEF AcceptedFor
      <3>2. CompletionsOf(q, u)' = CompletionsOf(q, u)
        BY <1>2, <1>3, <2>3 DEF CompletionsOf
      <3> QED
        BY <3>1, <3>2 DEF AcceptedAreCompletions
    <2> QED
      BY <2>2, <2>3
  <1> QED
    BY <1>6, <1>7 DEF AcceptedAreCompletions

LEMMA CompletionsStep ==
    ASSUME Typed, Stamped, DayFollowsLog, DistinctCompletions, AcceptedAreCompletions,
           [Next]_vars
    PROVE  DistinctCompletions' /\ AcceptedAreCompletions'
  <1>0. /\ DOMAIN receipts = Commands
        /\ Occurrences("task.completed") \subseteq 1..Len(events)
    BY OccurrencesFinite DEF Typed, TypeOK
  <1>1. CASE \E w \in Workers : StartExpedition(w)
    <2>1. PICK w \in Workers : StartExpedition(w)
      BY <1>1
    <2>2. /\ receipts' = [receipts EXCEPT ![flight[w].command] = "accepted"]
          /\ flight[w].command.kind = "start"
          /\ \E s \in Seq(EventRecords) : events' = events \o s
      <3>1. PICK at \in Nat : events' = events \o <<Event("expedition.started", at),
                                                    Event("stage.opened", at)>>
        BY <2>1, StartWrites
      <3>2. <<Event("expedition.started", at), Event("stage.opened", at)>>
               \in Seq(EventRecords)
        BY DEF Event, EventRecords
      <3> QED
        BY <2>1, <3>1, <3>2, StartWrites
    <2>3. \A n \in 1..Len(events) : events'[n] = events[n]
      BY <2>2, EventsAppended DEF Typed
    <2>4. Occurrences("task.completed")' = Occurrences("task.completed")
      BY <2>1, StartEvents
    <2>5. \A c \in Commands : c.kind = "complete" => receipts'[c] = receipts[c]
      BY <1>0, <2>2
    <2> QED
      BY <1>0, <2>3, <2>4, <2>5, CompletionsKept
  <1>2. CASE \E w \in Workers : ProcessDayBoundary(w)
    <2>1. PICK w \in Workers : ProcessDayBoundary(w)
      BY <1>2
    <2>2. /\ receipts' = [receipts EXCEPT ![flight[w].command] = "accepted"]
          /\ flight[w].command.kind = "boundary"
          /\ \E s \in Seq(EventRecords) : events' = events \o s
      <3>1. PICK at \in Nat : events' = events \o <<Event("day.started", at),
                                                    Event("role_assignments.activated", at),
                                                    Event("card_bundles.published", at)>>
        BY <2>1, BoundaryWrites
      <3>2. <<Event("day.started", at), Event("role_assignments.activated", at),
              Event("card_bundles.published", at)>> \in Seq(EventRecords)
        BY DEF Event, EventRecords
      <3> QED
        BY <2>1, <3>1, <3>2, BoundaryWrites
    <2>3. \A n \in 1..Len(events) : events'[n] = events[n]
      BY <2>2, EventsAppended DEF Typed
    <2>4. Occurrences("task.completed")' = Occurrences("task.completed")
      BY <2>1, BoundaryEvents
    <2>5. \A c \in Commands : c.kind = "complete" => receipts'[c] = receipts[c]
      BY <1>0, <2>2
    <2> QED
      BY <1>0, <2>3, <2>4, <2>5, CompletionsKept
  <1>3. CASE \E w \in Workers : CompleteTask(w)
    BY <1>3, CompletionsGrow
  <1>4. CASE \E w \in Workers : RejectTask(w)
    <2>1. PICK w \in Workers : RejectTask(w)
      BY <1>4
    <2>2. /\ receipts[flight[w].command] = "none"
          /\ receipts' = [receipts EXCEPT ![flight[w].command] = "rejected"]
          /\ events' = events
      BY <2>1, RejectWrites
    <2>3. Occurrences("task.completed")' = Occurrences("task.completed")
      BY <2>2 DEF Occurrences
    <2>4. \A c \in Commands : receipts'[c] = "accepted" <=> receipts[c] = "accepted"
      BY <1>0, <2>2
    <2> QED
      BY <2>2, <2>3, <2>4, CompletionsKept
  <1>5. CASE UNCHANGED log
    <2>1. events' = events /\ receipts' = receipts
      BY <1>5 DEF log
    <2>2. Occurrences("task.completed")' = Occurrences("task.completed")
      BY <2>1 DEF Occurrences
    <2> QED
      BY <2>1, <2>2, CompletionsKept
  <1> QED
    BY <1>1, <1>2, <1>3, <1>4, <1>5, StepKinds

LEMMA CompletionsInit == Init => DistinctCompletions /\ AcceptedAreCompletions
  <1> SUFFICES ASSUME Init PROVE DistinctCompletions /\ AcceptedAreCompletions
    OBVIOUS
  <1>1. Occurrences("task.completed") = {}
    BY DEF Init, Occurrences
  <1>2. ASSUME NEW p \in Participants, NEW t \in Tasks
        PROVE  AcceptedFor(p, t) = {} /\ CompletionsOf(p, t) = {}
    BY <1>1 DEF Init, AcceptedFor, CompletionsOf
  <1> QED
    BY <1>1, <1>2, FS_EmptySet DEF DistinctCompletions, AcceptedAreCompletions

\* Of all the commands for a task that reach the server, exactly one is accepted for
\* each completion in the log, and there is at most one.
THEOREM CompletedByOneCommand == Spec => []TaskCompletedOnce
  <1>1. Typed /\ Stamped /\ DayFollowsLog /\ DistinctCompletions /\ AcceptedAreCompletions
           /\ [Next]_vars => DistinctCompletions' /\ AcceptedAreCompletions'
    BY CompletionsStep
  <1>2. DistinctCompletions /\ AcceptedAreCompletions => TaskCompletedOnce
    BY DEF DistinctCompletions, AcceptedAreCompletions, TaskCompletedOnce, AcceptedFor,
           CompletionsOf
  <1> QED
    BY <1>1, <1>2, CompletionsInit, DayInvariant, FollowsInvariant, PTL DEF Spec
=============================================================================
