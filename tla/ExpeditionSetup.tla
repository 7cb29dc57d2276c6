---------------------------- MODULE ExpeditionSetup ----------------------------
(***************************************************************************)
(* The setup of one Expedition, from its creation to its start: the        *)
(* executors of supabase/functions/_shared/command-gateway (invitation.ts, *)
(* rotation.ts, start.ts), the reducers of engine-runtime they run, and    *)
(* the transactions private.invite_participant, accept_invitation,         *)
(* revoke_invitation, generate_rotation and start_expedition.              *)
(*                                                                         *)
(* Three things must keep saying the same: the rows of expeditions,        *)
(* invitations and participants, the event log, and the setup view that    *)
(* the next reducer starts from.  An invocation reads the view in one      *)
(* transaction, an acceptance reads its invitation in another, and both    *)
(* write in a third.                                                       *)
(*                                                                         *)
(* A redelivered command finds its receipt and changes nothing (module     *)
(* CommandGateway), so here every invocation carries a fresh command.      *)
(***************************************************************************)
EXTENDS Naturals, Sequences, FiniteSets, SequencesExt

CONSTANTS
    People,            \* verified emails, one Profile each
    Workers,           \* invocations that may be in flight at once
    TeamMin, TeamMax,  \* the team policy of the release (3 and 5)
    OnboardRoleCycle,  \* onboard roles by Participant order
    Cook,              \* the onboard role that excludes Product Captain
    MaxInvitations,    \* bound: invitations ever created
    NoRow, NoView, NoRotation

ASSUME PolicyAssumption ==
    /\ TeamMin \in Nat \ {0} /\ TeamMax \in Nat /\ TeamMin <= TeamMax
    /\ OnboardRoleCycle \in Seq(STRING) /\ Len(OnboardRoleCycle) >= TeamMax
    /\ MaxInvitations \in Nat

\* The policy reader demands five different onboard roles, one of them the cook's, and
\* the release's smallest team is three: in every team somebody may lead the product.
ASSUME LeaderAssumption == \E order \in 1..TeamMin : OnboardRoleCycle[order] # Cook

Orders == 1..TeamMax
InvitationIds == 1..MaxInvitations

VARIABLES
    status,        \* expeditions.status
    invitations,   \* the rows of invitations, in creation order
    participants,  \* membership and Participant row of each person
    events,        \* the event log of the Expedition
    version,       \* projection_heads.current_projection_version
    view,          \* the document expedition_setup_view
    flight         \* what each invocation is doing

store == <<status, invitations, participants, events, version, view>>
vars == <<store, flight>>

Assignments ==
    [person: People, onboard_role: ToSet(OnboardRoleCycle),
     product_role: {"product_captain", "product_support"}]

Views ==
    [expedition_status: {"draft", "ready", "active"},
     participants: SUBSET [person: People, order: Orders],
     invitations: Seq([id: InvitationIds, status: {"pending", "accepted", "revoked"}]),
     rotation: (SUBSET Assignments) \union {NoRotation},
     version: Nat]

\* NULL is no row, no document and no rotation.
ASSUME NullAssumption ==
    /\ NoRow \notin [order: Orders, status: {"active", "banned"}]
    /\ NoView \notin Views
    /\ \A plan \in SUBSET Assignments : plan # NoRotation

Commands ==
    [kind: {"invite"}, person: People]
       \union [kind: {"accept", "revoke"}, invitation: InvitationIds]
       \union [kind: {"generate_rotation", "start"}]

Idle == [phase |-> "idle"]

TypeOK ==
    /\ status \in {"draft", "ready", "active"}
    /\ invitations \in Seq([person: People, lapsed: BOOLEAN,
                            status: {"pending", "accepted", "revoked"}])
    /\ participants \in [People -> [order: Orders, status: {"active", "banned"}]
                                       \union {NoRow}]
    /\ version \in Nat
    /\ view = NoView \/ (view \in Views /\ Len(view.invitations) <= TeamMax)
    /\ \A w \in Workers :
          \/ flight[w] = Idle
          \/ /\ flight[w].phase \in {"loaded", "matched"}
             /\ flight[w].command \in Commands
             /\ flight[w].order \in Orders \union {0}

\* bootstrap_expedition leaves one event and no projection.
Init ==
    /\ status = "draft"
    /\ invitations = <<>>
    /\ participants = [p \in People |-> NoRow]
    /\ events = <<[type |-> "expedition.created"]>>
    /\ version = 0
    /\ view = NoView
    /\ flight = [w \in Workers |-> Idle]

-----------------------------------------------------------------------------
(***************************************************************************)
(* The tables, as the transactions read them                               *)
(***************************************************************************)

\* Mutant of ActivePeople: banned members are counted.
PeopleWithRow == {p \in People : participants[p] # NoRow}

ActivePeople ==
    {p \in People : participants[p] # NoRow /\ participants[p].status = "active"}

PendingIds == {i \in DOMAIN invitations : invitations[i].status = "pending"}

FreeOrders ==
    {o \in Orders : \A p \in People :
        participants[p] # NoRow => participants[p].order # o}

\* Mutant of LowestFreeOrder: the number of rows.
CountedOrder == Cardinality({p \in People : participants[p] # NoRow})

LowestFreeOrder == CHOOSE o \in FreeOrders : \A other \in FreeOrders : o <= other

Occurrences(type) == {n \in DOMAIN events : events[n].type = type}

\* A team that may be frozen: its size within the policy, its orders distinct, and
\* no invitation that could still change it.
TeamComplete ==
    /\ Cardinality(ActivePeople) \in TeamMin..TeamMax
    /\ Cardinality({participants[p].order : p \in ActivePeople})
          = Cardinality(ActivePeople)
    /\ PendingIds = {}

HasRoom == Cardinality(ActivePeople) + Cardinality(PendingIds) < TeamMax

-----------------------------------------------------------------------------
(***************************************************************************)
(* The setup view, as the reducers compute it.  Its team counters,         *)
(* readiness and controls are functions of the fields kept here.           *)
(***************************************************************************)

InitialView ==
    [expedition_status |-> "draft", participants |-> {}, invitations |-> <<>>,
     rotation |-> NoRotation, version |-> 0]

PendingIn(v) == {n \in DOMAIN v.invitations : v.invitations[n].status = "pending"}

OccupiedSlots(v) == Cardinality(v.participants) + Cardinality(PendingIn(v))

InviteControl(v) == v.expedition_status = "draft" /\ OccupiedSlots(v) < TeamMax

\* Mutant of GenerateControl: open invitations are not looked at.
GenerateControlEarly(v) ==
    /\ v.expedition_status = "draft"
    /\ Cardinality(v.participants) \in TeamMin..TeamMax
    /\ v.rotation = NoRotation

GenerateControl(v) ==
    /\ v.expedition_status = "draft"
    /\ Cardinality(v.participants) \in TeamMin..TeamMax
    /\ PendingIn(v) = {}
    /\ v.rotation = NoRotation

StartControl(v) == v.expedition_status = "ready" /\ v.rotation # NoRotation

\* The control is for all invitations; it does not look at their expires_at.
RevokeControl(v) == v.expedition_status = "draft" /\ PendingIn(v) # {}

\* Position of an invitation in the view, 0 when it has been pruned.
EntryOf(v, id) == SelectInSeq(v.invitations, LAMBDA entry : entry.id = id)

PendingEntry(v, id) ==
    EntryOf(v, id) # 0 /\ v.invitations[EntryOf(v, id)].status = "pending"

\* Mutant of Pruned: accepted invitations count as terminal too.
PrunedAnyTerminal(entries) ==
    LET first == SelectInSeq(entries, LAMBDA entry : entry.status # "pending")
    IN  IF Len(entries) < TeamMax \/ first = 0 THEN entries
                                               ELSE RemoveAt(entries, first)

\* A full list gives up its first revoked entry, if it has one.
Pruned(entries) ==
    LET first == SelectInSeq(entries, LAMBDA entry : entry.status = "revoked")
    IN  IF Len(entries) < TeamMax \/ first = 0 THEN entries
                                               ELSE RemoveAt(entries, first)

\* What every setup reducer requires of the context it was given.
SetupContext(context, expected) ==
    /\ context.status = expected
    /\ context.view # NoView
    /\ context.view.version = context.version
    /\ context.view.expedition_status = expected

InviteAllowed(context) ==
    /\ context.view = NoView => context.status = "draft" /\ context.version = 0
    /\ context.view # NoView => SetupContext(context, "draft")
    /\ LET v == IF context.view = NoView THEN InitialView ELSE context.view
       IN  Len(Pruned(v.invitations)) < TeamMax /\ OccupiedSlots(v) < TeamMax

Invited(context, id) ==
    LET v == IF context.view = NoView THEN InitialView ELSE context.view
    IN  [v EXCEPT !.invitations =
                     Append(Pruned(@), [id |-> id, status |-> "pending"]),
                  !.version = context.version + 1]

AcceptAllowed(context, id, person, order) ==
    /\ SetupContext(context, "draft")
    /\ PendingEntry(context.view, id)
    /\ \A seat \in context.view.participants :
          seat.person # person /\ seat.order # order

Accepted(context, id, person, order) ==
    [context.view EXCEPT
        !.invitations[EntryOf(context.view, id)].status = "accepted",
        !.participants = @ \union {[person |-> person, order |-> order]},
        !.version = context.version + 1]

RevokeAllowed(context, id) ==
    SetupContext(context, "draft") /\ PendingEntry(context.view, id)

Revoked(context, id) ==
    [context.view EXCEPT
        !.invitations[EntryOf(context.view, id)].status = "revoked",
        !.version = context.version + 1]

OnboardRole(order) == OnboardRoleCycle[((order - 1) % Len(OnboardRoleCycle)) + 1]

\* The seats that may lead the product: the one with the lowest order does.
CaptainSeats(v) == {seat \in v.participants : OnboardRole(seat.order) # Cook}

RotationPlan(v) ==
    LET captain == CHOOSE seat \in CaptainSeats(v) :
                      \A other \in CaptainSeats(v) : seat.order <= other.order
    IN  {[person |-> seat.person, onboard_role |-> OnboardRole(seat.order),
          product_role |-> IF seat = captain THEN "product_captain"
                                             ELSE "product_support"]
            : seat \in v.participants}

GenerateAllowed(context) ==
    /\ SetupContext(context, "draft")
    /\ GenerateControl(context.view)
    /\ CaptainSeats(context.view) # {}
    /\ Cardinality({seat.order : seat \in context.view.participants})
          = Cardinality(context.view.participants)

Ready(context) ==
    [context.view EXCEPT !.expedition_status = "ready",
                         !.rotation = RotationPlan(context.view),
                         !.version = context.version + 1]

\* What both the start reducer and the transactions require of a plan for a team.
PlanFits(plan, team) ==
    /\ plan # NoRotation
    /\ Cardinality(plan) = Cardinality(team)
    /\ {a.person : a \in plan} = team
    /\ Cardinality({a \in plan : a.product_role = "product_captain"}) = 1
    /\ \A a \in plan : a.onboard_role = Cook => a.product_role = "product_support"

StartAllowed(context) ==
    /\ SetupContext(context, "ready")
    /\ StartControl(context.view)
    /\ Cardinality(context.view.participants) \in TeamMin..TeamMax
    /\ PendingIn(context.view) = {}
    /\ PlanFits(context.view.rotation,
                {seat.person : seat \in context.view.participants})

\* Mutant of Started: the team is left out of the new view.
StartedWithoutTeam(context) ==
    [context.view EXCEPT !.expedition_status = "active", !.participants = {},
                         !.version = context.version + 1]

Started(context) ==
    [context.view EXCEPT !.expedition_status = "active",
                         !.version = context.version + 1]

-----------------------------------------------------------------------------
(***************************************************************************)
(* Invocations                                                             *)
(***************************************************************************)

CurrentContext ==
    [status |-> status, position |-> Len(events), version |-> version, view |-> view]

Finish(w) == flight' = [flight EXCEPT ![w] = Idle]

\* Commands that get past the executor's first look: an invitation that exists,
\* accepted by its own addressee (the email must match), who is not a member.
Arriving(command) ==
    /\ command.kind \in {"accept", "revoke"} => command.invitation \in DOMAIN invitations
    /\ command.kind = "accept" =>
          invitations[command.invitation].person \notin ActivePeople

LoadContext(w) ==
    /\ flight[w].phase = "idle"
    /\ \E command \in Commands :
          /\ Arriving(command)
          /\ flight' = [flight EXCEPT ![w] =
                [phase |-> "loaded", command |-> command,
                 context |-> CurrentContext, order |-> 0]]
    /\ UNCHANGED store

IsOpen(id) == invitations[id].status = "pending" /\ ~invitations[id].lapsed

\* loadAcceptanceCandidate: the invitation and the order to propose.
ReadCandidate(w) ==
    LET f == flight[w]
    IN  /\ f.phase = "loaded"
        /\ f.command.kind = "accept"
        /\ IsOpen(f.command.invitation)
        /\ FreeOrders # {}
        /\ flight' = [flight EXCEPT ![w].phase = "matched",
                                    ![w].order = LowestFreeOrder]
        /\ UNCHANGED store

\* Mutants of ProcessCommand: the projection head stays behind, or only the first
\* event of the batch is appended.
ProcessLeavingHead(context, appended, newView) ==
    /\ context.position = Len(events)
    /\ newView.version = version + 1
    /\ events' = events \o appended
    /\ version' = version
    /\ view' = newView

ProcessFirstEvent(context, appended, newView) ==
    /\ context.position = Len(events)
    /\ newView.version = version + 1
    /\ events' = Append(events, Head(appended))
    /\ version' = version + 1
    /\ view' = newView

\* The receipt, the events and the view, if nothing was appended since the context
\* was loaded; otherwise the wrapper raises version_conflict and all is undone.
ProcessCommand(context, appended, newView) ==
    /\ context.position = Len(events)
    /\ newView.version = version + 1
    /\ events' = events \o appended
    /\ version' = version + 1
    /\ view' = newView

\* Mutant of Resolve: the row is left as it was.
LeaveUnresolved(id, outcome) == UNCHANGED invitations

\* The row of an invitation after a command has resolved it.
Resolve(id, outcome) == invitations' = [invitations EXCEPT ![id].status = outcome]

-----------------------------------------------------------------------------
(***************************************************************************)
(* What each transaction asks of the tables, under the lock of the         *)
(* Expedition, before it calls process_command.                            *)
(***************************************************************************)

MayInvite(person) ==
    /\ status = "draft"
    /\ person \notin ActivePeople
    /\ \A i \in PendingIds : invitations[i].person # person
    /\ HasRoom

MayAccept(id, order) ==
    /\ status = "draft"
    /\ IsOpen(id)
    /\ participants[invitations[id].person] = NoRow
    /\ FreeOrders # {} /\ order = LowestFreeOrder

MayRevoke(id) == status = "draft" /\ IsOpen(id)

MayRotate(plan) ==
    /\ status = "draft"
    /\ TeamComplete
    /\ Occurrences("rotation.generated") = {}
    /\ PlanFits(plan, ActivePeople)
    /\ Cardinality({a.onboard_role : a \in plan}) = Cardinality(ActivePeople)

MayStart(plan) ==
    /\ status = "ready"
    /\ TeamComplete
    /\ view # NoView /\ view.version = version /\ StartControl(view)
    /\ Cardinality(view.participants) = Cardinality(ActivePeople)
    /\ PlanFits(view.rotation, ActivePeople)
    /\ plan = view.rotation

-----------------------------------------------------------------------------
(***************************************************************************)
(* The executors: the reducer decides on the context, the transaction on   *)
(* the tables.                                                             *)
(***************************************************************************)

InviteParticipant(w) ==
    LET f == flight[w]
        id == Len(invitations) + 1
    IN  /\ f.phase = "loaded" /\ f.command.kind = "invite"
        /\ InviteAllowed(f.context)
        /\ MayInvite(f.command.person)
        /\ id <= MaxInvitations
        /\ ProcessCommand(f.context, <<[type |-> "invitation.created", invitation |-> id]>>,
                          Invited(f.context, id))
        /\ invitations' = Append(invitations, [person |-> f.command.person,
                                               lapsed |-> FALSE, status |-> "pending"])
        /\ Finish(w)
        /\ UNCHANGED <<status, participants>>

AcceptInvitation(w) ==
    LET f == flight[w]
        id == f.command.invitation
        person == invitations[id].person
    IN  /\ f.phase = "matched"
        /\ AcceptAllowed(f.context, id, person, f.order)
        /\ MayAccept(id, f.order)
        /\ ProcessCommand(f.context,
              <<[type |-> "invitation.accepted", invitation |-> id, person |-> person],
                [type |-> "participant.added", person |-> person, order |-> f.order]>>,
              Accepted(f.context, id, person, f.order))
        /\ participants' = [participants EXCEPT ![person] =
                               [order |-> f.order, status |-> "active"]]
        /\ Resolve(id, "accepted")
        /\ Finish(w)
        /\ UNCHANGED status

RevokeInvitation(w) ==
    LET f == flight[w]
        id == f.command.invitation
    IN  /\ f.phase = "loaded" /\ f.command.kind = "revoke"
        /\ RevokeAllowed(f.context, id)
        /\ MayRevoke(id)
        /\ ProcessCommand(f.context, <<[type |-> "invitation.revoked", invitation |-> id]>>,
                          Revoked(f.context, id))
        /\ Resolve(id, "revoked")
        /\ Finish(w)
        /\ UNCHANGED <<status, participants>>

GenerateRotation(w) ==
    LET f == flight[w]
        plan == RotationPlan(f.context.view)
    IN  /\ f.phase = "loaded" /\ f.command.kind = "generate_rotation"
        /\ GenerateAllowed(f.context)
        /\ MayRotate(plan)
        /\ ProcessCommand(f.context,
              <<[type |-> "rotation.generated", plan |-> plan],
                [type |-> "expedition.ready"]>>, Ready(f.context))
        /\ status' = "ready"
        /\ Finish(w)
        /\ UNCHANGED <<invitations, participants>>

StartExpedition(w) ==
    LET f == flight[w]
    IN  /\ f.phase = "loaded" /\ f.command.kind = "start"
        /\ StartAllowed(f.context)
        /\ MayStart(Started(f.context).rotation)
        /\ ProcessCommand(f.context,
              <<[type |-> "expedition.started"],
                [type |-> "stage.opened", stage |-> "onboarding"]>>, Started(f.context))
        /\ status' = "active"
        /\ Finish(w)
        /\ UNCHANGED <<invitations, participants>>

\* Refused, failed or cut off: an invocation may end at any point with nothing done.
Abort(w) ==
    /\ flight[w].phase # "idle"
    /\ Finish(w)
    /\ UNCHANGED store

\* An invitation's expires_at passes.  No code writes the status 'expired'.
Lapse(i) ==
    /\ i \in PendingIds
    /\ ~invitations[i].lapsed
    /\ invitations' = [invitations EXCEPT ![i].lapsed = TRUE]
    /\ UNCHANGED <<status, participants, events, version, view, flight>>

\* An operator bans a person's membership and Participant in the database; neither
\* the log nor the view hears of it.
Ban(p) ==
    /\ p \in ActivePeople
    /\ participants' = [participants EXCEPT ![p].status = "banned"]
    /\ UNCHANGED <<status, invitations, events, version, view, flight>>

Write(w) ==
    \/ InviteParticipant(w) \/ AcceptInvitation(w) \/ RevokeInvitation(w)
    \/ GenerateRotation(w) \/ StartExpedition(w)

Next ==
    \/ \E w \in Workers : LoadContext(w) \/ ReadCandidate(w) \/ Write(w) \/ Abort(w)
    \/ \E i \in DOMAIN invitations : Lapse(i)
    \/ \E p \in People : Ban(p)

Spec == Init /\ [][Next]_vars

-----------------------------------------------------------------------------
(***************************************************************************)
(* Safety                                                                  *)
(***************************************************************************)

\* What the log says became of an invitation.
StatusInLog(i) ==
    IF \E n \in Occurrences("invitation.accepted") : events[n].invitation = i
    THEN "accepted"
    ELSE IF \E n \in Occurrences("invitation.revoked") : events[n].invitation = i
         THEN "revoked"
         ELSE "pending"

SeatsInLog ==
    {[person |-> events[n].person, order |-> events[n].order]
        : n \in Occurrences("participant.added")}

\* Rows, view and log tell one story: replaying the events gives the rows of
\* invitations and participants (an operator's bans apart), and the view but for
\* revoked invitations it has pruned.
RowsAndViewFollowLog ==
    /\ {[person |-> p, order |-> participants[p].order]
           : p \in {q \in People : participants[q] # NoRow}} = SeatsInLog
    /\ {events[n].invitation : n \in Occurrences("invitation.created")}
          = DOMAIN invitations
    /\ \A i \in DOMAIN invitations : invitations[i].status = StatusInLog(i)
    /\ view # NoView =>
          /\ view.participants = SeatsInLog
          /\ \A i \in DOMAIN invitations :
                IF EntryOf(view, i) = 0
                THEN StatusInLog(i) = "revoked"
                ELSE view.invitations[EntryOf(view, i)].status = StatusInLog(i)

\* The seats of the team and the invitations still open never exceed the policy,
\* also when acceptances, new invitations and bans race.
TeamWithinCapacity ==
    Cardinality(ActivePeople)
      + Cardinality({i \in DOMAIN invitations : invitations[i].status = "pending"})
        <= TeamMax

\* A person takes a seat by accepting exactly one invitation, holds at most one open
\* invitation at a time, and no two people ever share an order.
OneSeatPerPerson ==
    /\ \A p \in People :
          LET own(s) == {i \in DOMAIN invitations :
                            invitations[i].person = p /\ invitations[i].status = s}
          IN  /\ Cardinality(own("accepted")) = IF participants[p] = NoRow THEN 0 ELSE 1
              /\ Cardinality(own("pending")) <= 1
    /\ \A p, q \in People :
          p # q /\ participants[p] # NoRow /\ participants[q] # NoRow
             => participants[p].order # participants[q].order

\* The setup view is never behind: it carries the current projection version and the
\* status of the Expedition, which every reducer and transaction of the setup
\* demands of it before it does anything.
SetupViewCurrent ==
    IF view = NoView
    THEN version = 0 /\ status = "draft"
    ELSE view.version = version /\ view.expedition_status = status

\* The one-time events are in the log exactly when the status says so, once each:
\* however many captains' commands race, the rotation is generated once and the
\* Expedition started once, in this order.
StatusMatchesHistory ==
    LET times(type) == Cardinality(Occurrences(type))
        reached(stages) == IF status \in stages THEN 1 ELSE 0
    IN  /\ times("rotation.generated") = reached({"ready", "active"})
        /\ times("expedition.ready") = reached({"ready", "active"})
        /\ times("expedition.started") = reached({"active"})
        /\ times("stage.opened") = reached({"active"})

\* From the rotation on the team is frozen: no seat, no invitation and no assignment
\* of the plan changes any more, neither in the rows nor in the view.
TeamFrozenAfterRotation ==
    [][status # "draft" =>
          /\ invitations' = invitations
          /\ \A p \in People : (participants[p] = NoRow) <=> (participants'[p] = NoRow)
          /\ view'.participants = view.participants
          /\ view'.rotation = view.rotation]_vars

\* An Expedition starts only with the very team its plan was made for: everyone who
\* has a role is active at that moment and everyone active has one, each a
\* different onboard role, one Product Captain, and not the cook.
StartsWithPlannedTeam ==
    [][status # "active" /\ status' = "active" =>
          \E n \in Occurrences("rotation.generated") :
             LET plan == events[n].plan
             IN  /\ {a.person : a \in plan}
                       = {p \in People : participants[p] # NoRow
                                           /\ participants[p].status = "active"}
                 /\ \A a, b \in plan :
                       a # b => a.person # b.person /\ a.onboard_role # b.onboard_role
                 /\ \E a \in plan :
                       /\ a.product_role = "product_captain"
                       /\ a.onboard_role # Cook
                       /\ \A b \in plan \ {a} : b.product_role # "product_captain"]_vars

\* What the four controls of the view are worth to a captain who sees its current
\* version, while no operator has interfered.  Inviting, generating and starting are
\* granted by the reducer and by the transaction whenever they are offered.  Revoking
\* is offered while an invitation is pending, and granted for exactly those that
\* have not lapsed: once none but lapsed ones are left the control is offered, and
\* the transaction refuses (invitation_expired).
ControlsHonestUntilLapse ==
    view # NoView /\ (\A p \in People : participants[p] # NoRow => p \in ActivePeople) =>
        /\ InviteControl(view) => InviteAllowed(CurrentContext) /\ HasRoom
        /\ RevokeControl(view) =>
              /\ PendingIds # {}
              /\ \A i \in PendingIds :
                    /\ RevokeAllowed(CurrentContext, i)
                    /\ MayRevoke(i) <=> ~invitations[i].lapsed
        /\ GenerateControl(view) =>
              /\ GenerateAllowed(CurrentContext)
              /\ TeamComplete
              /\ PlanFits(RotationPlan(view), ActivePeople)
        /\ StartControl(view) =>
              /\ StartAllowed(CurrentContext)
              /\ TeamComplete
              /\ PlanFits(view.rotation, ActivePeople)

-----------------------------------------------------------------------------
(***************************************************************************)
(* Liveness                                                                *)
(***************************************************************************)

\* The most anyone could hope for: every invocation ends, captains try again and
\* again to revoke each invitation, invitees to accept theirs, and whatever can be
\* written infinitely often is.
Fairness ==
    \A w \in Workers :
        /\ WF_vars(Abort(w))
        /\ SF_vars(ReadCandidate(w))
        /\ SF_vars(AcceptInvitation(w))
        /\ SF_vars(RevokeInvitation(w))
        /\ \A c \in [kind: {"accept", "revoke"}, invitation: InvitationIds] :
              SF_vars(LoadContext(w) /\ flight'[w].command = c)

FairSpec == Spec /\ Fairness

\* docs/architecture/expedition-setup-and-day1-pilot-runtime.md describes the
\* transition "pending --trusted expiry--> expired": an invitation whose time has
\* passed eventually leaves the state "pending".
ExpiredInvitationsBecomeTerminal ==
    \A i \in InvitationIds :
        (i \in DOMAIN invitations /\ invitations[i].lapsed
           /\ invitations[i].status = "pending")
          ~> (i \in DOMAIN invitations /\ invitations[i].status # "pending")
=============================================================================
